-------------------------- MODULE Reconcile_proofs --------------------------
(***************************************************************************)
(* Theorems about the reconciliation tool, for every value of its          *)
(* constants: however the node's log grows and cuts it into pages.         *)
(***************************************************************************)
EXTENDS Reconcile, DataLemmas, FiniteSetTheorems, TLAPS

(* The inductive invariant.  While a topic is fetched, the list holds what  *)
(* comes before the cursor; afterwards it holds what came before some       *)
(* position, beyond which nothing matches if the range was past at launch.  *)
(* The exit code is that of the tips in the list.                           *)
Drained(fetched, topic) ==
    \E p \in 0 .. Len(log) :
        /\ Snapshot(fetched, topic, p)
        /\ range.last < launched => \A i \in Matching(topic) : i =< p

ExitIsBadTips == Reported => (phase = "drift" <=> BadTips(tipped) # {})

RecInv ==
    /\ TypeOK /\ ListsAreSnapshots /\ ExitIsBadTips
    /\ phase = "idle" => tipped = Nothing /\ claimed = Nothing /\ cursor = 0
    /\ phase = "tipped" => Snapshot(tipped, "tipped", cursor) /\ claimed = Nothing
    /\ phase = "claimed" => Snapshot(claimed, "claimed", cursor)
    /\ phase = "claimed" \/ Reported => Drained(tipped, "tipped")
    /\ Reported => Drained(claimed, "claimed")

-----------------------------------------------------------------------------
(* Types.                                                                   *)

(* The fields of an event.                                                  *)
LEMMA EventFacts ==
    ASSUME NEW e \in Event
    PROVE  /\ e.ledger \in Nat /\ e.amount \in Nat /\ e.recipient \in Author
           /\ e.type \in {"tipped", "claimed"}
           /\ e.type = "tipped" => e.fee \in Nat /\ e.net \in Nat /\ e.gist_id \in GistId
BY DEF Event

(* The fields of the log's events.                                          *)
LEMMA LogFacts ==
    ASSUME TypeOK
    PROVE  /\ Len(log) \in Nat /\ DOMAIN log = 1 .. Len(log) /\ DOMAIN log \subseteq Position
           /\ \A i \in DOMAIN log : log[i] \in Event
           /\ IsFiniteSet(Tips) /\ Tips \subseteq DOMAIN log
           /\ IsFiniteSet(Claims) /\ Claims \subseteq DOMAIN log
<1>1. Len(log) \in Nat /\ DOMAIN log = 1 .. Len(log) /\ Len(log) =< MaxEvents
      /\ MaxEvents \in Nat
    BY ReconcileAssumption DEF TypeOK
<1>2. \A i \in DOMAIN log : log[i] \in Event
    BY DEF TypeOK
<1>3. IsFiniteSet(DOMAIN log)
    BY <1>1, FS_Interval
<1>4. Tips \subseteq DOMAIN log /\ Claims \subseteq DOMAIN log
    BY DEF Tips, Claims
<1> QED BY <1>1, <1>2, <1>3, <1>4, FS_Subset DEF Position

(* A balance is an integer, whatever lists it is computed from.             *)
LEMMA BalanceIsInt ==
    ASSUME TypeOK, NEW tips, NEW claims, NEW a,
           \A i \in Position : tips[i] \in Nat /\ claims[i] \in Nat
    PROVE  /\ NetTo(tips, a) \in Int /\ ClaimedBy(claims, a) \in Int
           /\ PendingBalance(tips, claims, a) \in Int
<1> DEFINE f == [i \in Tips |-> tips[i] * log[i].net]
           F == {i \in Tips : log[i].recipient = a}
           g == [i \in Claims |-> claims[i] * log[i].amount]
           G == {i \in Claims : log[i].recipient = a}
<1>1. IsFiniteSet(F) /\ IsFiniteSet(G)
    BY LogFacts, FS_Subset
<1>2. \A i \in F : f[i] \in Int
  <2> TAKE i \in F
  <2>1. tips[i] \in Nat /\ log[i].net \in Nat
      BY LogFacts, EventFacts DEF Tips
  <2> QED BY <2>1
<1>3. \A i \in G : g[i] \in Int
  <2> TAKE i \in G
  <2>1. claims[i] \in Nat /\ log[i].amount \in Nat
      BY LogFacts, EventFacts DEF Claims
  <2> QED BY <2>1
<1>4. NetTo(tips, a) = SumFunctionOnSet(f, F) /\ ClaimedBy(claims, a) = SumFunctionOnSet(g, G)
    BY DEF NetTo, ClaimedBy
<1> HIDE DEF f, g, F, G
<1>5. NetTo(tips, a) \in Int /\ ClaimedBy(claims, a) \in Int
    BY <1>1, <1>2, <1>3, <1>4, SumInt
<1> QED BY <1>5 DEF PendingBalance

(* So is the total of a gist.                                               *)
LEMMA TotalIsInt ==
    ASSUME TypeOK, NEW tips, NEW g, \A i \in Position : tips[i] \in Nat
    PROVE  GistTotal(tips, g) \in Int
<1> DEFINE f == [i \in Tips |-> tips[i] * log[i].amount]
           F == {i \in Tips : log[i].gist_id = g}
<1>1. IsFiniteSet(F)
    BY LogFacts, FS_Subset
<1>2. \A i \in F : f[i] \in Int
  <2> TAKE i \in F
  <2>1. tips[i] \in Nat /\ log[i].amount \in Nat
      BY LogFacts, EventFacts DEF Tips
  <2> QED BY <2>1
<1>3. GistTotal(tips, g) = SumFunctionOnSet(f, F)
    BY DEF GistTotal
<1> HIDE DEF f, F
<1> QED BY <1>1, <1>2, <1>3, SumInt

-----------------------------------------------------------------------------
(* Balances built event by event.                                           *)

(* The tables of the loop, one after each position of the log.              *)
Tables(t, start, terms) ==
    t = [n \in 0 .. Len(log) |->
            IF n = 0 THEN start
            ELSE IF n \in DOMAIN terms
            THEN [t[n - 1] EXCEPT ![log[n].recipient] = @ + terms[n]]
            ELSE t[n - 1]]

Of(terms, a) == {i \in DOMAIN terms : log[i].recipient = a}

(* What the first n positions add to each entry.                            *)
UpTo(n, start, terms) ==
    [a \in Author |->
        start[a] + SumFunctionOnSet(terms, {j \in 1 .. n : j \in Of(terms, a)})]

(* One turn of the loop adds one term to one sum.                           *)
LEMMA OneTurn ==
    ASSUME TypeOK, NEW start \in [Author -> Int], NEW terms,
           DOMAIN terms \subseteq DOMAIN log, \A i \in DOMAIN terms : terms[i] \in Int,
           NEW n \in 1 .. Len(log)
    PROVE  UpTo(n, start, terms) =
             IF n \in DOMAIN terms
             THEN [UpTo(n - 1, start, terms) EXCEPT ![log[n].recipient] = @ + terms[n]]
             ELSE UpTo(n - 1, start, terms)
<1> DEFINE sum(m, a) == SumFunctionOnSet(terms, {j \in 1 .. m : j \in Of(terms, a)})
<1>1. ASSUME NEW a \in Author
      PROVE  /\ sum(n - 1, a) \in Int
             /\ sum(n, a) = sum(n - 1, a) + IF n \in Of(terms, a) THEN terms[n] ELSE 0
  <2> DEFINE before == {j \in 1 .. n - 1 : j \in Of(terms, a)}
             after == {j \in 1 .. n : j \in Of(terms, a)}
  <2>1. /\ IsFiniteSet(before) /\ IsFiniteSet(after)
        /\ \A j \in before : terms[j] \in Int
        /\ \A j \in after : terms[j] \in Int
    <3>1. /\ IsFiniteSet(DOMAIN log)
          /\ before \subseteq DOMAIN log /\ after \subseteq DOMAIN log
      <4>1. before \subseteq DOMAIN log /\ after \subseteq DOMAIN log
          BY DEF Of
      <4>2. IsFiniteSet(1 .. Len(log)) /\ DOMAIN log = 1 .. Len(log)
          BY LogFacts, FS_Interval
      <4> HIDE DEF before, after
      <4> QED BY <4>1, <4>2
    <3>2. /\ \A j \in before : terms[j] \in Int
          /\ \A j \in after : terms[j] \in Int
        BY DEF Of
    <3> HIDE DEF before, after
    <3> QED BY <3>1, <3>2, FS_Subset
  <2>2. /\ n \in Of(terms, a) => n \in after /\ before = after \ {n}
        /\ n \notin Of(terms, a) => before = after
    <3>1. n \in Int /\ 1 .. n = (1 .. n - 1) \cup {n} /\ n \notin 1 .. n - 1
        BY LogFacts
    <3> QED BY <3>1, Zenon
  <2>3. /\ sum(n - 1, a) = SumFunctionOnSet(terms, before)
        /\ sum(n, a) = SumFunctionOnSet(terms, after)
      OBVIOUS
  <2> HIDE DEF before, after, sum
  <2>4. SumFunctionOnSet(terms, before) \in Int
      BY <2>1, SumInt
  <2>5. CASE n \in Of(terms, a)
    <3>1. n \in after /\ before = after \ {n}
        BY <2>2, <2>5
    <3>2. SumFunctionOnSet(terms, after)
            = terms[n] + SumFunctionOnSet(terms, after \ {n})
        BY <2>1, <3>1, SumRemove, ZenonT(60)
    <3>3. terms[n] \in Int
        BY <2>1, <3>1
    <3> QED BY <2>3, <2>4, <2>5, <3>1, <3>2, <3>3
  <2>6. CASE n \notin Of(terms, a)
      BY <2>2, <2>3, <2>4, <2>6
  <2> QED BY <2>5, <2>6
<1>2. /\ UpTo(n, start, terms) = [a \in Author |-> start[a] + sum(n, a)]
      /\ UpTo(n - 1, start, terms) = [a \in Author |-> start[a] + sum(n - 1, a)]
    BY DEF UpTo
<1>3. log[n].recipient \in Author
    BY LogFacts, EventFacts
<1>4. \A a : n \in Of(terms, a) <=> n \in DOMAIN terms /\ log[n].recipient = a
    BY DEF Of
<1>5. n \in DOMAIN terms => terms[n] \in Int
    OBVIOUS
<1> HIDE DEF sum
<1>6. CASE n \in DOMAIN terms
  <2>1. \A a \in Author : start[a] + sum(n, a) =
           IF a = log[n].recipient THEN start[a] + sum(n - 1, a) + terms[n]
           ELSE start[a] + sum(n - 1, a)
      BY <1>1, <1>4, <1>5, <1>6
  <2> QED BY <1>2, <1>3, <1>6, <2>1
<1>7. CASE n \notin DOMAIN terms
  <2>1. \A a \in Author : sum(n, a) = sum(n - 1, a)
      BY <1>1, <1>4, <1>7
  <2> QED BY <1>2, <1>7, <2>1
<1> QED BY <1>6, <1>7

(* Before the first, nothing.                                               *)
LEMMA NoTurn ==
    ASSUME NEW start \in [Author -> Int], NEW terms
    PROVE  UpTo(0, start, terms) = start
<1>1. \A a : {j \in 1 .. 0 : j \in Of(terms, a)} = {}
    OBVIOUS
<1>2. UpTo(0, start, terms) = [a \in Author |-> start[a] + 0]
    BY <1>1, SumEmpty DEF UpTo
<1> QED BY <1>2

(* So the loop adds to each author's entry the sum of its terms.            *)
LEMMA TurnsAddUp ==
    ASSUME TypeOK, NEW start \in [Author -> Int], NEW terms,
           DOMAIN terms \subseteq DOMAIN log, \A i \in DOMAIN terms : terms[i] \in Int
    PROVE  AddedInTurn(start, terms)
             = [a \in Author |-> start[a] + SumFunctionOnSet(terms, Of(terms, a))]
<1>0. Len(log) \in Nat /\ DOMAIN log = 1 .. Len(log)
    BY LogFacts
<1> DEFINE u == [n \in 0 .. Len(log) |-> UpTo(n, start, terms)]
           t == CHOOSE t : Tables(t, start, terms)
<1>1. Tables(u, start, terms)
  <2>1. ASSUME NEW n \in 0 .. Len(log)
        PROVE  u[n] = IF n = 0 THEN start
                      ELSE IF n \in DOMAIN terms
                      THEN [u[n - 1] EXCEPT ![log[n].recipient] = @ + terms[n]]
                      ELSE u[n - 1]
    <3>1. CASE n = 0
        BY <3>1, NoTurn
    <3>2. CASE n # 0
      <4>1. n \in 1 .. Len(log) /\ n - 1 \in 0 .. Len(log)
          BY <1>0, <3>2
      <4>2. u[n] = UpTo(n, start, terms) /\ u[n - 1] = UpTo(n - 1, start, terms)
          BY <4>1
      <4> HIDE DEF u
      <4> QED BY <3>2, <4>1, <4>2, OneTurn
    <3> QED BY <3>1, <3>2
  <2>2. u = [n \in 0 .. Len(log) |-> u[n]]
      OBVIOUS
  <2> HIDE DEF u
  <2> QED BY <2>1, <2>2 DEF Tables
<1>2. Tables(t, start, terms)
  <2> HIDE DEF u
  <2> QED BY <1>1
<1>3. AddedInTurn(start, terms) = t[Len(log)]
    BY Zenon DEF AddedInTurn, Tables
<1> HIDE DEF u, t
<1>4. \A n \in 0 .. Len(log) :
         t[n] = IF n = 0 THEN start
                ELSE IF n \in DOMAIN terms
                THEN [t[n - 1] EXCEPT ![log[n].recipient] = @ + terms[n]]
                ELSE t[n - 1]
    BY <1>2 DEF Tables
<1> DEFINE A == {n \in 0 .. Len(log) : t[n] = UpTo(n, start, terms)}
<1>5. 0 \in A
  <2>1. 0 \in 0 .. Len(log)
      BY <1>0
  <2>2. t[0] = start
      BY <1>4, <2>1
  <2>3. t[0] = UpTo(0, start, terms)
      BY <2>2, NoTurn
  <2> QED BY <2>1, <2>3
<1>6. ASSUME NEW n \in 1 .. Len(log), n - 1 \in A PROVE n \in A
  <2>1. n \in 0 .. Len(log) /\ n # 0 /\ t[n - 1] = UpTo(n - 1, start, terms)
      BY <1>0, <1>6
  <2> QED BY <1>4, <2>1, OneTurn
<1>7. Len(log) \in A
  <2> HIDE DEF A
  <2> QED BY <1>0, <1>5, <1>6, CountingInduction
<1>8. \A a : {j \in 1 .. Len(log) : j \in Of(terms, a)} = Of(terms, a)
    BY <1>0 DEF Of
<1> QED BY <1>3, <1>7, <1>8 DEF UpTo

(* Hence the balance that is printed is the one the check computes, for     *)
(* every log and whatever lists were fetched from it.                       *)
THEOREM BalancesAgree ==
    ASSUME TypeOK, NEW tips, NEW claims, NEW a \in Author,
           \A i \in Position : tips[i] \in Nat /\ claims[i] \in Nat
    PROVE  PendingBalances(tips, claims)[a] = PendingBalance(tips, claims, a)
<1> DEFINE zero == [b \in Author |-> 0]
           f == [i \in Tips |-> tips[i] * log[i].net]
           g == [i \in Claims |-> - (claims[i] * log[i].amount)]
           h == [i \in Claims |-> claims[i] * log[i].amount]
           G == {i \in Claims : log[i].recipient = a}
           credited == AddedInTurn(zero, f)
<1>1. /\ DOMAIN f = Tips /\ DOMAIN g = Claims
      /\ Tips \subseteq DOMAIN log /\ Claims \subseteq DOMAIN log
      /\ IsFiniteSet(Tips) /\ IsFiniteSet(Claims)
    BY LogFacts
<1>2. \A i \in Tips : f[i] \in Int
  <2> TAKE i \in Tips
  <2>1. tips[i] \in Nat /\ log[i].net \in Nat
      BY LogFacts, EventFacts DEF Tips
  <2> QED BY <2>1
<1>3. \A i \in Claims : g[i] \in Int /\ h[i] \in Int /\ g[i] = -1 * h[i]
  <2> TAKE i \in Claims
  <2>1. claims[i] \in Nat /\ log[i].amount \in Nat
      BY LogFacts, EventFacts DEF Claims
  <2> DEFINE x == claims[i] * log[i].amount
  <2>2. x \in Int /\ g[i] = - x /\ h[i] = x
      BY <2>1
  <2> HIDE DEF x, g, h
  <2> QED BY <2>2
<1>4. PendingBalances(tips, claims) = AddedInTurn(credited, g)
    BY DEF PendingBalances
<1>5. /\ NetTo(tips, a) = SumFunctionOnSet(f, Of(f, a))
      /\ ClaimedBy(claims, a) = SumFunctionOnSet(h, G) /\ G = Of(g, a)
    BY DEF NetTo, ClaimedBy, Of
<1>6. zero \in [Author -> Int] /\ zero[a] = 0
    OBVIOUS
<1> HIDE DEF f, g, h, G, zero
<1>7. credited = [b \in Author |-> zero[b] + SumFunctionOnSet(f, Of(f, b))]
    BY <1>1, <1>2, <1>6, TurnsAddUp
<1>8. \A b \in Author : SumFunctionOnSet(f, Of(f, b)) \in Int
  <2> TAKE b \in Author
  <2>1. Of(f, b) \subseteq Tips /\ IsFiniteSet(Of(f, b))
      BY <1>1, FS_Subset DEF Of
  <2> QED BY <1>2, <2>1, SumInt
<1>9. credited \in [Author -> Int] /\ credited[a] = SumFunctionOnSet(f, Of(f, a))
    BY <1>6, <1>7, <1>8
<1> HIDE DEF credited
<1>10. AddedInTurn(credited, g) = [b \in Author |-> credited[b] + SumFunctionOnSet(g, Of(g, b))]
    BY <1>1, <1>3, <1>9, TurnsAddUp
<1>11. IsFiniteSet(G) /\ G \subseteq Claims
    BY <1>1, <1>5, FS_Subset DEF Of
<1>12. SumFunctionOnSet(g, G) = -1 * SumFunctionOnSet(h, G) /\ SumFunctionOnSet(h, G) \in Int
  <2>1. PICK c \in Int : c = -1
      OBVIOUS
  <2>2. \A i \in G : h[i] \in Int /\ g[i] = c * h[i]
      BY <1>3, <1>11, <2>1
  <2>3. SumFunctionOnSet(g, G) = c * SumFunctionOnSet(h, G)
      BY <1>11, <2>2, SumScale
  <2> QED BY <1>11, <2>1, <2>2, <2>3, SumInt
<1> QED BY <1>4, <1>5, <1>8, <1>9, <1>10, <1>12 DEF PendingBalance

-----------------------------------------------------------------------------
(* What the vault publishes are events of the current ledger.               *)
LEMMA TipsAreEvents ==
    ASSUME TypeOK, NEW tips \in Seq(TipItem), NEW data \in Data, NEW i \in DOMAIN tips
    PROVE  TippedEvent(tips[i], data) \in Event /\ TippedEvent(tips[i], data).ledger = ledger
<1>1. tips[i] \in TipItem /\ data \in Encoding /\ ledger \in Nat
    BY ReconcileAssumption DEF TypeOK
<1> DEFINE tip == tips[i]
<1>2. /\ tip.recipient \in Author /\ tip.gist_id \in GistId
      /\ tip.amount \in Nat /\ tip.fee \in Nat /\ tip.net \in Nat
    BY <1>1 DEF TipItem
<1> HIDE DEF tip, Encoding
<1>3. [type |-> "tipped", gist_id |-> tip.gist_id, recipient |-> tip.recipient,
       amount |-> tip.amount, fee |-> tip.fee, net |-> tip.net,
       data |-> data, ledger |-> ledger] \in Event
    BY <1>1, <1>2 DEF Event
<1> QED BY <1>3 DEF TippedEvent, tip

(* A claim is an event.                                                     *)
LEMMA ClaimIsEvent ==
    ASSUME TypeOK, NEW author \in Author, NEW data \in Data, Owed(author) > 0
    PROVE  /\ ClaimedEvent(author, Owed(author), data) \in Event
           /\ ClaimedEvent(author, Owed(author), data).ledger = ledger
<1>1. data \in Encoding /\ ledger \in Nat
    BY ReconcileAssumption DEF TypeOK
<1>2. Owed(author) \in Int
  <2>1. \A i \in Position : Everything[i] \in Nat
      BY DEF Everything
  <2> QED BY <2>1, BalanceIsInt DEF Owed
<1>3. Owed(author) \in Nat
    BY <1>2
<1> HIDE DEF Owed, Encoding
<1> QED BY <1>1, <1>3 DEF Event, ClaimedEvent

-----------------------------------------------------------------------------
(* The log grows.                                                           *)

(* What two sequences joined hold.                                          *)
LEMMA Joined ==
    ASSUME NEW X, NEW s \in Seq(X), NEW t \in Seq(X)
    PROVE  /\ s \o t \in Seq(X) /\ Len(s) \in Nat /\ Len(t) \in Nat
           /\ Len(s \o t) = Len(s) + Len(t)
           /\ DOMAIN s = 1 .. Len(s) /\ DOMAIN t = 1 .. Len(t)
           /\ DOMAIN (s \o t) = 1 .. Len(s) + Len(t)
           /\ \A i \in 1 .. Len(s) : (s \o t)[i] = s[i]
           /\ \A i \in 1 .. Len(s) + Len(t) :
                 i > Len(s) => i - Len(s) \in DOMAIN t /\ (s \o t)[i] = t[i - Len(s)]
           /\ \A j \in 1 .. Len(t) : (s \o t)[Len(s) + j] = t[j]
OBVIOUS

(* Events of the current ledger added to the log keep the invariant.        *)
LEMMA AppendStep ==
    ASSUME RecInv, NEW new \in Seq(Event), \A j \in DOMAIN new : new[j].ledger = ledger,
           Len(log) + Len(new) =< MaxEvents, log' = log \o new,
           UNCHANGED <<ledger, phase, range, launched, cursor, tipped, claimed>>
    PROVE  RecInv'
<1>1. /\ TypeOK /\ Len(log) \in Nat /\ log \in Seq(Event) /\ ledger \in Nat
      /\ launched \in Nat /\ launched =< ledger /\ range.last \in Nat
      /\ DOMAIN log = 1 .. Len(log) /\ tipped \in [Position -> Nat]
      /\ claimed \in [Position -> Nat] /\ MaxEvents \in Nat /\ cursor \in 0 .. Len(log)
      /\ Len(new) \in Nat
    BY ReconcileAssumption DEF RecInv, TypeOK
<1>2. /\ log' \in Seq(Event) /\ Len(log') = Len(log) + Len(new)
      /\ DOMAIN log' = 1 .. Len(log) + Len(new)
      /\ \A i \in 1 .. Len(log) : log'[i] = log[i]
      /\ \A i \in 1 .. Len(log') : i > Len(log) => log'[i].ledger = ledger
    BY <1>1, Joined
<1>3. TypeOK'
    BY <1>1, <1>2 DEF TypeOK
<1>4. \A t, i : i \in 1 .. Len(log) =>
         (i \in Matching(t) \cap Decodable <=> i \in Matching(t)' \cap Decodable')
    BY <1>1, <1>2 DEF Matching, Decodable
<1>5. \A f, t : \A p \in 0 .. Len(log) : Snapshot(f, t, p) => Snapshot(f, t, p)'
  <2> SUFFICES ASSUME NEW f, NEW t, NEW p \in 0 .. Len(log), Snapshot(f, t, p),
                      NEW i \in Position
               PROVE  f[i] = IF i =< p /\ i \in Matching(t)' \cap Decodable' THEN 1 ELSE 0
      BY DEF Snapshot
  <2>1. f[i] = IF i =< p /\ i \in Matching(t) \cap Decodable THEN 1 ELSE 0
      BY DEF Snapshot
  <2>2. i =< p => i \in 1 .. Len(log)
      BY <1>1 DEF Position
  <2> QED BY <1>4, <2>1, <2>2
<1>6. \A p \in 0 .. Len(log) : p \in 0 .. Len(log')
    BY <1>1, <1>2
<1>7. ListsAreSnapshots'
    BY <1>5, <1>6 DEF RecInv, ListsAreSnapshots
<1>8. phase # "idle" =>
         \A f, t : Drained(f, t) => Drained(f, t)'
  <2> SUFFICES ASSUME NEW f, NEW t, Drained(f, t) PROVE Drained(f, t)'
      OBVIOUS
  <2>1. PICK p \in 0 .. Len(log) : /\ Snapshot(f, t, p)
                                   /\ range.last < launched =>
                                         \A i \in Matching(t) : i =< p
      BY DEF Drained
  <2>2. ASSUME range.last < launched, NEW i \in Matching(t)' PROVE i =< p
    <3>1. i \in 1 .. Len(log') /\ ~ i > Len(log)
        BY <1>1, <1>2, <2>2 DEF Matching
    <3>2. i \in 1 .. Len(log)
        BY <1>1, <1>2, <3>1
    <3>3. i \in Matching(t)
        BY <1>1, <1>2, <3>2 DEF Matching
    <3> QED BY <2>1, <2>2, <3>3
  <2> QED BY <1>5, <1>6, <2>1, <2>2 DEF Drained
<1>9. ExitIsBadTips'
  <2> SUFFICES ASSUME Reported
               PROVE  phase = "drift" <=> BadTips(tipped)' # {}
      BY DEF ExitIsBadTips, Reported
  <2>1. \A i \in 1 .. Len(log') : i > Len(log) => tipped[i] = 0
    <3>1. PICK p \in 0 .. Len(log) : Snapshot(tipped, "tipped", p)
        BY DEF RecInv, ListsAreSnapshots
    <3>2. 1 .. Len(log') \subseteq Position
        BY <1>1, <1>2 DEF Position
    <3> QED BY <1>1, <3>1, <3>2 DEF Snapshot
  <2>2. \A i \in 1 .. Len(log) :
           /\ i \in Tips' <=> i \in Tips
           /\ i \in BadTips(tipped)' <=> i \in BadTips(tipped)
      BY <1>1, <1>2 DEF Tips, BadTips
  <2>3. BadTips(tipped)' = BadTips(tipped)
    <3>1. ASSUME NEW i \in BadTips(tipped)' PROVE i \in 1 .. Len(log)
      <4>1. i \in 1 .. Len(log') /\ tipped[i] > 0
          BY <1>2, <3>1 DEF BadTips, Tips
      <4>2. ~ i > Len(log)
          BY <2>1, <4>1
      <4>3. i \in Nat /\ i >= 1 /\ Len(log) \in Nat
          BY <1>1, <1>2, <4>1
      <4> QED BY <4>2, <4>3
    <3>2. BadTips(tipped) \subseteq 1 .. Len(log)
        BY <1>1 DEF BadTips, Tips
    <3> QED BY <2>2, <3>1, <3>2
  <2> QED BY <2>3 DEF RecInv, ExitIsBadTips
<1>10. phase = "tipped" => Snapshot(tipped, "tipped", cursor)'
    BY <1>1, <1>5 DEF RecInv
<1>11. phase = "claimed" => Snapshot(claimed, "claimed", cursor)'
    BY <1>1, <1>5 DEF RecInv
<1>12. phase = "claimed" \/ Reported => Drained(tipped, "tipped")'
    BY <1>8 DEF RecInv, Reported
<1>13. Reported => Drained(claimed, "claimed")'
    BY <1>8 DEF RecInv, Reported
<1> QED BY <1>3, <1>7, <1>9, <1>10, <1>11, <1>12, <1>13 DEF RecInv, Reported, Nothing

-----------------------------------------------------------------------------
(* The tool's steps.                                                        *)

(* A page extends a snapshot to the position the page reached.              *)
LEMMA PushExtends ==
    ASSUME NEW f, NEW upto \in Nat, cursor \in Nat, cursor =< upto,
           Snapshot(f, phase, cursor)
    PROVE  LET g == Push(f, Page(upto) \cap Decodable) IN
           g \in [Position -> Nat] /\ Snapshot(g, phase, upto)
<1> DEFINE events == Page(upto) \cap Decodable
           g == Push(f, events)
<1>1. ASSUME NEW i \in Position
      PROVE  /\ g[i] \in Nat
             /\ g[i] = IF i =< upto /\ i \in Matching(phase) \cap Decodable THEN 1 ELSE 0
  <2>1. i \in Nat /\ g[i] = f[i] + IF i \in events THEN 1 ELSE 0
      BY DEF Position, Push
  <2>2. f[i] = IF i =< cursor /\ i \in Matching(phase) \cap Decodable THEN 1 ELSE 0
      BY DEF Snapshot
  <2>3. i \in events <=> cursor < i /\ i =< upto /\ i \in Matching(phase) \cap Decodable
      BY DEF Page
  <2> HIDE DEF events, g
  <2> QED BY <2>1, <2>2, <2>3
<1>2. g = [i \in Position |-> g[i]]
    BY DEF Push
<1> HIDE DEF g
<1> QED BY <1>1, <1>2 DEF Snapshot, g

(* So the drift check finds no tips but those that do not add up.           *)
LEMMA OnlyBadTips ==
    ASSUME TypeOK, NEW tips, NEW claims,
           \A i \in Position : tips[i] \in Nat /\ claims[i] \in Nat
    PROVE  DriftDetected(tips, claims) <=> BadTips(tips) # {}
BY BalancesAgree DEF DriftDetected

(* A page fetched keeps the invariant.                                      *)
LEMMA FetchPageStep ==
    ASSUME RecInv, NEW upto \in 0 .. Len(log), NEW more \in BOOLEAN, FetchPage(upto, more)
    PROVE  RecInv'
<1> DEFINE tips == IF phase = "tipped" THEN Push(tipped, Page(upto) \cap Decodable) ELSE tipped
           claims == IF phase = "claimed" THEN Push(claimed, Page(upto) \cap Decodable)
                     ELSE claimed
<1>1. /\ TypeOK /\ phase \in {"tipped", "claimed"} /\ cursor =< upto
      /\ ~ more => \A i \in Matching(phase) : i =< upto
      /\ tipped' = tips /\ claimed' = claims
      /\ UNCHANGED <<log, ledger, range, launched>>
    BY DEF RecInv, FetchPage, Answer, node
<1>2. /\ more => cursor' = upto /\ phase' = phase
      /\ ~ more => /\ cursor' = 0
                   /\ phase' = IF phase = "tipped" THEN "claimed"
                               ELSE IF DriftDetected(tips, claims) THEN "drift" ELSE "clean"
    BY DEF FetchPage, EndOfPages, NextCursor, FetchOrder
<1>3. /\ Len(log) \in Nat /\ upto \in Nat /\ cursor \in Nat
      /\ tipped \in [Position -> Nat] /\ claimed \in [Position -> Nat]
    BY <1>1 DEF TypeOK
<1>4. /\ \A f, t : Snapshot(f, t, 0)' <=> \A i \in Position : f[i] = 0
      /\ \A f, t, p : Snapshot(f, t, p)' <=> Snapshot(f, t, p)
      /\ \A f, t : Drained(f, t)' <=> Drained(f, t)
  <2>1. \A i \in Position : ~ (i =< 0)
      BY DEF Position
  <2> QED BY <1>1, <2>1 DEF Snapshot, Drained, Matching, Decodable
<1>5. CASE phase = "tipped"
  <2>1. /\ tips \in [Position -> Nat] /\ Snapshot(tips, "tipped", upto)
        /\ claims = Nothing
      BY <1>1, <1>3, <1>5, PushExtends DEF RecInv
  <2>2. ~ more => Drained(tips, "tipped")
      BY <1>1, <1>5, <2>1 DEF Drained
  <2> HIDE DEF tips, claims
  <2>3. TypeOK'
    <3>1. cursor' \in 0 .. Len(log') /\ phase' \in {"tipped", "claimed"}
        BY <1>1, <1>2, <1>3, <1>5
    <3> QED BY <1>1, <2>1, <3>1, <1>3 DEF TypeOK, Nothing
  <2>4. claimed' = Nothing /\ 0 \in 0 .. Len(log') /\ Snapshot(claimed, "claimed", 0)'
    <3>1. claimed' = Nothing /\ 0 \in 0 .. Len(log')
        BY <1>1, <1>3, <2>1
    <3>2. \A i \in Position : claimed'[i] = 0
        BY <3>1 DEF Nothing
    <3> QED BY <1>4, <3>1, <3>2
  <2>5. ListsAreSnapshots'
    <3>1. Snapshot(tipped, "tipped", upto)' /\ upto \in 0 .. Len(log')
        BY <1>1, <1>4, <2>1
    <3> QED BY <2>4, <3>1 DEF ListsAreSnapshots
  <2>6. CASE more
    <3>1. phase' = "tipped" /\ cursor' = upto
        BY <1>2, <1>5, <2>6
    <3>2. Snapshot(tipped, "tipped", cursor)'
        BY <1>1, <1>4, <2>1, <3>1
    <3> QED BY <1>1, <2>1, <2>3, <2>5, <3>1, <3>2
            DEF RecInv, Reported, ExitIsBadTips, Nothing
  <2>7. CASE ~ more
    <3>1. phase' = "claimed" /\ cursor' = 0
        BY <1>2, <1>5, <2>7
    <3>2. Snapshot(claimed, "claimed", cursor)'
        BY <2>4, <3>1
    <3>3. Drained(tipped, "tipped")'
        BY <1>1, <1>4, <2>2, <2>7
    <3> QED BY <2>3, <2>5, <3>1, <3>2, <3>3 DEF RecInv, Reported, ExitIsBadTips
  <2> QED BY <2>6, <2>7
<1>6. CASE phase = "claimed"
  <2>1. /\ claims \in [Position -> Nat] /\ Snapshot(claims, "claimed", upto)
        /\ tips = tipped /\ Drained(tips, "tipped")
      BY <1>1, <1>3, <1>6, PushExtends DEF RecInv
  <2>2. ~ more => Drained(claims, "claimed")
      BY <1>1, <1>6, <2>1 DEF Drained
  <2> HIDE DEF tips, claims
  <2>3. TypeOK'
    <3>1. cursor' \in 0 .. Len(log') /\ phase' \in {"claimed", "drift", "clean"}
        BY <1>1, <1>2, <1>3, <1>6
    <3> QED BY <1>1, <1>3, <2>1, <3>1 DEF TypeOK
  <2>4. ListsAreSnapshots'
    <3>1. \E p \in 0 .. Len(log) : Snapshot(tips, "tipped", p)
        BY <2>1 DEF RecInv, ListsAreSnapshots
    <3> QED BY <1>1, <1>4, <2>1, <3>1 DEF ListsAreSnapshots
  <2>5. Drained(tipped, "tipped")'
      BY <1>1, <1>4, <2>1
  <2>6. CASE more
    <3>1. phase' = "claimed" /\ cursor' = upto
        BY <1>2, <1>6, <2>6
    <3>2. Snapshot(claimed, "claimed", cursor)'
        BY <1>1, <1>4, <2>1, <3>1
    <3> QED BY <2>3, <2>4, <2>5, <3>1, <3>2 DEF RecInv, Reported, ExitIsBadTips
  <2>7. CASE ~ more
    <3>1. phase' = IF BadTips(tips) # {} THEN "drift" ELSE "clean"
      <4>1. tips \in [Position -> Nat] /\ claims \in [Position -> Nat]
          BY <1>3, <2>1
      <4>2. DriftDetected(tips, claims) <=> BadTips(tips) # {}
          BY <1>1, <4>1, OnlyBadTips
      <4> QED BY <1>2, <1>6, <2>7, <4>2
    <3>2. BadTips(tipped)' = BadTips(tips)
        BY <1>1 DEF BadTips, Tips
    <3>3. ExitIsBadTips'
        BY <3>1, <3>2 DEF ExitIsBadTips
    <3>4. Drained(claimed, "claimed")'
        BY <1>1, <1>4, <2>2, <2>7
    <3>5. phase' \in {"drift", "clean"}
        BY <3>1
    <3> QED BY <2>3, <2>4, <2>5, <3>3, <3>4, <3>5 DEF RecInv
  <2> QED BY <2>6, <2>7
<1> QED BY <1>1, <1>5, <1>6

(* And the launch of the tool.                                              *)
LEMMA LaunchStep ==
    ASSUME RecInv, NEW r \in Ranges, Launch(r)
    PROVE  RecInv'
<1>1. /\ TypeOK /\ phase = "idle" /\ range' = r /\ launched' = ledger
      /\ phase' \in {"error", "tipped"}
      /\ UNCHANGED <<log, ledger, cursor, tipped, claimed>>
      /\ tipped = Nothing /\ claimed = Nothing /\ cursor = 0
    BY DEF RecInv, Launch, FetchOrder, node
<1>2. r \in [first : Nat, last : Nat] /\ Len(log) \in Nat /\ ledger \in Nat
    BY <1>1, ReconcileAssumption DEF TypeOK
<1>3. TypeOK'
    BY <1>1, <1>2 DEF TypeOK
<1>4. \A t : Snapshot(Nothing, t, 0)'
  <2>1. \A i \in Position : ~ (i =< 0) /\ Nothing[i] = 0
      BY DEF Position, Nothing
  <2> QED BY <2>1 DEF Snapshot, Nothing
<1>5. tipped' = Nothing /\ claimed' = Nothing /\ cursor' = 0 /\ 0 \in 0 .. Len(log')
    BY <1>1, <1>2
<1>6. Snapshot(tipped, "tipped", 0)' /\ Snapshot(claimed, "claimed", 0)'
    BY <1>4, <1>5 DEF Nothing
<1>7. ListsAreSnapshots'
    BY <1>5, <1>6 DEF ListsAreSnapshots
<1>8. phase' # "idle" /\ ~ Reported' /\ phase' # "claimed"
    BY <1>1 DEF Reported
<1>9. Snapshot(tipped, "tipped", cursor)'
    BY <1>5, <1>6
<1>10. ExitIsBadTips'
    BY <1>8 DEF ExitIsBadTips
<1> QED BY <1>3, <1>5, <1>7, <1>8, <1>9, <1>10 DEF RecInv, Nothing

(* The tool stops with neither list changed.                                *)
LEMMA FailureStep ==
    ASSUME RecInv, phase \in {"tipped", "claimed"}, phase' \in {"error", "panic"},
           UNCHANGED <<node, range, launched, cursor, tipped, claimed>>
    PROVE  RecInv'
<1>1. TypeOK' /\ ListsAreSnapshots'
    BY SMTT(30) DEF RecInv, TypeOK, ListsAreSnapshots, Snapshot, Matching, Decodable, node
<1>2. phase' \notin {"idle", "tipped", "claimed"} /\ ~ Reported'
    BY DEF Reported
<1> QED BY <1>1, <1>2 DEF RecInv, ExitIsBadTips

(* And a ledger that closes.                                                *)
LEMMA CloseLedgerStep ==
    ASSUME RecInv, CloseLedger
    PROVE  RecInv'
<1>1. /\ TypeOK /\ ledger' = ledger + 1 /\ ledger' =< MaxLedger
      /\ UNCHANGED <<log, phase, range, launched, cursor, tipped, claimed>>
    BY ReconcileAssumption DEF RecInv, CloseLedger, TypeOK
<1>2. TypeOK'
    BY <1>1 DEF TypeOK
<1>3. UNCHANGED <<ListsAreSnapshots, ExitIsBadTips, Reported,
                  Drained(tipped, "tipped"), Drained(claimed, "claimed"),
                  Snapshot(tipped, "tipped", cursor), Snapshot(claimed, "claimed", cursor)>>
    BY <1>1 DEF ListsAreSnapshots, ExitIsBadTips, Reported, Drained, Snapshot, Matching,
                Decodable, BadTips, Tips
<1> QED BY <1>1, <1>2, <1>3 DEF RecInv, Nothing

(* An empty log and empty lists satisfy the invariant.                      *)
LEMMA RecInvInit == Init => RecInv
<1> SUFFICES ASSUME Init PROVE RecInv
    OBVIOUS
<1>1. /\ log = <<>> /\ Len(log) = 0 /\ ledger = 0 /\ phase = "idle" /\ launched = 0
      /\ range = [first |-> 0, last |-> 0] /\ cursor = 0
      /\ tipped = Nothing /\ claimed = Nothing
    BY DEF Init
<1>2. TypeOK
  <2>1. Nothing \in [Position -> Nat]
      BY DEF Nothing
  <2>2. MaxEvents \in Nat /\ MaxLedger \in Nat
      BY ReconcileAssumption
  <2> QED BY <1>1, <2>1, <2>2 DEF TypeOK
<1>3. \A t : Snapshot(Nothing, t, 0)
  <2>1. \A i \in Position : ~ (i =< 0) /\ Nothing[i] = 0
      BY DEF Position, Nothing
  <2> QED BY <2>1 DEF Snapshot
<1>4. ListsAreSnapshots
    BY <1>1, <1>3 DEF ListsAreSnapshots
<1> QED BY <1>1, <1>2, <1>4 DEF RecInv, ExitIsBadTips, Reported

(* Every step keeps it.                                                     *)
LEMMA RecInvStep == RecInv /\ [Next]_vars => RecInv'
<1> SUFFICES ASSUME RecInv, [Next]_vars PROVE RecInv'
    OBVIOUS
<1>1. ASSUME NEW b \in Batches, NEW d \in Data, TipAuthors(b, d)
      PROVE  RecInv'
  <2> DEFINE new == [i \in DOMAIN b |-> TippedEvent(b[i], d)]
  <2>1. b \in Seq(TipItem) /\ DOMAIN b = 1 .. Len(b) /\ Len(b) \in Nat
      BY ReconcileAssumption
  <2>2. \A i \in DOMAIN b : new[i] \in Event /\ new[i].ledger = ledger
      BY <2>1, TipsAreEvents DEF RecInv
  <2>3. new \in Seq(Event) /\ Len(new) = Len(b) /\ DOMAIN new = DOMAIN b
      BY <2>1, <2>2
  <2>4. /\ Len(log) + Len(b) =< MaxEvents /\ log' = log \o new
        /\ UNCHANGED <<ledger, phase, range, launched, cursor, tipped, claimed>>
      BY <1>1 DEF TipAuthors
  <2> HIDE DEF new
  <2> QED BY <2>2, <2>3, <2>4, AppendStep
<1>2. ASSUME NEW a \in Author, NEW d \in Data, ClaimTips(a, d)
      PROVE  RecInv'
  <2> DEFINE e == ClaimedEvent(a, Owed(a), d)
  <2>1. e \in Event /\ e.ledger = ledger
      BY <1>2, ClaimIsEvent DEF RecInv, ClaimTips
  <2>2. /\ Len(log) < MaxEvents /\ log' = Append(log, e)
        /\ UNCHANGED <<ledger, phase, range, launched, cursor, tipped, claimed>>
      BY <1>2 DEF ClaimTips
  <2> HIDE DEF e
  <2>3. /\ <<e>> \in Seq(Event) /\ Len(<<e>>) = 1
        /\ \A j \in DOMAIN <<e>> : <<e>>[j].ledger = ledger
      BY <2>1
  <2>4. log' = log \o <<e>> /\ Len(log) + 1 =< MaxEvents
    <3>1. log \in Seq(Event) /\ Len(log) \in Nat /\ MaxEvents \in Nat
        BY ReconcileAssumption DEF RecInv, TypeOK
    <3> QED BY <2>1, <2>2, <3>1
  <2> QED BY <2>2, <2>3, <2>4, AppendStep
<1>3. CASE CloseLedger
    BY <1>3, CloseLedgerStep
<1>4. ASSUME NEW r \in Ranges, Launch(r) PROVE RecInv'
    BY <1>4, LaunchStep
<1>5. ASSUME NEW upto \in 0 .. Len(log), NEW more \in BOOLEAN, FetchPage(upto, more)
      PROVE  RecInv'
    BY <1>5, FetchPageStep
<1>6. ASSUME NEW upto \in 0 .. Len(log), NEW more \in BOOLEAN, PanicOnPage(upto, more)
      PROVE  RecInv'
    BY <1>6, FailureStep DEF PanicOnPage, Answer
<1>7. CASE RequestFails
    BY <1>7, FailureStep DEF RequestFails
<1>8. CASE UNCHANGED vars
  <2>1. UNCHANGED <<log, ledger, phase, range, launched, cursor, tipped, claimed>>
      BY <1>8 DEF vars, node
  <2>2. UNCHANGED <<TypeOK, ListsAreSnapshots, ExitIsBadTips, Reported, Nothing,
                    Drained(tipped, "tipped"), Drained(claimed, "claimed"),
                    Snapshot(tipped, "tipped", cursor), Snapshot(claimed, "claimed", cursor)>>
      BY <2>1 DEF TypeOK, ListsAreSnapshots, ExitIsBadTips, Reported, Drained, Snapshot,
                  Matching, Decodable, BadTips, Tips, Nothing
  <2> QED BY <2>1, <2>2 DEF RecInv
<1> QED BY <1>1, <1>2, <1>3, <1>4, <1>5, <1>6, <1>7, <1>8
       DEF Next, VaultStep, ToolStep

-----------------------------------------------------------------------------
(* What the log adds up to.                                                 *)

NewTips(new) == {j \in DOMAIN new : new[j].type = "tipped"}

NewClaims(new) == {j \in DOMAIN new : new[j].type = "claimed"}

(* Where the events of a longer log are.                                    *)
LEMMA LogGrows ==
    ASSUME TypeOK, NEW new \in Seq(Event), Len(log) + Len(new) =< MaxEvents,
           log' = log \o new
    PROVE  /\ Len(log) \in Nat /\ Len(new) \in Nat
           /\ DOMAIN log = 1 .. Len(log) /\ DOMAIN new = 1 .. Len(new)
           /\ DOMAIN log' = 1 .. Len(log) + Len(new)
           /\ \A i \in 1 .. Len(log) + Len(new) : Everything[i] = 1
           /\ \A i \in DOMAIN log : log[i] \in Event /\ log'[i] = log[i] /\ i \in DOMAIN log'
           /\ \A j \in DOMAIN new :
                 /\ new[j] \in Event /\ log'[Len(log) + j] = new[j]
                 /\ Len(log) + j \in DOMAIN log'
           /\ \A i \in DOMAIN log' : i \notin DOMAIN log =>
                 i - Len(log) \in DOMAIN new /\ i = Len(log) + (i - Len(log))
<1>1. log \in Seq(Event) /\ MaxEvents \in Nat
    BY ReconcileAssumption DEF TypeOK
<1>2. /\ log' \in Seq(Event) /\ Len(log) \in Nat /\ Len(new) \in Nat
      /\ DOMAIN log = 1 .. Len(log) /\ DOMAIN new = 1 .. Len(new)
      /\ DOMAIN log' = 1 .. Len(log) + Len(new)
      /\ \A i \in 1 .. Len(log) : log'[i] = log[i]
      /\ \A i \in 1 .. Len(log) + Len(new) : i > Len(log) => i - Len(log) \in DOMAIN new
      /\ \A j \in 1 .. Len(new) : log'[Len(log) + j] = new[j]
    BY <1>1, Joined
<1>3. \A i \in 1 .. Len(log) + Len(new) : Everything[i] = 1
    BY <1>1, <1>2 DEF Everything, Position
<1>4. \A i \in DOMAIN log : log[i] \in Event /\ log'[i] = log[i] /\ i \in DOMAIN log'
    BY <1>1, <1>2
<1>5. \A j \in DOMAIN new : /\ new[j] \in Event /\ log'[Len(log) + j] = new[j]
                            /\ Len(log) + j \in DOMAIN log'
    BY <1>2
<1>6. \A i \in DOMAIN log' : i \notin DOMAIN log =>
         i - Len(log) \in DOMAIN new /\ i = Len(log) + (i - Len(log))
    BY <1>2
<1> QED BY <1>2, <1>3, <1>4, <1>5, <1>6

(* Which of them are tips.                                                  *)
LEMMA TipsGrow ==
    ASSUME TypeOK, NEW new \in Seq(Event), Len(log) + Len(new) =< MaxEvents,
           log' = log \o new
    PROVE  /\ \A i \in Tips : /\ i \in Tips' /\ log'[i] = log[i] /\ Everything[i] = 1
                           /\ log[i].amount \in Int /\ log[i].net \in Int
           /\ \A j \in NewTips(new) :
                 LET i == Len(log) + j IN
                 /\ i \in Tips' /\ log'[i] = new[j] /\ Everything[i] = 1
                 /\ new[j].amount \in Int /\ new[j].net \in Int
           /\ \A i \in Tips' : i \in Tips \/ \E j \in NewTips(new) : i = Len(log) + j
           /\ Tips \subseteq 1 .. Len(log) /\ NewTips(new) \subseteq 1 .. Len(new)
           /\ Len(log) \in Nat /\ Len(new) \in Nat
<1>1. ASSUME NEW i \in Tips
      PROVE  /\ i \in Tips' /\ log'[i] = log[i] /\ Everything[i] = 1
             /\ log[i].amount \in Int /\ log[i].net \in Int
  <2>1. i \in DOMAIN log /\ log[i].type = "tipped"
      BY DEF Tips
  <2>2. log[i] \in Event /\ log'[i] = log[i] /\ i \in DOMAIN log'
      BY <2>1, LogGrows
  <2>3. Everything[i] = 1
      BY <2>2, LogGrows
  <2> QED BY <2>1, <2>2, <2>3, EventFacts DEF Tips
<1>2. ASSUME NEW j \in NewTips(new), NEW i, i = Len(log) + j
      PROVE  /\ i \in Tips' /\ log'[i] = new[j] /\ Everything[i] = 1
             /\ new[j].amount \in Int /\ new[j].net \in Int
  <2>1. j \in DOMAIN new /\ new[j].type = "tipped"
      BY DEF NewTips
  <2>2. new[j] \in Event /\ log'[i] = new[j] /\ i \in DOMAIN log'
      BY <1>2, <2>1, LogGrows
  <2>3. Everything[i] = 1
      BY <2>2, LogGrows
  <2> QED BY <2>1, <2>2, <2>3, EventFacts DEF Tips
<1>3. ASSUME NEW i \in Tips', i \notin Tips
      PROVE  \E j \in NewTips(new) : i = Len(log) + j
  <2>1. i \in DOMAIN log' /\ log'[i].type = "tipped"
      BY DEF Tips
  <2>2. i \notin DOMAIN log
      BY <1>3, <2>1, LogGrows DEF Tips
  <2>3. PICK j \in DOMAIN new : i = Len(log) + j
      BY <2>1, <2>2, LogGrows
  <2> QED BY <2>1, <2>3, LogGrows DEF NewTips
<1>4. /\ Tips \subseteq 1 .. Len(log) /\ NewTips(new) \subseteq 1 .. Len(new)
      /\ Len(log) \in Nat /\ Len(new) \in Nat
    BY LogGrows DEF Tips, NewTips
<1> QED BY <1>1, <1>2, <1>3, <1>4

(* Which of them are claims.                                                *)
LEMMA ClaimsGrow ==
    ASSUME TypeOK, NEW new \in Seq(Event), Len(log) + Len(new) =< MaxEvents,
           log' = log \o new
    PROVE  /\ \A i \in Claims : /\ i \in Claims' /\ log'[i] = log[i] /\ Everything[i] = 1
                           /\ log[i].amount \in Int
           /\ \A j \in NewClaims(new) :
                 LET i == Len(log) + j IN
                 /\ i \in Claims' /\ log'[i] = new[j] /\ Everything[i] = 1
                 /\ new[j].amount \in Int
           /\ \A i \in Claims' : i \in Claims \/ \E j \in NewClaims(new) : i = Len(log) + j
           /\ Claims \subseteq 1 .. Len(log) /\ NewClaims(new) \subseteq 1 .. Len(new)
           /\ Len(log) \in Nat /\ Len(new) \in Nat
<1>1. ASSUME NEW i \in Claims
      PROVE  /\ i \in Claims' /\ log'[i] = log[i] /\ Everything[i] = 1
             /\ log[i].amount \in Int
  <2>1. i \in DOMAIN log /\ log[i].type = "claimed"
      BY DEF Claims
  <2>2. log[i] \in Event /\ log'[i] = log[i] /\ i \in DOMAIN log'
      BY <2>1, LogGrows
  <2>3. Everything[i] = 1
      BY <2>2, LogGrows
  <2> QED BY <2>1, <2>2, <2>3, EventFacts DEF Claims
<1>2. ASSUME NEW j \in NewClaims(new), NEW i, i = Len(log) + j
      PROVE  /\ i \in Claims' /\ log'[i] = new[j] /\ Everything[i] = 1
             /\ new[j].amount \in Int
  <2>1. j \in DOMAIN new /\ new[j].type = "claimed"
      BY DEF NewClaims
  <2>2. new[j] \in Event /\ log'[i] = new[j] /\ i \in DOMAIN log'
      BY <1>2, <2>1, LogGrows
  <2>3. Everything[i] = 1
      BY <2>2, LogGrows
  <2> QED BY <2>1, <2>2, <2>3, EventFacts DEF Claims
<1>3. ASSUME NEW i \in Claims', i \notin Claims
      PROVE  \E j \in NewClaims(new) : i = Len(log) + j
  <2>1. i \in DOMAIN log' /\ log'[i].type = "claimed"
      BY DEF Claims
  <2>2. i \notin DOMAIN log
      BY <1>3, <2>1, LogGrows DEF Claims
  <2>3. PICK j \in DOMAIN new : i = Len(log) + j
      BY <2>1, <2>2, LogGrows
  <2> QED BY <2>1, <2>3, LogGrows DEF NewClaims
<1>4. /\ Claims \subseteq 1 .. Len(log) /\ NewClaims(new) \subseteq 1 .. Len(new)
      /\ Len(log) \in Nat /\ Len(new) \in Nat
    BY LogGrows DEF Claims, NewClaims
<1> QED BY <1>1, <1>2, <1>3, <1>4

(* Its net tips to an author.                                               *)
LEMMA NetGrows ==
    ASSUME TypeOK, NEW new \in Seq(Event), Len(log) + Len(new) =< MaxEvents,
           log' = log \o new, NEW x
    PROVE  NetTo(Everything, x)' = NetTo(Everything, x)
             + SumFunctionOnSet([j \in NewTips(new) |-> new[j].net],
                                {j \in NewTips(new) : new[j].recipient = x})
<1> DEFINE f == [i \in Tips |-> Everything[i] * log[i].net]
           g == [j \in NewTips(new) |-> new[j].net]
           h == [i \in Tips' |-> Everything[i] * log'[i].net]
           S == {i \in Tips : log[i].recipient = x}
           T == {j \in NewTips(new) : new[j].recipient = x}
           U == {i \in Tips' : log'[i].recipient = x}
<1>1. \A w : w \in U <=> w \in S \/ \E y \in T : w = Len(log) + y
    BY TipsGrow, SMTT(40)
<1>2. \A i \in S : f[i] \in Int /\ h[i] = f[i]
  <2> TAKE i \in S
  <2>1. i \in Tips /\ i \in Tips' /\ log'[i] = log[i] /\ Everything[i] = 1 /\ log[i].net \in Int
      BY TipsGrow
  <2>2. f[i] = 1 * log[i].net /\ h[i] = 1 * log[i].net
      BY <2>1
  <2> HIDE DEF f, g, h, S, T
  <2> QED BY <2>1, <2>2
<1>3. \A j \in T : g[j] \in Int /\ h[Len(log) + j] = g[j]
  <2> TAKE j \in T
  <2>1. /\ j \in NewTips(new) /\ Len(log) + j \in Tips' /\ log'[Len(log) + j] = new[j]
        /\ Everything[Len(log) + j] = 1 /\ new[j].net \in Int
      BY TipsGrow
  <2>2. g[j] = new[j].net /\ h[Len(log) + j] = 1 * new[j].net
      BY <2>1
  <2> HIDE DEF f, g, h, S, T
  <2> QED BY <2>1, <2>2
<1>4. S \subseteq 1 .. Len(log) /\ T \subseteq 1 .. Len(new)
      /\ Len(log) \in Nat /\ Len(new) \in Nat
    BY TipsGrow
<1>5. /\ NetTo(Everything, x) = SumFunctionOnSet(f, S)
      /\ NetTo(Everything, x)' = SumFunctionOnSet(h, U)
    BY DEF NetTo, Everything
<1> HIDE DEF f, g, h, S, T, U
<1>6. TermsJoin(f, S, Len(log), g, T, Len(new), h, U)
    BY <1>1, <1>2, <1>3, <1>4 DEF TermsJoin
<1>7. SumFunctionOnSet(h, U) = SumFunctionOnSet(f, S) + SumFunctionOnSet(g, T)
    BY <1>4, <1>6, SumJoined
<1> QED BY <1>5, <1>7 DEF g, T

(* Its gross tips to a gist.                                                *)
LEMMA TotalGrows ==
    ASSUME TypeOK, NEW new \in Seq(Event), Len(log) + Len(new) =< MaxEvents,
           log' = log \o new, NEW x
    PROVE  GistTotal(Everything, x)' = GistTotal(Everything, x)
             + SumFunctionOnSet([j \in NewTips(new) |-> new[j].amount],
                                {j \in NewTips(new) : new[j].gist_id = x})
<1> DEFINE f == [i \in Tips |-> Everything[i] * log[i].amount]
           g == [j \in NewTips(new) |-> new[j].amount]
           h == [i \in Tips' |-> Everything[i] * log'[i].amount]
           S == {i \in Tips : log[i].gist_id = x}
           T == {j \in NewTips(new) : new[j].gist_id = x}
           U == {i \in Tips' : log'[i].gist_id = x}
<1>1. \A w : w \in U <=> w \in S \/ \E y \in T : w = Len(log) + y
    BY TipsGrow, SMTT(40)
<1>2. \A i \in S : f[i] \in Int /\ h[i] = f[i]
  <2> TAKE i \in S
  <2>1. i \in Tips /\ i \in Tips' /\ log'[i] = log[i] /\ Everything[i] = 1 /\ log[i].amount \in Int
      BY TipsGrow
  <2>2. f[i] = 1 * log[i].amount /\ h[i] = 1 * log[i].amount
      BY <2>1
  <2> HIDE DEF f, g, h, S, T
  <2> QED BY <2>1, <2>2
<1>3. \A j \in T : g[j] \in Int /\ h[Len(log) + j] = g[j]
  <2> TAKE j \in T
  <2>1. /\ j \in NewTips(new) /\ Len(log) + j \in Tips' /\ log'[Len(log) + j] = new[j]
        /\ Everything[Len(log) + j] = 1 /\ new[j].amount \in Int
      BY TipsGrow
  <2>2. g[j] = new[j].amount /\ h[Len(log) + j] = 1 * new[j].amount
      BY <2>1
  <2> HIDE DEF f, g, h, S, T
  <2> QED BY <2>1, <2>2
<1>4. S \subseteq 1 .. Len(log) /\ T \subseteq 1 .. Len(new)
      /\ Len(log) \in Nat /\ Len(new) \in Nat
    BY TipsGrow
<1>5. /\ GistTotal(Everything, x) = SumFunctionOnSet(f, S)
      /\ GistTotal(Everything, x)' = SumFunctionOnSet(h, U)
    BY DEF GistTotal, Everything
<1> HIDE DEF f, g, h, S, T, U
<1>6. TermsJoin(f, S, Len(log), g, T, Len(new), h, U)
    BY <1>1, <1>2, <1>3, <1>4 DEF TermsJoin
<1>7. SumFunctionOnSet(h, U) = SumFunctionOnSet(f, S) + SumFunctionOnSet(g, T)
    BY <1>4, <1>6, SumJoined
<1> QED BY <1>5, <1>7 DEF g, T

(* And the claims of an author.                                             *)
LEMMA ClaimedGrows ==
    ASSUME TypeOK, NEW new \in Seq(Event), Len(log) + Len(new) =< MaxEvents,
           log' = log \o new, NEW x
    PROVE  ClaimedBy(Everything, x)' = ClaimedBy(Everything, x)
             + SumFunctionOnSet([j \in NewClaims(new) |-> new[j].amount],
                                {j \in NewClaims(new) : new[j].recipient = x})
<1> DEFINE f == [i \in Claims |-> Everything[i] * log[i].amount]
           g == [j \in NewClaims(new) |-> new[j].amount]
           h == [i \in Claims' |-> Everything[i] * log'[i].amount]
           S == {i \in Claims : log[i].recipient = x}
           T == {j \in NewClaims(new) : new[j].recipient = x}
           U == {i \in Claims' : log'[i].recipient = x}
<1>1. \A w : w \in U <=> w \in S \/ \E y \in T : w = Len(log) + y
    BY ClaimsGrow, SMTT(40)
<1>2. \A i \in S : f[i] \in Int /\ h[i] = f[i]
  <2> TAKE i \in S
  <2>1. i \in Claims /\ i \in Claims' /\ log'[i] = log[i] /\ Everything[i] = 1 /\ log[i].amount \in Int
      BY ClaimsGrow
  <2>2. f[i] = 1 * log[i].amount /\ h[i] = 1 * log[i].amount
      BY <2>1
  <2> HIDE DEF f, g, h, S, T
  <2> QED BY <2>1, <2>2
<1>3. \A j \in T : g[j] \in Int /\ h[Len(log) + j] = g[j]
  <2> TAKE j \in T
  <2>1. /\ j \in NewClaims(new) /\ Len(log) + j \in Claims' /\ log'[Len(log) + j] = new[j]
        /\ Everything[Len(log) + j] = 1 /\ new[j].amount \in Int
      BY ClaimsGrow
  <2>2. g[j] = new[j].amount /\ h[Len(log) + j] = 1 * new[j].amount
      BY <2>1
  <2> HIDE DEF f, g, h, S, T
  <2> QED BY <2>1, <2>2
<1>4. S \subseteq 1 .. Len(log) /\ T \subseteq 1 .. Len(new)
      /\ Len(log) \in Nat /\ Len(new) \in Nat
    BY ClaimsGrow
<1>5. /\ ClaimedBy(Everything, x) = SumFunctionOnSet(f, S)
      /\ ClaimedBy(Everything, x)' = SumFunctionOnSet(h, U)
    BY DEF ClaimedBy, Everything
<1> HIDE DEF f, g, h, S, T, U
<1>6. TermsJoin(f, S, Len(log), g, T, Len(new), h, U)
    BY <1>1, <1>2, <1>3, <1>4 DEF TermsJoin
<1>7. SumFunctionOnSet(h, U) = SumFunctionOnSet(f, S) + SumFunctionOnSet(g, T)
    BY <1>4, <1>6, SumJoined
<1> QED BY <1>5, <1>7 DEF g, T

(* A transaction that tips adds its nets and its gross amounts.             *)
LEMMA TipsAdd ==
    ASSUME TypeOK, NEW tips \in Seq(TipItem), NEW data \in Data, TipAuthors(tips, data)
    PROVE  /\ \A a \in Author : Owed(a)' = Owed(a)
                + SumFunctionOnSet([i \in DOMAIN tips |-> tips[i].net],
                                   {i \in DOMAIN tips : tips[i].recipient = a})
           /\ \A g \in GistId : GistTotal(Everything, g)' = GistTotal(Everything, g)
                + SumFunctionOnSet([i \in DOMAIN tips |-> tips[i].amount],
                                   {i \in DOMAIN tips : tips[i].gist_id = g})
<1> DEFINE new == [i \in DOMAIN tips |-> TippedEvent(tips[i], data)]
<1>1. DOMAIN tips = 1 .. Len(tips) /\ Len(tips) \in Nat
    OBVIOUS
<1>2. \A i \in DOMAIN tips : new[i] \in Event
    BY TipsAreEvents
<1>3. \A i \in DOMAIN tips : /\ new[i].type = "tipped" /\ new[i].recipient = tips[i].recipient
                             /\ new[i].gist_id = tips[i].gist_id
                             /\ new[i].net = tips[i].net /\ new[i].amount = tips[i].amount
    BY DEF TippedEvent
<1>4. new \in Seq(Event) /\ Len(new) = Len(tips) /\ DOMAIN new = DOMAIN tips
    BY <1>1, <1>2
<1>5. log' = log \o new /\ Len(log) + Len(new) =< MaxEvents
    BY <1>4 DEF TipAuthors
<1> HIDE DEF new
<1>6. NewTips(new) = DOMAIN tips /\ NewClaims(new) = {}
    BY <1>3, <1>4 DEF NewTips, NewClaims
<1>7. ASSUME NEW a \in Author
      PROVE  Owed(a)' = Owed(a)
               + SumFunctionOnSet([i \in DOMAIN tips |-> tips[i].net],
                                  {i \in DOMAIN tips : tips[i].recipient = a})
  <2> DEFINE nets == SumFunctionOnSet([i \in DOMAIN tips |-> tips[i].net],
                                      {i \in DOMAIN tips : tips[i].recipient = a})
             none == {j \in NewClaims(new) : new[j].recipient = a}
  <2>1. NetTo(Everything, a)' = NetTo(Everything, a) + nets
    <3>1. /\ [j \in NewTips(new) |-> new[j].net] = [i \in DOMAIN tips |-> tips[i].net]
          /\ {j \in NewTips(new) : new[j].recipient = a}
               = {i \in DOMAIN tips : tips[i].recipient = a}
        BY <1>3, <1>6
    <3> QED BY <1>4, <1>5, <3>1, NetGrows, ZenonT(60)
  <2>2. ClaimedBy(Everything, a)' = ClaimedBy(Everything, a) + 0
    <3>1. none = {}
        BY <1>6
    <3> HIDE DEF none
    <3>2. SumFunctionOnSet([j \in NewClaims(new) |-> new[j].amount], none) = 0
        BY <3>1, SumEmpty
    <3> QED BY <1>4, <1>5, <3>2, ClaimedGrows DEF none
  <2>3. nets \in Int
    <3> DEFINE f == [i \in DOMAIN tips |-> tips[i].net]
               S == {i \in DOMAIN tips : tips[i].recipient = a}
    <3>1. \A i \in S : f[i] \in Int
      <4>1. \A i \in DOMAIN tips : tips[i] \in TipItem
          OBVIOUS
      <4> QED BY <4>1 DEF TipItem
    <3>2. IsFiniteSet(S)
      <4>1. IsFiniteSet(1 .. Len(tips)) /\ S \subseteq 1 .. Len(tips)
          BY <1>1, FS_Interval
      <4> HIDE DEF S
      <4> QED BY <4>1, FS_Subset
    <3> HIDE DEF f, S
    <3>3. SumFunctionOnSet(f, S) \in Int
        BY <3>1, <3>2, SumInt
    <3> QED BY <3>3 DEF f, S
  <2>4. NetTo(Everything, a) \in Int /\ ClaimedBy(Everything, a) \in Int
    <3>1. \A i \in Position : Everything[i] \in Nat
        BY DEF Everything
    <3> QED BY <3>1, BalanceIsInt
  <2>5. Owed(a) = NetTo(Everything, a) - ClaimedBy(Everything, a)
        /\ Owed(a)' = NetTo(Everything, a)' - ClaimedBy(Everything, a)'
      BY DEF Owed, PendingBalance, Everything
  <2> HIDE DEF nets
  <2>6. Owed(a)' = Owed(a) + nets
      BY <2>1, <2>2, <2>3, <2>4, <2>5
  <2> QED BY <2>6 DEF nets
<1>8. ASSUME NEW g \in GistId
      PROVE  GistTotal(Everything, g)' = GistTotal(Everything, g)
               + SumFunctionOnSet([i \in DOMAIN tips |-> tips[i].amount],
                                  {i \in DOMAIN tips : tips[i].gist_id = g})
  <2>1. /\ [j \in NewTips(new) |-> new[j].amount] = [i \in DOMAIN tips |-> tips[i].amount]
        /\ {j \in NewTips(new) : new[j].gist_id = g} = {i \in DOMAIN tips : tips[i].gist_id = g}
      BY <1>3, <1>6
  <2> QED BY <1>4, <1>5, <2>1, TotalGrows, ZenonT(60)
<1> QED BY <1>7, <1>8

(* A claim leaves its author nothing and changes nothing else.              *)
LEMMA ClaimSettles ==
    ASSUME TypeOK, NEW author \in Author, NEW data \in Data, ClaimTips(author, data)
    PROVE  /\ \A a \in Author : Owed(a)' = IF a = author THEN 0 ELSE Owed(a)
           /\ \A g \in GistId : GistTotal(Everything, g)' = GistTotal(Everything, g)
<1> DEFINE event == ClaimedEvent(author, Owed(author), data)
<1>1. event \in Event
    BY ClaimIsEvent DEF ClaimTips
<1>2. event.type = "claimed" /\ event.recipient = author /\ event.amount = Owed(author)
    BY DEF ClaimedEvent
<1>3. Len(log) < MaxEvents /\ log' = Append(log, event)
    BY DEF ClaimTips
<1> HIDE DEF event
<1> DEFINE new == <<event>>
<1>4. /\ new \in Seq(Event) /\ Len(new) = 1 /\ DOMAIN new = {1} /\ new[1] = event
      /\ log' = log \o new /\ Len(log) + Len(new) =< MaxEvents
  <2>1. log \in Seq(Event) /\ Len(log) \in Nat /\ MaxEvents \in Nat
      BY ReconcileAssumption DEF TypeOK
  <2>2. /\ new \in Seq(Event) /\ Len(new) = 1 /\ DOMAIN new = {1} /\ new[1] = event
        /\ log' = log \o new
      BY <1>1, <1>3, <2>1
  <2> QED BY <1>3, <2>1, <2>2
<1> HIDE DEF new
<1>5. NewTips(new) = {} /\ NewClaims(new) = {1}
    BY <1>2, <1>4 DEF NewTips, NewClaims
<1>6. \A a \in Author : /\ NetTo(Everything, a) \in Int /\ ClaimedBy(Everything, a) \in Int
                        /\ Owed(a) = NetTo(Everything, a) - ClaimedBy(Everything, a)
                        /\ Owed(a)' = NetTo(Everything, a)' - ClaimedBy(Everything, a)'
  <2>1. \A i \in Position : Everything[i] \in Nat
      BY DEF Everything
  <2> QED BY <2>1, BalanceIsInt DEF Owed, PendingBalance, Everything
<1> DEFINE net == [j \in NewTips(new) |-> new[j].net]
           gross == [j \in NewTips(new) |-> new[j].amount]
           paid == [j \in NewClaims(new) |-> new[j].amount]
<1>7. /\ \A a : SumFunctionOnSet(net, {j \in NewTips(new) : new[j].recipient = a}) = 0
      /\ \A g : SumFunctionOnSet(gross, {j \in NewTips(new) : new[j].gist_id = g}) = 0
  <2>1. /\ \A a : {j \in NewTips(new) : new[j].recipient = a} = {}
        /\ \A g : {j \in NewTips(new) : new[j].gist_id = g} = {}
      BY <1>5
  <2> HIDE DEF net, gross
  <2> QED BY <2>1, SumEmpty
<1>8. \A a : SumFunctionOnSet(paid, {j \in NewClaims(new) : new[j].recipient = a})
               = IF a = author THEN Owed(author) ELSE 0
  <2> TAKE a
  <2>1. paid[1] = Owed(author) /\ Owed(author) \in Int
      BY <1>2, <1>4, <1>5, <1>6
  <2>2. {j \in NewClaims(new) : new[j].recipient = a} = IF a = author THEN {1} ELSE {}
      BY <1>2, <1>4, <1>5
  <2> HIDE DEF paid
  <2>3. SumFunctionOnSet(paid, {1}) = Owed(author) /\ SumFunctionOnSet(paid, {}) = 0
      BY <2>1, SumSingleton, SumEmpty
  <2> QED BY <2>2, <2>3
<1>9. ASSUME NEW a \in Author
      PROVE  Owed(a)' = IF a = author THEN 0 ELSE Owed(a)
  <2>1. NetTo(Everything, a)' = NetTo(Everything, a) + 0
      BY <1>4, <1>7, NetGrows
  <2>2. ClaimedBy(Everything, a)' = ClaimedBy(Everything, a)
                                      + IF a = author THEN Owed(author) ELSE 0
    <3> DEFINE mine == {j \in NewClaims(new) : new[j].recipient = a}
    <3>1. SumFunctionOnSet(paid, mine) = IF a = author THEN Owed(author) ELSE 0
        BY <1>8
    <3>2. ClaimedBy(Everything, a)' = ClaimedBy(Everything, a) + SumFunctionOnSet(paid, mine)
        BY <1>4, ClaimedGrows
    <3> HIDE DEF paid, mine
    <3> QED BY <3>1, <3>2
  <2> QED BY <1>6, <2>1, <2>2
<1>10. ASSUME NEW g \in GistId
       PROVE  GistTotal(Everything, g)' = GistTotal(Everything, g)
  <2>1. GistTotal(Everything, g)' = GistTotal(Everything, g) + 0
      BY <1>4, <1>7, TotalGrows
  <2>2. GistTotal(Everything, g) \in Int
      BY TotalIsInt DEF Everything
  <2> QED BY <2>1, <2>2
<1> QED BY <1>9, <1>10

(* What two lists of events hold together is what each holds, added up.     *)
LEMMA ListsAdd ==
    ASSUME TypeOK, NEW f, NEW g, NEW h,
           \A i \in Position : f[i] \in Nat /\ g[i] \in Nat,
           \A i \in DOMAIN log : h[i] = f[i] + g[i]
    PROVE  /\ \A a : PendingBalance(h, h, a) = PendingBalance(f, f, a) + PendingBalance(g, g, a)
           /\ \A id : GistTotal(h, id) = GistTotal(f, id) + GistTotal(g, id)
<1>1. ASSUME NEW i \in Tips
      PROVE  /\ f[i] * log[i].net \in Int /\ g[i] * log[i].net \in Int
             /\ f[i] * log[i].amount \in Int /\ g[i] * log[i].amount \in Int
             /\ h[i] * log[i].net = f[i] * log[i].net + g[i] * log[i].net
             /\ h[i] * log[i].amount = f[i] * log[i].amount + g[i] * log[i].amount
  <2>1. /\ f[i] \in Nat /\ g[i] \in Nat /\ h[i] = f[i] + g[i]
        /\ log[i].net \in Nat /\ log[i].amount \in Nat
      BY LogFacts, EventFacts DEF Tips
  <2> QED BY <2>1
<1>2. ASSUME NEW i \in Claims
      PROVE  /\ f[i] * log[i].amount \in Int /\ g[i] * log[i].amount \in Int
             /\ h[i] * log[i].amount = f[i] * log[i].amount + g[i] * log[i].amount
  <2>1. f[i] \in Nat /\ g[i] \in Nat /\ h[i] = f[i] + g[i] /\ log[i].amount \in Nat
      BY LogFacts, EventFacts DEF Claims
  <2> QED BY <2>1
<1> DEFINE net(l) == [i \in Tips |-> l[i] * log[i].net]
           gross(l) == [i \in Tips |-> l[i] * log[i].amount]
           paid(l) == [i \in Claims |-> l[i] * log[i].amount]
<1>3. /\ \A i \in Tips : /\ net(f)[i] \in Int /\ net(g)[i] \in Int
                         /\ net(h)[i] = net(f)[i] + net(g)[i]
                         /\ gross(f)[i] \in Int /\ gross(g)[i] \in Int
                         /\ gross(h)[i] = gross(f)[i] + gross(g)[i]
      /\ \A i \in Claims : /\ paid(f)[i] \in Int /\ paid(g)[i] \in Int
                           /\ paid(h)[i] = paid(f)[i] + paid(g)[i]
    BY <1>1, <1>2
<1> HIDE DEF net, gross, paid
<1>4. \A T \in SUBSET Tips :
         /\ SumFunctionOnSet(net(h), T)
              = SumFunctionOnSet(net(f), T) + SumFunctionOnSet(net(g), T)
         /\ SumFunctionOnSet(gross(h), T)
              = SumFunctionOnSet(gross(f), T) + SumFunctionOnSet(gross(g), T)
  <2> TAKE T \in SUBSET Tips
  <2>1. IsFiniteSet(T)
      BY LogFacts, FS_Subset
  <2>2. \A i \in T : net(f)[i] \in Int /\ net(g)[i] \in Int /\ net(h)[i] = net(f)[i] + net(g)[i]
      BY <1>3
  <2>3. \A i \in T : /\ gross(f)[i] \in Int /\ gross(g)[i] \in Int
                     /\ gross(h)[i] = gross(f)[i] + gross(g)[i]
      BY <1>3
  <2> QED BY <2>1, <2>2, <2>3, SumAdd
<1>5. \A T \in SUBSET Claims :
         SumFunctionOnSet(paid(h), T)
           = SumFunctionOnSet(paid(f), T) + SumFunctionOnSet(paid(g), T)
  <2> TAKE T \in SUBSET Claims
  <2>1. IsFiniteSet(T)
      BY LogFacts, FS_Subset
  <2>2. \A i \in T : paid(f)[i] \in Int /\ paid(g)[i] \in Int /\ paid(h)[i] = paid(f)[i] + paid(g)[i]
      BY <1>3
  <2> QED BY <2>1, <2>2, SumAdd
<1>6. /\ \A a : NetTo(h, a) = NetTo(f, a) + NetTo(g, a)
      /\ \A a : ClaimedBy(h, a) = ClaimedBy(f, a) + ClaimedBy(g, a)
      /\ \A id : GistTotal(h, id) = GistTotal(f, id) + GistTotal(g, id)
    BY <1>4, <1>5 DEF NetTo, ClaimedBy, GistTotal, net, gross, paid
<1>7. \A a : /\ NetTo(f, a) \in Int /\ ClaimedBy(f, a) \in Int
             /\ NetTo(g, a) \in Int /\ ClaimedBy(g, a) \in Int
    BY BalanceIsInt
<1> QED BY <1>6, <1>7 DEF PendingBalance

-----------------------------------------------------------------------------
(* Results.                                                                 *)

(* In every state the lists are what the invariant says.                    *)
THEOREM ListsAlwaysExplained == Spec => []RecInv
BY RecInvInit, RecInvStep, PTL DEF Spec

(* Every variable keeps its type, and the cursor stays within the log.      *)
THEOREM ToolTypeOK == Spec => []TypeOK
<1>1. RecInv => TypeOK
    BY DEF RecInv
<1> QED BY <1>1, ListsAlwaysExplained, PTL

(* However the log grows between two requests, each list is what the node   *)
(* would have answered at one moment in one piece.                          *)
THEOREM ListsAlwaysSnapshots == Spec => []ListsAreSnapshots
<1>1. RecInv => ListsAreSnapshots
    BY DEF RecInv
<1> QED BY <1>1, ListsAlwaysExplained, PTL

(* What the exit code tells of the list, it tells of the log.               *)
LEMMA ExitTellsOfLog == RecInv => ExitTellsBadTips
<1> DEFINE bad == {i \in Matching("tipped") \cap Decodable :
                      log[i].amount # log[i].fee + log[i].net}
<1> SUFFICES ASSUME RecInv
             PROVE  /\ phase = "drift" => bad # {}
                    /\ phase = "clean" /\ range.last < launched => bad = {}
    BY DEF ExitTellsBadTips
<1>1. \A i \in bad : i \in DOMAIN log /\ i \in Position /\ i \in Tips
    BY LogFacts DEF RecInv, Matching, Tips
<1>2. ASSUME phase = "drift" PROVE bad # {}
  <2>1. PICK i \in Tips : tipped[i] > 0 /\ log[i].amount # log[i].fee + log[i].net
      BY <1>2 DEF RecInv, ExitIsBadTips, Reported, BadTips
  <2>2. PICK p \in 0 .. Len(log) : Snapshot(tipped, "tipped", p)
      BY DEF RecInv, ListsAreSnapshots
  <2>3. i \in Position
      BY LogFacts DEF RecInv
  <2>4. i \in Matching("tipped") \cap Decodable
      BY <2>1, <2>2, <2>3 DEF Snapshot
  <2> QED BY <2>1, <2>4
<1>3. ASSUME phase = "clean", range.last < launched PROVE bad = {}
  <2> SUFFICES ASSUME NEW i \in bad PROVE FALSE
      OBVIOUS
  <2>1. PICK p \in 0 .. Len(log) : /\ Snapshot(tipped, "tipped", p)
                                   /\ \A j \in Matching("tipped") : j =< p
      BY <1>3 DEF RecInv, Reported, Drained
  <2>2. tipped[i] = 1
      BY <1>1, <2>1 DEF Snapshot
  <2>3. i \in BadTips(tipped)
      BY <1>1, <2>2 DEF BadTips
  <2> QED BY <1>3, <2>3 DEF RecInv, ExitIsBadTips, Reported
<1> QED BY <1>2, <1>3

(* The tool says drift only of a log with a tip in the range that does not  *)
(* add up, and clean of a past range only if it has none: the two ways of   *)
(* computing the balances never disagree, whatever the lists hold.          *)
THEOREM ExitOnlyTellsBadTips == Spec => []ExitTellsBadTips
BY ExitTellsOfLog, ListsAlwaysExplained, PTL

-----------------------------------------------------------------------------
(* What the report says.                                                    *)

(* A list with nothing missing is all there is in the range.                *)
LEMMA CompleteList ==
    ASSUME TypeOK, NEW f, NEW t, Drained(f, t),
           range.last < launched \/ \E p \in 0 .. Len(log) :
                Snapshot(f, t, p) /\ \A i \in Matching(t) : i =< p,
           NEW i \in DOMAIN log, log[i].type = t, InRange(i) => i \in Decodable
    PROVE  f[i] = All[i]
<1>1. PICK p \in 0 .. Len(log) : Snapshot(f, t, p) /\ \A j \in Matching(t) : j =< p
    BY DEF Drained
<1>2. i \in Position
    BY LogFacts
<1>3. f[i] = IF i =< p /\ i \in Matching(t) \cap Decodable THEN 1 ELSE 0
    BY <1>1, <1>2 DEF Snapshot
<1>4. i \in Matching(t) <=> InRange(i)
    BY DEF Matching, InRange
<1> QED BY <1>1, <1>2, <1>3, <1>4 DEF All

(* The invariant at the report.                                             *)
LEMMA ReportIsExact == RecInv => ReportExact
<1> SUFFICES ASSUME RecInv, Reported, range.last < launched,
                    \A i \in DOMAIN log : InRange(i) => i \in Decodable
             PROVE  /\ \A g \in GistId : GistTotal(tipped, g) = GistTotal(All, g)
                    /\ \A a \in Author : PendingBalances(tipped, claimed)[a]
                                            = PendingBalance(All, All, a)
    BY DEF ReportExact
<1>1. \A i \in Tips : tipped[i] = All[i]
    BY CompleteList DEF RecInv, Tips
<1>2. \A i \in Claims : claimed[i] = All[i]
    BY CompleteList DEF RecInv, Claims
<1>3. /\ [i \in Tips |-> tipped[i] * log[i].amount] = [i \in Tips |-> All[i] * log[i].amount]
      /\ [i \in Tips |-> tipped[i] * log[i].net] = [i \in Tips |-> All[i] * log[i].net]
    BY <1>1
<1>4. [i \in Claims |-> claimed[i] * log[i].amount] = [i \in Claims |-> All[i] * log[i].amount]
    BY <1>2
<1>5. /\ \A g \in GistId : GistTotal(tipped, g) = GistTotal(All, g)
      /\ \A a \in Author : PendingBalance(tipped, claimed, a) = PendingBalance(All, All, a)
    BY <1>3, <1>4 DEF GistTotal, PendingBalance, NetTo, ClaimedBy
<1>6. TypeOK /\ \A i \in Position : tipped[i] \in Nat /\ claimed[i] \in Nat
    BY DEF RecInv, TypeOK
<1> QED BY <1>5, <1>6, BalancesAgree

(* No snapshot of the tips exceeds the range, and a list of claims that is  *)
(* complete is not below it.                                                *)
LEMMA ReportIsBounded ==
    ASSUME TypeOK, NEW tips, NEW claims, NEW p, NEW q \in 0 .. Len(log), NEW a,
           Snapshot(tips, "tipped", p),
           Snapshot(claims, "claimed", q), \A i \in Matching("claimed") : i =< q,
           \A i \in Claims : InRange(i) => i \in Decodable
    PROVE  PendingBalance(tips, claims, a) =< PendingBalance(All, All, a)
<1> DEFINE f == [i \in Tips |-> tips[i] * log[i].net]
           g == [i \in Tips |-> All[i] * log[i].net]
           F == {i \in Tips : log[i].recipient = a}
<1>1. ASSUME NEW i \in Tips
      PROVE  f[i] \in Int /\ g[i] \in Int /\ f[i] =< g[i]
  <2>1. i \in DOMAIN log /\ i \in Position /\ log[i].type = "tipped" /\ log[i].net \in Nat
      BY LogFacts, EventFacts DEF Tips
  <2>2. tips[i] = IF i =< p /\ i \in Matching("tipped") \cap Decodable THEN 1 ELSE 0
      BY <2>1 DEF Snapshot
  <2>3. i \in Matching("tipped") => All[i] = 1
      BY <2>1 DEF Matching, All, InRange
  <2>4. All[i] \in {0, 1}
      BY <2>1 DEF All
  <2>5. \/ tips[i] = 0 /\ All[i] = 0
        \/ tips[i] = 0 /\ All[i] = 1
        \/ tips[i] = 1 /\ All[i] = 1
      BY <2>2, <2>3, <2>4
  <2> QED BY <2>1, <2>5
<1>2. NetTo(tips, a) = SumFunctionOnSet(f, F) /\ NetTo(All, a) = SumFunctionOnSet(g, F)
    BY DEF NetTo
<1>3. IsFiniteSet(F) /\ F \subseteq Tips
    BY LogFacts, FS_Subset
<1> HIDE DEF f, g, F
<1>4. NetTo(tips, a) =< NetTo(All, a) /\ NetTo(tips, a) \in Int /\ NetTo(All, a) \in Int
    BY <1>1, <1>2, <1>3, SumLeq, SumInt
<1>5. \A i \in Claims : claims[i] = All[i]
  <2>1. Drained(claims, "claimed")
      BY DEF Drained
  <2> QED BY <2>1, CompleteList DEF Claims
<1>6. ClaimedBy(claims, a) = ClaimedBy(All, a)
  <2>1. [i \in Claims |-> claims[i] * log[i].amount] = [i \in Claims |-> All[i] * log[i].amount]
      BY <1>5
  <2> QED BY <2>1 DEF ClaimedBy
<1>7. ClaimedBy(All, a) \in Int
  <2>1. \A i \in Position : All[i] \in Nat
      BY DEF All
  <2> QED BY <2>1, BalanceIsInt
<1> QED BY <1>4, <1>6, <1>7 DEF PendingBalance

(* When the range was past at launch and all of it can be decoded, the      *)
(* report gives the sums of exactly the range.                              *)
THEOREM ReportsAreExact == Spec => []ReportExact
BY ReportIsExact, ListsAlwaysExplained, PTL

(* The last page of the claims comes after every page of the tips.          *)
LEMMA ReportStepBounded ==
    ASSUME RecInv, [Next]_vars, ~ Reported, Reported',
           \A i \in Claims : InRange(i)' => i \in Decodable,
           NEW a \in Author
    PROVE  (PendingBalances(tipped, claimed)[a] =< PendingBalance(All, All, a))'
<1>1. PICK upto \in 0 .. Len(log), more \in BOOLEAN : FetchPage(upto, more)
    BY DEF Next, VaultStep, ToolStep, vars, node, Reported, TipAuthors, ClaimTips, CloseLedger,
           Launch, FetchOrder, PanicOnPage, RequestFails
<1>2. /\ phase = "claimed" /\ ~ more /\ tipped' = tipped
      /\ claimed' = Push(claimed, Page(upto) \cap Decodable)
      /\ \A i \in Matching("claimed") : i =< upto
      /\ log' = log /\ range' = range /\ cursor =< upto
    BY <1>1 DEF FetchPage, Answer, EndOfPages, FetchOrder, Reported, node
<1> DEFINE claims == Push(claimed, Page(upto) \cap Decodable)
<1>3. cursor \in Nat /\ upto \in Nat /\ Snapshot(claimed, phase, cursor)
    BY <1>2 DEF RecInv, TypeOK
<1>4. claims \in [Position -> Nat] /\ Snapshot(claims, "claimed", upto)
    BY <1>2, <1>3, PushExtends
<1>5. PICK p \in 0 .. Len(log) : Snapshot(tipped, "tipped", p)
    BY DEF RecInv, ListsAreSnapshots
<1> HIDE DEF claims
<1>6. \A i \in Claims : InRange(i) => i \in Decodable
    BY <1>2 DEF InRange
<1>7. PendingBalances(tipped, claims)[a] =< PendingBalance(All, All, a)
  <2>1. PendingBalance(tipped, claims, a) =< PendingBalance(All, All, a)
      BY <1>2, <1>4, <1>5, <1>6, ReportIsBounded DEF RecInv
  <2>2. TypeOK /\ \A i \in Position : tipped[i] \in Nat /\ claims[i] \in Nat
      BY <1>4 DEF RecInv, TypeOK
  <2>3. PendingBalances(tipped, claims)[a] = PendingBalance(tipped, claims, a)
      BY <2>2, BalancesAgree
  <2> QED BY <2>1, <2>3
<1>8. (PendingBalances(tipped, claimed)[a])' = PendingBalances(tipped, claims)[a]
  <2>1. tipped' = tipped /\ claimed' = claims /\ log' = log
      BY <1>2 DEF claims
  <2> QED BY <2>1 DEF PendingBalances, AddedInTurn, Tips, Claims
<1>9. PendingBalance(All, All, a)' = PendingBalance(All, All, a)
    BY <1>2 DEF PendingBalance, NetTo, ClaimedBy, Tips, Claims, All, InRange
<1> QED BY <1>7, <1>8, <1>9

(* Whatever the vault does between the two fetches, no author is credited   *)
(* with more than the events of the range do when the report is printed.    *)
THEOREM ReportsNeverOverstate == Spec => NeverOverstates
<1>1. RecInv /\ [Next]_vars =>
         [~ Reported /\ Reported'
            /\ (\A i \in Claims : InRange(i)' => i \in Decodable) =>
              \A a \in Author :
                  (PendingBalances(tipped, claimed)[a] =< PendingBalance(All, All, a))']_vars
    BY ReportStepBounded
<1> QED BY <1>1, ListsAlwaysExplained, PTL DEF Spec, NeverOverstates

(* The safety half of Terminates: while a topic is fetched, a step of the   *)
(* tool that does not end the fetch moves the cursor on, within a log that  *)
(* is finite.  What is left to liveness is that the node answers.           *)
THEOREM PagesGoForward ==
    Spec => [][/\ phase \in {"tipped", "claimed"} /\ phase' = phase
               /\ UNCHANGED node
               => cursor < cursor' /\ cursor' =< Len(log)]_vars
<1>1. ASSUME RecInv, Next, vars' # vars, phase \in {"tipped", "claimed"}, phase' = phase,
             UNCHANGED node
      PROVE  cursor < cursor' /\ cursor' =< Len(log)
  <2>1. /\ log \in Seq(Event) /\ cursor \in Nat /\ Len(log) \in Nat
        /\ tipped \in [Position -> Nat] /\ claimed \in [Position -> Nat]
        /\ ledger \in Nat
      BY <1>1 DEF RecInv, TypeOK
  <2>2. PICK upto \in 0 .. Len(log), more \in BOOLEAN : FetchPage(upto, more)
    <3>1. \A b \in Batches, d \in Data : ~ TipAuthors(b, d) \/ UNCHANGED vars
        BY <1>1 DEF TipAuthors, node, vars
    <3>2. \A a \in Author, d \in Data : ~ ClaimTips(a, d)
      <4>1. \A e : Append(log, e) # log
          BY <2>1
      <4> QED BY <1>1, <4>1 DEF ClaimTips, node
    <3>3. ~ CloseLedger
        BY <1>1, <2>1 DEF CloseLedger, node
    <3> QED BY <1>1, <3>1, <3>2, <3>3
            DEF Next, VaultStep, ToolStep, Launch, PanicOnPage, RequestFails
  <2>3. /\ cursor =< upto /\ cursor' = upto /\ UNCHANGED <<node, range, launched>>
        /\ tipped' = IF phase = "tipped" THEN Push(tipped, Page(upto) \cap Decodable) ELSE tipped
        /\ claimed' = IF phase = "claimed" THEN Push(claimed, Page(upto) \cap Decodable) ELSE claimed
      BY <1>1, <2>2 DEF FetchPage, Answer, EndOfPages, NextCursor, FetchOrder
  <2>4. CASE cursor = upto
    <3>1. Page(upto) = {}
        BY <2>1, <2>4 DEF Page, Matching
    <3>2. tipped' = tipped /\ claimed' = claimed
        BY <2>1, <2>3, <3>1 DEF Push
    <3> QED BY <1>1, <2>3, <2>4, <3>2 DEF vars
  <2> QED BY <2>1, <2>3, <2>4
<1>2. RecInv /\ [Next]_vars =>
        [/\ phase \in {"tipped", "claimed"} /\ phase' = phase
         /\ UNCHANGED node
         => cursor < cursor' /\ cursor' =< Len(log)]_vars
    BY <1>1
<1> QED BY <1>2, ListsAlwaysExplained, PTL DEF Spec
=============================================================================
