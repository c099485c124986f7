------------------------- MODULE GistRegistry_proofs -------------------------
(***************************************************************************)
(* Theorems about the gist registry, for every value of its constants.     *)
(***************************************************************************)
EXTENDS GistRegistry, DataLemmas

(* Hours rounded up hold the seconds they were made from, and less than one *)
(* hour more.                                                               *)
LEMMA RoundedUp ==
    ASSUME NEW s \in Nat, NEW h \in Nat \ {0}
    PROVE  LET q == (s + h - 1) \div h IN q \in Nat /\ s =< q * h /\ q * h < s + h
<1> DEFINE n == s + h - 1
           q == n \div h
<1>1. n \in Nat
    OBVIOUS
<1>2. q \in Int /\ q * h =< n /\ n < (q + 1) * h
  <2> HIDE DEF n
  <2> QED BY <1>1
<1> HIDE DEF q
<1>3. q >= 0
    BY <1>1, <1>2
<1> QED BY <1>2, <1>3 DEF q

(* Multiplying by a natural number keeps an order.                          *)
LEMMA Monotone ==
    ASSUME NEW a \in Int, NEW b \in Int, NEW c \in Nat, a =< b
    PROVE  a * c =< b * c
OBVIOUS

(* And dividing a strict one.                                               *)
LEMMA StrictlyMonotone ==
    ASSUME NEW a \in Int, NEW b \in Int, NEW c \in Nat \ {0}, a * c < b * c
    PROVE  a < b
OBVIOUS

(* The ledgers of a TTL take at least as long as the seconds it was made    *)
(* from, and less than an hour longer.                                      *)
LEMMA TtlCovers ==
    ASSUME NEW s \in Nat
    PROVE  /\ SecondsToLedgerTtl(s) \in Nat
           /\ s * LEDGERS_PER_HOUR =< SecondsToLedgerTtl(s) * SECONDS_PER_HOUR
           /\ SecondsToLedgerTtl(s) * SECONDS_PER_HOUR
                < (s + SECONDS_PER_HOUR) * LEDGERS_PER_HOUR
<1> DEFINE L == LEDGERS_PER_HOUR
           H == SECONDS_PER_HOUR
           q == (s + H - 1) \div H
<1>1. L \in Nat \ {0} /\ H \in Nat \ {0}
    BY NumberAssumption
<1>2. q \in Nat /\ s =< q * H /\ q * H < s + H
    BY <1>1, RoundedUp
<1>3. SecondsToLedgerTtl(s) = q * L
    BY DEF SecondsToLedgerTtl, HoursToLedgerTtl
<1> HIDE DEF q, L, H
<1>4. q * H \in Nat /\ s + H \in Nat /\ (q * L) * H = (q * H) * L /\ q * L \in Nat
    BY <1>1, <1>2
<1>5. s * L =< (q * H) * L
    BY <1>1, <1>2, <1>4, Monotone
<1>6. (q * H) * L < (s + H) * L
  <2> DEFINE x == q * H
             y == s + H
  <2>1. x \in Nat /\ y \in Nat /\ x < y
      BY <1>2, <1>4
  <2> HIDE DEF x, y
  <2>2. x * L < y * L
      BY <1>1, <2>1
  <2> QED BY <2>2 DEF x, y
<1> QED BY <1>3, <1>4, <1>5, <1>6 DEF L, H

(* The expiry and TTL that post_gist takes from its argument: the TTL's     *)
(* ledgers last until the expiry, and no longer than the maximum.           *)
LEMMA LifeFacts ==
    ASSUME TypeOK, NEW arg \in TtlArg,
           GistTimeToExpiry(arg).expiry > now,
           GistTimeToExpiry(arg).expiry =< LatestExpiry(now)
    PROVE  LET life == GistTimeToExpiry(arg) IN
           /\ life.expiry \in Nat /\ life.ttl \in Nat
           /\ (life.expiry - now) * LEDGERS_PER_HOUR =< life.ttl * SECONDS_PER_HOUR
           /\ life.ttl =< HoursToLedgerTtl(MAX_GIST_TTL_HOURS + 1)
<1> DEFINE L == LEDGERS_PER_HOUR
           H == SECONDS_PER_HOUR
           M == MAX_GIST_TTL_HOURS
           life == GistTimeToExpiry(arg)
<1>1. /\ L \in Nat \ {0} /\ H \in Nat \ {0} /\ M \in Nat
      /\ DEFAULT_GIST_TTL_HOURS \in Nat /\ DEFAULT_GIST_TTL_HOURS =< M /\ now \in Nat
    BY NumberAssumption DEF TypeOK
<1>2. ASSUME NEW hours \in Nat, hours =< M,
             life = [expiry |-> now + hours * H, ttl |-> hours * L]
      PROVE  /\ life.expiry \in Nat /\ life.ttl \in Nat
             /\ (life.expiry - now) * L =< life.ttl * H
             /\ life.ttl =< (M + 1) * L
  <2>1. hours * H \in Nat /\ hours * L \in Nat /\ (hours * H) * L = (hours * L) * H
      BY <1>1
  <2>2. hours * L =< (M + 1) * L
      BY <1>1, <1>2, Monotone
  <2>3. life.expiry = now + hours * H /\ life.ttl = hours * L
      BY <1>2
  <2> HIDE DEF life, L, H, M
  <2> QED BY <1>1, <2>1, <2>2, <2>3
<1>3. ASSUME arg \in Nat, life = [expiry |-> arg, ttl |-> SecondsToLedgerTtl(arg - now)]
      PROVE  /\ life.expiry \in Nat /\ life.ttl \in Nat
             /\ (life.expiry - now) * L =< life.ttl * H
             /\ life.ttl =< (M + 1) * L
  <2> DEFINE t == SecondsToLedgerTtl(arg - now)
  <2>1. life.expiry = arg /\ life.ttl = t
      BY <1>3
  <2>2. arg - now \in Nat /\ arg - now =< M * H
    <3>1. arg > now /\ arg =< now + M * H /\ M * H \in Nat
        BY <1>1, <2>1 DEF LatestExpiry
    <3> HIDE DEF M, H
    <3> QED BY <1>1, <1>3, <3>1
  <2>3. t \in Nat /\ (arg - now) * L =< t * H /\ t * H < (arg - now + H) * L
      BY <2>2, TtlCovers
  <2> HIDE DEF t, L, H, M, life
  <2>4. (arg - now + H) * L =< (M * H + H) * L
    <3>1. arg - now + H \in Int /\ M * H + H \in Int /\ arg - now + H =< M * H + H
        BY <1>1, <1>3, <2>2
    <3> QED BY <1>1, <3>1, Monotone
  <2>5. (M * H + H) * L = ((M + 1) * L) * H
      BY <1>1
  <2>6. t * H < ((M + 1) * L) * H
    <3>1. {t * H, (arg - now + H) * L, (M * H + H) * L} \subseteq Int
        BY <1>1, <1>3, <2>3
    <3> QED BY <2>3, <2>4, <2>5, <3>1
  <2>7. t < (M + 1) * L
    <3>1. (M + 1) * L \in Int
        BY <1>1
    <3> QED BY <1>1, <2>3, <2>6, <3>1, StrictlyMonotone
  <2>8. (M + 1) * L \in Int
      BY <1>1
  <2> QED BY <1>3, <2>1, <2>3, <2>7, <2>8
<1>4. \/ \E hours \in Nat : hours =< M /\ life = [expiry |-> now + hours * H, ttl |-> hours * L]
      \/ arg \in Nat /\ life = [expiry |-> arg, ttl |-> SecondsToLedgerTtl(arg - now)]
  <2>1. arg = NoTtl \/ arg \in Nat
      BY SetAssumption
  <2>2. CASE arg = NoTtl
      BY <1>1, <2>2 DEF GistTimeToExpiry, HoursToLedgerTtl
  <2>3. CASE arg # NoTtl /\ arg =< MAX_GIST_TTL_HOURS
      BY <1>1, <2>1, <2>3 DEF GistTimeToExpiry, HoursToLedgerTtl
  <2>4. CASE arg # NoTtl /\ ~ (arg =< MAX_GIST_TTL_HOURS)
      BY <2>1, <2>4 DEF GistTimeToExpiry
  <2> QED BY <2>2, <2>3, <2>4
<1> QED BY <1>2, <1>3, <1>4 DEF HoursToLedgerTtl

-----------------------------------------------------------------------------
(* The inductive invariant.                                                 *)

(* The seconds a gist has left take no longer than the ledgers its entry    *)
(* has left, and its age in ledgers is no more than its age in seconds; so  *)
(* its entry outlives it, and an extension stays below the storage bound.   *)
Timely(gist, past) ==
    /\ past.expiry = gist.expiry
    /\ gist.timestamp =< now /\ past.seq =< seq /\ seq =< gist.until
    /\ (gist.expiry - now) * LEDGERS_PER_HOUR =< (gist.until - seq) * SECONDS_PER_HOUR
    /\ (seq - past.seq) * SECONDS_PER_HOUR =< (now - gist.timestamp) * LEDGERS_PER_HOUR
    /\ gist.until =< past.seq + HoursToLedgerTtl(MAX_GIST_TTL_HOURS + 1)
    /\ gist.is_active => gist.expiry =< LatestExpiry(gist.timestamp)

Kept(id) ==
    IF Stored(id) THEN Timely(gists[id], posted[id]) ELSE posted[id].expiry =< now

RegInv == TypeOK /\ \A id \in 1 .. gistCount : Kept(id)

(* The empty registry satisfies the invariant.                              *)
LEMMA InitEstablishes == Init => RegInv
<1> SUFFICES ASSUME Init PROVE RegInv
    OBVIOUS
<1>1. TypeOK
  <2>1. <<>> \in Seq(1 .. 0) /\ Len(<<>>) = 0 /\ DOMAIN <<>> = {}
      OBVIOUS
  <2> QED BY <2>1, NumberAssumption DEF Init, TypeOK, Id
<1>2. 1 .. gistCount = {}
    BY DEF Init
<1> QED BY <1>1, <1>2 DEF RegInv

(* A sequence over a set is one over a larger set.                          *)
LEMMA WiderSeq ==
    ASSUME NEW S, NEW T, S \subseteq T, NEW s \in Seq(S)
    PROVE  s \in Seq(T)
OBVIOUS

(* Appending the next id keeps a list ascending and within its limit.       *)
LEMMA NewestKept ==
    ASSUME NEW n \in Nat, NEW s \in Seq(1 .. n), Len(s) =< MAX_AUTHOR_GISTS,
           \A i, j \in DOMAIN s : i < j => s[i] < s[j],
           NEW t, t = KeepNewest(Append(s, n + 1))
    PROVE  /\ t \in Seq(1 .. n + 1) /\ Len(t) =< MAX_AUTHOR_GISTS
           /\ \A i, j \in DOMAIN t : i < j => t[i] < t[j]
<1> DEFINE u == Append(s, n + 1)
<1>0. /\ Len(s) \in Nat
      /\ \A i, j \in 1 .. Len(s) : i < j => s[i] < s[j]
      /\ \A i \in 1 .. Len(s) : s[i] \in 1 .. n
    OBVIOUS
<1>1. s \in Seq(1 .. n + 1) /\ n + 1 \in 1 .. n + 1
  <2>1. \A i \in 1 .. Len(s) : s[i] \in 1 .. n + 1
      OBVIOUS
  <2> QED BY <2>1
<1>2. /\ u \in Seq(1 .. n + 1) /\ Len(u) = Len(s) + 1
      /\ (\A i \in 1 .. Len(s) : u[i] = s[i]) /\ u[Len(s) + 1] = n + 1
    BY <1>1
<1>3. \A i, j \in 1 .. Len(u) : i < j => u[i] < u[j]
  <2> SUFFICES ASSUME NEW i \in 1 .. Len(u), NEW j \in 1 .. Len(u), i < j
               PROVE  u[i] < u[j]
      OBVIOUS
  <2> HIDE DEF u
  <2>1. i \in 1 .. Len(s) /\ u[i] = s[i]
      BY <1>0, <1>2, SMTT(30)
  <2>2. CASE j \in 1 .. Len(s)
      BY <1>0, <1>2, <2>1, <2>2
  <2>3. CASE j = Len(s) + 1
      BY <1>0, <1>2, <2>1, <2>3, SMTT(30)
  <2>4. j \in 1 .. Len(s) \/ j = Len(s) + 1
    <3>1. j \in Int /\ 1 =< j /\ j =< Len(s) + 1
        BY <1>0, <1>2
    <3> QED BY <1>0, <3>1, SMTT(30)
  <2> QED BY <2>2, <2>3, <2>4
<1> HIDE DEF u
<1>4. MAX_AUTHOR_GISTS \in Nat \ {0}
    BY NumberAssumption
<1>5. CASE Len(u) > MAX_AUTHOR_GISTS
  <2>1. t = Tail(u)
      BY <1>5 DEF KeepNewest, u
  <2>2. u # <<>>
      BY <1>0, <1>2
  <2>3. /\ t \in Seq(1 .. n + 1) /\ Len(t) = Len(u) - 1
        /\ \A i \in 1 .. Len(t) : t[i] = u[i + 1]
    <3> DEFINE S == 1 .. n + 1
    <3>1. u \in Seq(S)
        BY <1>2
    <3> HIDE DEF S
    <3>2. /\ Tail(u) \in Seq(S) /\ Len(Tail(u)) = Len(u) - 1
          /\ \A i \in 1 .. Len(Tail(u)) : Tail(u)[i] = u[i + 1]
        BY <2>2, <3>1, HeadTailProperties, Zenon
    <3> QED BY <2>1, <3>2, Zenon DEF S
  <2>4. DOMAIN t = 1 .. Len(t)
      BY <2>3
  <2>5. Len(t) =< MAX_AUTHOR_GISTS
      BY <1>0, <1>2, <1>4, <2>3
  <2>6. ASSUME NEW i \in 1 .. Len(t), NEW j \in 1 .. Len(t), i < j
        PROVE  t[i] < t[j]
    <3>1. i + 1 \in 1 .. Len(u) /\ j + 1 \in 1 .. Len(u) /\ i + 1 < j + 1
        BY <1>0, <1>2, <2>3, <2>6
    <3>2. t[i] = u[i + 1] /\ t[j] = u[j + 1]
        BY <2>3
    <3> QED BY <1>3, <3>1, <3>2
  <2> QED BY <2>3, <2>4, <2>5, <2>6
<1>6. CASE ~ (Len(u) > MAX_AUTHOR_GISTS)
  <2>1. t = u
      BY <1>6 DEF KeepNewest, u
  <2>2. DOMAIN u = 1 .. Len(u)
      BY <1>2
  <2>3. Len(u) =< MAX_AUTHOR_GISTS
      BY <1>0, <1>2, <1>4, <1>6
  <2> QED BY <1>2, <1>3, <2>1, <2>2, <2>3
<1> QED BY <1>5, <1>6

(* A batch's return value is a number.                                      *)
LEMMA CountIsNat ==
    ASSUME NEW ids \in Seq(Nat)
    PROVE  Cardinality({i \in DOMAIN ids : Stored(ids[i])}) \in Nat
<1>1. DOMAIN ids = 1 .. Len(ids) /\ Len(ids) \in Nat
    OBVIOUS
<1>2. IsFiniteSet(1 .. Len(ids))
    BY <1>1, FS_Interval
<1>3. {i \in DOMAIN ids : Stored(ids[i])} \subseteq 1 .. Len(ids)
    BY <1>1
<1>4. IsFiniteSet({i \in DOMAIN ids : Stored(ids[i])})
    BY <1>2, <1>3, FS_Subset
<1> QED BY <1>4, FS_CardinalityType

(* A gist that is expired now is timely still.                              *)
LEMMA InactiveTimely ==
    ASSUME TypeOK, NEW id \in Id, Stored(id), Timely(gists[id], posted[id])
    PROVE  /\ Inactive(gists[id]) \in Gist
           /\ Timely(Inactive(gists[id]), [posted[id] EXCEPT !.expiry = now])
<1> DEFINE g == gists[id]
           g2 == Inactive(gists[id])
           p == posted[id]
           p2 == [posted[id] EXCEPT !.expiry = now]
<1>1. g \in Gist /\ now \in Nat /\ seq \in Nat
      /\ p \in [author : Account \cup {NoAddress}, seq : Nat, expiry : Nat]
    BY DEF TypeOK, Stored
<1>2. /\ g2 \in Gist /\ g2.expiry = now /\ g2.is_active = FALSE
      /\ g2.timestamp = g.timestamp /\ g2.until = g.until
    BY <1>1 DEF Inactive, Gist
<1>3. p2.expiry = now /\ p2.seq = p.seq
    BY <1>1
<1>4. g.until \in Nat /\ LEDGERS_PER_HOUR \in Nat /\ SECONDS_PER_HOUR \in Nat
    BY <1>1, NumberAssumption DEF Gist
<1>5. (now - now) * LEDGERS_PER_HOUR =< (g.until - seq) * SECONDS_PER_HOUR
  <2> DEFINE k == g.until - seq
  <2>1. k \in Nat
      BY <1>1, <1>4 DEF Timely
  <2> HIDE DEF k
  <2>2. k * SECONDS_PER_HOUR \in Nat
      BY <1>4, <2>1
  <2> QED BY <1>1, <1>4, <2>2 DEF k
<1> QED BY <1>1, <1>2, <1>3, <1>5 DEF Timely

(* Expiring gists keeps the invariant.                                      *)
LEMMA ExpireAllStep ==
    ASSUME RegInv, NEW ids \in Seq(Nat), NEW by, ExpireAll(ids, by), returned' \in Nat
    PROVE  RegInv'
<1> DEFINE found == {id \in ToSet(ids) : Stored(id)}
<1>1. /\ TypeOK
      /\ gists' = [id \in Id |-> IF id \in found THEN Inactive(gists[id]) ELSE gists[id]]
      /\ posted' = [id \in Id |-> IF id \in found THEN [posted[id] EXCEPT !.expiry = now]
                                  ELSE posted[id]]
      /\ returned' \in Nat
      /\ UNCHANGED <<admin, gistCount, authorGists, authorUntil, now, seq>>
    BY DEF RegInv, ExpireAll
<1>2. /\ gistCount \in Nat /\ gistCount =< MaxGists /\ now \in Nat
      /\ \A id \in Id : gists[id] \in Gist \cup {NoGist}
      /\ \A id \in Id : posted[id] \in
            [author : Account \cup {NoAddress}, seq : Nat, expiry : Nat]
    BY <1>1 DEF TypeOK, Id
<1>3. ASSUME NEW id \in Id, id \in found
      PROVE  /\ Stored(id) /\ id \in 1 .. gistCount
             /\ gists'[id] = Inactive(gists[id]) /\ gists'[id] \in Gist
             /\ posted'[id] = [posted[id] EXCEPT !.expiry = now]
             /\ Timely(gists'[id], posted'[id])
  <2>1. Stored(id) /\ gists[id] # NoGist
      BY <1>3 DEF Stored
  <2>2. id \in 1 .. gistCount
      BY <1>1, <1>2, <2>1 DEF TypeOK, Id
  <2>3. Timely(gists[id], posted[id])
      BY <2>1, <2>2 DEF RegInv, Kept
  <2>4. gists'[id] = Inactive(gists[id])
        /\ posted'[id] = [posted[id] EXCEPT !.expiry = now]
      BY <1>1, <1>3
  <2> QED BY <1>1, <2>1, <2>2, <2>3, <2>4, InactiveTimely
<1>4. ASSUME NEW id \in Id, id \notin found
      PROVE  gists'[id] = gists[id] /\ posted'[id] = posted[id]
    BY <1>1, <1>4
<1> HIDE DEF found
<1>5. TypeOK'
  <2>1. gists' \in [Id -> Gist \cup {NoGist}]
    <3>1. \A id \in Id : gists'[id] \in Gist \cup {NoGist}
        BY <1>2, <1>3, <1>4
    <3> QED BY <1>1, <3>1
  <2>2. posted' \in [Id -> [author : Account \cup {NoAddress}, seq : Nat, expiry : Nat]]
    <3>1. \A id \in Id : posted'[id] \in
             [author : Account \cup {NoAddress}, seq : Nat, expiry : Nat]
        BY <1>2, <1>3, <1>4
    <3> QED BY <1>1, <3>1
  <2>3. ASSUME NEW id \in Id, id > gistCount PROVE gists'[id] = NoGist
    <3>1. id \notin found
      <4>1. ~ (id \in 1 .. gistCount)
          BY <1>2, <2>3
      <4> QED BY <1>3, <4>1
    <3>2. gists[id] = NoGist
        BY <1>1, <2>3 DEF TypeOK
    <3> QED BY <1>4, <3>1, <3>2
  <2> QED BY <1>1, <2>1, <2>2, <2>3 DEF TypeOK
<1>6. ASSUME NEW id \in 1 .. gistCount PROVE Kept(id)'
  <2>1. id \in Id
      BY <1>2, NumberAssumption, SMTT(30) DEF Id
  <2>2. CASE id \in found
    <3>1. now' = now /\ seq' = seq
        BY <1>1
    <3>2. Timely(gists[id], posted[id])'
        BY <1>3, <2>1, <2>2, <3>1 DEF Timely, LatestExpiry
    <3>3. posted'[id].expiry =< now'
        BY <1>1, <1>2, <1>3, <2>1, <2>2
    <3> QED BY <3>2, <3>3 DEF Kept
  <2>3. CASE id \notin found
    <3>1. gists'[id] = gists[id] /\ posted'[id] = posted[id] /\ now' = now /\ seq' = seq
        BY <1>1, <1>4, <2>1, <2>3
    <3>2. Kept(id)
        BY DEF RegInv
    <3> QED BY <3>1, <3>2 DEF Kept, Stored, Timely, LatestExpiry
  <2> QED BY <2>2, <2>3
<1> QED BY <1>1, <1>5, <1>6 DEF RegInv

(* So does a post, whose TTL is rounded up.                                 *)
LEMMA PostGistStep ==
    ASSUME RegInv, NEW author \in Author, NEW arg \in TtlArg, PostGist(author, arg)
    PROVE  RegInv'
<1> DEFINE id == gistCount + 1
           life == GistTimeToExpiry(arg)
           new == [author |-> author, timestamp |-> now, expiry |-> life.expiry,
                   is_active |-> TRUE, until |-> seq + life.ttl]
           past == [author |-> author, seq |-> seq, expiry |-> life.expiry]
<1>1. /\ TypeOK /\ author \in Account
      /\ id \in Id /\ gistCount \in Nat /\ now \in Nat /\ seq \in Nat
    BY SetAssumption DEF RegInv, PostGist, TypeOK
<1>2. /\ life.expiry > now /\ life.expiry =< LatestExpiry(now)
      /\ gistCount' = id
      /\ gists' = [gists EXCEPT ![id] = new]
      /\ posted' = [posted EXCEPT ![id] = past]
      /\ AppendAuthorGist(author, id) /\ returned' = id
      /\ UNCHANGED <<admin, now, seq>>
    BY DEF PostGist
<1>3. /\ life.expiry \in Nat /\ life.ttl \in Nat
      /\ (life.expiry - now) * LEDGERS_PER_HOUR =< life.ttl * SECONDS_PER_HOUR
      /\ life.ttl =< HoursToLedgerTtl(MAX_GIST_TTL_HOURS + 1)
    BY <1>1, <1>2, LifeFacts
<1> HIDE DEF life
<1>4. LEDGERS_PER_HOUR \in Nat /\ SECONDS_PER_HOUR \in Nat /\ MAX_GIST_TTL_HOURS \in Nat
      /\ AUTHOR_LIST_TTL_HOURS \in Nat
    BY NumberAssumption
<1>5. HoursToLedgerTtl(MAX_GIST_TTL_HOURS + 1) \in Nat
      /\ HoursToLedgerTtl(AUTHOR_LIST_TTL_HOURS) \in Nat
    BY <1>4 DEF HoursToLedgerTtl
<1>6. new \in Gist
      /\ past \in [author : Account \cup {NoAddress}, seq : Nat, expiry : Nat]
    BY <1>1, <1>3 DEF Gist
<1>7. gists'[id] = new /\ posted'[id] = past
      /\ \A other \in Id \ {id} : gists'[other] = gists[other] /\ posted'[other] = posted[other]
    BY <1>1, <1>2 DEF TypeOK
<1> HIDE DEF new, past
<1>8. TypeOK'
  <2>1. authorGists' \in [Account -> Seq(1 .. id)]
        /\ \A a \in Account :
              /\ Len(authorGists'[a]) =< MAX_AUTHOR_GISTS
              /\ \A i, j \in DOMAIN authorGists'[a] :
                    i < j => authorGists'[a][i] < authorGists'[a][j]
    <3>1. ASSUME NEW a \in Account
          PROVE  /\ authorGists'[a] \in Seq(1 .. id)
                 /\ Len(authorGists'[a]) =< MAX_AUTHOR_GISTS
                 /\ \A i, j \in DOMAIN authorGists'[a] :
                       i < j => authorGists'[a][i] < authorGists'[a][j]
      <4>1. /\ authorGists[a] \in Seq(1 .. gistCount)
            /\ Len(authorGists[a]) =< MAX_AUTHOR_GISTS
            /\ \A i, j \in DOMAIN authorGists[a] :
                  i < j => authorGists[a][i] < authorGists[a][j]
          BY <1>1 DEF TypeOK
      <4>2. CASE a = author
        <5>1. authorGists'[a] = KeepNewest(Append(authorGists[a], gistCount + 1))
            BY <1>1, <1>2, <4>2 DEF AppendAuthorGist, TypeOK
        <5> QED BY <1>1, <4>1, <5>1, NewestKept
      <4>3. CASE a # author
        <5>1. authorGists'[a] = authorGists[a]
            BY <1>1, <1>2, <4>3 DEF AppendAuthorGist, TypeOK
        <5>2. 1 .. gistCount \subseteq 1 .. id
            BY <1>1
        <5>3. authorGists[a] \in Seq(1 .. id)
          <6> HIDE DEF id
          <6> QED BY <4>1, <5>2, WiderSeq
        <5> QED BY <4>1, <5>1, <5>3
      <4> QED BY <4>2, <4>3
    <3>2. authorGists' = [a \in Account |-> authorGists'[a]]
        BY <1>1, <1>2 DEF AppendAuthorGist, TypeOK
    <3> QED BY <3>1, <3>2
  <2>2. authorUntil' \in [Account -> Nat]
      BY <1>1, <1>2, <1>5, SMTT(30) DEF AppendAuthorGist, TypeOK, ExtendTtl
  <2>3. gists' \in [Id -> Gist \cup {NoGist}]
        /\ posted' \in [Id -> [author : Account \cup {NoAddress}, seq : Nat, expiry : Nat]]
      BY <1>1, <1>2, <1>6 DEF TypeOK
  <2>4. ASSUME NEW other \in Id, other > id PROVE gists'[other] = NoGist
      BY <1>1, <1>7, <2>4 DEF TypeOK, Id
  <2>5. id \in 0 .. MaxGists /\ returned' \in Nat
      BY <1>1, <1>2 DEF Id
  <2> QED BY <1>1, <1>2, <2>1, <2>2, <2>3, <2>4, <2>5 DEF TypeOK
<1>9. ASSUME NEW other \in 1 .. id PROVE Kept(other)'
  <2>1. CASE other = id
    <3>1. Timely(gists[other], posted[other])'
      <4>1. /\ past.expiry = life.expiry /\ past.seq = seq
            /\ new.expiry = life.expiry /\ new.timestamp = now
            /\ new.until = seq + life.ttl
          BY DEF new, past
      <4>2. (seq - seq) * SECONDS_PER_HOUR =< (now - now) * LEDGERS_PER_HOUR
          BY <1>1, <1>4
      <4>3. seq + life.ttl - seq = life.ttl
          BY <1>1, <1>3
      <4>4. now' = now /\ seq' = seq
          BY <1>2
      <4>5. seq + life.ttl =< seq + HoursToLedgerTtl(MAX_GIST_TTL_HOURS + 1)
            /\ seq =< seq + life.ttl
          BY <1>1, <1>3, <1>5
      <4>6. Timely(new, past)
          BY <1>1, <1>2, <1>3, <4>1, <4>2, <4>3, <4>5 DEF Timely
      <4>7. gists'[other] = new /\ posted'[other] = past
          BY <1>7, <2>1
      <4> QED BY <4>4, <4>6, <4>7 DEF Timely, LatestExpiry
    <3>2. Stored(other)'
        BY <2>1, <1>1, <1>6, <1>7, SetAssumption DEF Stored
    <3> QED BY <3>1, <3>2 DEF Kept
  <2>2. CASE other # id
    <3>1. other \in 1 .. gistCount /\ other \in Id
        BY <1>1, <2>2, NumberAssumption DEF Id
    <3>2. Kept(other)
        BY <3>1 DEF RegInv
    <3>3. gists'[other] = gists[other] /\ posted'[other] = posted[other]
          /\ now' = now /\ seq' = seq
        BY <1>2, <1>7, <2>2, <3>1
    <3> QED BY <3>2, <3>3 DEF Kept, Stored, Timely, LatestExpiry
  <2> QED BY <2>1, <2>2
<1> QED BY <1>2, <1>8, <1>9 DEF RegInv

(* An extension's TTL reaches the new expiry, and stays below the bound     *)
(* since the gist's age in ledgers is no more than its age in seconds.      *)
LEMMA ExtensionTimely ==
    ASSUME NEW gist \in Gist, NEW past, Timely(gist, past), past.seq \in Nat,
           now \in Nat, seq \in Nat,
           NEW expiry \in Nat, expiry >= now, expiry =< LatestExpiry(gist.timestamp),
           NEW until, until = ExtendTtl(gist.until, SecondsToLedgerTtl(expiry - now))
    PROVE  /\ until \in Nat /\ gist.until =< until
           /\ (expiry - now) * LEDGERS_PER_HOUR =< (until - seq) * SECONDS_PER_HOUR
           /\ until =< past.seq + HoursToLedgerTtl(MAX_GIST_TTL_HOURS + 1)
<1> DEFINE L == LEDGERS_PER_HOUR
           H == SECONDS_PER_HOUR
           M == MAX_GIST_TTL_HOURS
           s == expiry - now
           t == SecondsToLedgerTtl(s)
           age == seq - past.seq
           time == now - gist.timestamp
           bound == (M + 1) * L
<1>1. L \in Nat \ {0} /\ H \in Nat \ {0} /\ M \in Nat \ {0}
    BY NumberAssumption
<1>2. gist.until \in Nat /\ gist.timestamp \in Nat
    BY DEF Gist
<1>3. s \in Nat
    OBVIOUS
<1>4. t \in Nat /\ s * L =< t * H /\ t * H < (s + H) * L
    BY <1>3, TtlCovers
<1>5. age \in Nat /\ time \in Nat /\ age * H =< time * L
    BY <1>2 DEF Timely
<1>6. s + time =< M * H
  <2>1. M * H \in Nat
      BY <1>1
  <2>2. expiry =< gist.timestamp + M * H
      BY DEF LatestExpiry
  <2> HIDE DEF M, H
  <2> QED BY <1>2, <2>1, <2>2
<1>7. gist.until =< past.seq + bound
    BY DEF Timely, HoursToLedgerTtl
<1>8. until = IF gist.until < seq + t THEN seq + t ELSE gist.until
    BY DEF ExtendTtl
<1>9. age + t < bound
  <2> HIDE DEF L, H, M, s, t, age, time, bound
  <2>1. bound \in Nat /\ bound * H = (M * H + H) * L
      BY <1>1 DEF bound
  <2>2. (s + H) * L + time * L = (s + time + H) * L
      BY <1>1, <1>3, <1>5
  <2>3. (s + time + H) * L =< (M * H + H) * L
    <3>1. s + time + H \in Int /\ M * H + H \in Int /\ s + time + H =< M * H + H
      <4>1. M * H \in Int
          BY <1>1
      <4> QED BY <1>1, <1>3, <1>5, <1>6, <4>1
    <3> QED BY <1>1, <3>1, Monotone
  <2>4. (age + t) * H = age * H + t * H
      BY <1>1, <1>4, <1>5
  <2>5. {age * H, t * H, (s + H) * L, time * L, bound * H} \subseteq Int
      BY <1>1, <1>3, <1>4, <1>5, <2>1
  <2>6. (age + t) * H < bound * H
      BY <1>4, <1>5, <2>1, <2>2, <2>3, <2>4, <2>5
  <2>7. age + t \in Int
      BY <1>4, <1>5
  <2> QED BY <1>1, <2>1, <2>6, <2>7, StrictlyMonotone
<1>10. bound \in Nat
    BY <1>1
<1>11. until - seq >= t /\ until \in Nat /\ gist.until =< until
  <2> HIDE DEF t
  <2> QED BY <1>2, <1>4, <1>8
<1>12. t * H =< (until - seq) * H
  <2> HIDE DEF t, H
  <2>1. until - seq \in Int /\ t \in Int /\ t =< until - seq
      BY <1>4, <1>11
  <2> QED BY <1>1, <2>1, Monotone
<1>13. s * L =< (until - seq) * H
  <2>1. {s * L, t * H, (until - seq) * H} \subseteq Int
    <3> HIDE DEF t, H, L, s
    <3> QED BY <1>1, <1>3, <1>4, <1>11
  <2> HIDE DEF t, H, L, s
  <2> QED BY <1>4, <1>12, <2>1
<1>14. until =< past.seq + bound
  <2> HIDE DEF t, bound
  <2> QED BY <1>2, <1>4, <1>7, <1>8, <1>9, <1>10
<1> QED BY <1>11, <1>13, <1>14 DEF HoursToLedgerTtl

(* And an extension.                                                        *)
LEMMA ExtendStep ==
    ASSUME RegInv, NEW caller, NEW id \in Id, ExtendGistTtl(caller, id)
    PROVE  RegInv'
<1> DEFINE g == gists[id]
           expiry == g.expiry + EXTENSION_HOURS * SECONDS_PER_HOUR
           until == ExtendTtl(g.until, SecondsToLedgerTtl(expiry - now))
           g2 == [g EXCEPT !.expiry = expiry, !.until = until]
           p2 == [posted[id] EXCEPT !.expiry = expiry]
<1>1. /\ TypeOK /\ Stored(id) /\ g \in Gist /\ g # NoGist /\ g.is_active
      /\ now \in Nat /\ seq \in Nat
      /\ gistCount \in Nat /\ gistCount =< MaxGists
      /\ posted[id] \in [author : Account \cup {NoAddress}, seq : Nat, expiry : Nat]
    BY DEF RegInv, ExtendGistTtl, TypeOK, Stored
<1>2. expiry =< LatestExpiry(g.timestamp) /\ expiry >= now /\ Prolong(id, expiry)
    BY DEF ExtendGistTtl
<1>3. expiry \in Nat
    BY <1>1, NumberAssumption DEF Gist
<1>4. id \in 1 .. gistCount
    BY <1>1, NumberAssumption DEF TypeOK, Id
<1>5. Timely(g, posted[id])
    BY <1>1, <1>4 DEF RegInv, Kept
<1> HIDE DEF expiry
<1>6. /\ until \in Nat /\ g.until =< until
      /\ (expiry - now) * LEDGERS_PER_HOUR =< (until - seq) * SECONDS_PER_HOUR
      /\ until =< posted[id].seq + HoursToLedgerTtl(MAX_GIST_TTL_HOURS + 1)
    BY <1>1, <1>2, <1>3, <1>5, ExtensionTimely
<1> HIDE DEF until
<1>7. /\ gists' = [gists EXCEPT ![id] = g2] /\ posted' = [posted EXCEPT ![id] = p2]
      /\ returned' = 0
      /\ UNCHANGED <<admin, gistCount, authorGists, authorUntil, now, seq>>
  <2>1. gists' = [gists EXCEPT ![id].expiry = expiry, ![id].until = until]
      BY <1>2 DEF Prolong, until
  <2> QED BY <1>1, <1>2, <2>1 DEF Prolong, TypeOK
<1>8. /\ g2 \in Gist /\ g2.expiry = expiry /\ g2.until = until
      /\ g2.timestamp = g.timestamp /\ g2.is_active = g.is_active
      /\ p2 \in [author : Account \cup {NoAddress}, seq : Nat, expiry : Nat]
      /\ p2.expiry = expiry /\ p2.seq = posted[id].seq
    BY <1>1, <1>3, <1>6 DEF Gist
<1>9. Timely(g2, p2)
  <2>1. g.until \in Nat
      BY <1>1 DEF Gist
  <2> HIDE DEF g2, p2, g
  <2> QED BY <1>1, <1>2, <1>5, <1>6, <1>8, <2>1 DEF Timely
<1> HIDE DEF g2, p2
<1>10. TypeOK'
  <2>1. gists' \in [Id -> Gist \cup {NoGist}]
        /\ posted' \in [Id -> [author : Account \cup {NoAddress}, seq : Nat, expiry : Nat]]
      BY <1>1, <1>7, <1>8 DEF TypeOK
  <2>2. ASSUME NEW other \in Id, other > gistCount PROVE gists'[other] = NoGist
    <3>1. other # id
        BY <1>1, <1>4, <2>2
    <3> QED BY <1>1, <1>7, <2>2, <3>1 DEF TypeOK
  <2> QED BY <1>1, <1>7, <2>1, <2>2 DEF TypeOK
<1>11. ASSUME NEW other \in 1 .. gistCount PROVE Kept(other)'
  <2>1. other \in Id /\ Kept(other)
      BY <1>1, NumberAssumption DEF Id, RegInv
  <2>2. CASE other = id
    <3>1. gists'[other] = g2 /\ posted'[other] = p2 /\ now' = now /\ seq' = seq
        BY <1>1, <1>7, <2>1, <2>2 DEF TypeOK
    <3>2. Stored(other)'
        BY <1>8, <2>1, <3>1, SetAssumption DEF Stored
    <3>3. Timely(gists[other], posted[other])'
        BY <1>9, <3>1 DEF Timely, LatestExpiry
    <3> QED BY <3>2, <3>3 DEF Kept
  <2>3. CASE other # id
    <3>1. gists'[other] = gists[other] /\ posted'[other] = posted[other]
          /\ now' = now /\ seq' = seq
        BY <1>1, <1>7, <2>1, <2>3 DEF TypeOK
    <3> QED BY <2>1, <3>1 DEF Kept, Stored, Timely, LatestExpiry
  <2> QED BY <2>2, <2>3
<1> QED BY <1>7, <1>10, <1>11 DEF RegInv

(* A ledger takes from the ledgers an entry has left no more than from the  *)
(* time its gist has left, and an entry that goes has no time left.         *)
LEMMA CloseLedgerStep ==
    ASSUME RegInv, NEW d \in LedgerSeconds, CloseLedger(d)
    PROVE  RegInv'
<1> DEFINE L == LEDGERS_PER_HOUR
           H == SECONDS_PER_HOUR
<1>1. /\ TypeOK /\ now \in Nat /\ seq \in Nat /\ d \in Nat /\ d * L >= H
      /\ now' = now + d /\ seq' = seq + 1
      /\ gists' = [id \in Id |-> IF Stored(id) /\ gists[id].until < seq'
                                 THEN NoGist ELSE gists[id]]
      /\ authorGists' = [a \in Account |-> IF authorUntil[a] < seq'
                                           THEN <<>> ELSE authorGists[a]]
      /\ returned' = 0
      /\ UNCHANGED <<admin, gistCount, authorUntil, posted>>
    BY SetAssumption, PaceAssumption DEF RegInv, CloseLedger, TypeOK
<1>2. /\ L \in Nat \ {0} /\ H \in Nat \ {0} /\ MaxGists \in Nat
      /\ MAX_GIST_TTL_HOURS \in Nat /\ gistCount \in Nat /\ gistCount =< MaxGists
    BY <1>1, NumberAssumption DEF TypeOK
<1>0. /\ now \in Nat /\ seq \in Nat /\ d \in Nat /\ d * L >= H
      /\ now' = now + d /\ seq' = seq + 1
    BY <1>1
<1>3. TypeOK'
  <2>1. gists' \in [Id -> Gist \cup {NoGist}]
        /\ \A id \in Id : id > gistCount => gists'[id] = NoGist
      BY <1>1 DEF TypeOK
  <2>2. authorGists' \in [Account -> Seq(1 .. gistCount)]
        /\ \A a \in Account :
              /\ Len(authorGists'[a]) =< MAX_AUTHOR_GISTS
              /\ \A i, j \in DOMAIN authorGists'[a] :
                    i < j => authorGists'[a][i] < authorGists'[a][j]
    <3>1. <<>> \in Seq(1 .. gistCount) /\ Len(<<>>) = 0 /\ DOMAIN <<>> = {}
        OBVIOUS
    <3>2. 0 =< MAX_AUTHOR_GISTS
        BY NumberAssumption
    <3>3. ASSUME NEW a \in Account
          PROVE  authorGists'[a] = <<>> \/ authorGists'[a] = authorGists[a]
        BY <1>1
    <3>4. ASSUME NEW a \in Account
          PROVE  /\ authorGists'[a] \in Seq(1 .. gistCount)
                 /\ Len(authorGists'[a]) =< MAX_AUTHOR_GISTS
                 /\ \A i, j \in DOMAIN authorGists'[a] :
                       i < j => authorGists'[a][i] < authorGists'[a][j]
      <4>1. CASE authorGists'[a] = <<>>
          BY <3>1, <3>2, <4>1
      <4>2. CASE authorGists'[a] = authorGists[a]
          BY <1>1, <4>2 DEF TypeOK
      <4> QED BY <3>3, <4>1, <4>2
    <3>5. authorGists' = [a \in Account |-> authorGists'[a]]
        BY <1>1
    <3> QED BY <3>4, <3>5
  <2>3. now' \in Nat /\ seq' \in Nat
      BY <1>1
  <2> QED BY <1>1, <2>1, <2>2, <2>3 DEF TypeOK
<1>4. ASSUME NEW id \in 1 .. gistCount PROVE Kept(id)'
  <2> DEFINE g == gists[id]
             p == posted[id]
  <2>1. id \in Id /\ Kept(id)
        /\ p \in [author : Account \cup {NoAddress}, seq : Nat, expiry : Nat]
    <3>1. id \in Id
        BY <1>2 DEF Id
    <3> QED BY <1>1, <3>1 DEF RegInv, TypeOK
  <2>2. p.seq \in Nat /\ p.expiry \in Nat /\ posted'[id] = p
      BY <1>1, <2>1
  <2>3. CASE ~ Stored(id)
    <3>1. ~ Stored(id)'
        BY <1>1, <2>1, <2>3 DEF Stored
    <3>2. p.expiry =< now'
        BY <1>1, <2>1, <2>2, <2>3 DEF Kept
    <3> QED BY <2>2, <3>1, <3>2 DEF Kept
  <2>4. CASE Stored(id)
    <3>1. g \in Gist /\ Timely(g, p)
        BY <1>1, <2>1, <2>4 DEF Kept, Stored, TypeOK
    <3>2. /\ g.until \in Nat /\ g.expiry \in Nat /\ g.timestamp \in Nat
          /\ g.expiry = p.expiry
        BY <3>1 DEF Gist, Timely
    <3> DEFINE left == g.expiry - now
               ledgers == g.until - seq
               age == seq - p.seq
               time == now - g.timestamp
    <3>3. /\ left \in Int /\ ledgers \in Nat /\ age \in Nat /\ time \in Nat
          /\ left * L =< ledgers * H /\ age * H =< time * L
      <4>1. /\ g.timestamp =< now /\ p.seq =< seq /\ seq =< g.until
            /\ left * L =< ledgers * H /\ age * H =< time * L
          BY <3>1 DEF Timely
      <4> HIDE DEF L, H, g, p
      <4> QED BY <1>0, <2>2, <3>2, <4>1
    <3>4. CASE g.until < seq'
      <4>1. ledgers = 0
        <5> HIDE DEF L, H, g
        <5> QED BY <1>0, <3>2, <3>3, <3>4
      <4>2. left =< 0
        <5>1. left * L =< 0
          <6> HIDE DEF left, ledgers, L, H
          <6>1. ledgers * H = 0
              BY <1>2, <4>1
          <6> QED BY <3>3, <6>1
        <5> HIDE DEF left, L
        <5>2. left * L < 1 * L
            BY <1>2, <3>3, <5>1
        <5>3. left < 1
            BY <1>2, <3>3, <5>2, StrictlyMonotone
        <5> QED BY <3>3, <5>3
      <4>3. p.expiry =< now'
          BY <1>1, <3>2, <4>2
      <4>4. ~ Stored(id)'
          BY <1>1, <2>1, <2>4, <3>4 DEF Stored
      <4> QED BY <2>2, <4>3, <4>4 DEF Kept
    <3>5. CASE ~ (g.until < seq')
      <4>1. gists'[id] = g
          BY <1>1, <2>1, <3>5
      <4>2. (g.expiry - now') * L =< (g.until - seq') * H
        <5> HIDE DEF L, H, g
        <5>1. g.expiry - now' = left - d /\ g.until - seq' = ledgers - 1
            BY <1>0, <3>2
        <5> HIDE DEF left, ledgers
        <5>2. (left - d) * L = left * L - d * L /\ (ledgers - 1) * H = ledgers * H - H
            BY <1>0, <1>2, <3>3
        <5>3. {left * L, ledgers * H, d * L} \subseteq Int
            BY <1>0, <1>2, <3>3
        <5>4. left * L - d * L =< ledgers * H - H
            BY <1>0, <1>2, <3>3, <5>3
        <5> QED BY <5>1, <5>2, <5>4
      <4>3. (seq' - p.seq) * H =< (now' - g.timestamp) * L
        <5> HIDE DEF L, H, g, p
        <5>1. now' - g.timestamp = time + d /\ seq' - p.seq = age + 1
            BY <1>0, <2>2, <3>2
        <5> HIDE DEF time, age
        <5>2. (time + d) * L = time * L + d * L /\ (age + 1) * H = age * H + H
            BY <1>0, <1>2, <3>3
        <5>3. {time * L, age * H, d * L} \subseteq Int
            BY <1>0, <1>2, <3>3
        <5>4. age * H + H =< time * L + d * L
            BY <1>0, <1>2, <3>3, <5>3
        <5> QED BY <5>1, <5>2, <5>4
      <4>4. g.timestamp =< now' /\ p.seq =< seq' /\ seq' =< g.until
        <5>1. g.timestamp =< now /\ p.seq =< seq
            BY <3>1 DEF Timely
        <5> HIDE DEF g, p, L, H
        <5> QED BY <1>0, <2>2, <3>2, <3>5, <5>1
      <4>5. Timely(gists[id], posted[id])'
          BY <2>2, <3>1, <4>1, <4>2, <4>3, <4>4 DEF Timely, LatestExpiry
      <4>6. Stored(id)'
          BY <2>1, <2>4, <4>1 DEF Stored
      <4> QED BY <4>5, <4>6 DEF Kept
    <3> QED BY <3>4, <3>5
  <2> QED BY <2>3, <2>4
<1> QED BY <1>1, <1>3, <1>4 DEF RegInv

-----------------------------------------------------------------------------
(* Theorems.                                                                *)

(* Every step of the registry keeps the invariant.                          *)
LEMMA RegInvStep ==
    ASSUME RegInv, [Next]_vars PROVE RegInv'
<1>1. CASE \E a \in Administrator : Initialize(a)
    BY <1>1, SetAssumption
       DEF RegInv, TypeOK, Kept, Stored, Timely, LatestExpiry, Initialize
<1>2. CASE \E a \in Account, b \in Administrator : SetAdmin(a, b)
    BY <1>2, SetAssumption
       DEF RegInv, TypeOK, Kept, Stored, Timely, LatestExpiry, SetAdmin
<1>3. CASE \E a \in Author, arg \in TtlArg : PostGist(a, arg)
    BY <1>3, PostGistStep
<1>4. ASSUME NEW a \in Account, NEW id \in Id,
             ExpireGist(a, id) \/ AdminExpireGist(a, id)
      PROVE  RegInv'
  <2>1. ExpireAll(<<id>>, a) /\ returned' \in Nat
      BY <1>4 DEF ExpireGist, AdminExpireGist
  <2>2. <<id>> \in Seq(Nat)
      BY NumberAssumption DEF Id
  <2> QED BY <2>1, <2>2, ExpireAllStep
<1>5. CASE \E a \in Account, id \in Id : ExtendGistTtl(a, id)
    BY <1>5, ExtendStep
<1>6. ASSUME NEW a \in Account, NEW ids \in ExpireBatches, BatchExpire(a, ids)
      PROVE  RegInv'
  <2>1. ids \in Seq(Nat)
      BY SetAssumption
  <2>2. ExpireAll(ids, a) /\ returned' \in Nat
      BY <1>6, <2>1, CountIsNat DEF BatchExpire
  <2> QED BY <2>1, <2>2, ExpireAllStep
<1>7. CASE \E d \in LedgerSeconds : CloseLedger(d)
    BY <1>7, CloseLedgerStep
<1>8. CASE UNCHANGED vars
    BY <1>8 DEF RegInv, TypeOK, Kept, Stored, Timely, LatestExpiry, vars, storage
<1> QED BY <1>1, <1>2, <1>3, <1>4, <1>5, <1>6, <1>7, <1>8 DEF Next

(* The inductive invariant holds throughout.                                *)
THEOREM AlwaysTimely == Spec => []RegInv
<1>1. Init => RegInv
    BY InitEstablishes
<1>2. RegInv /\ [Next]_vars => RegInv'
    BY RegInvStep
<1> QED BY <1>1, <1>2, PTL DEF Spec

(* The registry's variables keep their types, and author lists their order  *)
(* and limit.                                                               *)
THEOREM RegistryTypeOK == Spec => []TypeOK
<1>1. RegInv => TypeOK
    BY DEF RegInv
<1> QED BY <1>1, AlwaysTimely, PTL

(* A promise the invariant keeps: an entry that is gone has expired.        *)
LEMMA TimelyNotEarly == RegInv => NoEarlyEviction
<1> SUFFICES ASSUME RegInv, NEW id \in 1 .. gistCount, posted[id].expiry > now,
                    ~ Stored(id)
             PROVE  FALSE
    BY DEF NoEarlyEviction
<1>1. posted[id].expiry =< now
    BY DEF RegInv, Kept
<1>2. id \in Id /\ now \in Nat /\ posted[id].expiry \in Nat
  <2>1. gistCount \in 0 .. MaxGists /\ now \in Nat
        /\ posted \in [Id -> [author : Account \cup {NoAddress}, seq : Nat, expiry : Nat]]
      BY DEF RegInv, TypeOK
  <2>2. id \in Id
      BY <2>1, NumberAssumption, SMTT(30) DEF Id
  <2> QED BY <2>1, <2>2
<1> QED BY <1>1, <1>2

(* No gist is evicted before the expiry it was promised, for every lifetime *)
(* asked for and every extension, if an hour holds no more than             *)
(* LEDGERS_PER_HOUR ledgers.                                                *)
THEOREM NeverEvictedEarly == Spec => []NoEarlyEviction
<1> QED BY TimelyNotEarly, AlwaysTimely, PTL

(* And it bounds how long an entry stays.                                   *)
LEMMA TimelyIsBounded == RegInv => StorageBounded
<1> SUFFICES ASSUME RegInv, NEW id \in Id, Stored(id)
             PROVE  /\ gists[id].until
                         =< posted[id].seq + HoursToLedgerTtl(MAX_GIST_TTL_HOURS + 1)
                    /\ IsGistActive(id) =>
                         gists[id].expiry =< LatestExpiry(gists[id].timestamp)
    BY DEF StorageBounded
<1>1. id \in 1 .. gistCount
    BY NumberAssumption, SMTT(30) DEF RegInv, TypeOK, Stored, Id
<1> QED BY <1>1 DEF RegInv, Kept, Timely, IsGistActive

(* However often it is extended, a gist's entry ends at most an hour after  *)
(* the maximum lifetime, and it is not active beyond that lifetime.         *)
THEOREM StorageStaysBounded == Spec => []StorageBounded
<1> QED BY TimelyIsBounded, AlwaysTimely, PTL

(* What an expired id's entry becomes, and what other steps leave of it.    *)
LEMMA ClosedStep ==
    ASSUME RegInv, Next, NEW id \in 1 .. gistCount
    PROVE  /\ ~ Stored(id) => ~ Stored(id)'
           /\ Stored(id) /\ ~ gists[id].is_active => ~ IsGistActive(id)'
<1>1. /\ id \in Id /\ gistCount \in Nat
      /\ gists \in [Id -> Gist \cup {NoGist}]
  <2>1. gistCount \in 0 .. MaxGists /\ gists \in [Id -> Gist \cup {NoGist}]
      BY DEF RegInv, TypeOK
  <2> QED BY <2>1, NumberAssumption DEF Id
<1>2. CASE gists'[id] = gists[id]
    BY <1>2 DEF Stored, IsGistActive
<1>3. CASE gists'[id] = NoGist
    BY <1>3 DEF Stored, IsGistActive
<1>4. CASE Stored(id) /\ gists'[id] = Inactive(gists[id])
  <2>1. gists[id] \in Gist
      BY <1>1, <1>4 DEF Stored
  <2>2. Inactive(gists[id]).is_active = FALSE
      BY <2>1 DEF Inactive, Gist
  <2> QED BY <1>4, <2>2 DEF IsGistActive
<1>5. CASE Stored(id) /\ gists[id].is_active
    BY <1>5
<1>6. \/ gists'[id] = gists[id] \/ gists'[id] = NoGist
      \/ Stored(id) /\ gists'[id] = Inactive(gists[id])
      \/ Stored(id) /\ gists[id].is_active
  <2>1. CASE \E a \in Administrator : Initialize(a)
      BY <2>1 DEF Initialize
  <2>2. CASE \E a \in Account, b \in Administrator : SetAdmin(a, b)
      BY <2>2 DEF SetAdmin
  <2>3. CASE \E a \in Author, arg \in TtlArg : PostGist(a, arg)
    <3>1. PICK new : gists' = [gists EXCEPT ![gistCount + 1] = new]
        BY <2>3 DEF PostGist
    <3>2. id # gistCount + 1
        BY <1>1
    <3> QED BY <1>1, <3>1, <3>2
  <2>4. ASSUME NEW by, NEW ids, ExpireAll(ids, by)
        PROVE  \/ gists'[id] = gists[id]
               \/ Stored(id) /\ gists'[id] = Inactive(gists[id])
    <3>1. gists' = [i \in Id |-> IF i \in {j \in ToSet(ids) : Stored(j)}
                                 THEN Inactive(gists[i]) ELSE gists[i]]
        BY <2>4 DEF ExpireAll
    <3> QED BY <1>1, <3>1
  <2>5. CASE \E a \in Account, i \in Id : ExpireGist(a, i) \/ AdminExpireGist(a, i)
      BY <2>4, <2>5 DEF ExpireGist, AdminExpireGist
  <2>6. CASE \E a \in Account, ids \in ExpireBatches : BatchExpire(a, ids)
      BY <2>4, <2>6 DEF BatchExpire
  <2>7. ASSUME NEW a \in Account, NEW i \in Id, ExtendGistTtl(a, i)
        PROVE  \/ gists'[id] = gists[id]
               \/ Stored(id) /\ gists[id].is_active
    <3>1. Stored(i) /\ gists[i].is_active
        BY <2>7 DEF ExtendGistTtl
    <3>2. i # id => gists'[id] = gists[id]
        BY <1>1, <2>7 DEF ExtendGistTtl, Prolong
    <3> QED BY <3>1, <3>2
  <2>8. CASE \E d \in LedgerSeconds : CloseLedger(d)
      BY <1>1, <2>8 DEF CloseLedger
  <2> QED BY <2>1, <2>2, <2>3, <2>5, <2>6, <2>7, <2>8 DEF Next
<1> QED BY <1>2, <1>3, <1>4, <1>5, <1>6

(* No call brings back a gist that its author or the admin expired, nor the *)
(* id of one that was evicted.                                              *)
THEOREM ClosedForGood == Spec => ClosedStaysClosed
<1>1. RegInv /\ [Next]_vars =>
        [\A id \in 1 .. gistCount :
            /\ ~ Stored(id) => ~ Stored(id)'
            /\ Stored(id) /\ ~ gists[id].is_active => ~ IsGistActive(id)']_vars
    BY ClosedStep
<1> QED BY <1>1, AlwaysTimely, PTL DEF Spec, ClosedStaysClosed

-----------------------------------------------------------------------------
(* The author index.                                                        *)

(* A stored gist is on its author's list, which outlives it, or             *)
(* MAX_AUTHOR_GISTS newer gists of that author are.                         *)
Indexed(id) ==
    LET author == posted[id].author IN
    /\ gists[id].author = author
    /\ posted[id].seq + HoursToLedgerTtl(AUTHOR_LIST_TTL_HOURS) =< authorUntil[author]
    /\ \/ id \in ToSet(authorGists[author])
       \/ Cardinality(LaterGists(id)) >= MAX_AUTHOR_GISTS

OwnLists ==
    \A a \in Account : \A id \in ToSet(authorGists[a]) : posted[id].author = a

IndexInv ==
    /\ RegInv
    /\ OwnLists
    /\ \A id \in Id : id > gistCount => posted[id].author = NoAddress
    /\ \A id \in Id : Stored(id) => Indexed(id)

(* Nothing stored, nothing to list.                                         *)
LEMMA IndexInit == Init => IndexInv
<1> SUFFICES ASSUME Init PROVE IndexInv
    OBVIOUS
<1>1. \A a \in Account : ToSet(authorGists[a]) = {}
    BY DEF Init, ToSet
<1>2. \A id \in Id : ~ Stored(id) /\ posted[id].author = NoAddress
    BY DEF Init, Stored
<1> QED BY <1>1, <1>2, InitEstablishes DEF IndexInv, OwnLists

(* The entries of a sequence are of the set it is over.                     *)
LEMMA MembersOf ==
    ASSUME NEW X, NEW s \in Seq(X)
    PROVE  ToSet(s) \subseteq X
<1>1. \A i \in DOMAIN s : s[i] \in X
    OBVIOUS
<1> QED BY <1>1 DEF ToSet

(* Ids and lists as facts of arithmetic.                                    *)
LEMMA IdFacts ==
    ASSUME TypeOK
    PROVE  /\ Id = 1 .. MaxGists /\ MaxGists \in Nat /\ gistCount \in Nat
           /\ 1 .. gistCount \subseteq Id
           /\ \A id \in Id : Stored(id) => id \in 1 .. gistCount
           /\ \A a \in Account : authorGists[a] \in Seq(1 .. gistCount)
                                 /\ ToSet(authorGists[a]) \subseteq 1 .. gistCount
<1>1. Id = 1 .. MaxGists /\ MaxGists \in Nat /\ gistCount \in 0 .. MaxGists
    BY NumberAssumption DEF Id, TypeOK
<1>2. \A id \in Id : Stored(id) => id \in 1 .. gistCount
    BY <1>1 DEF TypeOK, Stored
<1>3. ASSUME NEW a \in Account
      PROVE  /\ authorGists[a] \in Seq(1 .. gistCount)
             /\ ToSet(authorGists[a]) \subseteq 1 .. gistCount
  <2>1. authorGists[a] \in Seq(1 .. gistCount)
      BY DEF TypeOK
  <2> DEFINE s == authorGists[a]
             X == 1 .. gistCount
  <2> HIDE DEF s, X
  <2>2. s \in Seq(X)
      BY <2>1 DEF s, X
  <2>3. ToSet(s) \subseteq X
      BY <2>2, MembersOf
  <2> QED BY <2>1, <2>3 DEF s, X
<1> QED BY <1>1, <1>2, <1>3

(* Later gists are finite in number.                                        *)
LEMMA LaterFinite ==
    ASSUME NEW n \in Nat, NEW id \in Nat, NEW S \in SUBSET (id + 1 .. n)
    PROVE  IsFiniteSet(S) /\ Cardinality(S) \in Nat
<1>1. IsFiniteSet(id + 1 .. n)
    BY FS_Interval
<1> QED BY <1>1, FS_Subset, FS_CardinalityType

(* A step that posts nothing, leaves the lists alone and changes no gist's  *)
(* author keeps every gist where it was listed.                             *)
LEMMA SameLists ==
    ASSUME IndexInv, RegInv', UNCHANGED <<gistCount, authorGists, authorUntil>>,
           \A id \in Id : /\ posted'[id].author = posted[id].author
                          /\ posted'[id].seq = posted[id].seq
                          /\ Stored(id)' => Stored(id) /\ gists'[id].author = gists[id].author
    PROVE  IndexInv'
<1>1. TypeOK
    BY DEF IndexInv, RegInv
<1>2. OwnLists'
  <2> SUFFICES ASSUME NEW a \in Account, NEW id \in ToSet(authorGists[a])
               PROVE  posted'[id].author = a
      BY DEF OwnLists, ToSet
  <2>1. id \in Id
      BY <1>1, IdFacts
  <2> QED BY <2>1 DEF IndexInv, OwnLists
<1>3. ASSUME NEW id \in Id, Stored(id)' PROVE Indexed(id)'
  <2>1. Indexed(id) /\ gists'[id].author = gists[id].author
      BY <1>3 DEF IndexInv
  <2>2. LaterGists(id)' = LaterGists(id)
    <3>1. \A later \in id + 1 .. gistCount : later \in Id
        BY <1>1, IdFacts
    <3> QED BY <3>1 DEF LaterGists
  <2> QED BY <2>1, <2>2 DEF Indexed, ToSet
<1> QED BY <1>2, <1>3 DEF IndexInv, Id

(* Expiring a gist leaves it on its author's list.                          *)
LEMMA ExpireAllLists ==
    ASSUME IndexInv, RegInv', NEW ids, NEW by, ExpireAll(ids, by)
    PROVE  IndexInv'
<1> DEFINE found == {id \in ToSet(ids) : Stored(id)}
<1>1. /\ gists' = [id \in Id |-> IF id \in found THEN Inactive(gists[id]) ELSE gists[id]]
      /\ posted' = [id \in Id |-> IF id \in found THEN [posted[id] EXCEPT !.expiry = now]
                                  ELSE posted[id]]
      /\ UNCHANGED <<gistCount, authorGists, authorUntil>>
    BY DEF ExpireAll
<1>2. ASSUME NEW id \in Id
      PROVE  /\ posted'[id].author = posted[id].author
             /\ posted'[id].seq = posted[id].seq
             /\ Stored(id)' => Stored(id) /\ gists'[id].author = gists[id].author
  <2>1. /\ posted[id] \in [author : Account \cup {NoAddress}, seq : Nat, expiry : Nat]
        /\ Stored(id) => gists[id] \in Gist
      BY DEF IndexInv, RegInv, TypeOK, Stored
  <2>2. CASE id \in found
    <3>1. Stored(id)
        BY <2>2
    <3>2. gists'[id] = Inactive(gists[id])
          /\ posted'[id] = [posted[id] EXCEPT !.expiry = now]
        BY <1>1, <2>2
    <3> QED BY <2>1, <3>1, <3>2 DEF Inactive, Gist
  <2>3. CASE id \notin found
    <3>1. gists'[id] = gists[id] /\ posted'[id] = posted[id]
        BY <1>1, <2>3
    <3> QED BY <3>1 DEF Stored
  <2> QED BY <2>2, <2>3
<1> QED BY <1>1, <1>2, SameLists

(* So does an extension, within the life of the list.                       *)
LEMMA ExtendLists ==
    ASSUME IndexInv, RegInv', NEW a \in Account, NEW i \in Id, ExtendGistTtl(a, i)
    PROVE  IndexInv'
<1>1. PICK expiry, until :
         /\ gists' = [gists EXCEPT ![i].expiry = expiry, ![i].until = until]
         /\ posted' = [posted EXCEPT ![i].expiry = expiry]
  <2> DEFINE expiry == gists[i].expiry + EXTENSION_HOURS * SECONDS_PER_HOUR
  <2>1. Prolong(i, expiry)
      BY DEF ExtendGistTtl
  <2> HIDE DEF expiry
  <2> QED BY <2>1 DEF Prolong
<1>2. Stored(i) /\ UNCHANGED <<gistCount, authorGists, authorUntil>>
    BY DEF ExtendGistTtl, Prolong
<1>3. ASSUME NEW id \in Id
      PROVE  /\ posted'[id].author = posted[id].author
             /\ posted'[id].seq = posted[id].seq
             /\ Stored(id)' => Stored(id) /\ gists'[id].author = gists[id].author
  <2>1. /\ posted \in [Id -> [author : Account \cup {NoAddress}, seq : Nat, expiry : Nat]]
        /\ gists \in [Id -> Gist \cup {NoGist}] /\ gists[i] \in Gist
      BY <1>2 DEF IndexInv, RegInv, TypeOK, Stored
  <2>2. CASE id = i
      BY <1>1, <1>2, <2>1, <2>2 DEF Gist
  <2>3. CASE id # i
    <3>1. gists'[id] = gists[id] /\ posted'[id] = posted[id]
        BY <1>1, <2>1, <2>3
    <3> QED BY <3>1 DEF Stored
  <2> QED BY <2>2, <2>3
<1> QED BY <1>2, <1>3, SameLists

(* What a list s holds once the id new is appended to it: its old ids, but  *)
(* for the first one of a full list.                                        *)
HoldsAfter(s, new, t) ==
    /\ new \in ToSet(t) /\ ToSet(t) \subseteq ToSet(s) \cup {new}
    /\ \/ ToSet(s) \subseteq ToSet(t)
       \/ /\ ToSet(s) \subseteq ToSet(t) \cup {s[1]}
          /\ s # <<>> /\ Len(t) = MAX_AUTHOR_GISTS
          /\ ToSet(t) \subseteq {s[i] : i \in 2 .. Len(s)} \cup {new}

(* What a list holds after a post: one id more, the oldest gone if it was   *)
(* full.                                                                    *)
LEMMA AppendedIds ==
    ASSUME NEW n \in Nat, NEW s \in Seq(1 .. n), Len(s) =< MAX_AUTHOR_GISTS,
           NEW t, t = KeepNewest(Append(s, n + 1))
    PROVE  HoldsAfter(s, n + 1, t)
<1> DEFINE u == Append(s, n + 1)
<1>0. Len(s) \in Nat /\ DOMAIN s = 1 .. Len(s)
    OBVIOUS
<1>1. /\ Len(u) = Len(s) + 1 /\ DOMAIN u = 1 .. Len(u) /\ u \in Seq(Int)
      /\ (\A i \in 1 .. Len(s) : u[i] = s[i]) /\ u[Len(s) + 1] = n + 1
    OBVIOUS
<1> HIDE DEF u
<1>2. MAX_AUTHOR_GISTS \in Nat \ {0}
    BY NumberAssumption
<1>3. CASE ~ (Len(u) > MAX_AUTHOR_GISTS)
  <2>1. t = u
      BY <1>3 DEF KeepNewest, u
  <2>2. \A i \in 1 .. Len(u) : i \in 1 .. Len(s) \/ i = Len(s) + 1
      BY <1>0, <1>1
  <2>3. ToSet(t) = ToSet(s) \cup {n + 1}
    <3>1. ToSet(t) \subseteq ToSet(s) \cup {n + 1}
        BY <1>0, <1>1, <2>1, <2>2 DEF ToSet
    <3>2. ToSet(s) \cup {n + 1} \subseteq ToSet(t)
      <4>1. \A i \in 1 .. Len(s) : i \in DOMAIN t /\ t[i] = s[i]
          BY <1>0, <1>1, <2>1
      <4>2. Len(s) + 1 \in DOMAIN t /\ t[Len(s) + 1] = n + 1
          BY <1>0, <1>1, <2>1
      <4> QED BY <1>0, <4>1, <4>2 DEF ToSet
    <3> QED BY <3>1, <3>2
  <2> QED BY <2>3 DEF HoldsAfter
<1>4. CASE Len(u) > MAX_AUTHOR_GISTS
  <2>1. t = Tail(u)
      BY <1>4 DEF KeepNewest, u
  <2>2. /\ t \in Seq(Int) /\ Len(t) = Len(s)
        /\ \A i \in 1 .. Len(t) : t[i] = u[i + 1]
    <3>1. u # <<>>
        BY <1>0, <1>1
    <3>2. /\ Tail(u) \in Seq(Int) /\ Len(Tail(u)) = Len(u) - 1
          /\ \A i \in 1 .. Len(Tail(u)) : Tail(u)[i] = u[i + 1]
        BY <1>1, <3>1, HeadTailProperties, Zenon
    <3>3. Len(u) = Len(s) + 1 /\ Len(s) \in Nat => Len(u) - 1 = Len(s)
        OBVIOUS
    <3>4. Len(t) = Len(s)
        BY <1>0, <1>1, <2>1, <3>2, <3>3, Zenon
    <3> QED BY <2>1, <3>2, <3>4, Zenon
  <2>3. Len(s) = MAX_AUTHOR_GISTS /\ Len(s) \in Nat \ {0}
    <3> DEFINE l == Len(s)
    <3>1. l \in Nat /\ l =< MAX_AUTHOR_GISTS /\ l + 1 > MAX_AUTHOR_GISTS
        BY <1>0, <1>1, <1>4, Zenon
    <3> HIDE DEF l
    <3>2. l = MAX_AUTHOR_GISTS /\ l \in Nat \ {0}
        BY <1>2, <3>1
    <3> QED BY <3>2 DEF l
  <2>4. DOMAIN t = 1 .. Len(s)
      BY <2>2
  <2>5. t[Len(s)] = n + 1
      BY <1>1, <2>2, <2>3
  <2>6. \A i \in 2 .. Len(s) : i - 1 \in DOMAIN t /\ t[i - 1] = s[i]
    <3> SUFFICES ASSUME NEW i \in 2 .. Len(s)
                 PROVE  i - 1 \in DOMAIN t /\ t[i - 1] = s[i]
        OBVIOUS
    <3>1. i - 1 \in 1 .. Len(s) /\ (i - 1) + 1 = i /\ i \in 1 .. Len(s)
        BY <2>3
    <3> QED BY <1>1, <2>2, <2>4, <3>1
  <2>7. \A j \in 1 .. Len(s) : t[j] \in {s[i] : i \in 2 .. Len(s)} \cup {n + 1}
    <3> SUFFICES ASSUME NEW j \in 1 .. Len(s), j # Len(s)
                 PROVE  t[j] \in {s[i] : i \in 2 .. Len(s)}
        BY <2>5
    <3>1. j + 1 \in 2 .. Len(s) /\ j + 1 \in 1 .. Len(s)
        BY <2>3
    <3> QED BY <1>1, <2>2, <3>1
  <2>8. \A i \in 1 .. Len(s) : i = 1 \/ i \in 2 .. Len(s)
      BY <2>3
  <2>9. ToSet(s) \subseteq ToSet(t) \cup {s[1]}
      BY <1>0, <2>6, <2>8 DEF ToSet
  <2>10. n + 1 \in ToSet(t)
      BY <2>3, <2>4, <2>5 DEF ToSet
  <2>11. ToSet(t) \subseteq {s[i] : i \in 2 .. Len(s)} \cup {n + 1}
      BY <2>4, <2>7 DEF ToSet
  <2>12. {s[i] : i \in 2 .. Len(s)} \subseteq ToSet(s)
    <3>1. \A i \in 2 .. Len(s) : i \in DOMAIN s
        BY <1>0
    <3> QED BY <3>1 DEF ToSet
  <2>13. s # <<>>
      BY <2>3
  <2> QED BY <2>2, <2>3, <2>9, <2>10, <2>11, <2>12, <2>13 DEF HoldsAfter
<1> QED BY <1>3, <1>4

(* A gist that a full list drops has MAX_AUTHOR_GISTS newer ones there.     *)
LEMMA PostGistLists ==
    ASSUME IndexInv, RegInv', NEW author \in Author, NEW arg \in TtlArg,
           PostGist(author, arg)
    PROVE  IndexInv'
<1> DEFINE new == gistCount + 1
           ids == authorGists[author]
           kept == KeepNewest(Append(ids, new))
           ttl == HoursToLedgerTtl(AUTHOR_LIST_TTL_HOURS)
<1>1. /\ TypeOK /\ TypeOK' /\ author \in Account /\ new \in Id /\ gistCount \in Nat
      /\ seq \in Nat /\ ttl \in Nat /\ MAX_AUTHOR_GISTS \in Nat \ {0}
  <2>1. /\ TypeOK /\ TypeOK' /\ author \in Account /\ new \in Id
        /\ MAX_AUTHOR_GISTS \in Nat \ {0}
      BY SetAssumption, NumberAssumption DEF IndexInv, RegInv, PostGist
  <2>2. ttl \in Nat
      BY NumberAssumption DEF HoursToLedgerTtl
  <2>3. gistCount \in Nat /\ seq \in Nat
      BY <2>1, IdFacts DEF TypeOK
  <2> QED BY <2>1, <2>2, <2>3
<1>2. /\ gistCount' = new
      /\ \E gist : gist.author = author /\ gists' = [gists EXCEPT ![new] = gist]
      /\ authorGists' = [authorGists EXCEPT ![author] = kept]
      /\ authorUntil' = [authorUntil EXCEPT ![author] = ExtendTtl(@, ttl)]
      /\ \E past : /\ past.author = author /\ past.seq = seq
                    /\ posted' = [posted EXCEPT ![new] = past]
  <2> DEFINE life == GistTimeToExpiry(arg)
             gist == [author |-> author, timestamp |-> now, expiry |-> life.expiry,
                      is_active |-> TRUE, until |-> seq + life.ttl]
             past == [author |-> author, seq |-> seq, expiry |-> life.expiry]
  <2>1. /\ gistCount' = new /\ gists' = [gists EXCEPT ![new] = gist]
        /\ posted' = [posted EXCEPT ![new] = past] /\ AppendAuthorGist(author, new)
      BY DEF PostGist
  <2>2. gist.author = author /\ past.author = author /\ past.seq = seq
      OBVIOUS
  <2> HIDE DEF gist, past
  <2> QED BY <2>1, <2>2 DEF AppendAuthorGist
<1>3. /\ new \in ToSet(kept) /\ ToSet(kept) \subseteq ToSet(ids) \cup {new}
      /\ \/ ToSet(ids) \subseteq ToSet(kept)
         \/ /\ ToSet(ids) \subseteq ToSet(kept) \cup {ids[1]}
            /\ ids # <<>> /\ Len(kept) = MAX_AUTHOR_GISTS
            /\ ToSet(kept) \subseteq {ids[i] : i \in 2 .. Len(ids)} \cup {new}
  <2>1. ids \in Seq(1 .. gistCount) /\ Len(ids) =< MAX_AUTHOR_GISTS
      BY <1>1 DEF TypeOK
  <2>2. kept = KeepNewest(Append(ids, gistCount + 1))
      OBVIOUS
  <2>3. gistCount \in Nat
      BY <1>1
  <2> HIDE DEF ids, kept
  <2>4. HoldsAfter(ids, gistCount + 1, kept)
      BY <2>1, <2>2, <2>3, AppendedIds
  <2> QED BY <2>4 DEF HoldsAfter
<1> HIDE DEF kept, ttl
<1>4. /\ gists \in [Id -> Gist \cup {NoGist}]
      /\ authorGists \in [Account -> Seq(1 .. gistCount)] /\ authorUntil \in [Account -> Nat]
      /\ posted \in [Id -> [author : Account \cup {NoAddress}, seq : Nat, expiry : Nat]]
    BY <1>1 DEF TypeOK
<1>5. /\ \A a \in Account : authorGists'[a] = IF a = author THEN kept ELSE authorGists[a]
      /\ \A id \in Id : id # new => gists'[id] = gists[id] /\ posted'[id] = posted[id]
      /\ gists'[new].author = author /\ posted'[new].author = author /\ posted'[new].seq = seq
    BY <1>1, <1>2, <1>4
<1>6. /\ \A a \in Account : authorUntil[a] =< authorUntil'[a]
      /\ seq + ttl =< authorUntil'[author]
    BY <1>1, <1>2, <1>4 DEF ExtendTtl
<1>7. OwnLists'
  <2> SUFFICES ASSUME NEW a \in Account, NEW id \in ToSet(authorGists'[a])
               PROVE  posted'[id].author = a
      BY DEF OwnLists, ToSet
  <2>1. ASSUME id \in ToSet(authorGists[a]) PROVE posted'[id].author = a
    <3>1. id \in 1 .. gistCount /\ id \in Id
        BY <1>1, <2>1, IdFacts
    <3>2. id # new
        BY <1>1, <3>1
    <3> QED BY <1>5, <2>1, <3>1, <3>2 DEF IndexInv, OwnLists
  <2>2. CASE a # author
      BY <1>5, <2>1, <2>2
  <2>3. CASE a = author
      BY <1>3, <1>5, <2>1, <2>3
  <2> QED BY <2>2, <2>3
<1>8. \A id \in Id : id > gistCount' => posted'[id].author = NoAddress
  <2>1. \A id \in Id : id > new => id > gistCount /\ id # new
      BY <1>1 DEF Id
  <2> QED BY <1>2, <1>5, <2>1 DEF IndexInv
<1>9. ASSUME NEW id \in Id, Stored(id)' PROVE Indexed(id)'
  <2>1. CASE id = new
    <3>1. new \in ToSet(authorGists'[author])
        BY <1>1, <1>3, <1>5
    <3> QED BY <1>5, <1>6, <2>1, <3>1 DEF Indexed, ttl, ToSet
  <2>2. CASE id # new
    <3> DEFINE b == posted[id].author
    <3>1. gists'[id] = gists[id] /\ posted'[id] = posted[id] /\ Stored(id)
        BY <1>5, <1>9, <2>2 DEF Stored
    <3>2. Indexed(id) /\ gists[id] \in Gist
        BY <1>4, <3>1 DEF IndexInv, Stored
    <3>3. b \in Account /\ gists[id].author = b
        BY <3>2 DEF Indexed, Gist
    <3>4. posted'[id].seq + HoursToLedgerTtl(AUTHOR_LIST_TTL_HOURS) =< authorUntil'[b]
      <4>1. posted[id].seq + ttl =< authorUntil[b]
          BY <3>2 DEF Indexed, ttl
      <4>2. {posted[id].seq, authorUntil[b], authorUntil'[b]} \subseteq Nat
        <5>1. posted[id] \in [author : Account \cup {NoAddress}, seq : Nat, expiry : Nat]
            BY <1>4
        <5>2. authorUntil' \in [Account -> Nat]
            BY <1>1 DEF TypeOK
        <5> QED BY <1>4, <3>3, <5>1, <5>2
      <4> QED BY <1>1, <1>6, <3>1, <3>3, <4>1, <4>2 DEF ttl
    <3>5. id \in 1 .. gistCount /\ id \in Nat
        BY <1>1, <3>1, IdFacts
    <3>6. LaterGists(id)' \subseteq id + 1 .. new
        BY <1>2 DEF LaterGists
    <3>7. IsFiniteSet(LaterGists(id)') /\ Cardinality(LaterGists(id)') \in Nat
      <4>1. new \in Nat
          BY <1>1
      <4> HIDE DEF new
      <4> QED BY <3>5, <3>6, <4>1, LaterFinite
    <3>8. LaterGists(id) \subseteq LaterGists(id)'
      <4> SUFFICES ASSUME NEW later \in id + 1 .. gistCount,
                          posted[later].author = posted[id].author
                   PROVE  later \in id + 1 .. gistCount' /\ posted'[later].author = posted'[id].author
          BY DEF LaterGists
      <4>1. later \in 1 .. gistCount /\ later \in Id /\ later # new /\ later \in id + 1 .. new
        <5>1. later \in 1 .. gistCount /\ later # new /\ later \in id + 1 .. new
            BY <1>1, <3>5
        <5> QED BY <1>1, <5>1, IdFacts
      <4> QED BY <1>2, <1>5, <3>1, <4>1
    <3>9. CASE Cardinality(LaterGists(id)) >= MAX_AUTHOR_GISTS
      <4>1. Cardinality(LaterGists(id)) =< Cardinality(LaterGists(id)')
            /\ Cardinality(LaterGists(id)) \in Nat
          BY <3>7, <3>8, FS_Subset, FS_CardinalityType
      <4>2. Cardinality(LaterGists(id)') >= MAX_AUTHOR_GISTS
          BY <1>1, <3>7, <3>9, <4>1
      <4> QED BY <3>1, <3>3, <3>4, <4>2 DEF Indexed
    <3>10. CASE id \in ToSet(authorGists[b]) /\ id \in ToSet(authorGists'[b])
        BY <3>1, <3>3, <3>4, <3>10 DEF Indexed, ToSet
    <3>11. CASE id \in ToSet(authorGists[b]) /\ id \notin ToSet(authorGists'[b])
      <4>1. b = author /\ authorGists'[author] = kept
          BY <1>1, <1>5, <3>3, <3>11
      <4>2. id = ids[1] /\ ids # <<>> /\ Len(kept) = MAX_AUTHOR_GISTS
            /\ ToSet(kept) \subseteq {ids[i] : i \in 2 .. Len(ids)} \cup {new}
          BY <1>3, <3>11, <4>1
      <4>3. ToSet(kept) \subseteq LaterGists(id)'
        <5> SUFFICES ASSUME NEW x \in ToSet(kept)
                     PROVE  x \in id + 1 .. gistCount' /\ posted'[x].author = posted'[id].author
            BY DEF LaterGists
        <5>1. posted'[x].author = author
            BY <1>1, <1>7, <4>1 DEF OwnLists, ToSet
        <5>2. x \in id + 1 .. new
          <6>1. CASE x = new
              BY <1>1, <3>5, <6>1
          <6>2. ASSUME NEW i \in 2 .. Len(ids), x = ids[i]
                PROVE  x \in id + 1 .. new
            <7>1. ids \in Seq(1 .. gistCount) /\ \A j, k \in DOMAIN ids : j < k => ids[j] < ids[k]
                BY <1>1 DEF TypeOK
            <7>2. DOMAIN ids = 1 .. Len(ids) /\ Len(ids) \in Nat
                BY <7>1
            <7>3. i \in DOMAIN ids /\ 1 \in DOMAIN ids /\ 1 < i
                BY <7>2
            <7>4. ids[1] < ids[i]
                BY <7>1, <7>3
            <7>5. x \in 1 .. gistCount
              <8>1. x \in ToSet(authorGists[author])
                  BY <6>2, <7>3 DEF ToSet
              <8> QED BY <1>1, <8>1, IdFacts
            <7> QED BY <1>1, <3>5, <4>2, <6>2, <7>4, <7>5
          <6> QED BY <4>2, <6>1, <6>2
        <5> QED BY <1>2, <3>1, <4>1, <5>1, <5>2
      <4>4. Cardinality(ToSet(kept)) = MAX_AUTHOR_GISTS
        <5>1. authorGists'[author] \in Seq(1 .. gistCount')
              /\ \A i, j \in DOMAIN authorGists'[author] :
                    i < j => authorGists'[author][i] < authorGists'[author][j]
            BY <1>1 DEF TypeOK
        <5>2. kept \in Seq(1 .. new) /\ Ascends(kept)
            BY <1>2, <4>1, <5>1 DEF Ascends
        <5>3. 1 .. new \subseteq Int
            OBVIOUS
        <5>4. kept \in Seq(Int)
            BY <5>2, <5>3, WiderSeq
        <5>5. Len(kept) \in 0 .. Len(kept) /\ DOMAIN kept = 1 .. Len(kept)
            BY <5>4
        <5>6. ToSet(kept) = {kept[i] : i \in 1 .. Len(kept)}
            BY <5>5 DEF ToSet
        <5> QED BY <4>2, <5>2, <5>4, <5>5, <5>6, AscendingRank
      <4>5. Cardinality(LaterGists(id)') >= MAX_AUTHOR_GISTS
        <5>1. Cardinality(ToSet(kept)) =< Cardinality(LaterGists(id)')
            BY <3>7, <4>3, FS_Subset
        <5> QED BY <1>1, <3>7, <4>4, <5>1
      <4> QED BY <3>1, <3>3, <3>4, <4>5 DEF Indexed
    <3> QED BY <3>2, <3>9, <3>10, <3>11 DEF Indexed
  <2> QED BY <2>1, <2>2
<1> QED BY <1>7, <1>8, <1>9 DEF IndexInv, Id

(* A list's TTL outlasts the entries of the gists it holds.                 *)
LEMMA CloseLedgerLists ==
    ASSUME IndexInv, RegInv', NEW d \in LedgerSeconds, CloseLedger(d)
    PROVE  IndexInv'
<1>1. TypeOK /\ seq \in Nat /\ seq' = seq + 1 /\ UNCHANGED <<gistCount, authorUntil, posted>>
    BY DEF IndexInv, RegInv, TypeOK, CloseLedger
<1>2. /\ \A id \in Id : gists'[id] = IF Stored(id) /\ gists[id].until < seq'
                                    THEN NoGist ELSE gists[id]
      /\ \A a \in Account : authorGists'[a] = IF authorUntil[a] < seq'
                                             THEN <<>> ELSE authorGists[a]
    BY DEF CloseLedger
<1>3. OwnLists'
  <2>1. \A a \in Account : \A id \in ToSet(authorGists'[a]) : id \in ToSet(authorGists[a])
      BY <1>2 DEF ToSet
  <2> SUFFICES ASSUME NEW a \in Account, NEW id \in ToSet(authorGists'[a])
               PROVE  posted'[id].author = a
      BY DEF OwnLists, ToSet
  <2> QED BY <1>1, <2>1 DEF IndexInv, OwnLists
<1>4. ASSUME NEW id \in Id, Stored(id)' PROVE Indexed(id)'
  <2> DEFINE a == posted[id].author
  <2>1. Stored(id) /\ gists'[id] = gists[id] /\ ~ (gists[id].until < seq')
      BY <1>2, <1>4 DEF Stored
  <2>2. Indexed(id) /\ gists[id] \in Gist
      BY <1>1, <2>1 DEF IndexInv, TypeOK, Stored
  <2>3. a \in Account
      BY <2>2 DEF Indexed, Gist
  <2>4. gists[id].until =< posted[id].seq + HoursToLedgerTtl(MAX_GIST_TTL_HOURS + 1)
    <3>1. id \in 1 .. gistCount
        BY <1>1, <2>1, IdFacts
    <3> QED BY <2>1, <3>1 DEF IndexInv, RegInv, Kept, Timely
  <2>5. /\ HoursToLedgerTtl(MAX_GIST_TTL_HOURS + 1) =< HoursToLedgerTtl(AUTHOR_LIST_TTL_HOURS)
        /\ HoursToLedgerTtl(MAX_GIST_TTL_HOURS + 1) \in Nat
        /\ HoursToLedgerTtl(AUTHOR_LIST_TTL_HOURS) \in Nat
    <3>1. /\ MAX_GIST_TTL_HOURS + 1 \in Nat /\ AUTHOR_LIST_TTL_HOURS \in Nat
          /\ MAX_GIST_TTL_HOURS + 1 =< AUTHOR_LIST_TTL_HOURS /\ LEDGERS_PER_HOUR \in Nat
        BY NumberAssumption, PaceAssumption
    <3>2. (MAX_GIST_TTL_HOURS + 1) * LEDGERS_PER_HOUR =< AUTHOR_LIST_TTL_HOURS * LEDGERS_PER_HOUR
        BY <3>1, Monotone
    <3> QED BY <3>1, <3>2 DEF HoursToLedgerTtl
  <2>6. ~ (authorUntil[a] < seq')
    <3>1. posted[id].seq + HoursToLedgerTtl(AUTHOR_LIST_TTL_HOURS) =< authorUntil[a]
        BY <2>2 DEF Indexed
    <3>2. {posted[id].seq, authorUntil[a], gists[id].until, seq'} \subseteq Nat
      <4>1. posted[id] \in [author : Account \cup {NoAddress}, seq : Nat, expiry : Nat]
          BY <1>1 DEF TypeOK
      <4>2. authorUntil[a] \in Nat
          BY <1>1, <2>3 DEF TypeOK
      <4> QED BY <1>1, <2>2, <4>1, <4>2 DEF Gist
    <3> QED BY <2>1, <2>4, <2>5, <3>1, <3>2
  <2>7. authorGists'[a] = authorGists[a]
      BY <1>2, <2>3, <2>6
  <2>8. LaterGists(id)' = LaterGists(id)
      BY <1>1 DEF LaterGists
  <2> QED BY <1>1, <2>1, <2>2, <2>7, <2>8 DEF Indexed, ToSet
<1> QED BY <1>1, <1>3, <1>4 DEF IndexInv, Id

(* Every step of the registry keeps its index.                              *)
LEMMA IndexInvStep ==
    ASSUME IndexInv, [Next]_vars PROVE IndexInv'
<1>0. RegInv'
    BY RegInvStep DEF IndexInv
<1>1. ASSUME UNCHANGED <<gistCount, gists, authorGists, authorUntil, posted>>
      PROVE  IndexInv'
    BY <1>0, <1>1, SameLists DEF Stored
<1>2. CASE \E a \in Administrator : Initialize(a)
    BY <1>1, <1>2 DEF Initialize
<1>3. CASE \E a \in Account, b \in Administrator : SetAdmin(a, b)
    BY <1>1, <1>3 DEF SetAdmin
<1>4. CASE \E a \in Author, arg \in TtlArg : PostGist(a, arg)
    BY <1>0, <1>4, PostGistLists
<1>5. CASE \E a \in Account, id \in Id : ExpireGist(a, id) \/ AdminExpireGist(a, id)
    BY <1>0, <1>5, ExpireAllLists DEF ExpireGist, AdminExpireGist
<1>6. CASE \E a \in Account, id \in Id : ExtendGistTtl(a, id)
    BY <1>0, <1>6, ExtendLists
<1>7. CASE \E a \in Account, ids \in ExpireBatches : BatchExpire(a, ids)
    BY <1>0, <1>7, ExpireAllLists DEF BatchExpire
<1>8. CASE \E d \in LedgerSeconds : CloseLedger(d)
    BY <1>0, <1>8, CloseLedgerLists
<1>9. CASE UNCHANGED vars
    BY <1>1, <1>9 DEF vars, storage
<1> QED BY <1>2, <1>3, <1>4, <1>5, <1>6, <1>7, <1>8, <1>9 DEF Next

(* Every stored gist is on its author's list, or MAX_AUTHOR_GISTS newer     *)
(* gists of the author have been posted, in every reachable state.          *)
THEOREM AlwaysIndexed == Spec => []IndexInv
<1>1. Init => IndexInv
    BY IndexInit
<1>2. IndexInv /\ [Next]_vars => IndexInv'
    BY IndexInvStep
<1> QED BY <1>1, <1>2, PTL DEF Spec

(* Every entry is on the page that begins at the last multiple of the limit *)
(* before it.                                                               *)
LEMMA OnItsPage ==
    ASSUME NEW X, NEW s \in Seq(X), NEW limit \in Nat \ {0}, NEW p \in 1 .. Len(s)
    PROVE  \E page \in 0 .. p - 1 : s[p] \in ToSet(PageOf(s, limit, page * limit))
<1> DEFINE l == Len(s)
           page == (p - 1) \div limit
           o == page * limit
           e == IF o + limit < l THEN o + limit ELSE l
           cut == SubSeq(s, o + 1, e)
<1>1. l \in Nat /\ p \in 1 .. l
    OBVIOUS
<1>2. page \in Nat /\ o =< p - 1 /\ p - 1 < o + limit /\ o \in Nat
  <2> DEFINE n == p - 1
  <2>1. n \in Nat
      BY <1>1
  <2>2. n \div limit \in Int /\ (n \div limit) * limit =< n
        /\ n < (n \div limit + 1) * limit
    <3> HIDE DEF n
    <3> QED BY <2>1
  <2> HIDE DEF page, n, l
  <2>3. page \in Int /\ page * limit =< n /\ n < (page + 1) * limit
      BY <2>2 DEF page, n
  <2>4. page >= 0
    <3>1. ASSUME page < 0 PROVE FALSE
      <4>1. page + 1 =< 0 /\ page + 1 \in Int
          BY <2>3, <3>1
      <4>2. (page + 1) * limit =< 0
          BY <4>1
      <4> QED BY <2>1, <2>3, <4>1, <4>2
    <3> QED BY <2>3, <3>1
  <2>5. page * limit \in Nat /\ (page + 1) * limit = page * limit + limit
      BY <2>3, <2>4
  <2> QED BY <2>3, <2>4, <2>5 DEF n
<1>3. page =< p - 1
  <2> HIDE DEF page, l
  <2>1. page =< page * limit
      BY <1>2
  <2> QED BY <1>1, <1>2, <2>1
<1>4. e \in 0 .. l /\ p =< e /\ o + 1 =< e
  <2> HIDE DEF o, l
  <2> QED BY <1>1, <1>2
<1>5. Len(cut) = e - o /\ \A i \in 1 .. e - o : cut[i] = s[o + i]
  <2> HIDE DEF e, o, l
  <2> QED BY <1>1, <1>2, <1>4, SubSeqProperties DEF l
<1>6. s[p] \in ToSet(cut)
  <2>1. p - o \in 1 .. e - o /\ o + (p - o) = p
    <3> HIDE DEF e, o, l
    <3> QED BY <1>1, <1>2, <1>4
  <2>2. cut[p - o] = s[p]
    <3> HIDE DEF e, o, l, cut
    <3> QED BY <1>5, <2>1
  <2>3. DOMAIN cut = 1 .. e - o
    <3>1. cut \in Seq(X)
      <4> HIDE DEF e, o, l
      <4> QED BY <1>1, <1>2, <1>4 DEF l
    <3> HIDE DEF cut
    <3> QED BY <1>5, <3>1
  <2> HIDE DEF cut, e, o
  <2> QED BY <2>1, <2>2, <2>3 DEF ToSet
<1>7. PageOf(s, limit, o) = cut
    BY DEF PageOf
<1>8. page \in 0 .. p - 1
  <2> HIDE DEF page
  <2> QED BY <1>1, <1>2, <1>3
<1> HIDE DEF cut, e, page, l
<1>9. s[p] \in ToSet(PageOf(s, limit, page * limit))
    BY <1>6, <1>7 DEF o
<1> QED BY <1>8, <1>9

(* What is on the list and stored is on one of its pages.                   *)
LEMMA IndexedIsListed == IndexInv => AuthorIndexComplete
<1> SUFFICES ASSUME IndexInv, NEW id \in Id, NEW limit \in 1 .. MAX_PAGE_LIMIT, Stored(id),
                    Cardinality(LaterGists(id)) < MAX_AUTHOR_GISTS
             PROVE  \E page \in 0 .. MAX_AUTHOR_GISTS - 1 :
                       id \in ToSet(GetGistsByAuthor(gists[id].author, limit, page * limit))
    BY DEF AuthorIndexComplete
<1> DEFINE a == posted[id].author
           ids == authorGists[a]
<1>1. TypeOK /\ Indexed(id) /\ gists[id] \in Gist
    BY DEF IndexInv, RegInv, TypeOK, Stored
<1>2. a \in Account /\ gists[id].author = a
    BY <1>1 DEF Indexed, Gist
<1>3. id \in ToSet(ids)
  <2>1. LaterGists(id) \subseteq id + 1 .. gistCount /\ id \in Nat /\ gistCount \in Nat
      BY <1>1, IdFacts DEF LaterGists
  <2>2. Cardinality(LaterGists(id)) \in Nat /\ MAX_AUTHOR_GISTS \in Nat
      BY <2>1, LaterFinite, NumberAssumption
  <2>3. ~ (Cardinality(LaterGists(id)) >= MAX_AUTHOR_GISTS)
      BY <2>2
  <2> QED BY <1>1, <2>3 DEF Indexed
<1>4. ids \in Seq(1 .. gistCount) /\ Len(ids) =< MAX_AUTHOR_GISTS /\ MAX_AUTHOR_GISTS \in Nat
    BY <1>1, <1>2, NumberAssumption DEF TypeOK
<1> HIDE DEF ids
<1> DEFINE found == Filter(ids, StoredIds)
<1>5. /\ found \in Seq(1 .. gistCount) /\ Len(found) =< Len(ids)
      /\ ToSet(found) = ToSet(ids) \cap StoredIds
    BY <1>4, FilterSet
<1> HIDE DEF found
<1>6. Len(found) \in Nat /\ Len(found) =< MAX_AUTHOR_GISTS
  <2>1. Len(found) \in Nat /\ Len(ids) \in Nat
      BY <1>4, <1>5
  <2> QED BY <1>4, <1>5, <2>1
<1>7. PICK p \in 1 .. Len(found) : found[p] = id
  <2>1. id \in ToSet(found)
      BY <1>3, <1>5 DEF StoredIds
  <2>2. DOMAIN found = 1 .. Len(found)
      BY <1>5
  <2> QED BY <2>1, <2>2 DEF ToSet
<1>8. limit \in Nat \ {0} /\ ~ (limit > MAX_PAGE_LIMIT)
    BY NumberAssumption
<1>9. PICK page \in 0 .. p - 1 : id \in ToSet(PageOf(found, limit, page * limit))
    BY <1>5, <1>7, <1>8, OnItsPage
<1>10. page \in 0 .. MAX_AUTHOR_GISTS - 1
    BY <1>4, <1>6, <1>7, <1>9
<1>11. GetGistsByAuthor(a, limit, page * limit) = PageOf(found, limit, page * limit)
    BY <1>8 DEF GetGistsByAuthor, found, ids
<1> QED BY <1>2, <1>9, <1>10, <1>11

(* Whoever reads get_gists_by_author in pages of any size it accepts finds  *)
(* every stored gist of the author, but for those that MAX_AUTHOR_GISTS     *)
(* newer ones have pushed out of the list.                                  *)
THEOREM AuthorIndexIsComplete == Spec => []AuthorIndexComplete
<1> QED BY IndexedIsListed, AlwaysIndexed, PTL
=============================================================================
