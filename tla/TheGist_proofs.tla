--------------------------- MODULE TheGist_proofs ---------------------------
(***************************************************************************)
(* Theorems about the registry and the vault deployed together, for every  *)
(* value of their constants.  What is proved of each contract on its own   *)
(* is cited here of its instance.                                          *)
(***************************************************************************)
EXTENDS TheGist, DataLemmas

(* The registry's theorems.                                                 *)
RP == INSTANCE GistRegistry_proofs WITH admin <- regAdmin

(* The assumptions of those theorems hold of the pair's constants.          *)
LEMMA RegistryConstants ==
    RP!SetAssumption /\ RP!NumberAssumption /\ RP!PaceAssumption
BY RegistryAssumption
   DEF RP!SetAssumption, RP!NumberAssumption, RP!PaceAssumption, RP!Gist,
       GistRegistry!SetAssumption, GistRegistry!NumberAssumption,
       GistRegistry!PaceAssumption, GistRegistry!Gist

(* The registry starts as it does on its own.                               *)
LEMMA RegistryInit == GistRegistry!Init => RP!IndexInv
<1>1. GistRegistry!Init => RP!Init
    BY DEF GistRegistry!Init, GistRegistry!Id, RP!Init, RP!Id
<1> QED BY <1>1, RegistryConstants, RP!IndexInit

(* The vault's theorems.                                                    *)
VP ==
    INSTANCE GistVault_proofs WITH
        gists <- GetGist, Registry <- {RegistryAddress}, GistId <- GistRegistry!Id,
        Donation <- {}, MaxLedger <- MaxTime, emitted <- Filter(emitted, VaultEvents)

(* And the assumptions of these.                                            *)
LEMMA VaultConstants ==
    VP!AccountAssumption /\ VP!InputAssumption /\ VP!NumberAssumption
<1>1. VP!Address = GistVault!Address /\ VP!Item = GistVault!Item
    BY DEF VP!Address, GistVault!Address, VP!Item, GistVault!Item
<1>2. VP!TipRecord = GistVault!TipRecord
    BY <1>1, Zenon DEF VP!TipRecord, GistVault!TipRecord
<1>3. VP!AccountAssumption
  <2>1. \A S : GistVault!IsFiniteSet(S) => VP!IsFiniteSet(S)
      BY DEF GistVault!IsFiniteSet, VP!IsFiniteSet
  <2> QED BY VaultAssumption, <1>1, <1>2, <2>1, Zenon
             DEF VP!AccountAssumption, GistVault!AccountAssumption
<1>4. VP!InputAssumption
    BY VaultAssumption, <1>1, Zenon DEF VP!InputAssumption, GistVault!InputAssumption
<1>5. VP!NumberAssumption
    BY VaultAssumption, Zenon DEF VP!NumberAssumption, GistVault!NumberAssumption
<1> QED BY <1>3, <1>4, <1>5

-----------------------------------------------------------------------------
(* The registry's actions and the vault's are those of their own modules.   *)

(* What the actions read.                                                   *)
LEMMA SameQueries ==
    /\ RP!Id = GistRegistry!Id
    /\ \A id : RP!Stored(id) <=> GistRegistry!Stored(id)
    /\ RP!StoredIds = GistRegistry!StoredIds
    /\ \A gist : RP!Inactive(gist) = GistRegistry!Inactive(gist)
    /\ \A arg : RP!GistTimeToExpiry(arg) = GistRegistry!GistTimeToExpiry(arg)
    /\ \A s : RP!SecondsToLedgerTtl(s) = GistRegistry!SecondsToLedgerTtl(s)
    /\ \A h : RP!HoursToLedgerTtl(h) = GistRegistry!HoursToLedgerTtl(h)
    /\ \A t : RP!LatestExpiry(t) = GistRegistry!LatestExpiry(t)
<1>1. RP!Id = GistRegistry!Id
    BY DEF RP!Id, GistRegistry!Id
<1>2. \A id : RP!Stored(id) <=> GistRegistry!Stored(id)
    BY <1>1 DEF RP!Stored, GistRegistry!Stored
<1>3. RP!StoredIds = GistRegistry!StoredIds
    BY <1>1, <1>2 DEF RP!StoredIds, GistRegistry!StoredIds
<1>4. \A gist : RP!Inactive(gist) = GistRegistry!Inactive(gist)
    BY DEF RP!Inactive, GistRegistry!Inactive
<1>5. \A h : RP!HoursToLedgerTtl(h) = GistRegistry!HoursToLedgerTtl(h)
    BY DEF RP!HoursToLedgerTtl, GistRegistry!HoursToLedgerTtl
<1>6. \A s : RP!SecondsToLedgerTtl(s) = GistRegistry!SecondsToLedgerTtl(s)
    BY <1>5 DEF RP!SecondsToLedgerTtl, GistRegistry!SecondsToLedgerTtl
<1>7. \A arg : RP!GistTimeToExpiry(arg) = GistRegistry!GistTimeToExpiry(arg)
    BY <1>5, <1>6, Zenon DEF RP!GistTimeToExpiry, GistRegistry!GistTimeToExpiry
<1>8. \A t : RP!LatestExpiry(t) = GistRegistry!LatestExpiry(t)
    BY DEF RP!LatestExpiry, GistRegistry!LatestExpiry
<1> QED BY <1>1, <1>2, <1>3, <1>4, <1>5, <1>6, <1>7, <1>8

(* What the actions do.                                                     *)
LEMMA SameRegistry ==
    /\ (\E a \in Administrator : GistRegistry!Initialize(a)) => RP!Next
    /\ (\E a \in Account, b \in Administrator : GistRegistry!SetAdmin(a, b)) => RP!Next
    /\ \A a \in Author, arg \in TtlArg :
          GistRegistry!PostGist(a, arg) => RP!PostGist(a, arg)
    /\ \A ids, by : GistRegistry!ExpireAll(ids, by) => RP!ExpireAll(ids, by)
    /\ \A a \in Account, id \in GistRegistry!Id :
          GistRegistry!ExtendGistTtl(a, id) => RP!ExtendGistTtl(a, id)
    /\ \A d : GistRegistry!CloseLedger(d) => RP!CloseLedger(d)
<1>1. (\E a \in Administrator : GistRegistry!Initialize(a)) => RP!Next
    BY DEF GistRegistry!Initialize, RP!Initialize, RP!Next
<1>2. (\E a \in Account, b \in Administrator : GistRegistry!SetAdmin(a, b)) => RP!Next
    BY DEF GistRegistry!SetAdmin, GistRegistry!EnsureAdmin, RP!SetAdmin, RP!EnsureAdmin, RP!Next
<1>3. \A a \in Author, arg \in TtlArg :
          GistRegistry!PostGist(a, arg) => RP!PostGist(a, arg)
    BY SameQueries, ZenonT(40)
       DEF GistRegistry!PostGist, GistRegistry!AppendAuthorGist, GistRegistry!KeepNewest,
           GistRegistry!ExtendTtl, RP!PostGist, RP!AppendAuthorGist, RP!KeepNewest, RP!ExtendTtl
<1>4. \A ids, by : GistRegistry!ExpireAll(ids, by) => RP!ExpireAll(ids, by)
  <2>1. \A s : RP!ToSet(s) = GistRegistry!ToSet(s)
      BY DEF RP!ToSet, GistRegistry!ToSet
  <2>2. \A s, S : RP!Filter(s, S) = GistRegistry!Filter(s, S)
      BY DEF RP!Filter, GistRegistry!Filter
  <2>3. \A id, by : RP!ExpiredEvent(id, by) = GistRegistry!ExpiredEvent(id, by)
      BY DEF RP!ExpiredEvent, GistRegistry!ExpiredEvent
  <2> QED BY SameQueries, <2>1, <2>2, <2>3
             DEF GistRegistry!ExpireAll, RP!ExpireAll
<1>5. \A a \in Account, id \in GistRegistry!Id :
          GistRegistry!ExtendGistTtl(a, id) => RP!ExtendGistTtl(a, id)
    BY SameQueries, Zenon
       DEF GistRegistry!ExtendGistTtl, GistRegistry!Prolong, GistRegistry!ExtendTtl,
           RP!ExtendGistTtl, RP!Prolong, RP!ExtendTtl
<1>6. \A d : GistRegistry!CloseLedger(d) => RP!CloseLedger(d)
    BY SameQueries DEF GistRegistry!CloseLedger, RP!CloseLedger
<1> QED BY <1>1, <1>2, <1>3, <1>4, <1>5, <1>6

(* So a registry transaction of the pair is a step of the registry.         *)
LEMMA SameTransactions ==
    /\ \A a \in Account, id \in GistRegistry!Id :
          GistRegistry!ExpireGist(a, id) \/ GistRegistry!AdminExpireGist(a, id) => RP!Next
    /\ \A a \in Account, ids \in ExpireBatches : GistRegistry!BatchExpire(a, ids) => RP!Next
    /\ \A a \in Author, arg \in TtlArg : GistRegistry!PostGist(a, arg) => RP!Next
    /\ \A a \in Account, id \in GistRegistry!Id : GistRegistry!ExtendGistTtl(a, id) => RP!Next
    /\ \A d \in LedgerSeconds : GistRegistry!CloseLedger(d) => RP!Next
<1>1. ASSUME NEW a \in Account, NEW id \in GistRegistry!Id
      PROVE  /\ GistRegistry!ExpireGist(a, id) => RP!ExpireGist(a, id)
             /\ GistRegistry!AdminExpireGist(a, id) => RP!AdminExpireGist(a, id)
    BY SameQueries, SameRegistry
       DEF GistRegistry!ExpireGist, GistRegistry!AdminExpireGist, GistRegistry!EnsureAdmin,
           RP!ExpireGist, RP!AdminExpireGist, RP!EnsureAdmin
<1>2. ASSUME NEW a \in Account, NEW ids \in ExpireBatches
      PROVE  GistRegistry!BatchExpire(a, ids) => RP!BatchExpire(a, ids)
  <2>1. \A S : RP!Cardinality(S) = GistRegistry!Cardinality(S)
      BY DEF RP!Cardinality, GistRegistry!Cardinality
  <2> QED BY SameQueries, SameRegistry, <2>1
             DEF GistRegistry!BatchExpire, GistRegistry!EnsureAdmin, RP!BatchExpire,
                 RP!EnsureAdmin
<1> QED BY <1>1, <1>2, SameQueries, SameRegistry DEF RP!Next

(* The vault's steps leave the registry and the clock alone.                *)
LEMMA VaultLeavesClock ==
    ASSUME VaultStep
    PROVE  UNCHANGED <<regAdmin, gistCount, gists, authorGists, authorUntil, returned,
                       posted, now, seq>>
<1>1. UNCHANGED seq
  <2>1. \A kind, tipper, items, key :
           GistVault!Pay(kind, tipper, items, key) \/ GistVault!Replay(kind, tipper, items, key)
             => UNCHANGED seq
      BY DEF GistVault!Pay, GistVault!Replay
  <2>2. CASE \/ \E t \in Tipper, a \in Account, g \in GistRegistry!Id, x \in Amount, k \in Key :
                   GistVault!TipAuthor(t, a, g, x, k)
             \/ \E t \in Tipper, b \in Batches, k \in Key : GistVault!TipAuthors(t, b, k)
      BY <2>1, <2>2, Zenon DEF GistVault!TipAuthor, GistVault!TipAuthors
  <2>3. CASE \/ \E a \in Administrator, r \in {RegistryAddress} : GistVault!Initialize(a, r)
             \/ \E a \in Account, r \in {RegistryAddress} : GistVault!SetRegistryAddress(a, r)
             \/ \E a \in Account, bps \in FeeRate : GistVault!SetFeeBps(a, bps)
             \/ \E a \in Account, t \in Treasury : GistVault!SetTreasury(a, t)
             \/ \E a \in Account : GistVault!ClaimTips(a)
      BY <2>3 DEF GistVault!Initialize, GistVault!SetRegistryAddress, GistVault!SetFeeBps,
                  GistVault!SetTreasury, GistVault!ClaimTips
  <2> QED BY <2>2, <2>3, Zenon DEF VaultStep, GistVault!VaultStep
<1> QED BY <1>1 DEF VaultStep, registryVars

(* The registry's invariant for the pair, and a clock on which every ledger *)
(* takes at least a second.                                                 *)
PairInv == RP!IndexInv /\ seq =< now

(* The pair starts with it.                                                 *)
LEMMA PairInvInit == Init => PairInv
<1>1. Init => seq = 0 /\ now = Genesis
    BY DEF Init, GistRegistry!Init
<1>2. Genesis \in Nat
    BY RegistryAssumption DEF GistRegistry!NumberAssumption
<1> QED BY <1>1, <1>2, RegistryInit DEF Init, PairInv

(* Both clocks count.                                                       *)
LEMMA ClockFacts ==
    ASSUME PairInv
    PROVE  seq \in Nat /\ now \in Nat
BY DEF PairInv, RP!IndexInv, RP!RegInv, RP!TypeOK

(* A registry step keeps the registry's invariant, a vault step touches     *)
(* nothing of it.                                                           *)
LEMMA PairInvStep ==
    ASSUME PairInv, [Next]_vars PROVE PairInv'
<1>1. CASE RegistryStep
  <2>1. RP!Next
      BY <1>1, SameRegistry, SameTransactions DEF RegistryStep
  <2>2. RP!IndexInv'
      BY <2>1, RegistryConstants, RP!IndexInvStep DEF PairInv
  <2>3. UNCHANGED <<now, seq>>
      BY <1>1
         DEF RegistryStep, GistRegistry!Initialize, GistRegistry!SetAdmin, GistRegistry!PostGist,
             GistRegistry!ExpireGist, GistRegistry!AdminExpireGist, GistRegistry!ExtendGistTtl,
             GistRegistry!Prolong, GistRegistry!BatchExpire, GistRegistry!ExpireAll
  <2> QED BY <2>2, <2>3 DEF PairInv
<1>2. CASE VaultStep \/ UNCHANGED vars
  <2>1. UNCHANGED <<regAdmin, gistCount, gists, authorGists, authorUntil, returned,
                    posted, now, seq>>
      BY <1>2, VaultLeavesClock DEF vars, registryVars
  <2>2. RP!RegInv'
      BY <2>1 DEF PairInv, RP!IndexInv, RP!RegInv, RP!TypeOK, RP!Kept, RP!Stored, RP!Timely,
                  RP!LatestExpiry
  <2>3. RP!IndexInv'
      BY <2>1, <2>2 DEF PairInv, RP!IndexInv, RP!OwnLists, RP!Stored, RP!Indexed,
                        RP!LaterGists, RP!ToSet
  <2> QED BY <2>1, <2>3 DEF PairInv
<1>3. CASE \E d \in LedgerSeconds : CloseLedger(d)
  <2>1. PICK d \in LedgerSeconds : GistRegistry!CloseLedger(d)
      BY <1>3 DEF CloseLedger
  <2>2. RP!IndexInv'
      BY <2>1, SameTransactions, RegistryConstants, RP!IndexInvStep DEF PairInv
  <2>3. d \in Nat \ {0} /\ now' = now + d /\ seq' = seq + 1
      BY <2>1, RegistryAssumption DEF GistRegistry!CloseLedger, GistRegistry!SetAssumption
  <2>4. seq' =< now'
      BY <2>3, ClockFacts DEF PairInv
  <2> QED BY <2>2, <2>4 DEF PairInv
<1> QED BY <1>1, <1>2, <1>3 DEF Next

(* The registry's invariant holds in the pair throughout.                   *)
THEOREM PairKeepsRegistry == Spec => []PairInv
<1>1. Init => PairInv
    BY PairInvInit
<1>2. PairInv /\ [Next]_vars => PairInv'
    BY PairInvStep
<1> QED BY <1>1, <1>2, PTL DEF Spec

-----------------------------------------------------------------------------
(* The vault's actions, with the registry's events left out.                *)

(* Sums are the same whichever module's name they have.                     *)
LEMMA SameSums ==
    ASSUME NEW f, NEW S
    PROVE  /\ GistVault!SumFunctionOnSet(f, S) = SumFunctionOnSet(f, S)
           /\ VP!SumFunctionOnSet(f, S) = SumFunctionOnSet(f, S)
<1>1. GistVault!SumFunctionOnSet(f, S) = SumFunctionOnSet(f, S)
    BY Zenon DEF GistVault!SumFunctionOnSet, GistVault!FoldFunctionOnSet,
       GistVault!MapThenFoldSet, SumFunctionOnSet, FoldFunctionOnSet, MapThenFoldSet
<1>2. VP!SumFunctionOnSet(f, S) = SumFunctionOnSet(f, S)
    BY Zenon DEF VP!SumFunctionOnSet, VP!FoldFunctionOnSet, VP!MapThenFoldSet,
       SumFunctionOnSet, FoldFunctionOnSet, MapThenFoldSet
<1> QED BY <1>1, <1>2

(* The view's specification is that of the vault's theorems.                *)
LEMMA SameView ==
    /\ VP!Init => VaultView!Init
    /\ VP!Next => VaultView!Next
    /\ VP!vars = VaultView!vars /\ VP!vars' = VaultView!vars'
<1>1. VP!Init => VaultView!Init
    BY Zenon DEF VP!Init, VP!Unposted, VaultView!Init, VaultView!Unposted
<1>2. VP!Next => VaultView!Next
    BY Zenon
   DEF VP!Next, VP!VaultStep, VP!EnvironmentStep, VP!Initialize, VP!SetRegistryAddress,
       VP!SetFeeBps, VP!SetTreasury, VP!TipAuthor, VP!TipAuthors, VP!Replay, VP!Pay,
       VP!ClaimTips, VP!PostGist, VP!ExpireGists, VP!DirectTransfer, VP!CloseLedger,
       VP!OtherTransaction, VP!EvictRecords, VP!EnsureAdmin, VP!Tippable, VP!NoOverflow,
       VP!TippedEvent, VP!RecordTtl, VP!SplitFunds, VP!Credit, VP!AddToGistTotals,
       VP!Transfer, VP!Fee, VP!Net, VP!Gross, VP!Fees, VP!NetTo, VP!GrossFor, VP!Unposted,
       VP!Evicted, VP!config, VP!accounts, VP!SumFunctionOnSet, VP!FoldFunctionOnSet,
       VP!MapThenFoldSet, VaultView!Next, VaultView!VaultStep, VaultView!EnvironmentStep,
       VaultView!Initialize, VaultView!SetRegistryAddress, VaultView!SetFeeBps,
       VaultView!SetTreasury, VaultView!TipAuthor, VaultView!TipAuthors, VaultView!Replay,
       VaultView!Pay, VaultView!ClaimTips, VaultView!PostGist, VaultView!ExpireGists,
       VaultView!DirectTransfer, VaultView!CloseLedger, VaultView!OtherTransaction,
       VaultView!EvictRecords, VaultView!EnsureAdmin, VaultView!Tippable,
       VaultView!NoOverflow, VaultView!TippedEvent, VaultView!RecordTtl,
       VaultView!SplitFunds, VaultView!Credit, VaultView!AddToGistTotals,
       VaultView!Transfer, VaultView!Fee, VaultView!Net, VaultView!Gross, VaultView!Fees,
       VaultView!NetTo, VaultView!GrossFor, VaultView!Unposted, VaultView!Evicted,
       VaultView!config, VaultView!accounts, VaultView!SumFunctionOnSet,
       VaultView!FoldFunctionOnSet, VaultView!MapThenFoldSet
<1>3. VP!vars = VaultView!vars /\ VP!vars' = VaultView!vars'
    BY DEF VP!vars, VP!config, VP!accounts, VaultView!vars, VaultView!config,
           VaultView!accounts
<1> QED BY <1>1, <1>2, <1>3

(* The events of a vault transaction are all shown, those of the registry   *)
(* are not.                                                                 *)
LEMMA EventsShown ==
    ASSUME NEW X, emitted' \in Seq(X)
    PROVE  /\ (\A i \in DOMAIN emitted' : emitted'[i].type \in {"tipped", "claimed"})
                => Filter(emitted, VaultEvents)' = emitted'
           /\ (\A i \in DOMAIN emitted' : emitted'[i].type \notin {"tipped", "claimed"})
                => Filter(emitted, VaultEvents)' = <<>>
<1> DEFINE shown == VaultEvents'
<1>1. shown = {event \in ToSet(emitted') : event.type \in {"tipped", "claimed"}}
    BY DEF VaultEvents, ToSet
<1>2. DOMAIN emitted' = 1 .. Len(emitted')
    OBVIOUS
<1>3. \A i \in 1 .. Len(emitted') :
         emitted'[i] \in shown <=> emitted'[i].type \in {"tipped", "claimed"}
    BY <1>1, <1>2 DEF ToSet
<1> HIDE DEF shown
<1>4. (\A i \in DOMAIN emitted' : emitted'[i].type \in {"tipped", "claimed"})
        => Filter(emitted', shown) = emitted'
    BY <1>2, <1>3, FilterAll
<1>5. (\A i \in DOMAIN emitted' : emitted'[i].type \notin {"tipped", "claimed"})
        => Filter(emitted', shown) = <<>>
    BY <1>2, <1>3, FilterNone
<1> QED BY <1>4, <1>5 DEF shown

(* A transaction without events shows none.                                 *)
LEMMA NoEventsShown ==
    ASSUME emitted' = <<>> PROVE Filter(emitted, VaultEvents)' = <<>>
<1>1. emitted' \in Seq({}) /\ DOMAIN emitted' = {}
    OBVIOUS
<1> QED BY <1>1, EventsShown

(* A payment is shown as it is.                                             *)
LEMMA PayShown ==
    ASSUME NEW kind, NEW tipper, NEW items \in Seq(GistVault!Item), NEW key,
           GistVault!Pay(kind, tipper, items, key)
    PROVE  VP!Pay(kind, tipper, items, key)
<1>1. emitted' = [i \in DOMAIN items |-> GistVault!TippedEvent(items[i])]
    BY DEF GistVault!Pay
<1>2. DOMAIN items = 1 .. Len(items) /\ Len(items) \in Nat
    OBVIOUS
<1>3. emitted' \in Seq({GistVault!TippedEvent(items[i]) : i \in DOMAIN items})
    BY <1>1, <1>2
<1>4. \A i \in DOMAIN emitted' : emitted'[i].type = "tipped"
    BY <1>1 DEF GistVault!TippedEvent
<1>5. Filter(emitted, VaultEvents)' = emitted'
    BY <1>3, <1>4, EventsShown
<1> QED
    BY <1>5, Zenon
    DEF GistVault!Pay, GistVault!Tippable, GistVault!NoOverflow, GistVault!TippedEvent,
        GistVault!RecordTtl, GistVault!SplitFunds, GistVault!Credit,
        GistVault!AddToGistTotals, GistVault!Transfer, GistVault!Fee, GistVault!Net,
        GistVault!Gross, GistVault!Fees, GistVault!NetTo, GistVault!GrossFor,
        GistVault!config, GistVault!SumFunctionOnSet, GistVault!FoldFunctionOnSet,
        GistVault!MapThenFoldSet, VP!Pay, VP!Tippable, VP!NoOverflow, VP!TippedEvent,
        VP!RecordTtl, VP!SplitFunds, VP!Credit, VP!AddToGistTotals, VP!Transfer, VP!Fee,
        VP!Net, VP!Gross, VP!Fees, VP!NetTo, VP!GrossFor, VP!config, VP!SumFunctionOnSet,
        VP!FoldFunctionOnSet, VP!MapThenFoldSet

(* So is a replay.                                                          *)
LEMMA ReplayShown ==
    ASSUME NEW kind, NEW tipper, NEW items, NEW key,
           GistVault!Replay(kind, tipper, items, key)
    PROVE  VP!Replay(kind, tipper, items, key)
<1>1. Filter(emitted, VaultEvents)' = <<>>
    BY NoEventsShown DEF GistVault!Replay
<1> QED BY <1>1, Zenon
           DEF GistVault!Replay, GistVault!config, GistVault!accounts,
               VP!Replay, VP!config, VP!accounts

(* And a claim.                                                             *)
LEMMA ClaimShown ==
    ASSUME NEW recipient, GistVault!ClaimTips(recipient)
    PROVE  VP!ClaimTips(recipient)
<1> DEFINE event == [type |-> "claimed", recipient |-> recipient,
                     amount |-> pending[recipient]]
<1>1. emitted' = <<event>>
    BY DEF GistVault!ClaimTips
<1>2. event.type = "claimed"
    OBVIOUS
<1> HIDE DEF event
<1>3. <<event>> \in Seq({event}) /\ \A i \in DOMAIN <<event>> : <<event>>[i] = event
    OBVIOUS
<1>4. Filter(emitted, VaultEvents)' = emitted'
    BY <1>1, <1>2, <1>3, EventsShown
<1> QED BY <1>4, Zenon
           DEF GistVault!ClaimTips, GistVault!Transfer, GistVault!config,
               VP!ClaimTips, VP!Transfer, VP!config

(* And every other call of the vault.                                       *)
LEMMA VaultStepShown ==
    ASSUME VaultStep PROVE VP!VaultStep
<1>1. ASSUME NEW kind, NEW tipper, NEW items \in Seq(GistVault!Item), NEW key,
             \/ GistVault!Replay(kind, tipper, items, key)
             \/ GistVault!Pay(kind, tipper, items, key)
      PROVE  VP!Replay(kind, tipper, items, key) \/ VP!Pay(kind, tipper, items, key)
    BY <1>1, ReplayShown, PayShown
<1>2. ASSUME NEW t \in Tipper, NEW a \in Account, NEW g \in GistRegistry!Id,
             NEW x \in Amount, NEW k \in Key, GistVault!TipAuthor(t, a, g, x, k)
      PROVE  VP!TipAuthor(t, a, g, x, k)
  <2> DEFINE tip == <<[recipient |-> a, gist_id |-> g, amount |-> x]>>
  <2>1. x \in Int
      BY VaultAssumption DEF GistVault!InputAssumption
  <2>2. tip \in Seq(GistVault!Item)
      BY <2>1 DEF GistVault!Item
  <2>3. x > 0 /\ (GistVault!Replay("single", t, tip, k) \/ GistVault!Pay("single", t, tip, k))
      BY <1>2 DEF GistVault!TipAuthor
  <2> HIDE DEF tip
  <2>4. VP!Replay("single", t, tip, k) \/ VP!Pay("single", t, tip, k)
      BY <1>1, <2>2, <2>3
  <2> QED BY <2>3, <2>4 DEF VP!TipAuthor, tip
<1>3. ASSUME NEW t \in Tipper, NEW b \in Batches, NEW k \in Key,
             GistVault!TipAuthors(t, b, k)
      PROVE  VP!TipAuthors(t, b, k)
  <2>1. b \in Seq(GistVault!Item)
      BY VaultAssumption DEF GistVault!InputAssumption
  <2>2. Len(b) \in 1 .. MAX_BATCH_SIZE
        /\ (GistVault!Replay("batch", t, b, k) \/ GistVault!Pay("batch", t, b, k))
      BY <1>3 DEF GistVault!TipAuthors
  <2>3. VP!Replay("batch", t, b, k) \/ VP!Pay("batch", t, b, k)
      BY <1>1, <2>1, <2>2
  <2> QED BY <2>2, <2>3 DEF VP!TipAuthors
<1>4. CASE \/ \E a \in Administrator, r \in {RegistryAddress} : GistVault!Initialize(a, r)
           \/ \E a \in Account, r \in {RegistryAddress} : GistVault!SetRegistryAddress(a, r)
           \/ \E a \in Account, bps \in FeeRate : GistVault!SetFeeBps(a, bps)
           \/ \E a \in Account, t \in Treasury : GistVault!SetTreasury(a, t)
  <2>1. Filter(emitted, VaultEvents)' = <<>>
      BY <1>4, NoEventsShown
         DEF GistVault!Initialize, GistVault!SetRegistryAddress, GistVault!SetFeeBps,
             GistVault!SetTreasury
  <2> QED
      BY <1>4, <2>1, Zenon
      DEF GistVault!Initialize, GistVault!SetRegistryAddress, GistVault!SetFeeBps,
          GistVault!SetTreasury, GistVault!EnsureAdmin, GistVault!accounts, VP!VaultStep,
          VP!Initialize, VP!SetRegistryAddress, VP!SetFeeBps, VP!SetTreasury,
          VP!EnsureAdmin, VP!accounts
<1>5. CASE \E a \in Account : GistVault!ClaimTips(a)
    BY <1>5, ClaimShown DEF VP!VaultStep
<1> QED
    BY <1>2, <1>3, <1>4, <1>5, ZenonT(60)
    DEF VaultStep, GistVault!VaultStep, VP!VaultStep

-----------------------------------------------------------------------------
(* The registry's actions, as the vault sees them.                          *)

(* What get_gist answers for one id.                                        *)
Answer(id) ==
    IF gists[id] # NoGist
    THEN [state |-> "stored", author |-> gists[id].author, is_active |-> gists[id].is_active]
    ELSE [state |-> IF id > gistCount THEN "unposted" ELSE "evicted",
          author |-> posted[id].author, is_active |-> FALSE]

(* All that get_gist answers, now and after a step.                         *)
LEMMA Answers ==
    /\ GetGist = [r \in {RegistryAddress} |-> [id \in GistRegistry!Id |-> Answer(id)]]
    /\ GetGist' = [r \in {RegistryAddress} |-> [id \in GistRegistry!Id |-> Answer(id)']]
<1>1. \A id \in GistRegistry!Id : GistRegistry!Stored(id) <=> gists[id] # NoGist
    BY DEF GistRegistry!Stored
<1>2. \A id \in GistRegistry!Id : GistRegistry!Stored(id)' <=> gists'[id] # NoGist
    BY DEF GistRegistry!Stored
<1> QED BY <1>1, <1>2 DEF GetGist, Answer

(* The same answers are the same get_gist.                                  *)
LEMMA SameAnswers ==
    ASSUME \A id \in GistRegistry!Id : Answer(id)' = Answer(id)
    PROVE  GetGist' = GetGist
BY Answers

(* What the registry's invariant says of the answers.                       *)
LEMMA PairFacts ==
    ASSUME PairInv
    PROVE  /\ gistCount \in Nat /\ GistRegistry!Id = 1 .. MaxGists /\ MaxGists \in Nat
           /\ gists \in [GistRegistry!Id -> RP!Gist \cup {NoGist}] /\ NoGist \notin RP!Gist
           /\ DOMAIN posted = GistRegistry!Id
           /\ \A id \in GistRegistry!Id : id > gistCount =>
                 gists[id] = NoGist /\ posted[id].author = NoAddress
           /\ \A id \in GistRegistry!Id : gists[id] # NoGist =>
                 /\ gists[id] \in RP!Gist /\ gists[id].author = posted[id].author
                 /\ id \in 1 .. gistCount /\ RP!Timely(gists[id], posted[id])
<1>1. RP!TypeOK /\ RP!IndexInv
    BY DEF PairInv, RP!IndexInv, RP!RegInv
<1>2. /\ GistRegistry!Id = 1 .. MaxGists /\ MaxGists \in Nat /\ gistCount \in Nat
      /\ RP!Id = GistRegistry!Id /\ NoGist \notin RP!Gist
    BY <1>1, SameQueries, RegistryConstants
       DEF RP!TypeOK, GistRegistry!Id, RP!NumberAssumption, RP!SetAssumption
<1>3. /\ gists \in [GistRegistry!Id -> RP!Gist \cup {NoGist}]
      /\ DOMAIN posted = GistRegistry!Id
      /\ \A id \in GistRegistry!Id : id > gistCount =>
            gists[id] = NoGist /\ posted[id].author = NoAddress
    BY <1>1, <1>2 DEF RP!TypeOK, RP!IndexInv
<1>4. ASSUME NEW id \in GistRegistry!Id, gists[id] # NoGist
      PROVE  /\ gists[id] \in RP!Gist /\ gists[id].author = posted[id].author
             /\ id \in 1 .. gistCount /\ RP!Timely(gists[id], posted[id])
  <2>1. gists[id] \in RP!Gist /\ RP!Stored(id)
      BY <1>2, <1>3, <1>4 DEF RP!Stored
  <2>2. gists[id].author = posted[id].author
      BY <1>1, <1>2, <2>1 DEF RP!IndexInv, RP!Indexed
  <2>3. id \in 1 .. gistCount
      BY <1>2, <1>3, <1>4
  <2>4. RP!Kept(id)
      BY <1>1, <2>3 DEF RP!IndexInv, RP!RegInv
  <2> QED BY <2>1, <2>2, <2>3, <2>4 DEF RP!Kept
<1> QED BY <1>2, <1>3, <1>4

(* A post is the posting of a gist no one has posted.                       *)
LEMMA PostShown ==
    ASSUME PairInv, PairInv', UNCHANGED vaultVars, NEW author \in Author, NEW arg \in TtlArg,
           GistRegistry!PostGist(author, arg)
    PROVE  VP!EnvironmentStep
<1> SUFFICES ASSUME NEW new \in Nat, new = gistCount + 1 PROVE VP!EnvironmentStep
    BY PairFacts
<1> DEFINE R == RegistryAddress
           life == GistRegistry!GistTimeToExpiry(arg)
           gist == [author |-> author, timestamp |-> now, expiry |-> life.expiry,
                    is_active |-> TRUE, until |-> seq + life.ttl]
           past == [author |-> author, seq |-> seq, expiry |-> life.expiry]
           event == [type |-> "posted", gist_id |-> new, by |-> author]
           entry == [state |-> "stored", author |-> author, is_active |-> TRUE]
<1>1. /\ new \in GistRegistry!Id /\ gistCount' = new /\ life.expiry > now
      /\ gists' = [gists EXCEPT ![new] = gist]
      /\ posted' = [posted EXCEPT ![new] = past]
      /\ emitted' = <<event>> /\ UNCHANGED <<now, seq>>
    BY DEF GistRegistry!PostGist
<1>2. gist.author = author /\ gist.is_active = TRUE /\ past.expiry = life.expiry
      /\ past.author = author /\ event.type = "posted"
    OBVIOUS
<1> HIDE DEF gist, past, event, life
<1>3. /\ gistCount \in Nat /\ GistRegistry!Id = 1 .. MaxGists /\ MaxGists \in Nat
      /\ DOMAIN gists = GistRegistry!Id /\ DOMAIN posted = GistRegistry!Id
      /\ gists[new] = NoGist /\ posted[new].author = NoAddress
    BY <1>1, PairFacts
<1>4. gist # NoGist
  <2>1. new \in 1 .. gistCount' /\ gists'[new] = gist /\ posted'[new] = past
      BY <1>1, <1>3
  <2>2. RP!Kept(new)'
      BY <2>1 DEF PairInv, RP!IndexInv, RP!RegInv
  <2>3. ~ posted'[new].expiry =< now'
      <3>1. life.expiry \in Nat /\ now \in Nat
          BY <1>2, <2>1, <1>1, <1>3, SameQueries
             DEF PairInv, RP!IndexInv, RP!RegInv, RP!TypeOK
      <3> QED BY <1>1, <1>2, <2>1, <3>1
  <2>4. RP!Stored(new)'
      BY <2>2, <2>3 DEF RP!Kept
  <2> QED BY <2>1, <2>4 DEF RP!Stored
<1>5. \A id \in GistRegistry!Id : id # new =>
         gists'[id] = gists[id] /\ posted'[id] = posted[id] /\ (id > gistCount' <=> id > gistCount)
    BY <1>1, <1>3
<1>6. \A id \in GistRegistry!Id : id # new => Answer(id)' = Answer(id)
    BY <1>5 DEF Answer
<1>7. Answer(new) = VP!Unposted /\ Answer(new)' = entry
  <2>1. gists'[new] = gist
      BY <1>1, <1>3
  <2>2. new > gistCount
      BY <1>3
  <2> QED BY <1>2, <1>3, <1>4, <2>1, <2>2 DEF Answer, VP!Unposted
<1>8. GetGist[R][new] = VP!Unposted
    BY <1>1, <1>7, Answers
<1>9. GetGist' = [GetGist EXCEPT ![R][new] = entry]
    BY <1>1, <1>6, <1>7, Answers
<1>10. Filter(emitted, VaultEvents)' = <<>>
  <2>1. <<event>> \in Seq({event}) /\ \A i \in DOMAIN <<event>> : <<event>>[i] = event
      OBVIOUS
  <2> QED BY <1>1, <1>2, <2>1, EventsShown
<1>11. VP!PostGist(R, new, author)
    BY <1>1, <1>8, <1>9, <1>10 DEF VP!PostGist, VP!config, VP!accounts, vaultVars, config
<1> QED BY <1>1, <1>11 DEF VP!EnvironmentStep

(* The answer for a gist that was expired.                                  *)
LEMMA AnswerClosed ==
    ASSUME NEW s, NEW a, NEW b,
           NEW old, old = [state |-> s, author |-> a, is_active |-> b],
           NEW new, new = [state |-> s, author |-> a, is_active |-> FALSE]
    PROVE  new = [old EXCEPT !.is_active = FALSE]
<1> DEFINE Fields == {"state", "author", "is_active"}
<1>1. new = [k \in Fields |-> new[k]]
    OBVIOUS
<1>2. /\ DOMAIN old = Fields /\ old["state"] = new["state"]
      /\ old["author"] = new["author"] /\ new["is_active"] = FALSE
    OBVIOUS
<1>3. [old EXCEPT !["is_active"] = FALSE] = [k \in Fields |-> new[k]]
    BY <1>2
<1> QED BY <1>1, <1>3

(* The answer for a gist that was evicted.                                  *)
LEMMA AnswerEvicted ==
    ASSUME NEW a, NEW b,
           NEW old, old = [state |-> "stored", author |-> a, is_active |-> b],
           NEW new, new = [state |-> "evicted", author |-> a, is_active |-> FALSE]
    PROVE  new = VP!Evicted(old)
<1> DEFINE Fields == {"state", "author", "is_active"}
<1>1. new = [k \in Fields |-> new[k]]
    OBVIOUS
<1>2. /\ DOMAIN old = Fields /\ new["state"] = "evicted"
      /\ old["author"] = new["author"] /\ new["is_active"] = FALSE
    OBVIOUS
<1>3. [old EXCEPT !["state"] = "evicted", !["is_active"] = FALSE] = [k \in Fields |-> new[k]]
    BY <1>2
<1> QED BY <1>1, <1>3 DEF VP!Evicted

(* Expiring gists closes those that were active, and is nothing to the      *)
(* vault if none was.                                                       *)
LEMMA ExpireShown ==
    ASSUME PairInv, UNCHANGED vaultVars, NEW ids \in Seq(Nat), NEW by,
           GistRegistry!ExpireAll(ids, by)
    PROVE  VP!EnvironmentStep
<1> DEFINE R == RegistryAddress
           found == {id \in GistRegistry!ToSet(ids) : GistRegistry!Stored(id)}
           active == {id \in found : gists[id].is_active}
           expired == GistRegistry!Filter(ids, GistRegistry!StoredIds)
<1>1. /\ gists' = [id \in GistRegistry!Id |->
                     IF id \in found THEN GistRegistry!Inactive(gists[id]) ELSE gists[id]]
      /\ posted' = [id \in GistRegistry!Id |->
                      IF id \in found THEN [posted[id] EXCEPT !.expiry = now] ELSE posted[id]]
      /\ emitted' = [i \in DOMAIN expired |-> GistRegistry!ExpiredEvent(expired[i], by)]
      /\ UNCHANGED <<gistCount, seq>>
    BY DEF GistRegistry!ExpireAll
<1>2. \A id \in found : id \in GistRegistry!Id /\ gists[id] # NoGist
    BY DEF GistRegistry!Stored
<1>3. Filter(emitted, VaultEvents)' = <<>>
  <2>1. expired \in Seq(Nat)
    <3>1. expired = Filter(ids, GistRegistry!StoredIds)
        BY DEF GistRegistry!Filter, Filter
    <3> HIDE DEF expired
    <3> QED BY <3>1, FilterSet
  <2> HIDE DEF expired
  <2>2. DOMAIN expired = 1 .. Len(expired) /\ Len(expired) \in Nat
      BY <2>1
  <2>3. emitted' \in Seq({GistRegistry!ExpiredEvent(expired[i], by) : i \in DOMAIN expired})
      BY <1>1, <2>2
  <2>4. \A i \in DOMAIN emitted' : emitted'[i].type = "expired"
      BY <1>1 DEF GistRegistry!ExpiredEvent
  <2> QED BY <2>3, <2>4, EventsShown
<1> HIDE DEF found, expired
<1>4. ASSUME NEW id \in GistRegistry!Id
      PROVE  /\ id \in found =>
                   /\ Answer(id).state = "stored"
                   /\ Answer(id).is_active = gists[id].is_active
                   /\ gists[id].is_active \in BOOLEAN
                   /\ Answer(id)' = [Answer(id) EXCEPT !.is_active = FALSE]
             /\ id \notin found => Answer(id)' = Answer(id)
  <2>1. CASE id \in found
    <3>1. gists[id] \in RP!Gist /\ gists[id] # NoGist
        BY <1>2, <2>1, PairFacts
    <3>2. gists'[id] = GistRegistry!Inactive(gists[id])
        BY <1>1, <2>1
    <3>3. /\ gists'[id] \in RP!Gist /\ gists'[id].author = gists[id].author
          /\ gists'[id].is_active = FALSE
      <4>1. now \in Nat
          BY ClockFacts
      <4> QED BY <3>1, <3>2, <4>1 DEF GistRegistry!Inactive, RP!Gist
    <3>4. gists'[id] # NoGist
        BY <3>3, PairFacts
    <3>5. gists[id].is_active \in BOOLEAN
        BY <3>1 DEF RP!Gist
    <3>6. Answer(id) = [state |-> "stored", author |-> gists[id].author,
                        is_active |-> gists[id].is_active]
        BY <3>1 DEF Answer
    <3>7. Answer(id)' = [state |-> "stored", author |-> gists[id].author,
                         is_active |-> FALSE]
        BY <3>3, <3>4, Zenon DEF Answer
    <3>8. Answer(id)' = [Answer(id) EXCEPT !.is_active = FALSE]
      <4>1. PICK s, a, b : /\ Answer(id) = [state |-> s, author |-> a, is_active |-> b]
                           /\ Answer(id)' = [state |-> s, author |-> a, is_active |-> FALSE]
          BY <3>6, <3>7
      <4> QED BY <4>1, AnswerClosed, ZenonT(40)
    <3>9. Answer(id).state = "stored" /\ Answer(id).is_active = gists[id].is_active
        BY <3>6
    <3> QED BY <2>1, <3>5, <3>8, <3>9
  <2>2. CASE id \notin found
    <3>1. gists'[id] = gists[id] /\ posted'[id] = posted[id] /\ gistCount' = gistCount
        BY <1>1, <2>2
    <3> QED BY <2>2, <3>1 DEF Answer
  <2> QED BY <2>1, <2>2
<1>5. CASE active = {}
  <2>1. ASSUME NEW id \in GistRegistry!Id PROVE Answer(id)' = Answer(id)
    <3>1. CASE id \in found
      <4>1. gists[id].is_active = FALSE
          BY <1>4, <1>5, <3>1
      <4> QED BY <1>4, <3>1, <4>1 DEF Answer
    <3> QED BY <1>4, <3>1
  <2>2. GetGist' = GetGist
      BY <2>1, SameAnswers
  <2> QED BY <1>1, <1>3, <2>2
          DEF VP!EnvironmentStep, VP!OtherTransaction, VP!config, VP!accounts, vaultVars, config
<1>6. CASE active # {}
  <2>1. active \in SUBSET GistRegistry!Id
      BY <1>2
  <2>2. \A id \in active : GetGist[R][id].state = "stored" /\ GetGist[R][id].is_active
    <3>1. \A id \in active : Answer(id).state = "stored" /\ Answer(id).is_active
        BY <1>4, <2>1
    <3> QED BY <2>1, <3>1, Answers
  <2>3. GetGist' = [GetGist EXCEPT ![R] =
                      [id \in GistRegistry!Id |->
                          IF id \in active THEN [@[id] EXCEPT !.is_active = FALSE] ELSE @[id]]]
    <3>1. ASSUME NEW id \in GistRegistry!Id
          PROVE  Answer(id)' = IF id \in active THEN [Answer(id) EXCEPT !.is_active = FALSE]
                               ELSE Answer(id)
      <4>1. CASE id \in active
          BY <1>4, <4>1
      <4>2. CASE id \in found /\ id \notin active
        <5>1. gists[id].is_active = FALSE
            BY <1>4, <4>2
        <5> QED BY <1>4, <4>2, <5>1, ZenonT(40) DEF Answer
      <4>3. CASE id \notin found
          BY <1>4, <4>3
      <4> QED BY <4>1, <4>2, <4>3
    <3> HIDE DEF active
    <3> QED BY <3>1, Answers
  <2>4. VP!ExpireGists(R, active)
    <3> HIDE DEF active
    <3> QED BY <1>1, <1>3, <1>6, <2>2, <2>3
            DEF VP!ExpireGists, VP!config, VP!accounts, vaultVars, config
  <2> HIDE DEF active
  <2> QED BY <2>1, <2>4 DEF VP!EnvironmentStep
<1> QED BY <1>5, <1>6

(* Calls that change no gist's answer.                                      *)
LEMMA OtherShown ==
    ASSUME PairInv, UNCHANGED vaultVars,
           \/ \E a \in Administrator : GistRegistry!Initialize(a)
           \/ \E a \in Account, b \in Administrator : GistRegistry!SetAdmin(a, b)
           \/ \E a \in Account, id \in GistRegistry!Id : GistRegistry!ExtendGistTtl(a, id)
    PROVE  VP!EnvironmentStep
<1>1. emitted' = <<>> /\ UNCHANGED seq
    BY DEF GistRegistry!Initialize, GistRegistry!SetAdmin, GistRegistry!ExtendGistTtl,
           GistRegistry!Prolong
<1>2. ASSUME NEW id \in GistRegistry!Id PROVE Answer(id)' = Answer(id)
  <2>1. CASE \/ \E a \in Administrator : GistRegistry!Initialize(a)
             \/ \E a \in Account, b \in Administrator : GistRegistry!SetAdmin(a, b)
      BY <2>1 DEF GistRegistry!Initialize, GistRegistry!SetAdmin, Answer
  <2>2. ASSUME NEW a \in Account, NEW at \in GistRegistry!Id,
               GistRegistry!ExtendGistTtl(a, at)
        PROVE  Answer(id)' = Answer(id)
    <3>1. PICK expiry : GistRegistry!Prolong(at, expiry) /\ expiry >= now
          /\ expiry = gists[at].expiry + EXTENSION_HOURS * SECONDS_PER_HOUR
        BY <2>2 DEF GistRegistry!ExtendGistTtl
    <3>2. gists[at] # NoGist
        BY <2>2 DEF GistRegistry!ExtendGistTtl, GistRegistry!Stored
    <3> DEFINE until == GistRegistry!ExtendTtl(gists[at].until,
                            GistRegistry!SecondsToLedgerTtl(expiry - now))
               gist == [gists[at] EXCEPT !.expiry = expiry, !.until = until]
    <3>3. /\ gists' = [gists EXCEPT ![at] = gist]
          /\ posted' = [posted EXCEPT ![at].expiry = expiry] /\ gistCount' = gistCount
        BY <3>1 DEF GistRegistry!Prolong
    <3>4. CASE id # at
      <4>1. gists'[id] = gists[id] /\ posted'[id] = posted[id]
          BY <3>3, <3>4, PairFacts
      <4> QED BY <3>3, <4>1 DEF Answer
    <3>5. CASE id = at
      <4>1. gists[at] \in RP!Gist
          BY <3>2, PairFacts
      <4>2. gists'[at] = gist
          BY <3>3, PairFacts
      <4>3. gist.author = gists[at].author /\ gist.is_active = gists[at].is_active
          BY <4>1 DEF RP!Gist
      <4>4. gist # NoGist
        <5>1. gists[at].expiry \in Nat /\ gists[at].until \in Nat /\ now \in Nat /\ seq \in Nat
            BY <4>1, ClockFacts DEF RP!Gist
        <5>2. expiry \in Nat /\ expiry - now \in Nat
          <6>1. EXTENSION_HOURS \in Nat /\ SECONDS_PER_HOUR \in Nat
              BY RegistryConstants DEF RP!NumberAssumption
          <6>2. EXTENSION_HOURS * SECONDS_PER_HOUR \in Nat
              BY <6>1
          <6> QED BY <3>1, <5>1, <6>2
        <5>3. GistRegistry!SecondsToLedgerTtl(expiry - now) \in Nat
            BY <5>2, RegistryConstants, RP!TtlCovers, SameQueries
        <5>4. until \in Nat
            BY <5>1, <5>3 DEF GistRegistry!ExtendTtl
        <5> HIDE DEF until
        <5>5. gist \in RP!Gist
            BY <4>1, <5>2, <5>4 DEF RP!Gist
        <5> QED BY <5>5, PairFacts
      <4> HIDE DEF gist
      <4> QED BY <3>2, <3>5, <4>2, <4>3, <4>4 DEF Answer
    <3> QED BY <3>4, <3>5
  <2> QED BY <2>1, <2>2
<1>3. GetGist' = GetGist
    BY <1>2, SameAnswers
<1> QED BY <1>1, <1>3, NoEventsShown
        DEF VP!EnvironmentStep, VP!OtherTransaction, VP!config, VP!accounts, vaultVars, config

(* A ledger that closes evicts gists that were stored, and the vault's own  *)
(* records.                                                                 *)
LEMMA CloseShown ==
    ASSUME PairInv, NEW d \in LedgerSeconds, CloseLedger(d)
    PROVE  VP!EnvironmentStep
<1> DEFINE R == RegistryAddress
           gone == {id \in GistRegistry!Id : GistRegistry!Stored(id) /\ gists[id].until < seq'}
           lost == {at \in {R} \X GistRegistry!Id : at[2] \in gone}
<1>1. /\ now < MaxTime /\ seq' = seq + 1 /\ emitted' = <<>>
      /\ gists' = [id \in GistRegistry!Id |-> IF id \in gone THEN NoGist ELSE gists[id]]
      /\ UNCHANGED <<gistCount, posted>>
    BY DEF CloseLedger, GistRegistry!CloseLedger
<1>2. seq < MaxTime
  <2>1. MaxTime \in Nat
      BY VaultAssumption DEF GistVault!NumberAssumption
  <2> QED BY <1>1, <2>1, ClockFacts DEF PairInv
<1>3. VP!EvictRecords(seq')
    BY DEF CloseLedger, GistVault!EvictRecords, VP!EvictRecords
<1>4. \A id \in gone : gists[id] # NoGist /\ id \in 1 .. gistCount
    BY PairFacts DEF GistRegistry!Stored
<1>5. lost \in SUBSET ({R} \X GistRegistry!Id)
    OBVIOUS
<1>6. \A id \in GistRegistry!Id : <<R, id>> \in lost <=> id \in gone
    OBVIOUS
<1>7. \A at \in lost : at[1] = R /\ at[2] \in GistRegistry!Id /\ at[2] \in gone
    OBVIOUS
<1> HIDE DEF gone, lost
<1>8. \A at \in lost : GetGist[at[1]][at[2]].state = "stored"
  <2>1. \A id \in gone : Answer(id).state = "stored"
      BY <1>4 DEF Answer
  <2> QED BY <1>7, <2>1, Answers
<1>9. ASSUME NEW id \in GistRegistry!Id
      PROVE  Answer(id)' = IF id \in gone THEN VP!Evicted(Answer(id)) ELSE Answer(id)
  <2>1. CASE id \in gone
    <3>1. gists[id] # NoGist /\ gists[id].author = posted[id].author
          /\ ~ id > gistCount
        BY <1>4, <2>1, PairFacts
    <3>2. gists'[id] = NoGist /\ UNCHANGED <<gistCount, posted>>
        BY <1>1, <2>1
    <3>3. Answer(id) = [state |-> "stored", author |-> posted[id].author,
                        is_active |-> gists[id].is_active]
        BY <3>1 DEF Answer
    <3>4. Answer(id)' = [state |-> "evicted", author |-> posted[id].author,
                         is_active |-> FALSE]
        BY <3>1, <3>2 DEF Answer
    <3>5. PICK a, b : /\ Answer(id) = [state |-> "stored", author |-> a, is_active |-> b]
                      /\ Answer(id)' = [state |-> "evicted", author |-> a, is_active |-> FALSE]
        BY <3>3, <3>4
    <3> QED BY <2>1, <3>5, AnswerEvicted
  <2>2. CASE id \notin gone
    <3>1. gists'[id] = gists[id] /\ UNCHANGED <<gistCount, posted>>
        BY <1>1, <2>2
    <3> QED BY <2>2, <3>1 DEF Answer
  <2> QED BY <2>1, <2>2
<1>10. GetGist' = [r \in {R} |-> [id \in GistRegistry!Id |->
                     IF <<r, id>> \in lost THEN VP!Evicted(GetGist[r][id])
                     ELSE GetGist[r][id]]]
    BY <1>6, <1>9, Answers
<1>11. VP!CloseLedger(lost)
    BY <1>1, <1>2, <1>3, <1>8, <1>10, NoEventsShown
       DEF VP!CloseLedger, VP!config, CloseLedger, config
<1> QED BY <1>5, <1>11 DEF VP!EnvironmentStep

(* An empty registry answers that nothing was posted.                       *)
LEMMA InitShown == Init => VP!Init
<1> SUFFICES ASSUME Init PROVE VP!Init
    OBVIOUS
<1>1. emitted = <<>>
    BY DEF Init, GistVault!Init
<1>2. emitted \in Seq({}) /\ \A i \in 1 .. Len(emitted) : emitted[i] \notin VaultEvents
    BY <1>1
<1>3. Filter(emitted, VaultEvents) = <<>>
    BY <1>2, FilterNone
<1> QED BY <1>3 DEF Init, GistVault!Init, GistVault!Unposted, VP!Init, VP!Unposted

(* Every step of the pair is a step of the vault, or none.                  *)
LEMMA StepShown ==
    ASSUME PairInv, [Next]_vars PROVE [VP!Next]_(VP!vars)
<1>1. CASE VaultStep
    BY <1>1, VaultStepShown DEF VP!Next
<1>2. CASE \E d \in LedgerSeconds : CloseLedger(d)
    BY <1>2, CloseShown DEF VP!Next
<1>3. CASE UNCHANGED vars
  <2>1. GetGist' = GetGist
      BY <1>3 DEF vars, registryVars, GetGist, GistRegistry!Stored
  <2>2. Filter(emitted, VaultEvents)' = Filter(emitted, VaultEvents)
      BY <1>3 DEF vars, VaultEvents
  <2> QED BY <1>3, <2>1, <2>2
          DEF vars, vaultVars, config, VP!vars, VP!config, VP!accounts
<1>4. CASE RegistryStep
  <2>1. PairInv'
      BY PairInvStep
  <2>2. UNCHANGED vaultVars
      BY <1>4 DEF RegistryStep
  <2>3. ASSUME NEW a \in Author, NEW arg \in TtlArg, GistRegistry!PostGist(a, arg)
        PROVE  VP!EnvironmentStep
      BY <2>1, <2>2, <2>3, PostShown
  <2>4. ASSUME NEW a \in Account, NEW id \in GistRegistry!Id,
               GistRegistry!ExpireGist(a, id) \/ GistRegistry!AdminExpireGist(a, id)
        PROVE  VP!EnvironmentStep
    <3>1. GistRegistry!ExpireAll(<<id>>, a)
        BY <2>4 DEF GistRegistry!ExpireGist, GistRegistry!AdminExpireGist
    <3>2. <<id>> \in Seq(Nat)
        BY PairFacts
    <3> QED BY <2>2, <3>1, <3>2, ExpireShown
  <2>5. ASSUME NEW a \in Account, NEW ids \in ExpireBatches,
               GistRegistry!BatchExpire(a, ids)
        PROVE  VP!EnvironmentStep
    <3>1. GistRegistry!ExpireAll(ids, a)
        BY <2>5 DEF GistRegistry!BatchExpire
    <3>2. ids \in Seq(Nat)
        BY RegistryConstants DEF RP!SetAssumption
    <3> QED BY <2>2, <3>1, <3>2, ExpireShown
  <2>6. ASSUME \/ \E a \in Administrator : GistRegistry!Initialize(a)
               \/ \E a \in Account, b \in Administrator : GistRegistry!SetAdmin(a, b)
               \/ \E a \in Account, id \in GistRegistry!Id : GistRegistry!ExtendGistTtl(a, id)
        PROVE  VP!EnvironmentStep
      BY <2>2, <2>6, OtherShown
  <2> QED BY <1>4, <2>3, <2>4, <2>5, <2>6, Zenon DEF RegistryStep, VP!Next
<1> QED BY <1>1, <1>2, <1>3, <1>4 DEF Next

(* The deployed vault implements the vault of its own module: what is       *)
(* proved of that vault holds of this one.                                  *)
THEOREM DeployedVaultIsVault == Spec => ImplementsVault
<1>1. Init => VaultView!Init
    BY InitShown, SameView
<1>2. PairInv /\ [Next]_vars => [VaultView!Next]_(VaultView!vars)
  <2> SUFFICES ASSUME PairInv, [Next]_vars PROVE [VaultView!Next]_(VaultView!vars)
      OBVIOUS
  <2>1. [VP!Next]_(VP!vars)
      BY StepShown
  <2> QED BY <2>1, SameView
<1> QED BY <1>1, <1>2, PairKeepsRegistry, PTL DEF Spec, ImplementsVault, VaultView!Spec

(* So the theorems of the vault hold of the deployed one.                   *)
LEMMA DeployedSteps == Spec => VP!Spec
<1>1. Init => VP!Init
    BY InitShown
<1>2. PairInv /\ [Next]_vars => [VP!Next]_(VP!vars)
    BY StepShown
<1> QED BY <1>1, <1>2, PairKeepsRegistry, PTL DEF Spec, VP!Spec

-----------------------------------------------------------------------------
(* Properties of the pair.                                                  *)

(* The deployed vault holds every token it owes: the solvency of the vault  *)
(* on its own, whatever its registry answers.                               *)
THEOREM DeployedVaultSolvent ==
    Spec => [](balance[Vault] >= SumFunctionOnSet(pending, Account))
<1>1. Spec => []VP!Solvent
    BY DeployedSteps, VaultConstants, VP!Solvency
<1>2. VP!Solvent => balance[Vault] >= SumFunctionOnSet(pending, Account)
    BY SameSums DEF VP!Solvent, VP!Owed
<1> QED BY <1>1, <1>2, PTL

(* The gists the vault says an author posted are those the registry says.   *)
THEOREM EarnedByTheGistsPosted == Spec => []EarnedByOwnGists
<1>1. Spec => []VP!OwedForOwnGists
    BY DeployedSteps, VaultConstants, VP!OwedOnlyForOwnGists
<1>2. PairInv /\ VP!OwedForOwnGists => EarnedByOwnGists
  <2> SUFFICES ASSUME PairInv, VP!OwedForOwnGists, NEW a \in Account
               PROVE  pending[a] =< SumFunctionOnSet(gistTotal, GistsOf(a))
      BY DEF EarnedByOwnGists
  <2>1. NoAddress # a
      BY RegistryConstants DEF RP!SetAssumption
  <2>2. \A id \in GistRegistry!Id : Answer(id).author = a
                                      <=> id \in 1 .. gistCount /\ posted[id].author = a
    <3> TAKE id \in GistRegistry!Id
    <3>1. Answer(id).author = posted[id].author
        BY PairFacts DEF Answer
    <3>2. id \notin 1 .. gistCount => posted[id].author = NoAddress
        BY PairFacts
    <3> QED BY <2>1, <3>1, <3>2
  <2>3. VP!GistsBy(a) = {id \in GistRegistry!Id : Answer(id).author = a}
      BY Answers DEF VP!GistsBy
  <2>4. GistsOf(a) \subseteq GistRegistry!Id
    <3>1. gistCount =< MaxGists
        BY DEF PairInv, RP!IndexInv, RP!RegInv, RP!TypeOK
    <3> QED BY <3>1, PairFacts DEF GistsOf
  <2>5. VP!GistsBy(a) = GistsOf(a)
      BY <2>2, <2>3, <2>4 DEF GistsOf
  <2>6. pending[a] =< VP!SumFunctionOnSet(gistTotal, VP!GistsBy(a))
      BY DEF VP!OwedForOwnGists
  <2> QED BY <2>5, <2>6, SameSums
<1> QED BY <1>1, <1>2, PairKeepsRegistry, PTL

(* A gist that earns is one the registry still holds.                       *)
LEMMA EarnsWhileStored ==
    ASSUME PairInv, VP!TypeOK, VaultStep, NEW id \in 1 .. gistCount,
           gistTotal'[id] # gistTotal[id]
    PROVE  GistRegistry!Stored(id)
<1>1. id \in GistRegistry!Id
  <2>1. gistCount =< MaxGists
      BY DEF PairInv, RP!IndexInv, RP!RegInv, RP!TypeOK
  <2> QED BY <2>1, PairFacts
<1>2. PICK kind, tipper, items, key : VP!Pay(kind, tipper, items, key)
  <2>1. VP!VaultStep
      BY VaultStepShown
  <2>2. \A kind, tipper, items, key :
           VP!Replay(kind, tipper, items, key) => UNCHANGED gistTotal
      BY DEF VP!Replay, VP!accounts
  <2>3. (\E a \in Administrator, r \in {RegistryAddress} : VP!Initialize(a, r))
          \/ (\E a \in Account, r \in {RegistryAddress} : VP!SetRegistryAddress(a, r))
          \/ (\E a \in Account, bps \in FeeRate : VP!SetFeeBps(a, bps))
          \/ (\E a \in Account, t \in Treasury : VP!SetTreasury(a, t))
          \/ (\E a \in Account : VP!ClaimTips(a))
             => UNCHANGED gistTotal
      BY DEF VP!Initialize, VP!SetRegistryAddress, VP!SetFeeBps, VP!SetTreasury,
             VP!ClaimTips, VP!accounts
  <2> QED BY <2>1, <2>2, <2>3, Zenon DEF VP!VaultStep, VP!TipAuthor, VP!TipAuthors
<1>3. PICK i \in DOMAIN items : items[i].gist_id = id
  <2> SUFFICES ASSUME \A i \in DOMAIN items : items[i].gist_id # id PROVE FALSE
      OBVIOUS
  <2>1. gistTotal'[id] = gistTotal[id] + VP!GrossFor(items, id)
      BY <1>1, <1>2 DEF VP!Pay, VP!AddToGistTotals
  <2>2. VP!GrossFor(items, id) = 0
    <3>1. {i \in DOMAIN items : items[i].gist_id = id} = {}
        OBVIOUS
    <3> QED BY <3>1, SameSums, SumEmpty DEF VP!GrossFor
  <2>3. gistTotal[id] \in Nat
      BY <1>1 DEF VP!TypeOK
  <2> QED BY <2>1, <2>2, <2>3
<1>4. VP!Tippable(items[i]) /\ admin # NoAddress
    BY <1>2 DEF VP!Pay
<1>5. registry = RegistryAddress
    BY <1>4, Zenon DEF VP!TypeOK
<1>6. GetGist[registry][id].state = "stored"
    BY <1>3, <1>4 DEF VP!Tippable
<1>7. Answer(id).state = "stored"
    BY <1>1, <1>5, <1>6, Answers
<1> QED BY <1>1, <1>7 DEF Answer, GistRegistry!Stored

(* Earning ends with storage, and storage with the last ledger.             *)
THEOREM NothingEarnedLater == Spec => TipsEndWithStorage
<1>1. Spec => []VP!TypeOK
    BY DeployedSteps, VaultConstants, VP!TypeCorrect
<1>2. PairInv /\ VP!TypeOK /\ [Next]_vars
        => [\A id \in 1 .. gistCount :
               gistTotal'[id] # gistTotal[id] => seq =< LastLedger(id)]_vars
  <2> SUFFICES ASSUME PairInv, VP!TypeOK, [Next]_vars, NEW id \in 1 .. gistCount,
                      gistTotal'[id] # gistTotal[id]
               PROVE  seq =< LastLedger(id)
      OBVIOUS
  <2>1. VaultStep
      BY DEF Next, RegistryStep, CloseLedger, vars, vaultVars
  <2>2. GistRegistry!Stored(id)
      BY <2>1, EarnsWhileStored
  <2>3. gists[id] \in RP!Gist /\ RP!Timely(gists[id], posted[id])
      BY <2>2, PairFacts DEF GistRegistry!Stored
  <2>4. seq =< gists[id].until /\ gists[id].until =< LastLedger(id)
      BY <2>3, SameQueries DEF RP!Timely, LastLedger
  <2>5. seq \in Nat /\ gists[id].until \in Nat /\ LastLedger(id) \in Int
    <3>1. posted[id].seq \in Nat
        BY <2>2, SameQueries
           DEF GistRegistry!Stored, PairInv, RP!IndexInv, RP!RegInv, RP!TypeOK
    <3>2. GistRegistry!HoursToLedgerTtl(MAX_GIST_TTL_HOURS + 1) \in Nat
        BY RegistryConstants DEF RP!NumberAssumption, GistRegistry!HoursToLedgerTtl
    <3> QED BY <2>3, <3>1, <3>2, ClockFacts DEF RP!Gist, LastLedger
  <2> QED BY <2>4, <2>5
<1> QED BY <1>1, <1>2, PairKeepsRegistry, PTL DEF Spec, TipsEndWithStorage

(* The registry's promises, of which the vault is a mere reader.            *)
LEMMA SamePromises ==
    /\ RP!NoEarlyEviction => GistRegistry!NoEarlyEviction
    /\ RP!StorageBounded => GistRegistry!StorageBounded
    /\ RP!AuthorIndexComplete => GistRegistry!AuthorIndexComplete
<1>1. RP!NoEarlyEviction => GistRegistry!NoEarlyEviction
    BY SameQueries DEF RP!NoEarlyEviction, GistRegistry!NoEarlyEviction
<1>2. RP!StorageBounded => GistRegistry!StorageBounded
    BY SameQueries
       DEF RP!StorageBounded, GistRegistry!StorageBounded, RP!IsGistActive,
           GistRegistry!IsGistActive
<1>3. RP!AuthorIndexComplete => GistRegistry!AuthorIndexComplete
  <2>1. \A id : RP!LaterGists(id) = GistRegistry!LaterGists(id)
      BY DEF RP!LaterGists, GistRegistry!LaterGists
  <2>2. \A S : RP!Cardinality(S) = GistRegistry!Cardinality(S)
      BY DEF RP!Cardinality, GistRegistry!Cardinality
  <2>3. \A s : RP!ToSet(s) = GistRegistry!ToSet(s)
      BY DEF RP!ToSet, GistRegistry!ToSet
  <2>4. \A s, S : RP!Filter(s, S) = GistRegistry!Filter(s, S)
      BY DEF RP!Filter, GistRegistry!Filter
  <2>5. \A s, l, o : RP!PageOf(s, l, o) = GistRegistry!PageOf(s, l, o)
      BY DEF RP!PageOf, GistRegistry!PageOf
  <2>6. \A a, l, o : RP!GetGistsByAuthor(a, l, o) = GistRegistry!GetGistsByAuthor(a, l, o)
      BY SameQueries, <2>4, <2>5, Zenon
         DEF RP!GetGistsByAuthor, GistRegistry!GetGistsByAuthor
  <2> QED BY SameQueries, <2>1, <2>2, <2>3, <2>6
          DEF RP!AuthorIndexComplete, GistRegistry!AuthorIndexComplete
<1> QED BY <1>1, <1>2, <1>3

(* Tips and claims between the registry's calls break none of its promises: *)
(* no gist goes early, none stays late, and every stored one is listed.     *)
THEOREM DeployedRegistryKeepsPromises ==
    Spec => [](/\ GistRegistry!NoEarlyEviction
               /\ GistRegistry!StorageBounded
               /\ GistRegistry!AuthorIndexComplete)
<1>1. PairInv => /\ GistRegistry!NoEarlyEviction
                 /\ GistRegistry!StorageBounded
                 /\ GistRegistry!AuthorIndexComplete
  <2> SUFFICES ASSUME PairInv
               PROVE  /\ GistRegistry!NoEarlyEviction
                      /\ GistRegistry!StorageBounded
                      /\ GistRegistry!AuthorIndexComplete
      OBVIOUS
  <2>1. RP!IndexInv /\ RP!RegInv
      BY DEF PairInv, RP!IndexInv
  <2>2. RP!NoEarlyEviction /\ RP!StorageBounded /\ RP!AuthorIndexComplete
      BY <2>1, RegistryConstants, RP!TimelyNotEarly, RP!TimelyIsBounded, RP!IndexedIsListed
  <2> QED BY <2>2, SamePromises
<1> QED BY <1>1, PairKeepsRegistry, PTL

(* And no closed gist reopens, nor does an evicted one come back.           *)
THEOREM DeployedClosedStaysClosed == Spec => GistRegistry!ClosedStaysClosed
<1>1. PairInv /\ [Next]_vars =>
        [\A id \in 1 .. gistCount :
            /\ ~ GistRegistry!Stored(id) => ~ GistRegistry!Stored(id)'
            /\ GistRegistry!Stored(id) /\ ~ gists[id].is_active
                 => ~ GistRegistry!IsGistActive(id)']_(GistRegistry!vars)
  <2> SUFFICES ASSUME PairInv, [Next]_vars, NEW id \in 1 .. gistCount
               PROVE  /\ ~ GistRegistry!Stored(id) => ~ GistRegistry!Stored(id)'
                      /\ GistRegistry!Stored(id) /\ ~ gists[id].is_active
                           => ~ GistRegistry!IsGistActive(id)'
      OBVIOUS
  <2>1. CASE VaultStep \/ UNCHANGED vars
    <3>1. gists' = gists
        BY <2>1, VaultLeavesClock DEF vars, registryVars
    <3> QED BY <3>1 DEF GistRegistry!Stored, GistRegistry!IsGistActive
  <2>2. CASE RegistryStep \/ \E d \in LedgerSeconds : CloseLedger(d)
    <3>1. RP!Next
        BY <2>2, SameRegistry, SameTransactions DEF RegistryStep, CloseLedger
    <3>2. RP!RegInv
        BY DEF PairInv, RP!IndexInv
    <3>3. /\ ~ RP!Stored(id) => ~ RP!Stored(id)'
          /\ RP!Stored(id) /\ ~ gists[id].is_active => ~ RP!IsGistActive(id)'
        BY <3>1, <3>2, RegistryConstants, RP!ClosedStep
    <3> QED BY <3>3 DEF RP!Stored, RP!IsGistActive, RP!Id, GistRegistry!Stored,
                        GistRegistry!IsGistActive, GistRegistry!Id
  <2> QED BY <2>1, <2>2 DEF Next
<1> QED BY <1>1, PairKeepsRegistry, PTL DEF Spec, GistRegistry!ClosedStaysClosed

(* What the vault's own module says of it is what its theorems say.         *)
LEMMA SameVaultPromises ==
    /\ VP!AtMostOncePerWindow => VaultView!AtMostOncePerWindow
    /\ VP!BalanceInvariant => VaultView!BalanceInvariant
    /\ VP!GrossAccounted => VaultView!GrossAccounted
    /\ VP!FeeCap => VaultView!FeeCap
<1>1. \A f, S : VP!SumFunctionOnSet(f, S) = VaultView!SumFunctionOnSet(f, S)
    BY Zenon DEF VP!SumFunctionOnSet, VP!FoldFunctionOnSet, VP!MapThenFoldSet,
       VaultView!SumFunctionOnSet, VaultView!FoldFunctionOnSet, VaultView!MapThenFoldSet
<1>2. VP!Owed = VaultView!Owed
    BY <1>1 DEF VP!Owed, VaultView!Owed
<1>3. \A accts : VP!Gains(accts) = VaultView!Gains(accts)
    BY <1>1, Zenon DEF VP!Gains, VP!Address, VaultView!Gains, VaultView!Address
<1>4. VP!AtMostOncePerWindow => VaultView!AtMostOncePerWindow
    BY DEF VP!AtMostOncePerWindow, VaultView!AtMostOncePerWindow
<1>5. VP!BalanceInvariant => VaultView!BalanceInvariant
    BY <1>2 DEF VP!BalanceInvariant, VaultView!BalanceInvariant
<1>6. VP!GrossAccounted => VaultView!GrossAccounted
    BY <1>1, <1>2, <1>3, Zenon DEF VP!GrossAccounted, VaultView!GrossAccounted
<1>7. VP!FeeCap => VaultView!FeeCap
    BY <1>1, <1>3, Zenon DEF VP!FeeCap, VaultView!FeeCap
<1> QED BY <1>4, <1>5, <1>6, <1>7

(* The deployed vault moves money at most once per key in 48 hours of the   *)
(* ledgers it shares with the registry.                                     *)
THEOREM DeployedKeysAreSingleUse == Spec => []VaultView!AtMostOncePerWindow
<1>1. Spec => []VP!AtMostOncePerWindow
    BY DeployedSteps, VaultConstants, VP!KeysAreSingleUse
<1> QED BY <1>1, SameVaultPromises, PTL

(* The accounts that tip, post and collect fees are different ones.         *)
PartiesApart ==
    /\ Vault \notin Treasury /\ Author \cap Treasury = {}
    /\ Tipper \cap Author = {} /\ Tipper \cap Treasury = {}

(* Then every unit tipped to the registry's gists is pending, claimed by an *)
(* author or in a treasury, treasuries have no more than their cap, and the *)
(* vault holds what docs/SECURITY.md says it holds.                         *)
THEOREM DeployedMoneyAccounted ==
    ASSUME PartiesApart, InitialBalance[Vault] = 0
    PROVE  Spec => [](/\ VaultView!GrossAccounted /\ VaultView!FeeCap
                      /\ VaultView!BalanceInvariant)
<1>1. VP!Apart /\ Vault \notin Treasury
    BY DEF VP!Apart, PartiesApart
<1>2. Spec => []VP!GrossAccounted
    BY <1>1, DeployedSteps, VaultConstants, VP!GrossIsAccountedFor
<1>3. Spec => []VP!FeeCap
    BY <1>1, DeployedSteps, VaultConstants, VP!FeesAreCapped
<1>4. Spec => []VP!BalanceInvariant
    BY <1>1, DeployedSteps, VaultConstants, VP!BalanceExact
<1> QED BY <1>2, <1>3, <1>4, SameVaultPromises, PTL

(* Of the pair's one event stream, the vault's two event types explain what *)
(* each transaction did to the vault's storage: closing and posting gists   *)
(* moves nothing, and what moves money tells how much.                      *)
THEOREM DeployedEventsExplain == Spec => VaultView!EventsReconcile
<1>1. Spec => VP!EventsReconcile
    BY DeployedSteps, VaultConstants, VP!EventsExplainStorage
<1>2. [/\ \A a \in Account : pending'[a] = pending[a] + VP!NetEmitted(a)'
       /\ \A g \in GistRegistry!Id :
             gistTotal'[g] = gistTotal[g] + VP!GrossEmitted(g)']_(VP!vars)
        => [/\ \A a \in Account : pending'[a] = pending[a] + VaultView!NetEmitted(a)'
            /\ \A g \in GistRegistry!Id :
                  gistTotal'[g] = gistTotal[g] + VaultView!GrossEmitted(g)']_(VaultView!vars)
  <2>1. \A f, S : VP!SumFunctionOnSet(f, S) = VaultView!SumFunctionOnSet(f, S)
      BY Zenon DEF VP!SumFunctionOnSet, VP!FoldFunctionOnSet, VP!MapThenFoldSet,
         VaultView!SumFunctionOnSet, VaultView!FoldFunctionOnSet, VaultView!MapThenFoldSet
  <2> QED BY <2>1, SameView, Zenon
             DEF VP!NetEmitted, VP!GrossEmitted, VaultView!NetEmitted, VaultView!GrossEmitted
<1> QED BY <1>1, <1>2, PTL DEF VP!EventsReconcile, VaultView!EventsReconcile
=============================================================================
