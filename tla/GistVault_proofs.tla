-------------------------- MODULE GistVault_proofs --------------------------
(***************************************************************************)
(* Theorems about the tipping vault, for every value of its constants.     *)
(***************************************************************************)
EXTENDS GistVault, DataLemmas, FiniteSetTheorems, TLAPS

(* A fee is never negative and never more than the tip.                     *)
LEMMA FeeBounds ==
    ASSUME TypeOK, NEW x \in Nat
    PROVE  Fee(x) \in 0 .. x
<1>1. feeBps \in Nat /\ feeBps =< BPS_DENOMINATOR /\ BPS_DENOMINATOR \in Nat \ {0}
    BY NumberAssumption DEF TypeOK
<1>2. CASE feeBps = 0
    BY <1>2 DEF Fee
<1>3. CASE feeBps > 0
  <2> DEFINE p == x * feeBps
             q == p \div BPS_DENOMINATOR
  <2>1. p \in Nat /\ p =< x * BPS_DENOMINATOR
      BY <1>1
  <2>2. q \in Int /\ q * BPS_DENOMINATOR =< p /\ p < (q + 1) * BPS_DENOMINATOR
    <3> HIDE DEF p
    <3> QED BY <1>1, <2>1
  <2>3. Fee(x) = q
      BY <1>3 DEF Fee
  <2> HIDE DEF p, q
  <2>4. q >= 0
      BY <1>1, <2>1, <2>2
  <2>5. q =< x
      BY <1>1, <2>1, <2>2
  <2> QED BY <2>2, <2>3, <2>4, <2>5
<1> QED BY <1>1, <1>2, <1>3

(* A covered transfer keeps balances natural numbers and moves its amount.  *)
LEMMA TransferEffect ==
    ASSUME NEW b \in [Address -> Nat], NEW x \in Address, NEW y \in Address,
           NEW n \in Nat, n =< b[x]
    PROVE  /\ Transfer(b, x, y, n) \in [Address -> Nat]
           /\ x = y => Transfer(b, x, y, n) = b
           /\ x # y => /\ Transfer(b, x, y, n)[x] = b[x] - n
                       /\ Transfer(b, x, y, n)[y] = b[y] + n
<1>1. CASE x = y
    BY <1>1 DEF Transfer
<1>2. CASE x # y
    BY <1>2 DEF Transfer
<1> QED BY <1>1, <1>2

(* The split of a payment: gross, fees and nets are natural numbers, the    *)
(* nets credited to all authors are the gross without the fees, and there   *)
(* are fees only when a rate is set.                                        *)
LEMMA Split ==
    ASSUME TypeOK, NEW items \in Seq(Item),
           \A i \in DOMAIN items : items[i].amount > 0
    PROVE  /\ Gross(items) \in Nat /\ Fees(items) \in 0 .. Gross(items)
           /\ \A a \in Account : NetTo(items, a) \in Nat
           /\ \A g \in GistId : GrossFor(items, g) \in Nat
           /\ SumFunctionOnSet([a \in Account |-> NetTo(items, a)], Account)
                = Gross(items) - Fees(items)
           /\ Fees(items) > 0 => feeBps > 0
<1> DEFINE D == DOMAIN items
           gross == [i \in D |-> items[i].amount]
           fee == [i \in D |-> Fee(items[i].amount)]
           net == [i \in D |-> Net(items[i].amount)]
           to == [i \in D |-> items[i].recipient]
<1>1. D = 1 .. Len(items) /\ IsFiniteSet(D)
    BY FS_Interval
<1>2. \A i \in D : items[i].amount \in Nat /\ items[i].recipient \in Account
  <2>1. \A i \in D : items[i] \in Item
      OBVIOUS
  <2> QED BY <2>1 DEF Item
<1>3. \A i \in D : /\ gross[i] \in Nat /\ fee[i] \in Nat /\ net[i] \in Nat
                    /\ gross[i] = fee[i] + net[i]
                    /\ to[i] \in Account
  <2> TAKE i \in D
  <2>1. Fee(items[i].amount) \in 0 .. items[i].amount
      BY <1>2, FeeBounds
  <2> QED BY <1>2, <2>1 DEF Net
<1>4. \A T \in SUBSET D : IsFiniteSet(T)
    BY <1>1, FS_Subset
<1>5. /\ Gross(items) = SumFunctionOnSet(gross, D)
      /\ Fees(items) = SumFunctionOnSet(fee, D)
      /\ \A a \in Account :
            NetTo(items, a) = SumFunctionOnSet(net, Part(D, to, a))
      /\ \A g \in GistId :
            GrossFor(items, g)
              = SumFunctionOnSet(gross, {i \in D : items[i].gist_id = g})
  <2>1. \A a \in Account : {i \in D : items[i].recipient = a} = {i \in D : to[i] = a}
      OBVIOUS
  <2> QED BY <2>1 DEF Gross, Fees, NetTo, GrossFor, Part
<1>6. feeBps = 0 => SumFunctionOnSet(fee, D) = 0
  <2>1. feeBps = 0 => \A i \in D : fee[i] = 0
      BY DEF Fee
  <2> HIDE DEF fee, D
  <2> QED BY <1>1, <2>1, SumZero
<1> DEFINE credit == [a \in Account |-> NetTo(items, a)]
<1>7. \A a \in Account : credit[a] = SumFunctionOnSet(net, Part(D, to, a))
    BY <1>5
<1> HIDE DEF gross, fee, net, to, D, credit
<1>8. /\ SumFunctionOnSet(gross, D) \in Nat
      /\ SumFunctionOnSet(fee, D) \in Nat
      /\ SumFunctionOnSet(net, D) \in Nat
    BY <1>1, <1>3, SumNat
<1>9. SumFunctionOnSet(gross, D)
        = SumFunctionOnSet(fee, D) + SumFunctionOnSet(net, D)
    BY <1>1, <1>3, SumAdd
<1>10. \A a \in Account : NetTo(items, a) \in Nat
  <2> TAKE a \in Account
  <2> DEFINE T == Part(D, to, a)
  <2>1. IsFiniteSet(T) /\ \A i \in T : net[i] \in Nat
      BY <1>3, <1>4 DEF Part
  <2> HIDE DEF T
  <2>2. SumFunctionOnSet(net, T) \in Nat
      BY <2>1, SumNat
  <2> QED BY <1>5, <2>2 DEF T
<1>11. \A g \in GistId : GrossFor(items, g) \in Nat
  <2> TAKE g \in GistId
  <2> DEFINE T == {i \in D : items[i].gist_id = g}
  <2>1. IsFiniteSet(T) /\ \A i \in T : gross[i] \in Nat
      BY <1>3, <1>4
  <2> HIDE DEF T
  <2>2. SumFunctionOnSet(gross, T) \in Nat
      BY <2>1, SumNat
  <2> QED BY <1>5, <2>2 DEF T
<1>12. SumFunctionOnSet([a \in Account |-> NetTo(items, a)], Account)
         = SumFunctionOnSet(net, D)
  <2>1. /\ IsFiniteSet(D) /\ IsFiniteSet(Account)
        /\ \A i \in D : net[i] \in Int
        /\ \A i \in D : to[i] \in Account
      BY <1>1, <1>3, AccountAssumption
  <2>2. SumFunctionOnSet(credit, Account) = SumFunctionOnSet(net, D)
      BY <1>7, <2>1, SumByGroup
  <2> QED BY <2>2 DEF credit
<1>13. feeBps \in Nat
    BY NumberAssumption DEF TypeOK
<1> QED BY <1>5, <1>6, <1>8, <1>9, <1>10, <1>11, <1>12, <1>13

(* What a payment does to the balances: they stay natural numbers, and the  *)
(* vault keeps at least what it credits to authors; it keeps more only      *)
(* when it is its own treasury.                                             *)
LEMMA PayBalances ==
    ASSUME TypeOK, NEW items \in Seq(Item), NEW tipper \in Account,
           NEW key \in Key, NEW kind, Pay(kind, tipper, items, key)
    PROVE  /\ balance' \in [Address -> Nat]
           /\ balance'[Vault] >= balance[Vault] + (Gross(items) - Fees(items))
           /\ Vault \notin Treasury =>
                 balance'[Vault] = balance[Vault] + (Gross(items) - Fees(items))
<1> DEFINE gross == Gross(items)
           fees == Fees(items)
           escrowed == Transfer(balance, tipper, Vault, gross)
<1>1. \A i \in DOMAIN items : items[i].amount > 0
    BY DEF Pay
<1>2. gross \in Nat /\ fees \in 0 .. gross /\ (fees > 0 => feeBps > 0)
    BY <1>1, Split
<1>3. tipper \in Address /\ Vault \in Address /\ tipper # Vault
    BY AccountAssumption DEF Address
<1>4. balance \in [Address -> Nat] /\ gross =< balance[tipper]
    BY DEF TypeOK, Pay
<1>5. balance' = IF fees > 0 THEN Transfer(escrowed, Vault, treasury, fees) ELSE escrowed
    BY DEF Pay, SplitFunds
<1>6. fees > 0 => treasury \in Treasury /\ treasury \in Address
    BY <1>2, AccountAssumption DEF Pay, TypeOK
<1> HIDE DEF gross, fees
<1>7. /\ escrowed \in [Address -> Nat]
      /\ escrowed[Vault] = balance[Vault] + gross
    BY <1>2, <1>3, <1>4, TransferEffect
<1>8. balance[Vault] \in Nat
    BY <1>3, <1>4
<1> HIDE DEF escrowed
<1>9. CASE fees > 0
  <2>1. /\ treasury \in Address /\ treasury \in Treasury
        /\ fees \in Nat /\ fees =< escrowed[Vault]
        /\ balance' = Transfer(escrowed, Vault, treasury, fees)
      BY <1>2, <1>5, <1>6, <1>7, <1>8, <1>9
  <2>2. balance' \in [Address -> Nat]
      BY <1>3, <1>7, <2>1, TransferEffect
  <2>3. balance'[Vault] = IF treasury = Vault THEN escrowed[Vault]
                          ELSE escrowed[Vault] - fees
      BY <1>3, <1>7, <2>1, TransferEffect, SMTT(30)
  <2> QED BY <1>2, <1>7, <1>8, <2>1, <2>2, <2>3 DEF gross, fees
<1>10. CASE ~ (fees > 0)
    BY <1>2, <1>5, <1>7, <1>8, <1>10 DEF gross, fees
<1> QED BY <1>9, <1>10

(* What a payment does to the debts: they only grow, together by the gross  *)
(* without the fees.                                                        *)
LEMMA PayDebts ==
    ASSUME TypeOK, NEW items \in Seq(Item), NEW tipper \in Account,
           NEW key \in Key, NEW kind, Pay(kind, tipper, items, key)
    PROVE  /\ pending' \in [Account -> Nat]
           /\ gistTotal' \in [GistId -> Nat]
           /\ \A a \in Account : pending'[a] >= pending[a]
           /\ Owed' = Owed + (Gross(items) - Fees(items))
<1> DEFINE credit == [a \in Account |-> NetTo(items, a)]
<1>1. \A i \in DOMAIN items : items[i].amount > 0
    BY DEF Pay
<1>2. /\ \A a \in Account : NetTo(items, a) \in Nat
      /\ \A g \in GistId : GrossFor(items, g) \in Nat
      /\ SumFunctionOnSet(credit, Account) = Gross(items) - Fees(items)
    BY <1>1, Split
<1>3. pending \in [Account -> Nat] /\ gistTotal \in [GistId -> Nat]
    BY DEF TypeOK
<1>4. /\ pending' = [a \in Account |-> pending[a] + NetTo(items, a)]
      /\ gistTotal' = [g \in GistId |-> gistTotal[g] + GrossFor(items, g)]
    BY DEF Pay, Credit, AddToGistTotals
<1>5. /\ pending' \in [Account -> Nat] /\ gistTotal' \in [GistId -> Nat]
      /\ \A a \in Account : pending'[a] >= pending[a]
    BY <1>2, <1>3, <1>4
<1>6. \A a \in Account : /\ pending[a] \in Int /\ credit[a] \in Int
                          /\ pending'[a] = pending[a] + credit[a]
    BY <1>2, <1>3, <1>4
<1> HIDE DEF credit
<1>7. SumFunctionOnSet(pending', Account)
        = SumFunctionOnSet(pending, Account) + SumFunctionOnSet(credit, Account)
    BY <1>6, SumAdd, AccountAssumption
<1> QED BY <1>2, <1>5, <1>7 DEF Owed

-----------------------------------------------------------------------------
(* Type correctness.                                                        *)

(* A record lives for a natural number of ledgers.                          *)
LEMMA RecordTtlType == RecordTtl \in Nat
<1>1. \A x, y \in Nat : x * y \in Nat
    OBVIOUS
<1> QED BY <1>1, NumberAssumption DEF RecordTtl

(* A payment keeps every variable's type.                                   *)
LEMMA PayType ==
    ASSUME TypeOK, NEW items \in Seq(Item), NEW tipper \in Account, NEW key \in Key,
           NEW kind \in {"single", "batch"}, Pay(kind, tipper, items, key)
    PROVE  TypeOK'
<1>1. /\ balance' \in [Address -> Nat]
      /\ pending' \in [Account -> Nat] /\ gistTotal' \in [GistId -> Nat]
    BY PayBalances, PayDebts
<1>2. records' \in [Key -> TipRecord \cup {NoRecord}]
  <2>1. seq + RecordTtl \in Nat
      BY RecordTtlType, NumberAssumption DEF TypeOK
  <2> QED BY <2>1 DEF Pay, TypeOK, TipRecord
<1>3. emitted' \in Seq(Event)
  <2>1. \A i \in 1 .. Len(items) : TippedEvent(items[i]) \in Event
    <3> TAKE i \in 1 .. Len(items)
    <3>1. items[i] \in Item /\ items[i].amount > 0
        BY DEF Pay
    <3>2. items[i].amount \in Nat
        BY <3>1 DEF Item
    <3>3. Fee(items[i].amount) \in 0 .. items[i].amount
        BY <3>2, FeeBounds
    <3>4. Net(items[i].amount) \in Int
        BY <3>2, <3>3 DEF Net
    <3> QED BY <3>1, <3>2, <3>3, <3>4 DEF TippedEvent, Event, Item
  <2>2. emitted' = [i \in 1 .. Len(items) |-> TippedEvent(items[i])]
      BY DEF Pay
  <2> HIDE DEF Event
  <2> QED BY <2>1, <2>2
<1>4. uses' \in [Key -> Seq(Nat)]
  <2>1. seq \in Nat /\ uses[key] \in Seq(Nat)
      BY NumberAssumption DEF TypeOK
  <2>2. Append(uses[key], seq) \in Seq(Nat)
      BY <2>1
  <2> QED BY <2>2 DEF Pay, TypeOK
<1>5. UNCHANGED <<admin, registry, feeBps, treasury, gists, seq>>
    BY DEF Pay, config
<1>6. /\ \A a \in Account : pending'[a] =< MaxI128
      /\ \A g \in GistId : gistTotal'[g] =< MaxI128
  <2>1. NoOverflow(items) /\ Credit(items) /\ AddToGistTotals(items)
      BY DEF Pay
  <2> QED BY <2>1 DEF NoOverflow, Credit, AddToGistTotals
<1> QED BY <1>1, <1>2, <1>3, <1>4, <1>5, <1>6 DEF TypeOK

(* So does a replay, which changes only the events.                         *)
LEMMA ReplayType ==
    ASSUME TypeOK, NEW items, NEW tipper, NEW key, NEW kind,
           Replay(kind, tipper, items, key)
    PROVE  TypeOK'
<1>1. /\ emitted' \in Seq(Event)
      /\ UNCHANGED <<config, accounts, gists, seq>>
    BY DEF Replay
<1> QED BY <1>1 DEF TypeOK, config, accounts

(* A single tip is a payment or a replay of a sequence of one item.         *)
LEMMA SingleTip ==
    ASSUME NEW a \in Account, NEW g \in GistId, NEW x \in Amount
    PROVE  <<[recipient |-> a, gist_id |-> g, amount |-> x]>> \in Seq(Item)
<1>1. [recipient |-> a, gist_id |-> g, amount |-> x] \in Item
    BY InputAssumption DEF Item
<1> HIDE DEF Item
<1> QED BY <1>1

(* And a claim, which the vault's balance covers.                           *)
LEMMA ClaimType ==
    ASSUME TypeOK, NEW a \in Account, ClaimTips(a)
    PROVE  TypeOK'
<1>1. a \in Address /\ Vault \in Address /\ pending[a] \in Nat
    BY DEF Address, TypeOK
<1>2. balance' \in [Address -> Nat]
    BY <1>1, TransferEffect DEF ClaimTips, TypeOK
<1>3. /\ pending' \in [Account -> Nat]
      /\ \A b \in Account : pending'[b] =< MaxI128
    BY NumberAssumption DEF ClaimTips, TypeOK
<1>4. emitted' \in Seq(Event)
  <2>1. [type |-> "claimed", recipient |-> a, amount |-> pending[a]] \in Event
      BY <1>1 DEF Event
  <2> HIDE DEF Event
  <2> QED BY <2>1 DEF ClaimTips
<1>5. UNCHANGED <<admin, registry, feeBps, treasury, gistTotal, records, uses, gists, seq>>
    BY DEF ClaimTips, config
<1> QED BY <1>2, <1>3, <1>4, <1>5 DEF TypeOK

(* Every step of the vault and of its surroundings preserves the type       *)
(* invariant.                                                               *)
LEMMA TypeStep == TypeOK /\ [Next]_vars => TypeOK'
<1> SUFFICES ASSUME TypeOK, [Next]_vars PROVE TypeOK'
    OBVIOUS
<1> USE DEF config, accounts
<1>1. ASSUME NEW a \in Administrator, NEW r \in Registry, Initialize(a, r)
      PROVE  TypeOK'
    BY <1>1, AccountAssumption DEF Initialize, TypeOK, Address
<1>2. ASSUME NEW a \in Account, NEW r \in Registry, SetRegistryAddress(a, r)
      PROVE  TypeOK'
    BY <1>2, AccountAssumption DEF SetRegistryAddress, EnsureAdmin, TypeOK, Address
<1>3. ASSUME NEW a \in Account, NEW bps \in FeeRate, SetFeeBps(a, bps)
      PROVE  TypeOK'
    BY <1>3, InputAssumption, NumberAssumption DEF SetFeeBps, TypeOK
<1>4. ASSUME NEW a \in Account, NEW t \in Treasury, SetTreasury(a, t)
      PROVE  TypeOK'
    BY <1>4 DEF SetTreasury, TypeOK
<1>5. ASSUME NEW t \in Tipper, NEW a \in Account, NEW g \in GistId,
             NEW x \in Amount, NEW k \in Key, TipAuthor(t, a, g, x, k)
      PROVE  TypeOK'
  <2>1. t \in Account
      BY AccountAssumption
  <2> QED BY <1>5, <2>1, SingleTip, PayType, ReplayType DEF TipAuthor
<1>6. ASSUME NEW t \in Tipper, NEW b \in Batches, NEW k \in Key, TipAuthors(t, b, k)
      PROVE  TypeOK'
  <2>1. t \in Account /\ b \in Seq(Item)
      BY AccountAssumption, InputAssumption
  <2> QED BY <1>6, <2>1, PayType, ReplayType DEF TipAuthors
<1>7. ASSUME NEW a \in Account, ClaimTips(a)
      PROVE  TypeOK'
    BY <1>7, ClaimType
<1>8. ASSUME \/ \E r \in Registry, g \in GistId, a \in Author : PostGist(r, g, a)
             \/ \E r \in Registry, ids \in SUBSET GistId : ExpireGists(r, ids)
             \/ OtherTransaction
      PROVE  TypeOK'
  <2>1. gists \in [Registry -> [GistId -> Gist]]
      BY DEF TypeOK
  <2>2. ASSUME NEW r \in Registry, NEW g \in GistId, NEW a \in Author, PostGist(r, g, a)
        PROVE  gists' \in [Registry -> [GistId -> Gist]]
    <3>1. [state |-> "stored", author |-> a, is_active |-> TRUE] \in Gist
        BY AccountAssumption DEF Gist
    <3> HIDE DEF Gist
    <3> QED BY <2>1, <2>2, <3>1 DEF PostGist
  <2>3. ASSUME NEW r \in Registry, NEW ids \in SUBSET GistId, ExpireGists(r, ids)
        PROVE  gists' \in [Registry -> [GistId -> Gist]]
    <3>1. ASSUME NEW g \in GistId
          PROVE  [gists[r][g] EXCEPT !.is_active = FALSE] \in Gist
      <4>1. gists[r][g] \in Gist
          BY <2>1
      <4> QED BY <4>1 DEF Gist
    <3> HIDE DEF Gist
    <3> QED BY <2>1, <2>3, <3>1 DEF ExpireGists
  <2>4. gists' \in [Registry -> [GistId -> Gist]]
      BY <1>8, <2>1, <2>2, <2>3 DEF OtherTransaction
  <2>5. /\ emitted' = <<>>
        /\ UNCHANGED <<config, accounts, seq>>
      BY <1>8 DEF PostGist, ExpireGists, OtherTransaction
  <2> QED BY <2>4, <2>5 DEF TypeOK
<1>9. ASSUME NEW a \in Account, NEW x \in Donation, DirectTransfer(a, x)
      PROVE  TypeOK'
  <2>1. a \in Address /\ Vault \in Address /\ x \in Nat
      BY InputAssumption DEF Address
  <2>2. balance' \in [Address -> Nat]
      BY <1>9, <2>1, TransferEffect DEF DirectTransfer, TypeOK
  <2> QED BY <1>9, <2>2 DEF DirectTransfer, TypeOK
<1>10. ASSUME NEW lost \in SUBSET (Registry \X GistId), CloseLedger(lost)
       PROVE  TypeOK'
  <2>1. records' \in [Key -> TipRecord \cup {NoRecord}]
    <3> HIDE DEF TipRecord
    <3> QED BY <1>10 DEF CloseLedger, EvictRecords, TypeOK
  <2>2. gists' \in [Registry -> [GistId -> Gist]]
    <3>1. \A gist \in Gist : Evicted(gist) \in Gist
        BY DEF Evicted, Gist
    <3> HIDE DEF Gist
    <3> QED BY <1>10, <3>1 DEF CloseLedger, TypeOK
  <2>3. seq' \in 0 .. MaxLedger
      BY <1>10, NumberAssumption DEF CloseLedger, TypeOK
  <2> QED BY <1>10, <2>1, <2>2, <2>3 DEF CloseLedger, TypeOK
<1>11. CASE UNCHANGED vars
    BY <1>11 DEF vars, TypeOK
<1> QED BY <1>1, <1>2, <1>3, <1>4, <1>5, <1>6, <1>7, <1>8, <1>9, <1>10, <1>11
        DEF Next, VaultStep, EnvironmentStep

(* The types hold of a vault that is not used yet.                          *)
LEMMA TypeInit == Init => TypeOK
<1> SUFFICES ASSUME Init PROVE TypeOK
    OBVIOUS
<1>1. Unposted \in Gist
    BY DEF Unposted, Gist
<1>2. gists \in [Registry -> [GistId -> Gist]]
  <2> HIDE DEF Gist
  <2> QED BY <1>1 DEF Init
<1> QED BY <1>2, InputAssumption, NumberAssumption DEF Init, TypeOK

(* The vault's variables keep their types, whatever is called, by whom, and *)
(* in which order: balances and debts never go negative, and the fee rate   *)
(* never passes its cap.                                                    *)
THEOREM TypeCorrect == Spec => []TypeOK
BY TypeInit, TypeStep, PTL DEF Spec

-----------------------------------------------------------------------------
(* The vault is an escrow, and solvent.                                     *)

(* Both modules mean the same sum.                                          *)
LEMMA SameSum ==
    ASSUME NEW f, NEW S
    PROVE  Escrow!SumFunctionOnSet(f, S) = SumFunctionOnSet(f, S)
<1> QED BY Zenon DEF SumFunctionOnSet, FoldFunctionOnSet, MapThenFoldSet,
           Escrow!SumFunctionOnSet, Escrow!FoldFunctionOnSet, Escrow!MapThenFoldSet

(* A payment takes on no more debt than the vault receives.                 *)
LEMMA PayIsDeposit ==
    ASSUME TypeOK, NEW items \in Seq(Item), NEW tipper \in Account, NEW key \in Key,
           NEW kind, Pay(kind, tipper, items, key)
    PROVE  Escrow!Deposit
<1>1. /\ balance' \in [Address -> Nat] /\ balance \in [Address -> Nat]
      /\ balance'[Vault] >= balance[Vault] + (Gross(items) - Fees(items))
    BY PayBalances DEF TypeOK
<1>2. /\ pending' \in [Account -> Nat]
      /\ \A a \in Account : pending'[a] >= pending[a]
      /\ Owed' = Owed + (Gross(items) - Fees(items))
    BY PayDebts
<1>3. Gross(items) \in Nat /\ Fees(items) \in Nat
  <2>1. \A i \in DOMAIN items : items[i].amount > 0
      BY DEF Pay
  <2>2. Gross(items) \in Nat /\ Fees(items) \in 0 .. Gross(items)
      BY <2>1, Split
  <2> QED BY <2>2
<1>4. pending \in [Account -> Nat] /\ \A a \in Account : pending[a] \in Nat
    BY DEF TypeOK
<1>5. Owed \in Nat
    BY <1>4, SumNat, AccountAssumption DEF Owed
<1>6. balance[Vault] \in Nat /\ balance'[Vault] \in Nat
    BY <1>1 DEF Address
<1>7. balance'[Vault] - balance[Vault] >= Owed' - Owed
    BY <1>1, <1>2, <1>3, <1>5, <1>6, SMTT(30)
<1>8. Escrow!TotalOwed = Owed /\ Escrow!TotalOwed' = Owed'
    BY SameSum DEF Escrow!TotalOwed, Owed
<1> QED BY <1>1, <1>2, <1>7, <1>8 DEF Escrow!Deposit, Address

(* A claim pays one author all of what the vault owes that author.          *)
LEMMA ClaimIsWithdraw ==
    ASSUME TypeOK, NEW a \in Account, ClaimTips(a)
    PROVE  Escrow!Withdraw(a)
<1>1. a # Vault
    BY AccountAssumption
<1> QED BY <1>1 DEF ClaimTips, Transfer, Escrow!Withdraw

(* Tokens that arrive without a call back no debt, and take on none.        *)
LEMMA DirectTransferIsDeposit ==
    ASSUME TypeOK, NEW a \in Account, NEW x \in Donation, DirectTransfer(a, x)
    PROVE  Escrow!Deposit
<1>1. a \in Address /\ Vault \in Address /\ a # Vault /\ x \in Nat
    BY AccountAssumption, InputAssumption DEF Address
<1>2. /\ balance \in [Address -> Nat] /\ balance' \in [Address -> Nat]
      /\ balance'[Vault] = balance[Vault] + x
  <2>1. /\ balance \in [Address -> Nat] /\ x =< balance[a]
        /\ balance' = Transfer(balance, a, Vault, x)
      BY DEF DirectTransfer, TypeOK
  <2> QED BY <1>1, <2>1, TransferEffect
<1>3. pending' = pending /\ pending \in [Account -> Nat]
    BY DEF DirectTransfer, TypeOK
<1>4. \A a_1 \in Account : pending[a_1] \in Nat
    BY <1>3
<1>5. Owed \in Nat
    BY <1>4, SumNat, AccountAssumption DEF Owed
<1>6. Escrow!TotalOwed = Owed /\ Escrow!TotalOwed' = Owed
    BY <1>3, SameSum DEF Escrow!TotalOwed, Owed
<1>7. balance[Vault] \in Nat
    BY <1>1, <1>2
<1>8. balance'[Vault] - balance[Vault] >= Escrow!TotalOwed' - Escrow!TotalOwed
    BY <1>1, <1>2, <1>5, <1>6, <1>7
<1> QED BY <1>2, <1>3, <1>4, <1>8 DEF Escrow!Deposit, Address

(* Every step is a deposit, a withdrawal, or leaves debts and tokens alone. *)
LEMMA EscrowStep ==
    TypeOK /\ [Next]_vars => [Escrow!Next]_<<pending, balance>>
<1> SUFFICES ASSUME TypeOK, [Next]_vars
             PROVE  [Escrow!Next]_<<pending, balance>>
    OBVIOUS
<1> USE DEF config, accounts
<1>1. ASSUME NEW a \in Account, NEW r \in Registry,
             Initialize(a, r) \/ SetRegistryAddress(a, r)
      PROVE  UNCHANGED <<pending, balance>>
    BY <1>1 DEF Initialize, SetRegistryAddress
<1>2. ASSUME NEW a \in Account, NEW v, SetFeeBps(a, v) \/ SetTreasury(a, v)
      PROVE  UNCHANGED <<pending, balance>>
    BY <1>2 DEF SetFeeBps, SetTreasury
<1>3. ASSUME NEW kind, NEW tipper, NEW items, NEW k, Replay(kind, tipper, items, k)
      PROVE  UNCHANGED <<pending, balance>>
    BY <1>3 DEF Replay
<1>4. ASSUME NEW t \in Tipper, NEW a \in Account, NEW g \in GistId,
             NEW x \in Amount, NEW k \in Key, TipAuthor(t, a, g, x, k)
      PROVE  Escrow!Deposit \/ UNCHANGED <<pending, balance>>
    BY <1>3, <1>4, SingleTip, PayIsDeposit, AccountAssumption DEF TipAuthor
<1>5. ASSUME NEW t \in Tipper, NEW b \in Batches, NEW k \in Key, TipAuthors(t, b, k)
      PROVE  Escrow!Deposit \/ UNCHANGED <<pending, balance>>
    BY <1>3, <1>5, PayIsDeposit, AccountAssumption, InputAssumption DEF TipAuthors
<1>6. ASSUME NEW a \in Account, ClaimTips(a)
      PROVE  Escrow!Next
    BY <1>6, ClaimIsWithdraw DEF Escrow!Next
<1>7. ASSUME \/ \E r \in Registry, g \in GistId, a \in Author : PostGist(r, g, a)
             \/ \E r \in Registry, ids \in SUBSET GistId : ExpireGists(r, ids)
             \/ OtherTransaction
      PROVE  UNCHANGED <<pending, balance>>
    BY <1>7 DEF PostGist, ExpireGists, OtherTransaction
<1>8. ASSUME NEW a \in Account, NEW x \in Donation, DirectTransfer(a, x)
      PROVE  Escrow!Next
    BY <1>8, DirectTransferIsDeposit DEF Escrow!Next
<1>9. ASSUME NEW lost \in SUBSET (Registry \X GistId), CloseLedger(lost)
      PROVE  UNCHANGED <<pending, balance>>
    BY <1>9 DEF CloseLedger
<1>10. CASE UNCHANGED vars
    BY <1>10 DEF vars
<1> QED BY <1>1, <1>2, <1>4, <1>5, <1>6, <1>7, <1>8, <1>9, <1>10, AccountAssumption
        DEF Next, VaultStep, EnvironmentStep, Escrow!Next

(* The vault implements the escrow: no call, retry, batch, fee change or    *)
(* direct transfer makes it owe what it did not receive, forget a debt, or  *)
(* pay one otherwise than in full to the author it is owed to.              *)
THEOREM VaultImplementsEscrow == Spec => ImplementsEscrow
<1>1. Init => Escrow!Init
    BY InputAssumption DEF Init, Escrow!Init, Address
<1>2. TypeOK /\ [Next]_vars => [Escrow!Next]_<<pending, balance>>
    BY EscrowStep
<1> QED BY <1>1, <1>2, TypeCorrect, PTL DEF Spec, ImplementsEscrow, Escrow!Spec

(* A withdrawal lowers the debts and the vault's tokens by the same amount. *)
LEMMA WithdrawSettles ==
    ASSUME TypeOK, NEW a \in Account, Escrow!Withdraw(a)
    PROVE  /\ Owed' = Owed - pending[a]
           /\ balance'[Vault] = balance[Vault] - pending[a]
<1>1. /\ pending \in [Account -> Nat]
      /\ \A b \in Account : pending[b] \in Nat
      /\ balance \in [Address -> Nat]
    BY DEF TypeOK
<1>2. /\ pending' = [pending EXCEPT ![a] = 0]
      /\ balance' = [balance EXCEPT ![Vault] = @ - pending[a], ![a] = @ + pending[a]]
    BY DEF Escrow!Withdraw
<1>3. /\ pending'[a] = 0
      /\ \A b \in Account : pending[b] \in Int /\ (b # a => pending'[b] = pending[b])
    BY <1>1, <1>2
<1>4. SumFunctionOnSet(pending', Account)
        = SumFunctionOnSet(pending, Account) + pending'[a] - pending[a]
    BY <1>3, SumUpdate, AccountAssumption
<1>5. Owed \in Nat
    BY <1>1, SumNat, AccountAssumption DEF Owed
<1>6. balance'[Vault] = balance[Vault] - pending[a]
    BY <1>1, <1>2, AccountAssumption DEF Address
<1> QED BY <1>1, <1>3, <1>4, <1>5, <1>6 DEF Owed

(* The vault can always pay everything it owes, even if it is its own       *)
(* treasury and strangers send it tokens.                                   *)
THEOREM Solvency == Spec => []Solvent
<1>1. Init => Solvent
  <2> SUFFICES ASSUME Init PROVE Solvent
      OBVIOUS
  <2>1. Owed = 0
      BY SumZero, AccountAssumption DEF Init, Owed
  <2>2. balance[Vault] \in Nat
      BY InputAssumption DEF Init, Address
  <2> QED BY <2>1, <2>2 DEF Solvent
<1>2. TypeOK /\ Solvent /\ [Next]_vars => Solvent'
  <2> SUFFICES ASSUME TypeOK, Solvent, [Next]_vars PROVE Solvent'
      OBVIOUS
  <2>1. /\ pending \in [Account -> Nat]
        /\ \A a \in Account : pending[a] \in Nat
        /\ balance \in [Address -> Nat] /\ balance[Vault] \in Nat
      BY DEF TypeOK, Address
  <2>2. Owed \in Nat
      BY <2>1, SumNat, AccountAssumption DEF Owed
  <2>3. Escrow!TotalOwed = Owed /\ Escrow!TotalOwed' = Owed'
      BY SameSum DEF Escrow!TotalOwed, Owed
  <2>4. CASE Escrow!Deposit
    <3>1. /\ \A a \in Account : pending'[a] \in Nat
          /\ balance'[Vault] \in Nat
          /\ balance'[Vault] - balance[Vault] >= Owed' - Owed
        BY <2>3, <2>4 DEF Escrow!Deposit
    <3>2. Owed' \in Nat
        BY <3>1, SumNat, AccountAssumption DEF Owed
    <3> QED BY <2>1, <2>2, <3>1, <3>2 DEF Solvent
  <2>5. ASSUME NEW a \in Account, Escrow!Withdraw(a)
        PROVE  Solvent'
    <3>1. /\ Owed' = Owed - pending[a]
          /\ balance'[Vault] = balance[Vault] - pending[a]
        BY <2>5, WithdrawSettles
    <3> QED BY <2>1, <2>2, <3>1 DEF Solvent
  <2>6. CASE UNCHANGED <<pending, balance>>
      BY <2>6 DEF Solvent, Owed
  <2> QED BY <2>4, <2>5, <2>6, EscrowStep DEF Escrow!Next
<1> QED BY <1>1, <1>2, TypeCorrect, PTL DEF Spec

(* The equality of docs/SECURITY.md, from what it takes for granted: the    *)
(* vault starts empty, is not its own treasury, and nobody sends it tokens  *)
(* directly.                                                                *)
THEOREM BalanceExact ==
    ASSUME Vault \notin Treasury, Donation = {}, InitialBalance[Vault] = 0
    PROVE  Spec => []BalanceInvariant
<1> USE DEF config, accounts
<1>1. Init => BalanceInvariant
  <2> SUFFICES ASSUME Init PROVE BalanceInvariant
      OBVIOUS
  <2>1. Owed = 0
      BY SumZero, AccountAssumption DEF Init, Owed
  <2> QED BY <2>1 DEF Init, BalanceInvariant
<1>2. TypeOK /\ BalanceInvariant /\ [Next]_vars => BalanceInvariant'
  <2> SUFFICES ASSUME TypeOK, BalanceInvariant, [Next]_vars PROVE BalanceInvariant'
      OBVIOUS
  <2>1. ASSUME UNCHANGED <<pending, balance>>
        PROVE  BalanceInvariant'
      BY <2>1 DEF BalanceInvariant, Owed
  <2>2. ASSUME NEW items \in Seq(Item), NEW tipper \in Account, NEW k \in Key, NEW kind,
               Replay(kind, tipper, items, k) \/ Pay(kind, tipper, items, k)
        PROVE  BalanceInvariant'
    <3>1. CASE Replay(kind, tipper, items, k)
        BY <2>1, <3>1 DEF Replay
    <3>2. CASE Pay(kind, tipper, items, k)
        BY <3>2, PayBalances, PayDebts DEF BalanceInvariant
    <3> QED BY <2>2, <3>1, <3>2
  <2>3. ASSUME NEW a \in Account, NEW v, \/ Initialize(a, v)
                                         \/ SetRegistryAddress(a, v)
                                         \/ SetFeeBps(a, v)
                                         \/ SetTreasury(a, v)
        PROVE  BalanceInvariant'
      BY <2>1, <2>3 DEF Initialize, SetRegistryAddress, SetFeeBps, SetTreasury
  <2>4. ASSUME NEW t \in Tipper, NEW a \in Account, NEW g \in GistId,
               NEW x \in Amount, NEW k \in Key, TipAuthor(t, a, g, x, k)
        PROVE  BalanceInvariant'
      BY <2>2, <2>4, SingleTip, AccountAssumption DEF TipAuthor
  <2>5. ASSUME NEW t \in Tipper, NEW b \in Batches, NEW k \in Key, TipAuthors(t, b, k)
        PROVE  BalanceInvariant'
      BY <2>2, <2>5, AccountAssumption, InputAssumption DEF TipAuthors
  <2>6. ASSUME NEW a \in Account, ClaimTips(a)
        PROVE  BalanceInvariant'
      BY <2>6, ClaimIsWithdraw, WithdrawSettles DEF BalanceInvariant
  <2>7. ASSUME \/ \E r \in Registry, g \in GistId, a \in Author : PostGist(r, g, a)
               \/ \E r \in Registry, ids \in SUBSET GistId : ExpireGists(r, ids)
               \/ OtherTransaction
        PROVE  BalanceInvariant'
      BY <2>1, <2>7 DEF PostGist, ExpireGists, OtherTransaction
  <2>8. ASSUME NEW lost \in SUBSET (Registry \X GistId), CloseLedger(lost)
        PROVE  BalanceInvariant'
      BY <2>1, <2>8 DEF CloseLedger
  <2>9. CASE UNCHANGED vars
      BY <2>1, <2>9 DEF vars
  <2> QED BY <2>3, <2>4, <2>5, <2>6, <2>7, <2>8, <2>9, AccountAssumption
          DEF Next, VaultStep, EnvironmentStep
<1> QED BY <1>1, <1>2, TypeCorrect, PTL DEF Spec

-----------------------------------------------------------------------------
(* A key moves money once per window.                                       *)

(* While the last use of a key is at most a window old, the key's record is *)
(* there and stays until the end of that window.  AtMostOncePerWindow alone *)
(* says nothing of the records, on which the next payment depends.          *)
Guarded(k) ==
    LET last == uses[k][Len(uses[k])] IN
    uses[k] # <<>> => /\ last =< seq
                      /\ seq =< last + RecordTtl =>
                            /\ records[k] # NoRecord
                            /\ records[k].until >= last + RecordTtl

KeyInv == AtMostOncePerWindow /\ \A k \in Key : Guarded(k)

(* A payment under a key comes after the window of the key's last use, and  *)
(* opens a new one.                                                         *)
LEMMA PayKeepsKeyInv ==
    ASSUME TypeOK, KeyInv, NEW items \in Seq(Item), NEW tipper \in Account,
           NEW key \in Key, NEW kind \in {"single", "batch"},
           Pay(kind, tipper, items, key)
    PROVE  KeyInv'
<1>1. /\ seq \in Nat /\ RecordTtl \in Nat /\ seq' = seq
      /\ uses \in [Key -> Seq(Nat)]
      /\ uses' = [uses EXCEPT ![key] = Append(@, seq)]
      /\ records[key] = NoRecord
    BY RecordTtlType, NumberAssumption DEF TypeOK, Pay
<1>2. /\ \A k \in Key : k # key => records'[k] = records[k]
      /\ records'[key] = [kind |-> kind, tipper |-> tipper, items |-> items,
                          until |-> seq + RecordTtl]
    BY DEF TypeOK, Pay
<1> DEFINE old == uses[key]
           new == uses'[key]
<1>3. old \in Seq(Nat) /\ new = Append(old, seq) /\ new \in Seq(Nat)
    BY <1>1
<1>4. /\ Len(new) = Len(old) + 1 /\ new[Len(new)] = seq /\ Len(old) \in Nat
      /\ \A i \in 1 .. Len(old) : new[i] = old[i] /\ old[i] \in Nat
    BY <1>1, <1>3
<1>5. ASSUME NEW k \in Key, k # key
      PROVE  uses'[k] = uses[k]
    BY <1>1, <1>5
<1>6. Guarded(key)'
  <2>1. records'[key].until = seq + RecordTtl /\ records'[key] \in TipRecord
      BY <1>1, <1>2 DEF TipRecord
  <2>2. records'[key] # NoRecord
      BY <2>1, AccountAssumption
  <2> QED BY <1>1, <1>4, <2>1, <2>2 DEF Guarded
<1>7. ASSUME NEW k \in Key, k # key
      PROVE  Guarded(k)'
    BY <1>1, <1>2, <1>5, <1>7 DEF Guarded, KeyInv
<1>8. old # <<>> => seq > old[Len(old)] + RecordTtl
  <2>1. Guarded(key)
      BY DEF KeyInv
  <2>2. old # <<>> => old[Len(old)] \in Nat
      BY <1>3
  <2> QED BY <1>1, <2>1, <2>2 DEF Guarded
<1>9. \A i \in 1 .. Len(old) - 1 : old[i + 1] > old[i] + RecordTtl
    BY DEF KeyInv, AtMostOncePerWindow, RecordTtl
<1>10. \A i \in 1 .. Len(new) - 1 : new[i + 1] > new[i] + RecordTtl
  <2> TAKE i \in 1 .. Len(new) - 1
  <2> HIDE DEF old, new
  <2>1. CASE i = Len(old)
      BY <1>1, <1>3, <1>4, <1>8, <2>1
  <2>2. CASE i < Len(old)
      BY <1>4, <1>9, <2>2, SMTT(30)
  <2> QED BY <1>4, <2>1, <2>2
<1>11. AtMostOncePerWindow'
  <2> SUFFICES ASSUME NEW k \in Key, NEW i \in 1 .. Len(uses'[k]) - 1
               PROVE  uses'[k][i + 1] > uses'[k][i] + RecordTtl
      BY DEF AtMostOncePerWindow, RecordTtl
  <2>1. CASE k = key
      BY <1>10, <2>1
  <2>2. CASE k # key
      BY <1>5, <2>2 DEF KeyInv, AtMostOncePerWindow, RecordTtl
  <2> QED BY <2>1, <2>2
<1> QED BY <1>6, <1>7, <1>11 DEF KeyInv

(* A record is not evicted before its window ends.                          *)
LEMMA CloseLedgerKeepsKeyInv ==
    ASSUME TypeOK, KeyInv, NEW lost, CloseLedger(lost)
    PROVE  KeyInv'
<1>1. /\ seq \in Nat /\ seq' = seq + 1 /\ RecordTtl \in Nat /\ uses' = uses
      /\ uses \in [Key -> Seq(Nat)]
    BY RecordTtlType, NumberAssumption DEF TypeOK, CloseLedger
<1>2. AtMostOncePerWindow'
    BY <1>1 DEF KeyInv, AtMostOncePerWindow
<1>3. ASSUME NEW k \in Key
      PROVE  Guarded(k)'
  <2> DEFINE last == uses[k][Len(uses[k])]
  <2>1. Guarded(k)
      BY DEF KeyInv
  <2>2. uses[k] # <<>> => last \in Nat
    <3>1. uses[k] \in Seq(Nat)
        BY <1>1
    <3> QED BY <3>1
  <2>3. records'[k] = IF records[k] # NoRecord /\ records[k].until < seq'
                      THEN NoRecord ELSE records[k]
      BY DEF CloseLedger, EvictRecords
  <2>4. records[k] # NoRecord => records[k].until \in Nat
      BY DEF TypeOK, TipRecord
  <2> SUFFICES ASSUME uses[k] # <<>>
               PROVE  /\ last =< seq'
                      /\ seq' =< last + RecordTtl =>
                            /\ records'[k] # NoRecord
                            /\ records'[k].until >= last + RecordTtl
      BY <1>1 DEF Guarded
  <2>5. /\ last \in Nat /\ last =< seq
        /\ seq =< last + RecordTtl => /\ records[k] # NoRecord
                                      /\ records[k].until >= last + RecordTtl
      BY <2>1, <2>2 DEF Guarded
  <2> HIDE DEF last
  <2> QED BY <1>1, <2>3, <2>4, <2>5
<1> QED BY <1>2, <1>3 DEF KeyInv

(* Every step preserves the inductive invariant.                            *)
LEMMA KeyInvStep == TypeOK /\ KeyInv /\ [Next]_vars => KeyInv'
<1> SUFFICES ASSUME TypeOK, KeyInv, [Next]_vars PROVE KeyInv'
    OBVIOUS
<1> USE DEF config, accounts
<1>1. ASSUME UNCHANGED <<records, uses, seq>>
      PROVE  KeyInv'
    BY <1>1 DEF KeyInv, AtMostOncePerWindow, Guarded
<1>2. ASSUME NEW a \in Account, NEW v, \/ Initialize(a, v)
                                       \/ SetRegistryAddress(a, v)
                                       \/ SetFeeBps(a, v)
                                       \/ SetTreasury(a, v)
                                       \/ DirectTransfer(a, v)
      PROVE  KeyInv'
    BY <1>1, <1>2 DEF Initialize, SetRegistryAddress, SetFeeBps, SetTreasury,
                      DirectTransfer
<1>3. ASSUME NEW items \in Seq(Item), NEW tipper \in Account, NEW k \in Key,
             NEW kind \in {"single", "batch"},
             Replay(kind, tipper, items, k) \/ Pay(kind, tipper, items, k)
      PROVE  KeyInv'
  <2>1. CASE Replay(kind, tipper, items, k)
      BY <1>1, <2>1 DEF Replay
  <2> QED BY <1>3, <2>1, PayKeepsKeyInv
<1>4. ASSUME NEW t \in Tipper, NEW a \in Account, NEW g \in GistId,
             NEW x \in Amount, NEW k \in Key, TipAuthor(t, a, g, x, k)
      PROVE  KeyInv'
    BY <1>3, <1>4, SingleTip, AccountAssumption DEF TipAuthor
<1>5. ASSUME NEW t \in Tipper, NEW b \in Batches, NEW k \in Key, TipAuthors(t, b, k)
      PROVE  KeyInv'
    BY <1>3, <1>5, AccountAssumption, InputAssumption DEF TipAuthors
<1>6. ASSUME NEW a \in Account, ClaimTips(a)
      PROVE  KeyInv'
    BY <1>1, <1>6 DEF ClaimTips
<1>7. ASSUME \/ \E r \in Registry, g \in GistId, a \in Author : PostGist(r, g, a)
             \/ \E r \in Registry, ids \in SUBSET GistId : ExpireGists(r, ids)
             \/ OtherTransaction
      PROVE  KeyInv'
    BY <1>1, <1>7 DEF PostGist, ExpireGists, OtherTransaction
<1>8. CASE UNCHANGED vars
    BY <1>1, <1>8 DEF vars
<1> QED BY <1>2, <1>4, <1>5, <1>6, <1>7, <1>8, CloseLedgerKeepsKeyInv, AccountAssumption
        DEF Next, VaultStep, EnvironmentStep

(* However calls, retries and ledgers interleave, no key moves money twice  *)
(* within the 48 hours its record is kept.                                  *)
THEOREM KeysAreSingleUse == Spec => []AtMostOncePerWindow
<1>1. Init => KeyInv
  <2> SUFFICES ASSUME Init PROVE KeyInv
      OBVIOUS
  <2>1. \A k \in Key : uses[k] = <<>>
      BY DEF Init
  <2>2. AtMostOncePerWindow
      BY <2>1 DEF AtMostOncePerWindow
  <2>3. \A k \in Key : Guarded(k)
      BY <2>1 DEF Guarded
  <2> QED BY <2>2, <2>3 DEF KeyInv
<1>2. KeyInv => AtMostOncePerWindow
    BY DEF KeyInv
<1> QED BY <1>1, <1>2, KeyInvStep, TypeCorrect, PTL DEF Spec

-----------------------------------------------------------------------------
(* What ClaimAlwaysAvailable and RetryAlwaysAccepted come down to: the      *)
(* guards of the calls they say are never refused.                          *)

(* A claim is covered by the vault's tokens.                                *)
ClaimsCovered == \A a \in Account : pending[a] =< balance[Vault]

(* No claim of a pending balance is ever refused for want of tokens: the    *)
(* one check of claim_tips besides its being positive.                      *)
THEOREM ClaimsAreCovered == Spec => []ClaimsCovered
<1>1. TypeOK /\ Solvent => ClaimsCovered
  <2> SUFFICES ASSUME TypeOK, Solvent, NEW a \in Account
               PROVE  pending[a] =< balance[Vault]
      BY DEF ClaimsCovered
  <2>1. /\ \A b \in Account : pending[b] \in Int /\ pending[b] \in Nat
        /\ balance[Vault] \in Nat
      BY DEF TypeOK, Address
  <2>2. Owed = pending[a] + SumFunctionOnSet(pending, Account \ {a})
      BY <2>1, SumRemove, AccountAssumption DEF Owed
  <2>3. SumFunctionOnSet(pending, Account \ {a}) \in Nat
    <3>1. IsFiniteSet(Account \ {a})
        BY FS_Subset, AccountAssumption
    <3> QED BY <2>1, <3>1, SumNat
  <2>4. balance[Vault] >= Owed
      BY DEF Solvent
  <2> QED BY <2>1, <2>2, <2>3, <2>4
<1> QED BY <1>1, TypeCorrect, Solvency, PTL

(* A record holds the arguments of a call that tip_author or tip_authors    *)
(* accepts once it has found the record.                                    *)
Repeatable(record) ==
    /\ record = [kind |-> record.kind, tipper |-> record.tipper, items |-> record.items,
                 until |-> record.until]
    /\ \/ /\ record.kind = "single" /\ record.items[1].amount > 0
          /\ record.items = <<[recipient |-> record.items[1].recipient,
                               gist_id |-> record.items[1].gist_id,
                               amount |-> record.items[1].amount]>>
       \/ record.kind = "batch" /\ Len(record.items) \in 1 .. MAX_BATCH_SIZE

RetriesRepeatable == \A k \in Key : records[k] # NoRecord => Repeatable(records[k])

(* The record a payment leaves can be repeated.                             *)
LEMMA PayIsRepeatable ==
    ASSUME TypeOK, RetriesRepeatable, NEW kind, NEW tipper, NEW items, NEW key \in Key,
           Pay(kind, tipper, items, key),
           \/ /\ kind = "single"
              /\ \E a, g, x : /\ x > 0
                              /\ items = <<[recipient |-> a, gist_id |-> g, amount |-> x]>>
           \/ kind = "batch" /\ Len(items) \in 1 .. MAX_BATCH_SIZE
    PROVE  RetriesRepeatable'
<1> DEFINE new == [kind |-> kind, tipper |-> tipper, items |-> items,
                   until |-> seq + RecordTtl]
<1>1. /\ \A k \in Key : k # key => records'[k] = records[k]
      /\ records'[key] = new
    BY DEF TypeOK, Pay
<1>2. Repeatable(new)
  <2>1. /\ new.kind = kind /\ new.items = items /\ new.tipper = tipper
        /\ new.until = seq + RecordTtl
      OBVIOUS
  <2>2. CASE kind = "batch"
      BY <2>1, <2>2 DEF Repeatable
  <2>3. CASE kind = "single"
    <3>1. PICK a, g, x : x > 0 /\ items = <<[recipient |-> a, gist_id |-> g, amount |-> x]>>
        BY <2>3
    <3>2. items[1].recipient = a /\ items[1].gist_id = g /\ items[1].amount = x
        BY <3>1
    <3> QED BY <2>1, <2>3, <3>1, <3>2, Zenon DEF Repeatable
  <2> QED BY <2>2, <2>3
<1> HIDE DEF new
<1> QED BY <1>1, <1>2 DEF RetriesRepeatable

(* While its record lives, a retry with the same arguments passes every     *)
(* check on the way to the record, whatever else has changed.               *)
THEOREM RetriesAreRepeatable == Spec => []RetriesRepeatable
<1>1. Init => RetriesRepeatable
    BY DEF Init, RetriesRepeatable
<1>2. TypeOK /\ RetriesRepeatable /\ [Next]_vars => RetriesRepeatable'
  <2> SUFFICES ASSUME TypeOK, RetriesRepeatable, [Next]_vars PROVE RetriesRepeatable'
      OBVIOUS
  <2>1. ASSUME \A k \in Key : records'[k] \in {records[k], NoRecord}
        PROVE  RetriesRepeatable'
      BY <2>1 DEF RetriesRepeatable
  <2>2. ASSUME UNCHANGED records PROVE RetriesRepeatable'
      BY <2>2 DEF RetriesRepeatable
  <2>3. ASSUME NEW t \in Tipper, NEW a \in Account, NEW g \in GistId,
               NEW x \in Amount, NEW k \in Key, TipAuthor(t, a, g, x, k)
        PROVE  RetriesRepeatable'
    <3> DEFINE tip == <<[recipient |-> a, gist_id |-> g, amount |-> x]>>
    <3>1. x > 0 /\ (Replay("single", t, tip, k) \/ Pay("single", t, tip, k))
        BY <2>3 DEF TipAuthor
    <3>2. CASE Replay("single", t, tip, k)
        BY <2>2, <3>2 DEF Replay, accounts
    <3>3. CASE Pay("single", t, tip, k)
        BY <3>1, <3>3, PayIsRepeatable, Zenon
    <3> QED BY <3>1, <3>2, <3>3
  <2>4. ASSUME NEW t \in Tipper, NEW b \in Batches, NEW k \in Key, TipAuthors(t, b, k)
        PROVE  RetriesRepeatable'
    <3>1. CASE Replay("batch", t, b, k)
        BY <2>2, <3>1 DEF Replay, accounts
    <3>2. CASE Pay("batch", t, b, k)
        BY <2>4, <3>2, PayIsRepeatable DEF TipAuthors
    <3> QED BY <2>4, <3>1, <3>2 DEF TipAuthors
  <2>5. ASSUME NEW lost, CloseLedger(lost) PROVE RetriesRepeatable'
      BY <2>1, <2>5 DEF CloseLedger, EvictRecords
  <2>6. ASSUME NEW a, NEW b, \/ Initialize(a, b) \/ SetRegistryAddress(a, b)
                             \/ SetFeeBps(a, b) \/ SetTreasury(a, b)
                             \/ DirectTransfer(a, b) \/ ClaimTips(a) \/ ExpireGists(a, b)
        PROVE  RetriesRepeatable'
      BY <2>2, <2>6 DEF Initialize, SetRegistryAddress, SetFeeBps, SetTreasury,
                        DirectTransfer, ClaimTips, ExpireGists, accounts
  <2>7. ASSUME \/ \E r \in Registry, g \in GistId, a \in Author : PostGist(r, g, a)
               \/ OtherTransaction
               \/ UNCHANGED vars
        PROVE  RetriesRepeatable'
      BY <2>2, <2>7 DEF PostGist, OtherTransaction, vars, accounts
  <2> QED BY <2>3, <2>4, <2>5, <2>6, <2>7 DEF Next, VaultStep, EnvironmentStep
<1> QED BY <1>1, <1>2, TypeCorrect, PTL DEF Spec

-----------------------------------------------------------------------------
(* What gist totals, events and fees add up to.                             *)

(* The items of a payment have natural amounts that split into a fee and a  *)
(* net.                                                                     *)
LEMMA ItemFacts ==
    ASSUME TypeOK, NEW items \in Seq(Item), \A i \in DOMAIN items : items[i].amount > 0
    PROVE  /\ IsFiniteSet(DOMAIN items)
           /\ \A i \in DOMAIN items :
                 /\ items[i].recipient \in Account /\ items[i].gist_id \in GistId
                 /\ items[i].amount \in Nat /\ Fee(items[i].amount) \in Nat
                 /\ Net(items[i].amount) \in Nat
                 /\ items[i].amount = Fee(items[i].amount) + Net(items[i].amount)
<1>1. DOMAIN items = 1 .. Len(items) /\ IsFiniteSet(DOMAIN items)
    BY FS_Interval
<1>2. ASSUME NEW i \in DOMAIN items
      PROVE  /\ items[i].recipient \in Account /\ items[i].gist_id \in GistId
             /\ items[i].amount \in Nat /\ Fee(items[i].amount) \in Nat
             /\ Net(items[i].amount) \in Nat
             /\ items[i].amount = Fee(items[i].amount) + Net(items[i].amount)
  <2>1. items[i] \in Item
      OBVIOUS
  <2>2. items[i].amount \in Nat /\ items[i].recipient \in Account
        /\ items[i].gist_id \in GistId
      BY <2>1 DEF Item
  <2>3. Fee(items[i].amount) \in 0 .. items[i].amount
      BY <2>2, FeeBounds
  <2> QED BY <2>2, <2>3 DEF Net
<1> QED BY <1>1, <1>2

-----------------------------------------------------------------------------
(* Events.                                                                  *)

(* A payment's events add up to its credits and its gist totals.            *)
LEMMA PayEvents ==
    ASSUME TypeOK, NEW items \in Seq(Item), NEW tipper \in Account, NEW key \in Key,
           NEW kind, Pay(kind, tipper, items, key)
    PROVE  /\ \A a \in Account : NetEmitted(a)' = NetTo(items, a)
           /\ \A g \in GistId : GrossEmitted(g)' = GrossFor(items, g)
<1> DEFINE D == DOMAIN items
           e == [i \in D |-> TippedEvent(items[i])]
           net == [i \in D |-> Net(items[i].amount)]
           gross == [i \in D |-> items[i].amount]
           net1 == [i \in DOMAIN emitted' |->
                      IF emitted'[i].type = "tipped" THEN emitted'[i].net
                      ELSE - emitted'[i].amount]
           gross1 == [i \in DOMAIN emitted' |-> emitted'[i].amount]
<1>1. /\ IsFiniteSet(D)
      /\ \A i \in D : net[i] \in Int /\ gross[i] \in Int
    BY ItemFacts DEF Pay
<1>2. emitted' = e
    BY DEF Pay
<1>3. /\ DOMAIN emitted' = D
      /\ \A i \in D : /\ emitted'[i].type = "tipped"
                      /\ emitted'[i].gist_id = items[i].gist_id
                      /\ emitted'[i].recipient = items[i].recipient
                      /\ net1[i] = net[i] /\ gross1[i] = gross[i]
    BY <1>2 DEF TippedEvent
<1>4. \A T \in SUBSET D : IsFiniteSet(T)
    BY <1>1, FS_Subset
<1>5. ASSUME NEW a \in Account PROVE NetEmitted(a)' = NetTo(items, a)
  <2> DEFINE T == {i \in D : items[i].recipient = a}
  <2>1. {i \in DOMAIN emitted' : emitted'[i].recipient = a} = T
      BY <1>3
  <2>2. IsFiniteSet(T) /\ \A i \in T : net[i] \in Int /\ net[i] = net1[i]
      BY <1>1, <1>3, <1>4
  <2>3. NetEmitted(a)' = SumFunctionOnSet(net1, T)
      BY <2>1 DEF NetEmitted
  <2>4. NetTo(items, a) = SumFunctionOnSet(net, T)
      BY DEF NetTo
  <2> HIDE DEF T, net, net1
  <2> QED BY <2>2, <2>3, <2>4, SumAgree
<1>6. ASSUME NEW g \in GistId PROVE GrossEmitted(g)' = GrossFor(items, g)
  <2> DEFINE T == {i \in D : items[i].gist_id = g}
  <2>1. {i \in DOMAIN emitted' : emitted'[i].type = "tipped" /\ emitted'[i].gist_id = g} = T
      BY <1>3
  <2>2. IsFiniteSet(T) /\ \A i \in T : gross[i] \in Int /\ gross[i] = gross1[i]
      BY <1>1, <1>3, <1>4
  <2>3. GrossEmitted(g)' = SumFunctionOnSet(gross1, T)
      BY <2>1 DEF GrossEmitted
  <2>4. GrossFor(items, g) = SumFunctionOnSet(gross, T)
      BY DEF GrossFor
  <2> HIDE DEF T, gross, gross1
  <2> QED BY <2>2, <2>3, <2>4, SumAgree
<1> QED BY <1>5, <1>6

(* A transaction without events explains nothing.                           *)
LEMMA NoEvents ==
    ASSUME emitted' = <<>>
    PROVE  /\ \A a \in Account : NetEmitted(a)' = 0
           /\ \A g \in GistId : GrossEmitted(g)' = 0
<1>1. DOMAIN emitted' = {}
    OBVIOUS
<1>2. \A a \in Account : {i \in DOMAIN emitted' : emitted'[i].recipient = a} = {}
    BY <1>1
<1>3. \A g \in GistId : {i \in DOMAIN emitted' : emitted'[i].type = "tipped"
                                               /\ emitted'[i].gist_id = g} = {}
    BY <1>1
<1> QED BY <1>2, <1>3, SumEmpty DEF NetEmitted, GrossEmitted

(* A claim's event takes back what was pending.                             *)
LEMMA ClaimEvents ==
    ASSUME TypeOK, NEW c \in Account, ClaimTips(c)
    PROVE  /\ \A a \in Account : NetEmitted(a)' = IF a = c THEN - pending[c] ELSE 0
           /\ \A g \in GistId : GrossEmitted(g)' = 0
<1> DEFINE net1 == [i \in DOMAIN emitted' |->
                      IF emitted'[i].type = "tipped" THEN emitted'[i].net
                      ELSE - emitted'[i].amount]
<1>1. emitted' = <<[type |-> "claimed", recipient |-> c, amount |-> pending[c]]>>
    BY DEF ClaimTips
<1>2. DOMAIN emitted' = {1} /\ emitted'[1].type = "claimed"
      /\ emitted'[1].recipient = c /\ emitted'[1].amount = pending[c]
    BY <1>1
<1>3. net1[1] = - pending[c] /\ net1[1] \in Int
    BY <1>2 DEF TypeOK
<1>4. ASSUME NEW a \in Account
      PROVE  NetEmitted(a)' = IF a = c THEN - pending[c] ELSE 0
  <2>1. {i \in DOMAIN emitted' : emitted'[i].recipient = a} = IF a = c THEN {1} ELSE {}
      BY <1>2
  <2>2. NetEmitted(a)' = SumFunctionOnSet(net1, IF a = c THEN {1} ELSE {})
      BY <2>1 DEF NetEmitted
  <2> HIDE DEF net1
  <2> QED BY <1>3, <2>2, SumSingleton, SumEmpty
<1>5. ASSUME NEW g \in GistId PROVE GrossEmitted(g)' = 0
  <2>1. {i \in DOMAIN emitted' : emitted'[i].type = "tipped"
                                   /\ emitted'[i].gist_id = g} = {}
      BY <1>2
  <2> QED BY <2>1, SumEmpty DEF GrossEmitted
<1> QED BY <1>4, <1>5

Explained ==
    /\ \A a \in Account : pending'[a] = pending[a] + NetEmitted(a)'
    /\ \A g \in GistId : gistTotal'[g] = gistTotal[g] + GrossEmitted(g)'

(* Every step is explained by its events.                                   *)
LEMMA ExplainedStep ==
    ASSUME TypeOK, Next PROVE Explained
<1> USE DEF config, accounts
<1>0. pending \in [Account -> Nat] /\ gistTotal \in [GistId -> Nat]
    BY DEF TypeOK
<1>1. ASSUME UNCHANGED <<pending, gistTotal>>, emitted' = <<>>
      PROVE  Explained
    BY <1>0, <1>1, NoEvents DEF Explained
<1>2. ASSUME NEW items \in Seq(Item), NEW tipper \in Account, NEW k \in Key, NEW kind,
             Replay(kind, tipper, items, k) \/ Pay(kind, tipper, items, k)
      PROVE  Explained
  <2>1. CASE Replay(kind, tipper, items, k)
      BY <1>1, <2>1 DEF Replay
  <2>2. CASE Pay(kind, tipper, items, k)
    <3>1. /\ \A a \in Account : pending'[a] = pending[a] + NetTo(items, a)
          /\ \A g \in GistId : gistTotal'[g] = gistTotal[g] + GrossFor(items, g)
        BY <2>2 DEF Pay, Credit, AddToGistTotals
    <3> QED BY <2>2, <3>1, PayEvents DEF Explained
  <2> QED BY <1>2, <2>1, <2>2
<1>3. ASSUME NEW a \in Account, NEW v, \/ Initialize(a, v)
                                       \/ SetRegistryAddress(a, v)
                                       \/ SetFeeBps(a, v)
                                       \/ SetTreasury(a, v)
                                       \/ DirectTransfer(a, v)
      PROVE  Explained
    BY <1>1, <1>3 DEF Initialize, SetRegistryAddress, SetFeeBps, SetTreasury,
                      DirectTransfer
<1>4. ASSUME NEW t \in Tipper, NEW a \in Account, NEW g \in GistId,
             NEW x \in Amount, NEW k \in Key, TipAuthor(t, a, g, x, k)
      PROVE  Explained
    BY <1>2, <1>4, SingleTip, AccountAssumption DEF TipAuthor
<1>5. ASSUME NEW t \in Tipper, NEW b \in Batches, NEW k \in Key, TipAuthors(t, b, k)
      PROVE  Explained
    BY <1>2, <1>5, AccountAssumption, InputAssumption DEF TipAuthors
<1>6. ASSUME NEW c \in Account, ClaimTips(c)
      PROVE  Explained
  <2>1. pending' = [pending EXCEPT ![c] = 0] /\ gistTotal' = gistTotal
      BY <1>6 DEF ClaimTips
  <2>2. \A a \in Account : pending'[a] = IF a = c THEN 0 ELSE pending[a]
      BY <1>0, <2>1
  <2> QED BY <1>0, <1>6, <2>1, <2>2, ClaimEvents DEF Explained
<1>7. ASSUME \/ \E r \in Registry, g \in GistId, a \in Author : PostGist(r, g, a)
             \/ \E r \in Registry, ids \in SUBSET GistId : ExpireGists(r, ids)
             \/ OtherTransaction
      PROVE  Explained
    BY <1>1, <1>7 DEF PostGist, ExpireGists, OtherTransaction
<1>8. ASSUME NEW lost \in SUBSET (Registry \X GistId), CloseLedger(lost)
      PROVE  Explained
    BY <1>1, <1>8 DEF CloseLedger
<1> QED BY <1>3, <1>4, <1>5, <1>6, <1>7, <1>8, AccountAssumption
        DEF Next, VaultStep, EnvironmentStep

(* Every transaction's events add up to what it did to the pending balances *)
(* and the gist totals.                                                     *)
THEOREM EventsExplainStorage == Spec => EventsReconcile
<1>1. TypeOK /\ [Next]_vars => [Explained]_vars
    BY ExplainedStep
<1> QED BY <1>1, TypeCorrect, PTL DEF Spec, EventsReconcile, Explained

-----------------------------------------------------------------------------
(* What an author is owed.                                                  *)

(* What a payment credits to an author is covered by what it adds to the    *)
(* totals of gists that the author posted.                                  *)
LEMMA PaidForOwnGists ==
    ASSUME TypeOK, NEW items \in Seq(Item), NEW tipper \in Account, NEW key \in Key,
           NEW kind, Pay(kind, tipper, items, key), NEW a \in Account
    PROVE  LET S == GistsBy(a) IN
           /\ IsFiniteSet(S)
           /\ NetTo(items, a)
                =< SumFunctionOnSet([g \in GistId |-> GrossFor(items, g)], S)
<1> DEFINE D == DOMAIN items
           S == GistsBy(a)
           to == {i \in D : items[i].recipient = a}
           within == {i \in D : items[i].gist_id \in S}
           net == [i \in D |-> Net(items[i].amount)]
           gross == [i \in D |-> items[i].amount]
           id == [i \in D |-> items[i].gist_id]
           total == [g \in GistId |-> GrossFor(items, g)]
<1>1. /\ IsFiniteSet(D)
      /\ \A i \in D : /\ items[i].recipient \in Account /\ items[i].gist_id \in GistId
                      /\ net[i] \in Nat /\ gross[i] \in Nat /\ net[i] =< gross[i]
  <2>1. /\ IsFiniteSet(D)
        /\ \A i \in D :
              /\ items[i].recipient \in Account /\ items[i].gist_id \in GistId
              /\ items[i].amount \in Nat /\ Fee(items[i].amount) \in Nat
              /\ Net(items[i].amount) \in Nat
              /\ items[i].amount = Fee(items[i].amount) + Net(items[i].amount)
      BY ItemFacts DEF Pay
  <2>2. ASSUME NEW i \in D
        PROVE  net[i] \in Nat /\ gross[i] \in Nat /\ net[i] =< gross[i]
    <3>1. net[i] = Net(items[i].amount) /\ gross[i] = items[i].amount
        OBVIOUS
    <3> HIDE DEF net, gross
    <3> QED BY <2>1, <3>1
  <2> QED BY <2>1, <2>2
<1>2. IsFiniteSet(S) /\ S \subseteq GistId
    BY AccountAssumption, FS_Subset DEF GistsBy
<1>3. to \subseteq within
  <2>1. registry \in Registry
      BY AccountAssumption DEF Pay, TypeOK
  <2>2. \A i \in D : gists[registry][items[i].gist_id].author = items[i].recipient
      BY DEF Pay, Tippable
  <2> QED BY <1>1, <2>1, <2>2 DEF GistsBy
<1>4. IsFiniteSet(to) /\ IsFiniteSet(within)
    BY <1>1, FS_Subset
<1>5. \A g \in S : total[g] = SumFunctionOnSet(gross, Part(within, id, g))
  <2> TAKE g \in S
  <2>1. {i \in D : items[i].gist_id = g} = Part(within, id, g)
      BY DEF Part
  <2>2. total[g] = GrossFor(items, g)
      BY <1>2
  <2> HIDE DEF total, within, id
  <2> QED BY <2>1, <2>2 DEF GrossFor
<1>6. \A i \in within : id[i] \in S
    OBVIOUS
<1>7. NetTo(items, a) = SumFunctionOnSet(net, to)
    BY DEF NetTo
<1>8. /\ \A i \in within : net[i] \in Nat /\ gross[i] \in Int /\ net[i] =< gross[i]
    BY <1>1
<1> HIDE DEF S, to, within, net, gross, id, total
<1>9. SumFunctionOnSet(total, S) = SumFunctionOnSet(gross, within)
    BY <1>2, <1>4, <1>5, <1>6, <1>8, SumByGroup
<1>10. SumFunctionOnSet(net, to) =< SumFunctionOnSet(net, within)
    BY <1>3, <1>4, <1>8, SumSubset
<1>11. SumFunctionOnSet(net, within) =< SumFunctionOnSet(gross, within)
    BY <1>4, <1>8, SumLeq
<1>12. /\ SumFunctionOnSet(net, to) \in Int /\ SumFunctionOnSet(net, within) \in Int
       /\ SumFunctionOnSet(gross, within) \in Int
    BY <1>3, <1>4, <1>8, SumInt
<1>13. NetTo(items, a) =< SumFunctionOnSet(total, S)
    BY <1>7, <1>9, <1>10, <1>11, <1>12
<1> QED BY <1>2, <1>13 DEF S, total

(* Once posted by an author, an id stays that author's.                     *)
LEMMA GistsByGrows ==
    ASSUME TypeOK, NEW a \in Account,
           \A r \in Registry, g \in GistId :
               gists[r][g].author = a => gists'[r][g].author = a
    PROVE  GistsBy(a) \subseteq GistsBy(a)'
BY DEF GistsBy

(* Every step leaves authors owed for their own gists only.                 *)
LEMMA OwedStep ==
    ASSUME TypeOK, TypeOK', OwedForOwnGists, [Next]_vars PROVE OwedForOwnGists'
<1> USE DEF config, accounts
<1>0. /\ pending \in [Account -> Nat] /\ gistTotal \in [GistId -> Nat]
      /\ pending' \in [Account -> Nat] /\ gistTotal' \in [GistId -> Nat]
    BY DEF TypeOK
<1>1. ASSUME NEW a \in Account, pending'[a] =< pending[a], gistTotal' = gistTotal,
             GistsBy(a) \subseteq GistsBy(a)'
      PROVE  pending'[a] =< SumFunctionOnSet(gistTotal', GistsBy(a)')
  <2>1. IsFiniteSet(GistsBy(a)') /\ GistsBy(a)' \subseteq GistId
      BY AccountAssumption, FS_Subset DEF GistsBy
  <2>2. IsFiniteSet(GistsBy(a)) /\ GistsBy(a) \subseteq GistId
      BY AccountAssumption, FS_Subset DEF GistsBy
  <2>3. SumFunctionOnSet(gistTotal, GistsBy(a)) =< SumFunctionOnSet(gistTotal, GistsBy(a)')
      BY <1>0, <1>1, <2>1, SumSubset
  <2>4. SumFunctionOnSet(gistTotal, GistsBy(a)) \in Nat
        /\ SumFunctionOnSet(gistTotal, GistsBy(a)') \in Nat
      BY <1>0, <2>1, <2>2, SumNat
  <2>5. pending[a] =< SumFunctionOnSet(gistTotal, GistsBy(a))
      BY DEF OwedForOwnGists
  <2>6. pending[a] \in Nat /\ pending'[a] \in Nat
      BY <1>0
  <2> QED BY <1>1, <2>3, <2>4, <2>5, <2>6
<1>2. ASSUME UNCHANGED <<pending, gistTotal, gists>>
      PROVE  OwedForOwnGists'
    BY <1>2 DEF OwedForOwnGists, GistsBy
<1>3. ASSUME UNCHANGED <<pending, gistTotal>>,
             \A a \in Account : GistsBy(a) \subseteq GistsBy(a)'
      PROVE  OwedForOwnGists'
  <2> SUFFICES ASSUME NEW a \in Account
               PROVE  pending'[a] =< SumFunctionOnSet(gistTotal', GistsBy(a)')
      BY DEF OwedForOwnGists
  <2> QED BY <1>0, <1>1, <1>3
<1>4. ASSUME NEW items \in Seq(Item), NEW tipper \in Account, NEW k \in Key, NEW kind,
             Replay(kind, tipper, items, k) \/ Pay(kind, tipper, items, k)
      PROVE  OwedForOwnGists'
  <2>1. CASE Replay(kind, tipper, items, k)
      BY <1>2, <2>1 DEF Replay
  <2>2. CASE Pay(kind, tipper, items, k)
    <3> SUFFICES ASSUME NEW a \in Account
                 PROVE  pending'[a] =< SumFunctionOnSet(gistTotal', GistsBy(a)')
        BY DEF OwedForOwnGists
    <3> DEFINE S == GistsBy(a)
               total == [g \in GistId |-> GrossFor(items, g)]
    <3>1. GistsBy(a)' = S
        BY <2>2 DEF Pay, GistsBy
    <3>2. /\ pending'[a] = pending[a] + NetTo(items, a)
          /\ \A g \in GistId : gistTotal'[g] = gistTotal[g] + total[g]
        BY <2>2 DEF Pay, Credit, AddToGistTotals
    <3>3. NetTo(items, a) \in Nat /\ \A g \in GistId : total[g] \in Nat
        BY <2>2, Split DEF Pay
    <3>4. IsFiniteSet(S) /\ S \subseteq GistId
          /\ NetTo(items, a) =< SumFunctionOnSet(total, S)
        BY <2>2, PaidForOwnGists DEF GistsBy
    <3>5. pending[a] =< SumFunctionOnSet(gistTotal, S)
        BY DEF OwedForOwnGists
    <3>6. \A g \in S : /\ gistTotal[g] \in Nat /\ total[g] \in Nat
                       /\ gistTotal'[g] = gistTotal[g] + total[g]
        BY <1>0, <3>2, <3>3, <3>4
    <3> HIDE DEF S, total
    <3>7. SumFunctionOnSet(gistTotal', S)
            = SumFunctionOnSet(gistTotal, S) + SumFunctionOnSet(total, S)
        BY <3>4, <3>6, SumAdd
    <3>8. SumFunctionOnSet(gistTotal, S) \in Nat /\ SumFunctionOnSet(total, S) \in Nat
        BY <3>4, <3>6, SumNat
    <3>9. pending[a] \in Nat
        BY <1>0
    <3> QED BY <3>1, <3>2, <3>3, <3>4, <3>5, <3>7, <3>8, <3>9
  <2> QED BY <1>4, <2>1, <2>2
<1>5. ASSUME NEW a \in Account, NEW v, \/ Initialize(a, v)
                                       \/ SetRegistryAddress(a, v)
                                       \/ SetFeeBps(a, v)
                                       \/ SetTreasury(a, v)
                                       \/ DirectTransfer(a, v)
      PROVE  OwedForOwnGists'
    BY <1>2, <1>5 DEF Initialize, SetRegistryAddress, SetFeeBps, SetTreasury,
                      DirectTransfer
<1>6. ASSUME NEW t \in Tipper, NEW a \in Account, NEW g \in GistId,
             NEW x \in Amount, NEW k \in Key, TipAuthor(t, a, g, x, k)
      PROVE  OwedForOwnGists'
    BY <1>4, <1>6, SingleTip, AccountAssumption DEF TipAuthor
<1>7. ASSUME NEW t \in Tipper, NEW b \in Batches, NEW k \in Key, TipAuthors(t, b, k)
      PROVE  OwedForOwnGists'
    BY <1>4, <1>7, AccountAssumption, InputAssumption DEF TipAuthors
<1>8. ASSUME NEW c \in Account, ClaimTips(c)
      PROVE  OwedForOwnGists'
  <2> SUFFICES ASSUME NEW a \in Account
               PROVE  pending'[a] =< SumFunctionOnSet(gistTotal', GistsBy(a)')
      BY DEF OwedForOwnGists
  <2>1. pending'[a] =< pending[a] /\ gistTotal' = gistTotal
    <3>1. pending' = [pending EXCEPT ![c] = 0] /\ gistTotal' = gistTotal
        BY <1>8 DEF ClaimTips
    <3> QED BY <1>0, <3>1
  <2>2. GistsBy(a)' = GistsBy(a)
      BY <1>8 DEF ClaimTips, GistsBy
  <2> QED BY <1>1, <2>1, <2>2
<1>9. ASSUME NEW r \in Registry, NEW g \in GistId, NEW b \in Author, PostGist(r, g, b)
      PROVE  OwedForOwnGists'
  <2>1. \A a \in Account : GistsBy(a) \subseteq GistsBy(a)'
    <3> TAKE a \in Account
    <3>1. ASSUME NEW s \in Registry, NEW h \in GistId, gists[s][h].author = a
          PROVE  gists'[s][h].author = a
      <4>1. ~ (s = r /\ h = g)
        <5>1. gists[r][g].author = NoAddress
            BY <1>9 DEF PostGist, Unposted
        <5> QED BY <3>1, <5>1, AccountAssumption DEF Address
      <4>2. gists'[s][h] = gists[s][h]
          BY <1>9, <4>1 DEF PostGist, TypeOK
      <4> QED BY <3>1, <4>2
    <3> QED BY <3>1, GistsByGrows
  <2> QED BY <1>3, <1>9, <2>1 DEF PostGist
<1>10. ASSUME NEW r \in Registry, NEW ids \in SUBSET GistId, ExpireGists(r, ids)
       PROVE  OwedForOwnGists'
  <2>1. \A s \in Registry, h \in GistId : gists[s][h] \in Gist
      BY DEF TypeOK
  <2>2. \A s \in Registry, h \in GistId : gists'[s][h].author = gists[s][h].author
    <3> TAKE s \in Registry, h \in GistId
    <3>1. [gists[s][h] EXCEPT !.is_active = FALSE].author = gists[s][h].author
        BY <2>1 DEF Gist
    <3>2. gists'[s][h] \in {gists[s][h], [gists[s][h] EXCEPT !.is_active = FALSE]}
        BY <1>10 DEF ExpireGists, TypeOK
    <3> QED BY <3>1, <3>2
  <2>3. \A a \in Account : GistsBy(a) \subseteq GistsBy(a)'
      BY <2>2, GistsByGrows
  <2> QED BY <1>3, <1>10, <2>3 DEF ExpireGists
<1>11. ASSUME NEW lost \in SUBSET (Registry \X GistId), CloseLedger(lost)
       PROVE  OwedForOwnGists'
  <2>1. \A s \in Registry, h \in GistId : gists[s][h] \in Gist
      BY DEF TypeOK
  <2>2. \A s \in Registry, h \in GistId : gists'[s][h].author = gists[s][h].author
    <3> TAKE s \in Registry, h \in GistId
    <3>1. Evicted(gists[s][h]).author = gists[s][h].author
        BY <2>1 DEF Gist, Evicted
    <3>2. gists'[s][h] \in {gists[s][h], Evicted(gists[s][h])}
        BY <1>11 DEF CloseLedger
    <3> QED BY <3>1, <3>2
  <2>3. \A a \in Account : GistsBy(a) \subseteq GistsBy(a)'
      BY <2>2, GistsByGrows
  <2> QED BY <1>3, <1>11, <2>3 DEF CloseLedger
<1>12. CASE OtherTransaction \/ UNCHANGED vars
    BY <1>2, <1>12 DEF OtherTransaction, vars
<1> QED BY <1>5, <1>6, <1>7, <1>8, <1>9, <1>10, <1>11, <1>12, AccountAssumption
        DEF Next, VaultStep, EnvironmentStep

(* No author is owed more than the totals of gist ids that author posted,   *)
(* whatever registries the vault has been pointed at.                       *)
THEOREM OwedOnlyForOwnGists == Spec => []OwedForOwnGists
<1>1. Init => OwedForOwnGists
  <2> SUFFICES ASSUME Init, NEW a \in Account
               PROVE  pending[a] =< SumFunctionOnSet(gistTotal, GistsBy(a))
      BY DEF OwedForOwnGists
  <2>1. IsFiniteSet(GistsBy(a)) /\ \A g \in GistsBy(a) : gistTotal[g] = 0
      BY AccountAssumption, FS_Subset DEF GistsBy, Init
  <2>2. SumFunctionOnSet(gistTotal, GistsBy(a)) = 0
      BY <2>1, SumZero
  <2> QED BY <2>2 DEF Init
<1>2. TypeOK /\ TypeOK' /\ OwedForOwnGists /\ [Next]_vars => OwedForOwnGists'
    BY OwedStep
<1> QED BY <1>1, <1>2, TypeCorrect, PTL DEF Spec

-----------------------------------------------------------------------------
(* Where the money goes.                                                    *)

(* Authors only receive claims, treasuries only receive fees, and nothing   *)
(* reaches the vault but tips.                                              *)
Apart ==
    /\ Vault \notin Treasury /\ Donation = {}
    /\ Author \cap Treasury = {}
    /\ Tipper \cap Author = {} /\ Tipper \cap Treasury = {}

Tipped == SumFunctionOnSet(gistTotal, GistId)

(* Who can be owed: GrossAccounted alone says nothing of whom a claim pays. *)
PayeesAreAuthors ==
    /\ \A r \in Registry, g \in GistId : gists[r][g].author \in Author \cup {NoAddress}
    /\ \A a \in Account : pending[a] > 0 => a \in Author

MoneyInv == PayeesAreAuthors /\ GrossAccounted /\ FeeCap

(* Gains change with the balances of their accounts alone.                  *)
LEMMA GainsAgree ==
    ASSUME TypeOK, TypeOK', NEW accts \in SUBSET Address, IsFiniteSet(accts),
           \A a \in accts : balance'[a] = balance[a]
    PROVE  Gains(accts)' = Gains(accts) /\ Gains(accts) \in Int
<1> DEFINE f == [a \in Address |-> balance[a] - InitialBalance[a]]
           g == [a \in Address |-> balance'[a] - InitialBalance[a]]
<1>1. \A a \in accts : f[a] \in Int /\ f[a] = g[a]
    BY InputAssumption DEF TypeOK
<1>2. Gains(accts) = SumFunctionOnSet(f, accts) /\ Gains(accts)' = SumFunctionOnSet(g, accts)
    BY DEF Gains
<1> HIDE DEF f, g
<1> QED BY <1>1, <1>2, SumAgree, SumInt

(* Gains after one account of a set has gained.                             *)
LEMMA GainsUpdate ==
    ASSUME TypeOK, TypeOK', NEW accts \in SUBSET Address, IsFiniteSet(accts),
           NEW y \in accts, NEW n \in Int, balance'[y] = balance[y] + n,
           \A a \in accts : a # y => balance'[a] = balance[a]
    PROVE  Gains(accts)' = Gains(accts) + n /\ Gains(accts) \in Int
<1> DEFINE f == [a \in Address |-> balance[a] - InitialBalance[a]]
           g == [a \in Address |-> balance'[a] - InitialBalance[a]]
<1>1. /\ \A a \in accts : f[a] \in Int /\ (a # y => g[a] = f[a])
      /\ g[y] \in Int /\ g[y] - f[y] = n
  <2>1. \A a \in Address : balance[a] \in Nat /\ balance'[a] \in Nat
                               /\ InitialBalance[a] \in Nat
      BY InputAssumption DEF TypeOK
  <2>2. \A a \in accts : /\ f[a] = balance[a] - InitialBalance[a]
                           /\ g[a] = balance'[a] - InitialBalance[a]
      OBVIOUS
  <2> HIDE DEF f, g
  <2>3. \A a \in accts : f[a] \in Int /\ (a # y => g[a] = f[a])
      BY <2>1, <2>2
  <2>4. g[y] \in Int /\ g[y] - f[y] = n
      BY <2>1, <2>2
  <2> QED BY <2>3, <2>4
<1>2. Gains(accts) = SumFunctionOnSet(f, accts) /\ Gains(accts)' = SumFunctionOnSet(g, accts)
    BY DEF Gains
<1> HIDE DEF f, g
<1>3. SumFunctionOnSet(g, accts) = SumFunctionOnSet(f, accts) + g[y] - f[y]
    BY <1>1, SumUpdate
<1>4. SumFunctionOnSet(f, accts) \in Int
    BY <1>1, SumInt
<1> QED BY <1>1, <1>2, <1>3, <1>4

(* The accounts that gain are finite in number.                             *)
LEMMA FinitePayees ==
    /\ IsFiniteSet(Author) /\ Author \subseteq Address
    /\ IsFiniteSet(Treasury) /\ Treasury \subseteq Address
<1>1. IsFiniteSet(Account) /\ Author \subseteq Account /\ Treasury \subseteq Address
      /\ Address = Account \cup {Vault}
    BY AccountAssumption DEF Address
<1>2. IsFiniteSet(Address)
    BY <1>1, FS_AddElement
<1> QED BY <1>1, <1>2, FS_Subset

(* No item's fee is more than MAX_FEE_BPS of its amount, so neither is the  *)
(* sum of a batch's fees.                                                   *)
LEMMA FeesCapped ==
    ASSUME TypeOK, NEW items \in Seq(Item), \A i \in DOMAIN items : items[i].amount > 0
    PROVE  Fees(items) * BPS_DENOMINATOR =< MAX_FEE_BPS * Gross(items)
<1> DEFINE D == DOMAIN items
           fee == [i \in D |-> Fee(items[i].amount)]
           gross == [i \in D |-> items[i].amount]
           scaledFee == [i \in D |-> BPS_DENOMINATOR * fee[i]]
           scaledGross == [i \in D |-> MAX_FEE_BPS * gross[i]]
<1>1. /\ feeBps \in Nat /\ feeBps =< MAX_FEE_BPS /\ MAX_FEE_BPS \in Nat
      /\ BPS_DENOMINATOR \in Nat \ {0}
    BY NumberAssumption DEF TypeOK
<1>2. /\ IsFiniteSet(D)
      /\ \A i \in D : items[i].amount \in Nat /\ Fee(items[i].amount) \in Nat
    BY ItemFacts
<1>3. ASSUME NEW x \in Nat, Fee(x) \in Nat
      PROVE  BPS_DENOMINATOR * Fee(x) =< MAX_FEE_BPS * x
  <2>1. CASE feeBps = 0
    <3>1. Fee(x) = 0
        BY <2>1 DEF Fee
    <3>2. MAX_FEE_BPS * x \in Nat /\ BPS_DENOMINATOR * 0 = 0
        BY <1>1
    <3> QED BY <3>1, <3>2
  <2>2. CASE feeBps > 0
    <3> DEFINE p == x * feeBps
               q == p \div BPS_DENOMINATOR
    <3>1. Fee(x) = q
        BY <2>2 DEF Fee
    <3>2. p \in Nat /\ p =< MAX_FEE_BPS * x
        BY <1>1
    <3>3. q * BPS_DENOMINATOR =< p /\ q \in Int
      <4> HIDE DEF p
      <4> QED BY <1>1, <3>2
    <3> HIDE DEF p, q
    <3>4. BPS_DENOMINATOR * q = q * BPS_DENOMINATOR /\ BPS_DENOMINATOR * q \in Int
          /\ MAX_FEE_BPS * x \in Int
        BY <1>1, <3>3
    <3> QED BY <3>1, <3>2, <3>3, <3>4
  <2> QED BY <1>1, <2>1, <2>2
<1>4. \A i \in D : /\ fee[i] \in Int /\ gross[i] \in Int
                    /\ scaledFee[i] = BPS_DENOMINATOR * fee[i]
                    /\ scaledGross[i] = MAX_FEE_BPS * gross[i]
    BY <1>2
<1>5. \A i \in D : scaledFee[i] \in Int /\ scaledGross[i] \in Int
                    /\ scaledFee[i] =< scaledGross[i]
  <2> TAKE i \in D
  <2>1. fee[i] = Fee(items[i].amount) /\ gross[i] = items[i].amount
      OBVIOUS
  <2>2. BPS_DENOMINATOR * fee[i] =< MAX_FEE_BPS * gross[i]
      BY <1>2, <1>3, <2>1
  <2> HIDE DEF fee, gross, scaledFee, scaledGross
  <2> QED BY <1>1, <1>4, <2>2
<1>6. Fees(items) = SumFunctionOnSet(fee, D) /\ Gross(items) = SumFunctionOnSet(gross, D)
    BY DEF Fees, Gross
<1> HIDE DEF D, fee, gross, scaledFee, scaledGross
<1>7. SumFunctionOnSet(scaledFee, D) = BPS_DENOMINATOR * SumFunctionOnSet(fee, D)
      /\ SumFunctionOnSet(scaledGross, D) = MAX_FEE_BPS * SumFunctionOnSet(gross, D)
    BY <1>1, <1>2, <1>4, SumScale
<1>8. SumFunctionOnSet(scaledFee, D) =< SumFunctionOnSet(scaledGross, D)
    BY <1>2, <1>5, SumLeq
<1>9. SumFunctionOnSet(fee, D) \in Int
    BY <1>2, <1>4, SumInt
<1>10. BPS_DENOMINATOR * SumFunctionOnSet(fee, D) = SumFunctionOnSet(fee, D) * BPS_DENOMINATOR
    BY <1>1, <1>9
<1> QED BY <1>6, <1>7, <1>8, <1>10

(* What a payment does: the treasury gains the fees, and the gist totals    *)
(* the gross amount.                                                        *)
LEMMA PayGains ==
    ASSUME Apart, TypeOK, TypeOK', NEW items \in Seq(Item), NEW tipper \in Tipper,
           NEW key \in Key, NEW kind, Pay(kind, tipper, items, key)
    PROVE  /\ Gains(Author)' = Gains(Author) /\ Gains(Author) \in Int
           /\ Gains(Treasury)' = Gains(Treasury) + Fees(items) /\ Gains(Treasury) \in Int
           /\ Tipped' = Tipped + Gross(items) /\ Tipped \in Nat
<1> DEFINE gross == Gross(items)
           fees == Fees(items)
           D == DOMAIN items
           amount == [i \in D |-> items[i].amount]
           id == [i \in D |-> items[i].gist_id]
           total == [g \in GistId |-> GrossFor(items, g)]
<1>1. /\ \A i \in D : items[i].amount > 0
      /\ gross \in Nat /\ fees \in Nat /\ (fees > 0 => feeBps > 0)
      /\ \A g \in GistId : GrossFor(items, g) \in Nat
  <2>1. \A i \in DOMAIN items : items[i].amount > 0
      BY DEF Pay
  <2>2. /\ Gross(items) \in Nat /\ Fees(items) \in 0 .. Gross(items)
        /\ Fees(items) > 0 => feeBps > 0
        /\ \A g \in GistId : GrossFor(items, g) \in Nat
    <3> HIDE DEF D
    <3> QED BY <2>1, Split
  <2> QED BY <2>1, <2>2
<1>2. /\ tipper \in Address /\ Vault \in Address /\ tipper # Vault
      /\ Vault \notin Author /\ Vault \notin Treasury
      /\ tipper \notin Author /\ tipper \notin Treasury
    BY AccountAssumption DEF Address, Apart
<1>3. balance \in [Address -> Nat] /\ gross =< balance[tipper]
    BY DEF TypeOK, Pay
<1> DEFINE escrowed == Transfer(balance, tipper, Vault, gross)
<1>4. balance' = IF fees > 0 THEN Transfer(escrowed, Vault, treasury, fees) ELSE escrowed
    BY DEF Pay, SplitFunds
<1>5. fees > 0 => treasury \in Treasury
    BY <1>1 DEF Pay, TypeOK
<1> HIDE DEF gross, fees
<1>6. /\ escrowed = [balance EXCEPT ![tipper] = @ - gross, ![Vault] = @ + gross]
      /\ \A a \in Address \ {tipper, Vault} : escrowed[a] = balance[a]
      /\ escrowed \in [Address -> Nat]
    BY <1>1, <1>2, <1>3, TransferEffect DEF Transfer
<1> HIDE DEF escrowed
<1>7. \A a \in Author : balance'[a] = balance[a]
  <2> TAKE a \in Author
  <2>1. a \in Address /\ a # tipper /\ a # Vault /\ a \notin Treasury
      BY <1>2, FinitePayees DEF Apart
  <2>2. CASE fees > 0
      BY <1>2, <1>4, <1>5, <1>6, <2>1, <2>2 DEF Transfer
  <2>3. CASE ~ (fees > 0)
      BY <1>4, <1>6, <2>1, <2>3
  <2> QED BY <2>2, <2>3
<1>8. Gains(Author)' = Gains(Author) /\ Gains(Author) \in Int
    BY <1>7, FinitePayees, GainsAgree
<1>9. \A a \in Treasury : a \in Address /\ a # tipper /\ a # Vault /\ escrowed[a] = balance[a]
    BY <1>2, <1>6, FinitePayees
<1>10. Gains(Treasury)' = Gains(Treasury) + fees /\ Gains(Treasury) \in Int
  <2>1. CASE fees > 0
    <3>1. treasury \in Treasury /\ treasury # Vault /\ treasury \in Address
        BY <1>2, <1>5, <2>1, FinitePayees
    <3>2. balance' = [escrowed EXCEPT ![Vault] = @ - fees, ![treasury] = @ + fees]
        BY <1>4, <2>1, <3>1 DEF Transfer
    <3>3. balance'[treasury] = balance[treasury] + fees
        BY <1>6, <1>9, <3>1, <3>2
    <3>4. \A a \in Treasury : a # treasury => balance'[a] = balance[a]
        BY <1>6, <1>9, <3>1, <3>2
    <3> QED BY <1>1, <3>1, <3>3, <3>4, FinitePayees, GainsUpdate DEF fees
  <2>2. CASE ~ (fees > 0)
    <3>1. fees = 0 /\ \A a \in Treasury : balance'[a] = balance[a]
        BY <1>1, <1>4, <1>9, <2>2 DEF fees
    <3>2. Gains(Treasury)' = Gains(Treasury) /\ Gains(Treasury) \in Int
        BY <3>1, FinitePayees, GainsAgree
    <3> QED BY <3>1, <3>2
  <2> QED BY <2>1, <2>2
<1>11. Tipped' = Tipped + gross /\ Tipped \in Nat
  <2>1. /\ IsFiniteSet(D) /\ IsFiniteSet(GistId)
        /\ \A i \in D : amount[i] \in Int /\ id[i] \in GistId
      BY <1>1, ItemFacts, AccountAssumption
  <2>2. \A g \in GistId : total[g] = SumFunctionOnSet(amount, Part(D, id, g))
    <3> TAKE g \in GistId
    <3>1. {i \in D : items[i].gist_id = g} = Part(D, id, g)
        BY DEF Part
    <3>2. total[g] = GrossFor(items, g)
        OBVIOUS
    <3> HIDE DEF total, id
    <3> QED BY <3>1, <3>2 DEF GrossFor
  <2>3. gross = SumFunctionOnSet(amount, D)
      BY DEF gross, Gross
  <2>4. \A g \in GistId : /\ gistTotal[g] \in Nat /\ total[g] \in Nat
                           /\ gistTotal'[g] = gistTotal[g] + total[g]
      BY <1>1 DEF Pay, AddToGistTotals, TypeOK
  <2> HIDE DEF D, amount, id, total
  <2>5. SumFunctionOnSet(total, GistId) = SumFunctionOnSet(amount, D)
      BY <2>1, <2>2, SumByGroup
  <2>6. Tipped' = Tipped + SumFunctionOnSet(total, GistId)
      BY <2>1, <2>4, SumAdd DEF Tipped
  <2>7. Tipped \in Nat
      BY <2>1, <2>4, SumNat DEF Tipped
  <2> QED BY <2>3, <2>5, <2>6, <2>7
<1> QED BY <1>8, <1>10, <1>11 DEF gross, fees

(* A payment keeps the money accounted for.                                 *)
LEMMA PayMoney ==
    ASSUME Apart, TypeOK, TypeOK', MoneyInv, NEW items \in Seq(Item), NEW tipper \in Tipper,
           NEW key \in Key, NEW kind, Pay(kind, tipper, items, key)
    PROVE  MoneyInv'
<1>1. /\ Gains(Author)' = Gains(Author) /\ Gains(Author) \in Int
      /\ Gains(Treasury)' = Gains(Treasury) + Fees(items) /\ Gains(Treasury) \in Int
      /\ Tipped' = Tipped + Gross(items) /\ Tipped \in Nat
    BY PayGains
<1>2. \A i \in DOMAIN items : items[i].amount > 0 /\ Tippable(items[i])
    BY DEF Pay
<1>3. /\ Gross(items) \in Nat /\ Fees(items) \in Nat
      /\ Fees(items) * BPS_DENOMINATOR =< MAX_FEE_BPS * Gross(items)
  <2>1. \A i \in DOMAIN items : items[i].amount > 0
      BY <1>2
  <2>2. Gross(items) \in Nat /\ Fees(items) \in 0 .. Gross(items)
      BY <2>1, Split
  <2> QED BY <2>1, <2>2, FeesCapped
<1>4. Owed' = Owed + (Gross(items) - Fees(items)) /\ Owed \in Int
  <2>1. tipper \in Account
      BY AccountAssumption
  <2>2. \A a \in Account : pending[a] \in Nat
      BY DEF TypeOK
  <2> QED BY <2>1, <2>2, PayDebts, SumNat, AccountAssumption DEF Owed
<1>5. GrossAccounted'
    BY <1>1, <1>3, <1>4, SMTT(30) DEF MoneyInv, GrossAccounted, Tipped
<1>6. FeeCap'
  <2>1. BPS_DENOMINATOR \in Nat /\ MAX_FEE_BPS \in Nat
      BY NumberAssumption
  <2> DEFINE gains == Gains(Treasury)
             fees == Fees(items)
             tipped == Tipped
             gross == Gross(items)
  <2>2. gains * BPS_DENOMINATOR =< MAX_FEE_BPS * tipped
      BY DEF MoneyInv, FeeCap, Tipped
  <2>3. gains \in Int /\ fees \in Nat /\ tipped \in Nat /\ gross \in Nat
        /\ fees * BPS_DENOMINATOR =< MAX_FEE_BPS * gross
      BY <1>1, <1>3
  <2>4. Gains(Treasury)' = gains + fees /\ SumFunctionOnSet(gistTotal', GistId) = tipped + gross
      BY <1>1 DEF Tipped
  <2> HIDE DEF gains, fees, tipped, gross
  <2>5. (gains + fees) * BPS_DENOMINATOR = gains * BPS_DENOMINATOR + fees * BPS_DENOMINATOR
        /\ MAX_FEE_BPS * (tipped + gross) = MAX_FEE_BPS * tipped + MAX_FEE_BPS * gross
      BY <2>1, <2>3
  <2>6. {gains * BPS_DENOMINATOR, fees * BPS_DENOMINATOR, MAX_FEE_BPS * tipped,
         MAX_FEE_BPS * gross} \subseteq Int
      BY <2>1, <2>3
  <2>7. (gains + fees) * BPS_DENOMINATOR =< MAX_FEE_BPS * (tipped + gross)
      BY <2>2, <2>3, <2>5, <2>6, SMTT(30)
  <2> QED BY <2>4, <2>7 DEF FeeCap
<1>7. PayeesAreAuthors'
  <2>1. gists' = gists
      BY DEF Pay
  <2>2. ASSUME NEW a \in Account, pending'[a] > 0 PROVE a \in Author
    <3>1. pending'[a] = pending[a] + NetTo(items, a) /\ pending[a] \in Nat
        BY DEF Pay, Credit, TypeOK
    <3>2. CASE pending[a] > 0
        BY <3>2 DEF MoneyInv, PayeesAreAuthors
    <3>3. CASE {i \in DOMAIN items : items[i].recipient = a} # {}
      <4>1. PICK i \in DOMAIN items : items[i].recipient = a
          BY <3>3
      <4>2. registry \in Registry /\ items[i].gist_id \in GistId
          BY <1>2, ItemFacts, AccountAssumption DEF Pay, TypeOK
      <4>3. gists[registry][items[i].gist_id].author = a
          BY <1>2, <4>1 DEF Tippable
      <4> QED BY <4>2, <4>3, AccountAssumption DEF MoneyInv, PayeesAreAuthors, Address
    <3>4. CASE {i \in DOMAIN items : items[i].recipient = a} = {}
      <4>1. NetTo(items, a) = 0
          BY <3>4, SumEmpty DEF NetTo
      <4> QED BY <2>2, <3>1, <3>2, <4>1
    <3> QED BY <3>3, <3>4
  <2> QED BY <2>1, <2>2 DEF MoneyInv, PayeesAreAuthors
<1> QED BY <1>5, <1>6, <1>7 DEF MoneyInv

(* What a claim does: an author gains what was pending.                     *)
LEMMA ClaimMoney ==
    ASSUME Apart, TypeOK, TypeOK', MoneyInv, NEW c \in Account, ClaimTips(c)
    PROVE  MoneyInv'
<1>1. /\ pending \in [Account -> Nat] /\ pending[c] > 0 /\ pending[c] \in Nat
      /\ pending' = [pending EXCEPT ![c] = 0]
      /\ balance' = Transfer(balance, Vault, c, pending[c])
      /\ gistTotal' = gistTotal /\ gists' = gists
    BY DEF ClaimTips, TypeOK
<1>2. c \in Author /\ c \notin Treasury
    BY <1>1 DEF MoneyInv, PayeesAreAuthors, Apart
<1>3. /\ Vault \in Address /\ c \in Address /\ Vault # c
      /\ Vault \notin Author /\ Vault \notin Treasury
    BY AccountAssumption DEF Address, Apart
<1>4. /\ balance'[c] = balance[c] + pending[c]
      /\ \A a \in Address \ {c, Vault} : balance'[a] = balance[a]
    BY <1>1, <1>3 DEF Transfer, TypeOK
<1>5. Gains(Author)' = Gains(Author) + pending[c] /\ Gains(Author) \in Int
  <2>1. \A a \in Author : a # c => balance'[a] = balance[a]
      BY <1>3, <1>4, FinitePayees
  <2> QED BY <1>1, <1>2, <1>4, <2>1, FinitePayees, GainsUpdate
<1>6. Gains(Treasury)' = Gains(Treasury) /\ Gains(Treasury) \in Int
  <2>1. \A a \in Treasury : balance'[a] = balance[a]
      BY <1>2, <1>3, <1>4, FinitePayees
  <2> QED BY <2>1, FinitePayees, GainsAgree
<1>7. Owed' = Owed - pending[c] /\ Owed \in Int
  <2>1. pending'[c] = 0 /\ \A a \in Account : pending[a] \in Int
                                               /\ (a # c => pending'[a] = pending[a])
      BY <1>1
  <2>2. Owed' = Owed + pending'[c] - pending[c]
      BY <2>1, SumUpdate, AccountAssumption DEF Owed
  <2>3. Owed \in Int
      BY <2>1, SumInt, AccountAssumption DEF Owed
  <2> QED BY <1>1, <2>1, <2>2, <2>3
<1>8. GrossAccounted' /\ FeeCap'
    BY <1>1, <1>5, <1>6, <1>7 DEF MoneyInv, GrossAccounted, FeeCap
<1>9. PayeesAreAuthors'
  <2>1. \A a \in Account : pending'[a] > 0 => pending[a] > 0
      BY <1>1
  <2> QED BY <1>1, <2>1 DEF MoneyInv, PayeesAreAuthors
<1> QED BY <1>8, <1>9 DEF MoneyInv

(* Every step does.                                                         *)
LEMMA MoneyStep ==
    ASSUME Apart, TypeOK, TypeOK', MoneyInv, [Next]_vars
    PROVE  MoneyInv'
<1> USE DEF config, accounts
<1>1. ASSUME UNCHANGED <<pending, gistTotal, balance>>,
             \A r \in Registry, g \in GistId :
                 gists'[r][g].author \in Author \cup {NoAddress}
      PROVE  MoneyInv'
  <2>1. /\ GrossAccounted' /\ FeeCap'
      BY <1>1 DEF MoneyInv, GrossAccounted, FeeCap, Owed, Gains
  <2> QED BY <1>1, <2>1 DEF MoneyInv, PayeesAreAuthors
<1>2. ASSUME UNCHANGED <<pending, gistTotal, balance, gists>>
      PROVE  MoneyInv'
    BY <1>1, <1>2 DEF MoneyInv, PayeesAreAuthors
<1>3. ASSUME NEW items \in Seq(Item), NEW tipper \in Tipper, NEW k \in Key, NEW kind,
             Replay(kind, tipper, items, k) \/ Pay(kind, tipper, items, k)
      PROVE  MoneyInv'
  <2>1. CASE Replay(kind, tipper, items, k)
      BY <1>2, <2>1 DEF Replay
  <2> QED BY <1>3, <2>1, PayMoney
<1>4. ASSUME NEW a \in Account, NEW v, \/ Initialize(a, v)
                                       \/ SetRegistryAddress(a, v)
                                       \/ SetFeeBps(a, v)
                                       \/ SetTreasury(a, v)
      PROVE  MoneyInv'
    BY <1>2, <1>4 DEF Initialize, SetRegistryAddress, SetFeeBps, SetTreasury
<1>5. ASSUME NEW t \in Tipper, NEW a \in Account, NEW g \in GistId,
             NEW x \in Amount, NEW k \in Key, TipAuthor(t, a, g, x, k)
      PROVE  MoneyInv'
    BY <1>3, <1>5, SingleTip DEF TipAuthor
<1>6. ASSUME NEW t \in Tipper, NEW b \in Batches, NEW k \in Key, TipAuthors(t, b, k)
      PROVE  MoneyInv'
    BY <1>3, <1>6, InputAssumption DEF TipAuthors
<1>7. ASSUME NEW a \in Account, NEW x \in Donation, DirectTransfer(a, x)
      PROVE  MoneyInv'
    BY DEF Apart
<1>8. \A s \in Registry, h \in GistId :
         gists[s][h] \in Gist /\ gists[s][h].author \in Author \cup {NoAddress}
    BY DEF TypeOK, MoneyInv, PayeesAreAuthors
<1>9. ASSUME NEW r \in Registry, NEW g \in GistId, NEW b \in Author, PostGist(r, g, b)
      PROVE  MoneyInv'
  <2>1. ASSUME NEW s \in Registry, NEW h \in GistId
        PROVE  gists'[s][h].author \in Author \cup {NoAddress}
    <3>1. gists'[s][h] \in
            {gists[s][h], [state |-> "stored", author |-> b, is_active |-> TRUE]}
        BY <1>9 DEF PostGist, TypeOK
    <3> QED BY <1>8, <3>1
  <2> QED BY <1>1, <1>9, <2>1 DEF PostGist
<1>10. ASSUME NEW r \in Registry, NEW ids \in SUBSET GistId, ExpireGists(r, ids)
       PROVE  MoneyInv'
  <2>1. ASSUME NEW s \in Registry, NEW h \in GistId
        PROVE  gists'[s][h].author \in Author \cup {NoAddress}
    <3>1. [gists[s][h] EXCEPT !.is_active = FALSE].author = gists[s][h].author
        BY <1>8 DEF Gist
    <3>2. gists'[s][h] \in {gists[s][h], [gists[s][h] EXCEPT !.is_active = FALSE]}
        BY <1>10 DEF ExpireGists, TypeOK
    <3> QED BY <1>8, <3>1, <3>2
  <2> QED BY <1>1, <1>10, <2>1 DEF ExpireGists
<1>11. ASSUME NEW lost \in SUBSET (Registry \X GistId), CloseLedger(lost)
       PROVE  MoneyInv'
  <2>1. ASSUME NEW s \in Registry, NEW h \in GistId
        PROVE  gists'[s][h].author \in Author \cup {NoAddress}
    <3>1. Evicted(gists[s][h]).author = gists[s][h].author
        BY <1>8 DEF Gist, Evicted
    <3>2. gists'[s][h] \in {gists[s][h], Evicted(gists[s][h])}
        BY <1>11 DEF CloseLedger
    <3> QED BY <1>8, <3>1, <3>2
  <2> QED BY <1>1, <1>11, <2>1 DEF CloseLedger
<1>12. CASE OtherTransaction \/ UNCHANGED vars
    BY <1>2, <1>12 DEF OtherTransaction, vars
<1> QED BY <1>4, <1>5, <1>6, <1>7, <1>9, <1>10, <1>11, <1>12, ClaimMoney, AccountAssumption
        DEF Next, VaultStep, EnvironmentStep

(* Nothing tipped, nothing to account for.                                  *)
LEMMA MoneyInit == Init => MoneyInv
<1> SUFFICES ASSUME Init PROVE MoneyInv
    OBVIOUS
<1>1. Owed = 0 /\ Tipped = 0
    BY SumZero, AccountAssumption DEF Init, Owed, Tipped
<1>2. \A accts \in {Author, Treasury} : Gains(accts) = 0
  <2> TAKE accts \in {Author, Treasury}
  <2> DEFINE f == [a \in Address |-> balance[a] - InitialBalance[a]]
  <2>1. IsFiniteSet(accts) /\ accts \subseteq Address
      BY FinitePayees
  <2>2. \A a \in accts : f[a] = 0
      BY <2>1, InputAssumption DEF Init
  <2>3. Gains(accts) = SumFunctionOnSet(f, accts)
      BY DEF Gains
  <2> HIDE DEF f
  <2> QED BY <2>1, <2>2, <2>3, SumZero
<1>3. GrossAccounted
    BY <1>1, <1>2 DEF GrossAccounted, Tipped
<1>4. FeeCap
  <2>1. 0 * BPS_DENOMINATOR = 0 /\ MAX_FEE_BPS * 0 = 0
      BY NumberAssumption
  <2> QED BY <1>1, <1>2, <2>1 DEF FeeCap, Tipped
<1>5. PayeesAreAuthors
    BY DEF Init, PayeesAreAuthors, Unposted
<1> QED BY <1>3, <1>4, <1>5 DEF MoneyInv

(* When authors, treasuries and tippers are different accounts and nothing  *)
(* but tips reaches the vault, every unit tipped is pending, or was claimed *)
(* by an author, or went to a treasury.                                     *)
THEOREM GrossIsAccountedFor ==
    ASSUME Apart PROVE Spec => []GrossAccounted
<1>1. Init => MoneyInv
    BY MoneyInit
<1>2. TypeOK /\ TypeOK' /\ MoneyInv /\ [Next]_vars => MoneyInv'
    BY MoneyStep
<1>3. MoneyInv => GrossAccounted
    BY DEF MoneyInv
<1> QED BY <1>1, <1>2, <1>3, TypeCorrect, PTL DEF Spec

(* And the treasuries' share of all that was tipped is at most MAX_FEE_BPS, *)
(* however tips are batched and the rate is changed.                        *)
THEOREM FeesAreCapped ==
    ASSUME Apart PROVE Spec => []FeeCap
<1>1. Init => MoneyInv
    BY MoneyInit
<1>2. TypeOK /\ TypeOK' /\ MoneyInv /\ [Next]_vars => MoneyInv'
    BY MoneyStep
<1>3. MoneyInv => FeeCap
    BY DEF MoneyInv
<1> QED BY <1>1, <1>2, <1>3, TypeCorrect, PTL DEF Spec

-----------------------------------------------------------------------------
(* The loop of tip_authors, turn by turn: GistVault says what it leaves     *)
(* behind, and the two agree.                                               *)

(* One turn of the loop: the item's fee leaves the vault, and the balance   *)
(* and the total are read from where the previous turn wrote them.          *)
Turn(item, before, after) ==
    /\ after.balance = IF Fee(item.amount) > 0
                       THEN Transfer(before.balance, Vault, treasury, Fee(item.amount))
                       ELSE before.balance
    /\ after.pending = [before.pending EXCEPT ![item.recipient] = @ + Net(item.amount)]
    /\ after.gistTotal = [before.gistTotal EXCEPT ![item.gist_id] = @ + item.amount]

(* The states between the turns, after the gross was transferred.           *)
Loop(tipper, items, states) ==
    /\ states[0].balance = Transfer(balance, tipper, Vault, Gross(items))
    /\ states[0].pending = pending /\ states[0].gistTotal = gistTotal
    /\ \A i \in DOMAIN items : Turn(items[i], states[i - 1], states[i])

(* What a call that got as far as the loop has checked.                     *)
Payable(tipper, items) ==
    /\ tipper \in Account /\ items \in Seq(Item)
    /\ \A i \in DOMAIN items : items[i].amount > 0
    /\ Gross(items) =< balance[tipper]
    /\ feeBps > 0 => treasury # NoAddress

-----------------------------------------------------------------------------
(* Balances and totals.                                                     *)

(* What the first n items bring an author and a gist.                       *)
NetUpTo(items, n, a) ==
    SumFunctionOnSet([i \in DOMAIN items |-> Net(items[i].amount)],
                     {i \in 1 .. n : items[i].recipient = a})

GrossUpTo(items, n, g) ==
    SumFunctionOnSet([i \in DOMAIN items |-> items[i].amount],
                     {i \in 1 .. n : items[i].gist_id = g})

(* What the loop leaves pending.                                            *)
LEMMA PendingByLoop ==
    ASSUME TypeOK, NEW tipper, NEW items, Payable(tipper, items),
           NEW states, Loop(tipper, items, states), NEW n \in 0 .. Len(items)
    PROVE  /\ states[n].pending \in [Account -> Int]
           /\ \A a \in Account : states[n].pending[a] = pending[a] + NetUpTo(items, n, a)
<1> DEFINE v == [i \in DOMAIN items |-> Net(items[i].amount)]
           key == [i \in DOMAIN items |-> items[i].recipient]
           s == [i \in 0 .. n |-> states[i].pending]
<1>1. n \in Nat /\ 1 .. n \subseteq DOMAIN items /\ DOMAIN items = 1 .. Len(items)
    BY DEF Payable
<1>2. \A i \in 1 .. n : key[i] \in Account /\ v[i] \in Int
  <2>1. \A i \in DOMAIN items : items[i].recipient \in Account /\ Net(items[i].amount) \in Int
      BY ItemFacts DEF Payable
  <2> QED BY <1>1, <2>1
<1>3. s[0] = pending /\ s[0] \in [Account -> Int]
    BY <1>1 DEF Loop, TypeOK
<1>4. \A i \in 1 .. n : s[i] = [s[i - 1] EXCEPT ![key[i]] = @ + v[i]]
  <2> TAKE i \in 1 .. n
  <2>1. states[i].pending = [states[i - 1].pending EXCEPT ![items[i].recipient] = @ + Net(items[i].amount)]
      BY <1>1 DEF Loop, Turn
  <2>2. s[i] = states[i].pending /\ s[i - 1] = states[i - 1].pending
      BY <1>1
  <2>3. key[i] = items[i].recipient /\ v[i] = Net(items[i].amount)
      BY <1>1
  <2> HIDE DEF s, v, key
  <2> QED BY <2>1, <2>2, <2>3
<1>5. s[n] = states[n].pending
    BY <1>1
<1>6. \A k : Part(1 .. n, key, k) = {i \in 1 .. n : items[i].recipient = k}
    BY <1>1 DEF Part
<1> HIDE DEF s, v, key
<1>7. AddsInTurn(s, v, key, n, Account)
    BY <1>2, <1>3, <1>4 DEF AddsInTurn
<1>8. /\ s[n] \in [Account -> Int]
      /\ \A k \in Account : s[n][k] = s[0][k] + SumFunctionOnSet(v, Part(1 .. n, key, k))
    BY <1>1, <1>7, SumByLoop
<1> QED BY <1>3, <1>5, <1>6, <1>8 DEF v, NetUpTo

(* What it leaves in the totals.                                            *)
LEMMA TotalsByLoop ==
    ASSUME TypeOK, NEW tipper, NEW items, Payable(tipper, items),
           NEW states, Loop(tipper, items, states), NEW n \in 0 .. Len(items)
    PROVE  /\ states[n].gistTotal \in [GistId -> Int]
           /\ \A g \in GistId : states[n].gistTotal[g] = gistTotal[g] + GrossUpTo(items, n, g)
<1> DEFINE v == [i \in DOMAIN items |-> items[i].amount]
           key == [i \in DOMAIN items |-> items[i].gist_id]
           s == [i \in 0 .. n |-> states[i].gistTotal]
<1>1. n \in Nat /\ 1 .. n \subseteq DOMAIN items /\ DOMAIN items = 1 .. Len(items)
    BY DEF Payable
<1>2. \A i \in 1 .. n : key[i] \in GistId /\ v[i] \in Int
  <2>1. \A i \in DOMAIN items : items[i].gist_id \in GistId /\ items[i].amount \in Int
      BY ItemFacts DEF Payable
  <2> QED BY <1>1, <2>1
<1>3. s[0] = gistTotal /\ s[0] \in [GistId -> Int]
    BY <1>1 DEF Loop, TypeOK
<1>4. \A i \in 1 .. n : s[i] = [s[i - 1] EXCEPT ![key[i]] = @ + v[i]]
  <2> TAKE i \in 1 .. n
  <2>1. states[i].gistTotal = [states[i - 1].gistTotal EXCEPT ![items[i].gist_id] = @ + items[i].amount]
      BY <1>1 DEF Loop, Turn
  <2>2. s[i] = states[i].gistTotal /\ s[i - 1] = states[i - 1].gistTotal
      BY <1>1
  <2>3. key[i] = items[i].gist_id /\ v[i] = items[i].amount
      BY <1>1
  <2> HIDE DEF s, v, key
  <2> QED BY <2>1, <2>2, <2>3
<1>5. s[n] = states[n].gistTotal
    BY <1>1
<1>6. \A k : Part(1 .. n, key, k) = {i \in 1 .. n : items[i].gist_id = k}
    BY <1>1 DEF Part
<1> HIDE DEF s, v, key
<1>7. AddsInTurn(s, v, key, n, GistId)
    BY <1>2, <1>3, <1>4 DEF AddsInTurn
<1>8. /\ s[n] \in [GistId -> Int]
      /\ \A k \in GistId : s[n][k] = s[0][k] + SumFunctionOnSet(v, Part(1 .. n, key, k))
    BY <1>1, <1>7, SumByLoop
<1> QED BY <1>3, <1>5, <1>6, <1>8 DEF v, GrossUpTo

-----------------------------------------------------------------------------
(* The fees.                                                                *)

Routed(bal, fees) == IF fees > 0 THEN Transfer(bal, Vault, treasury, fees) ELSE bal

(* Two transfers of fees are one transfer of their sum.                     *)
LEMMA FeesJoin ==
    ASSUME NEW bal \in [Address -> Int], treasury \in Address,
           NEW x \in Nat, NEW y \in Nat
    PROVE  Routed(Routed(bal, x), y) = Routed(bal, x + y)
<1>0. Vault \in Address
    BY DEF Address
<1>1. CASE treasury = Vault
    BY <1>1 DEF Routed, Transfer
<1>2. CASE treasury # Vault
  <2>1. ASSUME NEW b \in [Address -> Int], NEW z \in Nat
        PROVE  /\ Routed(b, z) \in [Address -> Int]
               /\ \A a \in Address :
                     Routed(b, z)[a] = IF a = Vault THEN b[a] - z
                                       ELSE IF a = treasury THEN b[a] + z ELSE b[a]
    <3>1. CASE z > 0
      <4>1. Routed(b, z) = [b EXCEPT ![Vault] = @ - z, ![treasury] = @ + z]
          BY <1>2, <3>1 DEF Routed, Transfer
      <4> QED BY <1>0, <1>2, <4>1
    <3>2. CASE z = 0
      <4>1. Routed(b, z) = b
          BY <3>2 DEF Routed
      <4> QED BY <3>2, <4>1
    <3> QED BY <3>1, <3>2
  <2>2. Routed(bal, x) \in [Address -> Int] /\ x + y \in Nat
      BY <2>1
  <2>3. \A a \in Address : Routed(Routed(bal, x), y)[a] = Routed(bal, x + y)[a]
    <3> TAKE a \in Address
    <3>1. Routed(bal, x)[a] = IF a = Vault THEN bal[a] - x
                              ELSE IF a = treasury THEN bal[a] + x ELSE bal[a]
        BY <2>1
    <3>2. Routed(bal, x + y)[a] = IF a = Vault THEN bal[a] - (x + y)
                                  ELSE IF a = treasury THEN bal[a] + (x + y) ELSE bal[a]
        BY <2>1, <2>2
    <3>3. Routed(Routed(bal, x), y)[a] =
             IF a = Vault THEN Routed(bal, x)[a] - y
             ELSE IF a = treasury THEN Routed(bal, x)[a] + y ELSE Routed(bal, x)[a]
        BY <2>1, <2>2
    <3>4. bal[a] \in Int
        OBVIOUS
    <3> QED BY <3>1, <3>2, <3>3, <3>4
  <2>4. /\ Routed(Routed(bal, x), y) \in [Address -> Int]
        /\ Routed(bal, x + y) \in [Address -> Int]
      BY <2>1, <2>2
  <2> QED BY <2>3, <2>4
<1> QED BY <1>1, <1>2

(* After n turns the fees of n items have left.                             *)
LEMMA BalanceByLoop ==
    ASSUME TypeOK, NEW tipper, NEW items, Payable(tipper, items),
           NEW states, Loop(tipper, items, states)
    PROVE  states[Len(items)].balance =
             Routed(Transfer(balance, tipper, Vault, Gross(items)), Fees(items))
<1> DEFINE n == Len(items)
           fee == [i \in DOMAIN items |-> Fee(items[i].amount)]
           escrowed == Transfer(balance, tipper, Vault, Gross(items))
           paid(i) == SumFunctionOnSet(fee, 1 .. i)
           A == {i \in 0 .. n : states[i].balance = Routed(escrowed, paid(i))}
<1>1. n \in Nat /\ DOMAIN items = 1 .. n
    BY DEF Payable
<1>2. \A i \in 1 .. n : fee[i] = Fee(items[i].amount) /\ fee[i] \in Nat
    BY <1>1, ItemFacts DEF Payable
<1>3. \A i \in 0 .. n : IsFiniteSet(1 .. i) /\ 1 .. i \subseteq 1 .. n
    BY <1>1, FS_Interval
<1>4. \A i \in 0 .. n : paid(i) \in Nat
  <2> HIDE DEF fee
  <2> QED BY <1>2, <1>3, SumNat
<1>5. \A i \in 1 .. n : paid(i) = fee[i] + paid(i - 1) /\ i - 1 \in 0 .. n
  <2> TAKE i \in 1 .. n
  <2>1. i \in 1 .. i /\ (1 .. i) \ {i} = 1 .. i - 1 /\ IsFiniteSet(1 .. i)
      BY <1>3
  <2>2. \A j \in 1 .. i : fee[j] \in Int
      BY <1>2
  <2> HIDE DEF fee
  <2>3. SumFunctionOnSet(fee, 1 .. i) = fee[i] + SumFunctionOnSet(fee, (1 .. i) \ {i})
      BY <2>1, <2>2, SumRemove
  <2>4. i - 1 \in 0 .. n
      BY <1>1
  <2> QED BY <2>1, <2>3, <2>4
<1>6. escrowed \in [Address -> Int]
  <2>1. balance \in [Address -> Nat] /\ tipper \in Address /\ Vault \in Address
        /\ Gross(items) =< balance[tipper]
      BY DEF TypeOK, Payable, Address
  <2>2. Gross(items) \in Nat
    <3>1. /\ IsFiniteSet(DOMAIN items)
          /\ \A i \in DOMAIN items : items[i].amount \in Nat
        BY ItemFacts DEF Payable
    <3> DEFINE f == [i \in DOMAIN items |-> items[i].amount]
    <3>2. \A i \in DOMAIN items : f[i] \in Nat
        BY <3>1
    <3>3. Gross(items) = SumFunctionOnSet(f, DOMAIN items)
        BY DEF Gross
    <3> HIDE DEF f
    <3> QED BY <3>1, <3>2, <3>3, SumNat
  <2>3. escrowed \in [Address -> Nat]
      BY <2>1, <2>2, TransferEffect
  <2> HIDE DEF escrowed
  <2> QED BY <2>3
<1>7. 0 \in A
  <2>1. paid(0) = 0
    <3>1. 1 .. 0 = {}
        OBVIOUS
    <3> QED BY <3>1, SumEmpty
  <2>2. states[0].balance = escrowed
      BY DEF Loop
  <2> HIDE DEF escrowed, paid
  <2> QED BY <1>1, <2>1, <2>2 DEF Routed
<1>8. ASSUME NEW i \in 1 .. n, i - 1 \in A PROVE i \in A
  <2>1. states[i].balance = Routed(states[i - 1].balance, fee[i])
      BY <1>1, <1>2 DEF Loop, Turn, Routed
  <2>2. states[i - 1].balance = Routed(escrowed, paid(i - 1))
      BY <1>8
  <2>3. /\ paid(i - 1) \in Nat /\ fee[i] \in Nat
        /\ paid(i) = paid(i - 1) + fee[i]
    <3> HIDE DEF paid, fee
    <3> QED BY <1>2, <1>4, <1>5
  <2>4. CASE feeBps > 0
    <3>1. treasury \in Address
        BY <2>4, AccountAssumption DEF Payable, TypeOK
    <3> HIDE DEF escrowed, paid, fee
    <3>2. Routed(Routed(escrowed, paid(i - 1)), fee[i]) = Routed(escrowed, paid(i - 1) + fee[i])
        BY <1>6, <2>3, <3>1, FeesJoin
    <3> QED BY <1>1, <2>1, <2>2, <2>3, <3>2
  <2>5. CASE ~ (feeBps > 0)
    <3>1. fee[i] = 0
        BY <1>2, <2>5 DEF Fee
    <3> HIDE DEF escrowed, paid, fee
    <3> QED BY <1>1, <2>1, <2>2, <2>3, <3>1 DEF Routed
  <2> QED BY <2>4, <2>5
<1>9. n \in A
  <2> HIDE DEF A, n
  <2> QED BY <1>1, <1>7, <1>8, CountingInduction
<1>10. paid(n) = Fees(items)
    BY <1>1 DEF Fees
<1> QED BY <1>9, <1>10

-----------------------------------------------------------------------------
(* Results.                                                                 *)

(* The loop of tip_authors leaves balances, totals and tokens as Credit,    *)
(* AddToGistTotals and SplitFunds say, however often the batch names the    *)
(* same author or gist.                                                     *)
THEOREM LoopIsPay ==
    ASSUME TypeOK, NEW tipper, NEW items, Payable(tipper, items),
           NEW states, Loop(tipper, items, states),
           pending' = states[Len(items)].pending,
           gistTotal' = states[Len(items)].gistTotal,
           balance' = states[Len(items)].balance
    PROVE  Credit(items) /\ AddToGistTotals(items) /\ SplitFunds(tipper, items)
<1> DEFINE n == Len(items)
<1>1. n \in 0 .. Len(items) /\ DOMAIN items = 1 .. n
    BY DEF Payable
<1>2. Credit(items)
  <2>1. /\ pending' \in [Account -> Int]
        /\ \A a \in Account : pending'[a] = pending[a] + NetTo(items, a)
    <3>1. \A a : NetUpTo(items, n, a) = NetTo(items, a)
        BY <1>1 DEF NetUpTo, NetTo
    <3> QED BY <1>1, <3>1, PendingByLoop
  <2> QED BY <2>1 DEF Credit
<1>3. AddToGistTotals(items)
  <2>1. /\ gistTotal' \in [GistId -> Int]
        /\ \A g \in GistId : gistTotal'[g] = gistTotal[g] + GrossFor(items, g)
    <3>1. \A g : GrossUpTo(items, n, g) = GrossFor(items, g)
        BY <1>1 DEF GrossUpTo, GrossFor
    <3> QED BY <1>1, <3>1, TotalsByLoop
  <2> QED BY <2>1 DEF AddToGistTotals
<1>4. SplitFunds(tipper, items)
    BY BalanceByLoop DEF SplitFunds, Routed
<1> QED BY <1>2, <1>3, <1>4

(* No entry is larger between two turns than after the last, so a batch     *)
(* overflows in the middle of the loop only if it does at the end, as       *)
(* NoOverflow says.                                                         *)
THEOREM LoopPeaksAtTheEnd ==
    ASSUME TypeOK, NEW tipper, NEW items, Payable(tipper, items),
           NEW states, Loop(tipper, items, states), NEW m \in 0 .. Len(items)
    PROVE  /\ \A a \in Account :
                 states[m].pending[a] =< states[Len(items)].pending[a]
           /\ \A g \in GistId :
                 states[m].gistTotal[g] =< states[Len(items)].gistTotal[g]
<1> DEFINE n == Len(items)
           net == [i \in DOMAIN items |-> Net(items[i].amount)]
           gross == [i \in DOMAIN items |-> items[i].amount]
<1>1. n \in Nat /\ n \in 0 .. Len(items) /\ DOMAIN items = 1 .. n /\ 1 .. m \subseteq 1 .. n
    BY DEF Payable
<1>2. /\ IsFiniteSet(1 .. n)
      /\ \A i \in 1 .. n : net[i] \in Nat /\ gross[i] \in Nat
    BY <1>1, ItemFacts DEF Payable
<1>3. ASSUME NEW a \in Account
      PROVE  states[m].pending[a] =< states[n].pending[a]
  <2> DEFINE S == {i \in 1 .. n : items[i].recipient = a}
             R == {i \in 1 .. m : items[i].recipient = a}
  <2>1. R \in SUBSET S /\ IsFiniteSet(S) /\ IsFiniteSet(R) /\ S \subseteq 1 .. n
      BY <1>1, <1>2, FS_Subset
  <2>2. /\ states[m].pending[a] = pending[a] + SumFunctionOnSet(net, R)
        /\ states[n].pending[a] = pending[a] + SumFunctionOnSet(net, S)
    <3>1. /\ NetUpTo(items, m, a) = SumFunctionOnSet(net, R)
          /\ NetUpTo(items, n, a) = SumFunctionOnSet(net, S)
        BY DEF NetUpTo
    <3> HIDE DEF S, R, net
    <3> QED BY <1>1, <3>1, PendingByLoop
  <2>3. pending[a] \in Nat
      BY DEF TypeOK
  <2> HIDE DEF S, R, net
  <2>4. /\ SumFunctionOnSet(net, R) =< SumFunctionOnSet(net, S)
        /\ SumFunctionOnSet(net, R) \in Nat /\ SumFunctionOnSet(net, S) \in Nat
      BY <1>2, <2>1, SumSubset, SumNat
  <2> QED BY <2>2, <2>3, <2>4
<1>4. ASSUME NEW g \in GistId
      PROVE  states[m].gistTotal[g] =< states[n].gistTotal[g]
  <2> DEFINE S == {i \in 1 .. n : items[i].gist_id = g}
             R == {i \in 1 .. m : items[i].gist_id = g}
  <2>1. R \in SUBSET S /\ IsFiniteSet(S) /\ IsFiniteSet(R) /\ S \subseteq 1 .. n
      BY <1>1, <1>2, FS_Subset
  <2>2. /\ states[m].gistTotal[g] = gistTotal[g] + SumFunctionOnSet(gross, R)
        /\ states[n].gistTotal[g] = gistTotal[g] + SumFunctionOnSet(gross, S)
    <3>1. /\ GrossUpTo(items, m, g) = SumFunctionOnSet(gross, R)
          /\ GrossUpTo(items, n, g) = SumFunctionOnSet(gross, S)
        BY DEF GrossUpTo
    <3> HIDE DEF S, R, gross
    <3> QED BY <1>1, <3>1, TotalsByLoop
  <2>3. gistTotal[g] \in Nat
      BY DEF TypeOK
  <2> HIDE DEF S, R, gross
  <2>4. /\ SumFunctionOnSet(gross, R) =< SumFunctionOnSet(gross, S)
        /\ SumFunctionOnSet(gross, R) \in Nat /\ SumFunctionOnSet(gross, S) \in Nat
      BY <1>2, <2>1, SumSubset, SumNat
  <2> QED BY <2>2, <2>3, <2>4
<1> QED BY <1>3, <1>4
=============================================================================
