------------------------ MODULE AuditedVault_proofs ------------------------
(***************************************************************************)
(* Theorems about the vault and the reconciliation tool together, for      *)
(* every value of their constants: the events of the vault are what the    *)
(* tool's module assumes, and the tool's sums are the vault's storage.     *)
(***************************************************************************)
EXTENDS AuditedVault, GistVault_proofs

(* The tool's theorems.                                                     *)
RP == INSTANCE Reconcile_proofs WITH Author <- Account, Batches <- Published, ledger <- seq

-----------------------------------------------------------------------------
(* The tool's constants and definitions.                                    *)

(* A fee at a rate below the cap is between nothing and the tip.            *)
LEMMA FeeAtBounds ==
    ASSUME NEW x \in Nat, NEW bps \in 0 .. MAX_FEE_BPS
    PROVE  FeeAt(x, bps) \in 0 .. x
<1>1. bps \in Nat /\ bps =< BPS_DENOMINATOR /\ BPS_DENOMINATOR \in Nat \ {0}
    BY NumberAssumption
<1> DEFINE p == x * bps
           q == p \div BPS_DENOMINATOR
<1>2. p \in Nat /\ p =< x * BPS_DENOMINATOR
    BY <1>1
<1>3. q \in Int /\ q * BPS_DENOMINATOR =< p /\ p < (q + 1) * BPS_DENOMINATOR
  <2> HIDE DEF p
  <2> QED BY <1>1, <1>2
<1>4. FeeAt(x, bps) = q
    BY DEF FeeAt
<1> HIDE DEF p, q
<1>5. q >= 0
    BY <1>1, <1>2, <1>3
<1>6. q =< x
    BY <1>1, <1>2, <1>3
<1> QED BY <1>3, <1>4, <1>5, <1>6

(* What is published of a payment is a sequence of tips that add up.        *)
LEMMA SharesAreTips ==
    ASSUME NEW items \in Seq(Item), \A i \in DOMAIN items : items[i].amount > 0,
           NEW bps \in 0 .. MAX_FEE_BPS
    PROVE  /\ Shares(items, bps) \in Seq(RP!TipItem)
           /\ DOMAIN Shares(items, bps) = DOMAIN items
           /\ \A i \in DOMAIN items : LET tip == Shares(items, bps)[i] IN
                 /\ tip.recipient = items[i].recipient /\ tip.gist_id = items[i].gist_id
                 /\ tip.amount = items[i].amount /\ tip.fee = FeeAt(items[i].amount, bps)
                 /\ tip.net = items[i].amount - FeeAt(items[i].amount, bps)
                 /\ tip.amount = tip.fee + tip.net
<1> DEFINE share(i) ==
        [recipient |-> items[i].recipient, gist_id |-> items[i].gist_id,
         amount |-> items[i].amount, fee |-> FeeAt(items[i].amount, bps),
         net |-> items[i].amount - FeeAt(items[i].amount, bps)]
<1>1. Shares(items, bps) = [i \in DOMAIN items |-> share(i)]
    BY Zenon DEF Shares
<1>2. ASSUME NEW i \in DOMAIN items
      PROVE  /\ share(i) \in RP!TipItem
             /\ share(i).amount = share(i).fee + share(i).net
  <2>1. /\ items[i].recipient \in Account /\ items[i].gist_id \in GistId
        /\ items[i].amount \in Nat
    <3>1. items[i] \in Item /\ items[i].amount > 0
        OBVIOUS
    <3> QED BY <3>1 DEF Item
  <2>2. FeeAt(items[i].amount, bps) \in 0 .. items[i].amount
      BY <2>1, FeeAtBounds
  <2>3. items[i].amount - FeeAt(items[i].amount, bps) \in Nat
      BY <2>1, <2>2
  <2> QED BY <2>1, <2>2, <2>3 DEF RP!TipItem
<1>3. Len(items) \in Nat /\ DOMAIN items = 1 .. Len(items)
    OBVIOUS
<1>4. Shares(items, bps) \in Seq(RP!TipItem)
  <2> HIDE DEF share
  <2> QED BY <1>1, <1>2, <1>3
<1> QED BY <1>1, <1>2, <1>4

(* The payments of the vault's callers are sequences of positive items.     *)
LEMMA PaymentsAreItems ==
    ASSUME NEW items \in Payments
    PROVE  items \in Seq(Item) /\ \A i \in DOMAIN items : items[i].amount > 0
BY SingleTip, InputAssumption DEF Payments

(* The assumptions of the tool's theorems hold.                             *)
LEMMA ToolConstants == RP!ReconcileAssumption
<1>1. Published \subseteq Seq(RP!TipItem)
    BY PaymentsAreItems, SharesAreTips DEF Published
<1>2. RP!Encoding = Tool!Encoding
    BY DEF RP!Encoding, Tool!Encoding
<1> QED BY <1>1, <1>2, AuditAssumption, NumberAssumption DEF RP!ReconcileAssumption

(* Sums are the same whichever module's name they have.                     *)
LEMMA SameToolSums ==
    ASSUME NEW f, NEW S
    PROVE  /\ Tool!SumFunctionOnSet(f, S) = SumFunctionOnSet(f, S)
           /\ RP!SumFunctionOnSet(f, S) = SumFunctionOnSet(f, S)
<1>1. Tool!SumFunctionOnSet(f, S) = SumFunctionOnSet(f, S)
    BY Zenon DEF Tool!SumFunctionOnSet, Tool!FoldFunctionOnSet, Tool!MapThenFoldSet,
       SumFunctionOnSet, FoldFunctionOnSet, MapThenFoldSet
<1>2. RP!SumFunctionOnSet(f, S) = SumFunctionOnSet(f, S)
    BY Zenon DEF RP!SumFunctionOnSet, RP!FoldFunctionOnSet, RP!MapThenFoldSet,
       SumFunctionOnSet, FoldFunctionOnSet, MapThenFoldSet
<1> QED BY <1>1, <1>2

(* The tool's steps, and what the properties say of it, are those of its    *)
(* theorems.                                                                *)
LEMMA SameTool ==
    /\ RP!Init <=> Tool!Init
    /\ RP!ToolStep <=> Tool!ToolStep
    /\ RP!VaultStep => Tool!VaultStep
    /\ Tool!vars = RP!vars /\ Tool!vars' = RP!vars'
<1>1. RP!Init <=> Tool!Init
    BY Zenon DEF RP!Init, RP!Nothing, RP!Position, Tool!Init, Tool!Nothing, Tool!Position
<1>2. RP!ToolStep <=> Tool!ToolStep
    BY ZenonT(60)
    DEF RP!ToolStep, RP!Launch, RP!FetchPage, RP!PanicOnPage, RP!RequestFails, RP!node,
        RP!PendingBalance, RP!NetTo, RP!ClaimedBy, RP!Tips, RP!Claims, RP!Position,
        RP!FetchOrder, RP!Matching, RP!Page, RP!Push, RP!NextCursor, RP!EndOfPages,
        RP!Answer, RP!Panics, RP!Decodable, RP!FromRpc, RP!Decode, RP!DriftDetected,
        RP!BadTips, RP!Cardinality, RP!TIPPED_READ, RP!TIPPED_REQUIRED, RP!CLAIMED_READ,
        RP!CLAIMED_REQUIRED, RP!SumFunctionOnSet, RP!FoldFunctionOnSet, RP!MapThenFoldSet,
        RP!PendingBalances, RP!AddedInTurn, Tool!PendingBalances, Tool!AddedInTurn,
        Tool!ToolStep, Tool!Launch, Tool!FetchPage, Tool!PanicOnPage, Tool!RequestFails,
        Tool!node, Tool!PendingBalance, Tool!NetTo, Tool!ClaimedBy, Tool!Tips, Tool!Claims,
        Tool!Position, Tool!FetchOrder, Tool!Matching, Tool!Page, Tool!Push,
        Tool!NextCursor, Tool!EndOfPages, Tool!Answer, Tool!Panics, Tool!Decodable,
        Tool!FromRpc, Tool!Decode, Tool!DriftDetected, Tool!BadTips, Tool!Cardinality,
        Tool!TIPPED_READ, Tool!TIPPED_REQUIRED, Tool!CLAIMED_READ, Tool!CLAIMED_REQUIRED,
        Tool!SumFunctionOnSet, Tool!FoldFunctionOnSet, Tool!MapThenFoldSet
<1>3. RP!VaultStep => Tool!VaultStep
    BY ZenonT(60)
    DEF RP!VaultStep, RP!TipAuthors, RP!ClaimTips, RP!CloseLedger, RP!TippedEvent,
        RP!ClaimedEvent, RP!Owed, RP!Everything, RP!PendingBalance, RP!NetTo, RP!ClaimedBy,
        RP!Tips, RP!Claims, RP!Position, RP!SumFunctionOnSet, RP!FoldFunctionOnSet,
        RP!MapThenFoldSet, RP!OneForm, Tool!OneForm,
        Tool!VaultStep, Tool!TipAuthors, Tool!ClaimTips, Tool!CloseLedger, Tool!TippedEvent,
        Tool!ClaimedEvent, Tool!Owed, Tool!Everything, Tool!PendingBalance, Tool!NetTo,
        Tool!ClaimedBy, Tool!Tips, Tool!Claims, Tool!Position, Tool!SumFunctionOnSet,
        Tool!FoldFunctionOnSet, Tool!MapThenFoldSet
<1>4. Tool!vars = RP!vars /\ Tool!vars' = RP!vars'
    BY DEF Tool!vars, Tool!node, RP!vars, RP!node
<1> QED BY <1>1, <1>2, <1>3, <1>4

(* What the tool adds up.                                                   *)
LEMMA SameReport ==
    /\ \A f, h, a : Tool!PendingBalance(f, h, a) = RP!PendingBalance(f, h, a)
    /\ \A f, h : Tool!PendingBalances(f, h) = RP!PendingBalances(f, h)
    /\ \A f, g : Tool!GistTotal(f, g) = RP!GistTotal(f, g)
    /\ \A a : Tool!Owed(a) = RP!Owed(a)
    /\ Tool!Everything = RP!Everything /\ Tool!Position = RP!Position
    /\ Tool!Reported <=> RP!Reported
    /\ \A i : Tool!InRange(i) <=> RP!InRange(i)
    /\ Tool!Decodable = RP!Decodable
    /\ Tool!Claims = RP!Claims
<1>1. \A f, h, a : Tool!PendingBalance(f, h, a) = RP!PendingBalance(f, h, a)
    BY SameToolSums, Zenon
       DEF Tool!PendingBalance, Tool!NetTo, Tool!ClaimedBy, Tool!Tips, Tool!Claims,
           RP!PendingBalance, RP!NetTo, RP!ClaimedBy, RP!Tips, RP!Claims
<1>2. \A f, g : Tool!GistTotal(f, g) = RP!GistTotal(f, g)
    BY SameToolSums, Zenon DEF Tool!GistTotal, Tool!Tips, RP!GistTotal, RP!Tips
<1>3. Tool!Everything = RP!Everything /\ Tool!Position = RP!Position
    BY Zenon DEF Tool!Everything, Tool!Position, RP!Everything, RP!Position
<1>4. \A a : Tool!Owed(a) = RP!Owed(a)
    BY <1>1, <1>3, Zenon DEF Tool!Owed, RP!Owed
<1>5. Tool!Reported <=> RP!Reported
    BY DEF Tool!Reported, RP!Reported
<1>6. \A i : Tool!InRange(i) <=> RP!InRange(i)
    BY DEF Tool!InRange, RP!InRange
<1>7. Tool!Decodable = RP!Decodable
    BY Zenon DEF Tool!Decodable, Tool!FromRpc, Tool!Decode, Tool!TIPPED_READ,
       Tool!TIPPED_REQUIRED, Tool!CLAIMED_READ, Tool!CLAIMED_REQUIRED, RP!Decodable,
       RP!FromRpc, RP!Decode, RP!TIPPED_READ, RP!TIPPED_REQUIRED, RP!CLAIMED_READ,
       RP!CLAIMED_REQUIRED
<1>8. Tool!Claims = RP!Claims
    BY DEF Tool!Claims, RP!Claims
<1>9. \A f, h : Tool!PendingBalances(f, h) = RP!PendingBalances(f, h)
    BY Zenon DEF Tool!PendingBalances, Tool!AddedInTurn, Tool!Tips, Tool!Claims,
       RP!PendingBalances, RP!AddedInTurn, RP!Tips, RP!Claims
<1> QED BY <1>1, <1>2, <1>3, <1>4, <1>5, <1>6, <1>7, <1>8, <1>9

-----------------------------------------------------------------------------
(* What a transaction adds to the log.                                      *)

(* The inductive invariant.                                                 *)
AddsUp == \A i \in RP!Tips : log[i].amount = log[i].fee + log[i].net

Told ==
    /\ \A a \in Account : pending[a] = RP!Owed(a)
    /\ \A g \in GistId : gistTotal[g] = RP!GistTotal(RP!Everything, g)

AuditInv == TypeOK /\ RP!RecInv /\ Told /\ AddsUp

(* A transaction that publishes nothing leaves the log alone.               *)
LEMMA SilentStep ==
    ASSUME AuditInv, NEW data, Transaction(data), emitted' = <<>>
    PROVE  log' = log
<1>1. log \in Seq(RP!Event)
    BY DEF AuditInv, RP!RecInv, RP!TypeOK
<1>2. [i \in DOMAIN emitted' |-> Entry(emitted'[i], data)] = <<>>
    BY DEF Transaction
<1>3. log' = log \o <<>>
    BY <1>2 DEF Transaction
<1> QED BY <1>1, <1>3

(* The fee at today's rate is the fee of a tip.                             *)
LEMMA FeeIsFeeAt ==
    ASSUME feeBps \in Nat, BPS_DENOMINATOR \in Nat \ {0}, NEW x \in Nat
    PROVE  FeeAt(x, feeBps) = Fee(x)
<1>1. CASE feeBps > 0
    BY <1>1 DEF FeeAt, Fee
<1>2. CASE feeBps = 0
  <2>1. x * feeBps = 0
      BY <1>2
  <2> QED BY <1>2, <2>1 DEF FeeAt, Fee
<1> QED BY <1>1, <1>2

(* A payment publishes its shares.                                          *)
LEMMA PayPublishes ==
    ASSUME AuditInv, NEW data, Transaction(data), NEW items \in Payments,
           NEW tipper, NEW key, NEW kind, Pay(kind, tipper, items, key)
    PROVE  /\ Shares(items, feeBps) \in Published
           /\ Shares(items, feeBps) \in Seq(RP!TipItem)
           /\ RP!TipAuthors(Shares(items, feeBps), data)
<1>1. items \in Seq(Item) /\ \A i \in DOMAIN items : items[i].amount > 0
    BY PaymentsAreItems
<1>2. feeBps \in 0 .. MAX_FEE_BPS /\ BPS_DENOMINATOR \in Nat \ {0}
    BY NumberAssumption DEF AuditInv, TypeOK
<1>3. Shares(items, feeBps) \in Published
    BY <1>2 DEF Published
<1> DEFINE tips == Shares(items, feeBps)
<1>4. /\ tips \in Seq(RP!TipItem) /\ DOMAIN tips = DOMAIN items
      /\ \A i \in DOMAIN items :
            /\ tips[i].recipient = items[i].recipient /\ tips[i].gist_id = items[i].gist_id
            /\ tips[i].amount = items[i].amount /\ tips[i].fee = FeeAt(items[i].amount, feeBps)
            /\ tips[i].net = items[i].amount - FeeAt(items[i].amount, feeBps)
    BY <1>1, <1>2, SharesAreTips
<1> HIDE DEF tips
<1>5. Len(tips) = Len(items) /\ Len(items) \in Nat /\ DOMAIN items = 1 .. Len(items)
    BY <1>1, <1>4
<1>6. emitted' = [i \in DOMAIN items |-> TippedEvent(items[i])] /\ seq' = seq
    BY DEF Pay
<1>7. Len(emitted') = Len(tips) /\ DOMAIN emitted' = DOMAIN tips
    BY <1>4, <1>5, <1>6
<1>8. ASSUME NEW i \in DOMAIN tips
      PROVE  Entry(emitted'[i], data) = RP!TippedEvent(tips[i], data)
  <2>1. items[i].amount \in Nat
    <3>1. items[i] \in Item /\ items[i].amount > 0
        BY <1>1, <1>4
    <3> QED BY <3>1 DEF Item
  <2>2. FeeAt(items[i].amount, feeBps) = Fee(items[i].amount)
      BY <2>1, <1>2, FeeIsFeeAt
  <2>3. emitted'[i] = TippedEvent(items[i])
      BY <1>4, <1>6
  <2> QED BY <1>4, <2>2, <2>3
             DEF Entry, TippedEvent, Net, Tool!TippedEvent, RP!TippedEvent
<1>9. log' = log \o [i \in DOMAIN tips |-> RP!TippedEvent(tips[i], data)]
    BY <1>7, <1>8 DEF Transaction
<1>10. RP!OneForm(data)
    BY Zenon DEF Transaction, RP!OneForm, Tool!OneForm
<1> QED BY <1>3, <1>4, <1>6, <1>7, <1>9, <1>10 DEF RP!TipAuthors, Transaction, tool, tips

(* Tips that add up leave a log of tips that add up.                        *)
LEMMA TipsAddUp ==
    ASSUME RP!TypeOK, AddsUp, NEW tips \in Seq(RP!TipItem), NEW data,
           \A i \in DOMAIN tips : tips[i].amount = tips[i].fee + tips[i].net,
           RP!TipAuthors(tips, data)
    PROVE  AddsUp'
<1> SUFFICES ASSUME NEW i \in RP!Tips' PROVE log'[i].amount = log'[i].fee + log'[i].net
    BY DEF AddsUp
<1> DEFINE new == [j \in DOMAIN tips |-> RP!TippedEvent(tips[j], data)]
<1>1. log \in Seq(RP!Event) /\ log' = log \o new
    BY DEF RP!TypeOK, RP!TipAuthors
<1>2. DOMAIN new = 1 .. Len(tips) /\ Len(new) = Len(tips) /\ Len(tips) \in Nat
    OBVIOUS
<1>3. ASSUME NEW j \in 1 .. Len(tips) PROVE new[j].amount = new[j].fee + new[j].net
    BY <1>3 DEF RP!TippedEvent
<1> HIDE DEF new
<1>4. i \in 1 .. Len(log) + Len(new) /\ Len(log) \in Nat /\ log'[i].type = "tipped"
    BY <1>1, <1>2 DEF RP!Tips
<1>5. CASE i =< Len(log)
  <2>1. i \in DOMAIN log /\ log'[i] = log[i]
      BY <1>1, <1>2, <1>4, <1>5
  <2> QED BY <1>4, <2>1 DEF AddsUp, RP!Tips
<1>6. CASE i > Len(log)
  <2>1. log'[i] = new[i - Len(log)] /\ i - Len(log) \in 1 .. Len(tips)
      BY <1>1, <1>2, <1>4, <1>6
  <2> QED BY <1>3, <2>1
<1> QED BY <1>4, <1>5, <1>6

(* A payment keeps the invariant.                                           *)
LEMMA PayStep ==
    ASSUME AuditInv, NEW data \in Data, Transaction(data), NEW items \in Payments,
           NEW tipper, NEW key, NEW kind, Pay(kind, tipper, items, key)
    PROVE  RP!VaultStep /\ Told' /\ AddsUp'
<1> DEFINE tips == Shares(items, feeBps)
<1>1. items \in Seq(Item) /\ \A i \in DOMAIN items : items[i].amount > 0
    BY PaymentsAreItems
<1>2. /\ tips \in Published /\ tips \in Seq(RP!TipItem)
      /\ RP!TipAuthors(tips, data)
    BY PayPublishes
<1>3. feeBps \in 0 .. MAX_FEE_BPS /\ BPS_DENOMINATOR \in Nat \ {0}
    BY NumberAssumption DEF AuditInv, TypeOK
<1>4. /\ DOMAIN tips = DOMAIN items
      /\ \A i \in DOMAIN items :
            /\ tips[i].recipient = items[i].recipient /\ tips[i].gist_id = items[i].gist_id
            /\ tips[i].amount = items[i].amount
            /\ tips[i].net = items[i].amount - FeeAt(items[i].amount, feeBps)
            /\ tips[i].amount = tips[i].fee + tips[i].net
    BY <1>1, <1>3, SharesAreTips
<1>5. \A i \in DOMAIN items : Net(items[i].amount) = tips[i].net
  <2> SUFFICES ASSUME NEW i \in DOMAIN items PROVE Net(items[i].amount) = tips[i].net
      OBVIOUS
  <2>1. items[i].amount \in Nat
    <3>1. items[i] \in Item /\ items[i].amount > 0
        BY <1>1
    <3> QED BY <3>1 DEF Item
  <2>2. FeeAt(items[i].amount, feeBps) = Fee(items[i].amount)
      BY <2>1, <1>3, FeeIsFeeAt
  <2> QED BY <1>4, <2>2 DEF Net
<1> HIDE DEF tips
<1>6. RP!VaultStep
    BY <1>2 DEF RP!VaultStep
<1>7. RP!TypeOK
    BY DEF AuditInv, RP!RecInv
<1>8. /\ \A a \in Account : RP!Owed(a)' = RP!Owed(a)
           + RP!SumFunctionOnSet([i \in DOMAIN tips |-> tips[i].net],
                                 {i \in DOMAIN tips : tips[i].recipient = a})
      /\ \A g \in GistId :
           RP!GistTotal(RP!Everything, g)' = RP!GistTotal(RP!Everything, g)
             + RP!SumFunctionOnSet([i \in DOMAIN tips |-> tips[i].amount],
                                   {i \in DOMAIN tips : tips[i].gist_id = g})
    BY <1>2, <1>7, ToolConstants, RP!TipsAdd
<1>9. ASSUME NEW a \in Account
      PROVE  pending'[a] = RP!Owed(a)'
  <2>1. {i \in DOMAIN tips : tips[i].recipient = a}
          = {i \in DOMAIN items : items[i].recipient = a}
      BY <1>4
  <2>2. [i \in DOMAIN tips |-> tips[i].net] = [i \in DOMAIN items |-> Net(items[i].amount)]
      BY <1>4, <1>5
  <2>3. pending'[a] = pending[a] + NetTo(items, a)
      BY DEF Pay, Credit
  <2> QED BY <1>8, <2>1, <2>2, <2>3, SameToolSums DEF NetTo, AuditInv, Told
<1>10. ASSUME NEW g \in GistId
       PROVE  gistTotal'[g] = RP!GistTotal(RP!Everything, g)'
  <2>1. {i \in DOMAIN tips : tips[i].gist_id = g}
          = {i \in DOMAIN items : items[i].gist_id = g}
      BY <1>4
  <2>2. [i \in DOMAIN tips |-> tips[i].amount] = [i \in DOMAIN items |-> items[i].amount]
      BY <1>4
  <2>3. gistTotal'[g] = gistTotal[g] + GrossFor(items, g)
      BY DEF Pay, AddToGistTotals
  <2> QED BY <1>8, <2>1, <2>2, <2>3, SameToolSums DEF GrossFor, AuditInv, Told
<1>11. Told'
    BY <1>9, <1>10 DEF Told
<1>12. AddsUp'
    BY <1>2, <1>4, <1>7, TipsAddUp DEF AuditInv
<1> QED BY <1>6, <1>11, <1>12

(* So does a claim, which publishes exactly what was pending.               *)
LEMMA ClaimStep ==
    ASSUME AuditInv, NEW data \in Data, Transaction(data), NEW c \in Account, ClaimTips(c)
    PROVE  RP!VaultStep /\ Told' /\ AddsUp'
<1>1. RP!TypeOK /\ AddsUp /\ Told
    BY DEF AuditInv, RP!RecInv
<1>2. pending[c] = RP!Owed(c) /\ pending \in [Account -> Nat] /\ pending[c] > 0
    BY <1>1 DEF Told, ClaimTips, AuditInv, TypeOK
<1> DEFINE new == RP!ClaimedEvent(c, RP!Owed(c), data)
<1>3. emitted' = <<[type |-> "claimed", recipient |-> c, amount |-> RP!Owed(c)]>> /\ seq' = seq
    BY <1>2 DEF ClaimTips
<1>4. Entry(emitted'[1], data) = new
    BY <1>3 DEF Entry, Tool!ClaimedEvent, RP!ClaimedEvent
<1>5. Len(emitted') = 1 /\ DOMAIN emitted' = {1}
    BY <1>3
<1>6. [i \in DOMAIN emitted' |-> Entry(emitted'[i], data)] = <<new>>
  <2> HIDE DEF new
  <2>1. DOMAIN <<new>> = {1} /\ <<new>>[1] = new
      OBVIOUS
  <2> QED BY <1>4, <1>5, <2>1
<1>7. log \in Seq(RP!Event)
    BY <1>1 DEF RP!TypeOK
<1>8. log' = Append(log, new) /\ Len(log) < MaxEvents
  <2>1. log' = log \o <<new>> /\ Len(log) + 1 =< MaxEvents
      BY <1>5, <1>6 DEF Transaction
  <2> HIDE DEF new
  <2>2. Len(log) \in Nat /\ MaxEvents \in Nat
      BY <1>7, AuditAssumption
  <2> QED BY <1>7, <2>1, <2>2
<1>9. RP!ClaimTips(c, data)
  <2>1. RP!OneForm(data)
      BY Zenon DEF Transaction, RP!OneForm, Tool!OneForm
  <2> QED BY <1>2, <1>3, <1>8, <2>1 DEF RP!ClaimTips, Transaction, tool
<1>10. RP!VaultStep
    BY <1>9 DEF RP!VaultStep
<1>11. /\ \A a \in Account : RP!Owed(a)' = IF a = c THEN 0 ELSE RP!Owed(a)
       /\ \A g \in GistId :
            RP!GistTotal(RP!Everything, g)' = RP!GistTotal(RP!Everything, g)
    BY <1>1, <1>9, ToolConstants, RP!ClaimSettles
<1>12. /\ \A a \in Account : pending'[a] = IF a = c THEN 0 ELSE pending[a]
       /\ gistTotal' = gistTotal
    BY <1>2 DEF ClaimTips
<1>13. Told'
    BY <1>1, <1>11, <1>12 DEF Told
<1>14. AddsUp'
  <2> SUFFICES ASSUME NEW i \in RP!Tips' PROVE log'[i].amount = log'[i].fee + log'[i].net
      BY DEF AddsUp
  <2>1. i \in DOMAIN log' /\ log'[i].type = "tipped"
      BY DEF RP!Tips
  <2>2. new.type = "claimed"
      BY DEF RP!ClaimedEvent
  <2> HIDE DEF new
  <2>3. i \in DOMAIN log /\ log'[i] = log[i]
      BY <1>7, <1>8, <2>1, <2>2
  <2> QED BY <1>1, <2>1, <2>3 DEF AddsUp, RP!Tips
<1> QED BY <1>10, <1>13, <1>14

(* What does not touch the log, the balances and the totals keeps it too.   *)
LEMMA ToldKept ==
    ASSUME Told, AddsUp, UNCHANGED <<log, pending, gistTotal>>
    PROVE  Told' /\ AddsUp'
<1>1. /\ \A a \in Account : RP!Owed(a)' = RP!Owed(a)
      /\ \A g \in GistId : RP!GistTotal(RP!Everything, g)' = RP!GistTotal(RP!Everything, g)
    BY DEF RP!Owed, RP!PendingBalance, RP!NetTo, RP!ClaimedBy, RP!GistTotal, RP!Everything,
           RP!Position, RP!Tips, RP!Claims
<1> QED BY <1>1 DEF Told, AddsUp, RP!Tips

(* The transactions of the vault are those the tool's module lets it take.  *)
LEMMA TransactionStep ==
    ASSUME AuditInv, NEW data \in Data, Transaction(data)
    PROVE  [RP!VaultStep]_(RP!vars) /\ Told' /\ AddsUp'
<1>1. Told /\ AddsUp /\ Next /\ UNCHANGED tool
    BY DEF AuditInv, Transaction
<1>2. ASSUME NEW items, NEW tipper, NEW key, NEW kind, Replay(kind, tipper, items, key)
      PROVE  emitted' = <<>> /\ UNCHANGED <<pending, gistTotal, seq>>
    BY <1>2 DEF Replay, accounts
<1>3. ASSUME emitted' = <<>>, UNCHANGED <<pending, gistTotal, seq>>
      PROVE  [RP!VaultStep]_(RP!vars) /\ Told' /\ AddsUp'
  <2>1. log' = log
      BY <1>3, SilentStep
  <2>2. UNCHANGED RP!vars
      BY <1>1, <1>3, <2>1 DEF RP!vars, RP!node, tool
  <2> QED BY <1>1, <1>3, <2>1, <2>2, ToldKept
<1>4. ASSUME NEW items \in Payments, NEW tipper, NEW key, NEW kind,
             Pay(kind, tipper, items, key)
      PROVE  [RP!VaultStep]_(RP!vars) /\ Told' /\ AddsUp'
    BY <1>4, PayStep
<1>5. ASSUME NEW t, NEW a \in Account, NEW g \in GistId, NEW x \in Amount, NEW k,
             TipAuthor(t, a, g, x, k)
      PROVE  [RP!VaultStep]_(RP!vars) /\ Told' /\ AddsUp'
  <2> DEFINE tip == <<[recipient |-> a, gist_id |-> g, amount |-> x]>>
  <2>1. tip \in Payments
    <3>1. DOMAIN tip = {1} /\ tip[1].amount = x /\ x > 0
        BY <1>5 DEF TipAuthor
    <3> QED BY <3>1 DEF Payments
  <2>2. Replay("single", t, tip, k) \/ Pay("single", t, tip, k)
      BY <1>5 DEF TipAuthor
  <2> HIDE DEF tip
  <2> QED BY <1>2, <1>3, <1>4, <2>1, <2>2
<1>6. ASSUME NEW t, NEW b \in Batches, NEW k, TipAuthors(t, b, k)
      PROVE  [RP!VaultStep]_(RP!vars) /\ Told' /\ AddsUp'
  <2>1. CASE Replay("batch", t, b, k)
      BY <1>2, <1>3, <2>1
  <2>2. CASE Pay("batch", t, b, k)
    <3>1. b \in Payments
        BY <2>2 DEF Pay, Payments
    <3> QED BY <1>4, <2>2, <3>1
  <2> QED BY <1>6, <2>1, <2>2 DEF TipAuthors
<1>7. ASSUME NEW a \in Account, ClaimTips(a)
      PROVE  [RP!VaultStep]_(RP!vars) /\ Told' /\ AddsUp'
    BY <1>7, ClaimStep
<1>8. ASSUME NEW lost, CloseLedger(lost)
      PROVE  [RP!VaultStep]_(RP!vars) /\ Told' /\ AddsUp'
  <2>1. /\ emitted' = <<>> /\ UNCHANGED <<pending, gistTotal>>
        /\ seq < MaxLedger /\ seq' = seq + 1
      BY <1>8 DEF CloseLedger
  <2>2. log' = log
      BY <2>1, SilentStep
  <2>3. RP!CloseLedger
      BY <1>1, <2>1, <2>2 DEF RP!CloseLedger, tool
  <2> QED BY <1>1, <2>1, <2>2, <2>3, ToldKept DEF RP!VaultStep
<1>9. CASE VaultStep
  <2>1. CASE \/ \E a \in Administrator, r \in Registry : Initialize(a, r)
             \/ \E a \in Account, r \in Registry : SetRegistryAddress(a, r)
             \/ \E a \in Account, bps \in FeeRate : SetFeeBps(a, bps)
             \/ \E a \in Account, t \in Treasury : SetTreasury(a, t)
    <3>1. emitted' = <<>> /\ UNCHANGED <<pending, gistTotal, seq>>
        BY <2>1 DEF Initialize, SetRegistryAddress, SetFeeBps, SetTreasury, accounts
    <3> QED BY <1>3, <3>1
  <2> QED BY <1>5, <1>6, <1>7, <1>9, <2>1 DEF VaultStep
<1>10. CASE EnvironmentStep
  <2>1. CASE \/ \E r \in Registry, g \in GistId, a \in Author : PostGist(r, g, a)
             \/ \E r \in Registry, ids \in SUBSET GistId : ExpireGists(r, ids)
             \/ \E a \in Account, x \in Donation : DirectTransfer(a, x)
             \/ OtherTransaction
    <3>1. emitted' = <<>> /\ UNCHANGED <<pending, gistTotal, seq>>
        BY <2>1 DEF PostGist, ExpireGists, DirectTransfer, OtherTransaction, accounts
    <3> QED BY <1>3, <3>1
  <2> QED BY <1>8, <1>10, <2>1 DEF EnvironmentStep
<1> QED BY <1>1, <1>9, <1>10 DEF Next

(* The tool reads.                                                          *)
LEMMA ReadStep ==
    ASSUME AuditInv, ReadOnly
    PROVE  RP!ToolStep /\ Told' /\ AddsUp' /\ UNCHANGED <<log, vars>>
<1>1. RP!ToolStep
    BY SameTool DEF ReadOnly
<1>2. UNCHANGED <<log, vars>>
    BY <1>1 DEF RP!ToolStep, RP!Launch, RP!FetchPage, RP!PanicOnPage, RP!RequestFails, RP!node,
                ReadOnly
<1>3. UNCHANGED <<log, pending, gistTotal>>
    BY <1>2 DEF vars, accounts
<1>4. Told /\ AddsUp
    BY DEF AuditInv
<1> QED BY <1>1, <1>2, <1>3, <1>4, ToldKept

(* It is a read that ends in a report.                                      *)
LEMMA ReportIsRead ==
    ASSUME AuditInv, [AuditNext]_auditVars, ~ RP!Reported, RP!Reported'
    PROVE  log' = log
<1>1. phase' # phase
    BY DEF RP!Reported
<1> QED BY <1>1, ReadStep DEF AuditNext, Transaction, auditVars, tool

(* Each step is one of the vault or a stutter, and one of what the tool's   *)
(* module allows or a stutter.                                              *)
LEMMA AuditStep ==
    ASSUME AuditInv, [AuditNext]_auditVars
    PROVE  AuditInv' /\ [Next]_vars /\ [RP!Next]_(RP!vars)
<1>1. Told /\ AddsUp /\ TypeOK /\ RP!RecInv
    BY DEF AuditInv
<1>2. [Next]_vars /\ [RP!Next]_(RP!vars) /\ Told' /\ AddsUp'
  <2>1. CASE ReadOnly
      BY <2>1, ReadStep DEF RP!Next
  <2>2. CASE \E data \in Data : Transaction(data)
      BY <2>2, TransactionStep DEF RP!Next, Transaction
  <2>3. CASE UNCHANGED auditVars
    <3>1. UNCHANGED <<log, pending, gistTotal>> /\ UNCHANGED vars /\ UNCHANGED RP!vars
        BY <2>3 DEF auditVars, vars, accounts, RP!vars, RP!node, tool
    <3> QED BY <1>1, <3>1, ToldKept
  <2> QED BY <2>1, <2>2, <2>3 DEF AuditNext
<1>3. TypeOK'
    BY <1>1, <1>2, TypeStep
<1>4. RP!RecInv'
    BY <1>1, <1>2, ToolConstants, RP!RecInvStep
<1> QED BY <1>2, <1>3, <1>4 DEF AuditInv

(* At the beginning nothing is stored and nothing is told.                  *)
LEMMA AuditStart == AuditInit => AuditInv /\ RP!Init
<1> SUFFICES ASSUME AuditInit PROVE AuditInv /\ RP!Init
    OBVIOUS
<1>1. Init /\ RP!Init
    BY SameTool DEF AuditInit
<1>2. TypeOK
    BY <1>1, TypeInit
<1>3. RP!RecInv
    BY <1>1, ToolConstants, RP!RecInvInit
<1>4. RP!Tips = {} /\ RP!Claims = {}
    BY <1>1 DEF RP!Init, RP!Tips, RP!Claims
<1>5. /\ \A f, a : RP!NetTo(f, a) = 0 /\ RP!ClaimedBy(f, a) = 0
      /\ \A f, g : RP!GistTotal(f, g) = 0
  <2>1. \A f : RP!SumFunctionOnSet(f, {}) = 0
      BY SameToolSums, SumEmpty
  <2> QED BY <1>4, <2>1 DEF RP!NetTo, RP!ClaimedBy, RP!GistTotal
<1>6. Told
    BY <1>1, <1>5 DEF Told, Init, RP!Owed, RP!PendingBalance
<1> QED BY <1>1, <1>2, <1>3, <1>4, <1>6 DEF AuditInv, AddsUp

(* The inductive invariant holds of the vault and the tool.                 *)
THEOREM AuditKept == AuditSpec => []AuditInv
<1>1. AuditInv /\ [AuditNext]_auditVars => AuditInv'
    BY AuditStep
<1> QED BY <1>1, AuditStart, PTL DEF AuditSpec

-----------------------------------------------------------------------------
(* The properties.                                                          *)

(* The tool only reads: a vault that is audited is a vault, and all that is *)
(* proved of the vault holds while the tool runs.                           *)
THEOREM AuditedVaultIsVault == AuditSpec => Spec
<1>1. AuditInit => Init
    BY DEF AuditInit
<1>2. AuditInv /\ [AuditNext]_auditVars => [Next]_vars
    BY AuditStep
<1> QED BY <1>1, <1>2, AuditKept, PTL DEF AuditSpec, Spec

(* tip_author, tip_authors and claim_tips publish what the tool's module    *)
(* says of them: whole batches of tips that add up, and claims of exactly   *)
(* what the events so far leave an author, whatever happened between.  So   *)
(* all that is proved of the tool holds of the tool that reads this vault.  *)
THEOREM AuditImplementsReconcile == AuditSpec => ImplementsReconcile
<1>1. AuditInit => Tool!Init
    BY DEF AuditInit
<1>2. AuditInv /\ [AuditNext]_auditVars => [Tool!Next]_(Tool!vars)
    BY AuditStep, SameTool DEF RP!Next, Tool!Next
<1> QED BY <1>1, <1>2, AuditKept, PTL DEF AuditSpec, ImplementsReconcile, Tool!Spec

(* At any time the sums over the vault's events are its pending balances    *)
(* and gist totals: no write to storage goes without its event.             *)
THEOREM LogAlwaysTellsStorage == AuditSpec => []LogTellsStorage
<1>1. AuditInv => LogTellsStorage
    BY SameReport DEF AuditInv, Told, LogTellsStorage
<1> QED BY <1>1, AuditKept, PTL

(* A report on the past from the vault's first event on, all of which could *)
(* be decoded, differs from storage by the later events alone.              *)
THEOREM ReportsTellStorage == AuditSpec => []ReportTellsStorage
<1>1. ASSUME AuditInv, RP!Reported, range.last < launched,
             \A i \in DOMAIN log : range.first =< log[i].ledger,
             \A i \in DOMAIN log : RP!InRange(i) => i \in RP!Decodable
      PROVE  /\ \A a \in Account :
                    pending[a] = RP!PendingBalances(tipped, claimed)[a]
                                   + RP!PendingBalance(Later, Later, a)
             /\ \A g \in GistId :
                    gistTotal[g] = RP!GistTotal(tipped, g) + RP!GistTotal(Later, g)
  <2>1. RP!TypeOK /\ RP!RecInv /\ Told
      BY <1>1 DEF AuditInv, RP!RecInv
  <2>2. /\ \A g \in GistId : RP!GistTotal(tipped, g) = RP!GistTotal(RP!All, g)
        /\ \A a \in Account : RP!PendingBalances(tipped, claimed)[a]
                                 = RP!PendingBalance(RP!All, RP!All, a)
      BY <1>1, <2>1, ToolConstants, RP!ReportIsExact DEF RP!ReportExact
  <2>3. \A i \in RP!Position : RP!All[i] \in Nat /\ Later[i] \in Nat
      BY SameReport DEF RP!All, Later
  <2>4. ASSUME NEW i \in DOMAIN log
        PROVE  RP!Everything[i] = RP!All[i] + Later[i]
    <3>1. i \in RP!Position /\ log[i] \in RP!Event
        BY <2>1, ToolConstants, RP!LogFacts
    <3>2. log[i].ledger \in Nat
        BY <3>1, ToolConstants, RP!EventFacts
    <3>3. range.first =< log[i].ledger /\ range.last \in Nat
        BY <1>1, <2>1 DEF RP!TypeOK
    <3>4. CASE log[i].ledger =< range.last
      <4>1. RP!All[i] = 1
          BY <3>1, <3>3, <3>4 DEF RP!All, RP!InRange
      <4>2. Later[i] = 0
          BY <3>1, <3>2, <3>3, <3>4, SameReport DEF Later
      <4> QED BY <3>1, <4>1, <4>2 DEF RP!Everything
    <3>5. CASE log[i].ledger > range.last
      <4>1. RP!All[i] = 0
          BY <3>1, <3>2, <3>3, <3>5 DEF RP!All, RP!InRange
      <4>2. Later[i] = 1
          BY <3>1, <3>5, SameReport DEF Later
      <4> QED BY <3>1, <4>1, <4>2 DEF RP!Everything
    <3> QED BY <3>2, <3>3, <3>4, <3>5
  <2>5. /\ \A a : RP!PendingBalance(RP!Everything, RP!Everything, a)
                    = RP!PendingBalance(RP!All, RP!All, a) + RP!PendingBalance(Later, Later, a)
        /\ \A g : RP!GistTotal(RP!Everything, g)
                    = RP!GistTotal(RP!All, g) + RP!GistTotal(Later, g)
    <3> DEFINE f == RP!All
               g == Later
               h == RP!Everything
    <3>1. /\ \A i \in RP!Position : f[i] \in Nat /\ g[i] \in Nat
          /\ \A i \in DOMAIN log : h[i] = f[i] + g[i]
        BY <2>3, <2>4
    <3> HIDE DEF f, g, h
    <3>2. /\ \A a : RP!PendingBalance(h, h, a)
                     = RP!PendingBalance(f, f, a) + RP!PendingBalance(g, g, a)
          /\ \A id : RP!GistTotal(h, id) = RP!GistTotal(f, id) + RP!GistTotal(g, id)
        BY <2>1, <3>1, ToolConstants, RP!ListsAdd, SMTT(40)
    <3> QED BY <3>2 DEF f, g, h
  <2> QED BY <2>1, <2>2, <2>5 DEF Told, RP!Owed
<1>2. AuditInv => ReportTellsStorage
    BY <1>1, SameReport DEF ReportTellsStorage
<1> QED BY <1>2, AuditKept, PTL

(* Whatever range it is asked for, whatever it fails to decode and wherever *)
(* claims slip between its requests, the tool never reports drift of this   *)
(* vault: the exit code it documents for drift is unreachable.              *)
THEOREM NeverDrifting == AuditSpec => []NeverDrifts
<1>1. AuditInv => NeverDrifts
  <2> SUFFICES ASSUME AuditInv PROVE phase # "drift"
      BY DEF NeverDrifts
  <2>1. RP!ExitTellsBadTips /\ AddsUp
      BY ToolConstants, RP!ExitTellsOfLog DEF AuditInv
  <2>2. \A i \in RP!Matching("tipped") : log[i].amount = log[i].fee + log[i].net
      BY <2>1 DEF RP!Matching, RP!Tips, AddsUp
  <2> QED BY <2>1, <2>2 DEF RP!ExitTellsBadTips
<1> QED BY <1>1, AuditKept, PTL

(* However the vault is tipped and claimed from between the tool's          *)
(* requests, a report on all its events, none of whose claims was dropped,  *)
(* credits nobody with more than the vault owes them when it is printed.    *)
THEOREM CreditsNeverMoreThanOwed == AuditSpec => CreditsNoMoreThanOwed
<1>1. ASSUME AuditInv, [AuditNext]_auditVars, ~ RP!Reported, RP!Reported',
             \A i \in DOMAIN log : RP!InRange(i)', RP!Claims \subseteq RP!Decodable,
             NEW a \in Account
      PROVE  (RP!PendingBalances(tipped, claimed)[a])' =< pending'[a]
  <2>1. /\ RP!RecInv /\ [RP!Next]_(RP!vars)
        /\ RP!TypeOK' /\ Told'
      BY <1>1, AuditStep DEF AuditInv, RP!RecInv
  <2>2. log' = log
      BY <1>1, ReportIsRead
  <2>3. (RP!PendingBalances(tipped, claimed)[a])' =< RP!PendingBalance(RP!All, RP!All, a)'
      BY <1>1, <2>1, ToolConstants, RP!ReportStepBounded
  <2>4. \A i \in RP!Position : i \in DOMAIN log' => RP!All'[i] = 1 /\ RP!Everything'[i] = 1
      BY <1>1, <2>2 DEF RP!All, RP!Everything, RP!InRange, RP!Position
  <2>5. DOMAIN log' \subseteq RP!Position
      BY <2>1, <2>2, ToolConstants, RP!LogFacts DEF RP!RecInv, RP!Position
  <2>6. /\ [i \in RP!Tips' |-> RP!All'[i] * log'[i].net]
              = [i \in RP!Tips' |-> RP!Everything'[i] * log'[i].net]
        /\ [i \in RP!Claims' |-> RP!All'[i] * log'[i].amount]
              = [i \in RP!Claims' |-> RP!Everything'[i] * log'[i].amount]
      BY <2>4, <2>5 DEF RP!Tips, RP!Claims
  <2>7. RP!PendingBalance(RP!All, RP!All, a)' = RP!Owed(a)'
      BY <2>6 DEF RP!Owed, RP!PendingBalance, RP!NetTo, RP!ClaimedBy
  <2> QED BY <2>1, <2>3, <2>7 DEF Told
<1>2. ASSUME AuditInv, [AuditNext]_auditVars, ~ Tool!Reported, Tool!Reported',
             \A i \in DOMAIN log : Tool!InRange(i)', Tool!Claims \subseteq Tool!Decodable,
             NEW a \in Account
      PROVE  (Tool!PendingBalances(tipped, claimed)[a] =< pending[a])'
  <2>1. (Tool!PendingBalances(tipped, claimed)[a])' = (RP!PendingBalances(tipped, claimed)[a])'
      BY Zenon DEF Tool!PendingBalances, Tool!AddedInTurn, Tool!Tips, Tool!Claims,
         RP!PendingBalances, RP!AddedInTurn, RP!Tips, RP!Claims
  <2>2. (Tool!Reported' <=> RP!Reported') /\ (Tool!Reported <=> RP!Reported)
      BY SameReport DEF Tool!Reported, RP!Reported
  <2>3. \A i \in DOMAIN log : RP!InRange(i)'
      BY <1>2 DEF Tool!InRange, RP!InRange
  <2>4. RP!Claims \subseteq RP!Decodable
      BY <1>2, SameReport
  <2> QED BY <1>1, <1>2, <2>1, <2>2, <2>3, <2>4
<1>3. AuditInv /\ [AuditNext]_auditVars =>
        [~ Tool!Reported /\ Tool!Reported'
           /\ (\A i \in DOMAIN log : Tool!InRange(i)')
           /\ Tool!Claims \subseteq Tool!Decodable =>
             \A a \in Account :
                 (Tool!PendingBalances(tipped, claimed)[a] =< pending[a])']_auditVars
    BY <1>2
<1> QED BY <1>3, AuditKept, PTL DEF AuditSpec, CreditsNoMoreThanOwed
=============================================================================
