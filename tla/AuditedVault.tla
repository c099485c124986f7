---------------------------- MODULE AuditedVault ----------------------------
(***************************************************************************)
(* The vault and the reconciliation tool together: the node keeps every    *)
(* event the vault's transactions publish, and the tool reads them while   *)
(* the vault goes on.  What the tool's module assumes a vault publishes is *)
(* here what the vault does publish, and its sums meet the vault's own     *)
(* storage.                                                                *)
(***************************************************************************)
EXTENDS GistVault

CONSTANTS
    Data,                  \* the ways the data of an event may be written
    Ranges,                \* the ledger ranges the tool may be asked for
    PageLimit,
    MaxEvents              \* bound on the node's log

VARIABLES
    log,                   \* the node: every event the vault has published
    phase, range, launched, cursor, tipped, claimed        \* the tool

tool == <<phase, range, launched, cursor, tipped, claimed>>
auditVars == <<vars, log, tool>>

-----------------------------------------------------------------------------
(* What the vault can publish of a sequence of items at a fee rate.         *)

FeeAt(amount, bps) == (amount * bps) \div BPS_DENOMINATOR

Shares(items, bps) ==
    [i \in DOMAIN items |->
        [recipient |-> items[i].recipient, gist_id |-> items[i].gist_id,
         amount |-> items[i].amount, fee |-> FeeAt(items[i].amount, bps),
         net |-> items[i].amount - FeeAt(items[i].amount, bps)]]

Payments ==
    {items \in Batches \cup {<<[recipient |-> a, gist_id |-> g, amount |-> x]>> :
                               a \in Account, g \in GistId, x \in Amount} :
        \A i \in DOMAIN items : items[i].amount > 0}

Published == {Shares(items, bps) : items \in Payments, bps \in 0 .. MAX_FEE_BPS}

Tool == INSTANCE Reconcile WITH Author <- Account, Batches <- Published, ledger <- seq

ASSUME AuditAssumption ==
    /\ Data \subseteq Tool!Encoding
    /\ Ranges \subseteq [first : Nat, last : Nat]
    /\ PageLimit \in Nat \ {0}
    /\ MaxEvents \in Nat

-----------------------------------------------------------------------------
(* The two processes.                                                       *)

(* The node's entry for an event of a transaction.                          *)
Entry(event, data) ==
    IF event.type = "tipped" THEN Tool!TippedEvent(event, data)
    ELSE Tool!ClaimedEvent(event.recipient, event.amount, data)

(* A transaction, whose events the node adds to its log.                    *)
Transaction(data) ==
    /\ Next
    /\ Len(log) + Len(emitted') =< MaxEvents /\ Tool!OneForm(data)
    /\ log' = log \o [i \in DOMAIN emitted' |-> Entry(emitted'[i], data)]
    /\ UNCHANGED tool

(* The tool only reads.                                                     *)
ReadOnly == Tool!ToolStep /\ UNCHANGED vars

AuditInit == Init /\ Tool!Init

AuditNext == ReadOnly \/ \E data \in Data : Transaction(data)

AuditSpec == AuditInit /\ [][AuditNext]_auditVars

-----------------------------------------------------------------------------
(* Properties.                                                              *)

(* The vault publishes what the tool's module says a vault does: whole      *)
(* batches of tips that add up, and claims of exactly what the log says the *)
(* author is owed (tip_author, tip_authors and claim_tips).                 *)
ImplementsReconcile == Tool!Spec

(* docs/PAYMENT_LIFECYCLE.md, reconciliation invariants: at all times the   *)
(* sums over the vault's events are its pending balances and gist totals,   *)
(* over tips, batches, fee changes, claims and replays.                     *)
LogTellsStorage ==
    /\ \A a \in Account : pending[a] = Tool!Owed(a)
    /\ \A g \in GistId : gistTotal[g] = Tool!GistTotal(Tool!Everything, g)

(* The events after the range that was asked for.                           *)
Later ==
    [i \in Tool!Position |->
        IF i \in DOMAIN log /\ log[i].ledger > range.last THEN 1 ELSE 0]

(* A report on a range that starts with the vault's first event, was past   *)
(* at launch and can be decoded tells what the vault stored when the range  *)
(* ended: to this day it differs from storage by the later events alone.    *)
ReportTellsStorage ==
    Tool!Reported /\ range.last < launched
      /\ (\A i \in DOMAIN log : range.first =< log[i].ledger)
      /\ (\A i \in DOMAIN log : Tool!InRange(i) => i \in Tool!Decodable) =>
        /\ \A a \in Account :
              pending[a] = Tool!PendingBalances(tipped, claimed)[a]
                             + Tool!PendingBalance(Later, Later, a)
        /\ \A g \in GistId :
              gistTotal[g] = Tool!GistTotal(tipped, g) + Tool!GistTotal(Later, g)

(* While the vault is tipped and claimed from between the tool's requests,  *)
(* a report on all its events credits no author with more than the vault    *)
(* owes that author when it is printed, if no claim was dropped.            *)
CreditsNoMoreThanOwed ==
    [][~ Tool!Reported /\ Tool!Reported'
         /\ (\A i \in DOMAIN log : Tool!InRange(i)')
         /\ Tool!Claims \subseteq Tool!Decodable =>
           \A a \in Account :
               (Tool!PendingBalances(tipped, claimed)[a] =< pending[a])']_auditVars

(* Whatever range it is asked for and whatever it misses, the tool never    *)
(* reports this vault as drifting.                                          *)
NeverDrifts == phase # "drift"
=============================================================================
