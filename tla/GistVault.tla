----------------------------- MODULE GistVault -----------------------------
(***************************************************************************)
(* The tipping vault, contracts/gist-vault/src/lib.rs.                     *)
(*                                                                         *)
(* One action per entry point that writes state.  A Soroban invocation is  *)
(* atomic and a panic reverts every write, token transfers included, so a  *)
(* call that panics is a step that is not taken.  What surrounds the vault *)
(* - the token contract, the gists its registry answers for, the ledger    *)
(* clock that evicts temporary entries - is state here too, changed by the *)
(* vault's calls and by actions of its own.                                *)
(***************************************************************************)
EXTENDS Integers, Sequences, FiniteSets, Functions

CONSTANTS
    Account,               \* addresses that can authorize a call
    Administrator,         \* the accounts initialize may name as admin
    Tipper,                \* the accounts that send tips
    Author,                \* the accounts that post gists
    Vault,                 \* the vault's own address
    Treasury,              \* the addresses the admin may name as treasury
    Registry,              \* the GistRegistry contracts the vault may use
    GistId,                \* gist ids
    Key,                   \* idempotency keys
    Amount,                \* amounts a caller may pass
    Batches,               \* item sequences a caller may pass to tip_authors
    FeeRate,               \* rates an admin may pass to set_fee_bps
    Donation,              \* amounts sent to the vault outside its interface
    InitialBalance,        \* token balances before the vault is used
    NoAddress,             \* an unset address in instance storage
    NoRecord,              \* no live temporary entry under a key
    MAX_FEE_BPS, BPS_DENOMINATOR, MAX_BATCH_SIZE,
    LEDGERS_PER_HOUR, TIP_RECORD_TTL_HOURS,
    MaxI128,               \* the largest i128
    MaxLedger              \* bound on the ledger sequence

VARIABLES
    admin, registry,       \* instance storage: set once by initialize
    feeBps, treasury,      \* instance storage: set by the admin
    pending,               \* PendingBalance entries, 0 when absent
    gistTotal,             \* GistTotalTips entries, 0 when absent
    records,               \* TipRecord and BatchTipRecord entries by key
    balance,               \* the token contract's balances
    gists,                 \* what each registry's get_gist answers
    seq,                   \* the ledger sequence number
    emitted,               \* the events of the last transaction
    uses                   \* history: the ledgers at which a key moved money

config == <<admin, registry, feeBps, treasury>>
accounts == <<pending, gistTotal, records, balance, uses>>
vars == <<config, accounts, gists, seq, emitted>>

Address == Account \cup {Vault}

Item == [recipient : Account, gist_id : GistId, amount : Int]

TipRecord == [kind : {"single", "batch"}, tipper : Account,
              items : Seq(Item), until : Nat]

(* A gist as the vault sees it.  Ids are never reused: a gist is unposted,  *)
(* then stored, then evicted; the author of an evicted gist is history,     *)
(* get_gist no longer answers it.                                           *)
Gist == [state : {"unposted", "stored", "evicted"},
         author : Account \cup {NoAddress}, is_active : BOOLEAN]

Unposted == [state |-> "unposted", author |-> NoAddress, is_active |-> FALSE]

Evicted(gist) == [gist EXCEPT !.state = "evicted", !.is_active = FALSE]

Event == [type : {"tipped"}, gist_id : GistId, recipient : Account,
          amount : Int, fee : Int, net : Int]
           \cup [type : {"claimed"}, recipient : Account, amount : Int]

ASSUME AccountAssumption ==
    /\ IsFiniteSet(Account) /\ IsFiniteSet(GistId)
    /\ Administrator \subseteq Account
    /\ Tipper \subseteq Account /\ Author \subseteq Account
    /\ Vault \notin Account
    /\ Treasury \subseteq Address
    /\ NoAddress \notin Address /\ NoAddress \notin Registry
    /\ NoRecord \notin TipRecord

ASSUME InputAssumption ==
    /\ Amount \subseteq Int
    /\ Batches \subseteq Seq(Item)
    /\ FeeRate \subseteq Nat
    /\ Donation \subseteq Nat
    /\ InitialBalance \in [Address -> Nat]

ASSUME NumberAssumption ==
    /\ BPS_DENOMINATOR \in Nat \ {0}
    /\ MAX_FEE_BPS \in 0 .. BPS_DENOMINATOR
    /\ MAX_BATCH_SIZE \in Nat
    /\ LEDGERS_PER_HOUR \in Nat \ {0}
    /\ TIP_RECORD_TTL_HOURS \in Nat
    /\ MaxI128 \in Nat
    /\ MaxLedger \in Nat

-----------------------------------------------------------------------------
(* The token contract and the fee split.                                    *)

Transfer(bal, from, to, amount) ==
    IF from = to THEN bal
    ELSE [bal EXCEPT ![from] = @ - amount, ![to] = @ + amount]

FeeRoundedUp(amount) ==
    IF feeBps > 0
    THEN (amount * feeBps + BPS_DENOMINATOR - 1) \div BPS_DENOMINATOR ELSE 0

Fee(amount) ==
    IF feeBps > 0 THEN (amount * feeBps) \div BPS_DENOMINATOR ELSE 0

NetKeepsFee(amount) == amount

Net(amount) == amount - Fee(amount)

(* Totals over the items of a batch; a single tip is a batch of one.        *)
Gross(items) ==
    SumFunctionOnSet([i \in DOMAIN items |-> items[i].amount], DOMAIN items)

Fees(items) ==
    SumFunctionOnSet([i \in DOMAIN items |-> Fee(items[i].amount)], DOMAIN items)

NetTo(items, author) ==
    SumFunctionOnSet([i \in DOMAIN items |-> Net(items[i].amount)],
                     {i \in DOMAIN items : items[i].recipient = author})

NetFor(items, id) ==
    SumFunctionOnSet([i \in DOMAIN items |-> Net(items[i].amount)],
                     {i \in DOMAIN items : items[i].gist_id = id})

GrossFor(items, id) ==
    SumFunctionOnSet([i \in DOMAIN items |-> items[i].amount],
                     {i \in DOMAIN items : items[i].gist_id = id})

-----------------------------------------------------------------------------
(* The checks and writes tip_author and tip_authors share.                  *)

EnsureAdmin(caller) == caller = admin

TippableToAnyone(item) ==
    LET gist == gists[registry][item.gist_id] IN
    gist.state = "stored" /\ gist.is_active

Tippable(item) ==
    LET gist == gists[registry][item.gist_id] IN
    /\ gist.state = "stored"
    /\ gist.is_active
    /\ gist.author = item.recipient

NoOverflow(items) ==
    /\ Gross(items) =< MaxI128
    /\ \A i \in DOMAIN items : items[i].amount * feeBps =< MaxI128
    /\ \A a \in Account : pending[a] + NetTo(items, a) =< MaxI128
    /\ \A g \in GistId : gistTotal[g] + GrossFor(items, g) =< MaxI128

TippedEvent(item) ==
    [type |-> "tipped", gist_id |-> item.gist_id, recipient |-> item.recipient,
     amount |-> item.amount, fee |-> Fee(item.amount), net |-> Net(item.amount)]

RecordTtlInHours == TIP_RECORD_TTL_HOURS

RecordTtl == TIP_RECORD_TTL_HOURS * LEDGERS_PER_HOUR

(* The gross comes out of the tipper in one transfer, the fees leave for    *)
(* the treasury, and what remains is credited.                              *)
SplitFunds(tipper, items) ==
    LET escrowed == Transfer(balance, tipper, Vault, Gross(items)) IN
    balance' = IF Fees(items) > 0
               THEN Transfer(escrowed, Vault, treasury, Fees(items))
               ELSE escrowed

CreditOnlyLastItem(items) ==
    pending' = [pending EXCEPT
                  ![items[Len(items)].recipient] = @ + Net(items[Len(items)].amount)]

Credit(items) ==
    pending' = [a \in Account |-> pending[a] + NetTo(items, a)]

AddNetToGistTotals(items) ==
    gistTotal' = [g \in GistId |-> gistTotal[g] + NetFor(items, g)]

AddToGistTotals(items) ==
    gistTotal' = [g \in GistId |-> gistTotal[g] + GrossFor(items, g)]

(* A first use of key: every item is checked, the money moves, the record   *)
(* and the events are written.                                              *)
Pay(kind, tipper, items, key) ==
    /\ admin # NoAddress
    /\ records[key] = NoRecord
    /\ \A i \in DOMAIN items : items[i].amount > 0 /\ Tippable(items[i])
    /\ feeBps > 0 => treasury # NoAddress
    /\ Gross(items) =< balance[tipper]
    /\ NoOverflow(items)
    /\ SplitFunds(tipper, items)
    /\ Credit(items)
    /\ AddToGistTotals(items)
    /\ records' = [records EXCEPT ![key] =
                     [kind |-> kind, tipper |-> tipper, items |-> items,
                      until |-> seq + RecordTtl]]
    /\ emitted' = [i \in DOMAIN items |-> TippedEvent(items[i])]
    /\ uses' = [uses EXCEPT ![key] = Append(@, seq)]
    /\ UNCHANGED <<config, gists, seq>>

ReplayOfTippable(kind, tipper, items, key) ==
    /\ records[key] # NoRecord
    /\ records[key] = [kind |-> kind, tipper |-> tipper, items |-> items,
                       until |-> records[key].until]
    /\ \A i \in DOMAIN items : Tippable(items[i])
    /\ emitted' = <<>>
    /\ UNCHANGED <<config, accounts, gists, seq>>

(* A retry: the live record under key has the same arguments, and the call  *)
(* returns before any other check.  A record of the other kind, or with     *)
(* other arguments, makes the call panic.                                   *)
Replay(kind, tipper, items, key) ==
    /\ records[key] # NoRecord
    /\ records[key] = [kind |-> kind, tipper |-> tipper, items |-> items,
                       until |-> records[key].until]
    /\ emitted' = <<>>
    /\ UNCHANGED <<config, accounts, gists, seq>>

-----------------------------------------------------------------------------
(* The entry points.                                                        *)

Initialize(adm, reg) ==
    /\ admin = NoAddress
    /\ admin' = adm
    /\ registry' = reg
    /\ emitted' = <<>>
    /\ UNCHANGED <<feeBps, treasury, accounts, gists, seq>>

SetRegistryAddress(caller, new) ==
    /\ EnsureAdmin(caller)
    /\ registry' = new
    /\ emitted' = <<>>
    /\ UNCHANGED <<admin, feeBps, treasury, accounts, gists, seq>>

SetFeeBpsUnchecked(caller, bps) ==
    /\ EnsureAdmin(caller)
    /\ feeBps' = bps
    /\ emitted' = <<>>
    /\ UNCHANGED <<admin, registry, treasury, accounts, gists, seq>>

SetFeeBps(caller, bps) ==
    /\ EnsureAdmin(caller)
    /\ bps =< MAX_FEE_BPS
    /\ feeBps' = bps
    /\ emitted' = <<>>
    /\ UNCHANGED <<admin, registry, treasury, accounts, gists, seq>>

SetTreasury(caller, new) ==
    /\ EnsureAdmin(caller)
    /\ treasury' = new
    /\ emitted' = <<>>
    /\ UNCHANGED <<admin, registry, feeBps, accounts, gists, seq>>

TipAuthor(tipper, recipient, gist_id, amount, key) ==
    LET tip == <<[recipient |-> recipient, gist_id |-> gist_id, amount |-> amount]>> IN
    /\ amount > 0
    /\ \/ Replay("single", tipper, tip, key)
       \/ Pay("single", tipper, tip, key)

TipAuthors(tipper, tips, key) ==
    /\ Len(tips) \in 1 .. MAX_BATCH_SIZE
    /\ \/ Replay("batch", tipper, tips, key)
       \/ Pay("batch", tipper, tips, key)

ClaimWithoutZeroing(recipient) ==
    /\ pending[recipient] > 0
    /\ pending[recipient] =< balance[Vault]
    /\ balance' = Transfer(balance, Vault, recipient, pending[recipient])
    /\ emitted' = <<[type |-> "claimed", recipient |-> recipient,
                     amount |-> pending[recipient]]>>
    /\ UNCHANGED <<config, pending, gistTotal, records, uses, gists, seq>>

ClaimTips(recipient) ==
    /\ pending[recipient] > 0
    /\ pending[recipient] =< balance[Vault]
    /\ pending' = [pending EXCEPT ![recipient] = 0]
    /\ balance' = Transfer(balance, Vault, recipient, pending[recipient])
    /\ emitted' = <<[type |-> "claimed", recipient |-> recipient,
                     amount |-> pending[recipient]]>>
    /\ UNCHANGED <<config, gistTotal, records, uses, gists, seq>>

-----------------------------------------------------------------------------
(* The vault's surroundings.                                                *)

PostGist(reg, id, author) ==
    /\ gists[reg][id] = Unposted
    /\ gists' = [gists EXCEPT ![reg][id] =
                   [state |-> "stored", author |-> author, is_active |-> TRUE]]
    /\ emitted' = <<>>
    /\ UNCHANGED <<config, accounts, seq>>

(* Expired by the author, by the admin, or several at once in a batch.       *)
ExpireGists(reg, ids) ==
    /\ ids # {}
    /\ \A id \in ids : gists[reg][id].state = "stored" /\ gists[reg][id].is_active
    /\ gists' = [gists EXCEPT ![reg] =
                   [id \in GistId |-> IF id \in ids THEN [@[id] EXCEPT !.is_active = FALSE]
                                    ELSE @[id]]]
    /\ emitted' = <<>>
    /\ UNCHANGED <<config, accounts, seq>>

(* Anyone can send tokens to the vault without calling it.                  *)
DirectTransfer(from, amount) ==
    /\ amount =< balance[from]
    /\ balance' = Transfer(balance, from, Vault, amount)
    /\ emitted' = <<>>
    /\ UNCHANGED <<config, pending, gistTotal, records, uses, gists, seq>>

EvictRecords(ledger) ==
    records' = [k \in Key |->
                  IF records[k] # NoRecord /\ records[k].until < ledger
                  THEN NoRecord ELSE records[k]]

(* A ledger closes; temporary entries whose TTL has run out are gone, the   *)
(* vault's records and, at ledgers the registries know, their gists.        *)
CloseLedger(lost) ==
    /\ seq < MaxLedger
    /\ \A at \in lost : gists[at[1]][at[2]].state = "stored"
    /\ seq' = seq + 1
    /\ EvictRecords(seq')
    /\ gists' = [r \in Registry |-> [id \in GistId |->
                   IF <<r, id>> \in lost THEN Evicted(gists[r][id])
                   ELSE gists[r][id]]]
    /\ emitted' = <<>>
    /\ UNCHANGED <<config, pending, gistTotal, balance, uses>>

(* A transaction that leaves the vault and its gists alone.                 *)
OtherTransaction ==
    /\ emitted' = <<>>
    /\ UNCHANGED <<config, accounts, gists, seq>>

Init ==
    /\ admin = NoAddress /\ registry = NoAddress
    /\ feeBps = 0 /\ treasury = NoAddress
    /\ pending = [a \in Account |-> 0]
    /\ gistTotal = [g \in GistId |-> 0]
    /\ records = [k \in Key |-> NoRecord]
    /\ balance = InitialBalance
    /\ gists = [r \in Registry |-> [g \in GistId |-> Unposted]]
    /\ seq = 0
    /\ emitted = <<>>
    /\ uses = [k \in Key |-> <<>>]

VaultStep ==
    \/ \E a \in Administrator, r \in Registry : Initialize(a, r)
    \/ \E a \in Account, r \in Registry : SetRegistryAddress(a, r)
    \/ \E a \in Account, bps \in FeeRate : SetFeeBps(a, bps)
    \/ \E a \in Account, t \in Treasury : SetTreasury(a, t)
    \/ \E t \in Tipper, a \in Account, g \in GistId, x \in Amount, k \in Key :
          TipAuthor(t, a, g, x, k)
    \/ \E t \in Tipper, b \in Batches, k \in Key : TipAuthors(t, b, k)
    \/ \E a \in Account : ClaimTips(a)

EnvironmentStep ==
    \/ \E r \in Registry, g \in GistId, a \in Author : PostGist(r, g, a)
    \/ \E r \in Registry, ids \in SUBSET GistId : ExpireGists(r, ids)
    \/ \E a \in Account, x \in Donation : DirectTransfer(a, x)
    \/ \E lost \in SUBSET (Registry \X GistId) : CloseLedger(lost)
    \/ OtherTransaction

Next == VaultStep \/ EnvironmentStep

Spec == Init /\ [][Next]_vars

-----------------------------------------------------------------------------
(* Properties.                                                              *)

(* Every variable keeps its type: fee rates stay within the cap, pending    *)
(* balances and gist totals are never negative and fit into an i128,        *)
(* records and events are well formed.                                      *)
TypeOK ==
    /\ admin \in Account \cup {NoAddress}
    /\ registry \in Registry \cup {NoAddress}
    /\ (admin = NoAddress) = (registry = NoAddress)
    /\ feeBps \in 0 .. MAX_FEE_BPS
    /\ treasury \in Treasury \cup {NoAddress}
    /\ pending \in [Account -> Nat]
    /\ gistTotal \in [GistId -> Nat]
    /\ \A a \in Account : pending[a] =< MaxI128
    /\ \A g \in GistId : gistTotal[g] =< MaxI128
    /\ records \in [Key -> TipRecord \cup {NoRecord}]
    /\ balance \in [Address -> Nat]
    /\ gists \in [Registry -> [GistId -> Gist]]
    /\ seq \in 0 .. MaxLedger
    /\ emitted \in Seq(Event)
    /\ uses \in [Key -> Seq(Nat)]

Owed == SumFunctionOnSet(pending, Account)

(* The vault always holds enough tokens to pay every author, whatever the   *)
(* treasury is and whoever sends it tokens: no split, batch or claim makes  *)
(* one author's claim depend on another's money (claim_tips, tip_authors).  *)
Solvent == balance[Vault] >= Owed

(* docs/SECURITY.md: the vault's token balance equals the sum of all        *)
(* pending balances.                                                        *)
BalanceInvariant == balance[Vault] = Owed

Gains(accts) ==
    SumFunctionOnSet([a \in Address |-> balance[a] - InitialBalance[a]], accts)

(* Every unit ever tipped, as the gist totals record it, is pending, or was *)
(* claimed by an author, or was paid to a treasury: fees and rounding lose  *)
(* and create nothing, over single tips, batches and fee changes.  (Authors,*)
(* treasuries and tippers are different accounts in the runs that check     *)
(* it.)                                                                     *)
GrossAccounted ==
    SumFunctionOnSet(gistTotal, GistId) = Owed + Gains(Author) + Gains(Treasury)

(* Treasuries never collect more than MAX_FEE_BPS of all that was tipped:   *)
(* the remainder of each item's division favours the recipient.             *)
FeeCap ==
    Gains(Treasury) * BPS_DENOMINATOR =<
        MAX_FEE_BPS * SumFunctionOnSet(gistTotal, GistId)

(* A key moves money at most once in any 48 hours of ledgers, whether the   *)
(* first use or the retry is a tip or a batch.                              *)
AtMostOncePerWindow ==
    \A k \in Key : \A i \in 1 .. Len(uses[k]) - 1 :
        uses[k][i + 1] > uses[k][i] + TIP_RECORD_TTL_HOURS * LEDGERS_PER_HOUR

(* While its record lives, a retry with the original arguments succeeds,    *)
(* though the gist has been expired or evicted, or the fee, the treasury or *)
(* the registry has changed since: the client of a lost answer never sees   *)
(* its paid tip refused.                                                    *)
RetryAlwaysAccepted ==
    \A k \in Key : LET r == records[k] IN
        /\ r # NoRecord /\ r.kind = "single" =>
              ENABLED TipAuthor(r.tipper, r.items[1].recipient,
                                r.items[1].gist_id, r.items[1].amount, k)
        /\ r # NoRecord /\ r.kind = "batch" => ENABLED TipAuthors(r.tipper, r.items, k)

(* An author with something pending can claim it, at once and in full.      *)
ClaimAlwaysAvailable ==
    \A a \in Account : pending[a] > 0 => ENABLED ClaimTips(a)

GistsBy(author) ==
    {id \in GistId : \E r \in Registry : gists[r][id].author = author}

(* What the vault holds for an author never exceeds the totals of the gist  *)
(* ids that author posted in some registry, also after they were evicted:   *)
(* set_registry_address may name a registry that numbers its gists from 1   *)
(* again, so that a total mixes gists of two authors, and no author is owed *)
(* what was tipped under another's id.                                      *)
OwedForOwnGists ==
    \A a \in Account : pending[a] =< SumFunctionOnSet(gistTotal, GistsBy(a))

NetEmitted(author) ==
    SumFunctionOnSet(
        [i \in DOMAIN emitted |->
            IF emitted[i].type = "tipped" THEN emitted[i].net ELSE - emitted[i].amount],
        {i \in DOMAIN emitted : emitted[i].recipient = author})

GrossEmitted(id) ==
    SumFunctionOnSet([i \in DOMAIN emitted |-> emitted[i].amount],
                     {i \in DOMAIN emitted : emitted[i].type = "tipped"
                                                /\ emitted[i].gist_id = id})

(* The events of a transaction explain exactly what it did to storage: an   *)
(* indexer that adds nets and subtracts claims has every pending balance,   *)
(* one that adds gross amounts has every gist total, and a replay adds      *)
(* nothing to either.                                                       *)
EventsReconcile ==
    [][/\ \A a \in Account : pending'[a] = pending[a] + NetEmitted(a)'
       /\ \A g \in GistId : gistTotal'[g] = gistTotal[g] + GrossEmitted(g)']_vars

(* The vault is an escrow: what it owes an author only grows, backed by     *)
(* tokens it receives, until that author is paid all of it.                 *)
Escrow == INSTANCE TipEscrow WITH owed <- pending, bank <- balance

ImplementsEscrow == Escrow!Spec
=============================================================================
