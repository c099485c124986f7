# TLA+ models of the Gist contracts

The Gist is a location-based posting application with optional tips, built from
three Soroban contracts and an off-chain reconciliation tool.  This directory
models them in TLA+, checks small instances with TLC and proves their safety
properties with TLAPS: of the money, of the registry's lifetimes and listings, of
the verifier's list, of the tool's report; that the deployed pair of vault and
registry keeps what each was proved to do on its own; and that the tool's sums over the
vault's events are the vault's storage.  Paths below are relative to
the root of the repository.

## The system

| Part | State it keeps | Operations | Talks to |
|---|---|---|---|
| `contracts/gist-vault` | instance: token, admin, registry address, fee rate, treasury; persistent: pending balance per author, gross total per gist; temporary: one record per idempotency key | `initialize`, `set_registry_address`, `set_fee_bps`, `set_treasury`, `tip_author`, `tip_authors`, `claim_tips`, two queries | calls `get_gist` of the registry and `transfer` of the token contract |
| `contracts/gist-registry` | instance: admin, gist counter; temporary: a gist per id, a list of ids per author | `initialize`, `set_admin`, `post_gist`, `expire_gist`, `admin_expire_gist`, `batch_expire`, `extend_gist_ttl`, queries with pagination | called by the vault and the verifier |
| `contracts/location-verifier` | instance: admin, registry address, list of allowed geohash prefixes | `initialize`, `set_admin`, `set_registry_address`, `add_allowed_prefix`, `remove_allowed_prefix`, `update_boundaries`, `verify_and_post`, queries | calls `post_gist` of the registry |
| `tools/reconcile-vault` | none: two paginated fetches of events, then sums | `fetch_events`, decoding, `aggregate_*`, the drift report | reads the vault's events from a Soroban RPC node |
| token contract, Soroban host, callers | balances; ledger sequence and timestamp, eviction of temporary entries | `transfer`; ledgers close | outside the repository, modelled from how the contracts use them |
| `scripts`, `.github`, `docs`, `tests` | none | deployment, CI | not modelled; docs and tests are the source of the expectations the properties state |

A Soroban invocation is atomic: it runs alone, and a panic anywhere in it reverts
every write and every token transfer.  So an entry point is one action, a panic
is a step not taken, and an action's guard is the conjunction of everything
that would panic, wherever in the function it is tested.

### What is hard here

* **Two clocks.**  Expiry is a timestamp in seconds; storage lives for a number
  of ledgers, at a nominal 720 an hour.  Ledgers close at an irregular pace.
* **Temporary storage.**  A gist, an author's list and an idempotency record each
  vanish by themselves, at different times.
* **Retries.**  A client that lost an answer calls again, when anything may have
  changed: the gist, the fee, the treasury, the registry.
* **Batches.**  One call touches the same author or gist several times, and
  rounds each item's fee on its own.
* **Money in two places.**  Storage says what is owed, the token contract what
  is there; the vault never compares them.
* **Settings that reach far.**  Treasury, registry and fee change at any time,
  to any value of their type; a new registry numbers its gists from 1 again.
* **Reading what changes.**  A listing is read in pages, by offset, while gists
  are evicted; the tool reads an event log in pages, by cursor, twice, while the
  vault appends to it.

`PROJECT.json` lists every such hazard at its line with the properties aimed
at it.

## The modules

| Module | What it is |
|---|---|
| `GistVault` | the vault, with the token contract, the registry's answers and the ledger clock around it |
| `TipEscrow` | what the vault promises, with no gists, fees, keys or batches |
| `GistVault_proofs` | theorems about the vault's types, escrow, keys, events, gist totals and fees, and the guards of claims and retries; the loop of `tip_authors`, shown to leave what `GistVault` says |
| `GistRegistry` | the registry, with both clocks and its temporary storage |
| `GistListing` | a client that reads the registry's listings page by page |
| `GistRegistry_proofs` | theorems about the registry's lifetimes and author index |
| `GistListing_proofs` | theorems about what a reader of pages repeats and misses |
| `TheGist` | registry and vault deployed together, over one clock |
| `TheGist_proofs` | the deployed vault implements `GistVault`; theorems about the pair |
| `LocationVerifier` | the verifier, with the gists a registry was asked to post |
| `LocationVerifier_proofs` | theorems about the verifier's list |
| `Reconcile` | the reconciliation tool, with the RPC node's growing event log |
| `Reconcile_proofs` | theorems about the tool |
| `AuditedVault` | vault and tool together: the vault's own events in the log the tool reads |
| `AuditedVault_proofs` | the pair implements `Reconcile`; theorems about the report against the vault's storage |
| `Filters` | the loop that keeps some entries of a list, in order |
| `DataLemmas` | lemmas on sums over finite sets and on filtered lists, used by the proofs |
| `MC*` | the values small instances take |

### GistVault

Variables and the storage they stand for: `admin`, `registry`, `feeBps`,
`treasury` are the instance entries; `pending` and `gistTotal` the persistent
ones, 0 where there is none; `records` the temporary ones.  `TipRecord` and
`BatchTipRecord` share the storage key `TipRecord(key)`, so `records` is one
function from keys; `kind` tells the two types apart, and reading one as the
other traps in the host, which is why `Replay` asks for the right kind.  A
record keeps `until`, the last ledger at which it lives, and `CloseLedger`
removes it after that.

`tip_author` and `tip_authors` do the same thing to a list of items, so both are
written with `Pay` and `Replay` over a sequence, a single tip being a sequence
of one.  They differ where the code does: in the order of the checks before the
replay (an amount of 0 is refused before the record is read in one, after it in
the other), in the size of a batch and in the kind of the record.  The code's
loop over the items adds to one balance at a time; `Credit` and
`AddToGistTotals` state what the loop leaves in storage, sums of the items
(`GistVault_proofs` states the loop, and that it does).
The items' fees leave in several transfers to the same treasury, `SplitFunds`
adds them up.  `NoOverflow` collects the checked arithmetic: all amounts are
positive, so sums grow and the last one is the one that could overflow.

The vault's surroundings are in the same module: `Transfer` is the token's
transfer (nothing moves when the two ends are one account), `gists` is what
each registry's `get_gist` answers, `PostGist` and `ExpireGists` change
it the way the registry can, and `DirectTransfer` is anyone sending tokens to the
vault's address.  `CloseLedger` may evict any gists, whose TTL the vault does not
know; it leaves their author behind as history (`get_gist` no longer answers), so that
`OwedForOwnGists` can say whom the totals of a gist id belong to when a second
registry uses the same id.  Persistent entries are never lost in the model: the code asks
for ten years at every write, and an archived entry is restored, not erased.

`emitted` holds the events of the last transaction; `uses` is history, the
ledgers at which each key moved money.

### GistRegistry

`gists` maps ids to entries with the fields the properties tell apart and the
ledger `until` which the entry lives.  CID and geohash are left out with the two
checks `post_gist` makes of them.  `now` and `seq` are the timestamp and the
sequence of the current ledger; `CloseLedger(d)` advances one by `d` seconds and
the other by 1 and evicts what has run out.  The three ways to expire share
`ExpireAll`.  `posted` is history: who posted each gist, at which ledger, and until
when it was promised to be there.

`PageOf` is the loop the two listings share: skip `offset` stored ids, take
`limit`.  Both refuse a limit over 50 before they read anything; that is `Refused`, and the 50
is `MAX_PAGE_LIMIT`.  So no one call answers a whole list of 500, and `AuthorIndexComplete` is
stated of all the pages together, for every limit that is accepted.  `GistListing` adds the client: `query` is the listing it reads, `listed`
the ids of the pages so far, and every page starts at the offset they reached.
A geohash is abstracted to whether it starts with the prefix asked for (`Covered`), a prefix
that fits the 12 bytes the code copies it into.
The listings promise nothing about several calls; what holds is that no gist
comes twice (`PagesNeverRepeat`), and that each gist skipped is made up for by
one that was listed and has left (`SkipsAreVacated`).

### TheGist

The composition instantiates both modules over shared variables: one clock, one
event stream, and `gists` of the vault replaced by `GetGist`, an expression over
the registry's storage.  A registry step leaves the vault's variables alone, a vault
step the registry's, and one `CloseLedger` evicts for both.  None of
`GistVault`'s environment actions is used, so `ImplementsVault`, that the whole
implements `GistVault!Spec`, is a claim about the registry: it does to gists only
what the vault's module assumes.  The registry's own events on the shared stream are no
part of that module; `VaultView` is the vault seen with them filtered out.  The module's two
assumptions are those of the modules it instantiates, for its constants.

### LocationVerifier

Strings are sequences of characters, 3 for a geohash in the instance where the
code has 7, because matching prefixes is what the contract is about.  `posts` is the
set of gists each registry was asked to post; the registry is not composed
because the verifier only forwards its arguments and no other state depends on it.
`intended` is history: the prefixes the admin's calls leave.

### Reconcile

`log` is the vault's event stream as the RPC node keeps it, extended by a transaction's
events at once, and `ledger` the node's current ledger.  The tool is `phase` (the topic it fetches, or
how it ended), its arguments `range`, the `cursor`, and the two lists.  The tool
only adds its lists up, so a list is the bag of log positions it holds, and a
cursor is a position too.  `launched` is history: the ledger at which the tool started.

`FetchPage` is one turn of the loop in `fetch_events`: request, answer, decoding of each
event, push, next cursor; without a cursor the next topic follows, or the report.
The answer is the node's: up to `PageLimit` matching events after the cursor, which may
be none, with or without a cursor, but with one if more is to come.  `FromRpc`
decides for each event whether it is kept, dropped, or panics the tool
(`PanicOnPage`).  What it keeps it reads as the vault wrote it: the model tells
apart the ways data can be written only by what the decoder does with them.  Those are JSON;
base64 of so many bytes; and text that is neither, whose first character that is not base64 the
decoder's table either refuses or, beyond ASCII, does not reach.  Data that cannot be decoded is
quoted in a warning, cut after 80 bytes, which panics if that is within a character (`split`).
Base64 text of full length is taken to have the layout the decoder reads.  It gives an author
another name than JSON does, so a node is taken to write all data one way (`OneForm`).

The report prints balances that one loop builds up event by event, in a table that tips
raise and claims lower (`PendingBalances`), and then adds each author's events up again and compares
(`DriftDetected`).  Both computations are in the model; `ExitTellsBadTips` says of the log, not
of the sums, what the exit code means, and so depends on their agreement.

`TipAuthors` and `ClaimTips` here are what the entry points publish: a batch of tips (a
single tip is a batch of one), or a claim.  A tip may have any
amount, fee and net, one of the instances' two not adding up, so that the check
of the report has something to find.  A claim takes what the earlier events
leave; that a vault's claims do is `ImplementsReconcile` of the next module.

### AuditedVault

The vault's module with the node's `log` and the tool's variables added.  `Transaction` is any
step of `GistVault`, whose `emitted` events are added to the log with the ledger they are
of (`Entry`); `ReadOnly` is any step of the tool.  `Tool` is `Reconcile` over the same log, its
author addresses the vault's accounts and its `Batches` all that the vault can publish of
the payments its callers can make (`Published`).  None of `Reconcile`'s own vault actions is used,
so `ImplementsReconcile` is a claim about `GistVault`: its tips add up, its batches come whole,
and its claims take exactly what the log leaves their author.

`LogTellsStorage` is the invariant of docs/PAYMENT_LIFECYCLE.md, under "Reconciliation
invariants", which a transaction's own events (`EventsReconcile` of `GistVault`) only keep up
if every transaction that touches storage is explained, over the whole history.
`ReportTellsStorage` is what the tool's user is to make of a report: compared with storage at any later
time, it differs by the events after its range (`Later`), provided that the range was past at
launch, starts with the vault's first event and could be decoded.  Without the first proviso only
`CreditsNoMoreThanOwed` holds.

## The runs

Every cfg is a small instance with every constant given a value.  The
fractions are scaled down: a fee in tenths instead of ten-thousandths (amounts
5 and 12 make fees that round to 0 and 1 and rates that lose a remainder), an
hour of 2 ledgers and 4 seconds, a maximum lifetime of 2 hours, `MaxI128` = 30
so that overflow is reached, batches of at most 2 with a third batch too long.

| Run | What it asks | Bounds |
|---|---|---|
| `vault_money` | is every unit accounted for, over tips, batches, fee changes and claims, and do events tell the whole story | two ledgers, two keys, two gists, 34 tokens: two tips of 12, or a batch and a tip, with claims and evictions between |
| `vault_escrow` | does a key move money once per window, is an honest retry always accepted; and is the vault solvent, an escrow, and each author owed for the author's own gists only, when the treasury may be the vault itself or an author who tips, the registry be exchanged and anyone send tokens | one key, one gist id in two registries, 21 tokens; records live for 2 ledgers and 3 close, enough to expire a record and use the key again; authors may tip too |
| `vault_self_treasury` | docs/SECURITY.md's exact balance: violated | as `vault_escrow`, without direct transfers and with no author as treasury |
| `registry_life` | are gists readable while promised, bounded in storage, closed for good | two authors, two gists, lists of one id; ledgers of 2 or 3 seconds, so an hour holds 2 ledgers or fewer and the two clocks drift apart; time runs past the last eviction of a gist that was posted before `PostDeadline` and extended |
| `registry_listing` | does a paged listing repeat or lose gists; does the author's list hold every stored gist not pushed out; is every gist evicted in the end | one author, three gists with lists of two, pages of one, which is also the largest limit, so that gists leave by eviction and by a full list between pages, and a list takes two pages; posts in the first three ledgers, up to `PostDeadline`, so that later posts renew a list; time past the last eviction |
| `registry_revival` | docs/PAYMENT_LIFECYCLE.md: an expired gist cannot be extended: violated | as `registry_life` |
| `verifier_list` | does the list act as the set the admin's calls describe | lists of at most 3; prefixes nested, disjoint, empty, too long and outside the alphabet |
| `the_gist` | does the registry keep what the vault assumes, are authors owed only for their own gists, and until when can a gist be tipped | two authors, two gists posted at the start, one key, an hour of one ledger that takes longer than an hour, so that storage outlasts expiry; time past the last eviction of an extended gist, and to reuse the key |
| `the_gist_expiry` | docs/PAYMENT_LIFECYCLE.md: an expired gist cannot receive tips: violated | one gist, two keys, ledgers of 2 or 3 seconds |
| `reconcile` | are the lists snapshots, the report exact for a past range and never too high, does the exit code tell of bad tips only, does the tool end | three events over two ledgers, pages of one event, one author: tips that add up and one that does not, alone or in one transaction, and claims, around both fetches; ranges past, open and empty; data that is JSON, base64 too short by four bytes, refused, cut within a character by the warning, and beyond ASCII |
| `vault_audit` | do the vault's events add up to its storage at any time, is the tool's report true to storage, is no drift reported of a vault in order | one author, one gist and key; three events in two ledgers, from a tip, a batch of two, claims and a change of the fee between the tool's requests; ranges of the first ledger and of all; data that is read or dropped |
| `reconcile_decode` | events.rs: data that cannot be decoded is not fatal: violated | as `reconcile`, data of the lengths the comments give |

One author is enough for the tool because its sums treat authors apart and share only
the lists, which do not depend on authors.

Keys, and authors in the registry, are symmetric: nothing compares them and no
value is tied to one of them, so the invariant runs use symmetry.  Two keys are
enough because a key only meets another through balances; two gists and two
authors let a batch pay two authors, one gist twice, or one author for two
gists.  A list of one id is the smallest full list, and two gists overflow it.

Keys are used up, tokens spent and time over, but deadlock is checked in every
run of the contracts: in every reachable state the admin can still set the fee or
`initialize` can still be called, and so in the registry and the verifier with
`set_admin`; in `vault_audit` a transaction that publishes nothing remains.  The two runs of
`Reconcile` switch it off, because the tool ends and the log is full then.

Fairness is assumed twice.  Ledgers keep closing (`WF` of `CloseLedger` in `ListingSpec`): that is the network's promise, not the callers', and nothing else
is fair there: authors may extend as often as the code lets them.
`EventuallyEvicted` needs the cap in `extend_gist_ttl` to hold.  And the tool is answered
(`WF` of its page step in `FairSpec` of `Reconcile`), each answer bringing an event, a
cursor further on, or no cursor: `await` returns, and a node works that way.  A node that
answers with the same cursor for ever is excluded by that assumption, and would
keep the tool asking for ever.

### What disagreed with the documents

* `docs/SECURITY.md` states that the vault's token balance equals the sum of
  pending balances at all times.  `set_treasury` accepts the vault's own address;
  then fees stay in the vault and belong to nobody (`vault_self_treasury`).
  `Solvent`, which is what authors depend on, holds there, and the equality
  holds when the treasury is another account and nobody sends tokens directly.
* `docs/PAYMENT_LIFECYCLE.md` says an expired gist cannot be extended.  The
  code refuses only when the *new* expiry is past, so a gist whose expiry
  passed less than 24 hours ago is made active again (`registry_revival`).
* `docs/PAYMENT_LIFECYCLE.md` explains the panic "gist is not active" by "gist has
  expired".  The vault tests the flag, which the passing of the expiry does
  not clear, so a gist is tipped as long as it is stored (`the_gist_expiry`);
  `TipsEndWithStorage` bounds for how long.
* `from_rpc` in `events.rs` is said to log and skip what it cannot decode.
  `decode_tipped_xdr` asks for 84 bytes, the length of the layout in its comment,
  where a gist id takes 4, and reads 88, where it takes 8: data of 84 to 87 bytes panics
  (`reconcile_decode`).  So does text beyond ASCII, by the index into the
  128 entries of the table in `base64_decode`, and so does the warning that was to log the data,
  when its cut after 80 bytes falls within a character; the `reconcile` run includes both.
* Read, not checked by a run: `batch_expire`'s comment says it returns the count
  actually expired.  It counts every id that is stored, an inactive or repeated one
  included.
* Read, not checked by a run: `tools/reconcile-vault/README.md` and the tool's last line of output say of its balances
  that any mismatch with `get_pending_balance` indicates contract drift or an indexer bug.  The tool
  does not compare the end of its range with the node's latest ledger, so a tip that lands
  between its two fetches is missing from a report on a range up to now.  The report then is too low, never too
  high (`CreditsNoMoreThanOwed`), and exact for a range that was past at launch
  (`ReportTellsStorage`).
* Read, not checked by a run: docs/PAYMENT_LIFECYCLE.md says the tool verifies the invariants that relate
  events to storage.  It has no access to storage; its second check compares two ways of adding up the same
  events, which always agree (`BalancesAgree`), and its first finds nothing wrong with any vault that runs this
  code (`NeverDrifts`).
* Read, not checked by a run: `docs/INTEGRATION.md` says the verifier emits events
  when the admin changes the allow-list; `update_boundaries` emits none.

## The proofs

`tlapm` checks these for every value of the constants under the assumptions
named in the modules (finite sets of accounts and gists, an unset address that is
none, a fee cap of at most the denominator, an hour that holds at most
`LEDGERS_PER_HOUR` ledgers, author lists that outlive every gist, a prefix list with
room for one, pages of at least one entry).

Of the vault, in `GistVault_proofs`:

* `TypeCorrect`.  `TypeOK` is inductive by itself.  Its interesting part is that
  `pending`, `gistTotal` and `balance` stay natural numbers, the first two within an `i128`, which rests on the
  checked additions, on the
  fee never exceeding the amount (`FeeBounds`, from the cap on `feeBps`), on fees
  adding up to no more than the gross, and on guards against overdrafts.
* `VaultImplementsEscrow`.  Every step of the vault is a deposit, a withdrawal or a
  stutter of `TipEscrow`.  The step that matters is `Pay`: the sum of all pending
  balances grows by gross minus fees (`SumByGroup`, exchanging a sum over items for
  a sum over authors), which is what the token balance grows by, or less if the
  treasury is the vault.
* `Solvency`.  The same bookkeeping, as an invariant: `Solvent` with `TypeOK`.
* `BalanceExact`.  With the extra assumptions that the vault is no treasury, that
  no tokens are sent directly and that it starts empty, the two sides are equal.
* `KeysAreSingleUse`.  `AtMostOncePerWindow` is not inductive: it speaks of past
  uses only.  The invariant adds `Guarded(k)`: a key whose last use lies within
  the window has a live record, and its record lives to the end of that window;
  so the next use, which needs the record gone, lies beyond it.
* `ClaimsAreCovered` and `RetriesAreRepeatable`, the guards behind the two properties that
  say `ENABLED`.  A balance that can be claimed is covered by the vault's tokens, by the
  escrow invariant.  A live record holds arguments that passed the checks before the
  replay when it was written, and nothing that changes since (fee, treasury, registry, the
  gist) is among what those checks read: that is inductive, record by record.
* `EventsExplainStorage`.  Step by step: `Pay` publishes one event per item, so the sums
  over events and over items are the same sums over one index set; a claim publishes what
  it zeroes; every other step publishes nothing.
* `OwedOnlyForOwnGists`.  Inductive with `TypeOK`.  A payment adds to an author's balance the
  nets of items whose gist that author posted, and at least as much to the totals of
  those gists (`SumByGroup`, `SumSubset`, `SumLeq`); posting a gist can only enlarge the set
  of ids summed over.
* `GrossIsAccountedFor` and `FeesAreCapped`, under `Apart`: no account is two of tipper,
  author and treasury, the vault is no treasury, and nobody sends it tokens (otherwise what an
  account gained is not what the vault paid it).  The invariant `MoneyInv` adds that
  only authors are owed anything, without which a claim could pay someone whose
  gains are not counted.  The run `vault_money` satisfies `Apart`.
* `LoopIsPay` and `LoopPeaksAtTheEnd`.  `Loop` is the loop of
  `tip_authors`: each turn sends its fee and adds to the entries the turn before
  it left.  By induction on the turns (`SumByLoop`, `FeesJoin`) the last state is the one
  `Credit`, `AddToGistTotals` and `SplitFunds` describe, and as nothing added is negative no entry
  was ever larger, so `NoOverflow` may look at the end only.

Of the registry, in `GistRegistry_proofs`: `RegistryTypeOK`, `NeverEvictedEarly`,
`StorageStaysBounded` and `ClosedForGood` rest on one inductive invariant, `RegInv`.  None of
the bounds is inductive, because the two clocks advance together only roughly.
`Timely` relates them: the seconds a gist has left fit into the ledgers its entry has
left, and the ledgers since its post into the seconds since.  A post and an
extension establish the first by rounding up (`TtlCovers`), each ledger preserves both
because it takes at least its nominal share of an hour; and the storage bound after an
extension follows from the second and from the cap on the lifetime.
`AuthorIndexIsComplete` needs more, `IndexInv`, from which `OnItsPage` finds the page, of any size
the listing accepts, that holds an id of the list that is stored: a list holds only its author's ids, it lives
at least `AUTHOR_LIST_TTL_HOURS` beyond the post of each gist it should hold, which is longer than
that gist can be stored, and a gist that is missing from it was pushed out by
`MAX_AUTHOR_GISTS` newer ones (`LaterGists`, a finite set that only grows).

Of a reader of listings, in `GistListing_proofs`: `NoGistTwice` and `NoMoreSkippedThanLeft`.  That no
page repeats a gist cannot be inductive: the next page is cut by offset from a listing that
has changed.  `ListingInv` says what the offset still means then: the ids read ascend, and of
the ids now listed no more lie up to the last one read than the offset counts.  So
the next page, beyond that many, lies above all that was read (`PageFollows`).  Between
pages a listing only loses ids or gains larger ones (`LiveShrinks`), as an id is never used twice and
nothing comes back.

Of the verifier, in `LocationVerifier_proofs`: `VerifierTypeOK` and `RegionIsIntended`, from
`VerifierInv`: as a set, the list is what the admin intends.  `add_allowed_prefix` may append a copy;
a removal filters out every copy, and that is why it revokes.

Of the deployed pair, in `TheGist_proofs`:

* `PairKeepsRegistry`.  `PairInv`, the registry's `IndexInv` and ledgers that take at least a
  second, is inductive in the pair: each transaction of the registry is a step
  of the registry alone, and a vault's step leaves its variables unchanged.
* `DeployedVaultIsVault`, the refinement `ImplementsVault`.  `GetGist` maps the
  registry's storage to what the vault's module calls `gists`, and each step of the pair is shown
  to be one of that module's: a post is a posting by an author of an id nobody used
  (`PostShown`, which needs that ids beyond the counter were never posted), the three ways to
  expire are `ExpireGists` of those that were active, and a stutter if none was (`ExpireShown`);
  extensions and settings change no answer (`OtherShown`); a ledger evicts for both, gists that are
  stored into gists that are gone with their author kept (`CloseShown`); and
  the vault's calls are its own, their events unfiltered (`VaultStepShown`).
* `DeployedVaultSolvent` and `EarnedByTheGistsPosted` follow from it and from `Solvency` and
  `OwedOnlyForOwnGists`, the vault's theorems with the registry's answers put in for its
  parameters.
* `NothingEarnedLater`.  A gist total grows only when the gist is stored (`EarnsWhileStored`), and
  the registry's invariant bounds how long that is.
* `DeployedRegistryKeepsPromises` and `DeployedClosedStaysClosed`: the registry's theorems hold in the pair.
* `DeployedKeysAreSingleUse`, `DeployedMoneyAccounted` and `DeployedEventsExplain`: the vault's theorems on
  keys, on where every unit went and on events hold in the pair, by the same refinement; the
  second under `PartiesApart`, that tippers, authors and treasuries are different accounts and none is
  the vault, and with an empty vault to start with.  The instance of `the_gist` satisfies both.

Of the tool, in `Reconcile_proofs`: `ToolTypeOK`, `ListsAlwaysSnapshots`, `ExitOnlyTellsBadTips`,
`ReportsAreExact` and `ReportsNeverOverstate`, from `RecInv`.  While a topic is fetched its list holds
exactly what can be decoded before the cursor; when it is done, `Drained` says
that it holds that up to some position, beyond which nothing in range follows if the range was
past at launch.  Appending to the log preserves both, as a new event lies beyond
every cursor and its ledger beyond a past range.  What the exit code says
of the log rests on two facts.  `BalancesAgree`: for any two lists the table built event by event
holds, of each author, the net of the tips less the claims added up separately.  It is an
induction over the log (`OneTurn`, `NoTurn`, `TurnsAddUp`: after each turn an entry holds the start
and the sum of the author's terms so far, whatever the other authors' turns did), and it leaves
the bad tips as the only drift there is (`OnlyBadTips`).  And `RecInv` keeps, after the
end, that the phase says whether the list of tips has a bad one (`ExitIsBadTips`), which
`ExitTellsOfLog` carries over from the list to the log by `Drained`.  `ReportsNeverOverstate` compares
the sums at the report's step term by term: the tips of a snapshot are among those
of the range, and the claims, fetched to the end of the log in that very step, are all of them.
`PagesGoForward` is the safety half of `Terminates`: a turn of the loop that changes
anything and does not end the fetch moves the cursor on, within the log.
`TipsAdd`, `ClaimSettles` and `ListsAdd` say how the sums over a log change when a batch or a
claim is appended (`SumJoined`: a sum over a joined list is the sum of two), and that the sums
over two lists are those over both together.

Of the vault and the tool together, in `AuditedVault_proofs`.  `AuditInv` is inductive: the vault's `TypeOK`,
the tool's `RecInv`, that the log tells storage (`Told`), and that its tips add up (`AddsUp`).
Each part needs the others: `RecInv` is kept because each transaction is a step the tool's module
allows, a claim is such a step only because what is pending is what the log leaves its author, and
that is kept because what a payment credits is the sum of the nets it publishes.

* `AuditedVaultIsVault`: the tool only reads, so that the vault's theorems hold while it runs.
* `AuditImplementsReconcile`, the refinement `ImplementsReconcile`: a payment is one step `TipAuthors` of the shares
  of its items at the rate of the day (`PayPublishes`), a claim one step `ClaimTips`
  (`ClaimStep`), a ledger a ledger, and every other transaction, a replay included, a
  stutter, as it publishes nothing (`SilentStep`).  So the tool's theorems hold of this vault.
* `LogAlwaysTellsStorage`: `Told`, by `TipsAdd` and `ClaimSettles` at each step.
* `ReportsTellStorage`: by `ReportIsExact` the report gives the sums of its range, and the range and the later
  events are the whole log (`ListsAdd`).
* `CreditsNeverMoreThanOwed`: by `ReportStepBounded` the report is no higher than the sums of its range,
  which are then those of the whole log, and these are what is pending.
* `NeverDrifting`: tips that add up are never bad, and there is no other drift, by `ExitIsBadTips`.

`DataLemmas` derives what these need of the library's `SumFunctionOnSet` (empty set,
one element more, pointwise addition, change at one point, grouping, subsets,
comparison, a common factor, joined lists, a loop that adds to the entries of a table) from its definition.  The library folds by choosing
elements, so the facts are proved by well-founded induction on subsets, stated
with sets in place of operator parameters.  It does the same for `Filter`: what is kept is what
was there and passes the test, each in its turn.  `Filter` is a function of the position in
the list and a set, because the standard `SelectSeq` takes its test as an operator, which the
provers cannot instantiate.

Only model-checked are `RetryAlwaysAccepted` and `ClaimAlwaysAvailable`, as the prover does not
unfold `ENABLED` (their guards are proved, see above), and `EventuallyEvicted` and
`Terminates`, which are liveness under fairness (of both the safety half is proved, `StorageStaysBounded`
and `PagesGoForward`).  Every other property of a passing run is a theorem.  The properties that the runs expect to be
violated are no theorems, as the code refutes them.

## Not modelled

* Authorization is the caller argument: the account that calls is the one whose
  `require_auth` would succeed.
* CIDs and geohashes in the registry, with `post_gist`'s two checks of them and the
  panic of `get_gists_by_geohash` on a prefix longer than its buffer of 12 bytes; `get_active_gist_count`, a count of
  `IsGistActive`; `get_boundaries`, the first entry of the list; the events `PrefixAdded` and `PrefixRemoved` of the verifier, which nothing in
  the repository reads.
* Resource limits (instructions, entry sizes), fees of the network.
* Archival of persistent and instance entries.
* The turns of the loop of `tip_authors` as steps: a transaction is atomic, `Pay` states
  what the loop leaves behind and `GistVault_proofs` that it does.
* In the tool: printing, parsing of the command line beyond the range check, the
  wrap of its `i128` sums (or their panic, in a debug build), and the bytes behind a decoded field.
  Base64 data means bytes in the layout of the decoder's own comments, as if a node wrote
  them; what the contract publishes is a map in XDR, which the decoder does not read.  The name it
  makes of a recipient, "G" and the bytes in hexadecimal, is left out with `OneForm`.
* Deployment scripts, CI, generated lock files: they keep no state a property
  could relate.

## Order of the work

The modules were written in the order money, lifetimes, lists, composition, tool:
`GistVault` with `TipEscrow` and its proofs, `GistRegistry`, `LocationVerifier`, `TheGist`,
`GistListing`, `Reconcile`, then the proofs of the registry, of the vault's sums and of the
tool, those of the listings, the verifier and the composition, and last `AuditedVault` with its
proofs.  What would come next is the verifier in the composition, with authors who post through it.
