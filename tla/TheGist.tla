------------------------------ MODULE TheGist ------------------------------
(***************************************************************************)
(* The registry and the vault deployed together: one ledger clock, one     *)
(* event stream, and get_gist calls answered by the registry's storage.    *)
(* Every transaction runs one entry point of one contract; tip_author and  *)
(* tip_authors read the registry inside theirs.                            *)
(***************************************************************************)
EXTENDS Integers, Sequences, FiniteSets, SequencesExt, Filters

CONSTANTS
    Account, Administrator, Tipper, Author, Vault, Treasury,
    RegistryAddress,       \* where the registry is deployed
    Key, Amount, Batches, FeeRate, InitialBalance,
    TtlArg, ExpireBatches,
    NoAddress, NoRecord, NoGist, NoTtl,
    MAX_FEE_BPS, BPS_DENOMINATOR, MAX_BATCH_SIZE,
    LEDGERS_PER_HOUR, SECONDS_PER_HOUR, TIP_RECORD_TTL_HOURS,
    DEFAULT_GIST_TTL_HOURS, MAX_GIST_TTL_HOURS, EXTENSION_HOURS,
    AUTHOR_LIST_TTL_HOURS, MAX_AUTHOR_GISTS, MAX_EXPIRE_BATCH,
    MAX_PAGE_LIMIT, Refused,
    MaxI128, LedgerSeconds, Genesis, PostDeadline, MaxGists, MaxTime

VARIABLES
    (* the registry *)
    regAdmin, gistCount, gists, authorGists, authorUntil, returned, posted,
    (* the vault and the token contract *)
    admin, registry, feeBps, treasury, pending, gistTotal, records, balance, uses,
    (* the ledger *)
    now, seq, emitted

GistRegistry == INSTANCE GistRegistry WITH admin <- regAdmin

(* What get_gist answers, as the vault sees it; an id the counter has       *)
(* passed and storage does not hold was evicted.                            *)
GetGist ==
    [r \in {RegistryAddress} |-> [id \in GistRegistry!Id |->
        IF GistRegistry!Stored(id)
        THEN [state |-> "stored", author |-> gists[id].author,
              is_active |-> gists[id].is_active]
        ELSE [state |-> IF id > gistCount THEN "unposted" ELSE "evicted",
              author |-> posted[id].author, is_active |-> FALSE]]]

GistVault ==
    INSTANCE GistVault WITH
        gists <- GetGist, Registry <- {RegistryAddress}, GistId <- GistRegistry!Id,
        Donation <- {}, MaxLedger <- MaxTime

(* What each contract assumes of its constants, for the deployed pair.      *)
ASSUME RegistryAssumption ==
    /\ GistRegistry!SetAssumption
    /\ GistRegistry!NumberAssumption
    /\ GistRegistry!PaceAssumption

ASSUME VaultAssumption ==
    /\ GistVault!AccountAssumption
    /\ GistVault!InputAssumption
    /\ GistVault!NumberAssumption

registryVars ==
    <<regAdmin, gistCount, gists, authorGists, authorUntil, returned, posted>>
config == <<admin, registry, feeBps, treasury>>
vaultVars == <<config, pending, gistTotal, records, balance, uses>>
vars == <<registryVars, vaultVars, now, seq, emitted>>

Init == GistRegistry!Init /\ GistVault!Init

RegistryStep ==
    /\ \/ \E a \in Administrator : GistRegistry!Initialize(a)
       \/ \E a \in Account, b \in Administrator : GistRegistry!SetAdmin(a, b)
       \/ \E a \in Author, arg \in TtlArg : GistRegistry!PostGist(a, arg)
       \/ \E a \in Account, id \in GistRegistry!Id :
             \/ GistRegistry!ExpireGist(a, id)
             \/ GistRegistry!AdminExpireGist(a, id)
             \/ GistRegistry!ExtendGistTtl(a, id)
       \/ \E a \in Account, ids \in ExpireBatches : GistRegistry!BatchExpire(a, ids)
    /\ UNCHANGED vaultVars

VaultStep == UNCHANGED <<registryVars, now>> /\ GistVault!VaultStep

(* One ledger closes for both contracts.                                    *)
CloseLedger(seconds) ==
    /\ GistRegistry!CloseLedger(seconds)
    /\ GistVault!EvictRecords(seq')
    /\ UNCHANGED <<config, pending, gistTotal, balance, uses>>

Next ==
    \/ RegistryStep
    \/ VaultStep
    \/ \E d \in LedgerSeconds : CloseLedger(d)

Spec == Init /\ [][Next]_vars

-----------------------------------------------------------------------------
(* Properties.                                                              *)

VaultEvents == {event \in ToSet(emitted) : event.type \in {"tipped", "claimed"}}

VaultView ==
    INSTANCE GistVault WITH
        gists <- GetGist, Registry <- {RegistryAddress}, GistId <- GistRegistry!Id,
        Donation <- {}, MaxLedger <- MaxTime, emitted <- Filter(emitted, VaultEvents)

(* The deployed vault, answered by the registry, is the vault with the      *)
(* surroundings its own module assumes: in the registry no id is ever used  *)
(* again, no closed gist reopens, and nothing but an entry point or the     *)
(* host changes what get_gist answers.                                      *)
ImplementsVault == VaultView!Spec

GistsOf(author) == {id \in 1 .. gistCount : posted[id].author = author}

(* What the vault holds for an author never exceeds what was tipped to the  *)
(* gists that author posted, also after the registry has forgotten them.    *)
EarnedByOwnGists ==
    \A a \in Account :
        pending[a] =< SumFunctionOnSet(gistTotal, GistsOf(a))

(* The last ledger at which the registry may hold a gist, however extended. *)
LastLedger(id) ==
    posted[id].seq + GistRegistry!HoursToLedgerTtl(MAX_GIST_TTL_HOURS + 1)

(* No gist earns anything later than an hour after its maximum lifetime:    *)
(* the vault has no clock for gists, and relies on the registry's storage.  *)
TipsEndWithStorage ==
    [][\A id \in 1 .. gistCount : gistTotal'[id] # gistTotal[id] => seq =< LastLedger(id)]_vars

(* docs/PAYMENT_LIFECYCLE.md on tip_author: a gist that has expired cannot  *)
(* receive tips.                                                            *)
NoTipAfterExpiry ==
    [][\A id \in 1 .. gistCount :
          gistTotal'[id] # gistTotal[id] => GistRegistry!IsGistActive(id)]_vars
=============================================================================
