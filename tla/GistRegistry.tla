---------------------------- MODULE GistRegistry ----------------------------
(***************************************************************************)
(* The gist registry, contracts/gist-registry/src/lib.rs: gists live in    *)
(* temporary storage, whose TTL is counted in ledgers, and expire at a     *)
(* timestamp, counted in seconds.  One action per entry point that writes  *)
(* state; a call that panics is a step that is not taken.  CID and geohash *)
(* are data no property depends on and are left out, with the two checks   *)
(* post_gist makes of them.                                                *)
(***************************************************************************)
EXTENDS Integers, Sequences, FiniteSets, SequencesExt, Filters

CONSTANTS
    Account,               \* addresses that can authorize a call
    Administrator,         \* the accounts that may be named admin
    Author,                \* the accounts that post gists
    NoAddress, NoGist,     \* an absent admin, an absent temporary entry
    TtlArg,                \* the ttl_or_expiry arguments tried, NoTtl or numbers
    NoTtl,                 \* ttl_or_expiry = None
    ExpireBatches,         \* the id sequences tried in batch_expire
    LEDGERS_PER_HOUR, SECONDS_PER_HOUR,
    DEFAULT_GIST_TTL_HOURS, MAX_GIST_TTL_HOURS, EXTENSION_HOURS,
    AUTHOR_LIST_TTL_HOURS, MAX_AUTHOR_GISTS, MAX_EXPIRE_BATCH,
    MAX_PAGE_LIMIT,        \* the largest page a listing gives
    Refused,               \* the outcome of a query that panics
    LedgerSeconds,         \* how long a ledger may take to close
    Genesis,               \* the timestamp of the first ledger
    PostDeadline,          \* bound: no gist is posted after this timestamp
    MaxGists,              \* bound on the number of gists posted
    MaxTime                \* bound: no ledger closes once this time is reached

VARIABLES
    admin,                 \* instance storage
    gistCount,             \* instance storage: the last gist id given out
    gists,                 \* temporary Gist entries by id
    authorGists,           \* temporary AuthorGists entries, <<>> when absent
    authorUntil,           \* the last ledger of each AuthorGists entry
    now, seq,              \* timestamp and sequence number of the ledger
    emitted,               \* the events of the last transaction
    returned,              \* what its entry point returned, if a number
    posted                 \* history: what each gist was promised

storage == <<admin, gistCount, gists, authorGists, authorUntil>>
vars == <<storage, now, seq, emitted, returned, posted>>

Id == 1 .. MaxGists

Gist == [author : Account, timestamp : Nat, expiry : Nat,
         is_active : BOOLEAN, until : Nat]

ASSUME SetAssumption ==
    /\ Administrator \subseteq Account /\ Author \subseteq Account
    /\ NoAddress \notin Account /\ NoGist \notin Gist
    /\ TtlArg \subseteq Nat \cup {NoTtl}
    /\ ExpireBatches \subseteq Seq(Nat)
    /\ LedgerSeconds \subseteq Nat \ {0}
    /\ Refused \notin Seq(Nat)

ASSUME NumberAssumption ==
    /\ {LEDGERS_PER_HOUR, SECONDS_PER_HOUR, DEFAULT_GIST_TTL_HOURS,
        MAX_GIST_TTL_HOURS, EXTENSION_HOURS, MAX_AUTHOR_GISTS,
        MAX_PAGE_LIMIT} \subseteq Nat \ {0}
    /\ {AUTHOR_LIST_TTL_HOURS, MAX_EXPIRE_BATCH, Genesis, PostDeadline,
        MaxGists, MaxTime} \subseteq Nat
    /\ DEFAULT_GIST_TTL_HOURS =< MAX_GIST_TTL_HOURS

(* A timestamp is never mistaken for a number of hours, an hour holds no    *)
(* more ledgers than LEDGERS_PER_HOUR, and author lists outlast gists.      *)
ASSUME PaceAssumption ==
    /\ Genesis > MAX_GIST_TTL_HOURS
    /\ \A d \in LedgerSeconds : d * LEDGERS_PER_HOUR >= SECONDS_PER_HOUR
    /\ AUTHOR_LIST_TTL_HOURS > MAX_GIST_TTL_HOURS

-----------------------------------------------------------------------------
HoursToLedgerTtl(hours) == hours * LEDGERS_PER_HOUR

SecondsToLedgerTtlRoundedDown(seconds) ==
    HoursToLedgerTtl(seconds \div SECONDS_PER_HOUR)

SecondsToLedgerTtl(seconds) ==
    HoursToLedgerTtl((seconds + SECONDS_PER_HOUR - 1) \div SECONDS_PER_HOUR)

(* A small argument is a number of hours, a large one an absolute expiry,   *)
(* and none means the default.                                              *)
GistTimeToExpiry(arg) ==
    LET InHours(hours) == [expiry |-> now + hours * SECONDS_PER_HOUR,
                           ttl |-> HoursToLedgerTtl(hours)]
    IN  IF arg = NoTtl THEN InHours(DEFAULT_GIST_TTL_HOURS)
        ELSE IF arg =< MAX_GIST_TTL_HOURS THEN InHours(arg)
        ELSE [expiry |-> arg, ttl |-> SecondsToLedgerTtl(arg - now)]

LatestExpiry(timestamp) == timestamp + MAX_GIST_TTL_HOURS * SECONDS_PER_HOUR

(* extend_ttl never shortens the life of an entry.                          *)
ExtendTtl(until, ttl) == IF until < seq + ttl THEN seq + ttl ELSE until

EnsureAdmin(caller) == caller = admin

Stored(id) == id \in Id /\ gists[id] # NoGist

StoredIds == {id \in Id : Stored(id)}

Inactive(gist) == [gist EXCEPT !.is_active = FALSE, !.expiry = now]

ExpiredEvent(id, by) == [type |-> "expired", gist_id |-> id, by |-> by]

KeepAll(ids) == ids

(* The oldest entries are dropped from the front of a full list.            *)
KeepNewest(ids) ==
    IF Len(ids) > MAX_AUTHOR_GISTS THEN Tail(ids) ELSE ids

AppendWithoutTtl(author, id) ==
    /\ authorGists' = [authorGists EXCEPT ![author] = KeepNewest(Append(@, id))]
    /\ authorUntil' = [authorUntil EXCEPT ![author] =
                         IF authorGists[author] = <<>>
                         THEN seq + HoursToLedgerTtl(AUTHOR_LIST_TTL_HOURS) ELSE @]

AppendAuthorGist(author, id) ==
    /\ authorGists' = [authorGists EXCEPT ![author] = KeepNewest(Append(@, id))]
    /\ authorUntil' = [authorUntil EXCEPT ![author] =
                         ExtendTtl(@, HoursToLedgerTtl(AUTHOR_LIST_TTL_HOURS))]

(* The queries.                                                             *)
IsGistActive(id) ==
    Stored(id) /\ gists[id].is_active /\ gists[id].expiry > now

PageAfterOneMore(entries, limit, offset) ==
    SubSeq(entries, offset + 2,
           IF offset + limit < Len(entries) THEN offset + limit + 1 ELSE Len(entries))

(* The page of the entries after the first offset ones.                     *)
PageOf(entries, limit, offset) ==
    SubSeq(entries, offset + 1,
           IF offset + limit < Len(entries) THEN offset + limit ELSE Len(entries))

GetGistsByAuthor(author, limit, offset) ==
    IF limit > MAX_PAGE_LIMIT THEN Refused
    ELSE PageOf(Filter(authorGists[author], StoredIds), limit, offset)

-----------------------------------------------------------------------------
(* The entry points.                                                        *)

Initialize(adm) ==
    /\ admin = NoAddress
    /\ admin' = adm
    /\ emitted' = <<>> /\ returned' = 0
    /\ UNCHANGED <<gistCount, gists, authorGists, authorUntil, now, seq, posted>>

SetAdmin(caller, new) ==
    /\ EnsureAdmin(caller)
    /\ admin' = new
    /\ emitted' = <<>> /\ returned' = 0
    /\ UNCHANGED <<gistCount, gists, authorGists, authorUntil, now, seq, posted>>

PostGist(author, arg) ==
    LET id == gistCount + 1
        life == GistTimeToExpiry(arg)
    IN
    /\ id \in Id /\ now =< PostDeadline
    /\ life.expiry > now
    /\ life.expiry =< LatestExpiry(now)
    /\ gistCount' = id
    /\ gists' = [gists EXCEPT ![id] =
                   [author |-> author, timestamp |-> now, expiry |-> life.expiry,
                    is_active |-> TRUE, until |-> seq + life.ttl]]
    /\ AppendAuthorGist(author, id)
    /\ emitted' = <<[type |-> "posted", gist_id |-> id, by |-> author]>>
    /\ returned' = id
    /\ posted' = [posted EXCEPT ![id] =
                    [author |-> author, seq |-> seq, expiry |-> life.expiry]]
    /\ UNCHANGED <<admin, now, seq>>

(* What expiring the ids of a sequence, one after another, leaves behind.   *)
ExpireAll(ids, by) ==
    LET found == {id \in ToSet(ids) : Stored(id)}
        expired == Filter(ids, StoredIds)
    IN  /\ gists' = [id \in Id |-> IF id \in found THEN Inactive(gists[id]) ELSE gists[id]]
        /\ posted' = [id \in Id |-> IF id \in found THEN [posted[id] EXCEPT !.expiry = now]
                                    ELSE posted[id]]
        /\ emitted' = [i \in DOMAIN expired |-> ExpiredEvent(expired[i], by)]
        /\ UNCHANGED <<admin, gistCount, authorGists, authorUntil, now, seq>>

ExpireGist(caller, id) ==
    /\ Stored(id)
    /\ gists[id].author = caller
    /\ ExpireAll(<<id>>, caller) /\ returned' = 0

AdminExpireGist(caller, id) ==
    /\ EnsureAdmin(caller)
    /\ Stored(id)
    /\ ExpireAll(<<id>>, caller) /\ returned' = 0

BatchExpire(caller, ids) ==
    /\ EnsureAdmin(caller)
    /\ Len(ids) =< MAX_EXPIRE_BATCH
    /\ ExpireAll(ids, caller)
    /\ returned' = Cardinality({i \in DOMAIN ids : Stored(ids[i])})

Prolong(id, expiry) ==
    /\ gists' = [gists EXCEPT ![id].expiry = expiry,
                   ![id].until = ExtendTtl(@, SecondsToLedgerTtl(expiry - now))]
    /\ posted' = [posted EXCEPT ![id].expiry = expiry]
    /\ emitted' = <<>> /\ returned' = 0
    /\ UNCHANGED <<admin, gistCount, authorGists, authorUntil, now, seq>>

ExtendInactive(caller, id) ==
    /\ Stored(id)
    /\ gists[id].author = caller
    /\ LET expiry == gists[id].expiry + EXTENSION_HOURS * SECONDS_PER_HOUR IN
       /\ expiry =< LatestExpiry(gists[id].timestamp)
       /\ expiry >= now
       /\ gists' = [gists EXCEPT ![id].expiry = expiry, ![id].is_active = TRUE]
    /\ UNCHANGED <<admin, gistCount, authorGists, authorUntil, now, seq,
                   emitted, returned, posted>>

ExtendUncapped(caller, id) ==
    /\ Stored(id)
    /\ gists[id].author = caller
    /\ gists[id].is_active
    /\ LET expiry == gists[id].expiry + EXTENSION_HOURS * SECONDS_PER_HOUR IN
       /\ expiry =< LatestExpiry(now)
       /\ expiry >= now
       /\ Prolong(id, expiry)

ExtendGistTtl(caller, id) ==
    /\ Stored(id)
    /\ gists[id].author = caller
    /\ gists[id].is_active
    /\ LET expiry == gists[id].expiry + EXTENSION_HOURS * SECONDS_PER_HOUR IN
       /\ expiry =< LatestExpiry(gists[id].timestamp)
       /\ expiry >= now
       /\ Prolong(id, expiry)

-----------------------------------------------------------------------------
(* The host: a ledger closes, and temporary entries whose TTL has run out   *)
(* are gone.                                                                *)
CloseLedger(seconds) ==
    /\ now < MaxTime
    /\ now' = now + seconds
    /\ seq' = seq + 1
    /\ gists' = [id \in Id |-> IF Stored(id) /\ gists[id].until < seq'
                               THEN NoGist ELSE gists[id]]
    /\ authorGists' = [a \in Account |-> IF authorUntil[a] < seq'
                                         THEN <<>> ELSE authorGists[a]]
    /\ emitted' = <<>> /\ returned' = 0
    /\ UNCHANGED <<admin, gistCount, authorUntil, posted>>

Init ==
    /\ admin = NoAddress
    /\ gistCount = 0
    /\ gists = [id \in Id |-> NoGist]
    /\ authorGists = [a \in Account |-> <<>>]
    /\ authorUntil = [a \in Account |-> 0]
    /\ now = Genesis /\ seq = 0
    /\ emitted = <<>> /\ returned = 0
    /\ posted = [id \in Id |-> [author |-> NoAddress, seq |-> 0, expiry |-> 0]]

Next ==
    \/ \E a \in Administrator : Initialize(a)
    \/ \E a \in Account, b \in Administrator : SetAdmin(a, b)
    \/ \E a \in Author, arg \in TtlArg : PostGist(a, arg)
    \/ \E a \in Account, id \in Id :
          ExpireGist(a, id) \/ AdminExpireGist(a, id) \/ ExtendGistTtl(a, id)
    \/ \E a \in Account, ids \in ExpireBatches : BatchExpire(a, ids)
    \/ \E d \in LedgerSeconds : CloseLedger(d)

Spec == Init /\ [][Next]_vars

-----------------------------------------------------------------------------
(* Properties.                                                              *)

(* Every variable keeps its type, ids above gistCount were never stored,    *)
(* and lists hold at most MAX_AUTHOR_GISTS ids, in the order of posting.    *)
TypeOK ==
    /\ admin \in Account \cup {NoAddress}
    /\ gistCount \in 0 .. MaxGists
    /\ gists \in [Id -> Gist \cup {NoGist}]
    /\ \A id \in Id : id > gistCount => gists[id] = NoGist
    /\ authorGists \in [Account -> Seq(1 .. gistCount)]
    /\ \A a \in Account :
          /\ Len(authorGists[a]) =< MAX_AUTHOR_GISTS
          /\ \A i, j \in DOMAIN authorGists[a] :
                i < j => authorGists[a][i] < authorGists[a][j]
    /\ authorUntil \in [Account -> Nat]
    /\ now \in Nat /\ seq \in Nat
    /\ returned \in Nat
    /\ posted \in [Id -> [author : Account \cup {NoAddress}, seq : Nat, expiry : Nat]]

(* A gist is readable until the expiry it was promised: temporary storage,  *)
(* whose TTL is in ledgers rounded up to hours, never evicts it earlier, as *)
(* long as an hour holds at most LEDGERS_PER_HOUR ledgers.                  *)
NoEarlyEviction ==
    \A id \in 1 .. gistCount : posted[id].expiry > now => Stored(id)

(* However often a gist is extended, it never occupies storage for more     *)
(* than an hour beyond the maximum lifetime, nor is it active beyond it.    *)
StorageBounded ==
    \A id \in Id : Stored(id) =>
        /\ gists[id].until =< posted[id].seq + HoursToLedgerTtl(MAX_GIST_TTL_HOURS + 1)
        /\ IsGistActive(id) => gists[id].expiry =< LatestExpiry(gists[id].timestamp)

LaterGists(id) ==
    {later \in id + 1 .. gistCount : posted[later].author = posted[id].author}

(* Whoever reads get_gists_by_author page by page, in pages of any size it  *)
(* accepts, finds every stored gist, unless MAX_AUTHOR_GISTS newer ones of  *)
(* its author have pushed it out: the list, which has a TTL of its own, is  *)
(* never evicted before a gist it lists.                                    *)
AuthorIndexComplete ==
    \A id \in Id, limit \in 1 .. MAX_PAGE_LIMIT :
        Stored(id) /\ Cardinality(LaterGists(id)) < MAX_AUTHOR_GISTS =>
            \E page \in 0 .. MAX_AUTHOR_GISTS - 1 :
                id \in ToSet(GetGistsByAuthor(gists[id].author, limit, page * limit))

(* A gist that was expired by its author or the admin, or was evicted,      *)
(* never becomes active again and its id never comes back.                  *)
ClosedStaysClosed ==
    [][\A id \in 1 .. gistCount :
          /\ ~ Stored(id) => ~ Stored(id)'
          /\ Stored(id) /\ ~ gists[id].is_active => ~ IsGistActive(id)']_vars

(* docs/PAYMENT_LIFECYCLE.md on extend_gist_ttl: an expired gist cannot be  *)
(* extended.                                                                *)
ExpiredStaysExpired ==
    [][\A id \in 1 .. gistCount : ~ IsGistActive(id) => ~ IsGistActive(id)']_vars

(* Every gist is evicted in the end, whatever its author extends.           *)
EventuallyEvicted == \A id \in Id : [](Stored(id) => <>(~ Stored(id)))
=============================================================================
