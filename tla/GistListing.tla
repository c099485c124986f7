----------------------------- MODULE GistListing -----------------------------
(***************************************************************************)
(* A client that reads a listing of the registry page by page,             *)
(* get_gists_by_author or get_gists_by_geohash, each page at the offset    *)
(* the previous ones reached, while gists are posted, expired, extended    *)
(* and evicted between two pages.                                          *)
(***************************************************************************)
EXTENDS GistRegistry

CONSTANTS
    Covered,               \* the ids whose geohash starts with the prefix asked
                           \* for, which is no longer than the code's buffer
    Reader,                \* the author asked for
    Limit                  \* the client's page size

VARIABLES
    query,                 \* what is listed: "author" or "geohash"
    listed                 \* the ids of the pages read so far

listingVars == <<vars, query, listed>>

ASSUME ListingAssumption ==
    Covered \subseteq Nat /\ Reader \in Account /\ Limit \in Nat \ {0}

-----------------------------------------------------------------------------
(* Ids ascend in both listings.                                             *)

StoredCovered(id) == Stored(id) /\ id \in Covered

AllIdsNewestFirst == [i \in 1 .. gistCount |-> gistCount + 1 - i]

AllIds == [id \in 1 .. gistCount |-> id]

GetGistsByGeohash(limit, offset) ==
    IF limit > MAX_PAGE_LIMIT THEN Refused
    ELSE PageOf(Filter(AllIds, {id \in Id : StoredCovered(id)}), limit, offset)

GetPage(offset) ==
    IF query = "author" THEN GetGistsByAuthor(Reader, Limit, offset)
    ELSE GetGistsByGeohash(Limit, offset)

NextPage ==
    /\ GetPage(Len(listed)) \notin {<<>>, Refused}
    /\ listed' = listed \o GetPage(Len(listed))
    /\ UNCHANGED <<vars, query>>

ListingInit == Init /\ query \in {"author", "geohash"} /\ listed = <<>>

ListingNext ==
    \/ Next /\ UNCHANGED <<query, listed>>
    \/ NextPage

(* Ledgers keep closing, whatever the callers and the reader do.            *)
ListingSpec ==
    /\ ListingInit /\ [][ListingNext]_listingVars
    /\ WF_vars(\E d \in LedgerSeconds : CloseLedger(d))

-----------------------------------------------------------------------------
(* Properties.                                                              *)

(* No gist is on two pages, whatever happens between them: gists only join  *)
(* a listing at its end, and one that leaves only moves later ones forward. *)
PagesNeverRepeat ==
    \A i, j \in DOMAIN listed : i < j => listed[i] < listed[j]

Live ==
    IF query = "author" THEN {id \in ToSet(authorGists[Reader]) : Stored(id)}
    ELSE {id \in 1 .. gistCount : StoredCovered(id)}

Skipped ==
    {id \in Live \ ToSet(listed) : \E i \in DOMAIN listed : id < listed[i]}

(* A listing can skip a gist, but no more gists than it listed that have    *)
(* left the listing since: evicted, or dropped from a full author's list.   *)
SkipsAreVacated ==
    Cardinality(Skipped) =< Cardinality(ToSet(listed) \ Live)
=============================================================================
