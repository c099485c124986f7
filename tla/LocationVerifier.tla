-------------------------- MODULE LocationVerifier --------------------------
(***************************************************************************)
(* The location verifier, contracts/location-verifier/src/lib.rs: a list   *)
(* of geohash prefixes the admin edits, and posts that pass through it to  *)
(* a registry.  One action per entry point that writes state; a call that  *)
(* panics is a step that is not taken.  A string is a sequence of          *)
(* characters.                                                             *)
(***************************************************************************)
EXTENDS Integers, Sequences, SequencesExt, Filters

CONSTANTS
    Account,               \* addresses that can authorize a call
    Administrator,         \* the accounts that may be named admin
    Registry,              \* the registries the admin may name
    NoAddress,             \* an unset address
    Prefix,                \* the strings tried in add and remove
    Boundary,              \* the strings tried in update_boundaries
    Geohash,               \* the strings tried in verify_and_post
    ValidChar,             \* the geohash alphabet
    GEOHASH_LENGTH, MAX_PREFIX_LENGTH, MAX_PREFIXES, BUFFER_LENGTH

VARIABLES
    admin, registry,       \* instance storage
    prefixes,              \* instance storage: AllowedPrefixes
    posts,                 \* the gists each registry was asked to post
    intended               \* history: the prefixes the admin's calls leave

vars == <<admin, registry, prefixes, posts, intended>>

ASSUME VerifierAssumption ==
    /\ Administrator \subseteq Account
    /\ NoAddress \notin Account \cup Registry
    /\ {GEOHASH_LENGTH, MAX_PREFIX_LENGTH, MAX_PREFIXES, BUFFER_LENGTH} \subseteq Nat
    /\ GEOHASH_LENGTH =< BUFFER_LENGTH /\ MAX_PREFIXES > 0

-----------------------------------------------------------------------------
EnsureAdmin(caller) == caller = admin

MatchesPrefix(geohash, prefix) ==
    /\ Len(geohash) =< BUFFER_LENGTH
    /\ IsPrefix(prefix, geohash)

IsValidFormat(geohash) ==
    Len(geohash) = GEOHASH_LENGTH /\ ToSet(geohash) \subseteq ValidChar

VerifyGeohash(geohash) ==
    \E i \in DOMAIN prefixes : MatchesPrefix(geohash, prefixes[i])

IsValidGeohash(geohash) == IsValidFormat(geohash) /\ VerifyGeohash(geohash)

Initialize(adm) ==
    /\ admin = NoAddress
    /\ admin' = adm
    /\ prefixes' = <<>>
    /\ UNCHANGED <<registry, posts, intended>>

SetAdmin(caller, new) ==
    /\ EnsureAdmin(caller)
    /\ admin' = new
    /\ UNCHANGED <<registry, prefixes, posts, intended>>

SetRegistryAddress(caller, new) ==
    /\ EnsureAdmin(caller)
    /\ registry' = new
    /\ UNCHANGED <<admin, prefixes, posts, intended>>

AddPastCap(caller, prefix) ==
    /\ EnsureAdmin(caller)
    /\ Len(prefix) \in 1 .. MAX_PREFIX_LENGTH
    /\ Len(prefixes) =< MAX_PREFIXES
    /\ prefixes' = Append(prefixes, prefix)
    /\ intended' = intended \cup {prefix}
    /\ UNCHANGED <<admin, registry, posts>>

AddAllowedPrefix(caller, prefix) ==
    /\ EnsureAdmin(caller)
    /\ Len(prefix) \in 1 .. MAX_PREFIX_LENGTH
    /\ Len(prefixes) < MAX_PREFIXES
    /\ prefixes' = Append(prefixes, prefix)
    /\ intended' = intended \cup {prefix}
    /\ UNCHANGED <<admin, registry, posts>>

RemoveFirstCopy(caller, prefix) ==
    /\ EnsureAdmin(caller)
    /\ prefix \in ToSet(prefixes)
    /\ prefixes' = RemoveFirst(prefixes, prefix)
    /\ intended' = intended \ {prefix}
    /\ UNCHANGED <<admin, registry, posts>>

(* Every copy of the prefix goes.                                           *)
RemoveAllowedPrefix(caller, prefix) ==
    /\ EnsureAdmin(caller)
    /\ prefix \in ToSet(prefixes)
    /\ prefixes' = Filter(prefixes, ToSet(prefixes) \ {prefix})
    /\ intended' = intended \ {prefix}
    /\ UNCHANGED <<admin, registry, posts>>

(* One prefix, of any length, replaces the list.                            *)
UpdateBoundaries(caller, boundaries) ==
    /\ EnsureAdmin(caller)
    /\ prefixes' = <<boundaries>>
    /\ intended' = {boundaries}
    /\ UNCHANGED <<admin, registry, posts>>

(* The registry posts the gist in the same transaction, or it all reverts.  *)
VerifyAndPost(geohash) ==
    /\ IsValidGeohash(geohash)
    /\ registry # NoAddress
    /\ posts' = [posts EXCEPT ![registry] = @ \cup {geohash}]
    /\ UNCHANGED <<admin, registry, prefixes, intended>>

Init ==
    /\ admin = NoAddress /\ registry = NoAddress
    /\ prefixes = <<>>
    /\ posts = [r \in Registry |-> {}]
    /\ intended = {}

Next ==
    \/ \E a \in Administrator : Initialize(a)
    \/ \E a \in Account :
          \/ \E b \in Administrator : SetAdmin(a, b)
          \/ \E r \in Registry : SetRegistryAddress(a, r)
          \/ \E p \in Prefix : AddAllowedPrefix(a, p) \/ RemoveAllowedPrefix(a, p)
          \/ \E b \in Boundary : UpdateBoundaries(a, b)
    \/ \E g \in Geohash : VerifyAndPost(g)

Spec == Init /\ [][Next]_vars

-----------------------------------------------------------------------------
(* Properties.                                                              *)

(* Every variable keeps its type, and the list never exceeds its cap.       *)
TypeOK ==
    /\ admin \in Account \cup {NoAddress}
    /\ registry \in Registry \cup {NoAddress}
    /\ prefixes \in Seq(Prefix \cup Boundary)
    /\ Len(prefixes) =< MAX_PREFIXES
    /\ posts \in [Registry -> SUBSET Geohash]

(* The list acts as the set the admin's calls describe, although it keeps   *)
(* copies: one removal revokes a prefix however often it was added, and     *)
(* exactly the geohashes of the intended prefixes are accepted.             *)
RegionAsIntended ==
    \A g \in Geohash :
        IsValidGeohash(g) <=>
            IsValidFormat(g) /\ \E p \in intended : MatchesPrefix(g, p)
=============================================================================
