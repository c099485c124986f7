----------------------- MODULE LocationVerifier_proofs -----------------------
(***************************************************************************)
(* Theorems about the location verifier, for every value of its constants. *)
(***************************************************************************)
EXTENDS LocationVerifier, DataLemmas

(* The list holds the intended prefixes, in some order and with copies, and *)
(* is empty until there is an admin to edit it.                             *)
VerifierInv ==
    /\ TypeOK
    /\ ToSet(prefixes) = intended
    /\ admin = NoAddress => prefixes = <<>>

(* The entries of a list with one more.                                     *)
LEMMA ToSetAppend ==
    ASSUME NEW X, NEW s \in Seq(X), NEW x \in X
    PROVE  /\ Append(s, x) \in Seq(X) /\ Len(Append(s, x)) = Len(s) + 1
           /\ ToSet(Append(s, x)) = ToSet(s) \cup {x}
<1> DEFINE t == Append(s, x)
<1>1. /\ t \in Seq(X) /\ Len(t) = Len(s) + 1 /\ Len(s) \in Nat
      /\ t[Len(s) + 1] = x /\ \A i \in 1 .. Len(s) : t[i] = s[i]
    OBVIOUS
<1>2. DOMAIN s = 1 .. Len(s) /\ DOMAIN t = 1 .. Len(s) + 1
    BY <1>1
<1>3. 1 .. Len(s) + 1 = (1 .. Len(s)) \cup {Len(s) + 1}
    BY <1>1
<1> HIDE DEF t
<1>4. ToSet(t) = ToSet(s) \cup {x}
    BY <1>1, <1>2, <1>3 DEF ToSet
<1> QED BY <1>1, <1>4 DEF t

(* Those of the empty list.                                                 *)
LEMMA ToSetEmpty == ToSet(<<>>) = {}
BY DEF ToSet

(* And those of a list of one.                                              *)
LEMMA ToSetSingle ==
    ASSUME NEW X, NEW x \in X
    PROVE  <<x>> \in Seq(X) /\ Len(<<x>>) = 1 /\ ToSet(<<x>>) = {x}
<1>1. <<x>> \in Seq(X) /\ Len(<<x>>) = 1 /\ DOMAIN <<x>> = 1 .. 1 /\ <<x>>[1] = x
    OBVIOUS
<1>2. 1 .. 1 = {1}
    OBVIOUS
<1> QED BY <1>1, <1>2 DEF ToSet

(* The empty list is the empty intention.                                   *)
LEMMA VerifierInit == Init => VerifierInv
<1>1. <<>> \in Seq(Prefix \cup Boundary) /\ Len(<<>>) = 0
    OBVIOUS
<1> QED BY <1>1, ToSetEmpty, VerifierAssumption DEF Init, VerifierInv, TypeOK

(* Every call keeps the list and the intention together.                    *)
LEMMA VerifierStep == VerifierInv /\ [Next]_vars => VerifierInv'
<1> SUFFICES ASSUME VerifierInv, [Next]_vars PROVE VerifierInv'
    OBVIOUS
<1> USE VerifierAssumption
<1>0. /\ admin \in Account \cup {NoAddress} /\ registry \in Registry \cup {NoAddress}
      /\ prefixes \in Seq(Prefix \cup Boundary) /\ Len(prefixes) =< MAX_PREFIXES
      /\ posts \in [Registry -> SUBSET Geohash] /\ ToSet(prefixes) = intended
      /\ admin = NoAddress => prefixes = <<>>
      /\ Len(prefixes) \in Nat /\ MAX_PREFIXES \in Nat
  <2>1. prefixes \in Seq(Prefix \cup Boundary)
      BY DEF VerifierInv, TypeOK
  <2>2. Len(prefixes) \in Nat
      BY <2>1
  <2> QED BY <2>1, <2>2 DEF VerifierInv, TypeOK
<1>1. ASSUME NEW a \in Administrator, Initialize(a) PROVE VerifierInv'
  <2>1. /\ admin' = a /\ prefixes' = <<>> /\ prefixes = <<>>
        /\ UNCHANGED <<registry, posts, intended>>
      BY <1>0, <1>1 DEF Initialize
  <2>2. a \in Account /\ a # NoAddress
      OBVIOUS
  <2> QED BY <1>0, <2>1, <2>2 DEF VerifierInv, TypeOK
<1>2. ASSUME NEW a \in Account, NEW b \in Administrator, SetAdmin(a, b)
      PROVE  VerifierInv'
  <2>1. admin' = b /\ UNCHANGED <<registry, prefixes, posts, intended>>
      BY <1>2 DEF SetAdmin
  <2>2. b \in Account /\ b # NoAddress
      OBVIOUS
  <2> QED BY <1>0, <2>1, <2>2 DEF VerifierInv, TypeOK
<1>3. ASSUME NEW a \in Account, NEW r \in Registry, SetRegistryAddress(a, r)
      PROVE  VerifierInv'
    BY <1>0, <1>3 DEF SetRegistryAddress, VerifierInv, TypeOK
<1>4. ASSUME NEW a \in Account, NEW p \in Prefix, AddAllowedPrefix(a, p)
      PROVE  VerifierInv'
  <2>1. /\ admin = a /\ a # NoAddress /\ Len(prefixes) < MAX_PREFIXES
        /\ prefixes' = Append(prefixes, p) /\ intended' = intended \cup {p}
        /\ UNCHANGED <<admin, registry, posts>>
      BY <1>4 DEF AddAllowedPrefix, EnsureAdmin
  <2>2. /\ prefixes' \in Seq(Prefix \cup Boundary) /\ Len(prefixes') = Len(prefixes) + 1
        /\ ToSet(prefixes') = ToSet(prefixes) \cup {p}
      BY <1>0, <2>1, ToSetAppend
  <2>3. ToSet(prefixes') = intended' /\ Len(prefixes') =< MAX_PREFIXES
      BY <1>0, <2>1, <2>2
  <2>4. TypeOK'
      BY <1>0, <2>1, <2>2, <2>3 DEF TypeOK
  <2>5. ToSet(prefixes)' = ToSet(prefixes')
      BY DEF ToSet
  <2> QED BY <2>1, <2>3, <2>4, <2>5 DEF VerifierInv
<1>5. ASSUME NEW a \in Account, NEW p \in Prefix, RemoveAllowedPrefix(a, p)
      PROVE  VerifierInv'
  <2> DEFINE kept == Filter(prefixes, ToSet(prefixes) \ {p})
  <2>1. /\ admin = a /\ a # NoAddress
        /\ prefixes' = kept /\ intended' = intended \ {p}
        /\ UNCHANGED <<admin, registry, posts>>
      BY <1>5 DEF RemoveAllowedPrefix, EnsureAdmin
  <2>2. /\ kept \in Seq(Prefix \cup Boundary) /\ Len(kept) =< Len(prefixes)
        /\ ToSet(kept) = ToSet(prefixes) \cap (ToSet(prefixes) \ {p})
      BY <1>0, FilterSet
  <2>3. Len(kept) \in Nat
      BY <2>2
  <2> HIDE DEF kept
  <2>4. ToSet(prefixes') = intended' /\ Len(prefixes') =< MAX_PREFIXES
      BY <1>0, <2>1, <2>2, <2>3
  <2>5. TypeOK'
      BY <1>0, <2>1, <2>2, <2>4 DEF TypeOK
  <2>6. ToSet(prefixes)' = ToSet(prefixes')
      BY DEF ToSet
  <2> QED BY <2>1, <2>4, <2>5, <2>6 DEF VerifierInv
<1>6. ASSUME NEW a \in Account, NEW b \in Boundary, UpdateBoundaries(a, b)
      PROVE  VerifierInv'
  <2>1. /\ admin = a /\ a # NoAddress
        /\ prefixes' = <<b>> /\ intended' = {b}
        /\ UNCHANGED <<admin, registry, posts>>
      BY <1>6 DEF UpdateBoundaries, EnsureAdmin
  <2>2. /\ prefixes' \in Seq(Prefix \cup Boundary) /\ Len(prefixes') = 1
        /\ ToSet(prefixes') = {b}
      BY <2>1, ToSetSingle
  <2>3. TypeOK'
      BY <1>0, <2>1, <2>2 DEF TypeOK
  <2>4. ToSet(prefixes)' = ToSet(prefixes')
      BY DEF ToSet
  <2> QED BY <2>1, <2>2, <2>3, <2>4 DEF VerifierInv
<1>7. ASSUME NEW g \in Geohash, VerifyAndPost(g) PROVE VerifierInv'
  <2>1. registry \in Registry
      BY <1>0, <1>7 DEF VerifyAndPost
  <2>2. posts' = [posts EXCEPT ![registry] = @ \cup {g}]
        /\ UNCHANGED <<admin, registry, prefixes, intended>>
      BY <1>7 DEF VerifyAndPost
  <2>3. posts' \in [Registry -> SUBSET Geohash]
      BY <1>0, <2>1, <2>2
  <2> QED BY <1>0, <2>2, <2>3 DEF VerifierInv, TypeOK
<1>8. CASE UNCHANGED vars
    BY <1>0, <1>8 DEF vars, VerifierInv, TypeOK
<1> QED BY <1>1, <1>2, <1>3, <1>4, <1>5, <1>6, <1>7, <1>8 DEF Next

(* The list of allowed prefixes never grows past MAX_PREFIXES, and posts    *)
(* go to named registries, whatever the admins do.                          *)
THEOREM VerifierTypeOK == Spec => []TypeOK
<1>1. VerifierInv => TypeOK
    BY DEF VerifierInv
<1> QED BY <1>1, VerifierInit, VerifierStep, PTL DEF Spec

(* However often a prefix was added, one removal revokes it, and exactly    *)
(* the geohashes of the prefixes the admin's calls leave are accepted       *)
(* (remove_allowed_prefix, update_boundaries, verify_and_post).             *)
THEOREM RegionIsIntended == Spec => []RegionAsIntended
<1>1. VerifierInv => RegionAsIntended
  <2> SUFFICES ASSUME VerifierInv, NEW g \in Geohash
               PROVE  VerifyGeohash(g) <=> \E p \in intended : MatchesPrefix(g, p)
      BY DEF RegionAsIntended, IsValidGeohash
  <2>1. intended = {prefixes[i] : i \in DOMAIN prefixes}
      BY DEF VerifierInv, ToSet
  <2> QED BY <2>1 DEF VerifyGeohash
<1> QED BY <1>1, VerifierInit, VerifierStep, PTL DEF Spec
=============================================================================
