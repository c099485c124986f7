------------------------- MODULE GistListing_proofs -------------------------
(***************************************************************************)
(* Theorems about listings read page by page while gists come and go, for  *)
(* every page size and every value of the registry's constants.            *)
(***************************************************************************)
EXTENDS GistListing, GistRegistry_proofs

(* What the next page is cut from, as if no time passed between the pages.  *)
Listing ==
    IF query = "author" THEN Filter(authorGists[Reader], StoredIds)
    ELSE Filter(AllIds, {id \in Id : StoredCovered(id)})

(* The listing is what is live, in ascending order.                         *)
LEMMA ListingAscends ==
    ASSUME TypeOK
    PROVE  /\ Listing \in Seq(1 .. gistCount) /\ Listing \in Seq(Int)
           /\ Ascends(Listing) /\ ToSet(Listing) = Live
           /\ Live \subseteq 1 .. gistCount
<1>1. gistCount \in Nat /\ 1 .. gistCount \subseteq Id /\ 1 .. gistCount \subseteq Int
  <2>1. gistCount \in Nat /\ 1 .. gistCount \subseteq Id
      BY IdFacts
  <2> QED BY <2>1
<1>2. CASE query = "author"
  <2> DEFINE s == authorGists[Reader]
  <2>1. s \in Seq(1 .. gistCount) /\ Ascends(s) /\ ToSet(s) \subseteq 1 .. gistCount
      BY ListingAssumption, IdFacts DEF TypeOK, Ascends
  <2> HIDE DEF s
  <2>2. /\ Filter(s, StoredIds) \in Seq(1 .. gistCount) /\ Ascends(Filter(s, StoredIds))
        /\ ToSet(Filter(s, StoredIds)) = ToSet(s) \cap StoredIds
      BY <1>1, <2>1, FilterSet, FilterAscends
  <2>3. Listing = Filter(s, StoredIds) /\ Live = {id \in ToSet(s) : Stored(id)}
      BY <1>2 DEF Listing, Live, s
  <2>4. Live = ToSet(s) \cap StoredIds
      BY <1>1, <2>1, <2>3 DEF StoredIds
  <2> QED BY <1>1, <2>1, <2>2, <2>3, <2>4, WiderSeq
<1>3. CASE query # "author"
  <2> DEFINE S == {id \in Id : StoredCovered(id)}
  <2>1. /\ AllIds \in Seq(1 .. gistCount) /\ Ascends(AllIds)
        /\ ToSet(AllIds) = 1 .. gistCount
      BY <1>1 DEF AllIds, Ascends, ToSet
  <2> HIDE DEF S
  <2>2. /\ Filter(AllIds, S) \in Seq(1 .. gistCount) /\ Ascends(Filter(AllIds, S))
        /\ ToSet(Filter(AllIds, S)) = (1 .. gistCount) \cap S
      BY <1>1, <2>1, FilterSet, FilterAscends
  <2>3. Listing = Filter(AllIds, S) /\ Live = {id \in 1 .. gistCount : StoredCovered(id)}
      BY <1>3 DEF Listing, Live, S
  <2>4. Live = (1 .. gistCount) \cap S
      BY <1>1, <2>3 DEF S
  <2> QED BY <1>1, <2>2, <2>3, <2>4, WiderSeq
<1> QED BY <1>2, <1>3

(* What is left of the past in a listing: an id it offers is new, or was    *)
(* offered before.                                                          *)
LEMMA LiveShrinks ==
    ASSUME RegInv, [Next]_vars, UNCHANGED query, NEW id \in 1 .. gistCount, id \in Live'
    PROVE  id \in Live
<1>1. TypeOK /\ gistCount \in Nat /\ id \in Id /\ Reader \in Account
    BY IdFacts, ListingAssumption DEF RegInv
<1>2. Stored(id)' => Stored(id)
  <2>1. CASE Next
      BY <2>1, ClosedStep
  <2>2. CASE UNCHANGED vars
      BY <2>2 DEF vars, storage, Stored
  <2> QED BY <2>1, <2>2
<1>3. id \in ToSet(authorGists'[Reader]) => id \in ToSet(authorGists[Reader])
  <2>1. CASE UNCHANGED authorGists
      BY <2>1 DEF ToSet
  <2>2. CASE \E a \in Author, arg \in TtlArg : PostGist(a, arg)
    <3>1. PICK a \in Author, arg \in TtlArg : PostGist(a, arg)
        BY <2>2
    <3>2. authorGists' = [authorGists EXCEPT ![a] = KeepNewest(Append(@, gistCount + 1))]
        BY <3>1 DEF PostGist, AppendAuthorGist
    <3>3. CASE a = Reader
      <4> DEFINE s == authorGists[Reader]
                 t == authorGists'[Reader]
      <4>1. /\ s \in Seq(1 .. gistCount) /\ Len(s) =< MAX_AUTHOR_GISTS
            /\ authorGists \in [Account -> Seq(1 .. gistCount)]
          BY <1>1 DEF TypeOK
      <4>2. t = KeepNewest(Append(s, gistCount + 1))
          BY <1>1, <3>2, <3>3, <4>1
      <4> HIDE DEF s, t
      <4>3. HoldsAfter(s, gistCount + 1, t)
          BY <1>1, <4>1, <4>2, AppendedIds
      <4>4. id # gistCount + 1
          BY <1>1
      <4> QED BY <4>3, <4>4 DEF HoldsAfter, s, t
    <3>4. CASE a # Reader
      <4>1. authorGists'[Reader] = authorGists[Reader]
          BY <1>1, <3>2, <3>4 DEF TypeOK
      <4> QED BY <4>1
    <3> QED BY <3>3, <3>4
  <2>3. CASE \E d \in LedgerSeconds : CloseLedger(d)
    <3>1. authorGists'[Reader] = <<>> \/ authorGists'[Reader] = authorGists[Reader]
        BY <1>1, <2>3 DEF CloseLedger
    <3> QED BY <3>1 DEF ToSet
  <2>4. CASE UNCHANGED vars
      BY <2>1, <2>4 DEF vars, storage
  <2>5. CASE \/ \E a \in Administrator : Initialize(a)
             \/ \E a \in Account, b \in Administrator : SetAdmin(a, b)
             \/ \E a \in Account, i \in Id :
                   ExpireGist(a, i) \/ AdminExpireGist(a, i) \/ ExtendGistTtl(a, i)
             \/ \E a \in Account, ids \in ExpireBatches : BatchExpire(a, ids)
      BY <2>1, <2>5 DEF Initialize, SetAdmin, ExpireGist, AdminExpireGist, ExtendGistTtl,
                        Prolong, BatchExpire, ExpireAll
  <2> QED BY <2>2, <2>3, <2>4, <2>5 DEF Next
<1>4. CASE query = "author"
  <2>1. id \in ToSet(authorGists'[Reader]) /\ Stored(id)'
      BY <1>4 DEF Live, ToSet
  <2> QED BY <1>2, <1>3, <1>4, <2>1 DEF Live
<1>5. CASE query # "author"
  <2>1. StoredCovered(id)'
      BY <1>5 DEF Live
  <2> QED BY <1>2, <1>5, <2>1 DEF Live, StoredCovered
<1> QED BY <1>4, <1>5

-----------------------------------------------------------------------------
(* The pages.                                                               *)

(* The members of S up to the last entry of a list.                         *)
Passed(S, r) == {x \in S : x =< r[Len(r)]}

(* A list r of which f, the present listing, has at most as many entries    *)
(* behind it as r has.                                                      *)
Abreast(f, r) ==
    /\ Ascends(r)
    /\ r # <<>> => Cardinality(Passed(ToSet(f), r)) =< Len(r)

(* A set of numbers up to n is finite.                                      *)
LEMMA SetUpTo ==
    ASSUME NEW n \in Nat, NEW S \in SUBSET (1 .. n)
    PROVE  IsFiniteSet(S) /\ Cardinality(S) \in Nat
<1>1. IsFiniteSet(1 .. n)
    BY FS_Interval
<1> QED BY <1>1, FS_Subset, FS_CardinalityType

Ascending(t, n) == \A i, j \in 1 .. n : i < j => t[i] < t[j]

(* The first e entries of q are the k of r, ascending, and later ones of f, *)
(* ascending from above them.                                               *)
Spliced(q, e, r, k, f, l) ==
    /\ k \in Nat /\ l \in Nat /\ e \in k + 1 .. l
    /\ (\A i \in 1 .. k : r[i] \in Nat) /\ Ascending(r, k)
    /\ (\A i \in 1 .. l : f[i] \in Nat) /\ Ascending(f, l)
    /\ k > 0 => r[k] < f[k + 1]
    /\ \A i \in 1 .. e : q[i] = IF i =< k THEN r[i] ELSE f[i]

(* Such a splice ascends.                                                   *)
LEMMA SplicesAscend ==
    ASSUME NEW q, NEW e, NEW r, NEW k, NEW f, NEW l, Spliced(q, e, r, k, f, l)
    PROVE  Ascending(q, e)
<1>0. /\ k \in Nat /\ l \in Nat /\ e \in k + 1 .. l
      /\ (\A i \in 1 .. k : r[i] \in Nat) /\ Ascending(r, k)
      /\ (\A i \in 1 .. l : f[i] \in Nat) /\ Ascending(f, l)
      /\ k > 0 => r[k] < f[k + 1]
      /\ \A i \in 1 .. e : q[i] = IF i =< k THEN r[i] ELSE f[i]
    BY DEF Spliced
<1> SUFFICES ASSUME NEW i \in 1 .. e, NEW j \in 1 .. e, i < j
             PROVE  q[i] < q[j]
    BY DEF Ascending
<1>1. i \in 1 .. l /\ j \in 1 .. l /\ k + 1 \in 1 .. l
    BY <1>0
<1>2. CASE j =< k
  <2>1. i \in 1 .. k /\ j \in 1 .. k /\ i =< k
      BY <1>0, <1>2
  <2> QED BY <1>0, <1>2, <2>1 DEF Ascending
<1>3. CASE ~ (i =< k)
  <2>1. ~ (j =< k)
      BY <1>0, <1>3
  <2> QED BY <1>0, <1>1, <1>3, <2>1 DEF Ascending
<1>4. CASE i =< k /\ ~ (j =< k)
  <2>1. i \in 1 .. k /\ k \in 1 .. k /\ k > 0
      BY <1>0, <1>4
  <2>2. r[i] =< r[k]
    <3>1. CASE i = k
        BY <1>0, <2>1, <3>1
    <3>2. CASE i # k
      <4>1. i < k
          BY <1>0, <1>4, <3>2
      <4> QED BY <1>0, <2>1, <4>1 DEF Ascending
    <3> QED BY <1>0, <3>1, <3>2
  <2>3. f[k + 1] =< f[j]
    <3>1. CASE j = k + 1
        BY <1>0, <1>1, <3>1
    <3>2. CASE j # k + 1
      <4>1. k + 1 < j
          BY <1>0, <1>4, <3>2
      <4> QED BY <1>0, <1>1, <4>1 DEF Ascending
    <3> QED BY <1>0, <3>1, <3>2
  <2>4. r[i] \in Nat /\ r[k] \in Nat /\ f[k + 1] \in Nat /\ f[j] \in Nat
      BY <1>0, <1>1, <2>1
  <2>5. r[i] < f[j]
      BY <1>0, <2>1, <2>2, <2>3, <2>4
  <2> QED BY <1>0, <1>4, <2>5
<1> QED BY <1>2, <1>3, <1>4

(* The first k + 1 entries of an ascending list are at most the last one of *)
(* them.                                                                    *)
LEMMA FirstAreLeast ==
    ASSUME NEW k \in Nat, NEW l \in Nat, k + 1 =< l, NEW f,
           \A i \in 1 .. l : f[i] \in Nat, Ascending(f, l), NEW i \in 1 .. k + 1
    PROVE  i \in 1 .. l /\ f[i] \in Nat /\ f[k + 1] \in Nat /\ f[i] =< f[k + 1]
<1>1. i \in 1 .. l /\ k + 1 \in 1 .. l
    OBVIOUS
<1>2. CASE i = k + 1
    BY <1>1, <1>2
<1>3. CASE i # k + 1
  <2>1. i < k + 1
      BY <1>3
  <2> QED BY <1>1, <2>1 DEF Ascending
<1> QED BY <1>2, <1>3

(* The list q is r with the entries of f from Len(r) + 1 to e behind.       *)
Joins(q, r, f, e) == q = r \o SubSeq(f, Len(r) + 1, e)

(* Its entries are those of r, then those of f.                             *)
LEMMA PageAdds ==
    ASSUME NEW S, NEW f \in Seq(S), NEW r \in Seq(S), NEW e \in Len(r) + 1 .. Len(f),
           NEW q, Joins(q, r, f, e)
    PROVE  /\ q \in Seq(S) /\ Len(q) = e
           /\ \A i \in 1 .. e : q[i] = IF i =< Len(r) THEN r[i] ELSE f[i]
<1> DEFINE k == Len(r)
           l == Len(f)
           page == SubSeq(f, k + 1, e)
<1>1. k \in Nat /\ l \in Nat /\ \A i \in 1 .. l : f[i] \in S
    OBVIOUS
<1>2. e \in k + 1 .. l
    OBVIOUS
<1> HIDE DEF k, l
<1>3. /\ e \in Int /\ k + 1 \in Int /\ e \in Nat /\ k + 1 =< e
      /\ e - (k + 1) + 1 = e - k /\ k + (e - k) = e
      /\ \A i \in k + 1 .. e : i \in 1 .. l
      /\ \A i \in 1 .. e : ~ (i =< k) => i - k \in 1 .. e - k /\ (k + 1) + (i - k) - 1 = i
    BY <1>1, <1>2
<1>4. /\ page \in Seq(S) /\ Len(page) = e - (k + 1) + 1
      /\ \A i \in 1 .. e - (k + 1) + 1 : page[i] = f[k + 1 + i - 1]
  <2>1. \A i \in k + 1 .. e : f[i] \in S
      BY <1>1, <1>3
  <2>2. /\ page \in Seq(S)
        /\ Len(page) = IF k + 1 <= e THEN e - (k + 1) + 1 ELSE 0
        /\ \A i \in 1 .. e - (k + 1) + 1 : page[i] = f[k + 1 + i - 1]
      BY <1>3, <2>1, SubSeqProperties
  <2> QED BY <1>3, <2>2, Zenon
<1> HIDE DEF page
<1>5. /\ r \o page \in Seq(S) /\ Len(r \o page) = k + Len(page)
      /\ \A i \in 1 .. k + Len(page) :
            (r \o page)[i] = IF i <= k THEN r[i] ELSE page[i - k]
    BY <1>4, ConcatProperties, Zenon DEF k
<1>6. q = r \o page
    BY DEF Joins, page, k
<1>7. q \in Seq(S) /\ Len(q) = e
      /\ \A i \in 1 .. e : q[i] = IF i <= k THEN r[i] ELSE page[i - k]
    BY <1>3, <1>4, <1>5, <1>6, Zenon
<1>8. \A i \in 1 .. e : ~ (i =< k) => page[i - k] = f[i]
    BY <1>3, <1>4
<1> QED BY <1>7, <1>8 DEF k

(* Sizes of disjoint finite sets add up.                                    *)
LEMMA DisjointUnion ==
    ASSUME NEW S, IsFiniteSet(S), NEW T, IsFiniteSet(T), S \cap T = {}
    PROVE  Cardinality(S \cup T) = Cardinality(S) + Cardinality(T)
<1>1. Cardinality(S) \in Nat /\ Cardinality(T) \in Nat
    BY FS_CardinalityType
<1>2. Cardinality(S \cup T) = Cardinality(S) + Cardinality(T) - 0
    BY FS_Union, FS_EmptySet
<1> QED BY <1>1, <1>2

(* The entries of a sequence are of the set it is over.                     *)
LEMMA Entries ==
    ASSUME NEW X, NEW s \in Seq(X)
    PROVE  \A i \in 1 .. Len(s) : s[i] \in X
    OBVIOUS

(* What is read next, from entry Len(r) + 1 up to entry e, comes after all  *)
(* that was read.                                                           *)
LEMMA PageFollows ==
    ASSUME NEW n \in Nat, NEW f \in Seq(1 .. n), Ascends(f),
           NEW r \in Seq(1 .. n), Abreast(f, r), NEW e \in Len(r) + 1 .. Len(f),
           NEW q, Joins(q, r, f, e)
    PROVE  q \in Seq(1 .. n) /\ Abreast(f, q)
<1> DEFINE k == Len(r)
           l == Len(f)
<1>1. /\ k \in Nat /\ l \in Nat /\ DOMAIN f = 1 .. l /\ DOMAIN r = 1 .. k
      /\ \A i \in 1 .. k : r[i] \in Nat
      /\ \A i \in 1 .. l : f[i] \in Nat /\ f[i] \in 1 .. n
      /\ e \in k + 1 .. l /\ (r # <<>> => k > 0) /\ (k > 0 => r # <<>>)
  <2>1. k \in Nat /\ l \in Nat /\ DOMAIN f = 1 .. l /\ DOMAIN r = 1 .. k
      OBVIOUS
  <2>2. \A i \in 1 .. k : r[i] \in 1 .. n
      BY Entries, Zenon
  <2>3. \A i \in 1 .. l : f[i] \in 1 .. n
      BY Entries, Zenon
  <2>4. \A x \in 1 .. n : x \in Nat
      OBVIOUS
  <2>5. e \in k + 1 .. l
      OBVIOUS
  <2>6. r # <<>> => k > 0
      OBVIOUS
  <2>7. k > 0 => r # <<>>
      OBVIOUS
  <2> HIDE DEF k, l
  <2> QED BY <2>1, <2>2, <2>3, <2>4, <2>5, <2>6, <2>7
<1>2. f \in Seq(Int)
  <2>1. 1 .. n \subseteq Int
      OBVIOUS
  <2> QED BY <2>1, WiderSeq
<1>3. q \in Seq(1 .. n) /\ Len(q) = e
      /\ \A i \in 1 .. e : q[i] = IF i =< k THEN r[i] ELSE f[i]
  <2> DEFINE S == 1 .. n
  <2>1. f \in Seq(S) /\ r \in Seq(S)
      OBVIOUS
  <2> HIDE DEF S
  <2>2. q \in Seq(S) /\ Len(q) = e
        /\ \A i \in 1 .. e : q[i] = IF i =< Len(r) THEN r[i] ELSE f[i]
      BY <2>1, PageAdds
  <2> QED BY <2>2 DEF S
<1>4. Ascending(f, l) /\ Ascending(r, k)
    BY <1>1 DEF Ascends, Abreast, Ascending
<1>5. r # <<>> => Cardinality(Passed(ToSet(f), r)) =< k
    BY DEF Abreast
<1>6. ToSet(f) = {f[i] : i \in 1 .. l} /\ ToSet(f) \subseteq 1 .. n
  <2>1. ToSet(f) = {f[i] : i \in 1 .. l}
      BY <1>1 DEF ToSet
  <2> HIDE DEF k, l
  <2> QED BY <1>1, <2>1
<1>7. Passed(ToSet(f), r) = {x \in ToSet(f) : x =< r[k]}
    BY DEF Passed
<1>8. /\ k + 1 \in 0 .. l /\ e \in 0 .. l /\ e \in 1 .. l /\ k + 1 =< l /\ e \in 1 .. e
      /\ ~ (e =< k) /\ k + 1 \in 1 .. l /\ e =< e
  <2> HIDE DEF k, l
  <2> QED BY <1>1
<1>9. k > 0 => r[k] < f[k + 1]
  <2> SUFFICES ASSUME k > 0, ~ (r[k] < f[k + 1]) PROVE FALSE
      OBVIOUS
  <2> DEFINE T == {f[i] : i \in 1 .. k + 1}
             P == Passed(ToSet(f), r)
  <2>1. Cardinality(T) = k + 1
      BY <1>2, <1>8, AscendingRank
  <2>2. P \subseteq 1 .. n
      BY <1>6, <1>7
  <2> HIDE DEF k, l
  <2>3. T \subseteq P
    <3> SUFFICES ASSUME NEW i \in 1 .. k + 1
                 PROVE  f[i] \in ToSet(f) /\ f[i] =< r[k]
        BY <1>7
    <3>1. i \in 1 .. l /\ f[i] \in Nat /\ f[k + 1] \in Nat /\ f[i] =< f[k + 1]
        BY <1>1, <1>4, <1>8, FirstAreLeast
    <3>2. r[k] \in Nat
        BY <1>1
    <3>3. f[i] =< r[k]
      <4>1. \A x, y, z \in Nat : x =< y /\ ~ (z < y) => x =< z
          OBVIOUS
      <4> QED BY <3>1, <3>2, <4>1
    <3>4. f[i] \in ToSet(f)
        BY <1>6, <3>1, Zenon
    <3> QED BY <3>3, <3>4
  <2> HIDE DEF T, P
  <2>4. Cardinality(T) =< Cardinality(P) /\ Cardinality(P) \in Nat
      BY <2>2, <2>3, SetUpTo, FS_Subset
  <2>5. Cardinality(P) =< k
      BY <1>1, <1>5 DEF P
  <2> QED BY <1>1, <2>1, <2>4, <2>5
<1>10. Ascending(q, e)
  <2> HIDE DEF k, l
  <2>1. Spliced(q, e, r, k, f, l)
      BY <1>1, <1>3, <1>4, <1>9 DEF Spliced, k
  <2> QED BY <2>1, SplicesAscend
<1>11. Ascends(q) /\ q[e] = f[e]
  <2>1. DOMAIN q = 1 .. e
      BY <1>3
  <2> HIDE DEF k, l
  <2> QED BY <1>3, <1>8, <1>10, <2>1 DEF Ascends, Ascending
<1>12. Cardinality(Passed(ToSet(f), q)) = e
  <2>1. Passed(ToSet(f), q) = {x \in ToSet(f) : x =< f[e]}
      BY <1>3, <1>11 DEF Passed
  <2>2. {x \in ToSet(f) : x =< f[e]} = {f[i] : i \in 1 .. e}
      BY <1>2, <1>8, AscendingUpTo
  <2> QED BY <1>2, <1>8, <2>1, <2>2, AscendingRank
<1>13. Cardinality(Passed(ToSet(f), q)) =< Len(q)
  <2> HIDE DEF k, l
  <2> QED BY <1>3, <1>8, <1>12
<1> QED BY <1>3, <1>11, <1>13 DEF Abreast

-----------------------------------------------------------------------------
(* The inductive invariant: however the listing has changed since, what it  *)
(* now holds up to the last id that was read is no more than was read.      *)
ListingInv ==
    /\ RegInv
    /\ listed \in Seq(1 .. gistCount)
    /\ Ascends(listed)
    /\ listed # <<>> => Cardinality(Passed(Live, listed)) =< Len(listed)

(* A reader that has read nothing is abreast.                               *)
LEMMA ListingStarts == ListingInit => ListingInv
<1> SUFFICES ASSUME ListingInit PROVE ListingInv
    OBVIOUS
<1>1. RegInv /\ listed = <<>>
    BY InitEstablishes DEF ListingInit
<1>2. <<>> \in Seq(1 .. gistCount) /\ DOMAIN <<>> = {}
    OBVIOUS
<1> QED BY <1>1, <1>2 DEF ListingInv, Ascends

(* A page read keeps the reader abreast.                                    *)
LEMMA NextPageStep ==
    ASSUME ListingInv, NextPage PROVE ListingInv'
<1>1. TypeOK /\ gistCount \in Nat
    BY IdFacts DEF ListingInv, RegInv
<1>2. /\ Listing \in Seq(1 .. gistCount) /\ Ascends(Listing) /\ ToSet(Listing) = Live
    BY <1>1, ListingAscends
<1> DEFINE f == Listing
           k == Len(listed)
           e == IF k + Limit < Len(f) THEN k + Limit ELSE Len(f)
<1>3. GetPage(k) = SubSeq(f, k + 1, e)
  <2>1. ~ (Limit > MAX_PAGE_LIMIT)
      BY DEF NextPage, GetPage, GetGistsByAuthor, GetGistsByGeohash
  <2> QED BY <2>1 DEF GetPage, GetGistsByAuthor, GetGistsByGeohash, PageOf, Listing
<1>4. k \in Nat /\ Len(f) \in Nat /\ Limit \in Nat \ {0}
    BY <1>2, ListingAssumption DEF ListingInv
<1>5. e \in k + 1 .. Len(f)
  <2>1. SubSeq(f, k + 1, e) # <<>>
      BY <1>3 DEF NextPage
  <2> DEFINE l == Len(f)
  <2>2. l \in Nat /\ k \in Nat /\ e = IF k + Limit < l THEN k + Limit ELSE l
      BY <1>4
  <2> HIDE DEF e, l, f, k
  <2>3. e \in Int /\ k + 1 \in Int
      BY <1>4, <2>2
  <2>4. ~ (e < k + 1)
      BY <2>1, <2>3, SubSeqEmpty
  <2>5. e \in k + 1 .. l
      BY <1>4, <2>2, <2>4
  <2> QED BY <2>5 DEF l
<1>6. Joins(listed', listed, f, e)
    BY <1>3 DEF NextPage, Joins
<1>7. UNCHANGED <<vars, query>>
    BY DEF NextPage
<1>8. listed \in Seq(1 .. gistCount) /\ Abreast(f, listed)
    BY <1>2 DEF ListingInv, Abreast
<1>9. listed' \in Seq(1 .. gistCount) /\ Abreast(f, listed')
  <2> HIDE DEF f, e
  <2> QED BY <1>1, <1>2, <1>5, <1>6, <1>8, PageFollows DEF f
<1>10. Live' = Live
    BY <1>7 DEF Live, StoredCovered, Stored, vars, storage, ToSet
<1>11. RegInv' /\ gistCount' = gistCount
  <2>1. [Next]_vars
      BY <1>7
  <2> QED BY <1>7, <2>1, RegInvStep DEF ListingInv, vars, storage
<1>12. Passed(Live, listed)' = Passed(ToSet(f), listed')
    BY <1>2, <1>10 DEF Passed
<1>13. Ascends(listed') /\ (listed' # <<>> => Cardinality(Passed(Live, listed)') =< Len(listed'))
    BY <1>9, <1>12 DEF Abreast
<1> QED BY <1>9, <1>11, <1>13 DEF ListingInv, Ascends

(* Meanwhile nothing joins a listing behind what was read.                  *)
LEMMA RegistryStep ==
    ASSUME ListingInv, [Next]_vars, UNCHANGED <<query, listed>>
    PROVE  ListingInv'
<1>1. RegInv' /\ TypeOK /\ TypeOK' /\ gistCount \in Nat /\ gistCount' \in Nat
  <2>1. RegInv' /\ TypeOK
      BY RegInvStep DEF ListingInv, RegInv
  <2>2. TypeOK' /\ gistCount \in Nat
      BY <2>1, IdFacts DEF RegInv
  <2>3. gistCount' \in 0 .. MaxGists
      BY <2>2 DEF TypeOK
  <2> QED BY <2>1, <2>2, <2>3, NumberAssumption
<1>2. gistCount =< gistCount'
  <2>1. gistCount' = gistCount \/ gistCount' = gistCount + 1
      BY DEF Next, Initialize, SetAdmin, PostGist, ExpireGist, AdminExpireGist, ExtendGistTtl,
             Prolong, BatchExpire, ExpireAll, CloseLedger, vars, storage
  <2> QED BY <1>1, <2>1
<1>3. listed' \in Seq(1 .. gistCount')
  <2>1. 1 .. gistCount \subseteq 1 .. gistCount'
      BY <1>1, <1>2
  <2>2. listed \in Seq(1 .. gistCount)
      BY DEF ListingInv
  <2> QED BY <2>1, <2>2, WiderSeq
<1>4. ASSUME listed # <<>>
      PROVE  Cardinality(Passed(Live, listed)') =< Len(listed')
  <2>1. Passed(Live, listed)' \subseteq Passed(Live, listed)
    <3> SUFFICES ASSUME NEW x \in Live', x =< listed[Len(listed)]
                 PROVE  x \in Live
        BY DEF Passed
    <3>1. listed[Len(listed)] \in 1 .. gistCount
      <4>1. listed \in Seq(1 .. gistCount)
          BY DEF ListingInv
      <4>2. Len(listed) \in DOMAIN listed
          BY <1>4, <4>1
      <4>3. ToSet(listed) \subseteq 1 .. gistCount
          BY <4>1, MembersOf
      <4> QED BY <4>2, <4>3 DEF ToSet
    <3>2. x \in 1 .. gistCount'
      <4>1. (Live \subseteq 1 .. gistCount)'
          BY <1>1, ListingAscends, PTL
      <4> QED BY <4>1
    <3>3. x \in 1 .. gistCount
        BY <1>1, <3>1, <3>2
    <3> QED BY <3>3, LiveShrinks DEF ListingInv
  <2>2. Passed(Live, listed) \subseteq 1 .. gistCount
      BY <1>1, ListingAscends DEF Passed
  <2>3. IsFiniteSet(Passed(Live, listed)) /\ Cardinality(Passed(Live, listed)) \in Nat
      BY <1>1, <2>2, SetUpTo
  <2>4. Cardinality(Passed(Live, listed)') =< Cardinality(Passed(Live, listed))
        /\ Cardinality(Passed(Live, listed)') \in Nat
      BY <2>1, <2>3, FS_Subset, FS_CardinalityType
  <2>5. Cardinality(Passed(Live, listed)) =< Len(listed) /\ Len(listed) \in Nat
      BY <1>4 DEF ListingInv
  <2> QED BY <2>3, <2>4, <2>5
<1> QED BY <1>1, <1>3, <1>4 DEF ListingInv, Ascends

(* Between any two pages, no more of the ids still listed lie up to the last *)
(* one read than the reader's offset says.                                  *)
THEOREM ListingKeepsAbreast == ListingSpec => []ListingInv
<1>1. ListingInit => ListingInv
    BY ListingStarts
<1>2. ASSUME ListingInv, [ListingNext]_listingVars PROVE ListingInv'
  <2>1. CASE NextPage
      BY <1>2, <2>1, NextPageStep
  <2>2. CASE Next /\ UNCHANGED <<query, listed>>
      BY <1>2, <2>2, RegistryStep
  <2>3. CASE UNCHANGED listingVars
      BY <1>2, <2>3, RegistryStep DEF listingVars
  <2> QED BY <1>2, <2>1, <2>2, <2>3 DEF ListingNext
<1> QED BY <1>1, <1>2, PTL DEF ListingSpec

(* No gist is on two pages, whatever is posted, expired and evicted between *)
(* them.                                                                    *)
THEOREM NoGistTwice == ListingSpec => []PagesNeverRepeat
<1>1. ListingInv => PagesNeverRepeat
    BY DEF ListingInv, PagesNeverRepeat, Ascends
<1> QED BY <1>1, ListingKeepsAbreast, PTL

(* The gists a reader skips are no more than those it read that have left   *)
(* the listing since.                                                       *)
THEOREM NoMoreSkippedThanLeft == ListingSpec => []SkipsAreVacated
<1>1. ListingInv => SkipsAreVacated
  <2> SUFFICES ASSUME ListingInv PROVE SkipsAreVacated
      OBVIOUS
  <2> DEFINE R == ToSet(listed)
             gone == R \ Live
             left == R \cap Live
  <2>1. /\ TypeOK /\ gistCount \in Nat /\ Live \subseteq 1 .. gistCount
        /\ listed \in Seq(1 .. gistCount) /\ Ascends(listed)
      BY IdFacts, ListingAscends DEF ListingInv, RegInv
  <2>2. R \subseteq 1 .. gistCount
      BY <2>1, MembersOf
  <2>3. listed \in Seq(Int)
    <3>1. 1 .. gistCount \subseteq Int
        BY <2>1
    <3> QED BY <2>1, <3>1, WiderSeq
  <2>4. /\ Len(listed) \in Nat /\ DOMAIN listed = 1 .. Len(listed)
        /\ \A i \in 1 .. Len(listed) : listed[i] \in Int
      BY <2>3
  <2>5. Cardinality(R) = Len(listed)
    <3>1. R = {listed[i] : i \in 1 .. Len(listed)}
        BY <2>4 DEF ToSet
    <3>2. Len(listed) \in 0 .. Len(listed)
        BY <2>4
    <3> QED BY <2>1, <2>3, <3>1, <3>2, AscendingRank
  <2>6. Skipped \subseteq Live /\ Skipped \cap R = {}
      BY DEF Skipped
  <2>7. /\ IsFiniteSet(Skipped) /\ IsFiniteSet(gone) /\ IsFiniteSet(left)
        /\ {Cardinality(Skipped), Cardinality(gone), Cardinality(left)} \subseteq Nat
    <3>1. Skipped \subseteq 1 .. gistCount /\ gone \subseteq 1 .. gistCount
          /\ left \subseteq 1 .. gistCount
        BY <2>1, <2>2, <2>6
    <3> HIDE DEF gone, left
    <3> QED BY <2>1, <3>1, SetUpTo
  <2>8. Cardinality(Skipped \cup left) = Cardinality(Skipped) + Cardinality(left)
    <3>1. Skipped \cap left = {}
        BY <2>6
    <3> HIDE DEF left
    <3> QED BY <2>7, <3>1, DisjointUnion
  <2>9. Cardinality(R) = Cardinality(gone) + Cardinality(left)
    <3>1. gone \cap left = {} /\ gone \cup left = R
        OBVIOUS
    <3> HIDE DEF gone, left
    <3> QED BY <2>7, <3>1, DisjointUnion
  <2>10. CASE listed = <<>>
    <3>1. Skipped = {}
        BY <2>10 DEF Skipped
    <3>2. Cardinality(Skipped) = 0
        BY <3>1, FS_EmptySet
    <3> QED BY <2>7, <3>2 DEF SkipsAreVacated
  <2>11. CASE listed # <<>>
    <3>1. Len(listed) \in 1 .. Len(listed)
        BY <2>3, <2>11
    <3>2. \A i \in 1 .. Len(listed) : listed[i] =< listed[Len(listed)]
      <4> DEFINE k == Len(listed)
      <4> SUFFICES ASSUME NEW i \in 1 .. k PROVE listed[i] =< listed[k]
          OBVIOUS
      <4>1. k \in 1 .. k /\ k \in DOMAIN listed /\ i \in DOMAIN listed
          BY <2>4, <3>1
      <4>2. listed[i] \in Int /\ listed[k] \in Int
          BY <2>4, <4>1
      <4>3. i < k => listed[i] < listed[k]
          BY <2>1, <4>1 DEF Ascends
      <4> HIDE DEF k
      <4>4. i < k \/ i = k
          BY <4>1
      <4> QED BY <4>2, <4>3, <4>4
    <3>3. Skipped \cup left \subseteq Passed(Live, listed)
      <4>1. Skipped \subseteq Passed(Live, listed)
        <5> SUFFICES ASSUME NEW x \in Skipped
                     PROVE  x \in Live /\ x =< listed[Len(listed)]
            BY DEF Passed
        <5>1. PICK i \in 1 .. Len(listed) : x < listed[i]
            BY <2>4 DEF Skipped
        <5>2. x \in Live /\ x \in Int
            BY <2>1, <2>6
        <5>3. listed[i] \in Int /\ listed[Len(listed)] \in Int
              /\ listed[i] =< listed[Len(listed)]
            BY <2>4, <3>1, <3>2
        <5> QED BY <5>1, <5>2, <5>3
      <4>2. left \subseteq Passed(Live, listed)
          BY <2>4, <3>2 DEF Passed, ToSet
      <4> QED BY <4>1, <4>2
    <3>4. Passed(Live, listed) \subseteq 1 .. gistCount
        BY <2>1 DEF Passed
    <3>5. Cardinality(Skipped \cup left) =< Cardinality(Passed(Live, listed))
          /\ Cardinality(Passed(Live, listed)) \in Nat
      <4> HIDE DEF left
      <4> QED BY <2>1, <3>3, <3>4, SetUpTo, FS_Subset
    <3>6. Cardinality(Passed(Live, listed)) =< Len(listed)
        BY <2>11 DEF ListingInv
    <3> HIDE DEF left, gone, R
    <3>7. Cardinality(Skipped) =< Cardinality(gone)
        BY <2>4, <2>5, <2>7, <2>8, <2>9, <3>5, <3>6
    <3> QED BY <3>7 DEF SkipsAreVacated, gone, R
  <2> QED BY <2>10, <2>11
<1> QED BY <1>1, ListingKeepsAbreast, PTL
=============================================================================
