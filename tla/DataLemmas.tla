----------------------------- MODULE DataLemmas -----------------------------
(***************************************************************************)
(* Facts about sums over finite sets, SumFunctionOnSet(f, S), and about    *)
(* filtered lists, Filter(s, S).                                           *)
(*                                                                         *)
(* The library defines the sum by a function over the subsets of S, and    *)
(* Filter is defined by a function over the positions of s, so each fact   *)
(* is an induction over those; both inductions are consequences of the     *)
(* well-foundedness of the natural numbers.                                *)
(***************************************************************************)
EXTENDS Integers, FiniteSets, SequencesExt, Filters, FiniteSetTheorems,
        SequenceTheorems, WellFoundedInduction, TLAPS

Less == {p \in Nat \X Nat : p[1] < p[2]}

(* The natural numbers are well founded under <.                            *)
LEMMA LessWellFounded == IsWellFoundedOn(Less, Nat)
<1> QED BY NatLessThanWellFounded DEF OpToRel, Less

(* A set of sets that holds T whenever it holds T without any one of its    *)
(* elements holds every subset of a finite set.                             *)
LEMMA SubsetInduction ==
    ASSUME NEW S, IsFiniteSet(S), NEW A,
           \A T \in SUBSET S : (\A x \in T : T \ {x} \in A) => T \in A
    PROVE  \A T \in SUBSET S : T \in A
<1> DEFINE Bad == {T \in SUBSET S : T \notin A}
           Sizes == {n \in Nat : \E T \in Bad : Cardinality(T) = n}
<1> SUFFICES ASSUME Bad # {} PROVE FALSE
    OBVIOUS
<1>1. \A T \in SUBSET S : IsFiniteSet(T) /\ Cardinality(T) \in Nat
    BY FS_Subset, FS_CardinalityType
<1>2. Sizes # {} /\ Sizes \subseteq Nat
    BY <1>1
<1>3. PICK n \in Sizes : \A m \in Sizes : <<m, n>> \notin Less
  <2> HIDE DEF Sizes
  <2> QED BY <1>2, LessWellFounded, WFMin
<1>4. PICK T \in Bad : Cardinality(T) = n
    OBVIOUS
<1>5. ASSUME NEW x \in T PROVE T \ {x} \in A
  <2>1. IsFiniteSet(T) /\ Cardinality(T \ {x}) = n - 1
      BY <1>1, <1>4, FS_RemoveElement
  <2>2. T \ {x} \in SUBSET S /\ Cardinality(T \ {x}) \in Nat
      BY <1>1
  <2>3. <<n - 1, n>> \in Less
      BY <2>1, <2>2 DEF Less
  <2>4. n - 1 \notin Sizes
      BY <2>3, <1>3
  <2> QED BY <2>1, <2>2, <2>4
<1> QED BY <1>5

-----------------------------------------------------------------------------
Unfolding(f, S, g) ==
    g = [T \in SUBSET S |->
            IF T = {} THEN 0
            ELSE LET x == CHOOSE x \in T : TRUE IN f[x] + g[T \ {x}]]

(* The sum, with the library's definitions expanded.                        *)
LEMMA SumIsChosen ==
    ASSUME NEW S, NEW f
    PROVE  SumFunctionOnSet(f, S) = (CHOOSE g : Unfolding(f, S, g))[S]
<1> QED BY Zenon DEF SumFunctionOnSet, FoldFunctionOnSet, MapThenFoldSet, Unfolding

(* Two such functions agree on every finite set both are defined on.        *)
LEMMA UnfoldingUnique ==
    ASSUME NEW f, NEW S, NEW R, NEW g, NEW h, NEW U,
           Unfolding(f, S, g), Unfolding(f, R, h),
           IsFiniteSet(U), U \subseteq S, U \subseteq R
    PROVE  g[U] = h[U]
<1> DEFINE A == {T \in SUBSET U : g[T] = h[T]}
<1>1. ASSUME NEW T \in SUBSET U, \A x \in T : T \ {x} \in A
      PROVE  T \in A
  <2>1. CASE T = {}
      BY <2>1 DEF Unfolding
  <2>2. CASE T # {}
    <3> DEFINE c == CHOOSE x \in T : TRUE
    <3>1. c \in T
        BY <2>2
    <3>2. g[T] = f[c] + g[T \ {c}] /\ h[T] = f[c] + h[T \ {c}]
        BY <2>2 DEF Unfolding
    <3>3. g[T \ {c}] = h[T \ {c}]
        BY <1>1, <3>1
    <3> QED BY <3>2, <3>3
  <2> QED BY <2>1, <2>2
<1>2. \A T \in SUBSET U : T \in A
  <2> HIDE DEF A
  <2> QED BY <1>1, SubsetInduction
<1> QED BY <1>2

(* And there is one on the subsets of every finite set.                     *)
LEMMA UnfoldingExists ==
    ASSUME NEW S, IsFiniteSet(S), NEW f
    PROVE  \E g : Unfolding(f, S, g)
<1> DEFINE A == {T \in SUBSET S : \E g : Unfolding(f, T, g)}
<1>1. ASSUME NEW T \in SUBSET S, \A x \in T : T \ {x} \in A
      PROVE  T \in A
  <2> DEFINE G(U) == CHOOSE g : Unfolding(f, U, g)
             below(U) == G(U)[U]
             c(U) == CHOOSE x \in U : TRUE
             h == [U \in SUBSET T |-> IF U = {} THEN 0
                                      ELSE f[c(U)] + below(U \ {c(U)})]
  <2>1. ASSUME NEW U \in SUBSET T, U # T
        PROVE  Unfolding(f, U, G(U))
    <3>1. PICK x \in T : U \subseteq T \ {x}
        BY <2>1
    <3>2. PICK g : Unfolding(f, T \ {x}, g)
        BY <1>1
    <3>3. Unfolding(f, U, [V \in SUBSET U |-> g[V]])
        BY <3>1, <3>2 DEF Unfolding
    <3> HIDE DEF G
    <3>4. \E k : Unfolding(f, U, k)
        BY <3>3
    <3> USE DEF G
    <3> QED BY <3>4
  <2>2. ASSUME NEW U \in SUBSET T, U # T
        PROVE  h[U] = below(U)
    <3>1. CASE U = {}
      <4>1. Unfolding(f, {}, G({}))
          BY <2>1, <2>2, <3>1
      <4>2. G({})[{}] = 0
        <5> HIDE DEF G
        <5> QED BY <4>1 DEF Unfolding
      <4>3. h[{}] = 0
          OBVIOUS
      <4> HIDE DEF h, G
      <4> QED BY <3>1, <4>2, <4>3
    <3>2. CASE U # {}
      <4>1. c(U) \in U /\ U \ {c(U)} \in SUBSET T /\ U \ {c(U)} # T
          BY <3>2
      <4>2. Unfolding(f, U, G(U)) /\ Unfolding(f, U \ {c(U)}, G(U \ {c(U)}))
          BY <2>1, <2>2, <4>1
      <4>3. IsFiniteSet(U \ {c(U)})
          BY <4>1, FS_Subset
      <4>4. G(U)[U \ {c(U)}] = G(U \ {c(U)})[U \ {c(U)}]
        <5> HIDE DEF G, c
        <5> QED BY <4>2, <4>3, UnfoldingUnique
      <4>5. G(U)[U] = f[c(U)] + G(U)[U \ {c(U)}]
        <5> HIDE DEF G
        <5> QED BY <4>2, <3>2 DEF Unfolding
      <4>6. h[U] = f[c(U)] + below(U \ {c(U)})
        <5> HIDE DEF below, c
        <5> QED BY <3>2
      <4> HIDE DEF h, G, c
      <4> QED BY <4>4, <4>5, <4>6
    <3> QED BY <3>1, <3>2
  <2>3. Unfolding(f, T, h)
    <3>1. ASSUME NEW U \in SUBSET T, U # {}
          PROVE  h[U] = f[c(U)] + h[U \ {c(U)}]
      <4>1. c(U) \in U /\ U \ {c(U)} \in SUBSET T /\ U \ {c(U)} # T
          BY <3>1
      <4>2. h[U \ {c(U)}] = below(U \ {c(U)})
          BY <2>2, <4>1
      <4>3. h[U] = f[c(U)] + below(U \ {c(U)})
        <5> HIDE DEF below, c
        <5> QED BY <3>1
      <4> HIDE DEF h, below, c
      <4> QED BY <4>2, <4>3
    <3>2. h[{}] = 0
        OBVIOUS
    <3>3. h = [U \in SUBSET T |-> IF U = {} THEN 0 ELSE f[c(U)] + h[U \ {c(U)}]]
      <4>1. h = [U \in SUBSET T |-> h[U]]
          OBVIOUS
      <4> HIDE DEF h
      <4> QED BY <3>1, <3>2, <4>1
    <3> HIDE DEF h
    <3> QED BY <3>3 DEF Unfolding
  <2> HIDE DEF h
  <2> QED BY <2>3
<1>2. \A T \in SUBSET S : T \in A
  <2> HIDE DEF A
  <2> QED BY <1>1, SubsetInduction
<1> QED BY <1>2

-----------------------------------------------------------------------------
(* The empty sum.                                                           *)
LEMMA SumEmpty ==
    ASSUME NEW f
    PROVE  SumFunctionOnSet(f, {}) = 0
<1> DEFINE g == CHOOSE g : Unfolding(f, {}, g)
<1>1. Unfolding(f, {}, g)
    BY UnfoldingExists, FS_EmptySet
<1>2. g[{}] = 0
  <2> HIDE DEF g
  <2> QED BY <1>1 DEF Unfolding
<1> QED BY <1>2, SumIsChosen

(* A sum is its chosen term and the sum of the others.                      *)
LEMMA SumChosen ==
    ASSUME NEW f, NEW T, IsFiniteSet(T), T # {}
    PROVE  LET c == CHOOSE x \in T : TRUE
           IN  SumFunctionOnSet(f, T) = f[c] + SumFunctionOnSet(f, T \ {c})
<1> DEFINE c == CHOOSE x \in T : TRUE
           G(U) == CHOOSE g : Unfolding(f, U, g)
<1>1. c \in T /\ T \ {c} \subseteq T /\ IsFiniteSet(T \ {c})
    BY FS_Subset
<1>2. Unfolding(f, T, G(T)) /\ Unfolding(f, T \ {c}, G(T \ {c}))
    BY <1>1, UnfoldingExists
<1>3. G(T)[T] = f[c] + G(T)[T \ {c}]
  <2> HIDE DEF G
  <2> QED BY <1>2 DEF Unfolding
<1>4. G(T)[T \ {c}] = G(T \ {c})[T \ {c}]
  <2> HIDE DEF G, c
  <2> QED BY <1>1, <1>2, UnfoldingUnique
<1>5. SumFunctionOnSet(f, T) = G(T)[T]
    BY SumIsChosen
<1>6. SumFunctionOnSet(f, T \ {c}) = G(T \ {c})[T \ {c}]
    BY SumIsChosen
<1> HIDE DEF G
<1> QED BY <1>3, <1>4, <1>5, <1>6

(* A sum of integers is an integer.                                         *)
LEMMA SumInt ==
    ASSUME NEW f, NEW S, IsFiniteSet(S), \A x \in S : f[x] \in Int
    PROVE  SumFunctionOnSet(f, S) \in Int
<1> DEFINE A == {T \in SUBSET S : SumFunctionOnSet(f, T) \in Int}
<1>1. ASSUME NEW T \in SUBSET S, \A x \in T : T \ {x} \in A
      PROVE  T \in A
  <2>1. CASE T = {}
      BY <2>1, SumEmpty
  <2>2. CASE T # {}
    <3> DEFINE c == CHOOSE x \in T : TRUE
    <3>1. IsFiniteSet(T) /\ c \in T
        BY <2>2, FS_Subset
    <3>2. SumFunctionOnSet(f, T) = f[c] + SumFunctionOnSet(f, T \ {c})
        BY <2>2, <3>1, SumChosen
    <3>3. T \ {c} \in A
        BY <1>1, <3>1
    <3> HIDE DEF c
    <3> QED BY <3>1, <3>2, <3>3
  <2> QED BY <2>1, <2>2
<1>2. \A T \in SUBSET S : T \in A
  <2> HIDE DEF A
  <2> QED BY <1>1, SubsetInduction
<1> QED BY <1>2

(* Any term can be taken out of a sum of integers.                          *)
LEMMA SumRemove ==
    ASSUME NEW f, NEW S, IsFiniteSet(S), \A x \in S : f[x] \in Int, NEW y \in S
    PROVE  SumFunctionOnSet(f, S) = f[y] + SumFunctionOnSet(f, S \ {y})
<1> DEFINE sum(T) == SumFunctionOnSet(f, T)
           A == {T \in SUBSET S : \A x \in T : sum(T) = f[x] + sum(T \ {x})}
<1>0. \A T \in SUBSET S : IsFiniteSet(T) /\ sum(T) \in Int
    BY FS_Subset, SumInt
<1>1. ASSUME NEW T \in SUBSET S, \A x \in T : T \ {x} \in A
      PROVE  T \in A
  <2> SUFFICES ASSUME NEW x \in T
               PROVE  sum(T) = f[x] + sum(T \ {x})
      OBVIOUS
  <2> DEFINE c == CHOOSE z \in T : TRUE
  <2>1. c \in T /\ f[c] \in Int /\ f[x] \in Int
      OBVIOUS
  <2>2. sum(T) = f[c] + sum(T \ {c})
      BY <1>0, SumChosen
  <2> HIDE DEF c, sum
  <2>3. CASE x = c
      BY <2>2, <2>3
  <2>4. CASE x # c
    <3>1. sum(T \ {c}) = f[x] + sum((T \ {c}) \ {x})
        BY <1>1, <2>1, <2>4
    <3>2. sum(T \ {x}) = f[c] + sum((T \ {x}) \ {c})
        BY <1>1, <2>1, <2>4
    <3>3. (T \ {x}) \ {c} = (T \ {c}) \ {x}
        OBVIOUS
    <3> DEFINE r == sum((T \ {c}) \ {x})
    <3>4. r \in Int
        BY <1>0
    <3>5. sum(T \ {c}) = f[x] + r /\ sum(T \ {x}) = f[c] + r
        BY <3>1, <3>2, <3>3
    <3> HIDE DEF r
    <3> QED BY <2>1, <2>2, <3>4, <3>5
  <2> QED BY <2>3, <2>4
<1>2. \A T \in SUBSET S : T \in A
  <2> HIDE DEF A
  <2> QED BY <1>1, SubsetInduction
<1> QED BY <1>2

(* The sum over one element.                                                *)
LEMMA SumSingleton ==
    ASSUME NEW f, NEW x, f[x] \in Int
    PROVE  SumFunctionOnSet(f, {x}) = f[x]
<1>1. IsFiniteSet({x}) /\ {x} \ {x} = {}
    BY FS_Singleton
<1>2. SumFunctionOnSet(f, {x}) = f[x] + SumFunctionOnSet(f, {x} \ {x})
    BY <1>1, SumRemove
<1> QED BY <1>1, <1>2, SumEmpty

(* Functions that agree on a set have the same sum over it.                 *)
LEMMA SumAgree ==
    ASSUME NEW f, NEW g, NEW S, IsFiniteSet(S),
           \A x \in S : f[x] \in Int /\ f[x] = g[x]
    PROVE  SumFunctionOnSet(f, S) = SumFunctionOnSet(g, S)
<1> DEFINE A == {T \in SUBSET S : SumFunctionOnSet(f, T) = SumFunctionOnSet(g, T)}
<1>1. ASSUME NEW T \in SUBSET S, \A x \in T : T \ {x} \in A
      PROVE  T \in A
  <2>1. CASE T = {}
      BY <2>1, SumEmpty
  <2>2. CASE T # {}
    <3>1. PICK x \in T : TRUE
        BY <2>2
    <3>2. IsFiniteSet(T) /\ \A z \in T : f[z] \in Int /\ g[z] \in Int
        BY FS_Subset
    <3>3. /\ SumFunctionOnSet(f, T) = f[x] + SumFunctionOnSet(f, T \ {x})
          /\ SumFunctionOnSet(g, T) = g[x] + SumFunctionOnSet(g, T \ {x})
        BY <3>2, SumRemove
    <3> QED BY <1>1, <3>3
  <2> QED BY <2>1, <2>2
<1>2. \A T \in SUBSET S : T \in A
  <2> HIDE DEF A
  <2> QED BY <1>1, SubsetInduction
<1> QED BY <1>2

(* Sums are additive.                                                       *)
LEMMA SumAdd ==
    ASSUME NEW f, NEW g, NEW h, NEW S, IsFiniteSet(S),
           \A x \in S : f[x] \in Int /\ g[x] \in Int /\ h[x] = f[x] + g[x]
    PROVE  SumFunctionOnSet(h, S) = SumFunctionOnSet(f, S) + SumFunctionOnSet(g, S)
<1> DEFINE A == {T \in SUBSET S : SumFunctionOnSet(h, T)
                   = SumFunctionOnSet(f, T) + SumFunctionOnSet(g, T)}
<1>1. ASSUME NEW T \in SUBSET S, \A x \in T : T \ {x} \in A
      PROVE  T \in A
  <2>1. CASE T = {}
      BY <2>1, SumEmpty
  <2>2. CASE T # {}
    <3>1. PICK x \in T : TRUE
        BY <2>2
    <3>2. /\ IsFiniteSet(T) /\ IsFiniteSet(T \ {x})
          /\ \A z \in T : f[z] \in Int /\ g[z] \in Int /\ h[z] \in Int
        BY FS_Subset
    <3>3. /\ SumFunctionOnSet(f, T) = f[x] + SumFunctionOnSet(f, T \ {x})
          /\ SumFunctionOnSet(g, T) = g[x] + SumFunctionOnSet(g, T \ {x})
          /\ SumFunctionOnSet(h, T) = h[x] + SumFunctionOnSet(h, T \ {x})
        BY <3>2, SumRemove
    <3>4. /\ SumFunctionOnSet(f, T \ {x}) \in Int
          /\ SumFunctionOnSet(g, T \ {x}) \in Int
        BY <3>2, SumInt
    <3>5. SumFunctionOnSet(h, T \ {x})
            = SumFunctionOnSet(f, T \ {x}) + SumFunctionOnSet(g, T \ {x})
        BY <1>1
    <3>6. f[x] \in Int /\ g[x] \in Int /\ h[x] = f[x] + g[x]
        OBVIOUS
    <3>7. SumFunctionOnSet(h, T)
            = SumFunctionOnSet(f, T) + SumFunctionOnSet(g, T)
        BY <3>3, <3>4, <3>5, <3>6
    <3> QED BY <3>7
  <2> QED BY <2>1, <2>2
<1>2. \A T \in SUBSET S : T \in A
  <2> HIDE DEF A
  <2> QED BY <1>1, SubsetInduction
<1> QED BY <1>2

(* A sum of natural numbers is a natural number.                            *)
LEMMA SumNat ==
    ASSUME NEW f, NEW S, IsFiniteSet(S), \A x \in S : f[x] \in Nat
    PROVE  SumFunctionOnSet(f, S) \in Nat
<1> DEFINE A == {T \in SUBSET S : SumFunctionOnSet(f, T) \in Nat}
<1>1. ASSUME NEW T \in SUBSET S, \A x \in T : T \ {x} \in A
      PROVE  T \in A
  <2>1. CASE T = {}
      BY <2>1, SumEmpty
  <2>2. CASE T # {}
    <3> DEFINE c == CHOOSE x \in T : TRUE
    <3>1. IsFiniteSet(T) /\ c \in T
        BY <2>2, FS_Subset
    <3>2. SumFunctionOnSet(f, T) = f[c] + SumFunctionOnSet(f, T \ {c})
        BY <2>2, <3>1, SumChosen
    <3>3. T \ {c} \in A
        BY <1>1, <3>1
    <3> HIDE DEF c
    <3> QED BY <3>1, <3>2, <3>3
  <2> QED BY <2>1, <2>2
<1>2. \A T \in SUBSET S : T \in A
  <2> HIDE DEF A
  <2> QED BY <1>1, SubsetInduction
<1> QED BY <1>2

(* The sum of zeros.                                                        *)
LEMMA SumZero ==
    ASSUME NEW f, NEW S, IsFiniteSet(S), \A x \in S : f[x] = 0
    PROVE  SumFunctionOnSet(f, S) = 0
<1>1. SumFunctionOnSet(f, S) = SumFunctionOnSet(f, S) + SumFunctionOnSet(f, S)
    BY SumAdd
<1> QED BY <1>1, SumInt

(* Changing one term changes the sum by as much.                            *)
LEMMA SumUpdate ==
    ASSUME NEW f, NEW g, NEW S, IsFiniteSet(S), NEW y \in S, g[y] \in Int,
           \A x \in S : f[x] \in Int /\ (x # y => g[x] = f[x])
    PROVE  SumFunctionOnSet(g, S) = SumFunctionOnSet(f, S) + g[y] - f[y]
<1>1. /\ SumFunctionOnSet(f, S) = f[y] + SumFunctionOnSet(f, S \ {y})
      /\ SumFunctionOnSet(g, S) = g[y] + SumFunctionOnSet(g, S \ {y})
    BY SumRemove
<1>2. IsFiniteSet(S \ {y})
    BY FS_RemoveElement
<1>3. /\ SumFunctionOnSet(f, S \ {y}) = SumFunctionOnSet(g, S \ {y})
      /\ SumFunctionOnSet(f, S \ {y}) \in Int
    BY <1>2, SumAgree, SumInt
<1> QED BY <1>1, <1>3

(* Terms h over W that are the terms f over S, and those g over T n places  *)
(* further on: those of a sequence that another was joined to.              *)
TermsJoin(f, S, n, g, T, m, h, W) ==
    /\ S \subseteq 1 .. n /\ T \subseteq 1 .. m
    /\ \A x \in S : f[x] \in Int /\ h[x] = f[x]
    /\ \A y \in T : g[y] \in Int /\ h[n + y] = g[y]
    /\ \A w : w \in W <=> w \in S \/ \E y \in T : w = n + y

(* Their sums add up.                                                       *)
LEMMA SumJoined ==
    ASSUME NEW f, NEW S, NEW n \in Nat, NEW g, NEW T, NEW m \in Nat, NEW h, NEW W,
           TermsJoin(f, S, n, g, T, m, h, W)
    PROVE  SumFunctionOnSet(h, W) = SumFunctionOnSet(f, S) + SumFunctionOnSet(g, T)
<1> DEFINE moved(U) == {n + y : y \in U}
           A == {U \in SUBSET T : SumFunctionOnSet(h, S \cup moved(U))
                   = SumFunctionOnSet(f, S) + SumFunctionOnSet(g, U)}
<1>0. IsFiniteSet(S) /\ IsFiniteSet(T) /\ IsFiniteSet(1 .. n + m)
  <2>1. n + m \in Int /\ n \in Int /\ m \in Int
      OBVIOUS
  <2>2. IsFiniteSet(1 .. n) /\ IsFiniteSet(1 .. m) /\ IsFiniteSet(1 .. n + m)
      BY <2>1, FS_Interval
  <2> QED BY <2>2, FS_Subset DEF TermsJoin
<1>1. ASSUME NEW U \in SUBSET T, \A y \in U : U \ {y} \in A
      PROVE  U \in A
  <2>0. SumFunctionOnSet(f, S) \in Int
      BY <1>0, SumInt DEF TermsJoin
  <2>1. CASE U = {}
    <3>1. moved(U) = {} /\ S \cup moved(U) = S
        BY <2>1
    <3>2. SumFunctionOnSet(f, S) = SumFunctionOnSet(h, S)
        BY <1>0, SumAgree DEF TermsJoin
    <3>3. SumFunctionOnSet(g, U) = 0
        BY <2>1, SumEmpty
    <3>4. SumFunctionOnSet(h, S \cup moved(U))
            = SumFunctionOnSet(f, S) + SumFunctionOnSet(g, U)
      <4> HIDE DEF A, moved
      <4> QED BY <2>0, <3>1, <3>2, <3>3
    <3> QED BY <3>4
  <2>2. CASE U # {}
    <3>1. PICK y \in U : TRUE
        BY <2>2
    <3> DEFINE X == S \cup moved(U)
               V == S \cup moved(U \ {y})
    <3>2. /\ n + y \in X /\ X \ {n + y} = V
          /\ X \subseteq 1 .. n + m
      <4>1. \A z \in U : z \in 1 .. m
          BY DEF TermsJoin
      <4>2. \A x \in S : x \in 1 .. n /\ x # n + y
          BY <4>1 DEF TermsJoin
      <4>3. \A z \in U : n + z = n + y => z = y
          BY <4>1
      <4>4. X \ {n + y} = V
          BY <4>2, <4>3
      <4>5. X \subseteq 1 .. n + m
        <5>1. ASSUME NEW x \in X PROVE x \in 1 .. n + m
          <6>1. CASE x \in S
              BY <6>1 DEF TermsJoin
          <6>2. CASE x \in moved(U)
            <7>1. PICK z \in U : x = n + z
                BY <6>2
            <7>2. z \in 1 .. m
                BY <4>1
            <7> HIDE DEF moved, X
            <7> QED BY <7>1, <7>2
          <6> QED BY <6>1, <6>2
        <5> HIDE DEF X
        <5> QED BY <5>1
      <4> QED BY <4>4, <4>5
    <3>3. \A x \in X : h[x] \in Int
        BY DEF TermsJoin
    <3>4. IsFiniteSet(X) /\ IsFiniteSet(U)
        BY <1>0, <3>2, FS_Subset
    <3>5. h[n + y] = g[y] /\ g[y] \in Int
        BY DEF TermsJoin
    <3> HIDE DEF X, V
    <3>6. SumFunctionOnSet(h, X) = g[y] + SumFunctionOnSet(h, V)
      <4>1. \A z \in X : SumFunctionOnSet(h, X) = h[z] + SumFunctionOnSet(h, X \ {z})
        <5> HIDE DEF A, moved
        <5> QED BY <3>3, <3>4, SumRemove
      <4> QED BY <3>2, <3>5, <4>1
    <3>7. SumFunctionOnSet(g, U) = g[y] + SumFunctionOnSet(g, U \ {y})
      <4>1. \A z \in U : g[z] \in Int
          BY DEF TermsJoin
      <4>2. \A z \in U : SumFunctionOnSet(g, U) = g[z] + SumFunctionOnSet(g, U \ {z})
        <5> HIDE DEF A, moved
        <5> QED BY <3>4, <4>1, SumRemove
      <4> QED BY <4>2
    <3>8. SumFunctionOnSet(h, V)
            = SumFunctionOnSet(f, S) + SumFunctionOnSet(g, U \ {y})
        BY <1>1 DEF V
    <3>9. SumFunctionOnSet(g, U \ {y}) \in Int
      <4>1. IsFiniteSet(U \ {y}) /\ \A z \in U \ {y} : g[z] \in Int
          BY <3>4, FS_Subset DEF TermsJoin
      <4> QED BY <4>1, SumInt
    <3>10. SumFunctionOnSet(h, X) = SumFunctionOnSet(f, S) + SumFunctionOnSet(g, U)
        BY <2>0, <3>5, <3>6, <3>7, <3>8, <3>9
    <3> QED BY <3>10 DEF X
  <2> QED BY <2>1, <2>2
<1>2. \A U \in SUBSET T : U \in A
  <2> HIDE DEF A
  <2> QED BY <1>0, <1>1, SubsetInduction
<1>3. SumFunctionOnSet(h, S \cup moved(T))
        = SumFunctionOnSet(f, S) + SumFunctionOnSet(g, T)
    BY <1>2
<1>4. W = S \cup moved(T)
  <2>1. \A w : w \in moved(T) <=> \E y \in T : w = n + y
      OBVIOUS
  <2> HIDE DEF moved
  <2> QED BY <2>1 DEF TermsJoin
<1> QED BY <1>3, <1>4

Part(S, group, p) == {x \in S : group[x] = p}

(* Summing group by group: when every element of S belongs to one group of  *)
(* P, the sums of f over the groups add up to its sum over S.               *)
LEMMA SumByGroup ==
    ASSUME NEW f, NEW S, IsFiniteSet(S), \A x \in S : f[x] \in Int,
           NEW P, IsFiniteSet(P), NEW group, \A x \in S : group[x] \in P,
           NEW g, \A p \in P : g[p] = SumFunctionOnSet(f, Part(S, group, p))
    PROVE  SumFunctionOnSet(g, P) = SumFunctionOnSet(f, S)
<1> DEFINE part(T, p) == {x \in T : group[x] = p}
           sum(T) == SumFunctionOnSet(f, T)
           grouped(T) == [p \in P |-> sum(part(T, p))]
           A == {T \in SUBSET S : SumFunctionOnSet(grouped(T), P) = sum(T)}
<1>0. \A T \in SUBSET S : IsFiniteSet(T) /\ sum(T) \in Int
    BY FS_Subset, SumInt
<1>1. ASSUME NEW T \in SUBSET S, \A x \in T : T \ {x} \in A
      PROVE  T \in A
  <2>1. CASE T = {}
    <3>1. \A p \in P : grouped(T)[p] = 0
        BY <2>1, SumEmpty
    <3> HIDE DEF grouped
    <3>2. SumFunctionOnSet(grouped(T), P) = 0
        BY <3>1, SumZero
    <3> QED BY <2>1, <3>2, SumEmpty
  <2>2. CASE T # {}
    <3>1. PICK x \in T : TRUE
        BY <2>2
    <3> DEFINE U == T \ {x}
               q == group[x]
    <3>2. q \in P /\ f[x] \in Int
        OBVIOUS
    <3>3. sum(T) = f[x] + sum(U)
        BY <1>0, SumRemove
    <3>4. \A p \in P : part(T, p) \in SUBSET S /\ part(U, p) \in SUBSET S
        OBVIOUS
    <3>5. sum(part(T, q)) = f[x] + sum(part(U, q))
      <4>1. x \in part(T, q) /\ part(T, q) \ {x} = part(U, q)
          OBVIOUS
      <4>2. IsFiniteSet(part(T, q)) /\ \A z \in part(T, q) : f[z] \in Int
          BY <1>0, <3>2, <3>4
      <4> HIDE DEF part, q, U
      <4> QED BY <4>1, <4>2, SumRemove
    <3>6. \A p \in P : p # q => part(T, p) = part(U, p)
        OBVIOUS
    <3>7. \A p \in P : grouped(U)[p] \in Int /\ grouped(T)[p] \in Int
        BY <1>0, <3>4
    <3>8. \A p \in P : p # q => grouped(T)[p] = grouped(U)[p]
        BY <3>6
    <3>9. grouped(T)[q] = f[x] + grouped(U)[q]
        BY <3>2, <3>5
    <3>10. U \in A
        BY <1>1
    <3>11. sum(U) \in Int
        BY <1>0
    <3>12. SumFunctionOnSet(grouped(U), P) = sum(U)
        BY <3>10
    <3> HIDE DEF grouped, part, sum, U, q
    <3>13. SumFunctionOnSet(grouped(T), P)
             = SumFunctionOnSet(grouped(U), P) + grouped(T)[q] - grouped(U)[q]
        BY <3>2, <3>7, <3>8, SumUpdate
    <3>14. SumFunctionOnSet(grouped(T), P) = sum(T)
        BY <3>2, <3>3, <3>7, <3>9, <3>11, <3>12, <3>13
    <3> QED BY <3>14
  <2> QED BY <2>1, <2>2
<1>2. \A T \in SUBSET S : T \in A
  <2> HIDE DEF A
  <2> QED BY <1>1, SubsetInduction
<1>3. SumFunctionOnSet(grouped(S), P) = sum(S)
    BY <1>2
<1>4. \A p \in P : grouped(S)[p] \in Int /\ grouped(S)[p] = g[p]
    BY <1>0 DEF Part
<1> HIDE DEF grouped
<1> QED BY <1>3, <1>4, SumAgree

-----------------------------------------------------------------------------
(* Comparing sums.                                                          *)

(* A sum of natural numbers is at least its sum over a subset.              *)
LEMMA SumSubset ==
    ASSUME NEW f, NEW S, IsFiniteSet(S), \A x \in S : f[x] \in Nat,
           NEW R \in SUBSET S
    PROVE  SumFunctionOnSet(f, R) =< SumFunctionOnSet(f, S)
<1> DEFINE sum(T) == SumFunctionOnSet(f, T)
           A == {T \in SUBSET S : sum(T \cap R) =< sum(T)}
<1>0. \A T \in SUBSET S : IsFiniteSet(T) /\ sum(T) \in Nat
    BY FS_Subset, SumNat
<1>1. ASSUME NEW T \in SUBSET S, \A x \in T : T \ {x} \in A
      PROVE  T \in A
  <2>1. CASE T = {}
    <3>1. T \cap R = T /\ sum(T) \in Nat
        BY <1>0, <2>1
    <3> HIDE DEF sum
    <3> QED BY <3>1
  <2>2. CASE T # {}
    <3>1. PICK x \in T : TRUE
        BY <2>2
    <3> DEFINE U == T \ {x}
    <3>2. sum(T) = f[x] + sum(U) /\ f[x] \in Nat
        BY <1>0, SumRemove
    <3>3. sum(U \cap R) =< sum(U)
        BY <1>1
    <3>4. \/ sum(T \cap R) = f[x] + sum(U \cap R)
          \/ sum(T \cap R) = sum(U \cap R)
      <4>2. CASE x \in R
        <5>1. (T \cap R) \ {x} = U \cap R /\ x \in T \cap R /\ IsFiniteSet(T \cap R)
            BY <1>0, <4>2
        <5>2. \A z \in T \cap R : f[z] \in Int
            OBVIOUS
        <5> HIDE DEF U
        <5>3. SumFunctionOnSet(f, T \cap R) = f[x] + SumFunctionOnSet(f, (T \cap R) \ {x})
            BY <5>1, <5>2, SumRemove
        <5>4. sum(T \cap R) = f[x] + sum(U \cap R)
            BY <5>1, <5>3
        <5> QED BY <5>4
      <4>3. CASE x \notin R
        <5>1. T \cap R = U \cap R
            BY <4>3
        <5> QED BY <5>1
      <4> QED BY <4>2, <4>3
    <3>5. {sum(T \cap R), sum(U \cap R), sum(U), sum(T)} \subseteq Nat
        BY <1>0
    <3> HIDE DEF sum, U
    <3> QED BY <3>2, <3>3, <3>4, <3>5
  <2> QED BY <2>1, <2>2
<1>2. \A T \in SUBSET S : T \in A
  <2> HIDE DEF A
  <2> QED BY <1>1, SubsetInduction
<1>3. S \cap R = R
    OBVIOUS
<1> QED BY <1>2, <1>3

(* Sums keep the order of their terms.                                      *)
LEMMA SumLeq ==
    ASSUME NEW f, NEW g, NEW S, IsFiniteSet(S),
           \A x \in S : f[x] \in Int /\ g[x] \in Int /\ f[x] =< g[x]
    PROVE  SumFunctionOnSet(f, S) =< SumFunctionOnSet(g, S)
<1> DEFINE d == [x \in S |-> g[x] - f[x]]
<1>1. \A x \in S : d[x] \in Nat /\ f[x] \in Int /\ g[x] = f[x] + d[x]
    OBVIOUS
<1> HIDE DEF d
<1>2. SumFunctionOnSet(g, S) = SumFunctionOnSet(f, S) + SumFunctionOnSet(d, S)
    BY <1>1, SumAdd
<1>3. SumFunctionOnSet(f, S) \in Int /\ SumFunctionOnSet(d, S) \in Nat
    BY <1>1, SumInt, SumNat
<1> QED BY <1>2, <1>3

(* A common factor can be taken out of a sum.                               *)
LEMMA SumScale ==
    ASSUME NEW f, NEW g, NEW S, IsFiniteSet(S), NEW c \in Int,
           \A x \in S : f[x] \in Int /\ g[x] = c * f[x]
    PROVE  SumFunctionOnSet(g, S) = c * SumFunctionOnSet(f, S)
<1> DEFINE A == {T \in SUBSET S : SumFunctionOnSet(g, T) = c * SumFunctionOnSet(f, T)}
<1>1. ASSUME NEW T \in SUBSET S, \A x \in T : T \ {x} \in A
      PROVE  T \in A
  <2>1. CASE T = {}
    <3>1. c * 0 = 0
        OBVIOUS
    <3> QED BY <2>1, <3>1, SumEmpty
  <2>2. CASE T # {}
    <3>1. PICK x \in T : TRUE
        BY <2>2
    <3>2. /\ IsFiniteSet(T) /\ IsFiniteSet(T \ {x})
          /\ \A z \in T : f[z] \in Int /\ g[z] \in Int
        BY FS_Subset
    <3> DEFINE a == SumFunctionOnSet(f, T \ {x})
    <3>3. /\ SumFunctionOnSet(f, T) = f[x] + a
          /\ SumFunctionOnSet(g, T) = g[x] + SumFunctionOnSet(g, T \ {x})
        BY <3>2, SumRemove
    <3>4. a \in Int
        BY <3>2, SumInt
    <3>5. SumFunctionOnSet(g, T \ {x}) = c * a
        BY <1>1
    <3>6. f[x] \in Int /\ g[x] = c * f[x]
        OBVIOUS
    <3> HIDE DEF a
    <3>7. c * (f[x] + a) = c * f[x] + c * a
        BY <3>4, <3>6
    <3>8. SumFunctionOnSet(g, T) = c * SumFunctionOnSet(f, T)
        BY <3>3, <3>5, <3>6, <3>7
    <3> QED BY <3>8
  <2> QED BY <2>1, <2>2
<1>2. \A T \in SUBSET S : T \in A
  <2> HIDE DEF A
  <2> QED BY <1>1, SubsetInduction
<1> QED BY <1>2

-----------------------------------------------------------------------------
(* Loops.                                                                   *)

(* A set that holds 0, and each number up to n with the one before it,      *)
(* holds n.                                                                 *)
LEMMA CountingInduction ==
    ASSUME NEW n \in Nat, NEW A, 0 \in A, \A i \in 1 .. n : i - 1 \in A => i \in A
    PROVE  n \in A
<1> DEFINE Bad == {i \in 0 .. n : i \notin A}
<1> SUFFICES ASSUME n \notin A PROVE FALSE
    OBVIOUS
<1>1. Bad # {} /\ Bad \subseteq Nat
    OBVIOUS
<1>2. PICK m \in Bad : \A i \in Bad : <<i, m>> \notin Less
  <2> HIDE DEF Bad
  <2> QED BY <1>1, LessWellFounded, WFMin
<1>3. m \in 1 .. n /\ m - 1 \in Nat
    BY <1>2
<1>4. m - 1 \in Bad
    BY <1>2, <1>3
<1>5. <<m - 1, m>> \in Less
    BY <1>3 DEF Less
<1> QED BY <1>2, <1>4, <1>5

(* One term more.                                                           *)
LEMMA SumPrefix ==
    ASSUME NEW n \in Nat, NEW v, NEW i \in 1 .. n, \A j \in 1 .. n : v[j] \in Int,
           NEW R
    PROVE  /\ SumFunctionOnSet(v, {j \in 1 .. i - 1 : j \in R}) \in Int
           /\ SumFunctionOnSet(v, {j \in 1 .. i : j \in R})
                = SumFunctionOnSet(v, {j \in 1 .. i - 1 : j \in R})
                    + IF i \in R THEN v[i] ELSE 0
<1> DEFINE before == {j \in 1 .. i - 1 : j \in R}
           after == {j \in 1 .. i : j \in R}
<1>1. before \subseteq 1 .. n /\ after \subseteq 1 .. n
    OBVIOUS
<1>2. IsFiniteSet(before) /\ IsFiniteSet(after)
  <2> HIDE DEF before, after
  <2>1. IsFiniteSet(1 .. n)
      BY FS_Interval
  <2> QED BY <1>1, <2>1, FS_Subset
<1>3. SumFunctionOnSet(v, before) \in Int
  <2> HIDE DEF before, after
  <2> QED BY <1>1, <1>2, SumInt
<1>4. CASE i \in R
  <2>1. i \in after /\ after \ {i} = before
    <3>1. 1 .. i = (1 .. i - 1) \cup {i} /\ i \notin 1 .. i - 1 /\ i \in 1 .. i
        OBVIOUS
    <3> QED BY <1>4, <3>1, Zenon
  <2> HIDE DEF before, after
  <2>2. SumFunctionOnSet(v, after) = v[i] + SumFunctionOnSet(v, before)
    <3>1. \A j \in after : v[j] \in Int
        BY <1>1
    <3>2. SumFunctionOnSet(v, after) = v[i] + SumFunctionOnSet(v, after \ {i})
      <4>1. i \in after
          BY <2>1
      <4> QED BY <1>2, <3>1, <4>1, SumRemove, ZenonT(60)
    <3> QED BY <2>1, <3>2
  <2>3. SumFunctionOnSet(v, after) = SumFunctionOnSet(v, before) + IF i \in R THEN v[i] ELSE 0
      BY <1>3, <1>4, <2>2
  <2> QED BY <1>3, <2>3 DEF before, after
<1>5. CASE i \notin R
  <2>1. after = before
      BY <1>5
  <2> HIDE DEF before, after
  <2>2. SumFunctionOnSet(v, after) = SumFunctionOnSet(v, before) + IF i \in R THEN v[i] ELSE 0
      BY <1>3, <1>5, <2>1
  <2> QED BY <1>3, <2>2 DEF before, after
<1> QED BY <1>4, <1>5

(* A loop that adds v[i] to the entry key[i] of a table, reading what its   *)
(* previous turn wrote; s[i] is the table after i turns.                    *)
AddsInTurn(s, v, key, n, K) ==
    /\ s[0] \in [K -> Int]
    /\ \A i \in 1 .. n : key[i] \in K /\ v[i] \in Int
    /\ \A i \in 1 .. n : s[i] = [s[i - 1] EXCEPT ![key[i]] = @ + v[i]]

(* It adds to each entry the sum of its terms.                              *)
LEMMA SumByLoop ==
    ASSUME NEW n \in Nat, NEW K, NEW key, NEW v, NEW s, AddsInTurn(s, v, key, n, K)
    PROVE  /\ s[n] \in [K -> Int]
           /\ \A k \in K : s[n][k] = s[0][k] + SumFunctionOnSet(v, Part(1 .. n, key, k))
<1>0. /\ s[0] \in [K -> Int]
      /\ \A i \in 1 .. n : key[i] \in K /\ v[i] \in Int
      /\ \A i \in 1 .. n : s[i] = [s[i - 1] EXCEPT ![key[i]] = @ + v[i]]
    BY DEF AddsInTurn
<1> DEFINE of(k) == {j \in 1 .. n : key[j] = k}
           sum(i, k) == SumFunctionOnSet(v, {j \in 1 .. i : j \in of(k)})
           A == {i \in 0 .. n : s[i] = [k \in K |-> s[0][k] + sum(i, k)]}
<1>1. 0 \in A
  <2>1. \A k \in K : sum(0, k) = 0
    <3>1. \A k : {j \in 1 .. 0 : j \in of(k)} = {}
        OBVIOUS
    <3> QED BY <3>1, SumEmpty
  <2> HIDE DEF sum
  <2> QED BY <1>0, <2>1
<1>2. ASSUME NEW i \in 1 .. n, i - 1 \in A PROVE i \in A
  <2>1. \A k \in K : /\ sum(i - 1, k) \in Int
                     /\ sum(i, k) = sum(i - 1, k) + IF i \in of(k) THEN v[i] ELSE 0
    <3> TAKE k \in K
    <3>1. \A j \in 1 .. n : v[j] \in Int
        BY <1>0
    <3> HIDE DEF of
    <3> QED BY <3>1, SumPrefix
  <2>2. \A k \in K : i \in of(k) <=> key[i] = k
      OBVIOUS
  <2>3. s[i - 1] = [k \in K |-> s[0][k] + sum(i - 1, k)]
      BY <1>2
  <2> HIDE DEF sum, of
  <2>4. s[i] = [k \in K |-> s[i - 1][k] + IF key[i] = k THEN v[i] ELSE 0]
    <3>1. s[i - 1] \in [K -> Int]
        BY <1>0, <2>1, <2>3
    <3> QED BY <1>0, <3>1
  <2>5. \A k \in K : s[i - 1][k] + (IF key[i] = k THEN v[i] ELSE 0) = s[0][k] + sum(i, k)
      BY <1>0, <2>1, <2>2, <2>3
  <2>6. s[i] = [k \in K |-> s[0][k] + sum(i, k)]
      BY <2>4, <2>5
  <2> QED BY <2>6
<1>3. n \in A
  <2> HIDE DEF A
  <2> QED BY <1>1, <1>2, CountingInduction
<1>4. \A k \in K : sum(n, k) \in Int /\ sum(n, k) = SumFunctionOnSet(v, Part(1 .. n, key, k))
  <2> TAKE k \in K
  <2>1. {j \in 1 .. n : j \in of(k)} = Part(1 .. n, key, k)
      BY DEF Part
  <2>2. IsFiniteSet(Part(1 .. n, key, k)) /\ \A j \in Part(1 .. n, key, k) : v[j] \in Int
    <3>1. IsFiniteSet(1 .. n) /\ Part(1 .. n, key, k) \subseteq 1 .. n
        BY FS_Interval DEF Part
    <3> QED BY <1>0, <3>1, FS_Subset
  <2>3. SumFunctionOnSet(v, Part(1 .. n, key, k)) \in Int
      BY <2>2, SumInt
  <2> QED BY <2>1, <2>3
<1> HIDE DEF sum
<1> QED BY <1>0, <1>3, <1>4

-----------------------------------------------------------------------------
(* Filtered lists.                                                          *)

(* A loop over the first n entries of s; k[i] is what i turns have kept.    *)
Keeps(s, S, k, n) ==
    k = [i \in 0 .. n |->
            IF i = 0 THEN <<>>
            ELSE IF s[i] \in S THEN Append(k[i - 1], s[i]) ELSE k[i - 1]]

(* There is a table of the turns of the loop.                               *)
LEMMA KeepsExists ==
    ASSUME NEW s, NEW S, NEW n \in Nat
    PROVE  \E k : Keeps(s, S, k, n)
<1> DEFINE A == {m \in 0 .. n : \E k : Keeps(s, S, k, m)}
<1>1. 0 \in A
  <2> DEFINE k == [i \in 0 .. 0 |-> <<>>]
  <2>1. Keeps(s, S, k, 0)
      BY DEF Keeps
  <2> QED BY <2>1
<1>2. ASSUME NEW m \in 1 .. n, m - 1 \in A PROVE m \in A
  <2>1. PICK k : Keeps(s, S, k, m - 1)
      BY <1>2
  <2> DEFINE step == IF s[m] \in S THEN Append(k[m - 1], s[m]) ELSE k[m - 1]
             l == [i \in 0 .. m |-> IF i = m THEN step ELSE k[i]]
  <2>2. \A i \in 0 .. m - 1 : l[i] = k[i]
      OBVIOUS
  <2>3. l[m] = step
      OBVIOUS
  <2>4. \A i \in 0 .. m - 1 :
           k[i] = IF i = 0 THEN <<>>
                  ELSE IF s[i] \in S THEN Append(k[i - 1], s[i]) ELSE k[i - 1]
      BY <2>1 DEF Keeps
  <2>5. \A i \in 0 .. m :
           l[i] = IF i = 0 THEN <<>>
                  ELSE IF s[i] \in S THEN Append(l[i - 1], s[i]) ELSE l[i - 1]
    <3> TAKE i \in 0 .. m
    <3>1. CASE i = m
      <4>1. l[m - 1] = k[m - 1] /\ m # 0
          BY <2>2
      <4> HIDE DEF l
      <4> QED BY <2>3, <3>1, <4>1
    <3>2. CASE i # m
      <4>1. i \in 0 .. m - 1 /\ (i # 0 => i - 1 \in 0 .. m - 1)
          BY <3>2
      <4>2. l[i] = k[i] /\ (i # 0 => l[i - 1] = k[i - 1])
          BY <2>2, <4>1
      <4> HIDE DEF l
      <4> QED BY <2>4, <4>1, <4>2
    <3> QED BY <3>1, <3>2
  <2>6. l = [i \in 0 .. m |-> l[i]]
      OBVIOUS
  <2>7. Keeps(s, S, l, m)
    <3> HIDE DEF l
    <3> QED BY <2>5, <2>6 DEF Keeps
  <2> QED BY <2>7
<1>3. n \in A
  <2> HIDE DEF A
  <2> QED BY <1>1, <1>2, CountingInduction
<1> QED BY <1>3

(* Turn by turn.                                                            *)
Turns(s, S, k, n) ==
    /\ k[0] = <<>>
    /\ \A i \in 1 .. n :
          k[i] = IF s[i] \in S THEN Append(k[i - 1], s[i]) ELSE k[i - 1]

(* The function of the definition is that table.                            *)
LEMMA KeepsTurns ==
    ASSUME NEW s, NEW S, NEW n \in Nat, NEW k, Keeps(s, S, k, n)
    PROVE  Turns(s, S, k, n)
<1>1. \A i \in 0 .. n :
         k[i] = IF i = 0 THEN <<>>
                ELSE IF s[i] \in S THEN Append(k[i - 1], s[i]) ELSE k[i - 1]
    BY DEF Keeps
<1>2. k[0] = <<>>
    BY <1>1
<1>3. \A i \in 1 .. n : i \in 0 .. n /\ i # 0
    OBVIOUS
<1> QED BY <1>1, <1>2, <1>3 DEF Turns

(* Filter is what such a loop ends with.                                    *)
LEMMA FilterByLoop ==
    ASSUME NEW X, NEW s \in Seq(X), NEW S
    PROVE  \E k : Turns(s, S, k, Len(s)) /\ Filter(s, S) = k[Len(s)]
<1> DEFINE k == CHOOSE k : Keeps(s, S, k, Len(s))
<1>1. Keeps(s, S, k, Len(s))
    BY KeepsExists
<1>2. Filter(s, S) = k[Len(s)]
    BY Zenon DEF Filter, Keeps
<1>3. Turns(s, S, k, Len(s))
  <2> HIDE DEF k
  <2>1. Len(s) \in Nat
      OBVIOUS
  <2> QED BY <1>1, <2>1, KeepsTurns
<1> QED BY <1>2, <1>3

(* What n turns have kept: entries of S among the first n, in order if the  *)
(* list is, and each of them.                                               *)
KeptFrom(s, S, n, t, X) ==
    /\ t \in Seq(X) /\ Len(t) =< n
    /\ \A x : (\E i \in 1 .. Len(t) : t[i] = x) <=> (\E i \in 1 .. n : s[i] = x /\ x \in S)

(* After the last turn, the loop has kept that of the whole list.           *)
LEMMA FilterKeeps ==
    ASSUME NEW X, NEW s \in Seq(X), NEW S
    PROVE  KeptFrom(s, S, Len(s), Filter(s, S), X)
<1>1. PICK k : Turns(s, S, k, Len(s)) /\ Filter(s, S) = k[Len(s)]
    BY FilterByLoop
<1>2. /\ k[0] = <<>>
      /\ \A i \in 1 .. Len(s) :
            k[i] = IF s[i] \in S THEN Append(k[i - 1], s[i]) ELSE k[i - 1]
    BY <1>1 DEF Turns
<1>3. Len(s) \in Nat /\ \A i \in 1 .. Len(s) : s[i] \in X
    OBVIOUS
<1> DEFINE A == {m \in 0 .. Len(s) : KeptFrom(s, S, m, k[m], X)}
<1>4. 0 \in A
  <2>1. <<>> \in Seq(X) /\ Len(<<>>) = 0
      OBVIOUS
  <2>2. KeptFrom(s, S, 0, <<>>, X)
      BY <2>1 DEF KeptFrom
  <2> QED BY <1>2, <1>3, <2>2
<1>5. ASSUME NEW m \in 1 .. Len(s), m - 1 \in A PROVE m \in A
  <2>0. /\ k[m - 1] \in Seq(X) /\ Len(k[m - 1]) =< m - 1 /\ m \in Nat /\ s[m] \in X
        /\ \A x : (\E i \in 1 .. Len(k[m - 1]) : k[m - 1][i] = x)
                     <=> (\E i \in 1 .. m - 1 : s[i] = x /\ x \in S)
      BY <1>3, <1>5 DEF KeptFrom
  <2>1. \A x : (\E i \in 1 .. m : s[i] = x /\ x \in S)
                 <=> (s[m] = x /\ x \in S) \/ (\E i \in 1 .. m - 1 : s[i] = x /\ x \in S)
    <3>1. 1 .. m = (1 .. m - 1) \cup {m}
        OBVIOUS
    <3> QED BY <3>1
  <2>2. CASE s[m] \in S
    <3> DEFINE t == Append(k[m - 1], s[m])
               l == Len(k[m - 1])
    <3>1. /\ t \in Seq(X) /\ Len(t) = l + 1 /\ t[l + 1] = s[m] /\ l \in Nat
          /\ \A i \in 1 .. l : t[i] = k[m - 1][i]
        BY <2>0
    <3>2. \A x : (\E i \in 1 .. l + 1 : t[i] = x)
                    <=> (t[l + 1] = x) \/ (\E i \in 1 .. l : t[i] = x)
      <4>1. 1 .. l + 1 = (1 .. l) \cup {l + 1}
          BY <3>1
      <4> HIDE DEF t, l
      <4> QED BY <4>1
    <3>3. \A x : (\E i \in 1 .. l : t[i] = x) <=> (\E i \in 1 .. l : k[m - 1][i] = x)
      <4> HIDE DEF t, l
      <4> QED BY <3>1
    <3>4. k[m] = t
        BY <1>2, <2>2
    <3>5. \A x : (\E i \in 1 .. Len(t) : t[i] = x)
                     <=> (\E i \in 1 .. m : s[i] = x /\ x \in S)
      <4>1. \A x : (t[l + 1] = x) <=> (s[m] = x /\ x \in S)
          BY <2>2, <3>1
      <4>2. Len(t) = l + 1
          BY <3>1
      <4>3. \A x : (\E i \in 1 .. l : k[m - 1][i] = x)
                     <=> (\E i \in 1 .. m - 1 : s[i] = x /\ x \in S)
          BY <2>0
      <4> HIDE DEF t, l
      <4> QED BY <2>1, <3>2, <3>3, <4>1, <4>2, <4>3
    <3>6. Len(t) =< m
        BY <2>0, <3>1
    <3> HIDE DEF t
    <3>7. KeptFrom(s, S, m, t, X)
        BY <3>1, <3>5, <3>6 DEF KeptFrom
    <3> QED BY <3>4, <3>7
  <2>3. CASE s[m] \notin S
    <3>1. k[m] = k[m - 1]
        BY <1>2, <2>3
    <3>2. Len(k[m - 1]) =< m
        BY <2>0
    <3>3. \A x : (\E i \in 1 .. m : s[i] = x /\ x \in S)
                   <=> (\E i \in 1 .. m - 1 : s[i] = x /\ x \in S)
        BY <2>1, <2>3
    <3>4. KeptFrom(s, S, m, k[m - 1], X)
        BY <2>0, <3>2, <3>3 DEF KeptFrom
    <3> QED BY <3>1, <3>4
  <2> QED BY <2>2, <2>3
<1>6. Len(s) \in A
  <2> HIDE DEF A
  <2> QED BY <1>3, <1>4, <1>5, CountingInduction
<1> QED BY <1>1, <1>6

(* Filtering keeps the entries in S and no others.                          *)
LEMMA FilterSet ==
    ASSUME NEW X, NEW s \in Seq(X), NEW S
    PROVE  /\ Filter(s, S) \in Seq(X) /\ Len(Filter(s, S)) =< Len(s)
           /\ ToSet(Filter(s, S)) = ToSet(s) \cap S
<1> DEFINE t == Filter(s, S)
<1>1. KeptFrom(s, S, Len(s), t, X)
    BY FilterKeeps
<1> HIDE DEF t
<1>2. /\ t \in Seq(X) /\ Len(t) =< Len(s)
      /\ \A x : (\E i \in 1 .. Len(t) : t[i] = x) <=> (\E i \in 1 .. Len(s) : s[i] = x /\ x \in S)
    BY <1>1 DEF KeptFrom
<1>3. DOMAIN t = 1 .. Len(t) /\ DOMAIN s = 1 .. Len(s)
    BY <1>2
<1>4. \A x : x \in ToSet(t) <=> x \in ToSet(s) /\ x \in S
    BY <1>2, <1>3 DEF ToSet
<1>5. ToSet(t) = ToSet(s) \cap S
    BY <1>4
<1> QED BY <1>2, <1>5 DEF t

(* Nothing to keep.                                                         *)
LEMMA FilterNone ==
    ASSUME NEW X, NEW s \in Seq(X), NEW S, \A i \in 1 .. Len(s) : s[i] \notin S
    PROVE  Filter(s, S) = <<>>
<1> DEFINE t == Filter(s, S)
<1>1. KeptFrom(s, S, Len(s), t, X)
    BY FilterKeeps
<1> HIDE DEF t
<1>2. /\ t \in Seq(X)
      /\ \A x : (\E i \in 1 .. Len(t) : t[i] = x) <=> (\E i \in 1 .. Len(s) : s[i] = x /\ x \in S)
    BY <1>1 DEF KeptFrom
<1>3. \A i \in 1 .. Len(t) : FALSE
    BY <1>2
<1>4. Len(t) = 0
    BY <1>2, <1>3
<1> QED BY <1>2, <1>4 DEF t

(* Everything to keep.                                                      *)
LEMMA FilterAll ==
    ASSUME NEW X, NEW s \in Seq(X), NEW S, \A i \in 1 .. Len(s) : s[i] \in S
    PROVE  Filter(s, S) = s
<1>1. PICK k : Turns(s, S, k, Len(s)) /\ Filter(s, S) = k[Len(s)]
    BY FilterByLoop
<1>2. k[0] = <<>> /\ \A i \in 1 .. Len(s) : k[i] = Append(k[i - 1], s[i])
    BY <1>1 DEF Turns
<1>3. Len(s) \in Nat /\ \A i \in 1 .. Len(s) : s[i] \in X
    OBVIOUS
<1> DEFINE A == {m \in 0 .. Len(s) : /\ k[m] \in Seq(X) /\ Len(k[m]) = m
                                     /\ \A i \in 1 .. m : k[m][i] = s[i]}
<1>4. 0 \in A
  <2>1. k[0] \in Seq(X) /\ Len(k[0]) = 0 /\ \A i \in 1 .. 0 : k[0][i] = s[i]
      BY <1>2
  <2> QED BY <1>3, <2>1
<1>5. ASSUME NEW m \in 1 .. Len(s), m - 1 \in A PROVE m \in A
  <2>1. /\ k[m - 1] \in Seq(X) /\ Len(k[m - 1]) = m - 1
        /\ \A i \in 1 .. m - 1 : k[m - 1][i] = s[i]
      BY <1>5
  <2>2. k[m] = Append(k[m - 1], s[m]) /\ s[m] \in X /\ m \in Nat
      BY <1>2, <1>3, SMTT(30)
  <2>3. /\ k[m] \in Seq(X) /\ Len(k[m]) = m
        /\ \A i \in 1 .. m : k[m][i] = s[i]
      BY <2>1, <2>2, SMTT(30)
  <2> QED BY <2>3
<1>6. Len(s) \in A
  <2> HIDE DEF A
  <2> QED BY <1>3, <1>4, <1>5, CountingInduction
<1>7. /\ k[Len(s)] \in Seq(X) /\ Len(k[Len(s)]) = Len(s)
      /\ \A i \in 1 .. Len(s) : k[Len(s)][i] = s[i]
    BY <1>6
<1>8. k[Len(s)] = s
    BY <1>3, <1>7, SeqEqual
<1> QED BY <1>1, <1>8

-----------------------------------------------------------------------------
(* Ascending lists of numbers.                                              *)

Ascends(t) == \A i, j \in DOMAIN t : i < j => t[i] < t[j]

(* Filtering keeps an ascending list ascending.                             *)
LEMMA FilterAscends ==
    ASSUME NEW X, X \subseteq Int, NEW s \in Seq(X), NEW S, Ascends(s)
    PROVE  Ascends(Filter(s, S))
<1>1. PICK k : Turns(s, S, k, Len(s)) /\ Filter(s, S) = k[Len(s)]
    BY FilterByLoop
<1>2. /\ k[0] = <<>>
      /\ \A i \in 1 .. Len(s) :
            k[i] = IF s[i] \in S THEN Append(k[i - 1], s[i]) ELSE k[i - 1]
    BY <1>1 DEF Turns
<1>3. /\ Len(s) \in Nat
      /\ \A i \in 1 .. Len(s) : s[i] \in X /\ s[i] \in Int
      /\ \A i, j \in 1 .. Len(s) : i < j => s[i] < s[j]
  <2>1. DOMAIN s = 1 .. Len(s) /\ Len(s) \in Nat /\ \A i \in 1 .. Len(s) : s[i] \in X
      OBVIOUS
  <2> QED BY <2>1 DEF Ascends
<1> DEFINE Below(t, m) == /\ t \in Seq(X)
                          /\ \A i, j \in 1 .. Len(t) : i < j => t[i] < t[j]
                          /\ \A i \in 1 .. Len(t), j \in m + 1 .. Len(s) : t[i] < s[j]
           A == {m \in 0 .. Len(s) : Below(k[m], m)}
<1>4. 0 \in A
  <2>1. k[0] \in Seq(X) /\ 1 .. Len(k[0]) = {}
      BY <1>2
  <2>2. Below(k[0], 0)
      BY <2>1
  <2> HIDE DEF Below
  <2> QED BY <1>3, <2>2
<1>5. ASSUME NEW m \in 1 .. Len(s), m - 1 \in A PROVE m \in A
  <2> DEFINE u == k[m - 1]
             l == Len(u)
  <2>1. /\ u \in Seq(X) /\ l \in Nat /\ m \in Nat /\ s[m] \in X
        /\ \A i, j \in 1 .. l : i < j => u[i] < u[j]
        /\ \A i \in 1 .. l : u[i] \in Int
        /\ \A i \in 1 .. l, j \in m .. Len(s) : u[i] < s[j]
    <3>1. Below(u, m - 1) /\ m - 1 + 1 = m
        BY <1>5
    <3>2. u \in Seq(X)
        BY <3>1
    <3>3. l \in Nat /\ \A i \in 1 .. l : u[i] \in Int
      <4> HIDE DEF u
      <4>1. Len(u) \in Nat /\ \A i \in 1 .. Len(u) : u[i] \in X
          BY <3>2
      <4> QED BY <4>1
    <3>4. /\ \A i, j \in 1 .. l : i < j => u[i] < u[j]
          /\ \A i \in 1 .. l, j \in m .. Len(s) : u[i] < s[j]
        BY <3>1
    <3> HIDE DEF u, l
    <3> QED BY <1>3, <3>2, <3>3, <3>4
  <2>2. CASE s[m] \in S
    <3> DEFINE t == Append(u, s[m])
    <3>0. k[m] = t
        BY <1>2, <2>2
    <3>1. /\ t \in Seq(X) /\ Len(t) = l + 1 /\ t[l + 1] = s[m]
          /\ \A i \in 1 .. l : t[i] = u[i]
        BY <2>1
    <3> HIDE DEF t, u, l
    <3>2. \A i, j \in 1 .. l + 1 : i < j => t[i] < t[j]
      <4> SUFFICES ASSUME NEW i \in 1 .. l + 1, NEW j \in 1 .. l + 1, i < j
                   PROVE  t[i] < t[j]
          OBVIOUS
      <4>1. i \in 1 .. l /\ (j \in 1 .. l \/ j = l + 1)
          BY <2>1
      <4>2. m \in m .. Len(s)
          OBVIOUS
      <4> QED BY <2>1, <3>1, <4>1, <4>2
    <3>3. \A i \in 1 .. l + 1, j \in m + 1 .. Len(s) : t[i] < s[j]
      <4> SUFFICES ASSUME NEW i \in 1 .. l + 1, NEW j \in m + 1 .. Len(s)
                   PROVE  t[i] < s[j]
          OBVIOUS
      <4>1. (i \in 1 .. l \/ i = l + 1) /\ j \in m .. Len(s) /\ j \in 1 .. Len(s) /\ m < j
          BY <1>3, <2>1
      <4> QED BY <1>3, <2>1, <3>1, <4>1
    <3>4. Below(t, m)
        BY <3>1, <3>2, <3>3
    <3> HIDE DEF Below
    <3> QED BY <3>0, <3>4
  <2>3. CASE s[m] \notin S
    <3>1. k[m] = u
        BY <1>2, <2>3
    <3>2. m + 1 .. Len(s) \subseteq m .. Len(s)
        BY <1>3
    <3> HIDE DEF u
    <3>3. Below(u, m)
        BY <2>1, <3>2 DEF u
    <3> QED BY <3>1, <3>3
  <2> QED BY <2>2, <2>3
<1>6. Len(s) \in A
  <2> HIDE DEF A
  <2> QED BY <1>3, <1>4, <1>5, CountingInduction
<1>7. /\ Filter(s, S) \in Seq(X)
      /\ \A i, j \in 1 .. Len(Filter(s, S)) :
            i < j => Filter(s, S)[i] < Filter(s, S)[j]
    BY <1>1, <1>6
<1> QED BY <1>7 DEF Ascends

(* The k-th entry of an ascending list has k entries up to it.              *)
LEMMA AscendingRank ==
    ASSUME NEW t \in Seq(Int), Ascends(t), NEW k \in 0 .. Len(t), NEW T,
           T = {t[i] : i \in 1 .. k}
    PROVE  IsFiniteSet(T) /\ Cardinality(T) = k
<1>1. /\ k \in Nat /\ Len(t) \in Nat /\ 1 .. k \subseteq 1 .. Len(t)
      /\ \A i \in 1 .. Len(t) : t[i] \in Int
    OBVIOUS
<1>2. \A i, j \in 1 .. k : i < j => t[i] < t[j]
  <2>1. DOMAIN t = 1 .. Len(t)
      OBVIOUS
  <2> QED BY <1>1, <2>1 DEF Ascends
<1> DEFINE f == [i \in 1 .. k |-> t[i]]
<1>3. f \in Bijection(1 .. k, T)
  <2>1. f \in [1 .. k -> T] /\ \A y \in T : \E i \in 1 .. k : f[i] = y
      OBVIOUS
  <2>2. \A i, j \in 1 .. k : f[i] = f[j] => i = j
    <3> TAKE i, j \in 1 .. k
    <3>1. f[i] = t[i] /\ f[j] = t[j] /\ t[i] \in Int /\ t[j] \in Int
        BY <1>1
    <3>2. i < j \/ j < i \/ i = j
        OBVIOUS
    <3>3. t[i] = t[j] => i = j
        BY <1>2, <3>1, <3>2
    <3> QED BY <3>1, <3>3
  <2> HIDE DEF f
  <2> QED BY <2>1, <2>2 DEF Bijection, Injection, Surjection, IsInjective
<1>4. IsFiniteSet(1 .. k) /\ Cardinality(1 .. k) = k
    BY <1>1, FS_Interval
<1>5. ExistsBijection(1 .. k, T)
    BY <1>3 DEF ExistsBijection
<1> QED BY <1>4, <1>5, FS_Bijection

(* Of an ascending list's entries, those up to the k-th are the first k.    *)
LEMMA AscendingUpTo ==
    ASSUME NEW t \in Seq(Int), Ascends(t), NEW k \in 1 .. Len(t)
    PROVE  {x \in ToSet(t) : x =< t[k]} = {t[i] : i \in 1 .. k}
<1>1. /\ DOMAIN t = 1 .. Len(t) /\ Len(t) \in Nat
      /\ \A i \in 1 .. Len(t) : t[i] \in Int
      /\ \A i, j \in 1 .. Len(t) : i < j => t[i] < t[j]
  <2>1. DOMAIN t = 1 .. Len(t) /\ Len(t) \in Nat /\ \A i \in 1 .. Len(t) : t[i] \in Int
      OBVIOUS
  <2> QED BY <2>1 DEF Ascends
<1>2. \A i \in 1 .. Len(t) : t[i] =< t[k] <=> i \in 1 .. k
  <2> TAKE i \in 1 .. Len(t)
  <2>1. i < k \/ i = k \/ k < i
      OBVIOUS
  <2> QED BY <1>1, <2>1
<1>3. 1 .. k \subseteq 1 .. Len(t)
    BY <1>1
<1> QED BY <1>1, <1>2, <1>3 DEF ToSet
=============================================================================
