---------------------------- MODULE WalletProofs ----------------------------
(***************************************************************************)
(* Lemmas cited by the proofs of the other components: induction on the    *)
(* natural numbers and the sums over finite sets and sequences that the    *)
(* specifications add up tokens, calls and amounts with, and the           *)
(* operations of Wallet, for the components that move money.               *)
(*                                                                         *)
(* No operator is taken as a parameter: induction is done on subsets of    *)
(* Nat, from the well-foundedness of < on Nat.                             *)
(***************************************************************************)
EXTENDS Wallet, SequenceTheorems, FiniteSetTheorems, TLAPS

-----------------------------------------------------------------------------
\* A non-empty set of naturals has a least element.
LEMMA NatSetMin ==
  ASSUME NEW T \in SUBSET Nat, T # {}
  PROVE  \E x \in T : \A y \in T : x <= y
<1> DEFINE R == {ss \in Nat \X Nat : ss[1] < ss[2]}
<1>1. IsWellFoundedOn(R, Nat)
  BY NatLessThanWellFounded, Zenon DEF OpToRel
<1>2. PICK x \in T : \A y \in T : ~ (<<y, x>> \in R)
  <2> HIDE DEF R
  <2> QED BY <1>1, WFMin
<1>3. ASSUME NEW y \in T PROVE x <= y
  <2>1. x \in Nat /\ y \in Nat OBVIOUS
  <2>2. (y < x) => <<y, x>> \in R
    <3>1. HAVE y < x
    <3>2. <<y, x>> \in Nat \X Nat BY <2>1
    <3>3. <<y, x>>[1] < <<y, x>>[2] BY <3>1
    <3> QED BY <3>2, <3>3, Zenon
  <2>3. ~(y < x) BY <1>2, <2>2
  <2> HIDE DEF R
  <2> QED BY <2>1, <2>3
<1>4. QED BY <1>3

\* A set of naturals that contains 0 and is closed under successor is Nat.
LEMMA NatSetInduction ==
  ASSUME NEW S \in SUBSET Nat, 0 \in S, \A n \in S : n + 1 \in S
  PROVE  S = Nat
<1> DEFINE T == Nat \ S
<1>1. SUFFICES ASSUME T # {} PROVE FALSE OBVIOUS
<1>2. PICK x \in T : \A y \in T : x <= y BY <1>1, NatSetMin
<1>3. x # 0 /\ x \in Nat /\ x - 1 \in Nat BY <1>2
<1>4. x - 1 \notin T BY <1>2, <1>3
<1>5. QED BY <1>3, <1>4, <1>2

-----------------------------------------------------------------------------
(* Sums over finite sets: SumFunctionOnSet adds in an order it chooses, and *)
(* no order makes a difference.                                            *)

Pick(T) == CHOOSE x \in T : TRUE

\* g adds up f over all the subsets of S, and its sums are integers.
AddsUp(g, f, S) ==
  \A T \in SUBSET S : g[T] = IF T = {} THEN 0 ELSE f[Pick(T)] + g[T \ {Pick(T)}]
SetSums(g, f, S) == g \in [SUBSET S -> Int] /\ AddsUp(g, f, S)

\* A finite set without its chosen element is smaller, by one.
LEMMA PickSmaller ==
  ASSUME NEW T, IsFiniteSet(T), T # {}
  PROVE  /\ Pick(T) \in T /\ Cardinality(T) \in Nat
         /\ \A x \in T : /\ IsFiniteSet(T \ {x}) /\ Cardinality(T \ {x}) \in Nat
                         /\ Cardinality(T) = Cardinality(T \ {x}) + 1
<1>1. Pick(T) \in T BY DEF Pick
<1>2. Cardinality(T) \in Nat BY FS_CardinalityType
<1>3. ASSUME NEW x \in T
      PROVE  /\ IsFiniteSet(T \ {x}) /\ Cardinality(T \ {x}) \in Nat
             /\ Cardinality(T) = Cardinality(T \ {x}) + 1
  <2>1. IsFiniteSet(T \ {x}) /\ Cardinality(T \ {x}) = Cardinality(T) - 1
    BY FS_RemoveElement
  <2>2. Cardinality(T \ {x}) \in Nat BY <2>1, FS_CardinalityType
  <2> QED BY <1>2, <2>1, <2>2
<1> QED BY <1>1, <1>2, <1>3

LEMMA SetSumsExist ==
  ASSUME NEW S, IsFiniteSet(S), NEW f, \A x \in S : f[x] \in Int
  PROVE  \E g : SetSums(g, f, S)
<1> DEFINE Upto(n) == {T \in SUBSET S : Cardinality(T) <= n}
           Fits(g, n) == /\ g \in [Upto(n) -> Int]
                         /\ \A T \in Upto(n) : g[T] = IF T = {} THEN 0
                                               ELSE f[Pick(T)] + g[T \ {Pick(T)}]
           N == {n \in Nat : \E g : Fits(g, n)}
<1>0. \A T \in SUBSET S : IsFiniteSet(T) /\ Cardinality(T) \in Nat
  BY FS_Subset, FS_CardinalityType
<1>1. 0 \in N
  <2>1. \A T \in Upto(0) : T = {} BY <1>0, FS_EmptySet
  <2>2. Fits([T \in Upto(0) |-> 0], 0) BY <2>1
  <2> QED BY <2>2
<1>2. ASSUME NEW n \in N PROVE n + 1 \in N
  <2>1. PICK g : Fits(g, n) OBVIOUS
  <2> DEFINE h == [T \in Upto(n + 1) |-> IF Cardinality(T) <= n THEN g[T]
                                         ELSE f[Pick(T)] + g[T \ {Pick(T)}]]
  <2>2. n \in Nat OBVIOUS
  <2>3. ASSUME NEW T \in Upto(n + 1), T # {}
        PROVE  Pick(T) \in S /\ T \ {Pick(T)} \in Upto(n)
    <3>1. /\ Pick(T) \in T /\ Cardinality(T) \in Nat /\ T \in SUBSET S
          /\ Cardinality(T \ {Pick(T)}) \in Nat
          /\ Cardinality(T) = Cardinality(T \ {Pick(T)}) + 1
      BY <1>0, <2>3, PickSmaller
    <3>2. Cardinality(T) <= n + 1 OBVIOUS
    <3>3. Cardinality(T \ {Pick(T)}) <= n BY <2>2, <3>1, <3>2
    <3> QED BY <3>1, <3>3
  <2>4. ASSUME NEW T \in Upto(n + 1)
        PROVE  /\ h[T] \in Int
               /\ Cardinality(T) <= n => h[T] = g[T]
               /\ h[T] = IF T = {} THEN 0 ELSE f[Pick(T)] + g[T \ {Pick(T)}]
    <3>1. CASE Cardinality(T) <= n
      <4>1. T \in Upto(n) /\ h[T] = g[T] BY <3>1
      <4> QED BY <2>1, <4>1
    <3>2. CASE ~(Cardinality(T) <= n)
      <4>1. T # {} BY <2>2, <3>2, FS_EmptySet
      <4>2. h[T] = f[Pick(T)] + g[T \ {Pick(T)}] BY <3>2
      <4>3. f[Pick(T)] \in Int /\ g[T \ {Pick(T)}] \in Int BY <2>1, <2>3, <4>1
      <4> HIDE DEF h
      <4> QED BY <3>2, <4>1, <4>2, <4>3
    <3> QED BY <3>1, <3>2
  <2>5. \A T \in Upto(n) : T \in Upto(n + 1) /\ Cardinality(T) <= n
    BY <1>0, <2>2
  <2>6. h \in [Upto(n + 1) -> Int]
    <3>1. \A T \in Upto(n + 1) : h[T] \in Int BY <2>4
    <3> QED BY <3>1
  <2>7. ASSUME NEW T \in Upto(n + 1)
        PROVE  h[T] = IF T = {} THEN 0 ELSE f[Pick(T)] + h[T \ {Pick(T)}]
    <3>1. CASE T = {} BY <2>4, <3>1
    <3>2. CASE T # {}
      <4>1. T \ {Pick(T)} \in Upto(n) BY <2>3, <3>2
      <4>2. h[T \ {Pick(T)}] = g[T \ {Pick(T)}] BY <2>4, <2>5, <4>1
      <4>3. h[T] = f[Pick(T)] + g[T \ {Pick(T)}] BY <2>4, <3>2
      <4> HIDE DEF h, Upto
      <4> QED BY <3>2, <4>2, <4>3
    <3> HIDE DEF h
    <3> QED BY <3>1, <3>2
  <2> HIDE DEF h
  <2>8. Fits(h, n + 1) BY <2>6, <2>7
  <2>9. n + 1 \in Nat BY <2>2
  <2> HIDE DEF Fits, Upto
  <2> QED BY <2>8, <2>9
<1>3. N = Nat
  <2> HIDE DEF N
  <2>1. N \in SUBSET Nat BY DEF N
  <2> QED BY <1>1, <1>2, <2>1, NatSetInduction
<1>4. Cardinality(S) \in Nat BY FS_CardinalityType
<1>5. Upto(Cardinality(S)) = SUBSET S BY FS_Subset
<1>6. PICK g : Fits(g, Cardinality(S)) BY <1>3, <1>4
<1>7. SetSums(g, f, S) BY <1>5, <1>6 DEF SetSums, AddsUp
<1> QED BY <1>7

\* Two functions of sums agree on the sets on which what they sum agrees.
LEMMA SetSumsAgree ==
  ASSUME NEW S1, NEW S2, NEW f1, NEW f2, NEW g1, NEW g2,
         AddsUp(g1, f1, S1), AddsUp(g2, f2, S2),
         NEW T0, IsFiniteSet(T0), T0 \in SUBSET S1, T0 \in SUBSET S2,
         \A x \in T0 : f1[x] = f2[x]
  PROVE  g1[T0] = g2[T0]
<1> DEFINE N == {n \in Nat : \A T \in SUBSET T0 : Cardinality(T) = n => g1[T] = g2[T]}
<1>0. \A T \in SUBSET T0 : IsFiniteSet(T) /\ Cardinality(T) \in Nat
  BY FS_Subset, FS_CardinalityType
<1>1. 0 \in N
  <2>1. \A T \in SUBSET T0 : Cardinality(T) = 0 => T = {} BY <1>0, FS_EmptySet
  <2>2. g1[{}] = 0 /\ g2[{}] = 0 BY DEF AddsUp
  <2> QED BY <2>1, <2>2
<1>2. ASSUME NEW n \in N PROVE n + 1 \in N
  <2> SUFFICES ASSUME NEW T \in SUBSET T0, Cardinality(T) = n + 1 PROVE g1[T] = g2[T]
    OBVIOUS
  <2>0. n \in Nat OBVIOUS
  <2>1. T # {}
    <3>1. Cardinality({}) = 0 BY FS_EmptySet
    <3>2. n + 1 # 0 BY <2>0
    <3> QED BY <3>1, <3>2
  <2>2. /\ Pick(T) \in T
        /\ Cardinality(T \ {Pick(T)}) \in Nat
        /\ Cardinality(T) = Cardinality(T \ {Pick(T)}) + 1
    BY <1>0, <2>1, PickSmaller
  <2>3. Cardinality(T \ {Pick(T)}) = n BY <2>0, <2>2
  <2>4. g1[T \ {Pick(T)}] = g2[T \ {Pick(T)}] BY <2>3
  <2>5. /\ g1[T] = f1[Pick(T)] + g1[T \ {Pick(T)}]
        /\ g2[T] = f2[Pick(T)] + g2[T \ {Pick(T)}]
    BY <2>1 DEF AddsUp
  <2> HIDE DEF N
  <2> QED BY <2>2, <2>4, <2>5
<1>3. N = Nat
  <2> HIDE DEF N
  <2>1. N \in SUBSET Nat BY DEF N
  <2> QED BY <1>1, <1>2, <2>1, NatSetInduction
<1> QED BY <1>0, <1>3

\* The library's sum is the one of SetSums.
LEMMA SumIsSetSum ==
  ASSUME NEW S, IsFiniteSet(S), NEW f, \A x \in S : f[x] \in Int
  PROVE  \E g : SetSums(g, f, S) /\ SumFunctionOnSet(f, S) = g[S]
<1> DEFINE step(g) == [T \in SUBSET S |->
                         IF T = {} THEN 0 ELSE f[Pick(T)] + g[T \ {Pick(T)}]]
           G == CHOOSE g : g = step(g)
<1>1. SumFunctionOnSet(f, S) = G[S]
  BY DEF SumFunctionOnSet, FoldFunctionOnSet, MapThenFoldSet, Pick
<1>2. PICK g : SetSums(g, f, S) BY SetSumsExist
<1>3. g = step(g) BY <1>2 DEF SetSums, AddsUp
<1>4. G = step(G)
  <2> HIDE DEF step
  <2> QED BY <1>3
<1>5. AddsUp(G, f, S)
  <2> HIDE DEF G
  <2> QED BY <1>4 DEF AddsUp
<1>6. AddsUp(g, f, S) BY <1>2 DEF SetSums
<1> HIDE DEF G
<1>7. G[S] = g[S]
  <2>1. S \in SUBSET S OBVIOUS
  <2> QED BY <1>5, <1>6, <2>1, SetSumsAgree
<1> QED BY <1>1, <1>2, <1>7

\* Any element may be the one that is added last.
LEMMA SetSumsRemove ==
  ASSUME NEW S, IsFiniteSet(S), NEW f, \A y \in S : f[y] \in Int,
         NEW g, SetSums(g, f, S), NEW x \in S
  PROVE  g[S] = f[x] + g[S \ {x}]
<1> DEFINE N == {n \in Nat : \A T \in SUBSET S : \A y \in T :
                   Cardinality(T) = n => g[T] = f[y] + g[T \ {y}]}
<1>0. \A T \in SUBSET S : IsFiniteSet(T) /\ Cardinality(T) \in Nat
  BY FS_Subset, FS_CardinalityType
<1>g. /\ \A T \in SUBSET S : g[T] \in Int
      /\ \A T \in SUBSET S : T # {} => g[T] = f[Pick(T)] + g[T \ {Pick(T)}]
  BY DEF SetSums, AddsUp
<1>1. 0 \in N
  <2>1. \A T \in SUBSET S : Cardinality(T) = 0 => T = {} BY <1>0, FS_EmptySet
  <2> QED BY <2>1
<1>2. ASSUME NEW n \in N PROVE n + 1 \in N
  <2> SUFFICES ASSUME NEW T \in SUBSET S, NEW y \in T, Cardinality(T) = n + 1
               PROVE  g[T] = f[y] + g[T \ {y}]
    OBVIOUS
  <2> DEFINE c == Pick(T)
  <2>0. n \in Nat OBVIOUS
  <2>1. /\ c \in T /\ \A z \in T : Cardinality(T \ {z}) = n
    <3>1. /\ c \in T /\ Cardinality(T) \in Nat
          /\ \A z \in T : /\ Cardinality(T \ {z}) \in Nat
                          /\ Cardinality(T) = Cardinality(T \ {z}) + 1
      BY <1>0, PickSmaller
    <3> QED BY <2>0, <3>1
  <2>2. g[T] = f[c] + g[T \ {c}] BY <1>g, <2>1
  <2>3. CASE c = y BY <2>2, <2>3
  <2>4. CASE c # y
    <3>1. g[T \ {c}] = f[y] + g[(T \ {c}) \ {y}]
      <4>1. T \ {c} \in SUBSET S /\ y \in T \ {c} BY <2>4
      <4> QED BY <2>1, <4>1
    <3>2. g[T \ {y}] = f[c] + g[(T \ {y}) \ {c}]
      <4>1. T \ {y} \in SUBSET S /\ c \in T \ {y} BY <2>1, <2>4
      <4> QED BY <2>1, <4>1
    <3>3. (T \ {c}) \ {y} = (T \ {y}) \ {c} OBVIOUS
    <3>4. f[c] \in Int /\ f[y] \in Int /\ g[(T \ {y}) \ {c}] \in Int BY <1>g, <2>1
    <3> HIDE DEF N, c
    <3>5. g[T \ {c}] = f[y] + g[(T \ {y}) \ {c}] BY <3>1, <3>3
    <3> QED BY <2>2, <3>2, <3>4, <3>5
  <2> QED BY <2>3, <2>4
<1>3. N = Nat
  <2> HIDE DEF N
  <2>1. N \in SUBSET Nat BY DEF N
  <2> QED BY <1>1, <1>2, <2>1, NatSetInduction
<1> QED BY <1>0, <1>3

LEMMA SumOfNone ==
  ASSUME NEW f
  PROVE  SumFunctionOnSet(f, {}) = 0
<1>1. PICK g : SetSums(g, f, {}) /\ SumFunctionOnSet(f, {}) = g[{}]
  BY FS_EmptySet, SumIsSetSum
<1> QED BY <1>1 DEF SetSums, AddsUp

LEMMA SumType ==
  ASSUME NEW S, IsFiniteSet(S), NEW f, \A x \in S : f[x] \in Int
  PROVE  SumFunctionOnSet(f, S) \in Int
<1>1. PICK g : SetSums(g, f, S) /\ SumFunctionOnSet(f, S) = g[S] BY SumIsSetSum
<1> QED BY <1>1 DEF SetSums

\* The sum looks at nothing but the values summed.
LEMMA SumAgree ==
  ASSUME NEW S, IsFiniteSet(S), NEW f, NEW h, \A x \in S : f[x] \in Int /\ f[x] = h[x]
  PROVE  SumFunctionOnSet(f, S) = SumFunctionOnSet(h, S)
<1>1. PICK g1 : SetSums(g1, f, S) /\ SumFunctionOnSet(f, S) = g1[S] BY SumIsSetSum
<1>2. \A x \in S : h[x] \in Int OBVIOUS
<1>3. PICK g2 : SetSums(g2, h, S) /\ SumFunctionOnSet(h, S) = g2[S] BY <1>2, SumIsSetSum
<1>4. AddsUp(g1, f, S) /\ AddsUp(g2, h, S) BY <1>1, <1>3 DEF SetSums
<1>5. g1[S] = g2[S]
  <2>1. S \in SUBSET S OBVIOUS
  <2> QED BY <1>4, <2>1, SetSumsAgree
<1> QED BY <1>1, <1>3, <1>5

\* The sum over a set is any one of its elements and the sum over the others.
LEMMA SumRemove ==
  ASSUME NEW S, IsFiniteSet(S), NEW f, \A y \in S : f[y] \in Int, NEW x \in S
  PROVE  SumFunctionOnSet(f, S) = f[x] + SumFunctionOnSet(f, S \ {x})
<1>1. PICK g : SetSums(g, f, S) /\ SumFunctionOnSet(f, S) = g[S] BY SumIsSetSum
<1>2. IsFiniteSet(S \ {x}) BY FS_Subset
<1>3. PICK h : SetSums(h, f, S \ {x}) /\ SumFunctionOnSet(f, S \ {x}) = h[S \ {x}]
  BY <1>2, SumIsSetSum
<1>4. AddsUp(g, f, S) /\ AddsUp(h, f, S \ {x}) BY <1>1, <1>3 DEF SetSums
<1>5. g[S \ {x}] = h[S \ {x}]
  <2>1. S \ {x} \in SUBSET S /\ S \ {x} \in SUBSET (S \ {x}) OBVIOUS
  <2> QED BY <1>2, <1>4, <2>1, SetSumsAgree
<1>6. g[S] = f[x] + g[S \ {x}]
  <2>1. SetSums(g, f, S) BY <1>1
  <2> QED BY <2>1, SetSumsRemove
<1> QED BY <1>1, <1>3, <1>5, <1>6

\* One more element adds its value.
LEMMA SumAdd ==
  ASSUME NEW S, IsFiniteSet(S), NEW x, x \notin S, NEW f, \A y \in S \cup {x} : f[y] \in Int
  PROVE  SumFunctionOnSet(f, S \cup {x}) = f[x] + SumFunctionOnSet(f, S)
<1>1. IsFiniteSet(S \cup {x}) BY FS_AddElement
<1>2. (S \cup {x}) \ {x} = S OBVIOUS
<1> QED BY <1>1, <1>2, SumRemove

\* Zeros add up to zero.
LEMMA SumOfZeros ==
  ASSUME NEW S, IsFiniteSet(S), NEW f, \A x \in S : f[x] = 0
  PROVE  SumFunctionOnSet(f, S) = 0
<1> DEFINE N == {n \in Nat : \A T \in SUBSET S : Cardinality(T) = n => SumFunctionOnSet(f, T) = 0}
<1>0. \A T \in SUBSET S : IsFiniteSet(T) /\ Cardinality(T) \in Nat
  BY FS_Subset, FS_CardinalityType
<1>1. 0 \in N
  <2>1. \A T \in SUBSET S : Cardinality(T) = 0 => T = {} BY <1>0, FS_EmptySet
  <2> QED BY <2>1, SumOfNone
<1>2. ASSUME NEW n \in N PROVE n + 1 \in N
  <2> SUFFICES ASSUME NEW T \in SUBSET S, Cardinality(T) = n + 1
               PROVE  SumFunctionOnSet(f, T) = 0
    OBVIOUS
  <2>0. n \in Nat OBVIOUS
  <2>1. T # {}
    <3>1. Cardinality({}) = 0 BY FS_EmptySet
    <3> QED BY <2>0, <3>1
  <2>2. PICK x \in T : TRUE BY <2>1
  <2>3. Cardinality(T \ {x}) = n
    <3>1. IsFiniteSet(T) BY <1>0
    <3>2. Cardinality(T \ {x}) \in Nat /\ Cardinality(T) = Cardinality(T \ {x}) + 1
      BY <2>1, <3>1, PickSmaller
    <3> QED BY <2>0, <3>2
  <2>4. SumFunctionOnSet(f, T \ {x}) = 0 BY <2>3
  <2>5. IsFiniteSet(T) /\ \A y \in T : f[y] \in Int BY <1>0
  <2>6. SumFunctionOnSet(f, T) = f[x] + SumFunctionOnSet(f, T \ {x}) BY <2>5, SumRemove
  <2>7. f[x] = 0 OBVIOUS
  <2> QED BY <2>4, <2>6, <2>7
<1>3. N = Nat
  <2> HIDE DEF N
  <2>1. N \in SUBSET Nat BY DEF N
  <2> QED BY <1>1, <1>2, <2>1, NatSetInduction
<1> QED BY <1>0, <1>3

\* One value that changes changes the sum by the same amount.
LEMMA SumChange ==
  ASSUME NEW S, IsFiniteSet(S), NEW f, NEW h, NEW x \in S, NEW d \in Int,
         \A y \in S : f[y] \in Int, h[x] = f[x] + d, \A y \in S \ {x} : h[y] = f[y]
  PROVE  SumFunctionOnSet(h, S) = SumFunctionOnSet(f, S) + d
<1>1. IsFiniteSet(S \ {x}) BY FS_Subset
<1>2. \A y \in S : h[y] \in Int OBVIOUS
<1>3. SumFunctionOnSet(f, S) = f[x] + SumFunctionOnSet(f, S \ {x}) BY SumRemove
<1>4. SumFunctionOnSet(h, S) = h[x] + SumFunctionOnSet(h, S \ {x}) BY <1>2, SumRemove
<1>5. SumFunctionOnSet(h, S \ {x}) = SumFunctionOnSet(f, S \ {x}) BY <1>1, <1>2, SumAgree
<1>6. SumFunctionOnSet(f, S \ {x}) \in Int BY <1>1, SumType
<1>7. f[x] \in Int OBVIOUS
<1> QED BY <1>3, <1>4, <1>5, <1>6, <1>7

\* The sums over two sets without a common element add up to that over both.
LEMMA SumUnion ==
  ASSUME NEW A, IsFiniteSet(A), NEW B, IsFiniteSet(B), A \cap B = {},
         NEW f, \A y \in A \cup B : f[y] \in Int
  PROVE  SumFunctionOnSet(f, A \cup B) = SumFunctionOnSet(f, A) + SumFunctionOnSet(f, B)
<1> DEFINE Split(T) ==
             SumFunctionOnSet(f, A \cup T) = SumFunctionOnSet(f, A) + SumFunctionOnSet(f, T)
           N == {n \in Nat : \A T \in SUBSET B : Cardinality(T) = n => Split(T)}
<1>0. \A T \in SUBSET B : IsFiniteSet(T) /\ Cardinality(T) \in Nat
  BY FS_Subset, FS_CardinalityType
<1>s. SumFunctionOnSet(f, A) \in Int BY SumType
<1>1. 0 \in N
  <2>1. \A T \in SUBSET B : Cardinality(T) = 0 => T = {} BY <1>0, FS_EmptySet
  <2>2. A \cup {} = A OBVIOUS
  <2>3. Split({}) BY <1>s, <2>2, SumOfNone
  <2> HIDE DEF Split
  <2> QED BY <2>1, <2>3
<1>2. ASSUME NEW n \in N PROVE n + 1 \in N
  <2> SUFFICES ASSUME NEW T \in SUBSET B, Cardinality(T) = n + 1 PROVE Split(T)
    OBVIOUS
  <2>0. n \in Nat OBVIOUS
  <2>1. T # {}
    <3>1. Cardinality({}) = 0 BY FS_EmptySet
    <3> QED BY <2>0, <3>1
  <2>2. PICK x \in T : TRUE BY <2>1
  <2> DEFINE R == T \ {x}
  <2>3. Cardinality(R) = n
    <3>1. IsFiniteSet(T) BY <1>0
    <3>2. Cardinality(T \ {x}) \in Nat /\ Cardinality(T) = Cardinality(T \ {x}) + 1
      BY <2>1, <3>1, PickSmaller
    <3> QED BY <2>0, <3>2
  <2>4. Split(R)
    <3>1. R \in SUBSET B OBVIOUS
    <3> QED BY <2>3, <3>1
  <2>5. IsFiniteSet(R) /\ IsFiniteSet(A \cup R) /\ x \notin R /\ x \notin A \cup R
    BY <1>0, FS_Union
  <2>6. R \cup {x} = T /\ (A \cup R) \cup {x} = A \cup T OBVIOUS
  <2>7. SumFunctionOnSet(f, T) = f[x] + SumFunctionOnSet(f, R)
    <3>1. \A y \in R \cup {x} : f[y] \in Int OBVIOUS
    <3> HIDE DEF R
    <3> QED BY <2>5, <2>6, <3>1, SumAdd
  <2>8. SumFunctionOnSet(f, A \cup T) = f[x] + SumFunctionOnSet(f, A \cup R)
    <3> DEFINE Q == A \cup R
    <3>1. /\ \A y \in Q \cup {x} : f[y] \in Int
          /\ IsFiniteSet(Q) /\ x \notin Q /\ Q \cup {x} = A \cup T
      BY <2>5, <2>6
    <3>2. SumFunctionOnSet(f, Q \cup {x}) = f[x] + SumFunctionOnSet(f, Q)
      <4> HIDE DEF Q
      <4> QED BY <3>1, SumAdd
    <3> QED BY <3>1, <3>2
  <2>9. f[x] \in Int /\ SumFunctionOnSet(f, R) \in Int
    <3>1. \A y \in R : f[y] \in Int OBVIOUS
    <3> QED BY <2>5, <3>1, SumType
  <2> HIDE DEF R
  <2> QED BY <1>s, <2>4, <2>7, <2>8, <2>9
<1>3. N = Nat
  <2> HIDE DEF N
  <2>1. N \in SUBSET Nat BY DEF N
  <2> QED BY <1>1, <1>2, <2>1, NatSetInduction
<1> QED BY <1>0, <1>3

\* Natural numbers add up to a natural number.
LEMMA SumNat ==
  ASSUME NEW S, IsFiniteSet(S), NEW f, \A x \in S : f[x] \in Nat
  PROVE  SumFunctionOnSet(f, S) \in Nat
<1> DEFINE N == {n \in Nat : \A T \in SUBSET S :
                   Cardinality(T) = n => SumFunctionOnSet(f, T) \in Nat}
<1>0. \A T \in SUBSET S : IsFiniteSet(T) /\ Cardinality(T) \in Nat
  BY FS_Subset, FS_CardinalityType
<1>1. 0 \in N
  <2>1. \A T \in SUBSET S : Cardinality(T) = 0 => T = {} BY <1>0, FS_EmptySet
  <2> QED BY <2>1, SumOfNone
<1>2. ASSUME NEW n \in N PROVE n + 1 \in N
  <2> SUFFICES ASSUME NEW T \in SUBSET S, Cardinality(T) = n + 1
               PROVE  SumFunctionOnSet(f, T) \in Nat
    OBVIOUS
  <2>0. n \in Nat OBVIOUS
  <2>1. T # {}
    <3>1. Cardinality({}) = 0 BY FS_EmptySet
    <3> QED BY <2>0, <3>1
  <2>2. PICK x \in T : TRUE BY <2>1
  <2>3. Cardinality(T \ {x}) = n
    <3>1. IsFiniteSet(T) BY <1>0
    <3>2. Cardinality(T \ {x}) \in Nat /\ Cardinality(T) = Cardinality(T \ {x}) + 1
      BY <2>1, <3>1, PickSmaller
    <3> QED BY <2>0, <3>2
  <2>4. SumFunctionOnSet(f, T \ {x}) \in Nat BY <2>3
  <2>5. IsFiniteSet(T) /\ \A y \in T : f[y] \in Int BY <1>0
  <2>6. SumFunctionOnSet(f, T) = f[x] + SumFunctionOnSet(f, T \ {x}) BY <2>5, SumRemove
  <2>7. f[x] \in Nat OBVIOUS
  <2> QED BY <2>4, <2>6, <2>7
<1>3. N = Nat
  <2> HIDE DEF N
  <2>1. N \in SUBSET Nat BY DEF N
  <2> QED BY <1>1, <1>2, <2>1, NatSetInduction
<1> QED BY <1>0, <1>3

\* Some of them add up to no more than all.
LEMMA SumSubset ==
  ASSUME NEW S, IsFiniteSet(S), NEW f, \A x \in S : f[x] \in Nat, NEW T, T \subseteq S
  PROVE  SumFunctionOnSet(f, T) <= SumFunctionOnSet(f, S)
<1>1. IsFiniteSet(T) /\ IsFiniteSet(S \ T) /\ T \cap (S \ T) = {} /\ T \cup (S \ T) = S
  BY FS_Subset
<1>2. /\ \A x \in T \cup (S \ T) : f[x] \in Int
      /\ \A x \in T : f[x] \in Nat
      /\ \A x \in S \ T : f[x] \in Nat
  OBVIOUS
<1>3. SumFunctionOnSet(f, S) = SumFunctionOnSet(f, T) + SumFunctionOnSet(f, S \ T)
  <2> DEFINE U == S \ T
  <2>1. /\ IsFiniteSet(T) /\ IsFiniteSet(U) /\ T \cap U = {} /\ T \cup U = S
        /\ \A x \in T \cup U : f[x] \in Int
    BY <1>1, <1>2
  <2> HIDE DEF U
  <2>2. SumFunctionOnSet(f, T \cup U) = SumFunctionOnSet(f, T) + SumFunctionOnSet(f, U)
    BY <2>1, SumUnion
  <2> QED BY <2>1, <2>2 DEF U
<1>4. SumFunctionOnSet(f, T) \in Nat /\ SumFunctionOnSet(f, S \ T) \in Nat
  BY <1>1, <1>2, SumNat
<1> QED BY <1>3, <1>4
-----------------------------------------------------------------------------
(* The sum of a sequence.                                                   *)

LEMMA SumOfSeq ==
  ASSUME NEW s \in Seq(Nat)
  PROVE  /\ SumFunction(s) = SumFunctionOnSet(s, 1..Len(s)) /\ IsFiniteSet(1..Len(s))
         /\ \A i \in 1..Len(s) : s[i] \in Nat
         /\ SumFunction(s) \in Nat
<1>1. DOMAIN s = 1..Len(s) /\ Len(s) \in Nat /\ \A i \in 1..Len(s) : s[i] \in Nat OBVIOUS
<1>2. IsFiniteSet(1..Len(s)) BY <1>1, FS_Interval
<1>3. SumFunction(s) = SumFunctionOnSet(s, DOMAIN s)
  BY DEF SumFunction, SumFunctionOnSet, FoldFunction
<1>4. SumFunctionOnSet(s, 1..Len(s)) \in Nat BY <1>1, <1>2, SumNat
<1> QED BY <1>1, <1>2, <1>3, <1>4

LEMMA SumOfEmpty == SumFunction(<< >>) = 0
<1>1. << >> \in Seq(Nat) /\ 1..Len(<< >>) = {} OBVIOUS
<1> QED BY <1>1, SumOfSeq, SumOfNone

\* One more element adds its value.
LEMMA SumAppend ==
  ASSUME NEW s \in Seq(Nat), NEW n \in Nat
  PROVE  SumFunction(Append(s, n)) = SumFunction(s) + n
<1> DEFINE t == Append(s, n)
           k == Len(s) + 1
<1>1. /\ t \in Seq(Nat) /\ Len(s) \in Nat /\ Len(t) = k /\ t[k] = n
      /\ \A i \in 1..Len(s) : t[i] = s[i]
  OBVIOUS
<1>2. 1..k = (1..Len(s)) \cup {k} /\ k \notin 1..Len(s) /\ k \in Nat BY <1>1
<1> HIDE DEF t, k
<1>3. /\ SumFunction(t) = SumFunctionOnSet(t, 1..k) /\ \A i \in 1..k : t[i] \in Nat
  BY <1>1, SumOfSeq
<1>4. /\ SumFunction(s) = SumFunctionOnSet(s, 1..Len(s)) /\ SumFunction(s) \in Nat
      /\ IsFiniteSet(1..Len(s)) /\ \A i \in 1..Len(s) : s[i] \in Nat
  BY SumOfSeq
<1>5. SumFunctionOnSet(t, 1..k) = t[k] + SumFunctionOnSet(t, 1..Len(s))
  <2>1. \A i \in (1..Len(s)) \cup {k} : t[i] \in Int BY <1>2, <1>3
  <2>2. SumFunctionOnSet(t, (1..Len(s)) \cup {k}) = t[k] + SumFunctionOnSet(t, 1..Len(s))
    BY <1>2, <1>4, <2>1, SumAdd
  <2> QED BY <1>2, <2>2
<1>6. SumFunctionOnSet(t, 1..Len(s)) = SumFunctionOnSet(s, 1..Len(s))
  <2>1. \A i \in 1..Len(s) : s[i] \in Int /\ s[i] = t[i] BY <1>1, <1>4
  <2> QED BY <1>4, <2>1, SumAgree
<1>7. SumFunction(t) = SumFunction(s) + n BY <1>1, <1>3, <1>4, <1>5, <1>6
<1> QED BY <1>7 DEF t

-----------------------------------------------------------------------------
(* What the ledger sums compute: the empty sum, and the sum after a row is *)
(* appended.                                                               *)

\* g is the running total of s up to position n.
Sums(g, s, n) ==
  /\ g \in [0..n -> Int]
  /\ g[0] = 0
  /\ \A i \in 1..n : g[i] = g[i-1] + s[i]

\* Running totals exist for every sequence.
LEMMA SumsExist ==
  ASSUME NEW s \in Seq(Int)
  PROVE  \E g : Sums(g, s, Len(s))
<1> DEFINE S == {n \in Nat : n <= Len(s) => \E g : Sums(g, s, n)}
<1>1. 0 \in S
  <2>1. Sums([i \in 0..0 |-> 0], s, 0) BY DEF Sums
  <2> QED BY <2>1
<1>2. ASSUME NEW n \in S PROVE n + 1 \in S
  <2>1. n \in Nat /\ n + 1 \in Nat OBVIOUS
  <2>2. SUFFICES ASSUME n + 1 <= Len(s) PROVE \E g : Sums(g, s, n + 1)
    BY <2>1
  <2>3. PICK g : Sums(g, s, n)
    BY <2>1, <2>2
  <2>4. s[n + 1] \in Int BY <2>1, <2>2
  <2>5. g[n] \in Int BY <2>1, <2>3 DEF Sums
  <2> DEFINE h == [i \in 0..(n+1) |-> IF i = n + 1 THEN g[n] + s[n + 1] ELSE g[i]]
  <2>6. h \in [0..(n+1) -> Int]
    BY <2>1, <2>3, <2>4, <2>5 DEF Sums
  <2>7. h[0] = 0 BY <2>1, <2>3 DEF Sums
  <2>8. ASSUME NEW i \in 1..(n+1) PROVE h[i] = h[i-1] + s[i]
    <3>1. i \in Nat /\ i \in 0..(n+1) /\ i-1 \in 0..(n+1) /\ i - 1 # n + 1
      BY <2>1
    <3>2. h[i-1] = g[i-1] BY <3>1
    <3>3. CASE i = n + 1 BY <2>1, <3>1, <3>2, <3>3
    <3>4. CASE i # n + 1
      <4>1. i \in 1..n BY <2>1, <3>1, <3>4
      <4>2. h[i] = g[i] BY <3>1, <3>4
      <4> QED BY <2>3, <3>2, <4>1, <4>2 DEF Sums
    <3> QED BY <3>3, <3>4
  <2>9. Sums(h, s, n + 1) BY <2>6, <2>7, <2>8 DEF Sums
  <2> QED BY <2>9
<1>3. S = Nat
  <2> HIDE DEF S
  <2>1. S \in SUBSET Nat BY DEF S
  <2> QED BY <2>1, <1>1, <1>2, NatSetInduction
<1>4. Len(s) \in Nat OBVIOUS
<1>5. QED BY <1>3, <1>4

\* Two running totals agree wherever the sequences they sum agree.
LEMMA SumsUnique ==
  ASSUME NEW s, NEW t, NEW m \in Nat, NEW n \in Nat, m <= n,
         NEW f, NEW g, Sums(f, s, n), Sums(g, t, m),
         \A i \in 1..m : s[i] = t[i]
  PROVE  f[m] = g[m]
<1> DEFINE S == {i \in Nat : i <= m => f[i] = g[i]}
<1>1. 0 \in S BY DEF Sums
<1>2. ASSUME NEW i \in S PROVE i + 1 \in S
  <2>1. SUFFICES ASSUME i + 1 <= m PROVE f[i + 1] = g[i + 1]
    OBVIOUS
  <2>2. i \in Nat /\ i + 1 \in 1..m /\ i + 1 \in 1..n /\ (i + 1) - 1 = i
    BY <2>1
  <2>3. f[i] = g[i] BY <2>1, <2>2
  <2>4. f[i + 1] = f[i] + s[i + 1] BY <2>2 DEF Sums
  <2>5. g[i + 1] = g[i] + t[i + 1] BY <2>2 DEF Sums
  <2> QED BY <2>2, <2>3, <2>4, <2>5
<1>3. S = Nat
  <2> HIDE DEF S
  <2>1. S \in SUBSET Nat BY DEF S
  <2> QED BY <2>1, <1>1, <1>2, NatSetInduction
<1>4. QED BY <1>3

\* Partial is the running total of its sequence.
LEMMA PartialSums ==
  ASSUME NEW s \in Seq(Int)
  PROVE  Sums(Partial(s), s, Len(s))
<1> DEFINE step(f) == [i \in 0..Len(s) |-> IF i = 0 THEN 0 ELSE f[i-1] + s[i]]
<1>1. PICK g : Sums(g, s, Len(s)) BY SumsExist
<1>2. g = step(g)
  <2>1. Len(s) \in Nat OBVIOUS
  <2>2. \A i \in 0..Len(s) : g[i] = step(g)[i]
    BY <1>1, <2>1 DEF Sums
  <2>3. g \in [0..Len(s) -> Int] BY <1>1 DEF Sums
  <2> QED BY <2>2, <2>3
<1>3. Partial(s) = CHOOSE f : f = step(f)
  BY DEF Partial
<1>4. Partial(s) = step(Partial(s))
  <2> HIDE DEF step
  <2> QED BY <1>2, <1>3
<1> DEFINE p == Partial(s)
<1>5. p = [i \in 0..Len(s) |-> IF i = 0 THEN 0 ELSE p[i-1] + s[i]]
  BY <1>4
<1>6. p[0] = 0 /\ \A i \in 1..Len(s) : p[i] = p[i-1] + s[i]
  <2> HIDE DEF p
  <2>1. Len(s) \in Nat OBVIOUS
  <2> QED BY <1>5, <2>1
<1>7. \A i \in 0..Len(s) : p[i] \in Int
  <2> HIDE DEF p
  <2> DEFINE S == {i \in Nat : i <= Len(s) => p[i] \in Int}
  <2>1. 0 \in S BY <1>6
  <2>2. ASSUME NEW i \in S PROVE i + 1 \in S
    <3>1. SUFFICES ASSUME i + 1 <= Len(s) PROVE p[i + 1] \in Int
      OBVIOUS
    <3>2. i + 1 \in 1..Len(s) /\ (i + 1) - 1 = i /\ p[i] \in Int BY <3>1
    <3>3. s[i + 1] \in Int BY <3>2
    <3> QED BY <1>6, <3>2, <3>3
  <2>3. S = Nat
    <3> HIDE DEF S
    <3>1. S \in SUBSET Nat BY DEF S
    <3> QED BY <3>1, <2>1, <2>2, NatSetInduction
  <2> QED BY <2>3
<1>8. p \in [0..Len(s) -> Int]
  <2> HIDE DEF p
  <2> QED BY <1>5, <1>7
<1>9. QED BY <1>6, <1>8 DEF Sums

-----------------------------------------------------------------------------
\* The empty sum.
LEMMA TotalEmpty == Total(<< >>) = 0
<1>1. << >> \in Seq(Int) /\ Len(<< >>) = 0 OBVIOUS
<1>2. Sums(Partial(<< >>), << >>, 0) BY <1>1, PartialSums
<1> QED BY <1>1, <1>2 DEF Total, Sums

\* A sum is an integer.
LEMMA TotalType ==
  ASSUME NEW s \in Seq(Int)
  PROVE  Total(s) \in Int
BY PartialSums DEF Total, Sums

\* Appending a number adds it.
LEMMA TotalAppend ==
  ASSUME NEW s \in Seq(Int), NEW x \in Int
  PROVE  Total(Append(s, x)) = Total(s) + x
<1> DEFINE t == Append(s, x)
           n == Len(s)
<1>1. t \in Seq(Int) /\ n \in Nat /\ Len(t) = n + 1 /\ t[n + 1] = x
  OBVIOUS
<1>2. \A i \in 1..n : t[i] = s[i] OBVIOUS
<1>3. Sums(Partial(s), s, n) BY PartialSums
<1>4. Sums(Partial(t), t, n + 1) BY <1>1, PartialSums
<1>5. Partial(t)[n] = Partial(s)[n]
  <2>1. n + 1 \in Nat /\ n <= n + 1 BY <1>1
  <2> DEFINE f == Partial(t)
             g == Partial(s)
  <2>2. Sums(f, t, n + 1) /\ Sums(g, s, n) BY <1>3, <1>4
  <2> HIDE DEF f, g, t, n
  <2>3. f[n] = g[n] BY <1>1, <1>2, <2>1, <2>2, SumsUnique
  <2> QED BY <2>3 DEF f, g
<1>6. Partial(t)[n + 1] = Partial(t)[n] + t[n + 1]
  BY <1>1, <1>4 DEF Sums
<1> QED BY <1>1, <1>5, <1>6 DEF Total

\* Two sequences that differ in one place have sums that differ by as much.
LEMMA TotalDiffers ==
  ASSUME NEW s \in Seq(Int), NEW t \in Seq(Int), Len(s) = Len(t), NEW k \in 1..Len(s),
         \A i \in (1..Len(s)) \ {k} : s[i] = t[i]
  PROVE  Total(s) = Total(t) + (s[k] - t[k])
<1> DEFINE f == Partial(s)
           g == Partial(t)
           n == Len(s)
           S == {i \in Nat : i <= n => f[i] = g[i] + (IF k <= i THEN s[k] - t[k] ELSE 0)}
<1>1. n \in Nat /\ Sums(f, s, n) /\ Sums(g, t, n) BY PartialSums
<1>2. s[k] \in Int /\ t[k] \in Int /\ k \in 1..n /\ \A i \in 1..n : s[i] \in Int /\ t[i] \in Int
  OBVIOUS
<1> HIDE DEF f, g
<1>3. 0 \in S BY <1>1, <1>2 DEF Sums
<1>4. ASSUME NEW i \in S PROVE i + 1 \in S
  <2>1. SUFFICES ASSUME i + 1 <= n
                 PROVE  f[i + 1] = g[i + 1] + (IF k <= i + 1 THEN s[k] - t[k] ELSE 0)
    OBVIOUS
  <2>2. i \in Nat /\ i \in 0..n /\ i + 1 \in 1..n /\ (i + 1) - 1 = i BY <1>1, <2>1
  <2>3. f[i] = g[i] + (IF k <= i THEN s[k] - t[k] ELSE 0) /\ g[i] \in Int
    <3>1. i <= n BY <1>1, <2>1, <2>2
    <3>2. g[i] \in Int BY <1>1, <2>2 DEF Sums
    <3> QED BY <3>1, <3>2
  <2>4. f[i + 1] = f[i] + s[i + 1] /\ g[i + 1] = g[i] + t[i + 1] BY <1>1, <2>2 DEF Sums
  <2>5. s[i + 1] \in Int /\ t[i + 1] \in Int BY <1>2, <2>2
  <2>6. CASE i + 1 = k
    <3>1. ~(k <= i) /\ k <= i + 1 BY <1>2, <2>2, <2>6
    <3>2. f[i] = g[i] BY <2>3, <3>1
    <3>3. f[i + 1] = f[i] + s[k] /\ g[i + 1] = g[i] + t[k] BY <2>4, <2>6
    <3> QED BY <1>2, <2>3, <3>1, <3>2, <3>3
  <2>7. CASE i + 1 # k
    <3>1. s[i + 1] = t[i + 1] BY <2>2, <2>7
    <3>2. k <= i <=> k <= i + 1 BY <1>2, <2>2, <2>7
    <3> DEFINE d == IF k <= i THEN s[k] - t[k] ELSE 0
    <3>3. d \in Int /\ f[i] = g[i] + d BY <1>2, <2>3
    <3>4. d = (IF k <= i + 1 THEN s[k] - t[k] ELSE 0) BY <3>2
    <3> HIDE DEF d
    <3>5. f[i + 1] = f[i] + t[i + 1] /\ g[i + 1] = g[i] + t[i + 1] BY <2>4, <3>1
    <3>6. d \in Int /\ g[i] \in Int /\ t[i + 1] \in Int BY <2>3, <2>5, <3>3
    <3>a. \A a, b, x \in Int : (a + b) + x = (a + x) + b OBVIOUS
    <3>b. (g[i] + d) + t[i + 1] = (g[i] + t[i + 1]) + d BY <3>6, <3>a
    <3>7. f[i + 1] = g[i + 1] + d BY <3>3, <3>5, <3>b
    <3> QED BY <3>4, <3>7
  <2> QED BY <2>6, <2>7
<1>5. S = Nat
  <2> HIDE DEF S
  <2>1. S \in SUBSET Nat BY DEF S
  <2> QED BY <1>3, <1>4, <2>1, NatSetInduction
<1>6. f[n] = g[n] + (s[k] - t[k]) BY <1>1, <1>2, <1>5
<1> QED BY <1>6 DEF Total, f, g

\* Zeros add up to zero.
LEMMA TotalOfZeros ==
  ASSUME NEW s \in Seq(Int), \A i \in 1..Len(s) : s[i] = 0
  PROVE  Total(s) = 0
<1> DEFINE n == Len(s)
           g == [i \in 0..n |-> 0]
<1>1. n \in Nat /\ Sums(Partial(s), s, n) BY PartialSums
<1>2. Sums(g, s, n) BY <1>1 DEF Sums
<1>3. Partial(s)[n] = g[n]
  <2> DEFINE f == Partial(s)
  <2>1. Sums(f, s, n) /\ n <= n BY <1>1
  <2> HIDE DEF f, g, n
  <2>2. f[n] = g[n] BY <1>1, <1>2, <2>1, SumsUnique
  <2> QED BY <2>2 DEF f
<1> QED BY <1>1, <1>3 DEF Total

\* The amounts of the rows in P, at their places in the ledger l.
Sifted(l, P) == [i \in 1..Len(l) |-> IF l[i] \in P THEN l[i].amount ELSE 0]

LEMMA SiftedType ==
  ASSUME NEW R, NEW l \in Seq(R), \A r \in R : r.amount \in Int, NEW P
  PROVE  /\ Sifted(l, P) \in Seq(Int) /\ Len(Sifted(l, P)) = Len(l)
         /\ \A i \in 1..Len(l) : Sifted(l, P)[i] = IF l[i] \in P THEN l[i].amount ELSE 0
<1>1. Len(l) \in Nat /\ \A i \in 1..Len(l) : l[i] \in R OBVIOUS
<1> QED BY <1>1 DEF Sifted

\* One more row adds its amount to the sum, if it is in P.
LEMMA SiftedAppend ==
  ASSUME NEW R, NEW l \in Seq(R), \A r \in R : r.amount \in Int, NEW P, NEW row \in R
  PROVE  /\ Total(Sifted(l, P)) \in Int
         /\ Total(Sifted(Append(l, row), P))
              = Total(Sifted(l, P)) + (IF row \in P THEN row.amount ELSE 0)
<1> DEFINE m == Append(l, row)
           x == IF row \in P THEN row.amount ELSE 0
           s == Sifted(l, P)
           t == Sifted(m, P)
<1>1. /\ m \in Seq(R) /\ Len(l) \in Nat /\ Len(m) = Len(l) + 1 /\ m[Len(l) + 1] = row
      /\ \A i \in 1..Len(l) : m[i] = l[i]
  OBVIOUS
<1>2. x \in Int OBVIOUS
<1>3. /\ s \in Seq(Int) /\ Len(s) = Len(l)
      /\ \A i \in 1..Len(l) : s[i] = IF l[i] \in P THEN l[i].amount ELSE 0
  BY SiftedType
<1>4. /\ t \in Seq(Int) /\ Len(t) = Len(m)
      /\ \A i \in 1..Len(m) : t[i] = IF m[i] \in P THEN m[i].amount ELSE 0
  <2> HIDE DEF m
  <2> QED BY <1>1, SiftedType
<1>5. Append(s, x) \in Seq(Int) /\ Len(Append(s, x)) = Len(l) + 1 BY <1>2, <1>3
<1>6. ASSUME NEW i \in 1..(Len(l) + 1) PROVE t[i] = Append(s, x)[i]
  <2> HIDE DEF s, t, m
  <2>1. CASE i \in 1..Len(l)
    <3>1. t[i] = s[i] BY <1>1, <1>3, <1>4, <2>1
    <3> QED BY <1>2, <1>3, <2>1, <3>1
  <2>2. CASE i = Len(l) + 1
    <3>1. t[i] = x BY <1>1, <1>4, <2>2
    <3> QED BY <1>2, <1>3, <2>2, <3>1
  <2>3. i \in 1..Len(l) \/ i = Len(l) + 1 BY <1>1
  <2> QED BY <2>1, <2>2, <2>3
<1> HIDE DEF s, t, x, m
<1>7. t = Append(s, x) BY <1>1, <1>4, <1>5, <1>6, SeqEqual
<1>8. Total(t) = Total(s) + x BY <1>2, <1>3, <1>7, TotalAppend
<1>9. Total(s) \in Int BY <1>3, TotalType
<1> QED BY <1>8, <1>9 DEF s, t, x, m

-----------------------------------------------------------------------------
(* A ledger that grows.                                                    *)

\* l grew by one row, which is r.
Grown(l, m, r) ==
  /\ Len(l) \in Nat /\ DOMAIN l = 1..Len(l) /\ DOMAIN m = 1..(Len(l) + 1)
  /\ \A i \in DOMAIN l : m[i] = l[i]
  /\ m[Len(l) + 1] = r

LEMMA AppendGrows ==
  ASSUME NEW R, NEW l \in Seq(R), NEW r \in R
  PROVE  Append(l, r) \in Seq(R) /\ Grown(l, Append(l, r), r)
<1>1. /\ Append(l, r) \in Seq(R) /\ Len(l) \in Nat /\ Len(Append(l, r)) = Len(l) + 1
      /\ \A i \in 1..Len(l) : Append(l, r)[i] = l[i]
      /\ Append(l, r)[Len(l) + 1] = r
  OBVIOUS
<1>2. DOMAIN l = 1..Len(l) /\ DOMAIN Append(l, r) = 1..(Len(l) + 1) BY <1>1
<1> QED BY <1>1, <1>2 DEF Grown

-----------------------------------------------------------------------------
(* Clamped and idempotent charges.                                         *)

\* A clamped charge never exceeds the request, and one that takes anything at
\* all leaves the wallet at or above the floor.
LEMMA ClampBounds ==
  ASSUME NEW bal \in Int, NEW amount \in Nat, NEW max \in Nat
  PROVE  /\ clampCharge(bal, amount, max) \in 0..amount
         /\ clampCharge(bal, amount, max) > 0 /\ max > 0
              => bal - clampCharge(bal, amount, max) >= -max
BY DEF clampCharge, Greater, Lesser

\* The row of an unclaimed charge that the floor leaves room for.
ChargeRow(req) ==
  Row(req.ws, req.user, "charge", -clampCharge(balance[req.ws], req.amount, req.max),
      req.ref, req.key)

\* An idempotent charge either moves nothing, because its key is taken or the
\* floor leaves no room, or posts its clamped amount under a fresh key.
LEMMA IdemChargeCases ==
  ASSUME NEW req, req.kind = "charge", walletIdemOnce(req)
  PROVE  \/ /\ UNCHANGED walletVars
            /\ Claimed(req.key) \/ clampCharge(balance[req.ws], req.amount, req.max) = 0
         \/ /\ ~Claimed(req.key)
            /\ clampCharge(balance[req.ws], req.amount, req.max) # 0
            /\ Post(ChargeRow(req))
<1>1. CASE Claimed(req.key)
  <2>1. IdemOutcome(req).status # "moved" BY <1>1 DEF IdemOutcome, findIdemRow
  <2> QED BY <1>1, <2>1 DEF walletIdemOnce
<1>2. CASE ~Claimed(req.key)
  BY <1>2 DEF walletIdemOnce, IdemOutcome, Movable, ChargeRow
<1> QED BY <1>1, <1>2

-----------------------------------------------------------------------------
(* The ledger sum under one posting.                                       *)

\* Appending a row appends its contribution to a wallet's amounts.
LEMMA LedgerAmountsAppend ==
  ASSUME NEW R, NEW l \in Seq(R), NEW row \in R, NEW w,
         \A r \in R : r.amount \in Int
  PROVE  /\ LedgerAmounts(l, w) \in Seq(Int)
         /\ LedgerAmounts(Append(l, row), w)
              = Append(LedgerAmounts(l, w), IF row.ws = w THEN row.amount ELSE 0)
<1> DEFINE L == LedgerAmounts(l, w)
           x == IF row.ws = w THEN row.amount ELSE 0
           m == Append(l, row)
           M == LedgerAmounts(m, w)
<1>1. Len(l) \in Nat /\ m \in Seq(R) /\ Len(m) = Len(l) + 1
  OBVIOUS
<1>2. x \in Int OBVIOUS
<1>3. \A i \in 1..Len(l) : l[i] \in R OBVIOUS
<1>4. L \in Seq(Int) /\ Len(L) = Len(l)
  BY <1>1, <1>3 DEF LedgerAmounts
<1>5. M \in Seq(Int) /\ Len(M) = Len(l) + 1
  <2>1. \A i \in 1..Len(m) : m[i] \in R BY <1>1
  <2> QED BY <1>1, <2>1 DEF LedgerAmounts
<1>6. Append(L, x) \in Seq(Int) /\ Len(Append(L, x)) = Len(l) + 1
  BY <1>2, <1>4
<1>7. ASSUME NEW i \in 1..(Len(l) + 1) PROVE M[i] = Append(L, x)[i]
  <2>1. CASE i = Len(l) + 1
    <3>1. m[i] = row BY <1>1, <2>1
    <3>2. M[i] = x BY <1>1, <3>1, <2>1 DEF LedgerAmounts
    <3> QED BY <1>2, <1>4, <2>1, <3>2
  <2>2. CASE i # Len(l) + 1
    <3>1. i \in 1..Len(l) /\ i \in 1..Len(m) BY <1>1, <2>2
    <3>2. m[i] = l[i] BY <3>1
    <3>3. M[i] = L[i] BY <1>1, <3>1, <3>2 DEF LedgerAmounts
    <3>4. Append(L, x)[i] = L[i] BY <1>4, <3>1
    <3> QED BY <3>3, <3>4
  <2> QED BY <2>1, <2>2
<1>8. M = Append(L, x)
  <2> HIDE DEF L, x, m, M
  <2> QED BY <1>5, <1>6, <1>7, SeqEqual
<1> QED BY <1>4, <1>8

\* No wallet has a balance without rows, and every posting moves the balance
\* and the sum of the rows by the same amount.
LEMMA InitBalances == WalletInit => BalanceIsLedgerSum
<1> SUFFICES ASSUME WalletInit, NEW w \in Workspaces PROVE balance[w] = LedgerSum(w)
  BY DEF BalanceIsLedgerSum
<1>1. LedgerAmounts(ledger, w) = << >> BY DEF WalletInit, LedgerAmounts
<1> QED BY <1>1, TotalEmpty DEF WalletInit, LedgerSum

LEMMA PostBalances ==
  ASSUME NEW R, \A r \in R : r.amount \in Int, ledger \in Seq(R),
         balance \in [Workspaces -> Int],
         NEW row \in R, row.ws \in Workspaces,
         BalanceIsLedgerSum, Post(row)
  PROVE  BalanceIsLedgerSum'
<1> SUFFICES ASSUME NEW w \in Workspaces PROVE balance'[w] = LedgerSum(w)'
  BY DEF BalanceIsLedgerSum
<1> DEFINE x == IF row.ws = w THEN row.amount ELSE 0
           L == LedgerAmounts(ledger, w)
<1>1. L \in Seq(Int) /\ LedgerAmounts(ledger', w) = Append(L, x)
  BY LedgerAmountsAppend DEF Post
<1>2. Total(Append(L, x)) = Total(L) + x
  <2>1. x \in Int OBVIOUS
  <2> HIDE DEF L, x
  <2> QED BY <1>1, <2>1, TotalAppend
<1>3. LedgerSum(w)' = Total(L) + x BY <1>1, <1>2 DEF LedgerSum
<1>4. balance[w] = Total(L) BY DEF BalanceIsLedgerSum, LedgerSum
<1>5. balance'[w] = balance[w] + x BY DEF Post
<1> QED BY <1>3, <1>4, <1>5

LEMMA StutterBalances ==
  ASSUME BalanceIsLedgerSum, UNCHANGED walletVars
  PROVE  BalanceIsLedgerSum'
BY DEF BalanceIsLedgerSum, LedgerSum, LedgerAmounts, walletVars

-----------------------------------------------------------------------------
(* The rows, and the keys, after one posting.                              *)

\* A posting adds one row at the end and moves one balance.
LEMMA PostIndex ==
  ASSUME NEW R, ledger \in Seq(R), NEW row \in R, Post(row)
  PROVE  /\ Len(ledger) \in Nat
         /\ ledger' \in Seq(R)
         /\ DOMAIN ledger = 1..Len(ledger)
         /\ DOMAIN ledger' = 1..(Len(ledger) + 1)
         /\ ledger'[Len(ledger) + 1] = row
         /\ \A i \in DOMAIN ledger : i \in DOMAIN ledger' /\ ledger'[i] = ledger[i]
<1>1. Len(ledger) \in Nat /\ DOMAIN ledger = 1..Len(ledger) OBVIOUS
<1>2. ledger' \in Seq(R) /\ DOMAIN ledger' = 1..(Len(ledger) + 1)
  BY DEF Post
<1>3. ledger'[Len(ledger) + 1] = row BY <1>1 DEF Post
<1>4. ASSUME NEW i \in DOMAIN ledger
      PROVE  i \in DOMAIN ledger' /\ ledger'[i] = ledger[i]
  BY <1>1, <1>2 DEF Post
<1> QED BY <1>1, <1>2, <1>3, <1>4

\* A posting under no key, or under a fresh one, keeps the keys unique.
LEMMA PostKeepsKeys ==
  ASSUME NEW R, ledger \in Seq(R), NEW row \in R,
         IdemKeyUnique, Post(row),
         row.key = NoKey \/ ~Claimed(row.key)
  PROVE  IdemKeyUnique'
<1> DEFINE n == Len(ledger)
<1>1. n \in Nat /\ DOMAIN ledger = 1..n /\ DOMAIN ledger' = 1..(n + 1)
  BY PostIndex
<1>2. ledger'[n + 1] = row /\ \A i \in 1..n : ledger'[i] = ledger[i]
  BY <1>1, PostIndex
<1>3. SUFFICES ASSUME NEW i \in 1..(n + 1), NEW j \in 1..(n + 1),
                      ledger'[i].key # NoKey, ledger'[i].key = ledger'[j].key
               PROVE  i = j
  BY <1>1 DEF IdemKeyUnique
<1>4. CASE i \in 1..n /\ j \in 1..n
  BY <1>1, <1>2, <1>3, <1>4 DEF IdemKeyUnique
<1>5. CASE i = n + 1 /\ j \in 1..n
  BY <1>1, <1>2, <1>3, <1>5 DEF Claimed
<1>6. CASE i \in 1..n /\ j = n + 1
  BY <1>1, <1>2, <1>3, <1>6 DEF Claimed
<1> QED BY <1>1, <1>4, <1>5, <1>6

LEMMA StutterKeepsKeys ==
  ASSUME IdemKeyUnique, UNCHANGED walletVars
  PROVE  IdemKeyUnique'
BY DEF IdemKeyUnique, walletVars
=============================================================================
