----------------------------- MODULE FoldLemmas -----------------------------
(* Folds over finite sets and over sequences.  A fold is a recursive function  *)
(* on the subsets of what is folded; that there is such a function, and (for   *)
(* the sums, SumFunctionOnSet of the community modules) that its value does    *)
(* not depend on the order of the elements, follows because no size of a set   *)
(* is the least for which it fails.                                            *)
EXTENDS Integers, Functions, FiniteSetTheorems, WellFoundedInduction, TLAPS

(* A set of natural numbers that is not empty has a least element.             *)
LEMMA LeastOf ==
    ASSUME NEW S \in SUBSET Nat, S # {}
    PROVE  \E x \in S : \A y \in S : x <= y
  <1> DEFINE R == OpToRel(<, Nat)
  <1>1. IsWellFoundedOn(R, Nat)
    BY NatLessThanWellFounded
  <1>2. R = {ss \in Nat \X Nat : ss[1] < ss[2]}
    BY DEF OpToRel
  <1> HIDE DEF R
  <1>3. PICK x \in S : \A y \in S : <<y, x>> \notin R
    BY <1>1, WFMin
  <1>4. \A y \in S : ~(y < x)
    BY <1>2, <1>3
  <1> QED  BY <1>4

(* The element a fold takes first, and those it leaves.                     *)
Chosen(S) == CHOOSE x \in S : TRUE

Rest(S) == S \ {Chosen(S)}

(* What the fold's function satisfies at one set.                              *)
SumsAt(f, g, T) == g[T] = IF T = {} THEN 0 ELSE f[Chosen(T)] + g[Rest(T)]

Sums(f, S, g) ==
    g = [T \in SUBSET S |-> IF T = {} THEN 0 ELSE f[Chosen(T)] + g[Rest(T)]]

(* The sum is the value of that function at the whole set.                  *)
LEMMA SumChosen ==
    ASSUME NEW f, NEW S
    PROVE  SumFunctionOnSet(f, S) = (CHOOSE g : Sums(f, S, g))[S]
  BY DEF SumFunctionOnSet, FoldFunctionOnSet, MapThenFoldSet, Sums, Chosen, Rest

(* A set without one of its elements.                                       *)
LEMMA RestOf ==
    ASSUME NEW T, T # {}, IsFiniteSet(T)
    PROVE  /\ Chosen(T) \in T /\ Rest(T) \in SUBSET T /\ IsFiniteSet(Rest(T))
           /\ Cardinality(T) \in Nat \ {0} /\ Cardinality(Rest(T)) = Cardinality(T) - 1
  <1>1. Chosen(T) \in T
    BY DEF Chosen
  <1>2. Cardinality(T) \in Nat /\ Cardinality(T) # 0
    BY FS_CardinalityType, FS_EmptySet
  <1> QED  BY <1>1, <1>2, FS_RemoveElement DEF Rest

(* There is such a function for a finite set.                               *)
LEMMA SumsExist ==
    ASSUME NEW f, NEW S, IsFiniteSet(S)
    PROVE  \E g : Sums(f, S, g)
  <1> DEFINE Upto(g, n) == \A T \in SUBSET S : Cardinality(T) <= n => SumsAt(f, g, T)
             Bad == {n \in Nat : ~\E g : Upto(g, n)}
  <1>0. \A T \in SUBSET S : IsFiniteSet(T) /\ Cardinality(T) \in Nat /\ Cardinality(T) <= Cardinality(S)
    BY FS_Subset, FS_CardinalityType
  <1>1. Bad = {}
    <2> SUFFICES ASSUME Bad # {} PROVE FALSE
      OBVIOUS
    <2>1. PICK n \in Bad : \A m \in Bad : n <= m
      <3>1. Bad \in SUBSET Nat
        OBVIOUS
      <3> HIDE DEF Bad
      <3> QED  BY <3>1, LeastOf
    <2>2. CASE n = 0
      <3> DEFINE g == [T \in SUBSET S |-> 0]
      <3>1. ASSUME NEW T \in SUBSET S, Cardinality(T) <= 0 PROVE SumsAt(f, g, T)
        <4>1. T = {}
          BY <1>0, <3>1, FS_EmptySet
        <4> QED  BY <4>1 DEF SumsAt
      <3>2. Upto(g, 0)
        BY <3>1
      <3> QED  BY <2>2, <3>2
    <2>3. CASE n # 0
      <3>1. n \in Nat /\ n - 1 \in Nat /\ n - 1 \notin Bad
        BY <2>1, <2>3
      <3>2. PICK g : Upto(g, n - 1)
        BY <3>1
      <3> DEFINE h == [T \in SUBSET S |-> IF Cardinality(T) <= n - 1 THEN g[T]
                                          ELSE f[Chosen(T)] + g[Rest(T)]]
      <3>3. ASSUME NEW T \in SUBSET S, Cardinality(T) <= n PROVE SumsAt(f, h, T)
        <4>1. CASE T = {}
          <5>1. Cardinality(T) = 0
            BY <4>1, FS_EmptySet
          <5>2. h[T] = g[T] /\ SumsAt(f, g, T)
            BY <3>1, <3>2, <5>1
          <5> QED  BY <4>1, <5>2 DEF SumsAt
        <4>2. CASE T # {}
          <5>1. Rest(T) \in SUBSET S /\ Cardinality(Rest(T)) = Cardinality(T) - 1
                /\ Cardinality(T) \in Nat
            BY <1>0, <4>2, RestOf
          <5>2. h[Rest(T)] = g[Rest(T)]
            BY <3>1, <3>3, <5>1
          <5>3. Cardinality(T) <= n - 1 => h[T] = g[T] /\ SumsAt(f, g, T)
            BY <3>2
          <5> QED  BY <4>2, <5>2, <5>3 DEF SumsAt
        <4> QED  BY <4>1, <4>2
      <3>4. Upto(h, n)
        BY <3>3
      <3> QED  BY <3>4
    <2> QED  BY <2>2, <2>3
  <1>2. PICK g : Upto(g, Cardinality(S))
    BY <1>0, <1>1
  <1>3. \A T \in SUBSET S : SumsAt(f, g, T)
    BY <1>0, <1>2
  <1> DEFINE h == [T \in SUBSET S |-> g[T]]
  <1>4. ASSUME NEW T \in SUBSET S
        PROVE  h[T] = IF T = {} THEN 0 ELSE f[Chosen(T)] + h[Rest(T)]
    <2>1. Rest(T) \in SUBSET S
      BY DEF Rest
    <2> QED  BY <1>3, <2>1 DEF SumsAt
  <1>5. Sums(f, S, h)
    <2>1. h = [T \in SUBSET S |-> h[T]]
      OBVIOUS
    <2> HIDE DEF h
    <2> QED  BY <1>4, <2>1 DEF Sums
  <1> QED  BY <1>5

(* Two of them agree where both are defined.                                *)
LEMMA SumsAgree ==
    ASSUME NEW f, NEW S, NEW R, IsFiniteSet(R), R \in SUBSET S,
           NEW g, Sums(f, S, g), NEW h, Sums(f, R, h)
    PROVE  g[R] = h[R]
  <1> DEFINE Bad == {n \in Nat : \E T \in SUBSET R : Cardinality(T) = n /\ g[T] # h[T]}
  <1>0. \A T \in SUBSET R : IsFiniteSet(T) /\ Cardinality(T) \in Nat
    BY FS_Subset, FS_CardinalityType
  <1>1. Bad = {}
    <2> SUFFICES ASSUME Bad # {} PROVE FALSE
      OBVIOUS
    <2>1. PICK n \in Bad : \A m \in Bad : n <= m
      <3>1. Bad \in SUBSET Nat
        OBVIOUS
      <3> HIDE DEF Bad
      <3> QED  BY <3>1, LeastOf
    <2>2. PICK T \in SUBSET R : Cardinality(T) = n /\ g[T] # h[T]
      BY <2>1
    <2>3. T # {} => g[Rest(T)] = h[Rest(T)]
      <3> SUFFICES ASSUME T # {} PROVE g[Rest(T)] = h[Rest(T)]
        OBVIOUS
      <3>1. Cardinality(Rest(T)) = n - 1 /\ n - 1 \in Nat /\ Rest(T) \in SUBSET R
        BY <1>0, <2>2, RestOf
      <3>2. n - 1 \notin Bad
        BY <2>1, <3>1
      <3> QED  BY <3>1, <3>2
    <2>4. SumsAt(f, g, T) /\ SumsAt(f, h, T)
      BY DEF Sums, SumsAt
    <2> QED  BY <2>2, <2>3, <2>4 DEF SumsAt
  <1> QED  BY <1>0, <1>1

(* The sum over a set is that over its rest and the value of the one left out. *)
LEMMA SumOfChosen ==
    ASSUME NEW f, NEW S, IsFiniteSet(S)
    PROVE  SumFunctionOnSet(f, S) =
               IF S = {} THEN 0 ELSE f[Chosen(S)] + SumFunctionOnSet(f, Rest(S))
  <1> DEFINE g == CHOOSE g : Sums(f, S, g)
             h == CHOOSE h : Sums(f, Rest(S), h)
  <1>1. IsFiniteSet(Rest(S)) /\ Rest(S) \in SUBSET S
    BY FS_Subset DEF Rest
  <1>2. Sums(f, S, g) /\ Sums(f, Rest(S), h)
    BY <1>1, SumsExist
  <1>3. SumFunctionOnSet(f, S) = g[S] /\ SumFunctionOnSet(f, Rest(S)) = h[Rest(S)]
    BY SumChosen
  <1> HIDE DEF g, h
  <1>4. g[Rest(S)] = h[Rest(S)]
    BY <1>1, <1>2, SumsAgree
  <1>5. SumsAt(f, g, S)
    BY <1>2 DEF Sums, SumsAt
  <1> QED  BY <1>3, <1>4, <1>5 DEF SumsAt

(* Where there are finite sets of some kind, there is a smallest one.          *)
LEMMA SmallestSet ==
    ASSUME NEW C, C # {}, \A T \in C : IsFiniteSet(T)
    PROVE  \E T \in C : \A U \in C : Cardinality(T) <= Cardinality(U)
  <1> DEFINE Sizes == {Cardinality(T) : T \in C}
  <1>1. Sizes \in SUBSET Nat /\ Sizes # {}
    BY FS_CardinalityType
  <1> HIDE DEF Sizes
  <1>2. PICK n \in Sizes : \A m \in Sizes : n <= m
    BY <1>1, LeastOf
  <1> QED  BY <1>2 DEF Sizes

(* So what holds of a set whenever it holds of the rest of it holds of all.    *)
LEMMA NoSmallest ==
    ASSUME NEW S, IsFiniteSet(S), NEW C \in SUBSET SUBSET S,
           {} \notin C, \A T \in C : Rest(T) \in C
    PROVE  C = {}
  <1> SUFFICES ASSUME C # {} PROVE FALSE
    OBVIOUS
  <1>1. \A T \in C : IsFiniteSet(T)
    BY FS_Subset
  <1>2. PICK T \in C : \A U \in C : Cardinality(T) <= Cardinality(U)
    BY <1>1, SmallestSet
  <1>3. T # {} /\ IsFiniteSet(T)
    BY <1>1
  <1>4. Cardinality(Rest(T)) = Cardinality(T) - 1 /\ Cardinality(T) \in Nat
    BY <1>3, RestOf
  <1> QED  BY <1>2, <1>4

(* Nothing adds up to zero.                                                 *)
LEMMA SumEmpty == ASSUME NEW f PROVE SumFunctionOnSet(f, {}) = 0
  BY SumOfChosen, FS_EmptySet

(* Sums of integers are integers.                                           *)
LEMMA SumInt ==
    ASSUME NEW f, NEW S, IsFiniteSet(S), \A x \in S : f[x] \in Int
    PROVE  SumFunctionOnSet(f, S) \in Int
  <1> DEFINE C == {T \in SUBSET S : SumFunctionOnSet(f, T) \notin Int}
  <1>1. {} \notin C
    BY SumEmpty
  <1>2. ASSUME NEW T \in C PROVE Rest(T) \in C
    <2>1. T # {} /\ IsFiniteSet(T)
      BY <1>1, FS_Subset
    <2>2. Chosen(T) \in S /\ Rest(T) \in SUBSET S
      BY <2>1, RestOf
    <2>3. SumFunctionOnSet(f, T) = f[Chosen(T)] + SumFunctionOnSet(f, Rest(T))
      BY <2>1, SumOfChosen
    <2> QED  BY <2>2, <2>3
  <1>3. C = {}
    <2>1. C \in SUBSET SUBSET S
      OBVIOUS
    <2> HIDE DEF C
    <2> QED  BY <1>1, <1>2, <2>1, NoSmallest
  <1> QED  BY <1>3

(* Equal terms have equal sums.                                             *)
LEMMA SumSame ==
    ASSUME NEW f, NEW g, NEW S, IsFiniteSet(S), \A x \in S : f[x] = g[x]
    PROVE  SumFunctionOnSet(f, S) = SumFunctionOnSet(g, S)
  <1> DEFINE C == {T \in SUBSET S : SumFunctionOnSet(f, T) # SumFunctionOnSet(g, T)}
  <1>1. {} \notin C
    BY SumEmpty
  <1>2. ASSUME NEW T \in C PROVE Rest(T) \in C
    <2>1. T # {} /\ IsFiniteSet(T)
      BY <1>1, FS_Subset
    <2>2. Chosen(T) \in S /\ Rest(T) \in SUBSET S
      BY <2>1, RestOf
    <2>3. /\ SumFunctionOnSet(f, T) = f[Chosen(T)] + SumFunctionOnSet(f, Rest(T))
          /\ SumFunctionOnSet(g, T) = g[Chosen(T)] + SumFunctionOnSet(g, Rest(T))
      BY <2>1, SumOfChosen
    <2> QED  BY <2>2, <2>3
  <1>3. C = {}
    <2>1. C \in SUBSET SUBSET S
      OBVIOUS
    <2> HIDE DEF C
    <2> QED  BY <1>1, <1>2, <2>1, NoSmallest
  <1> QED  BY <1>3

(* Any element may be the one that is taken first.                             *)
LEMMA SumWithout ==
    ASSUME NEW f, NEW S, IsFiniteSet(S), \A x \in S : f[x] \in Int, NEW x \in S
    PROVE  /\ IsFiniteSet(S \ {x}) /\ SumFunctionOnSet(f, S \ {x}) \in Int
           /\ SumFunctionOnSet(f, S) = f[x] + SumFunctionOnSet(f, S \ {x})
  <1> DEFINE Wrong(T, z) == SumFunctionOnSet(f, T) # f[z] + SumFunctionOnSet(f, T \ {z})
             C == {T \in SUBSET S : \E z \in T : Wrong(T, z)}
  <1>0. \A T \in SUBSET S : /\ IsFiniteSet(T) /\ Cardinality(T) \in Nat
                            /\ SumFunctionOnSet(f, T) \in Int
    <2> SUFFICES ASSUME NEW T \in SUBSET S
                 PROVE  /\ IsFiniteSet(T) /\ Cardinality(T) \in Nat
                        /\ SumFunctionOnSet(f, T) \in Int
      OBVIOUS
    <2>1. IsFiniteSet(T) /\ \A z \in T : f[z] \in Int
      BY FS_Subset
    <2> QED  BY <2>1, SumInt, FS_CardinalityType
  <1>1. C = {}
    <2> SUFFICES ASSUME C # {} PROVE FALSE
      OBVIOUS
    <2>1. PICK T \in C : \A U \in C : Cardinality(T) <= Cardinality(U)
      <3>1. \A T \in C : IsFiniteSet(T)
        BY <1>0
      <3> HIDE DEF C
      <3> QED  BY <3>1, SmallestSet
    <2>2. PICK z \in T : Wrong(T, z)
      OBVIOUS
    <2> DEFINE y == Chosen(T)
    <2>3. y \in T /\ Rest(T) = T \ {y} /\ SumFunctionOnSet(f, T) = f[y] + SumFunctionOnSet(f, T \ {y})
      BY <1>0, RestOf, SumOfChosen DEF Rest
    <2> HIDE DEF y
    <2>4. y # z
      BY <2>2, <2>3
    <2>5. /\ Cardinality(T \ {y}) = Cardinality(T) - 1 /\ Cardinality(T \ {z}) = Cardinality(T) - 1
          /\ Cardinality(T) \in Nat
      BY <1>0, <2>3, FS_RemoveElement
    <2>6. T \ {y} \notin C /\ T \ {z} \notin C
      BY <2>1, <2>5
    <2>7. /\ SumFunctionOnSet(f, T \ {y}) = f[z] + SumFunctionOnSet(f, (T \ {y}) \ {z})
          /\ SumFunctionOnSet(f, T \ {z}) = f[y] + SumFunctionOnSet(f, (T \ {z}) \ {y})
      BY <2>3, <2>4, <2>6
    <2>8. (T \ {y}) \ {z} = (T \ {z}) \ {y}
      OBVIOUS
    <2>9. SumFunctionOnSet(f, (T \ {z}) \ {y}) \in Int /\ f[y] \in Int /\ f[z] \in Int
      BY <1>0, <2>3
    <2>10. SumFunctionOnSet(f, T) = f[z] + SumFunctionOnSet(f, T \ {z})
      <3>1. SumFunctionOnSet(f, (T \ {y}) \ {z}) = SumFunctionOnSet(f, (T \ {z}) \ {y})
        BY <2>8
      <3> DEFINE w == SumFunctionOnSet(f, (T \ {z}) \ {y})
      <3>2. SumFunctionOnSet(f, T \ {y}) = f[z] + w /\ SumFunctionOnSet(f, T \ {z}) = f[y] + w
        BY <2>7, <3>1
      <3>3. SumFunctionOnSet(f, T) = f[y] + SumFunctionOnSet(f, T \ {y}) /\ w \in Int
        BY <2>3, <2>9
      <3> HIDE DEF w
      <3> QED  BY <2>9, <3>2, <3>3
    <2> QED  BY <2>2, <2>10
  <1>2. ~Wrong(S, x)
    BY <1>1
  <1> QED  BY <1>0, <1>2

(* What a change of one value does.                                            *)
LEMMA SumChange ==
    ASSUME NEW f, NEW g, NEW S, IsFiniteSet(S), NEW x \in S,
           \A y \in S : f[y] \in Int, g[x] \in Int, \A y \in S \ {x} : g[y] = f[y]
    PROVE  /\ SumFunctionOnSet(f, S) \in Int
           /\ SumFunctionOnSet(g, S) = SumFunctionOnSet(f, S) + g[x] - f[x]
  <1>1. IsFiniteSet(S \ {x}) /\ \A y \in S : g[y] \in Int
    BY FS_Subset
  <1>2. SumFunctionOnSet(g, S \ {x}) = SumFunctionOnSet(f, S \ {x})
    BY <1>1, SumSame
  <1>3. SumFunctionOnSet(f, S) = f[x] + SumFunctionOnSet(f, S \ {x})
    BY SumWithout
  <1>5. SumFunctionOnSet(f, S \ {x}) \in Int
    BY SumWithout
  <1>4. SumFunctionOnSet(g, S) = g[x] + SumFunctionOnSet(g, S \ {x})
    BY <1>1, SumWithout
  <1> QED  BY <1>2, <1>3, <1>4, <1>5

(* What one element more does.                                                 *)
LEMMA SumWith ==
    ASSUME NEW f, NEW S, IsFiniteSet(S), NEW x, x \notin S,
           \A y \in S : f[y] \in Int, f[x] \in Int
    PROVE  /\ IsFiniteSet(S \cup {x}) /\ SumFunctionOnSet(f, S) \in Int
           /\ SumFunctionOnSet(f, S \cup {x}) = SumFunctionOnSet(f, S) + f[x]
  <1> DEFINE T == S \cup {x}
  <1>1. IsFiniteSet(T) /\ x \in T /\ T \ {x} = S /\ \A y \in T : f[y] \in Int
    BY FS_AddElement
  <1> HIDE DEF T
  <1>2. SumFunctionOnSet(f, T) = f[x] + SumFunctionOnSet(f, S) /\ SumFunctionOnSet(f, S) \in Int
    BY <1>1, SumWithout
  <1> QED  BY <1>1, <1>2 DEF T

(* Ordered functions have ordered sums.                                        *)
LEMMA SumOrdered ==
    ASSUME NEW f, NEW g, NEW S, IsFiniteSet(S),
           \A x \in S : f[x] \in Int /\ g[x] \in Int /\ f[x] <= g[x]
    PROVE  SumFunctionOnSet(f, S) <= SumFunctionOnSet(g, S)
  <1> DEFINE C == {T \in SUBSET S : ~(SumFunctionOnSet(f, T) <= SumFunctionOnSet(g, T))}
  <1>1. {} \notin C
    BY SumEmpty
  <1>2. ASSUME NEW T \in C PROVE Rest(T) \in C
    <2>1. T # {} /\ IsFiniteSet(T)
      BY <1>1, FS_Subset
    <2>2. Chosen(T) \in S /\ Rest(T) \in SUBSET S /\ IsFiniteSet(Rest(T))
      BY <2>1, RestOf
    <2>3. /\ SumFunctionOnSet(f, T) = f[Chosen(T)] + SumFunctionOnSet(f, Rest(T))
          /\ SumFunctionOnSet(g, T) = g[Chosen(T)] + SumFunctionOnSet(g, Rest(T))
      BY <2>1, SumOfChosen
    <2>4. SumFunctionOnSet(f, Rest(T)) \in Int /\ SumFunctionOnSet(g, Rest(T)) \in Int
      <3>1. \A x \in Rest(T) : f[x] \in Int /\ g[x] \in Int
        BY <2>2
      <3> QED  BY <2>2, <3>1, SumInt
    <2>5. f[Chosen(T)] \in Int /\ g[Chosen(T)] \in Int /\ f[Chosen(T)] <= g[Chosen(T)]
      BY <2>2
    <2> QED  BY <2>2, <2>3, <2>4, <2>5
  <1>3. C = {}
    <2>1. C \in SUBSET SUBSET S
      OBVIOUS
    <2> HIDE DEF C
    <2> QED  BY <1>1, <1>2, <2>1, NoSmallest
  <1> QED  BY <1>3

(* Sums of natural numbers are natural numbers.                             *)
LEMMA SumNat ==
    ASSUME NEW f, NEW S, IsFiniteSet(S), \A x \in S : f[x] \in Nat
    PROVE  SumFunctionOnSet(f, S) \in Nat
  <1> DEFINE C == {T \in SUBSET S : SumFunctionOnSet(f, T) \notin Nat}
  <1>1. {} \notin C
    BY SumEmpty
  <1>2. ASSUME NEW T \in C PROVE Rest(T) \in C
    <2>1. T # {} /\ IsFiniteSet(T)
      BY <1>1, FS_Subset
    <2>2. Chosen(T) \in S /\ Rest(T) \in SUBSET S
      BY <2>1, RestOf
    <2>3. SumFunctionOnSet(f, T) = f[Chosen(T)] + SumFunctionOnSet(f, Rest(T))
      BY <2>1, SumOfChosen
    <2> QED  BY <2>2, <2>3
  <1>3. C = {}
    <2>1. C \in SUBSET SUBSET S
      OBVIOUS
    <2> HIDE DEF C
    <2> QED  BY <1>1, <1>2, <2>1, NoSmallest
  <1> QED  BY <1>3
(* The sum of one value for each element.                                      *)
LEMMA SumConstant ==
    ASSUME NEW c \in Nat, NEW S, IsFiniteSet(S)
    PROVE  SumFunctionOnSet([x \in S |-> c], S) = c * Cardinality(S)
  <1> DEFINE f == [x \in S |-> c]
             C == {T \in SUBSET S : SumFunctionOnSet(f, T) # c * Cardinality(T)}
  <1>0. \A x \in S : f[x] = c
    OBVIOUS
  <1> HIDE DEF f
  <1>1. {} \notin C
    <2>1. SumFunctionOnSet(f, {}) = 0 /\ Cardinality({}) = 0
      BY SumEmpty, FS_EmptySet
    <2> QED  BY <2>1
  <1>2. ASSUME NEW T \in C PROVE Rest(T) \in C
    <2>1. T # {} /\ IsFiniteSet(T)
      BY <1>1, FS_Subset
    <2>2. /\ Chosen(T) \in S /\ Rest(T) \in SUBSET S
          /\ Cardinality(T) \in Nat \ {0} /\ Cardinality(Rest(T)) = Cardinality(T) - 1
      BY <2>1, RestOf
    <2>3. SumFunctionOnSet(f, T) = c + SumFunctionOnSet(f, Rest(T))
      BY <1>0, <2>1, <2>2, SumOfChosen
    <2>4. \A n \in Nat : c + c * (n - 1) = c * n
      OBVIOUS
    <2>5. c + c * Cardinality(Rest(T)) = c * Cardinality(T)
      BY <2>2, <2>4
    <2>6. SumFunctionOnSet(f, T) # c * Cardinality(T)
      OBVIOUS
    <2>7. SumFunctionOnSet(f, Rest(T)) # c * Cardinality(Rest(T))
      BY <2>3, <2>5, <2>6
    <2> QED  BY <2>2, <2>7
  <1>3. C = {}
    <2>1. C \in SUBSET SUBSET S
      OBVIOUS
    <2> HIDE DEF C
    <2> QED  BY <1>1, <1>2, <2>1, NoSmallest
  <1> QED  BY <1>3 DEF f

(* What a new value for one element of a table makes of its sum.               *)
LEMMA SumPut ==
    ASSUME NEW S, IsFiniteSet(S), NEW f \in [S -> Nat], NEW g \in [S -> Nat],
           NEW x \in S, \A y \in S \ {x} : g[y] = f[y]
    PROVE  /\ SumFunction(f) \in Nat
           /\ SumFunction(g) = SumFunction(f) + g[x] - f[x]
  <1>1. \A y \in S : f[y] \in Nat /\ g[y] \in Nat
    OBVIOUS
  <1>2. SumFunction(f) = SumFunctionOnSet(f, S) /\ SumFunction(g) = SumFunctionOnSet(g, S)
    BY DEF SumFunction
  <1>3. SumFunctionOnSet(g, S) = SumFunctionOnSet(f, S) + g[x] - f[x]
    BY <1>1, SumChange
  <1>4. SumFunctionOnSet(f, S) \in Nat
    BY <1>1, SumNat
  <1> QED  BY <1>2, <1>3, <1>4

-----------------------------------------------------------------------------
(* What holds at zero and is handed on holds up to the end.                    *)
LEMMA Reaches ==
    ASSUME NEW n \in Nat, NEW P \in SUBSET (0..n), 0 \in P, \A k \in 1..n : k - 1 \in P => k \in P
    PROVE  P = 0..n
  <1> SUFFICES ASSUME (0..n) \ P # {} PROVE FALSE
    OBVIOUS
  <1> DEFINE Bad == (0..n) \ P
  <1>1. Bad \in SUBSET Nat /\ Bad # {}
    OBVIOUS
  <1> HIDE DEF Bad
  <1>2. PICK k \in Bad : \A j \in Bad : k <= j
    BY <1>1, LeastOf
  <1>3. k \in 1..n /\ k - 1 \in 0..n /\ k - 1 \notin Bad
    BY <1>2 DEF Bad
  <1> QED
    BY <1>2, <1>3 DEF Bad

(* A fold is a recursive function on the subsets of what is folded: there is   *)
(* one, as no size of a subset is the least for which it fails.                *)
FoldsTo(g, D, pick, step, base) ==
    \A T \in SUBSET D : g[T] = IF T = {} THEN base ELSE step[<<g[T \ {pick[T]}], pick[T]>>]

(* There is such a function for any finite set and any typed step.          *)
LEMMA FoldExists ==
    ASSUME NEW D, IsFiniteSet(D), NEW A, NEW base \in A, NEW step \in [A \X D -> A],
           NEW pick, \A T \in SUBSET D : T # {} => pick[T] \in T
    PROVE  \E g \in [SUBSET D -> A] : FoldsTo(g, D, pick, step, base)
  <1> DEFINE At(g, T) == g[T] = IF T = {} THEN base ELSE step[<<g[T \ {pick[T]}], pick[T]>>]
             Upto(g, n) == \A T \in SUBSET D : Cardinality(T) <= n => At(g, T)
             Bad == {n \in Nat : ~\E g \in [SUBSET D -> A] : Upto(g, n)}
  <1>0. \A T \in SUBSET D : IsFiniteSet(T) /\ Cardinality(T) \in Nat /\ Cardinality(T) <= Cardinality(D)
    BY FS_Subset, FS_CardinalityType
  <1>1. \A T \in SUBSET D : T # {} => /\ T \ {pick[T]} \in SUBSET D /\ Cardinality(T) # 0
                                      /\ Cardinality(T \ {pick[T]}) = Cardinality(T) - 1
    <2> SUFFICES ASSUME NEW T \in SUBSET D, T # {}
                 PROVE  /\ T \ {pick[T]} \in SUBSET D /\ Cardinality(T) # 0
                        /\ Cardinality(T \ {pick[T]}) = Cardinality(T) - 1
      OBVIOUS
    <2>1. pick[T] \in T /\ IsFiniteSet(T)
      BY <1>0
    <2> QED
      BY <2>1, FS_RemoveElement, FS_EmptySet
  <1>2. Bad = {}
    <2> SUFFICES ASSUME Bad # {} PROVE FALSE
      OBVIOUS
    <2>0. Bad \in SUBSET Nat
      OBVIOUS
    <2> HIDE DEF Bad
    <2>1. PICK n \in Bad : \A m \in Bad : n <= m
      BY <2>0, LeastOf
    <2>2. CASE n = 0
      <3> DEFINE g == [T \in SUBSET D |-> base]
      <3>1. ASSUME NEW T \in SUBSET D, Cardinality(T) <= 0 PROVE At(g, T)
        <4>1. T = {}
          BY <1>0, <3>1, FS_EmptySet
        <4> QED
          BY <4>1
      <3>2. Upto(g, 0) /\ g \in [SUBSET D -> A]
        BY <3>1
      <3> QED
        BY <2>1, <2>2, <3>2 DEF Bad
    <2>3. CASE n # 0
      <3>1. n \in Nat /\ n - 1 \in Nat /\ n - 1 \notin Bad
        BY <2>0, <2>1, <2>3
      <3>2. PICK g \in [SUBSET D -> A] : Upto(g, n - 1)
        BY <3>1 DEF Bad
      <3> DEFINE h == [T \in SUBSET D |-> IF T = {} \/ Cardinality(T) <= n - 1 THEN g[T]
                                          ELSE step[<<g[T \ {pick[T]}], pick[T]>>]]
      <3>3. h \in [SUBSET D -> A]
        <4>1. ASSUME NEW T \in SUBSET D, T # {} PROVE step[<<g[T \ {pick[T]}], pick[T]>>] \in A
          BY <1>1, <4>1
        <4> QED
          BY <4>1
      <3>4. ASSUME NEW T \in SUBSET D, Cardinality(T) <= n PROVE At(h, T)
        <4>1. CASE T = {}
          <5>1. Cardinality(T) = 0
            BY <4>1, FS_EmptySet
          <5>2. h[T] = g[T]
            BY <4>1
          <5>3. At(g, T)
            BY <3>1, <3>2, <5>1
          <5> QED
            BY <4>1, <5>2, <5>3
        <4>2. CASE T # {}
          <5>1. T \ {pick[T]} \in SUBSET D /\ Cardinality(T \ {pick[T]}) = Cardinality(T) - 1 /\ Cardinality(T) \in Nat
            BY <1>0, <1>1, <4>2
          <5>2. h[T \ {pick[T]}] = g[T \ {pick[T]}]
            BY <3>1, <3>4, <5>1
          <5>3. Cardinality(T) <= n - 1 => h[T] = g[T] /\ At(g, T)
            BY <3>2
          <5>4. Cardinality(T) > n - 1 => h[T] = step[<<g[T \ {pick[T]}], pick[T]>>]
            BY <3>1, <4>2, <5>1
          <5> QED
            BY <3>1, <4>2, <5>1, <5>2, <5>3, <5>4
        <4> QED
          BY <4>1, <4>2
      <3>5. Upto(h, n)
        BY <3>4
      <3> QED
        BY <2>1, <3>3, <3>5 DEF Bad
    <2> QED
      BY <2>2, <2>3
  <1>3. PICK g \in [SUBSET D -> A] : Upto(g, Cardinality(D))
    BY <1>0, <1>2
  <1>4. \A T \in SUBSET D : At(g, T)
    BY <1>0, <1>3
  <1> QED
    BY <1>4 DEF FoldsTo

(* The folds of sequences take the last index first, or the first.             *)
Greatest(T) == CHOOSE x \in T : \A y \in T : x >= y

(* The indices that are left are always those before the greatest.          *)
LEMMA LastOf ==
    ASSUME NEW n \in Nat
    PROVE  /\ \A T \in SUBSET (1..n) : T # {} => Greatest(T) \in T
           /\ \A k \in 1..n : 1..k \in SUBSET (1..n) /\ 1..k # {}
           /\ \A k \in 1..n : Greatest(1..k) = k /\ (1..k) \ {k} = 1..(k - 1)
           /\ IsFiniteSet(1..n)
  <1>1. ASSUME NEW T \in SUBSET (1..n), T # {} PROVE \E x \in T : \A y \in T : x >= y
    <2> DEFINE R == {n - x : x \in T}
    <2>1. R \in SUBSET Nat /\ R # {}
      <3>1. \A x \in T : x \in 1..n /\ n - x \in Nat
        OBVIOUS
      <3> QED
        BY <1>1, <3>1
    <2> HIDE DEF R
    <2>2. PICK r \in R : \A q \in R : r <= q
      BY <2>1, LeastOf
    <2>3. PICK x \in T : r = n - x
      BY <2>2 DEF R
    <2>4. ASSUME NEW y \in T PROVE x >= y
      <3>1. n - y \in R
        BY DEF R
      <3> QED
        BY <3>1, <2>2, <2>3
    <2> QED
      BY <2>4
  <1>2. \A T \in SUBSET (1..n) : T # {} => Greatest(T) \in T
    BY <1>1 DEF Greatest
  <1>3. ASSUME NEW k \in 1..n PROVE Greatest(1..k) = k
    BY DEF Greatest
  <1>4. ASSUME NEW k \in 1..n PROVE 1..k \in SUBSET (1..n) /\ 1..k # {}
    <2>1. 1..k \in SUBSET (1..n) /\ k \in 1..k
      OBVIOUS
    <2> QED
      BY <2>1
  <1>5. \A k \in 1..n : (1..k) \ {k} = 1..(k - 1)
    OBVIOUS
  <1>6. IsFiniteSet(1..n)
    BY FS_Interval
  <1> QED
    BY <1>2, <1>3, <1>4, <1>5, <1>6
(* A step of a fold of n elements, and the function that folds them.           *)
StepFunctions(A, n) == [A \X (1..n) -> A]

(* A function that folds from the left, by index.                           *)
LeftFold(g, n, step, base) ==
    \A T \in SUBSET (1..n) : g[T] = IF T = {} THEN base ELSE step[<<g[T \ {Greatest(T)}], Greatest(T)>>]

(* There is one for every typed step.                                       *)
LEMMA FoldOfIndices ==
    ASSUME NEW n \in Nat, NEW A, NEW base \in A, NEW step \in StepFunctions(A, n)
    PROVE  \E g \in [SUBSET (1..n) -> A] : LeftFold(g, n, step, base)
  <1> DEFINE pick == [T \in SUBSET (1..n) |-> Greatest(T)]
  <1>1. \A T \in SUBSET (1..n) : T # {} => pick[T] \in T /\ pick[T] = Greatest(T)
    BY LastOf
  <1>2. IsFiniteSet(1..n)
    BY LastOf
  <1> HIDE DEF pick
  <1>3. PICK g \in [SUBSET (1..n) -> A] : FoldsTo(g, 1..n, pick, step, base)
    BY <1>1, <1>2, FoldExists DEF StepFunctions
  <1>4. LeftFold(g, n, step, base)
    BY <1>1, <1>3 DEF FoldsTo, LeftFold
  <1> QED
    BY <1>4

(* What it has made of the first k elements.                                   *)
FoldsWithin(h, A, n, step, base) ==
    /\ h[{}] = base
    /\ \A T \in SUBSET (1..n) : T # {} /\ h[T \ {Greatest(T)}] \in A
          => h[T] = step[<<h[T \ {Greatest(T)}], Greatest(T)>>]

(* The values on the way, typed, each the step of the one before it.        *)
Trace(r, A, n, step, base) ==
    r \in [0..n -> A] /\ r[0] = base /\ \A k \in 1..n : r[k] = step[<<r[k - 1], k>>]

(* Every fold leaves such a trace, and its value is the last of it.         *)
LEMMA FoldTrace ==
    ASSUME NEW n \in Nat, NEW A, NEW base \in A, NEW step \in StepFunctions(A, n),
           NEW h, FoldsWithin(h, A, n, step, base)
    PROVE  \E r : Trace(r, A, n, step, base) /\ r[n] = h[1..n]
  <1> DEFINE r == [k \in 0..n |-> h[1..k]]
  <1>1. r[0] = base /\ r[n] = h[1..n]
    <2>1. r[0] = h[1..0] /\ r[n] = h[1..n] /\ 1..0 = {}
      OBVIOUS
    <2> QED
      BY <2>1 DEF FoldsWithin
  <1>2. \A k \in 1..n : r[k - 1] \in A => r[k] = step[<<r[k - 1], k>>]
    <2> SUFFICES ASSUME NEW k \in 1..n, r[k - 1] \in A PROVE r[k] = step[<<r[k - 1], k>>]
      OBVIOUS
    <2>0. r[k] = h[1..k] /\ r[k - 1] = h[1..(k - 1)]
      OBVIOUS
    <2>1. 1..k \in SUBSET (1..n) /\ 1..k # {} /\ Greatest(1..k) = k /\ (1..k) \ {k} = 1..(k - 1)
      BY LastOf
    <2> HIDE DEF r
    <2> QED
      BY <2>0, <2>1 DEF FoldsWithin
  <1>3. DOMAIN r = 0..n /\ r = [k \in 0..n |-> r[k]]
    OBVIOUS
  <1> HIDE DEF r
  <1> DEFINE P == {k \in 0..n : r[k] \in A}
  <1>4. 0 \in P /\ P \in SUBSET (0..n)
    BY <1>1
  <1>5. \A k \in 1..n : k - 1 \in P => k \in P
    <2> SUFFICES ASSUME NEW k \in 1..n, k - 1 \in P PROVE k \in P
      OBVIOUS
    <2>1. r[k - 1] \in A
      OBVIOUS
    <2>2. step[<<r[k - 1], k>>] \in A
      BY <2>1 DEF StepFunctions
    <2> QED
      BY <1>2, <2>1, <2>2
  <1> HIDE DEF P
  <1>6. P = 0..n
    BY <1>4, <1>5, Reaches
  <1>7. \A k \in 0..n : r[k] \in A
    BY <1>6 DEF P
  <1>8. r \in [0..n -> A]
    BY <1>3, <1>7
  <1>9. \A k \in 1..n : r[k] = step[<<r[k - 1], k>>]
    BY <1>2, <1>7
  <1> QED
    BY <1>1, <1>8, <1>9 DEF Trace
=============================================================================
