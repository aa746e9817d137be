---------------------------- MODULE MoneyProofs -----------------------------
(***************************************************************************)
(* What holds of every waterfall and of every debt projection.  Both add   *)
(* up money over a set of unknown size, so the first part is about sums.   *)
(*                                                                         *)
(* Waterfalls: any number of tiers and categories, any int64 amounts and   *)
(* any needs, those whose sum overflows included.  All of it rests on one  *)
(* fact about the walk: as long as money remains, every need met so far    *)
(* was funded in full, so the needs of the tier add up to its allocation   *)
(* and their sum has not overflowed.                                       *)
(*                                                                         *)
(* Debts: any number of accounts, any rates, balances, minimums and caps.  *)
(* A month is followed from its interest to its last payment; on payments  *)
(* that suffice every month lowers what is owed, and enough to end in time.*)
(***************************************************************************)
EXTENDS WaterfallAssignment, DebtSnapshot, FiniteSetTheorems, WellFoundedInduction, TLAPS

(* Induction over finite sets.                                             *)

(* A nonempty set of numbers has a smallest one.                           *)
LEMMA Smallest ==
  ASSUME NEW S \in SUBSET Nat, S # {}
  PROVE  \E m \in S : \A n \in S : m <= n
<1>1. PICK m \in S : \A n \in S : ~ (<<n, m>> \in OpToRel(<, Nat))
  BY NatLessThanWellFounded, WFMin
<1>2. \A n \in S : ~ (n < m)
  BY <1>1 DEF OpToRel
<1> QED BY <1>2

(* Induction over a finite set, by the set G of the sets it holds of: a    *)
(* set is in G if all smaller subsets of S are.                            *)
LEMMA BySize ==
  ASSUME NEW S, IsFiniteSet(S), NEW G,
         \A T \in SUBSET S :
           (\A U \in SUBSET S : Cardinality(U) < Cardinality(T) => U \in G) => T \in G
  PROVE  SUBSET S \subseteq G
<1> DEFINE bad == {T \in SUBSET S : T \notin G}
           sizes == {Cardinality(T) : T \in bad}
<1>1. \A T \in SUBSET S : Cardinality(T) \in Nat
  BY FS_Subset, FS_CardinalityType
<1>2. SUFFICES ASSUME bad # {} PROVE FALSE
  OBVIOUS
<1>3. sizes \in SUBSET Nat /\ sizes # {}
  BY <1>1, <1>2
<1>4. PICK m \in sizes : \A n \in sizes : m <= n
  BY <1>3, Smallest
<1>5. PICK T \in bad : Cardinality(T) = m
  BY <1>4
<1>6. ASSUME NEW U \in SUBSET S, U \notin G PROVE ~ (Cardinality(U) < Cardinality(T))
  <2>1. Cardinality(U) \in sizes
    BY <1>6
  <2>2. m <= Cardinality(U) /\ Cardinality(U) \in Nat /\ m \in Nat
    BY <1>1, <1>4, <1>5, <2>1
  <2> QED BY <1>5, <2>2
<1> QED BY <1>5, <1>6

(* The same, one element at a time.                                        *)
LEMMA ByElement ==
  ASSUME NEW S, IsFiniteSet(S), NEW G, {} \in G,
         \A T \in SUBSET S : \A x \in S \ T : T \in G => T \cup {x} \in G
  PROVE  S \in G
<1>1. SUFFICES ASSUME NEW T \in SUBSET S,
                      \A U \in SUBSET S : Cardinality(U) < Cardinality(T) => U \in G
               PROVE  T \in G
  <2>1. SUBSET S \subseteq G
    BY <1>1, BySize
  <2> QED BY <2>1
<1>2. CASE T = {}
  BY <1>2
<1>3. CASE T # {}
  <2>1. PICK x \in T : TRUE
    BY <1>3
  <2>2. IsFiniteSet(T) /\ Cardinality(T \ {x}) = Cardinality(T) - 1 /\ Cardinality(T) \in Nat
    BY <2>1, FS_Subset, FS_RemoveElement, FS_CardinalityType
  <2>3. T \ {x} \in G
    BY <1>1, <2>2
  <2>4. (T \ {x}) \cup {x} = T
    BY <2>1
  <2> QED BY <2>1, <2>3, <2>4
<1> QED BY <1>2, <1>3

-----------------------------------------------------------------------------
(* Sums.  The prover sees SumFunctionOnSet as a function chosen to satisfy *)
(* its recursive equation; that there is one has to be shown.              *)

Pick(s) == CHOOSE x \in s : TRUE

SumBody(f, g, s) == IF s = {} THEN 0 ELSE f[Pick(s)] + g[s \ {Pick(s)}]

(* A nonempty set contains the element Pick chooses of it.                 *)
LEMMA PickIn ==
  ASSUME NEW s, s # {}
  PROVE  Pick(s) \in s
BY DEF Pick

IsSum(f, S, g) == g = [s \in SUBSET S |-> SumBody(f, g, s)]

Solves(f, S, g) == \A s \in SUBSET S : g[s] = SumBody(f, g, s)

(* SumFunctionOnSet is the value at S of a function that is chosen.        *)
LEMMA SumIsChosen ==
  ASSUME NEW f, NEW S
  PROVE  SumFunctionOnSet(f, S) = (CHOOSE g : IsSum(f, S, g))[S]
BY DEF IsSum, SumFunctionOnSet, FoldFunctionOnSet, MapThenFoldSet, SumBody, Pick

(* There is a function to choose: over a finite set the recursion ends.    *)
LEMMA SumExists ==
  ASSUME NEW S, IsFiniteSet(S), NEW f, \A x \in S : f[x] \in Int
  PROVE  \E g \in [SUBSET S -> Int] : IsSum(f, S, g)
<1> DEFINE Level(n) == {s \in SUBSET S : Cardinality(s) <= n}
           Good(n) == \E g \in [Level(n) -> Int] : \A s \in Level(n) : g[s] = SumBody(f, g, s)
           bad == {n \in Nat : ~ Good(n)}
<1>1. \A s \in SUBSET S : IsFiniteSet(s) /\ Cardinality(s) \in Nat
  BY FS_Subset, FS_CardinalityType
<1>2. bad = {}
  <2>1. SUFFICES ASSUME bad # {} PROVE FALSE
    OBVIOUS
  <2>2. PICK n \in bad : \A k \in bad : n <= k
    <3>1. bad \in SUBSET Nat
      OBVIOUS
    <3> QED BY <2>1, <3>1, Smallest
  <2>3. CASE n = 0
    <3>1. \A s \in Level(0) : s = {}
      BY <1>1, FS_EmptySet
    <3> DEFINE g == [s \in Level(0) |-> 0]
    <3>2. g \in [Level(0) -> Int] /\ \A s \in Level(0) : g[s] = SumBody(f, g, s)
      BY <3>1 DEF SumBody
    <3>3. Good(0)
      BY <3>2
    <3> QED BY <2>2, <2>3, <3>3
  <2>4. CASE n # 0
    <3>1. n - 1 \in Nat /\ n \in Nat
      BY <2>4
    <3>2. Good(n - 1)
      <4> HIDE DEF Good
      <4>1. n - 1 \notin bad
        <5>1. ~ (n <= n - 1)
          BY <3>1
        <5> QED BY <2>2, <5>1
      <4> QED BY <3>1, <4>1
    <3>3. PICK h \in [Level(n - 1) -> Int] : \A s \in Level(n - 1) : h[s] = SumBody(f, h, s)
      BY <3>2
    <3> DEFINE g == [s \in Level(n) |-> SumBody(f, h, s)]
    <3>4. ASSUME NEW s \in Level(n), s # {}
          PROVE  s \ {Pick(s)} \in Level(n - 1) /\ Pick(s) \in S
      <4>1. Pick(s) \in s
        BY <3>4, PickIn
      <4>2. Cardinality(s \ {Pick(s)}) = Cardinality(s) - 1
        BY <4>1, <1>1, FS_RemoveElement
      <4> QED BY <1>1, <3>1, <4>1, <4>2
    <3>5. g \in [Level(n) -> Int]
      <4>1. ASSUME NEW s \in Level(n) PROVE SumBody(f, h, s) \in Int
        <5>1. CASE s = {}
          BY <5>1 DEF SumBody
        <5>2. CASE s # {}
          BY <5>2, <3>4 DEF SumBody
        <5> QED BY <5>1, <5>2
      <4> QED BY <4>1
    <3>6. \A s \in Level(n - 1) : s \in Level(n) /\ g[s] = h[s]
      <4>1. Level(n - 1) \subseteq Level(n)
        BY <1>1, <3>1
      <4> QED BY <3>3, <4>1
    <3>7. ASSUME NEW s \in Level(n) PROVE g[s] = SumBody(f, g, s)
      <4>1. CASE s = {}
        BY <4>1 DEF SumBody
      <4>2. CASE s # {}
        <5>1. g[s \ {Pick(s)}] = h[s \ {Pick(s)}]
          BY <3>4, <3>6, <4>2
        <5> QED BY <4>2, <5>1 DEF SumBody
      <4> QED BY <4>1, <4>2
    <3>8. Good(n)
      BY <3>5, <3>7
    <3> QED BY <2>2, <3>8
  <2> QED BY <2>3, <2>4
<1>3. Cardinality(S) \in Nat /\ Level(Cardinality(S)) = SUBSET S
  <2>1. \A s \in SUBSET S : Cardinality(s) <= Cardinality(S)
    BY FS_Subset
  <2> QED BY <1>1, <2>1
<1>4. Good(Cardinality(S))
  BY <1>2, <1>3
<1>5. PICK g \in [SUBSET S -> Int] : \A s \in SUBSET S : g[s] = SumBody(f, g, s)
  BY <1>3, <1>4
<1> QED BY <1>5 DEF IsSum

(* On the subsets of a finite set, the equation has one solution.          *)
LEMMA SumUnique ==
  ASSUME NEW S, IsFiniteSet(S), NEW f, NEW g, NEW h,
         Solves(f, S, g), Solves(f, S, h)
  PROVE  g[S] = h[S]
<1> DEFINE G == {s \in SUBSET S : g[s] = h[s]}
<1>1. SUFFICES ASSUME NEW T \in SUBSET S,
                      \A U \in SUBSET S : Cardinality(U) < Cardinality(T) => U \in G
               PROVE  T \in G
  <2>1. SUBSET S \subseteq G
    BY <1>1, BySize
  <2> QED BY <2>1
<1>2. CASE T = {}
  BY <1>2 DEF Solves, SumBody
<1>3. CASE T # {}
  <2>1. Pick(T) \in T
    BY <1>3, PickIn
  <2>2. Cardinality(T \ {Pick(T)}) = Cardinality(T) - 1 /\ Cardinality(T) \in Nat
    BY <2>1, FS_Subset, FS_RemoveElement, FS_CardinalityType
  <2>3. g[T \ {Pick(T)}] = h[T \ {Pick(T)}]
    BY <1>1, <2>2
  <2> QED BY <1>3, <2>3 DEF Solves, SumBody
<1> QED BY <1>2, <1>3

(* The recursive equation of a sum, and its type.                          *)
LEMMA SumEquation ==
  ASSUME NEW S, IsFiniteSet(S), NEW f, \A x \in S : f[x] \in Int
  PROVE  /\ SumFunctionOnSet(f, S) \in Int
         /\ SumFunctionOnSet(f, S) =
              IF S = {} THEN 0
              ELSE f[Pick(S)] + SumFunctionOnSet(f, S \ {Pick(S)})
<1> DEFINE sol(T) == CHOOSE g : IsSum(f, T, g)
<1>1. ASSUME NEW T \in SUBSET S
      PROVE  /\ SumFunctionOnSet(f, T) = sol(T)[T] /\ SumFunctionOnSet(f, T) \in Int
             /\ Solves(f, T, sol(T))
  <2>1. IsFiniteSet(T) /\ \A x \in T : f[x] \in Int
    BY FS_Subset
  <2>2. PICK g \in [SUBSET T -> Int] : IsSum(f, T, g)
    BY <2>1, SumExists
  <2>3. IsSum(f, T, sol(T))
    BY <2>2
  <2>4. SumFunctionOnSet(f, T) = sol(T)[T]
    BY SumIsChosen
  <2> HIDE DEF sol
  <2>5. Solves(f, T, sol(T)) /\ Solves(f, T, g)
    BY <2>2, <2>3 DEF IsSum, Solves
  <2>6. sol(T)[T] = g[T]
    BY <2>1, <2>5, SumUnique
  <2> QED BY <2>2, <2>4, <2>5, <2>6
<1> HIDE DEF sol
<1>2. CASE S = {}
  BY <1>1, <1>2 DEF Solves, SumBody
<1>3. CASE S # {}
  <2> DEFINE T == S \ {Pick(S)}
  <2>1. SumFunctionOnSet(f, S) = f[Pick(S)] + sol(S)[T]
    BY <1>1, <1>3 DEF Solves, SumBody
  <2>2. Solves(f, T, sol(S)) /\ Solves(f, T, sol(T)) /\ IsFiniteSet(T)
    BY <1>1, FS_Subset DEF Solves
  <2>3. SumFunctionOnSet(f, T) = sol(T)[T]
    BY <1>1
  <2> HIDE DEF T
  <2>4. sol(S)[T] = sol(T)[T]
    BY <2>2, SumUnique
  <2> QED BY <1>1, <1>3, <2>1, <2>3, <2>4 DEF T
<1> QED BY <1>2, <1>3

(* A sum of integers is an integer.                                        *)
LEMMA SumType ==
  ASSUME NEW S, IsFiniteSet(S), NEW f, \A x \in S : f[x] \in Int
  PROVE  SumFunctionOnSet(f, S) \in Int
BY SumEquation

(* The sum of nothing.                                                     *)
LEMMA SumEmpty ==
  ASSUME NEW f
  PROVE  SumFunctionOnSet(f, {}) = 0
BY SumEquation, FS_EmptySet

(* Any element may be taken out of a sum, not just the one Pick chooses.   *)
LEMMA SumTake ==
  ASSUME NEW S, IsFiniteSet(S), NEW f, \A y \in S : f[y] \in Int, NEW x \in S
  PROVE  SumFunctionOnSet(f, S) = f[x] + SumFunctionOnSet(f, S \ {x})
<1> DEFINE Sum(T) == SumFunctionOnSet(f, T)
           G == {T \in SUBSET S : \A y \in T : Sum(T) = f[y] + Sum(T \ {y})}
<1>1. \A T \in SUBSET S : IsFiniteSet(T) /\ Cardinality(T) \in Nat /\ Sum(T) \in Int
  BY FS_Subset, FS_CardinalityType, SumType
<1>2. ASSUME NEW T \in SUBSET S,
             \A U \in SUBSET S : Cardinality(U) < Cardinality(T) => U \in G
      PROVE  T \in G
  <2>1. SUFFICES ASSUME NEW y \in T PROVE Sum(T) = f[y] + Sum(T \ {y})
    OBVIOUS
  <2> DEFINE p == Pick(T)
  <2>2. p \in T
    BY <2>1, PickIn
  <2>3. Sum(T) = f[p] + Sum(T \ {p})
    BY <1>1, <2>1, SumEquation
  <2>4. CASE y = p
    BY <2>3, <2>4
  <2>5. CASE y # p
    <3>1. ASSUME NEW z \in T
          PROVE  T \ {z} \in SUBSET S /\ Cardinality(T \ {z}) < Cardinality(T)
      BY <1>1, FS_RemoveElement
    <3>2. T \ {p} \in G /\ T \ {y} \in G
      BY <1>2, <2>2, <3>1
    <3>3. Sum(T \ {p}) = f[y] + Sum((T \ {p}) \ {y})
      BY <2>1, <2>5, <3>2
    <3>4. Sum(T \ {y}) = f[p] + Sum((T \ {y}) \ {p})
      BY <2>2, <2>5, <3>2
    <3>5. (T \ {p}) \ {y} = (T \ {y}) \ {p}
      OBVIOUS
    <3>6. f[p] \in Int /\ f[y] \in Int /\ Sum((T \ {p}) \ {y}) \in Int
      BY <1>1, <2>2
    <3> HIDE DEF Sum, p
    <3>7. Sum((T \ {y}) \ {p}) \in Int /\ Sum(T) = f[p] + (f[y] + Sum((T \ {y}) \ {p}))
      BY <2>3, <3>3, <3>5, <3>6
    <3> QED BY <3>4, <3>6, <3>7
  <2> QED BY <2>4, <2>5
<1>3. SUBSET S \subseteq G
  <2> HIDE DEF G
  <2> QED BY <1>2, BySize
<1> QED BY <1>3

(* An element added to the set adds its number to the sum.                 *)
LEMMA SumAdd ==
  ASSUME NEW S, IsFiniteSet(S), NEW f, NEW x, x \notin S, \A y \in S \cup {x} : f[y] \in Int
  PROVE  SumFunctionOnSet(f, S \cup {x}) = f[x] + SumFunctionOnSet(f, S)
<1>1. IsFiniteSet(S \cup {x}) /\ (S \cup {x}) \ {x} = S
  BY FS_AddElement
<1> QED BY <1>1, SumTake

(* A sum depends on the summands only.                                     *)
LEMMA SumCongruent ==
  ASSUME NEW S, IsFiniteSet(S), NEW f, NEW g, \A x \in S : f[x] \in Int /\ f[x] = g[x]
  PROVE  SumFunctionOnSet(f, S) = SumFunctionOnSet(g, S)
<1> DEFINE G == {T \in SUBSET S : SumFunctionOnSet(f, T) = SumFunctionOnSet(g, T)}
<1>1. {} \in G
  BY SumEmpty
<1>2. ASSUME NEW T \in SUBSET S, NEW x \in S \ T, T \in G PROVE T \cup {x} \in G
  <2>1. IsFiniteSet(T) /\ \A y \in T \cup {x} : f[y] \in Int /\ g[y] \in Int /\ f[y] = g[y]
    BY FS_Subset
  <2>2. /\ SumFunctionOnSet(f, T \cup {x}) = f[x] + SumFunctionOnSet(f, T)
        /\ SumFunctionOnSet(g, T \cup {x}) = g[x] + SumFunctionOnSet(g, T)
    BY <2>1, SumAdd
  <2> QED BY <1>2, <2>1, <2>2
<1>3. S \in G
  <2> HIDE DEF G
  <2> QED BY <1>1, <1>2, ByElement
<1> QED BY <1>3

(* Larger numbers have a larger sum.                                       *)
LEMMA SumMonotone ==
  ASSUME NEW S, IsFiniteSet(S), NEW f, NEW g,
         \A x \in S : f[x] \in Int /\ g[x] \in Int /\ f[x] <= g[x]
  PROVE  SumFunctionOnSet(f, S) <= SumFunctionOnSet(g, S)
<1> DEFINE G == {T \in SUBSET S : SumFunctionOnSet(f, T) <= SumFunctionOnSet(g, T)}
<1>1. {} \in G
  BY SumEmpty
<1>2. ASSUME NEW T \in SUBSET S, NEW x \in S \ T, T \in G PROVE T \cup {x} \in G
  <2>1. IsFiniteSet(T) /\ SumFunctionOnSet(f, T) \in Int /\ SumFunctionOnSet(g, T) \in Int
    BY FS_Subset, SumType
  <2>2. /\ SumFunctionOnSet(f, T \cup {x}) = f[x] + SumFunctionOnSet(f, T)
        /\ SumFunctionOnSet(g, T \cup {x}) = g[x] + SumFunctionOnSet(g, T)
    BY <2>1, SumAdd
  <2> QED BY <1>2, <2>1, <2>2
<1>3. S \in G
  <2> HIDE DEF G
  <2> QED BY <1>1, <1>2, ByElement
<1> QED BY <1>3

(* The sum of sums.                                                        *)
LEMMA SumPlus ==
  ASSUME NEW S, IsFiniteSet(S), NEW f, NEW g, NEW h,
         \A x \in S : f[x] \in Int /\ g[x] \in Int /\ h[x] = f[x] + g[x]
  PROVE  SumFunctionOnSet(h, S) = SumFunctionOnSet(f, S) + SumFunctionOnSet(g, S)
<1> DEFINE G == {T \in SUBSET S :
              SumFunctionOnSet(h, T) = SumFunctionOnSet(f, T) + SumFunctionOnSet(g, T)}
<1>1. {} \in G
  BY SumEmpty
<1>2. ASSUME NEW T \in SUBSET S, NEW x \in S \ T, T \in G PROVE T \cup {x} \in G
  <2>0. IsFiniteSet(T) /\ \A y \in T : f[y] \in Int /\ g[y] \in Int
    BY FS_Subset
  <2>1. /\ IsFiniteSet(T) /\ SumFunctionOnSet(f, T) \in Int /\ SumFunctionOnSet(g, T) \in Int
        /\ \A y \in S : h[y] \in Int
    BY <2>0, SumType
  <2>2. /\ SumFunctionOnSet(f, T \cup {x}) = f[x] + SumFunctionOnSet(f, T)
        /\ SumFunctionOnSet(g, T \cup {x}) = g[x] + SumFunctionOnSet(g, T)
        /\ SumFunctionOnSet(h, T \cup {x}) = h[x] + SumFunctionOnSet(h, T)
    BY <2>1, SumAdd
  <2> QED BY <1>2, <2>1, <2>2
<1>3. S \in G
  <2> HIDE DEF G
  <2> QED BY <1>1, <1>2, ByElement
<1> QED BY <1>3

(* A sum of natural numbers is one, and no less than any of them or than   *)
(* the sum of some of them.                                                *)
LEMMA SumNat ==
  ASSUME NEW S, IsFiniteSet(S), NEW f, \A x \in S : f[x] \in Nat
  PROVE  /\ SumFunctionOnSet(f, S) \in Nat
         /\ \A x \in S : f[x] <= SumFunctionOnSet(f, S)
<1>1. ASSUME NEW U \in SUBSET S PROVE SumFunctionOnSet(f, U) \in Nat
  <2> DEFINE H == {T \in SUBSET U : SumFunctionOnSet(f, T) \in Nat}
  <2>1. {} \in H
    BY SumEmpty
  <2>2. ASSUME NEW T \in SUBSET U, NEW x \in U \ T, T \in H PROVE T \cup {x} \in H
    <3>0. T \subseteq S /\ IsFiniteSet(T) /\ x \notin T /\ \A y \in T \cup {x} : f[y] \in Int
      BY FS_Subset
    <3>1. SumFunctionOnSet(f, T \cup {x}) = f[x] + SumFunctionOnSet(f, T)
      BY <3>0, SumAdd
    <3> QED BY <2>2, <3>1
  <2>3. IsFiniteSet(U)
    BY FS_Subset
  <2>4. U \in H
    <3> HIDE DEF H
    <3> QED BY <2>1, <2>2, <2>3, ByElement
  <2> QED BY <2>4
<1>2. ASSUME NEW x \in S PROVE f[x] <= SumFunctionOnSet(f, S)
  <2>1. SumFunctionOnSet(f, S) = f[x] + SumFunctionOnSet(f, S \ {x})
    BY SumTake
  <2>2. SumFunctionOnSet(f, S \ {x}) \in Nat /\ f[x] \in Nat
    BY <1>1
  <2> QED BY <2>1, <2>2
<1> QED BY <1>1, <1>2

(* A sum may be taken over the images of an injective function.            *)
LEMMA SumOfImage ==
  ASSUME NEW S, IsFiniteSet(S), NEW r, NEW f, NEW g,
         \A x, y \in S : r[x] = r[y] => x = y,
         \A x \in S : g[x] \in Int /\ g[x] = f[r[x]]
  PROVE  SumFunctionOnSet(g, S) = SumFunctionOnSet(f, {r[x] : x \in S})
<1> DEFINE image(T) == {r[x] : x \in T}
           G == {T \in SUBSET S : SumFunctionOnSet(g, T) = SumFunctionOnSet(f, image(T))}
<1>1. {} \in G
  <2>1. image({}) = {}
    OBVIOUS
  <2> QED BY <2>1, SumEmpty
<1>2. ASSUME NEW T \in SUBSET S, NEW x \in S \ T, T \in G PROVE T \cup {x} \in G
  <2>1. IsFiniteSet(T)
    BY FS_Subset
  <2>2. IsFiniteSet(image(T))
    <3>1. [y \in T |-> r[y]] \in Surjection(T, image(T))
      BY DEF Surjection
    <3> QED BY <2>1, <3>1, FS_Surjection
  <2>3. image(T \cup {x}) = image(T) \cup {r[x]} /\ r[x] \notin image(T)
    OBVIOUS
  <2>4. \A y \in image(T) \cup {r[x]} : f[y] \in Int
    OBVIOUS
  <2> HIDE DEF image
  <2>5. SumFunctionOnSet(f, image(T) \cup {r[x]}) = f[r[x]] + SumFunctionOnSet(f, image(T))
    BY <2>2, <2>3, <2>4, SumAdd
  <2>6. SumFunctionOnSet(g, T \cup {x}) = g[x] + SumFunctionOnSet(g, T)
    BY <2>1, SumAdd
  <2> QED BY <1>2, <2>3, <2>5, <2>6
<1>3. S \in G
  <2> HIDE DEF G
  <2> QED BY <1>1, <1>2, ByElement
<1> QED BY <1>3

(* A sum over part of a set is one over the set with the rest as zeros.    *)
LEMMA SumOfPart ==
  ASSUME NEW S, IsFiniteSet(S), NEW T \in SUBSET S, NEW f, NEW g,
         \A x \in T : f[x] \in Int,
         \A x \in S : g[x] = IF x \in T THEN f[x] ELSE 0
  PROVE  SumFunctionOnSet(g, S) = SumFunctionOnSet(f, T)
<1> DEFINE G == {U \in SUBSET S : SumFunctionOnSet(g, U) = SumFunctionOnSet(f, U \cap T)}
<1>1. {} \in G
  <2>1. {} \cap T = {}
    OBVIOUS
  <2> QED BY <2>1, SumEmpty
<1>2. ASSUME NEW U \in SUBSET S, NEW x \in S \ U, U \in G PROVE U \cup {x} \in G
  <2>1. IsFiniteSet(U) /\ IsFiniteSet(U \cap T)
    BY FS_Subset
  <2>2. \A y \in S : g[y] \in Int
    OBVIOUS
  <2>3. SumFunctionOnSet(g, U \cup {x}) = g[x] + SumFunctionOnSet(g, U)
    BY <2>1, <2>2, SumAdd
  <2>4. SumFunctionOnSet(f, U \cap T) \in Int
    BY <2>1, SumType
  <2>5. CASE x \in T
    <3>1. (U \cup {x}) \cap T = (U \cap T) \cup {x} /\ x \notin U \cap T
      BY <2>5
    <3>2. SumFunctionOnSet(f, (U \cap T) \cup {x}) = f[x] + SumFunctionOnSet(f, U \cap T)
      BY <2>1, <2>5, SumAdd
    <3> QED BY <1>2, <2>3, <2>5, <3>1, <3>2
  <2>6. CASE x \notin T
    <3>1. (U \cup {x}) \cap T = U \cap T
      BY <2>6
    <3>2. SumFunctionOnSet(g, U \cup {x}) = SumFunctionOnSet(g, U)
      BY <1>2, <2>3, <2>4, <2>6
    <3> QED BY <1>2, <3>1, <3>2
  <2> QED BY <2>5, <2>6
<1>3. S \in G
  <2> HIDE DEF G
  <2> QED BY <1>1, <1>2, ByElement
<1>4. S \cap T = T
  OBVIOUS
<1> QED BY <1>3, <1>4

(* Of natural numbers, a part is no more than the whole.                   *)
LEMMA SumOfSubset ==
  ASSUME NEW S, IsFiniteSet(S), NEW T \in SUBSET S, NEW f, \A x \in S : f[x] \in Nat
  PROVE  SumFunctionOnSet(f, T) <= SumFunctionOnSet(f, S)
<1> DEFINE g == [x \in S |-> IF x \in T THEN f[x] ELSE 0]
<1>1. SumFunctionOnSet(g, S) = SumFunctionOnSet(f, T)
  BY SumOfPart
<1>2. SumFunctionOnSet(g, S) <= SumFunctionOnSet(f, S)
  BY SumMonotone
<1> QED BY <1>1, <1>2

(* Where every summand of f is at most that of g and one is less, so is    *)
(* the sum.                                                                *)
LEMMA SumStrict ==
  ASSUME NEW S, IsFiniteSet(S), NEW f, NEW g,
         \A x \in S : f[x] \in Int /\ g[x] \in Int /\ f[x] <= g[x],
         \E x \in S : f[x] < g[x]
  PROVE  SumFunctionOnSet(f, S) < SumFunctionOnSet(g, S)
<1> DEFINE h == [x \in S |-> g[x] - f[x]]
<1>1. PICK x \in S : f[x] < g[x]
  OBVIOUS
<1>2. \A y \in S : h[y] \in Nat /\ g[y] = f[y] + h[y]
  OBVIOUS
<1>3. h[x] > 0
  BY <1>1
<1> HIDE DEF h
<1>4. SumFunctionOnSet(g, S) = SumFunctionOnSet(f, S) + SumFunctionOnSet(h, S)
  BY <1>2, SumPlus
<1>5. h[x] <= SumFunctionOnSet(h, S) /\ SumFunctionOnSet(h, S) \in Nat
  BY <1>2, SumNat
<1>6. SumFunctionOnSet(f, S) \in Int
  BY SumType
<1> QED BY <1>2, <1>3, <1>4, <1>5, <1>6

(* An injection of a finite set into itself reaches all of it.             *)
LEMMA InjectionCovers ==
  ASSUME NEW S, IsFiniteSet(S), NEW s \in [S -> S],
         \A x, y \in S : s[x] = s[y] => x = y
  PROVE  \A y \in S : \E x \in S : s[x] = y
<1>1. s \in Injection(S, S)
  BY DEF Injection, IsInjective
<1>2. s \in Surjection(S, S)
  BY <1>1, FS_Injection
<1> QED BY <1>2 DEF Surjection

(* The greatest and the least of two numbers.                              *)
LEMMA TwoNumbers ==
  ASSUME NEW x \in Int, NEW y \in Int
  PROVE  /\ Max({x, y}) = IF x <= y THEN y ELSE x
         /\ Min({x, y}) = IF x <= y THEN x ELSE y
<1>1. Max({x, y}) = IF x <= y THEN y ELSE x
  <2>1. PICK m \in {x, y} : \A n \in {x, y} : m >= n
    OBVIOUS
  <2>2. Max({x, y}) \in {x, y} /\ \A n \in {x, y} : Max({x, y}) >= n
    BY <2>1, Zenon DEF Max
  <2> QED BY <2>2
<1>2. Min({x, y}) = IF x <= y THEN x ELSE y
  <2>1. PICK m \in {x, y} : \A n \in {x, y} : m <= n
    OBVIOUS
  <2>2. Min({x, y}) \in {x, y} /\ \A n \in {x, y} : Min({x, y}) <= n
    BY <2>1, Zenon DEF Min
  <2> QED BY <2>2
<1> QED BY <1>1, <1>2

(* A division rounded down grows with what is divided.                     *)
LEMMA QuotientGrows ==
  ASSUME NEW a \in Nat, NEW b \in Nat, a <= b, NEW d \in Nat \ {0}
  PROVE  a \div d \in Nat /\ a \div d <= b \div d
OBVIOUS

(* A product grows with its factor.                                        *)
LEMMA ProductGrows ==
  ASSUME NEW a \in Nat, NEW b \in Nat, a <= b, NEW c \in Nat
  PROVE  a * c \in Nat /\ a * c <= b * c
OBVIOUS

-----------------------------------------------------------------------------
(* The waterfall.                                                          *)

Running == progress \in {"walking", "proposed"}

InputsOK ==
  /\ incoming \in Int64
  /\ \A c \in DOMAIN budgeted : budgeted[c] \in Int64
  /\ tiers \in Seq([stop : BOOLEAN, categories : Seq([category : Categories, need : Int64])])

(* Before the walk begins nothing is assigned, and it begins after checks. *)
Begins ==
  /\ progress = "called" =>
       remaining = incoming /\ tierNeeded = 0 /\ tierAllocated = 0
  /\ ~ Running =>
       allocations = <<>> /\ tierSummary = <<>> /\ stopAllocatingRemainingTiers = FALSE
  /\ Running => ValidTiers
  /\ tier >= 1 /\ place >= 1

(* While money remains, all that the walk has seen is funded.              *)
FundedSoFar ==
  Running /\ remaining > 0 =>
    /\ tierNeeded = tierAllocated
    /\ \A t \in DOMAIN tierSummary : tierSummary[t].shortBy = 0
    /\ \A i \in DOMAIN allocations : ~ (allocations[i].assigned < NeedOf(allocations[i]))

IInv ==
  InputsOK /\ WaterfallTypeOK /\ Begins /\ FundedSoFar /\ StopsWithNothingLeft /\ PriorityRespected

-----------------------------------------------------------------------------
(* Wrap yields an int64 from any sum or difference of two of them, and     *)
(* leaves an int64 as it is.                                               *)
LEMMA WrapIsInt64 ==
  ASSUME NEW x \in Int, - 2 * (MaxInt + 1) <= x, x <= 2 * MaxInt + 1
  PROVE  Wrap(x) \in Int64 /\ (x \in Int64 => Wrap(x) = x)
  BY WaterfallAssumption DEF Wrap, Int64

(* A bounded sequence is a sequence.                                       *)
LEMMA UpToIsSeq ==
  ASSUME NEW n, NEW S, NEW T, S \subseteq T
  PROVE  UpTo(n, S) \subseteq Seq(T)
  BY DEF UpTo

(* The invariant holds of every call that arrives.                         *)
LEMMA InitEstablishes == WaterfallInit => IInv
<1> SUFFICES ASSUME WaterfallInit PROVE IInv
  OBVIOUS
<1>1. TierEntries \subseteq [category : Categories, need : Int64]
  BY WaterfallAssumption DEF TierEntries
<1>2. Tiers \subseteq [stop : BOOLEAN, categories : Seq([category : Categories, need : Int64])]
  <2>1. UpTo(MaxEntries, TierEntries) \subseteq Seq([category : Categories, need : Int64])
    BY <1>1, UpToIsSeq
  <2> QED
    BY <2>1 DEF Tiers
<1>3. InputsOK
  <2>1. tiers \in Seq([stop : BOOLEAN, categories : Seq([category : Categories, need : Int64])])
    BY <1>2, UpToIsSeq DEF WaterfallInit
  <2>2. incoming \in Int64 /\ \A c \in DOMAIN budgeted : budgeted[c] \in Int64
    BY WaterfallAssumption DEF WaterfallInit
  <2> QED
    BY <2>1, <2>2 DEF InputsOK
<1>4. WaterfallTypeOK
  <2> DEFINE Rec == [tier : Nat, place : Nat, category : Categories,
                     assigned : Nat, newBudgeted : Int64]
  <2> DEFINE Sum == [needed : Int64, allocated : Nat, shortBy : Int64]
  <2>1. allocations \in Seq(Rec) /\ tierSummary \in Seq(Sum)
    <3> HIDE DEF Rec, Sum
    <3> QED
      BY DEF WaterfallInit
  <2>2. 0 \in Int64
    BY WaterfallAssumption DEF Int64
  <2> QED
    BY <2>1, <2>2 DEF WaterfallInit, WaterfallTypeOK
<1>5. Begins /\ FundedSoFar /\ StopsWithNothingLeft /\ PriorityRespected
  BY DEF WaterfallInit, Begins, Running, FundedSoFar, StopsWithNothingLeft, PriorityRespected
<1> QED
  BY <1>3, <1>4, <1>5 DEF IInv

(* The entry the walk is at is one of the call's, with a need.             *)
LEMMA CurrentIsEntry ==
  ASSUME IInv, AtEntry
  PROVE  /\ Current.category \in Categories
         /\ Current.need \in Int64 /\ Current.need >= 0
         /\ tier \in DOMAIN tiers /\ place \in DOMAIN tiers[tier].categories
<1>1. tier \in 1..Len(tiers)
  BY DEF IInv, WaterfallTypeOK, Begins, AtEntry
<1> DEFINE E == [category : Categories, need : Int64]
<1> DEFINE T == [stop : BOOLEAN, categories : Seq(E)]
<1>2. tiers[tier] \in T
  <2>1. tiers \in Seq(T)
    BY DEF IInv, InputsOK
  <2> HIDE DEF T
  <2> QED
    BY <1>1, <2>1
<1>3. place \in 1..Len(tiers[tier].categories)
  BY <1>2 DEF IInv, WaterfallTypeOK, Begins, AtEntry
<1>4. Current \in E
  <2>1. tiers[tier].categories \in Seq(E)
    BY <1>2
  <2> HIDE DEF E
  <2> QED
    BY <2>1, <1>3 DEF Current
<1>5. tier \in DOMAIN tiers /\ place \in DOMAIN tiers[tier].categories
  BY <1>1, <1>2, <1>3 DEF IInv, InputsOK
<1>6. Current.need >= 0
  BY <1>5 DEF IInv, Begins, Running, AtEntry, ValidTiers, Current
<1> QED
  BY <1>4, <1>5, <1>6

(* A record appended to the plan: its type, and what becomes of priority.  *)
LEMMA ProposeKeeps ==
  ASSUME IInv, AtEntry, Current.category \in DOMAIN budgeted,
         NEW alloc \in 0..remaining, Propose(alloc), UNCHANGED waterfallInputs,
         remaining = 0 => alloc = 0
  PROVE  /\ allocations' \in Seq([tier : Nat, place : Nat, category : Categories,
                                  assigned : Nat, newBudgeted : Int64])
         /\ PriorityRespected'
         /\ (~ (alloc < Current.need) /\ FundedSoFar /\ Running /\ remaining > 0) =>
              \A i \in DOMAIN allocations' :
                ~ (allocations[i].assigned < NeedOf(allocations[i]))'
<1> DEFINE rec == [tier |-> tier, place |-> place, category |-> Current.category,
                   assigned |-> alloc, newBudgeted |-> NewBudgeted(Current.category, alloc)]
<1> DEFINE Rec == [tier : Nat, place : Nat, category : Categories,
                   assigned : Nat, newBudgeted : Int64]
<1>1. remaining \in Nat /\ remaining <= incoming /\ incoming \in Int64 /\ Running
  BY DEF IInv, WaterfallTypeOK, InputsOK, AtEntry, Running, Int64
<1>2. alloc \in Nat /\ alloc <= MaxInt
  BY <1>1, WaterfallAssumption DEF Int64
<1>3. rec \in Rec
  <2>1. budgeted[Current.category] \in Int64
    BY DEF IInv, InputsOK
  <2>2. budgeted[Current.category] + alloc \in Int
        /\ - 2 * (MaxInt + 1) <= budgeted[Current.category] + alloc
        /\ budgeted[Current.category] + alloc <= 2 * MaxInt + 1
    BY <2>1, <1>2, WaterfallAssumption DEF Int64
  <2>3. NewBudgeted(Current.category, alloc) \in Int64
    BY <2>2, WrapIsInt64 DEF NewBudgeted
  <2>4. tier \in Nat /\ place \in Nat
    BY DEF IInv, WaterfallTypeOK
  <2> QED
    BY <2>3, <2>4, <1>2, CurrentIsEntry
<1>4. allocations \in Seq(Rec)
  BY DEF IInv, WaterfallTypeOK
<1>5. allocations' = Append(allocations, rec)
  BY DEF Propose
<1> HIDE DEF rec, Rec
<1>6. allocations' \in Seq(Rec)
  BY <1>3, <1>4, <1>5
<1>7. /\ Len(allocations') = Len(allocations) + 1 /\ Len(allocations) \in Nat
      /\ DOMAIN allocations' = 1..(Len(allocations) + 1)
      /\ DOMAIN allocations = 1..Len(allocations)
      /\ \A i \in DOMAIN allocations : allocations'[i] = allocations[i]
      /\ allocations'[Len(allocations) + 1] = rec
  BY <1>3, <1>4, <1>5
<1>8. tiers' = tiers
  BY DEF waterfallInputs
<1>9. rec.assigned = alloc /\ tiers'[rec.tier].categories[rec.place].need = Current.need
  BY <1>8 DEF rec, Current
<1>10. \A i \in DOMAIN allocations : NeedOf(allocations[i])' = NeedOf(allocations[i])
  BY <1>7, <1>8 DEF NeedOf
<1>11. \A i \in DOMAIN allocations :
         allocations[i].assigned < NeedOf(allocations[i]) => alloc = 0
  BY <1>1, <1>2 DEF IInv, FundedSoFar
<1>12. PriorityRespected'
  <2> SUFFICES ASSUME NEW i \in DOMAIN allocations', NEW j \in DOMAIN allocations',
                      i < j, (allocations[i].assigned < NeedOf(allocations[i]))'
               PROVE  allocations'[j].assigned = 0
    BY DEF PriorityRespected
  <2>1. i \in DOMAIN allocations /\ allocations[i].assigned < NeedOf(allocations[i])
    BY <1>7, <1>10
  <2>2. CASE j \in DOMAIN allocations
    BY <2>1, <2>2, <1>7 DEF IInv, PriorityRespected
  <2>3. CASE j = Len(allocations) + 1
    BY <2>1, <2>3, <1>7, <1>9, <1>11
  <2> QED
    BY <2>2, <2>3, <1>7
<1>13. ASSUME ~ (alloc < Current.need), FundedSoFar, Running, remaining > 0,
              NEW i \in DOMAIN allocations'
       PROVE  ~ (allocations[i].assigned < NeedOf(allocations[i]))'
  <2>1. CASE i \in DOMAIN allocations
    BY <1>13, <2>1, <1>7, <1>10 DEF FundedSoFar
  <2>2. CASE i = Len(allocations) + 1
    BY <1>13, <2>2, <1>7, <1>9 DEF NeedOf
  <2> QED
    BY <2>1, <2>2, <1>7
<1> QED
  BY <1>6, <1>12, <1>13 DEF Rec

(* The checks of the handler keep the invariant.                           *)
LEMMA CheckKeeps == IInv /\ CheckTiers => IInv'
<1> SUFFICES ASSUME IInv, CheckTiers PROVE IInv'
  OBVIOUS
<1> USE DEF CheckTiers, waterfallInputs, walk
<1>1. InputsOK'
  BY DEF IInv, InputsOK
<1>2. WaterfallTypeOK'
  <2>1. UNCHANGED walk /\ UNCHANGED <<allocations, tierSummary, incoming>>
        /\ progress' \in {"walking", "refused"}
    OBVIOUS
  <2>2. progress' = "walking" =>
          ValidTiers /\ remaining = incoming /\ tierAllocated = 0
    BY DEF IInv, Begins
  <2>3. incoming \in Int /\ (ValidTiers => incoming >= 0)
    BY DEF IInv, InputsOK, ValidTiers, Int64
  <2>4. progress' \in {"walking", "proposed"} =>
          remaining' \in 0..incoming' /\ tierAllocated' \in 0..(incoming' - remaining')
    BY <2>1, <2>2, <2>3
  <2> QED
    BY <2>1, <2>4 DEF IInv, WaterfallTypeOK
<1>3. Begins'
  BY DEF IInv, Begins, Running, ValidTiers
<1>4. allocations' = <<>> /\ tierSummary' = <<>> /\ stopAllocatingRemainingTiers' = FALSE
      /\ tierNeeded' = tierAllocated'
  BY DEF IInv, Begins, Running
<1>5. FundedSoFar' /\ StopsWithNothingLeft' /\ PriorityRespected'
  BY <1>4 DEF FundedSoFar, StopsWithNothingLeft, PriorityRespected
<1> QED
  BY <1>1, <1>2, <1>3, <1>5 DEF IInv

(* A tier skipped because an earlier one stopped the walk keeps it.        *)
LEMMA SkipKeeps == IInv /\ Skip => IInv'
<1> SUFFICES ASSUME IInv, Skip PROVE IInv'
  OBVIOUS
<1> USE DEF Skip, waterfallInputs
<1>1. InputsOK' /\ StopsWithNothingLeft'
  BY DEF IInv, InputsOK, StopsWithNothingLeft
<1>2. WaterfallTypeOK'
  BY DEF IInv, WaterfallTypeOK
<1>3. Begins'
  BY DEF IInv, WaterfallTypeOK, Begins, Running, ValidTiers, AtEntry
<1>4. FundedSoFar' /\ PriorityRespected'
  BY DEF IInv, FundedSoFar, PriorityRespected, Running, NeedOf
<1> QED
  BY <1>1, <1>2, <1>3, <1>4 DEF IInv

(* Needs of the tier stay int64s, whatever is added to them.               *)
LEMMA NeededIsInt64 ==
  ASSUME IInv, AtEntry
  PROVE  Wrap(tierNeeded + Current.need) \in Int64
<1>1. tierNeeded \in Int64 /\ Current.need \in Int64
  BY CurrentIsEntry DEF IInv, WaterfallTypeOK
<1>2. /\ tierNeeded + Current.need \in Int
      /\ - 2 * (MaxInt + 1) <= tierNeeded + Current.need
      /\ tierNeeded + Current.need <= 2 * MaxInt + 1
  BY <1>1, WaterfallAssumption DEF Int64
<1> QED
  BY <1>2, WrapIsInt64

(* An entry that gets nothing keeps it.                                    *)
LEMMA WithholdKeeps == IInv /\ Withhold => IInv'
<1> SUFFICES ASSUME IInv, Withhold PROVE IInv'
  OBVIOUS
<1>1. AtEntry /\ Current.category \in DOMAIN budgeted /\ Propose(0) /\ UNCHANGED waterfallInputs
  BY DEF Withhold, waterfallInputs
<1>2. remaining = 0 /\ 0 \in 0..remaining
  BY DEF Withhold, waterfallInputs, IInv, StopsWithNothingLeft
<1>3. /\ allocations' \in Seq([tier : Nat, place : Nat, category : Categories,
                                assigned : Nat, newBudgeted : Int64])
      /\ PriorityRespected'
  BY <1>1, <1>2, ProposeKeeps
<1>4. tierNeeded' \in Int64
  BY <1>1, NeededIsInt64 DEF Withhold
<1>5. WaterfallTypeOK'
  BY <1>3, <1>4 DEF Withhold, waterfallInputs, IInv, WaterfallTypeOK
<1>6. InputsOK' /\ StopsWithNothingLeft' /\ FundedSoFar'
  BY <1>2 DEF Withhold, waterfallInputs, IInv, InputsOK, StopsWithNothingLeft, FundedSoFar
<1>7. Begins'
  BY DEF Withhold, waterfallInputs, IInv, WaterfallTypeOK, Begins, Running, ValidTiers, AtEntry
<1> QED
  BY <1>3, <1>5, <1>6, <1>7 DEF IInv

(* An allocation keeps it.                                                 *)
LEMMA AllocateKeeps == IInv /\ Allocate => IInv'
<1> SUFFICES ASSUME IInv, Allocate PROVE IInv'
  OBVIOUS
<1> DEFINE alloc == Alloc(Current.need)
<1>1. AtEntry /\ Current.category \in DOMAIN budgeted /\ Propose(alloc) /\ UNCHANGED waterfallInputs
  BY DEF Allocate, waterfallInputs
<1>2. /\ remaining \in Nat /\ remaining <= incoming /\ incoming \in Int64 /\ Running
      /\ tierAllocated \in 0..(incoming - remaining)
  BY <1>1 DEF IInv, WaterfallTypeOK, InputsOK, AtEntry, Running, Int64
<1>3. Current.need \in Nat
  BY <1>1, CurrentIsEntry, WaterfallAssumption DEF Int64
<1>4. /\ alloc \in 0..remaining /\ (remaining = 0 => alloc = 0)
      /\ (remaining - alloc > 0 => alloc = Current.need)
  BY <1>2, <1>3 DEF Alloc
<1>5. remaining' = remaining - alloc /\ tierAllocated' = tierAllocated + alloc
  BY DEF Allocate, waterfallInputs, RemainingAfter
<1>6. tierNeeded' \in Int64 /\ tierNeeded' = Wrap(tierNeeded + Current.need)
  BY <1>1, NeededIsInt64 DEF Allocate
<1> HIDE DEF alloc
<1>7. /\ allocations' \in Seq([tier : Nat, place : Nat, category : Categories,
                                assigned : Nat, newBudgeted : Int64])
      /\ PriorityRespected'
      /\ (~ (alloc < Current.need) /\ FundedSoFar /\ Running /\ remaining > 0) =>
           \A i \in DOMAIN allocations' :
             ~ (allocations[i].assigned < NeedOf(allocations[i]))'
  BY <1>1, <1>4, ProposeKeeps
<1>8. WaterfallTypeOK'
  <2>1. remaining' \in 0..incoming' /\ tierAllocated' \in 0..(incoming' - remaining')
    BY <1>2, <1>4, <1>5 DEF Allocate, waterfallInputs, Int64
  <2> QED
    BY <1>6, <1>7, <2>1 DEF Allocate, waterfallInputs, IInv, WaterfallTypeOK
<1>9. InputsOK'
  BY DEF Allocate, waterfallInputs, IInv, InputsOK
<1>10. StopsWithNothingLeft'
  BY DEF Allocate, waterfallInputs, StopsWithNothingLeft
<1>11. Begins'
  BY DEF Allocate, waterfallInputs, IInv, WaterfallTypeOK, Begins, Running, ValidTiers, AtEntry
<1>12. FundedSoFar'
  <2> SUFFICES ASSUME remaining' > 0 PROVE FundedSoFar'
    BY DEF FundedSoFar
  <2>1. alloc = Current.need /\ remaining > 0
    BY <1>2, <1>4, <1>5
  <2>2. tierNeeded = tierAllocated
    BY <1>2, <2>1 DEF IInv, FundedSoFar
  <2>3. tierNeeded + Current.need \in Int64
    BY <1>2, <1>3, <1>4, <2>1, <2>2, WaterfallAssumption DEF Int64
  <2>4. tierNeeded' = tierAllocated'
    <3>1. /\ tierNeeded + Current.need \in Int
          /\ - 2 * (MaxInt + 1) <= tierNeeded + Current.need
          /\ tierNeeded + Current.need <= 2 * MaxInt + 1
      BY <2>3, WaterfallAssumption DEF Int64
    <3> QED
      BY <1>5, <1>6, <2>1, <2>2, <2>3, <3>1, WrapIsInt64
  <2>5. \A i \in DOMAIN allocations' :
          ~ (allocations[i].assigned < NeedOf(allocations[i]))'
    BY <1>2, <1>3, <1>7, <2>1 DEF IInv
  <2>6. \A t \in DOMAIN tierSummary' : tierSummary'[t].shortBy = 0
    BY <1>2, <2>1 DEF Allocate, waterfallInputs, IInv, FundedSoFar
  <2> QED
    BY <2>4, <2>5, <2>6 DEF FundedSoFar
<1> QED
  BY <1>7, <1>8, <1>9, <1>10, <1>11, <1>12 DEF IInv

(* The summary of a tier keeps it.                                         *)
LEMMA CloseTierKeeps == IInv /\ CloseTier => IInv'
<1> SUFFICES ASSUME IInv, CloseTier PROVE IInv'
  OBVIOUS
<1> DEFINE Sum == [needed : Int64, allocated : Nat, shortBy : Int64]
<1> DEFINE s == [needed |-> tierNeeded, allocated |-> tierAllocated,
                 shortBy |-> Wrap(tierNeeded - tierAllocated)]
<1>1. /\ Running /\ remaining \in 0..incoming /\ incoming \in Int64
      /\ tierAllocated \in 0..(incoming - remaining) /\ tierNeeded \in Int64
  BY DEF CloseTier, waterfallInputs, IInv, InputsOK, WaterfallTypeOK, Running
<1>2. Wrap(tierNeeded - tierAllocated) \in Int64
      /\ (tierNeeded = tierAllocated => Wrap(tierNeeded - tierAllocated) = 0)
  <2>1. /\ tierNeeded - tierAllocated \in Int
        /\ - 2 * (MaxInt + 1) <= tierNeeded - tierAllocated
        /\ tierNeeded - tierAllocated <= 2 * MaxInt + 1
    BY <1>1, WaterfallAssumption DEF Int64
  <2>2. tierNeeded = tierAllocated => tierNeeded - tierAllocated = 0 /\ 0 \in Int64
    BY <1>1, WaterfallAssumption DEF Int64
  <2> QED
    BY <2>1, <2>2, WrapIsInt64
<1>3. s \in Sum
  BY <1>1, <1>2
<1>4. tierSummary \in Seq(Sum) /\ tierSummary' = Append(tierSummary, s)
  BY DEF IInv, WaterfallTypeOK, CloseTier
<1>5. s.shortBy = Wrap(tierNeeded - tierAllocated)
  OBVIOUS
<1> HIDE DEF s
<1>6. tierSummary' \in Seq(Sum)
  <2> HIDE DEF Sum
  <2> QED
    BY <1>3, <1>4
<1>7. \A t \in DOMAIN tierSummary' :
        (t \in DOMAIN tierSummary /\ tierSummary'[t] = tierSummary[t]) \/ tierSummary'[t] = s
  <2> HIDE DEF Sum
  <2> QED
    BY <1>3, <1>4
<1>8. WaterfallTypeOK'
  BY <1>1, <1>6, WaterfallAssumption DEF CloseTier, waterfallInputs, IInv, WaterfallTypeOK, Int64
<1>9. InputsOK'
  BY DEF CloseTier, waterfallInputs, IInv, InputsOK
<1>10. StopsWithNothingLeft'
  <2>1. tierAllocated < tierNeeded => remaining = 0
    BY <1>1 DEF IInv, FundedSoFar, Int64
  <2> QED
    BY <2>1 DEF CloseTier, waterfallInputs, IInv, StopsWithNothingLeft
<1>11. Begins'
  BY DEF CloseTier, waterfallInputs, IInv, WaterfallTypeOK, Begins, Running, ValidTiers
<1>12. FundedSoFar'
  <2> SUFFICES ASSUME remaining' > 0 PROVE FundedSoFar'
    BY DEF FundedSoFar
  <2>1. remaining > 0 /\ remaining' = remaining
    BY DEF CloseTier
  <2>2. s.shortBy = 0
    BY <1>1, <1>2, <1>5, <2>1 DEF IInv, FundedSoFar
  <2>3. \A t \in DOMAIN tierSummary' : tierSummary'[t].shortBy = 0
    BY <1>1, <1>7, <2>1, <2>2 DEF IInv, FundedSoFar
  <2>4. \A i \in DOMAIN allocations' :
          ~ (allocations[i].assigned < NeedOf(allocations[i]))'
    BY <1>1, <2>1 DEF CloseTier, waterfallInputs, IInv, FundedSoFar, NeedOf
  <2> QED
    BY <2>3, <2>4 DEF CloseTier, waterfallInputs, FundedSoFar
<1>13. PriorityRespected'
  BY DEF CloseTier, waterfallInputs, IInv, PriorityRespected, NeedOf
<1> QED
  BY <1>8, <1>9, <1>10, <1>11, <1>12, <1>13 DEF IInv

(* The invariant of the walk.                                              *)
LEMMA Invariance == WaterfallSpec => []IInv
<1>1. ASSUME IInv, [WaterfallNext]_waterfallVars PROVE IInv'
  <2>1. CASE UNCHANGED waterfallVars
    BY <1>1, <2>1
    DEF waterfallVars, waterfallInputs, walk, IInv, InputsOK, WaterfallTypeOK, Begins, Running, ValidTiers,
      FundedSoFar, StopsWithNothingLeft, PriorityRespected, NeedOf
  <2> QED
    BY <1>1, <2>1, CheckKeeps, SkipKeeps, WithholdKeeps, AllocateKeeps, CloseTierKeeps
    DEF WaterfallNext
<1> QED
  BY <1>1, InitEstablishes, PTL DEF WaterfallSpec

-----------------------------------------------------------------------------
(* Types: what remains is never negative, and no allocation overflows.     *)
THEOREM TypeCorrectness == WaterfallSpec => []WaterfallTypeOK
<1>1. IInv => WaterfallTypeOK
  BY DEF IInv
<1> QED
  BY <1>1, Invariance, PTL

(* The money goes by priority, whatever the tiers and their flags.         *)
THEOREM Priority == WaterfallSpec => []PriorityRespected
<1>1. IInv => PriorityRespected
  BY DEF IInv
<1> QED
  BY <1>1, Invariance, PTL

(* stop_if_unfunded never withholds money: when it stops, none is left;    *)
(* and money that remains at the end means that no tier is short.          *)
THEOREM ShortfallMeansSpent == WaterfallSpec => []ShortMeansSpent
<1>1. IInv => ShortMeansSpent
  BY DEF IInv, FundedSoFar, Running, StopsWithNothingLeft, FundedUnlessSpent, ShortMeansSpent
<1> QED
  BY <1>1, Invariance, PTL

-----------------------------------------------------------------------------
(* The plan the walk has made so far.                                      *)

(* The plan so far, record by record and in sum.                           *)
PlanSoFar ==
  /\ Running => Total + remaining = incoming
  /\ \A i \in DOMAIN allocations :
       /\ allocations[i].category \in DOMAIN budgeted
       /\ allocations[i].newBudgeted =
            NewBudgeted(allocations[i].category, allocations[i].assigned)

(* A plan without records moves nothing.                                   *)
LEMMA TotalOfNone == allocations = <<>> => Total = 0
<1> SUFFICES ASSUME allocations = <<>> PROVE Total = 0
  OBVIOUS
<1> DEFINE f == [i \in DOMAIN allocations |-> allocations[i].assigned]
<1>1. DOMAIN f = {}
  OBVIOUS
<1>2. SumFunctionOnSet(f, {}) = 0
  BY SumEmpty
<1> QED
  BY <1>1, <1>2 DEF Total, SumFunction

(* A record adds what it assigns.                                          *)
LEMMA ProposeAdds ==
  ASSUME IInv, PlanSoFar, AtEntry, Current.category \in DOMAIN budgeted,
         NEW alloc \in Nat, Propose(alloc), UNCHANGED waterfallInputs
  PROVE  /\ Total' = Total + alloc /\ Total \in Int
         /\ \A i \in DOMAIN allocations' :
              /\ allocations'[i].category \in DOMAIN budgeted
              /\ allocations'[i].newBudgeted =
                   NewBudgeted(allocations'[i].category, allocations'[i].assigned)
<1> DEFINE rec == [tier |-> tier, place |-> place, category |-> Current.category,
                   assigned |-> alloc, newBudgeted |-> NewBudgeted(Current.category, alloc)]
           Rec == [tier : Nat, place : Nat, category : Categories,
                   assigned : Nat, newBudgeted : Int64]
           n == Len(allocations)
           f == [i \in DOMAIN allocations |-> allocations[i].assigned]
           g == [i \in DOMAIN allocations' |-> allocations'[i].assigned]
<1>1. allocations \in Seq(Rec) /\ allocations' = Append(allocations, rec)
  BY DEF IInv, WaterfallTypeOK, Propose
<1>2. rec.assigned = alloc /\ rec.category = Current.category
      /\ rec.newBudgeted = NewBudgeted(Current.category, alloc)
  OBVIOUS
<1>3. \A i \in DOMAIN allocations : allocations[i].assigned \in Nat
  <2>1. \A i \in DOMAIN allocations : allocations[i] \in Rec
    <3> HIDE DEF Rec, rec
    <3> QED
      BY <1>1
  <2> QED
    BY <2>1
<1> HIDE DEF rec, Rec
<1>4. /\ n \in Nat /\ DOMAIN allocations = 1..n
      /\ DOMAIN allocations' = (1..n) \cup {n + 1} /\ n + 1 \notin 1..n
      /\ \A i \in 1..n : allocations'[i] = allocations[i]
      /\ allocations'[n + 1] = rec
  BY <1>1
<1>5. /\ IsFiniteSet(1..n)
      /\ \A i \in 1..n : f[i] \in Int /\ g[i] = f[i]
      /\ g[n + 1] = alloc
  <2>1. IsFiniteSet(1..n)
    BY <1>4, FS_Interval
  <2>2. \A i \in 1..n : f[i] \in Int
    BY <1>3, <1>4
  <2>3. \A i \in 1..n : g[i] = f[i]
    BY <1>4
  <2>4. g[n + 1] = alloc
    BY <1>2, <1>4
  <2> QED
    BY <2>1, <2>2, <2>3, <2>4
<1>6. DOMAIN f = 1..n /\ DOMAIN g = (1..n) \cup {n + 1}
  BY <1>4
<1> HIDE DEF f, g
<1>7. SumFunctionOnSet(g, (1..n) \cup {n + 1}) = g[n + 1] + SumFunctionOnSet(g, 1..n)
  <2>1. \A i \in (1..n) \cup {n + 1} : g[i] \in Int
    BY <1>5
  <2> QED
    BY <1>4, <1>5, <2>1, SumAdd
<1>8. SumFunctionOnSet(g, 1..n) = SumFunctionOnSet(f, 1..n) /\ SumFunctionOnSet(f, 1..n) \in Int
  <2>1. \A i \in 1..n : g[i] \in Int /\ g[i] = f[i]
    BY <1>5
  <2>2. SumFunctionOnSet(g, 1..n) = SumFunctionOnSet(f, 1..n)
    BY <1>5, <2>1, SumCongruent
  <2>3. SumFunctionOnSet(f, 1..n) \in Int
    BY <1>5, SumType
  <2> QED
    BY <2>2, <2>3
<1>9. Total = SumFunctionOnSet(f, 1..n) /\ Total' = SumFunctionOnSet(g, (1..n) \cup {n + 1})
  BY <1>6 DEF Total, SumFunction, f, g
<1>10. Total' = Total + alloc /\ Total \in Int
  BY <1>5, <1>7, <1>8, <1>9
<1>11. ASSUME NEW i \in DOMAIN allocations'
       PROVE  /\ allocations'[i].category \in DOMAIN budgeted
              /\ allocations'[i].newBudgeted =
                   NewBudgeted(allocations'[i].category, allocations'[i].assigned)
  <2>1. CASE i \in 1..n
    BY <1>4, <2>1 DEF PlanSoFar
  <2>2. CASE i = n + 1
    BY <1>2, <1>4, <2>2
  <2> QED
    BY <1>4, <2>1, <2>2
<1> QED
  BY <1>10, <1>11

(* Every step of the walk keeps the plan so far what it says.              *)
LEMMA PlanSoFarKeeps == IInv /\ PlanSoFar /\ [WaterfallNext]_waterfallVars => PlanSoFar'
<1> SUFFICES ASSUME IInv, PlanSoFar, [WaterfallNext]_waterfallVars PROVE PlanSoFar'
  OBVIOUS
<1>1. CASE Withhold
  <2>1. AtEntry /\ Current.category \in DOMAIN budgeted /\ Propose(0) /\ UNCHANGED waterfallInputs
        /\ remaining' = remaining /\ incoming' = incoming /\ budgeted' = budgeted
        /\ progress = progress'
    BY <1>1 DEF Withhold, waterfallInputs
  <2>2. /\ Total' = Total + 0 /\ Total \in Int
        /\ \A i \in DOMAIN allocations' :
              /\ allocations'[i].category \in DOMAIN budgeted
              /\ allocations'[i].newBudgeted =
                   NewBudgeted(allocations'[i].category, allocations'[i].assigned)
    BY <2>1, ProposeAdds
  <2> QED
    BY <2>1, <2>2 DEF PlanSoFar, Running, NewBudgeted
<1>2. CASE Allocate
  <2> DEFINE alloc == Alloc(Current.need)
  <2>1. /\ AtEntry /\ Current.category \in DOMAIN budgeted
        /\ Propose(alloc) /\ UNCHANGED waterfallInputs
        /\ remaining' = remaining - alloc /\ incoming' = incoming /\ budgeted' = budgeted
        /\ progress = progress'
    BY <1>2 DEF Allocate, waterfallInputs, RemainingAfter
  <2>2. Current.need \in Nat /\ remaining \in Nat /\ incoming \in Int
    <3>1. Current.need \in Nat
      BY <2>1, CurrentIsEntry, WaterfallAssumption DEF Int64
    <3>2. remaining \in 0..incoming /\ incoming \in Int
      BY <2>1, WaterfallAssumption DEF IInv, WaterfallTypeOK, InputsOK, AtEntry, Int64
    <3> QED
      BY <3>1, <3>2
  <2>3. alloc \in Nat
    BY <2>2 DEF Alloc
  <2> HIDE DEF alloc
  <2>4. /\ Total' = Total + alloc /\ Total \in Int
        /\ \A i \in DOMAIN allocations' :
              /\ allocations'[i].category \in DOMAIN budgeted
              /\ allocations'[i].newBudgeted =
                   NewBudgeted(allocations'[i].category, allocations'[i].assigned)
    BY <2>1, <2>3, ProposeAdds
  <2>5. Running' => Total' + remaining' = incoming'
    BY <2>1, <2>2, <2>3, <2>4 DEF PlanSoFar, Running
  <2> QED
    BY <2>1, <2>4, <2>5 DEF PlanSoFar, NewBudgeted
<1>3. CASE CheckTiers
  <2>1. allocations = <<>> /\ allocations' = <<>> /\ remaining' = incoming'
    BY <1>3 DEF CheckTiers, waterfallInputs, walk, IInv, Begins, Running
  <2>2. Total' = 0
    <3>1. Total = 0 /\ Total' = Total
      BY <2>1, TotalOfNone DEF Total
    <3> QED
      BY <3>1
  <2>3. incoming' \in Int
    BY <1>3, WaterfallAssumption DEF CheckTiers, waterfallInputs, IInv, InputsOK, Int64
  <2> QED
    <3>1. Total' + remaining' = incoming'
      <4>1. remaining' = incoming'
        BY <2>1
      <4> DEFINE came == incoming'
      <4>2. came \in Int
        BY <2>3
      <4> HIDE DEF came
      <4>3. 0 + came = came
        BY <4>2
      <4> QED
        BY <2>2, <4>1, <4>3 DEF came
    <3>2. DOMAIN allocations' = {}
      BY <2>1
    <3> QED
      BY <3>1, <3>2 DEF PlanSoFar
<1>4. CASE Skip \/ CloseTier \/ UNCHANGED waterfallVars
  <2>1. UNCHANGED <<allocations, remaining, incoming, budgeted>> /\ (Running' => Running)
    BY <1>4 DEF Skip, CloseTier, AtEntry, waterfallVars, waterfallInputs, walk, Running
  <2>2. Total' = Total
    BY <2>1 DEF Total
  <2> QED
    BY <2>1, <2>2 DEF PlanSoFar, NewBudgeted
<1> QED
  BY <1>1, <1>2, <1>3, <1>4 DEF WaterfallNext

(* The property, from the two invariants: with one record for a category,  *)
(* what it gained is what the record assigns.                              *)
LEMMA PlanFollows == IInv /\ PlanSoFar => PlanMovesWhatItSays
<1> SUFFICES ASSUME IInv, PlanSoFar PROVE PlanMovesWhatItSays
  OBVIOUS
<1>1. progress \in {"walking", "proposed"} => Total + remaining = incoming
  BY DEF PlanSoFar, Running
<1>2. ASSUME NoCategoryTwice, NEW i \in DOMAIN allocations,
             budgeted[allocations[i].category] + allocations[i].assigned <= MaxInt
      PROVE  Gained(allocations[i].category) = allocations[i].assigned
  <2> DEFINE c == allocations[i].category
             own == {j \in DOMAIN allocations : allocations[j].category = c}
  <2>1. /\ c \in DOMAIN budgeted
        /\ allocations[i].newBudgeted = NewBudgeted(c, allocations[i].assigned)
    BY DEF PlanSoFar
  <2>2. own = {i}
    BY <1>2 DEF NoCategoryTwice
  <2>3. i \in Nat
    <3> DEFINE Rec == [tier : Nat, place : Nat, category : Categories,
                       assigned : Nat, newBudgeted : Int64]
    <3>1. allocations \in Seq(Rec)
      BY DEF IInv, WaterfallTypeOK
    <3> HIDE DEF Rec
    <3> QED
      BY <3>1
  <2>4. (CHOOSE j \in own : \A k \in own : k <= j) = i
    BY <2>2, <2>3
  <2>5. Executed[c] = allocations[i].newBudgeted
    BY <2>1, <2>2, <2>4 DEF Executed
  <2>6. budgeted[c] \in Int64 /\ allocations[i].assigned \in Nat
    <3> DEFINE Rec == [tier : Nat, place : Nat, category : Categories,
                       assigned : Nat, newBudgeted : Int64]
    <3>1. allocations[i] \in Rec
      <4>1. allocations \in Seq(Rec)
        BY DEF IInv, WaterfallTypeOK
      <4> HIDE DEF Rec
      <4> QED
        BY <4>1
    <3>2. allocations[i].assigned \in Nat
      BY <3>1
    <3> QED
      BY <2>1, <3>2 DEF IInv, InputsOK
  <2> HIDE DEF c, own
  <2>7. Wrap(budgeted[c] + allocations[i].assigned) = budgeted[c] + allocations[i].assigned
    BY <1>2, <2>6, WaterfallAssumption DEF Wrap, Int64, c
  <2>8. Gained(c) = budgeted[c] + allocations[i].assigned - budgeted[c]
    <3>1. allocations[i].newBudgeted = budgeted[c] + allocations[i].assigned
      BY <2>1, <2>7 DEF NewBudgeted
    <3>2. Executed[c] = budgeted[c] + allocations[i].assigned
      BY <2>5, <3>1
    <3>3. budgeted[c] \in Int
      BY <2>6, WaterfallAssumption DEF Int64
    <3> QED
      BY <2>6, <3>2, <3>3 DEF Gained
  <2>9. Gained(c) = allocations[i].assigned
    BY <2>6, <2>8, WaterfallAssumption DEF Int64
  <2> QED
    BY <2>9 DEF c
<1> QED
  BY <1>1, <1>2 DEF PlanMovesWhatItSays

(* Executing the proposal moves what it says: what it assigns and what     *)
(* remains are together the incoming money, and each category gains what   *)
(* its record assigns unless the sum overflows int64.                      *)
THEOREM PlanExecution == WaterfallSpec => []PlanMovesWhatItSays
<1>1. WaterfallInit => PlanSoFar
  <2>1. WaterfallInit => ~ Running /\ allocations = <<>>
    BY DEF WaterfallInit, Running
  <2> QED
    BY <2>1 DEF PlanSoFar
<1> QED
  BY <1>1, PlanSoFarKeeps, PlanFollows, Invariance, PTL DEF WaterfallSpec

-----------------------------------------------------------------------------
(* The debt projections: what the handler accepts.                         *)

Simulating == stage \in {"minimums_only", "with_extra"}

DebtInputsOK ==
  /\ \A a \in DOMAIN plan : plan[a] \in Int
  /\ config \in Seq([account : Accounts, apr : Aprs, minimum : Minimums])
  /\ extra \in Int

(* What the checks before a simulation leave of a config.                  *)
RowsOK ==
  /\ IsFiniteSet(Rows) /\ Rows = 1..Len(config) /\ Len(config) \in Nat
  /\ {minimums, aprBps, Owed, FirstInterest} \subseteq [Rows -> Nat]
  /\ extra \in Nat

(* A month's interest is not negative and grows with the balance.          *)
LEMMA InterestGrows ==
  ASSUME NEW x \in Nat, NEW y \in Nat, x <= y, NEW bps \in Nat
  PROVE  MonthlyInterest(x, bps) \in Nat /\ MonthlyInterest(x, bps) <= MonthlyInterest(y, bps)
<1>1. x * bps \in Nat /\ y * bps \in Nat /\ x * bps <= y * bps
  BY ProductGrows
<1> QED
  BY <1>1, QuotientGrows, DebtAssumption DEF MonthlyInterest

(* The rate in basis points is not negative.                               *)
LEMMA BasisPointsNat ==
  ASSUME NEW apr \in Nat
  PROVE  AprToBasisPoints(apr) \in Nat
<1>1. 2 * apr + Fine \in Nat /\ 2 * Fine \in Nat \ {0}
  BY DebtAssumption
<1> QED
  BY <1>1, QuotientGrows DEF AprToBasisPoints

(* What the checks of the handler let through: balances, minimums and      *)
(* interest that are not negative.                                         *)
LEMMA AcceptedRows ==
  ASSUME DebtInputsOK, Valid, Found
  PROVE  RowsOK
<1>1. Rows = 1..Len(config) /\ Len(config) \in Nat
  BY DEF DebtInputsOK, Rows
<1>2. IsFiniteSet(Rows)
  BY <1>1, FS_Interval
<1>3. minimums \in [Rows -> Nat]
  <2>1. \A i \in Rows : config[i].minimum \in Int
    <3> DEFINE Row == [account : Accounts, apr : Aprs, minimum : Minimums]
    <3>1. config \in Seq(Row)
      BY DEF DebtInputsOK
    <3>2. \A i \in Rows : config[i] \in Row
      <4> HIDE DEF Row
      <4> QED
        BY <1>1, <3>1
    <3> QED
      BY <3>2, DebtAssumption
  <2> QED
    BY <2>1 DEF minimums, Valid
<1>4. aprBps \in [Rows -> Nat]
  <2>1. \A i \in Rows : config[i].apr \in Nat
    BY DebtAssumption DEF Valid
  <2> QED
    BY <2>1, BasisPointsNat DEF aprBps
<1>5. Owed \in [Rows -> Nat]
  <2>1. ASSUME NEW i \in Rows PROVE Max({0, - plan[config[i].account]}) \in Nat
    <3>1. - plan[config[i].account] \in Int
      BY DEF Found, DebtInputsOK
    <3> QED
      BY <3>1, TwoNumbers
  <2> QED
    BY <2>1 DEF Owed
<1>6. FirstInterest \in [Rows -> Nat]
  BY <1>4, <1>5, InterestGrows DEF FirstInterest
<1>7. extra \in Nat
  BY DEF Valid
<1> QED
  BY <1>1, <1>2, <1>3, <1>4, <1>5, <1>6, <1>7 DEF RowsOK

(* A month's steps row by row, from balances b.                            *)
LEMMA AccruedRow ==
  ASSUME RowsOK, NEW b \in [Rows -> Nat]
  PROVE  /\ Accrued(b) \in [Rows -> Nat]
         /\ \A i \in Rows : /\ b[i] <= Accrued(b)[i]
                            /\ b[i] = 0 => Accrued(b)[i] = 0
                            /\ b[i] <= Owed[i] => Accrued(b)[i] <= b[i] + FirstInterest[i]
<1>1. ASSUME NEW i \in Rows
      PROVE  /\ MonthlyInterest(b[i], aprBps[i]) \in Nat
             /\ b[i] = 0 => MonthlyInterest(b[i], aprBps[i]) = 0
             /\ b[i] <= Owed[i] => MonthlyInterest(b[i], aprBps[i]) <= FirstInterest[i]
  <2>1. b[i] \in Nat /\ aprBps[i] \in Nat /\ Owed[i] \in Nat
    BY DEF RowsOK
  <2>2. b[i] = 0 => MonthlyInterest(b[i], aprBps[i]) = 0
    <3>1. 0 * aprBps[i] = 0 /\ 0 \div Divisor = 0
      BY <2>1, DebtAssumption
    <3> QED
      BY <3>1 DEF MonthlyInterest
  <2>3. b[i] <= Owed[i] => MonthlyInterest(b[i], aprBps[i]) <= FirstInterest[i]
    BY <2>1, InterestGrows DEF FirstInterest
  <2>4. MonthlyInterest(b[i], aprBps[i]) \in Nat
    <3>1. b[i] <= b[i]
      BY <2>1
    <3> QED
      BY <2>1, <3>1, InterestGrows
  <2> QED
    BY <2>2, <2>3, <2>4
<1>2. FirstInterest \in [Rows -> Nat]
  BY DEF RowsOK
<1> QED
  BY <1>1, <1>2 DEF Accrued

(* A row after its minimum payment.                                        *)
LEMMA AfterMinimumsRow ==
  ASSUME RowsOK, NEW b \in [Rows -> Nat]
  PROVE  /\ AfterMinimums(b) \in [Rows -> Nat]
         /\ \A i \in Rows :
              AfterMinimums(b)[i] = IF b[i] <= minimums[i] THEN 0 ELSE b[i] - minimums[i]
         /\ Leftovers(b) \in Nat
<1>1. \A i \in Rows : minimums[i] \in Nat /\ b[i] \in Nat
  BY DEF RowsOK
<1>2. \A i \in Rows :
        Max({0, b[i] - minimums[i]}) = IF b[i] <= minimums[i] THEN 0 ELSE b[i] - minimums[i]
  BY <1>1, TwoNumbers
<1>3. Leftovers(b) \in Nat
  <2> DEFINE f == [i \in Rows |-> minimums[i] - b[i]]
  <2>1. Covered(b) \subseteq Rows /\ \A i \in Covered(b) : f[i] \in Nat
    BY <1>1 DEF Covered
  <2>2. IsFiniteSet(Covered(b))
    BY <2>1, FS_Subset DEF RowsOK
  <2> HIDE DEF f
  <2>3. SumFunctionOnSet(f, Covered(b)) \in Nat
    BY <2>1, <2>2, SumNat
  <2> QED
    BY <2>3 DEF Leftovers, f
<1> QED
  BY <1>1, <1>2, <1>3 DEF AfterMinimums

-----------------------------------------------------------------------------
(* The extra payment, row by row in the order of the sort.                 *)

InOrder(b) == [j \in Rows |-> b[order[j]]]

(* The place of a row, and what the rows before it owe.                    *)
LEMMA PlaceOfRow ==
  ASSUME RowsOK, order \in AprOrder, NEW b \in [Rows -> Nat], NEW k \in Rows
  PROVE  OwedBefore(b, order[k]) = SumFunctionOnSet(InOrder(b), 1..(k - 1))
<1>1. order \in [Rows -> Rows] /\ \A x, y \in Rows : order[x] = order[y] => x = y
  BY DEF AprOrder, IsInjective
<1>2. (CHOOSE j \in Rows : order[j] = order[k]) = k
  BY <1>1
<1> QED
  BY <1>2 DEF OwedBefore, InOrder

(* Every row has a place in the order of the avalanche.                    *)
LEMMA EveryRowHasPlace ==
  ASSUME RowsOK, order \in AprOrder, NEW i \in Rows
  PROVE  \E k \in Rows : order[k] = i
<1>1. order \in [Rows -> Rows] /\ \A x, y \in Rows : order[x] = order[y] => x = y
  BY DEF AprOrder, IsInjective
<1>2. IsFiniteSet(Rows)
  BY DEF RowsOK
<1> QED
  BY <1>1, <1>2, InjectionCovers

(* What the first rows of the order owe, place by place.                   *)
LEMMA PrefixOwed ==
  ASSUME RowsOK, order \in AprOrder, NEW b \in [Rows -> Nat], NEW k \in 0..Len(config)
  PROVE  /\ InOrder(b) \in [Rows -> Nat]
         /\ SumFunctionOnSet(InOrder(b), 1..k) \in Nat
         /\ k < Len(config) =>
              SumFunctionOnSet(InOrder(b), 1..(k + 1)) =
                InOrder(b)[k + 1] + SumFunctionOnSet(InOrder(b), 1..k)
<1>1. InOrder(b) \in [Rows -> Nat]
  BY DEF InOrder, AprOrder
<1>2. 1..k \subseteq Rows /\ IsFiniteSet(1..k)
  BY FS_Interval DEF RowsOK
<1>3. SumFunctionOnSet(InOrder(b), 1..k) \in Nat
  BY <1>1, <1>2, SumNat
<1>4. ASSUME k < Len(config)
      PROVE  SumFunctionOnSet(InOrder(b), 1..(k + 1)) =
                InOrder(b)[k + 1] + SumFunctionOnSet(InOrder(b), 1..k)
  <2>1. 1..(k + 1) = (1..k) \cup {k + 1} /\ k + 1 \notin 1..k
    OBVIOUS
  <2>2. k + 1 \in Rows
    BY <1>4 DEF RowsOK
  <2>3. \A j \in (1..k) \cup {k + 1} : InOrder(b)[j] \in Int
    BY <1>1, <1>2, <2>2
  <2> QED
    BY <1>2, <2>1, <2>3, SumAdd
<1> QED
  BY <1>1, <1>3, <1>4

(* A row after the extra payment: it gets what the rows before it left.    *)
LEMMA AfterExtraRow ==
  ASSUME RowsOK, order \in AprOrder, NEW b \in [Rows -> Nat], NEW pot \in Nat
  PROVE  /\ AfterExtra(b, pot) \in [Rows -> Nat]
         /\ \A i \in Rows : AfterExtra(b, pot)[i] <= b[i]
         /\ \A k \in Rows :
              LET before == SumFunctionOnSet(InOrder(b), 1..(k - 1))
              IN  AfterExtra(b, pot)[order[k]] =
                    IF pot <= before THEN b[order[k]]
                    ELSE IF b[order[k]] <= pot - before THEN 0
                    ELSE b[order[k]] - (pot - before)
<1> DEFINE before(k) == SumFunctionOnSet(InOrder(b), 1..(k - 1))
<1>1. ASSUME NEW k \in Rows
      PROVE  /\ before(k) \in Nat
             /\ AfterExtra(b, pot)[order[k]] =
                    IF pot <= before(k) THEN b[order[k]]
                    ELSE IF b[order[k]] <= pot - before(k) THEN 0
                    ELSE b[order[k]] - (pot - before(k))
  <2>1. k - 1 \in 0..Len(config)
    BY DEF RowsOK
  <2>2. before(k) \in Nat
    BY <2>1, PrefixOwed
  <2>3. order[k] \in Rows /\ b[order[k]] \in Nat
    BY DEF AprOrder
  <2>4. AfterExtra(b, pot)[order[k]] =
          b[order[k]] - Min({b[order[k]], Max({0, pot - before(k)})})
    BY <2>3, PlaceOfRow DEF AfterExtra
  <2> HIDE DEF before
  <2>5. Max({0, pot - before(k)}) = IF pot <= before(k) THEN 0 ELSE pot - before(k)
    BY <2>2, TwoNumbers
  <2>6. \A m \in Nat : Min({b[order[k]], m}) = IF b[order[k]] <= m THEN b[order[k]] ELSE m
    <3>1. b[order[k]] \in Int
      BY <2>3
    <3>2. \A m \in Int : Min({b[order[k]], m}) = IF b[order[k]] <= m THEN b[order[k]] ELSE m
      BY <3>1, TwoNumbers
    <3> QED
      BY <3>2
  <2>7. CASE pot <= before(k)
    BY <2>2, <2>3, <2>4, <2>5, <2>6, <2>7, SMTT(40)
  <2>8. CASE ~ (pot <= before(k))
    <3>1. pot - before(k) \in Nat
      BY <2>2, <2>8
    <3>2. Min({b[order[k]], Max({0, pot - before(k)})}) =
            IF b[order[k]] <= pot - before(k) THEN b[order[k]] ELSE pot - before(k)
      BY <2>5, <2>6, <2>8, <3>1
    <3>3. AfterExtra(b, pot)[order[k]] =
            b[order[k]] - IF b[order[k]] <= pot - before(k) THEN b[order[k]] ELSE pot - before(k)
      BY <2>4, <3>2
    <3> QED
      BY <2>2, <2>3, <2>8, <3>1, <3>3
  <2> QED
    BY <2>2, <2>7, <2>8
<1>2. ASSUME NEW i \in Rows
      PROVE  AfterExtra(b, pot)[i] \in Nat /\ AfterExtra(b, pot)[i] <= b[i]
  <2>1. PICK k \in Rows : order[k] = i
    BY EveryRowHasPlace
  <2>2. b[i] \in Nat
    OBVIOUS
  <2> HIDE DEF before
  <2> QED
    BY <1>1, <2>1, <2>2
<1> QED
  BY <1>1, <1>2 DEF AfterExtra

(* Induction up to a number, by the set G of the numbers it holds of.      *)
LEMMA ByStep ==
  ASSUME NEW n \in Nat, NEW G, 0 \in G, \A k \in 0..(n - 1) : k \in G => k + 1 \in G
  PROVE  0..n \subseteq G
<1> DEFINE bad == {k \in 0..n : k \notin G}
<1>1. SUFFICES ASSUME bad # {} PROVE FALSE
  OBVIOUS
<1>2. PICK m \in bad : \A k \in bad : m <= k
  <2>1. bad \in SUBSET Nat
    OBVIOUS
  <2> QED
    BY <1>1, <2>1, Smallest
<1>3. m # 0 /\ m - 1 \in 0..(n - 1) /\ m - 1 \notin bad
  BY <1>2
<1> QED
  BY <1>2, <1>3

(* The extra payment is spent, up to what is owed.                         *)
LEMMA ExtraIsSpent ==
  ASSUME RowsOK, order \in AprOrder, NEW b \in [Rows -> Nat], NEW pot \in Nat
  PROVE  SumFunctionOnSet(b, Rows) - SumFunctionOnSet(AfterExtra(b, pot), Rows) =
           IF pot <= SumFunctionOnSet(b, Rows) THEN pot ELSE SumFunctionOnSet(b, Rows)
<1> DEFINE paid == [i \in Rows |-> b[i] - AfterExtra(b, pot)[i]]
           before(k) == SumFunctionOnSet(InOrder(b), 1..k)
           G == {k \in 0..Len(config) :
                   SumFunctionOnSet(InOrder(paid), 1..k) =
                     IF pot <= before(k) THEN pot ELSE before(k)}
<1>1. AfterExtra(b, pot) \in [Rows -> Nat] /\ paid \in [Rows -> Nat]
  <2>1. ASSUME NEW i \in Rows
        PROVE  b[i] \in Nat /\ AfterExtra(b, pot)[i] \in Nat /\ AfterExtra(b, pot)[i] <= b[i]
    BY AfterExtraRow
  <2> QED
    BY <2>1, AfterExtraRow
<1>2. Len(config) \in Nat /\ Rows = 1..Len(config) /\ IsFiniteSet(Rows)
  BY DEF RowsOK
<1>3. order \in [Rows -> Rows] /\ \A x, y \in Rows : order[x] = order[y] => x = y
  BY DEF AprOrder, IsInjective
<1>4. 0 \in G
  <2>1. 1..0 = {}
    OBVIOUS
  <2>2. SumFunctionOnSet(InOrder(paid), 1..0) = 0 /\ before(0) = 0
    BY <2>1, SumEmpty
  <2> QED
    BY <1>2, <2>2
<1>5. ASSUME NEW k \in 0..(Len(config) - 1), k \in G PROVE k + 1 \in G
  <2>1. k \in 0..Len(config) /\ k < Len(config) /\ k + 1 \in Rows /\ (k + 1) - 1 = k
    BY <1>2
  <2> HIDE DEF paid
  <2>2. /\ before(k) \in Nat /\ InOrder(b)[k + 1] \in Nat
        /\ before(k + 1) = InOrder(b)[k + 1] + before(k)
    BY <2>1, PrefixOwed
  <2>3. /\ SumFunctionOnSet(InOrder(paid), 1..k) \in Nat
        /\ SumFunctionOnSet(InOrder(paid), 1..(k + 1)) =
             InOrder(paid)[k + 1] + SumFunctionOnSet(InOrder(paid), 1..k)
    BY <1>1, <2>1, PrefixOwed
  <2>4. InOrder(b)[k + 1] = b[order[k + 1]]
        /\ InOrder(paid)[k + 1] = b[order[k + 1]] - AfterExtra(b, pot)[order[k + 1]]
    BY <1>3, <2>1 DEF InOrder, paid
  <2>5. AfterExtra(b, pot)[order[k + 1]] =
          IF pot <= before(k) THEN b[order[k + 1]]
          ELSE IF b[order[k + 1]] <= pot - before(k) THEN 0
          ELSE b[order[k + 1]] - (pot - before(k))
    <3> DEFINE next == k + 1
    <3>1. next \in Rows /\ next - 1 = k
      BY <2>1
    <3> HIDE DEF next
    <3>2. AfterExtra(b, pot)[order[next]] =
            IF pot <= before(next - 1) THEN b[order[next]]
            ELSE IF b[order[next]] <= pot - before(next - 1) THEN 0
            ELSE b[order[next]] - (pot - before(next - 1))
      BY <3>1, AfterExtraRow
    <3> QED
      BY <3>1, <3>2 DEF next
  <2>6. SumFunctionOnSet(InOrder(paid), 1..k) = IF pot <= before(k) THEN pot ELSE before(k)
    BY <1>5
  <2>7. InOrder(paid)[k + 1] =
          IF pot <= before(k) THEN 0
          ELSE IF InOrder(b)[k + 1] <= pot - before(k) THEN InOrder(b)[k + 1]
          ELSE pot - before(k)
    <3> HIDE DEF before
    <3> QED
      BY <2>2, <2>4, <2>5
  <2>8. SumFunctionOnSet(InOrder(paid), 1..(k + 1)) =
          IF pot <= before(k + 1) THEN pot ELSE before(k + 1)
    <3> HIDE DEF before
    <3> QED
      BY <2>2, <2>3, <2>6, <2>7
  <2>9. k + 1 \in 0..Len(config)
    BY <2>1
  <2> QED
    BY <2>8, <2>9
<1>6. Len(config) \in G
  <2> HIDE DEF G
  <2>1. 0..Len(config) \subseteq G
    BY <1>2, <1>4, <1>5, ByStep
  <2> QED
    BY <1>2, <2>1
<1>7. \A f \in [Rows -> Nat] : SumFunctionOnSet(InOrder(f), Rows) = SumFunctionOnSet(f, Rows)
  <2> TAKE f \in [Rows -> Nat]
  <2>1. {order[k] : k \in Rows} = Rows
    BY <1>3, EveryRowHasPlace
  <2>2. \A k \in Rows : InOrder(f)[k] \in Int /\ InOrder(f)[k] = f[order[k]]
    BY <1>3 DEF InOrder
  <2>3. SumFunctionOnSet(InOrder(f), Rows) = SumFunctionOnSet(f, {order[k] : k \in Rows})
    <3>1. \A x, y \in Rows : order[x] = order[y] => x = y
      BY <1>3
    <3> DEFINE g == InOrder(f)
    <3>2. \A k \in Rows : g[k] \in Int /\ g[k] = f[order[k]]
      BY <2>2
    <3>3. IsFiniteSet(Rows)
      BY <1>2
    <3> HIDE DEF g
    <3>4. SumFunctionOnSet(g, Rows) = SumFunctionOnSet(f, {order[k] : k \in Rows})
      BY <3>1, <3>2, <3>3, SumOfImage
    <3> QED
      BY <3>4 DEF g
  <2> QED
    BY <2>1, <2>3
<1>8. SumFunctionOnSet(paid, Rows) =
        IF pot <= SumFunctionOnSet(b, Rows) THEN pot ELSE SumFunctionOnSet(b, Rows)
  <2> HIDE DEF paid
  <2> QED
    BY <1>1, <1>2, <1>6, <1>7
<1>9. SumFunctionOnSet(b, Rows) =
        SumFunctionOnSet(AfterExtra(b, pot), Rows) + SumFunctionOnSet(paid, Rows)
  <2>1. \A i \in Rows : /\ AfterExtra(b, pot)[i] \in Int /\ paid[i] \in Int
                        /\ b[i] = AfterExtra(b, pot)[i] + paid[i]
    <3>1. \A i \in Rows : b[i] \in Int /\ AfterExtra(b, pot)[i] \in Int
      BY <1>1
    <3> QED
      BY <3>1
  <2> HIDE DEF paid
  <2> QED
    BY <1>2, <2>1, SumPlus
<1>10. /\ SumFunctionOnSet(AfterExtra(b, pot), Rows) \in Nat
       /\ SumFunctionOnSet(paid, Rows) \in Nat
  <2> HIDE DEF paid
  <2> QED
    BY <1>1, <1>2, SumNat
<1> HIDE DEF paid
<1> QED
  BY <1>8, <1>9, <1>10

(* The minimums are spent, up to what each row owes; what is not needed of *)
(* them is left over.                                                      *)
LEMMA MinimumsAreSpent ==
  ASSUME RowsOK, NEW b \in [Rows -> Nat]
  PROVE  SumFunctionOnSet(minimums, {i \in Rows : b[i] > 0}) =
           SumFunctionOnSet(b, Rows) - SumFunctionOnSet(AfterMinimums(b), Rows) + Leftovers(b)
<1> DEFINE paid == [i \in Rows |-> b[i] - AfterMinimums(b)[i]]
           left == [i \in Rows |-> IF i \in Covered(b) THEN minimums[i] - b[i] ELSE 0]
           owing == [i \in Rows |-> IF b[i] > 0 THEN minimums[i] ELSE 0]
<1>1. IsFiniteSet(Rows) /\ \A i \in Rows : minimums[i] \in Nat /\ b[i] \in Nat
  BY DEF RowsOK
<1>2. AfterMinimums(b) \in [Rows -> Nat]
  BY AfterMinimumsRow
<1>3. ASSUME NEW i \in Rows
      PROVE  /\ paid[i] \in Nat /\ left[i] \in Nat /\ owing[i] \in Nat
             /\ owing[i] = paid[i] + left[i] /\ b[i] = AfterMinimums(b)[i] + paid[i]
  <2>1. AfterMinimums(b)[i] = IF b[i] <= minimums[i] THEN 0 ELSE b[i] - minimums[i]
    BY AfterMinimumsRow
  <2> QED
    BY <1>1, <2>1 DEF Covered
<1>4. SumFunctionOnSet(left, Rows) = Leftovers(b)
  <2>1. Covered(b) \in SUBSET Rows /\ \A i \in Covered(b) : minimums[i] - b[i] \in Int
    BY <1>1 DEF Covered
  <2> QED
    BY <1>1, <2>1, SumOfPart DEF Leftovers
<1>5. SumFunctionOnSet(owing, Rows) = SumFunctionOnSet(minimums, {i \in Rows : b[i] > 0})
  <2>1. \A i \in {j \in Rows : b[j] > 0} : minimums[i] \in Int
    BY <1>1
  <2> QED
    BY <1>1, <2>1, SumOfPart
<1> HIDE DEF paid, left, owing
<1>6. SumFunctionOnSet(owing, Rows) = SumFunctionOnSet(paid, Rows) + SumFunctionOnSet(left, Rows)
  BY <1>1, <1>3, SumPlus
<1>7. SumFunctionOnSet(b, Rows) =
        SumFunctionOnSet(AfterMinimums(b), Rows) + SumFunctionOnSet(paid, Rows)
  BY <1>1, <1>2, <1>3, SumPlus
<1>8. SumFunctionOnSet(AfterMinimums(b), Rows) \in Int /\ SumFunctionOnSet(paid, Rows) \in Int
      /\ SumFunctionOnSet(left, Rows) \in Int
  BY <1>1, <1>2, <1>3, SumType
<1> QED
  BY <1>4, <1>5, <1>6, <1>7, <1>8

(* What a month leaves of the balances its interest made.                  *)
MonthPaid == balances = AfterExtra(AfterMinimums(due), ExtraPerMonth + Leftovers(due))

(* What the simulation sums up: the rows.                                  *)
LEMMA SumOverRows ==
  ASSUME NEW b \in [Rows -> Nat]
  PROVE  SumFunction(b) = SumFunctionOnSet(b, Rows)
BY DEF SumFunction

(* A month's payments are its capacity, or all that is owed.               *)
LEMMA CapacityIsSpent ==
  ASSUME RowsOK, order \in AprOrder, due \in [Rows -> Nat], MonthPaid
  PROVE  MonthSpendsItsCapacity
<1> DEFINE less == AfterMinimums(due)
           pot == ExtraPerMonth + Leftovers(due)
           all == SumFunctionOnSet(due, Rows)
           rest == SumFunctionOnSet(less, Rows)
           final == SumFunctionOnSet(balances, Rows)
           owed == SumFunctionOnSet(minimums, {i \in Rows : due[i] > 0})
<1>1. ExtraPerMonth \in Nat /\ Leftovers(due) \in Nat /\ less \in [Rows -> Nat]
  BY AfterMinimumsRow DEF RowsOK, ExtraPerMonth
<1>3. pot \in Nat
  BY <1>1
<1>2. IsFiniteSet(Rows) /\ balances \in [Rows -> Nat]
  <2>1. balances = AfterExtra(less, pot)
    BY Zenon DEF MonthPaid
  <2> HIDE DEF less, pot
  <2>2. AfterExtra(less, pot) \in [Rows -> Nat]
    BY <1>1, <1>3, AfterExtraRow
  <2>3. IsFiniteSet(Rows)
    BY DEF RowsOK
  <2> QED BY <2>1, <2>2, <2>3
<1>4. rest - final = IF pot <= rest THEN pot ELSE rest
  <2> HIDE DEF less, pot
  <2>1. balances = AfterExtra(less, pot)
    BY DEF MonthPaid, less, pot
  <2> QED
    BY <1>1, <1>3, <2>1, ExtraIsSpent
<1>5. owed = all - rest + Leftovers(due)
  BY MinimumsAreSpent
<1>6. all \in Nat /\ rest \in Nat /\ final \in Nat
  <2> HIDE DEF less
  <2> QED
    BY <1>1, <1>2, SumNat
<1>7. owed + ExtraPerMonth \in Int
  <2> HIDE DEF all, rest
  <2> QED
    BY <1>1, <1>5, <1>6
<1>8. Min({all, owed + ExtraPerMonth}) =
        IF all <= owed + ExtraPerMonth THEN all ELSE owed + ExtraPerMonth
  <2> HIDE DEF all, owed
  <2> QED
    BY <1>6, <1>7, TwoNumbers
<1>9. all - final = Min({all, owed + ExtraPerMonth})
  <2>1. pot = ExtraPerMonth + Leftovers(due)
    OBVIOUS
  <2> HIDE DEF all, owed, rest, final, pot, less
  <2> QED
    BY <1>1, <1>4, <1>5, <1>6, <1>7, <1>8, <2>1
<1>10. SumFunction(due) = all /\ SumFunction(balances) = final
  BY <1>2, SumOverRows
<1> QED
  BY <1>9, <1>10 DEF MonthSpendsItsCapacity

(* And the extra of the month goes down the order: no row gets a part of   *)
(* it while an earlier one still owes.                                     *)
LEMMA HighestRowFirst ==
  ASSUME RowsOK, order \in AprOrder, due \in [Rows -> Nat], MonthPaid
  PROVE  HighestAprFirst
<1> DEFINE less == AfterMinimums(due)
           pot == ExtraPerMonth + Leftovers(due)
           before(k) == SumFunctionOnSet(InOrder(less), 1..k)
<1>1. ExtraPerMonth \in Nat /\ Leftovers(due) \in Nat /\ less \in [Rows -> Nat]
  BY AfterMinimumsRow DEF RowsOK, ExtraPerMonth
<1>2. pot \in Nat
  BY <1>1
<1>3. balances = AfterExtra(less, pot)
  BY DEF MonthPaid
<1> SUFFICES ASSUME NEW i \in Rows, NEW j \in Rows, aprBps[i] > aprBps[j],
                    due[j] - balances[j] > minimums[j]
             PROVE  balances[i] = 0
  BY DEF HighestAprFirst
<1>4. PICK k \in Rows : order[k] = i
  BY EveryRowHasPlace
<1>5. PICK l \in Rows : order[l] = j
  BY EveryRowHasPlace
<1>6. Rows = 1..Len(config) /\ Len(config) \in Nat /\ aprBps \in [Rows -> Nat]
      /\ minimums \in [Rows -> Nat]
  BY DEF RowsOK
<1>7. k < l
  <2>1. \A x, y \in Rows : x < y => aprBps[order[x]] >= aprBps[order[y]]
    BY DEF AprOrder
  <2>2. ~ (l < k)
    <3>1. l < k => aprBps[j] >= aprBps[i]
      BY <1>4, <1>5, <2>1
    <3>2. aprBps[i] \in Nat /\ aprBps[j] \in Nat
      BY <1>6
    <3> QED
      BY <3>1, <3>2
  <2>3. k # l
    BY <1>4, <1>5, <1>6
  <2> QED
    BY <1>6, <2>2, <2>3
<1> HIDE DEF less, pot
<1>8. before(l - 1) \in Nat /\ before(k) \in Nat /\ before(k - 1) \in Nat
      /\ before(k) = InOrder(less)[k] + before(k - 1)
  <2>1. l - 1 \in 0..Len(config) /\ k \in 0..Len(config) /\ k - 1 \in 0..Len(config)
        /\ k - 1 < Len(config) /\ (k - 1) + 1 = k
    BY <1>6
  <2> QED
    BY <1>1, <2>1, PrefixOwed
<1>9. before(k) <= before(l - 1)
  <2>1. 1..(l - 1) \subseteq Rows /\ 1..k \subseteq 1..(l - 1)
    BY <1>6, <1>7
  <2>0. IsFiniteSet(1..(l - 1))
    BY <2>1, FS_Subset DEF RowsOK
  <2>2. InOrder(less) \in [Rows -> Nat]
    BY <1>1 DEF InOrder, AprOrder
  <2> QED
    BY <2>0, <2>1, <2>2, SumOfSubset
<1>10. /\ balances[i] = IF pot <= before(k - 1) THEN less[i]
                        ELSE IF less[i] <= pot - before(k - 1) THEN 0
                        ELSE less[i] - (pot - before(k - 1))
       /\ balances[j] = IF pot <= before(l - 1) THEN less[j]
                        ELSE IF less[j] <= pot - before(l - 1) THEN 0
                        ELSE less[j] - (pot - before(l - 1))
  <2>1. \A x \in Rows :
          balances[order[x]] = IF pot <= before(x - 1) THEN less[order[x]]
                               ELSE IF less[order[x]] <= pot - before(x - 1) THEN 0
                               ELSE less[order[x]] - (pot - before(x - 1))
    <3>1. \A x \in Rows :
            LET owed == SumFunctionOnSet(InOrder(less), 1..(x - 1))
            IN  AfterExtra(less, pot)[order[x]] =
                  IF pot <= owed THEN less[order[x]]
                  ELSE IF less[order[x]] <= pot - owed THEN 0
                  ELSE less[order[x]] - (pot - owed)
      BY <1>1, <1>2, AfterExtraRow
    <3> QED
      BY <1>3, <3>1
  <2> HIDE DEF before
  <2> QED
    BY <1>4, <1>5, <2>1
<1>11. InOrder(less)[k] = less[i] /\ less[i] \in Nat
  BY <1>1, <1>4 DEF InOrder
<1> HIDE DEF before
<1>12. before(l - 1) < pot
  <2>1. SUFFICES ASSUME pot <= before(l - 1) PROVE FALSE
    BY <1>2, <1>8
  <2>2. balances[j] = less[j]
    BY <1>10, <2>1
  <2>3. less[j] = IF due[j] <= minimums[j] THEN 0 ELSE due[j] - minimums[j]
    BY AfterMinimumsRow DEF less
  <2>4. due[j] \in Nat /\ minimums[j] \in Nat
    BY <1>6
  <2> QED
    BY <2>2, <2>3, <2>4
<1> QED
  BY <1>2, <1>8, <1>9, <1>10, <1>11, <1>12

Payments == step \in {"minimums", "extra"}

(* Where the call is.                                                      *)
DebtFlow ==
  /\ stage \in {"called", "minimums_only", "with_extra", "answered", "refused"}
  /\ reason \in {"none", "invalid", "unavailable", "not_found", "negative_amortization",
                 "out_of_range", "did_not_converge"}
  /\ step \in {"none", "accrue", "minimums", "extra", "stalled"}
  /\ step # "none" <=> Simulating
  /\ Simulating => Valid /\ Found
  /\ projections \in Seq([months : Nat, interest : Nat, payoff : [Rows -> Nat]])
  /\ stage \in {"called", "minimums_only"} => projections = <<>>
  /\ stage = "with_extra" => Len(projections) = 1
  /\ Len(projections) <= 2

Amounts ==
  /\ month \in 0..MaxMonths /\ (step \notin {"none", "accrue"} => month < MaxMonths)
  /\ {totalInterest, remainingExtra, preTotal} \subseteq Nat
  /\ Simulating =>
       /\ order \in AprOrder
       /\ {balances, due} \subseteq [Rows -> Nat]
       /\ paidOffMonth \in [Rows -> 0..MaxMonths]

(* Where the month is: its balances are what its steps make of due.        *)
MonthSoFar ==
  /\ step = "minimums" => balances = due
  /\ step = "extra" =>
       balances = AfterMinimums(due) /\ remainingExtra = ExtraPerMonth + Leftovers(due)
  /\ MonthDone => MonthPaid

(* A row with a month has ended a debt, and has kept it ended.             *)
EndedRows ==
  Simulating =>
    \A i \in Rows :
      /\ Owed[i] = 0 => balances[i] = 0
      /\ paidOffMonth[i] > 0 => balances[i] = 0 /\ Owed[i] > 0
      /\ paidOffMonth[i] <= IF step \in {"accrue", "minimums"} THEN month ELSE month + 1

(* A month starts with a debt, so the last month is that of a row's end,   *)
(* or the row that ended it got no month.                                  *)
LastRow ==
  /\ Payments => preTotal > 0
  /\ step = "stalled" => ~ AllPaidOff(balances)
  /\ step = "minimums" => \E i \in Rows : balances[i] > 0
  /\ step = "extra" => \E i \in Rows : Owed[i] > 0 /\ paidOffMonth[i] \in {0, month + 1}
  /\ step = "accrue" =>
       IF month = 0 THEN balances = Owed
       ELSE \E i \in Rows : Owed[i] > 0 /\ paidOffMonth[i] \in {0, month}

(* A row that owes something owes less by its payment of the first month   *)
(* for every month that passed.                                            *)
Lowered(b, months) ==
  \A i \in Rows : b[i] = 0 \/ b[i] + months * (minimums[i] - FirstInterest[i]) <= Owed[i]

Sufficient == \A i \in Rows : ~ (MaxMonths * (minimums[i] - FirstInterest[i]) < Owed[i])

Converging ==
  Simulating /\ Sufficient =>
    /\ step = "accrue" => Lowered(balances, month)
    /\ Payments => /\ Lowered(AfterMinimums(due), month + 1)
                   /\ SumFunction(AfterMinimums(due)) < preTotal
    /\ step # "stalled"

DebtIInv ==
  DebtInputsOK /\ DebtFlow /\ Amounts /\ MonthSoFar /\ EndedRows /\ LastRow /\ Converging
    /\ AmortizingConverges /\ MilestonesFitProjection

-----------------------------------------------------------------------------
(* A sum of zeroes.                                                        *)
LEMMA ZeroSum ==
  ASSUME NEW S, IsFiniteSet(S), NEW f, \A x \in S : f[x] = 0
  PROVE  SumFunctionOnSet(f, S) = 0
<1>1. SumFunctionOnSet(f, S) = SumFunctionOnSet(f, {})
  BY SumOfPart
<1> QED
  BY <1>1, SumEmpty

(* The call's arguments and its accounts stay what they are.               *)
LEMMA InputsStay ==
  ASSUME UNCHANGED inputs
  PROVE  /\ Rows' = Rows /\ aprBps' = aprBps /\ minimums' = minimums
         /\ Owed' = Owed /\ FirstInterest' = FirstInterest
         /\ AprOrder' = AprOrder /\ Found' = Found /\ Valid' = Valid
         /\ DebtInputsOK' = DebtInputsOK
<1>1. plan' = plan /\ config' = config /\ extra' = extra
  BY DEF inputs
<1>2. Rows' = Rows
  BY <1>1 DEF Rows
<1>3. aprBps' = aprBps /\ minimums' = minimums /\ Owed' = Owed
  BY <1>1, <1>2 DEF aprBps, minimums, Owed
<1>4. FirstInterest' = FirstInterest
  BY <1>2, <1>3 DEF FirstInterest, MonthlyInterest
<1>5. AprOrder' = AprOrder
  BY <1>2, <1>3 DEF AprOrder
<1>6. Found' = Found
  BY <1>1, <1>2 DEF Found
<1>7. Valid' = Valid
  BY <1>1, <1>2, <1>3 DEF Valid
<1>8. DebtInputsOK' = DebtInputsOK
  BY <1>1 DEF DebtInputsOK
<1> QED
  BY <1>2, <1>3, <1>4, <1>5, <1>6, <1>7, <1>8

(* What is known while a simulation runs.                                  *)
LEMMA WhileSimulating ==
  ASSUME DebtIInv, step # "none"
  PROVE  /\ Simulating /\ RowsOK /\ order \in AprOrder
         /\ balances \in [Rows -> Nat] /\ due \in [Rows -> Nat]
         /\ paidOffMonth \in [Rows -> 0..MaxMonths]
         /\ month \in Nat /\ month <= MaxMonths /\ MaxMonths \in Nat
         /\ totalInterest \in Nat /\ remainingExtra \in Nat /\ preTotal \in Nat
         /\ ExtraPerMonth \in Nat
<1>1. Simulating /\ RowsOK
  BY AcceptedRows DEF DebtIInv, DebtFlow
<1>2. MaxMonths \in Nat
  BY DebtAssumption
<1>3. ExtraPerMonth \in Nat
  BY <1>1 DEF RowsOK, ExtraPerMonth
<1> QED
  BY <1>1, <1>2, <1>3 DEF DebtIInv, Amounts

(* The payments of a month on a config that suffices.                      *)
LEMMA MonthLowers ==
  ASSUME RowsOK, NEW b \in [Rows -> Nat], NEW m \in Nat, Sufficient, Lowered(b, m),
         \A i \in Rows : Owed[i] = 0 => b[i] = 0, ~ AllPaidOff(b)
  PROVE  /\ Lowered(AfterMinimums(Accrued(b)), m + 1)
         /\ SumFunction(AfterMinimums(Accrued(b))) < SumFunction(b)
<1> DEFINE less == AfterMinimums(Accrued(b))
<1>1. MaxMonths \in Nat /\ IsFiniteSet(Rows)
  BY DebtAssumption DEF RowsOK
<1>2. Accrued(b) \in [Rows -> Nat] /\ less \in [Rows -> Nat]
  BY AccruedRow, AfterMinimumsRow
<1>3. ASSUME NEW i \in Rows
      PROVE  /\ b[i] = 0 => less[i] = 0
             /\ b[i] # 0 => /\ less[i] < b[i]
                            /\ \/ less[i] = 0
                               \/ less[i] + (m + 1) * (minimums[i] - FirstInterest[i]) <= Owed[i]
  <2> DEFINE gain == minimums[i] - FirstInterest[i]
  <2>1. minimums[i] \in Nat /\ FirstInterest[i] \in Nat /\ Owed[i] \in Nat /\ b[i] \in Nat
    BY DEF RowsOK
  <2>2. less[i] = IF Accrued(b)[i] <= minimums[i] THEN 0 ELSE Accrued(b)[i] - minimums[i]
    BY <1>2, AfterMinimumsRow
  <2>3. /\ Accrued(b)[i] \in Nat
        /\ b[i] = 0 => Accrued(b)[i] = 0
        /\ b[i] <= Owed[i] => Accrued(b)[i] <= b[i] + FirstInterest[i]
    BY AccruedRow
  <2>4. b[i] = 0 => less[i] = 0
    BY <2>1, <2>2, <2>3
  <2>5. ASSUME b[i] # 0
        PROVE  /\ less[i] < b[i]
               /\ less[i] = 0 \/ less[i] + (m + 1) * gain <= Owed[i]
    <3>1. Owed[i] # 0 /\ b[i] + m * gain <= Owed[i] /\ ~ (MaxMonths * gain < Owed[i])
      BY <2>5 DEF Lowered, Sufficient
    <3>2. gain \in Int
      BY <2>1
    <3> HIDE DEF gain
    <3>3. gain > 0
      <4>1. SUFFICES ASSUME gain <= 0 PROVE FALSE
        BY <3>2
      <4>2. MaxMonths * gain <= 0
        BY <1>1, <3>2, <4>1
      <4> QED
        BY <1>1, <2>1, <3>1, <3>2, <4>2
    <3>4. m * gain \in Nat /\ (m + 1) * gain = m * gain + gain
      BY <3>2, <3>3
    <3>5. b[i] <= Owed[i]
      BY <2>1, <3>1, <3>4
    <3>6. Accrued(b)[i] <= b[i] + FirstInterest[i]
      BY <2>3, <3>5
    <3>7. less[i] <= b[i] - gain \/ less[i] = 0
      BY <2>1, <2>2, <2>3, <3>6 DEF gain
    <3>8. less[i] \in Nat
      BY <1>2
    <3> QED
      BY <2>1, <2>5, <3>1, <3>2, <3>3, <3>4, <3>7, <3>8
  <2> QED
    BY <2>4, <2>5
<1>4. Lowered(less, m + 1)
  BY <1>3 DEF Lowered
<1>5. SumFunctionOnSet(less, Rows) < SumFunctionOnSet(b, Rows)
  <2>1. \A i \in Rows : less[i] \in Nat /\ b[i] \in Nat
    BY <1>2
  <2> HIDE DEF less
  <2>2. \A i \in Rows : less[i] \in Int /\ b[i] \in Int /\ less[i] <= b[i]
    BY <1>3, <2>1
  <2>3. \E i \in Rows : less[i] < b[i]
    BY <1>3 DEF AllPaidOff
  <2> QED
    BY <1>1, <2>2, <2>3, SumStrict
<1> QED
  BY <1>2, <1>4, <1>5, SumOverRows

(* The invariant holds of every call that arrives.                         *)
LEMMA DebtInitEstablishes == DebtInit => DebtIInv
<1> SUFFICES ASSUME DebtInit PROVE DebtIInv
  OBVIOUS
<1>1. DebtInputsOK
  <2>1. \A a \in DOMAIN plan : plan[a] \in Int
    <3>1. PICK S \in SUBSET Accounts : plan \in [S -> Balances]
      BY DEF DebtInit
    <3>2. Balances \subseteq Int
      <4>1. \A d \in Debts : - d \in Int
        BY DebtAssumption
      <4>2. Credits \subseteq Int
        BY DebtAssumption
      <4> QED
        BY <4>1, <4>2 DEF Balances
    <3> QED
      BY <3>1, <3>2
  <2>2. config \in Seq([account : Accounts, apr : Aprs, minimum : Minimums])
    <3> DEFINE Row == [account : Accounts, apr : Aprs, minimum : Minimums]
    <3>1. PICK n \in 0..MaxRows : config \in [1..n -> Row]
      BY DEF DebtInit
    <3> HIDE DEF Row
    <3>2. n \in Nat
      BY DebtAssumption
    <3>3. config \in Seq(Row)
      BY <3>1, <3>2
    <3> QED
      BY <3>3 DEF Row
  <2>3. extra \in Int
    BY DebtAssumption DEF DebtInit
  <2> QED
    BY <2>1, <2>2, <2>3 DEF DebtInputsOK
<1>2. ~ Simulating /\ step = "none" /\ stage = "called"
  BY DEF DebtInit, Simulating
<1>3. DebtFlow
  <2> DEFINE P == [months : Nat, interest : Nat, payoff : [Rows -> Nat]]
  <2>1. projections \in Seq(P)
    <3> HIDE DEF P
    <3> QED
      BY DEF DebtInit
  <2> QED
    BY <1>2, <2>1 DEF DebtFlow, DebtInit
<1>4. Amounts
  BY <1>2, DebtAssumption DEF Amounts, DebtInit
<1>5. MonthSoFar /\ EndedRows /\ LastRow /\ Converging
  BY <1>2 DEF MonthSoFar, MonthDone, EndedRows, LastRow, Payments, Converging
<1>6. AmortizingConverges /\ MilestonesFitProjection
  BY DEF DebtInit, AmortizingConverges, MilestonesFitProjection
<1> QED
  BY <1>1, <1>3, <1>4, <1>5, <1>6 DEF DebtIInv

(* A call that ends: nothing runs any more.                                *)
LEMMA EndKeeps ==
  ASSUME DebtIInv, UNCHANGED inputs, step' = "none",
         stage' \in {"answered", "refused"},
         reason' \in {"none", "invalid", "unavailable", "not_found", "negative_amortization",
                      "out_of_range", "did_not_converge"},
         UNCHANGED sim,
         projections' \in Seq([months : Nat, interest : Nat, payoff : [Rows -> Nat]]),
         Len(projections') <= 2,
         AmortizingConverges', MilestonesFitProjection'
  PROVE  DebtIInv'
<1>1. DebtInputsOK'
  BY InputsStay DEF DebtIInv
<1>2. ~ Simulating' /\ stage' # "called" /\ stage' # "minimums_only" /\ stage' # "with_extra"
  BY DEF Simulating
<1>3. DebtFlow'
  <2>1. Rows' = Rows
    BY InputsStay
  <2> QED
    BY <1>2, <2>1 DEF DebtFlow
<1>4. Amounts'
  BY <1>2 DEF DebtIInv, Amounts, sim
<1>5. MonthSoFar' /\ EndedRows' /\ LastRow' /\ Converging'
  BY <1>2 DEF MonthSoFar, MonthDone, EndedRows, LastRow, Payments, Converging
<1> QED
  BY <1>1, <1>3, <1>4, <1>5 DEF DebtIInv

(* A simulation that starts: its balances are what the rows owe.           *)
LEMMA StartKeeps ==
  ASSUME DebtIInv, UNCHANGED inputs, Valid, Found, NEW which,
         Simulate(which), which \in {"minimums_only", "with_extra"},
         projections' \in Seq([months : Nat, interest : Nat, payoff : [Rows -> Nat]]),
         which = "minimums_only" => projections' = <<>>,
         which = "with_extra" => Len(projections') = 1, Len(projections') <= 2,
         MilestonesFitProjection'
  PROVE  DebtIInv'
<1>1. DebtInputsOK' /\ Rows' = Rows /\ Owed' = Owed /\ Valid' /\ Found' /\ AprOrder' = AprOrder
      /\ minimums' = minimums /\ FirstInterest' = FirstInterest
  BY InputsStay DEF DebtIInv
<1>2. Simulating' /\ step' = "accrue" /\ stage' = which /\ month' = 0 /\ balances' = Owed
      /\ paidOffMonth' = [i \in Rows |-> 0] /\ order' \in AprOrder /\ due' = Owed
      /\ totalInterest' = 0 /\ remainingExtra' = 0 /\ preTotal' = 0 /\ reason' = reason
  BY DEF Simulating, Simulate
<1>3. RowsOK
  BY AcceptedRows DEF DebtIInv
<1>4. DebtFlow'
  BY <1>1, <1>2 DEF DebtIInv, DebtFlow
<1>5. Amounts'
  <2>1. Owed \in [Rows -> Nat] /\ MaxMonths \in Nat
    BY <1>3, DebtAssumption DEF RowsOK
  <2> QED
    BY <1>1, <1>2, <2>1 DEF Amounts
<1>6. MonthSoFar'
  BY <1>2 DEF MonthSoFar, MonthDone
<1>7. EndedRows'
  BY <1>1, <1>2 DEF EndedRows
<1>8. LastRow'
  BY <1>1, <1>2 DEF LastRow, Payments
<1>9. Converging'
  <2>1. Lowered(balances, month)'
    <3>1. \A i \in Rows : minimums[i] \in Nat /\ FirstInterest[i] \in Nat /\ Owed[i] \in Nat
      BY <1>3 DEF RowsOK
    <3>2. \A i \in Rows : Owed[i] + 0 * (minimums[i] - FirstInterest[i]) <= Owed[i]
      BY <3>1
    <3> QED
      BY <1>1, <1>2, <3>2 DEF Lowered
  <2> QED
    BY <1>2, <2>1 DEF Converging, Payments
<1>10. AmortizingConverges'
  BY <1>2 DEF AmortizingConverges
<1> QED
  BY <1>1, <1>4, <1>5, <1>6, <1>7, <1>8, <1>9, <1>10 DEF DebtIInv

(* The checks of the handler keep the invariant: they refuse, answer or    *)
(* start a simulation.                                                     *)
LEMMA CheckKeepsDebt == DebtIInv /\ Check => DebtIInv'
<1> SUFFICES ASSUME DebtIInv, Check PROVE DebtIInv'
  OBVIOUS
<1>1. UNCHANGED inputs /\ stage = "called"
  BY DEF Check
<1>2. projections = <<>>
      /\ projections \in Seq([months : Nat, interest : Nat, payoff : [Rows -> Nat]])
  BY <1>1 DEF DebtIInv, DebtFlow
<1>3. ASSUME UNCHANGED projections PROVE MilestonesFitProjection'
  BY <1>2, <1>3 DEF MilestonesFitProjection
<1>4. ASSUME NEW why, Refuse(why),
             why \in {"invalid", "unavailable", "not_found", "negative_amortization",
                      "out_of_range", "none"}
      PROVE  DebtIInv'
  <2>1. projections' = projections /\ reason' = why /\ stage' = "refused" /\ step' = "none"
        /\ UNCHANGED sim
    BY <1>4 DEF Refuse
  <2>2. AmortizingConverges'
    BY <1>4, <2>1 DEF AmortizingConverges
  <2> QED
    BY <1>1, <1>2, <1>3, <1>4, <2>1, <2>2, EndKeeps
<1>5. Problem \in {"invalid", "not_found", "negative_amortization", "out_of_range", "none"}
  BY DEF Problem
<1>6. ASSUME Problem = "none" PROVE Valid /\ Found
  BY <1>6 DEF Problem
<1>7. CASE Problem = "none" /\ Simulate("minimums_only") /\ UNCHANGED projections
  <2>1. projections' = <<>> /\ Len(projections') <= 2
        /\ projections' \in Seq([months : Nat, interest : Nat, payoff : [Rows -> Nat]])
    BY <1>2, <1>7
  <2> QED
    BY <1>1, <1>3, <1>6, <1>7, <2>1, StartKeeps
<1> QED
  BY <1>4, <1>5, <1>7 DEF Check

(* A month's interest keeps the invariant.                                 *)
LEMMA AccrueKeepsDebt == DebtIInv /\ Accrue => DebtIInv'
<1> SUFFICES ASSUME DebtIInv, Accrue PROVE DebtIInv'
  OBVIOUS
<1> DEFINE S(b) == SumFunctionOnSet(b, Rows)
<1>1. /\ UNCHANGED <<inputs, stage, reason, order, paidOffMonth, month, remainingExtra,
                     projections>>
      /\ step = "accrue" /\ step' = "minimums" /\ month < MaxMonths /\ ~ AllPaidOff(balances)
      /\ balances' = Accrued(balances) /\ due' = Accrued(balances)
      /\ preTotal' = SumFunction(balances)
      /\ totalInterest' = totalInterest + SumFunction(balances') - preTotal'
  BY DEF Accrue
<1>2. Simulating /\ RowsOK /\ order \in AprOrder /\ balances \in [Rows -> Nat]
      /\ paidOffMonth \in [Rows -> 0..MaxMonths]
      /\ month \in Nat /\ MaxMonths \in Nat /\ totalInterest \in Nat /\ remainingExtra \in Nat
      /\ IsFiniteSet(Rows)
  BY <1>1, WhileSimulating DEF RowsOK
<1>3. Rows' = Rows /\ minimums' = minimums /\ Owed' = Owed /\ FirstInterest' = FirstInterest
      /\ AprOrder' = AprOrder /\ Found' = Found /\ Valid' = Valid /\ DebtInputsOK' = DebtInputsOK
  BY <1>1, InputsStay
<1>4. Simulating' /\ stage' = stage
  BY <1>1, <1>2 DEF Simulating
<1>5. Accrued(balances) \in [Rows -> Nat]
      /\ \A i \in Rows : /\ balances[i] <= Accrued(balances)[i]
                         /\ balances[i] = 0 => Accrued(balances)[i] = 0
  BY <1>2, AccruedRow
<1>6. PICK i \in Rows : balances[i] > 0
  <2>1. PICK i \in Rows : balances[i] # 0
    BY <1>1 DEF AllPaidOff
  <2> QED
    BY <1>2, <2>1
<1>7. S(balances) \in Nat /\ S(balances) > 0 /\ S(balances) <= S(Accrued(balances))
      /\ S(Accrued(balances)) \in Nat
  <2>1. balances[i] <= S(balances) /\ S(balances) \in Nat /\ S(Accrued(balances)) \in Nat
    BY <1>2, <1>5, SumNat
  <2>2. \A j \in Rows : balances[j] \in Int /\ Accrued(balances)[j] \in Int
                        /\ balances[j] <= Accrued(balances)[j]
    BY <1>2, <1>5
  <2>3. S(balances) <= S(Accrued(balances))
    BY <1>2, <2>2, SumMonotone
  <2>4. balances[i] \in Nat
    BY <1>2
  <2> QED
    BY <1>6, <2>1, <2>3, <2>4
<1>8. preTotal' = S(balances) /\ SumFunction(balances') = S(Accrued(balances))
  BY <1>1, <1>2, <1>5, SumOverRows
<1>9. DebtInputsOK'
  BY <1>3 DEF DebtIInv
<1>10. DebtFlow'
  BY <1>1, <1>3, <1>4 DEF DebtIInv, DebtFlow
<1>11. Amounts'
  <2>1. totalInterest' \in Nat /\ preTotal' \in Nat
    <3> HIDE DEF S
    <3> QED
      BY <1>1, <1>2, <1>7, <1>8
  <2>2. order' \in AprOrder' /\ {balances', due'} \subseteq [Rows' -> Nat]
        /\ paidOffMonth' \in [Rows' -> 0..MaxMonths]
    BY <1>1, <1>2, <1>3, <1>5
  <2>3. month' \in 0..MaxMonths /\ month' < MaxMonths /\ remainingExtra' \in Nat
    BY <1>1, <1>2
  <2> QED
    BY <2>1, <2>2, <2>3 DEF Amounts
<1>12. MonthSoFar'
  BY <1>1 DEF MonthSoFar, MonthDone
<1>13. EndedRows'
  BY <1>1, <1>2, <1>3, <1>5 DEF DebtIInv, EndedRows
<1>14. LastRow'
  <2>1. Accrued(balances)[i] > 0
    <3>1. balances[i] \in Nat /\ Accrued(balances)[i] \in Nat /\ balances[i] <= Accrued(balances)[i]
      BY <1>2, <1>5
    <3> QED
      BY <1>6, <3>1
  <2>2. preTotal' > 0
    BY <1>7, <1>8
  <2>3. \E j \in Rows' : balances'[j] > 0
    BY <1>1, <1>3, <2>1
  <2> QED
    BY <1>1, <2>2, <2>3 DEF LastRow, Payments
<1>15. Converging'
  <2> SUFFICES ASSUME Sufficient'
               PROVE  /\ Lowered(AfterMinimums(due), month + 1)'
                      /\ SumFunction(AfterMinimums(due))' < preTotal'
    BY <1>1 DEF Converging, Payments
  <2>1. Sufficient /\ Lowered(balances, month) /\ \A j \in Rows : Owed[j] = 0 => balances[j] = 0
    <3>1. Sufficient
      BY <1>3 DEF Sufficient
    <3> QED
      BY <1>1, <1>2, <3>1 DEF DebtIInv, Converging, EndedRows
  <2>2. /\ Lowered(AfterMinimums(Accrued(balances)), month + 1)
        /\ SumFunction(AfterMinimums(Accrued(balances))) < SumFunction(balances)
    BY <1>1, <1>2, <2>1, MonthLowers
  <2>3. AfterMinimums(due)' = AfterMinimums(Accrued(balances))
    BY <1>1, <1>3 DEF AfterMinimums
  <2>4. Lowered(AfterMinimums(due), month + 1)'
    <3>1. Lowered(AfterMinimums(due), month + 1)' <=>
            \A j \in Rows' : \/ (AfterMinimums(due)')[j] = 0
                             \/ (AfterMinimums(due)')[j]
                                  + (month' + 1) * (minimums'[j] - FirstInterest'[j]) <= Owed'[j]
      BY DEF Lowered
    <3> QED
      BY <1>1, <1>3, <2>2, <2>3, <3>1 DEF Lowered
  <2>5. SumFunction(AfterMinimums(due))' = SumFunction(AfterMinimums(Accrued(balances)))
    BY <2>3 DEF SumFunction
  <2> QED
    BY <1>1, <2>2, <2>4, <2>5
<1>16. AmortizingConverges'
  BY <1>2, <1>4 DEF AmortizingConverges, Simulating
<1>17. MilestonesFitProjection'
  BY <1>1, <1>3 DEF DebtIInv, MilestonesFitProjection
<1> QED
  BY <1>9, <1>10, <1>11, <1>12, <1>13, <1>14, <1>15, <1>16, <1>17 DEF DebtIInv

(* The minimum payments of a month keep the invariant.                     *)
LEMMA PayMinimumsKeepsDebt == DebtIInv /\ PayMinimums => DebtIInv'
<1> SUFFICES ASSUME DebtIInv, PayMinimums PROVE DebtIInv'
  OBVIOUS
<1>1. /\ UNCHANGED <<inputs, stage, reason, order, totalInterest, month, preTotal, due,
                     projections>>
      /\ step = "minimums" /\ step' = "extra"
      /\ balances' = AfterMinimums(balances)
      /\ paidOffMonth' = [i \in Rows |->
           IF i \in Covered(balances) THEN month + 1 ELSE paidOffMonth[i]]
      /\ remainingExtra' = ExtraPerMonth + Leftovers(balances)
  BY DEF PayMinimums, monthOneBased
<1>2. Simulating /\ RowsOK /\ order \in AprOrder /\ balances \in [Rows -> Nat] /\ due = balances
      /\ paidOffMonth \in [Rows -> 0..MaxMonths] /\ ExtraPerMonth \in Nat
      /\ month \in Nat /\ MaxMonths \in Nat /\ totalInterest \in Nat /\ preTotal \in Nat
      /\ month < MaxMonths
  BY <1>1, WhileSimulating DEF DebtIInv, MonthSoFar, Amounts
<1>3. Rows' = Rows /\ minimums' = minimums /\ Owed' = Owed /\ FirstInterest' = FirstInterest
      /\ AprOrder' = AprOrder /\ Found' = Found /\ Valid' = Valid /\ DebtInputsOK' = DebtInputsOK
  BY <1>1, InputsStay
<1>4. Simulating' /\ stage' = stage
  BY <1>1, <1>2 DEF Simulating
<1>5. /\ AfterMinimums(balances) \in [Rows -> Nat]
      /\ \A i \in Rows : AfterMinimums(balances)[i] =
                           IF balances[i] <= minimums[i] THEN 0 ELSE balances[i] - minimums[i]
      /\ Leftovers(balances) \in Nat
  BY <1>2, AfterMinimumsRow
<1>6. \A i \in Rows : /\ balances[i] \in Nat /\ minimums[i] \in Nat /\ Owed[i] \in Nat
                      /\ paidOffMonth[i] \in 0..MaxMonths
  BY <1>2 DEF RowsOK
<1>7. \A i \in Rows : /\ Owed[i] = 0 => balances[i] = 0
                      /\ paidOffMonth[i] > 0 => balances[i] = 0 /\ Owed[i] > 0
                      /\ paidOffMonth[i] <= month
  BY <1>1, <1>2 DEF DebtIInv, EndedRows
<1>8. \A i \in Rows : /\ i \in Covered(balances) => balances[i] > 0 /\ balances'[i] = 0
                      /\ balances[i] = 0 => balances'[i] = 0
  BY <1>1, <1>5, <1>6 DEF Covered
<1>9. DebtInputsOK'
  BY <1>3 DEF DebtIInv
<1>10. DebtFlow'
  BY <1>1, <1>3, <1>4 DEF DebtIInv, DebtFlow
<1>11. Amounts'
  <2>1. paidOffMonth' \in [Rows -> 0..MaxMonths]
    BY <1>1, <1>2, <1>6
  <2>2. remainingExtra' \in Nat
    BY <1>1, <1>2, <1>5
  <2> QED
    BY <1>1, <1>2, <1>3, <1>5, <2>1, <2>2 DEF Amounts
<1>12. MonthSoFar'
  <2>1. AfterMinimums(due)' = AfterMinimums(due) /\ Leftovers(due)' = Leftovers(due)
    BY <1>1, <1>3 DEF AfterMinimums, Leftovers, Covered
  <2>2. ExtraPerMonth' = ExtraPerMonth
    BY <1>1 DEF ExtraPerMonth, inputs
  <2> QED
    BY <1>1, <1>2, <2>1, <2>2 DEF MonthSoFar, MonthDone
<1>13. EndedRows'
  <2>1. ASSUME NEW i \in Rows
        PROVE  /\ Owed[i] = 0 => balances'[i] = 0
               /\ paidOffMonth'[i] > 0 => balances'[i] = 0 /\ Owed[i] > 0
               /\ paidOffMonth'[i] <= month + 1
    BY <1>1, <1>2, <1>6, <1>7, <1>8
  <2> QED
    BY <1>1, <1>3, <2>1 DEF EndedRows
<1>14. LastRow'
  <2>1. PICK i \in Rows : balances[i] > 0
    BY <1>1 DEF DebtIInv, LastRow
  <2>2. Owed[i] > 0 /\ paidOffMonth'[i] \in {0, month + 1}
    BY <1>1, <1>6, <1>7, <2>1
  <2>3. preTotal' > 0
    BY <1>1 DEF DebtIInv, LastRow, Payments
  <2> QED
    BY <1>1, <1>3, <2>2, <2>3 DEF LastRow, Payments
<1>15. Converging'
  <2> SUFFICES ASSUME Sufficient'
               PROVE  /\ Lowered(AfterMinimums(due), month + 1)'
                      /\ SumFunction(AfterMinimums(due))' < preTotal'
    BY <1>1 DEF Converging, Payments
  <2>1. Sufficient
    BY <1>3 DEF Sufficient
  <2>2. Lowered(AfterMinimums(due), month + 1) /\ SumFunction(AfterMinimums(due)) < preTotal
    BY <1>1, <1>2, <2>1 DEF DebtIInv, Converging, Payments
  <2>3. AfterMinimums(due)' = AfterMinimums(due)
    BY <1>1, <1>3 DEF AfterMinimums
  <2>4. Lowered(AfterMinimums(due), month + 1)'
    BY <1>1, <1>3, <2>2, <2>3 DEF Lowered
  <2> QED
    BY <1>1, <2>2, <2>3, <2>4 DEF SumFunction
<1>16. AmortizingConverges'
  BY <1>2, <1>4 DEF AmortizingConverges, Simulating
<1>17. MilestonesFitProjection'
  BY <1>1, <1>3 DEF DebtIInv, MilestonesFitProjection
<1> QED
  BY <1>9, <1>10, <1>11, <1>12, <1>13, <1>14, <1>15, <1>16, <1>17 DEF DebtIInv

(* The extra payments, with which a month ends, keep the invariant.        *)
LEMMA PayExtraKeepsDebt == DebtIInv /\ PayExtra => DebtIInv'
<1> SUFFICES ASSUME DebtIInv, PayExtra PROVE DebtIInv'
  OBVIOUS
<1> DEFINE S(b) == SumFunctionOnSet(b, Rows)
<1>1. /\ UNCHANGED <<inputs, stage, reason, order, totalInterest, preTotal, due, projections>>
      /\ step = "extra"
      /\ balances' = AfterExtra(balances, remainingExtra)
      /\ paidOffMonth' = [i \in Rows |->
           IF balances[i] > 0 /\ balances'[i] = 0 THEN month + 1 ELSE paidOffMonth[i]]
      /\ remainingExtra' = Max({0, remainingExtra - SumFunction(balances)})
      /\ \/ Stalled(month, preTotal, SumFunction(balances')) /\ step' = "stalled" /\ month' = month
         \/ step' = "accrue" /\ month' = month + 1
  BY DEF PayExtra, monthOneBased
<1>2. Simulating /\ RowsOK /\ order \in AprOrder /\ balances \in [Rows -> Nat]
      /\ due \in [Rows -> Nat] /\ balances = AfterMinimums(due)
      /\ paidOffMonth \in [Rows -> 0..MaxMonths] /\ ExtraPerMonth \in Nat
      /\ remainingExtra = ExtraPerMonth + Leftovers(due) /\ remainingExtra \in Nat
      /\ month \in Nat /\ MaxMonths \in Nat /\ totalInterest \in Nat /\ preTotal \in Nat
      /\ month < MaxMonths /\ IsFiniteSet(Rows)
  BY <1>1, WhileSimulating DEF DebtIInv, MonthSoFar, Amounts, RowsOK
<1>3. Rows' = Rows /\ minimums' = minimums /\ Owed' = Owed /\ FirstInterest' = FirstInterest
      /\ AprOrder' = AprOrder /\ Found' = Found /\ Valid' = Valid /\ DebtInputsOK' = DebtInputsOK
  BY <1>1, InputsStay
<1>4. Simulating' /\ stage' = stage
  BY <1>1, <1>2 DEF Simulating
<1>5. /\ balances' \in [Rows -> Nat]
      /\ \A i \in Rows : balances'[i] <= balances[i]
  BY <1>1, <1>2, AfterExtraRow
<1>6. \A i \in Rows : /\ balances[i] \in Nat /\ balances'[i] \in Nat /\ Owed[i] \in Nat
                      /\ paidOffMonth[i] \in 0..MaxMonths
  BY <1>2, <1>5 DEF RowsOK
<1>7. \A i \in Rows : /\ Owed[i] = 0 => balances[i] = 0
                      /\ paidOffMonth[i] > 0 => balances[i] = 0 /\ Owed[i] > 0
                      /\ paidOffMonth[i] <= month + 1
  BY <1>1, <1>2 DEF DebtIInv, EndedRows
<1>8. S(balances) \in Nat /\ S(balances') \in Nat /\ S(balances') <= S(balances)
      /\ SumFunction(balances) = S(balances) /\ SumFunction(balances') = S(balances')
  <2>1. S(balances) \in Nat /\ S(balances') \in Nat
    BY <1>2, <1>5, SumNat
  <2>2. \A i \in Rows : balances'[i] \in Int /\ balances[i] \in Int /\ balances'[i] <= balances[i]
    BY <1>5, <1>6
  <2>3. S(balances') <= S(balances)
    BY <1>2, <2>2, SumMonotone
  <2>4. SumFunction(balances) = S(balances) /\ SumFunction(balances') = S(balances')
    BY <1>2, <1>5, SumOverRows
  <2> QED
    BY <2>1, <2>3, <2>4
<1>9. DebtInputsOK'
  BY <1>3 DEF DebtIInv
<1>10. DebtFlow'
  BY <1>1, <1>3, <1>4 DEF DebtIInv, DebtFlow
<1>11. Amounts'
  <2>1. paidOffMonth' \in [Rows -> 0..MaxMonths]
    BY <1>1, <1>2, <1>6
  <2>2. remainingExtra' \in Nat
    <3>1. remainingExtra - S(balances) \in Int
      BY <1>2, <1>8
    <3> QED
      BY <1>1, <1>8, <3>1, TwoNumbers
  <2>3. month' \in 0..MaxMonths /\ (step' \notin {"none", "accrue"} => month' < MaxMonths)
    BY <1>1, <1>2
  <2>4. order' \in AprOrder' /\ {balances', due'} \subseteq [Rows' -> Nat]
        /\ paidOffMonth' \in [Rows' -> 0..MaxMonths]
    BY <1>1, <1>2, <1>3, <1>5, <2>1
  <2> QED
    BY <1>1, <1>2, <2>2, <2>3, <2>4 DEF Amounts
<1>12. MonthSoFar'
  <2>1. AfterMinimums(due)' = AfterMinimums(due) /\ Leftovers(due)' = Leftovers(due)
    BY <1>1, <1>3 DEF AfterMinimums, Leftovers, Covered
  <2>2. ExtraPerMonth' = ExtraPerMonth
    BY <1>1 DEF ExtraPerMonth, inputs
  <2>3. AfterExtra(AfterMinimums(due), ExtraPerMonth + Leftovers(due))' =
          AfterExtra(AfterMinimums(due), ExtraPerMonth + Leftovers(due))
    BY <1>1, <1>3, <2>1, <2>2 DEF AfterExtra, OwedBefore
  <2>4. MonthPaid'
    BY <1>1, <1>2, <2>3 DEF MonthPaid
  <2> QED
    BY <1>1, <2>4 DEF MonthSoFar
<1>13. EndedRows'
  <2>1. ASSUME NEW i \in Rows
        PROVE  /\ Owed[i] = 0 => balances'[i] = 0
               /\ paidOffMonth'[i] > 0 => balances'[i] = 0 /\ Owed[i] > 0
               /\ paidOffMonth'[i] <= month + 1
    <3>1. paidOffMonth'[i] =
            IF balances[i] > 0 /\ balances'[i] = 0 THEN month + 1 ELSE paidOffMonth[i]
      BY <1>1
    <3>2. balances'[i] <= balances[i]
      BY <1>5
    <3> QED
      BY <1>2, <1>6, <1>7, <3>1, <3>2
  <2>2. (IF step' \in {"accrue", "minimums"} THEN month' ELSE month' + 1) = month + 1
    BY <1>1
  <2> QED
    BY <1>3, <2>1, <2>2 DEF EndedRows
<1>14. LastRow'
  <2>1. PICK i \in Rows : Owed[i] > 0 /\ paidOffMonth[i] \in {0, month + 1}
    BY <1>1 DEF DebtIInv, LastRow
  <2>2. paidOffMonth'[i] \in {0, month + 1}
    BY <1>1, <2>1
  <2>3. step' = "stalled" => ~ AllPaidOff(balances)'
    <3> SUFFICES ASSUME step' = "stalled", AllPaidOff(balances)' PROVE FALSE
      OBVIOUS
    <3>1. S(balances') >= preTotal
      BY <1>1, <1>8 DEF Stalled
    <3>2. preTotal > 0
      BY <1>1 DEF DebtIInv, LastRow, Payments
    <3>3. \A j \in Rows : balances'[j] = 0
      BY <1>3 DEF AllPaidOff
    <3>4. S(balances') = 0
      BY <1>2, <3>3, ZeroSum
    <3> QED
      BY <1>2, <3>1, <3>2, <3>4
  <2>4. step' = "accrue" => month' # 0 /\ month' = month + 1
    BY <1>1, <1>2
  <2> QED
    BY <1>1, <1>3, <2>1, <2>2, <2>3, <2>4 DEF LastRow, Payments
<1>15. Converging'
  <2> SUFFICES ASSUME Sufficient'
               PROVE  /\ step' = "accrue" => Lowered(balances, month)'
                      /\ step' # "stalled"
    BY <1>1 DEF Converging, Payments
  <2>1. Sufficient
    BY <1>3 DEF Sufficient
  <2>2. Lowered(balances, month + 1) /\ S(balances) < preTotal
    BY <1>1, <1>2, <1>8, <2>1 DEF DebtIInv, Converging, Payments
  <2>3. step' # "stalled"
    BY <1>1, <1>2, <1>8, <2>2 DEF Stalled
  <2>4. Lowered(balances, month)'
    <3>1. month' = month + 1
      BY <1>1, <2>3
    <3>2. ASSUME NEW i \in Rows
          PROVE  \/ balances'[i] = 0
                 \/ balances'[i] + (month + 1) * (minimums[i] - FirstInterest[i]) <= Owed[i]
      <4>1. minimums[i] - FirstInterest[i] \in Int
        <5>1. minimums[i] \in Nat /\ FirstInterest[i] \in Nat
          BY <1>2 DEF RowsOK
        <5> QED
          BY <5>1
      <4>2. (month + 1) * (minimums[i] - FirstInterest[i]) \in Int
        BY <1>2, <4>1
      <4>3. \/ balances[i] = 0
            \/ balances[i] + (month + 1) * (minimums[i] - FirstInterest[i]) <= Owed[i]
        BY <2>2 DEF Lowered
      <4>4. balances'[i] <= balances[i]
        BY <1>5
      <4> QED
        BY <1>6, <4>2, <4>3, <4>4
    <3> QED
      BY <1>3, <3>1, <3>2 DEF Lowered
  <2> QED
    BY <2>3, <2>4
<1>16. AmortizingConverges'
  BY <1>2, <1>4 DEF AmortizingConverges, Simulating
<1>17. MilestonesFitProjection'
  BY <1>1, <1>3 DEF DebtIInv, MilestonesFitProjection
<1> QED
  BY <1>9, <1>10, <1>11, <1>12, <1>13, <1>14, <1>15, <1>16, <1>17 DEF DebtIInv

(* The projection a simulation that paid everything off gives.             *)
LEMMA ProjectionFits ==
  ASSUME DebtIInv, step = "accrue", AllPaidOff(balances)
  PROVE  /\ Projection \in [months : Nat, interest : Nat, payoff : [Rows -> Nat]]
         /\ \A i \in Rows : paidOffMonth[i] \in 0..month /\ (paidOffMonth[i] > 0 => Owed[i] > 0)
         /\ (\E i \in Rows : Owed[i] > 0)
              /\ (\A i \in Rows : Owed[i] > 0 => paidOffMonth[i] > 0) =>
              \E i \in Rows : Owed[i] > 0 /\ paidOffMonth[i] = month
<1>1. Simulating /\ RowsOK /\ paidOffMonth \in [Rows -> 0..MaxMonths]
      /\ month \in Nat /\ MaxMonths \in Nat /\ totalInterest \in Nat
  BY WhileSimulating
<1>2. \A i \in Rows : paidOffMonth[i] \in Nat /\ Owed[i] \in Nat
  BY <1>1 DEF RowsOK
<1>3. Projection \in [months : Nat, interest : Nat, payoff : [Rows -> Nat]]
  <2>1. paidOffMonth \in [Rows -> Nat]
    BY <1>1
  <2> QED
    BY <1>1, <2>1 DEF Projection
<1>4. \A i \in Rows : paidOffMonth[i] <= month /\ (paidOffMonth[i] > 0 => Owed[i] > 0)
  BY <1>1 DEF DebtIInv, EndedRows
<1>5. CASE month = 0
  <2>1. \A i \in Rows : Owed[i] = 0
    BY <1>5 DEF DebtIInv, LastRow, AllPaidOff
  <2> QED
    BY <1>1, <1>2, <1>3, <1>4, <2>1
<1>6. CASE month # 0
  <2>1. PICK i \in Rows : Owed[i] > 0 /\ paidOffMonth[i] \in {0, month}
    BY <1>6 DEF DebtIInv, LastRow
  <2> QED
    BY <1>1, <1>2, <1>3, <1>4, <2>1
<1> QED
  BY <1>5, <1>6

(* A projection appended to the answer fits its milestones.                *)
LEMMA AppendKeepsMilestones ==
  ASSUME DebtIInv, step = "accrue", AllPaidOff(balances), UNCHANGED inputs,
         projections' = Append(projections, Projection)
  PROVE  /\ projections' \in Seq([months : Nat, interest : Nat, payoff : [Rows -> Nat]])
         /\ Len(projections') = Len(projections) + 1
         /\ MilestonesFitProjection'
<1> DEFINE P == [months : Nat, interest : Nat, payoff : [Rows -> Nat]]
<1>1. projections \in Seq(P) /\ Projection \in P
  BY ProjectionFits DEF DebtIInv, DebtFlow
<1>2. /\ projections' \in Seq(P)
      /\ Len(projections) \in Nat
      /\ Len(projections') = Len(projections) + 1
      /\ DOMAIN projections' = 1..(Len(projections) + 1)
      /\ DOMAIN projections = 1..Len(projections)
      /\ \A p \in DOMAIN projections : projections'[p] = projections[p]
      /\ projections'[Len(projections) + 1] = Projection
  <2> HIDE DEF P
  <2> QED
    BY <1>1
<1>3. Rows' = Rows /\ Owed' = Owed
  BY InputsStay
<1>4. ASSUME NEW p \in DOMAIN projections'
      PROVE  LET payoff == projections'[p].payoff
                 months == projections'[p].months
                 indebted == {i \in Rows : Owed[i] > 0}
             IN  /\ \A i \in Rows :
                      payoff[i] \in 0..months /\ (payoff[i] > 0 => i \in indebted)
                 /\ indebted # {} /\ (\A i \in indebted : payoff[i] > 0) =>
                      \E i \in indebted : payoff[i] = months
  <2>1. CASE p \in DOMAIN projections
    BY <1>2, <2>1 DEF DebtIInv, MilestonesFitProjection
  <2>2. CASE p = Len(projections) + 1
    <3>1. projections'[p].payoff = paidOffMonth /\ projections'[p].months = month
      BY <1>2, <2>2 DEF Projection
    <3> QED
      BY <3>1, ProjectionFits
  <2>3. p \in DOMAIN projections \/ p = Len(projections) + 1
    BY <1>2
  <2> QED
    BY <2>1, <2>2, <2>3
<1> QED
  BY <1>2, <1>3, <1>4 DEF MilestonesFitProjection

(* Payments that suffice end the debt within the cap, so a simulation that *)
(* did not is not of such.                                                 *)
LEMMA UnendedIsInsufficient ==
  ASSUME DebtIInv, ~ AllPaidOff(balances),
         step = "stalled" \/ (step = "accrue" /\ month = MaxMonths)
  PROVE  \E i \in Rows : MaxMonths * (minimums[i] - FirstInterest[i]) < Owed[i]
<1> SUFFICES ASSUME Sufficient PROVE FALSE
  BY DEF Sufficient
<1>1. Simulating /\ RowsOK /\ balances \in [Rows -> Nat] /\ MaxMonths \in Nat
  BY WhileSimulating
<1>2. step = "accrue" /\ month = MaxMonths /\ Lowered(balances, month)
  BY <1>1 DEF DebtIInv, Converging
<1>3. ASSUME NEW i \in Rows PROVE balances[i] = 0
  <2>1. balances[i] \in Nat /\ Owed[i] \in Nat /\ minimums[i] - FirstInterest[i] \in Int
    BY <1>1 DEF RowsOK
  <2>2. MaxMonths * (minimums[i] - FirstInterest[i]) \in Int
    BY <1>1, <2>1
  <2>3. \/ balances[i] = 0
        \/ balances[i] + MaxMonths * (minimums[i] - FirstInterest[i]) <= Owed[i]
    BY <1>2 DEF Lowered
  <2>4. ~ (MaxMonths * (minimums[i] - FirstInterest[i]) < Owed[i])
    BY DEF Sufficient
  <2> QED
    BY <2>1, <2>2, <2>3, <2>4
<1> QED
  BY <1>3 DEF AllPaidOff

(* The end of a simulation keeps the invariant.                            *)
LEMMA EndSimulationKeepsDebt == DebtIInv /\ EndSimulation => DebtIInv'
<1> SUFFICES ASSUME DebtIInv, EndSimulation PROVE DebtIInv'
  OBVIOUS
<1>1. UNCHANGED inputs /\ step # "none"
      /\ (step = "stalled" \/ (step = "accrue" /\ (AllPaidOff(balances) \/ month = MaxMonths)))
  BY DEF EndSimulation
<1>2. Simulating /\ Valid /\ Found /\ Len(projections) <= 2
      /\ projections \in Seq([months : Nat, interest : Nat, payoff : [Rows -> Nat]])
      /\ (stage = "minimums_only" => projections = <<>>)
      /\ (stage = "with_extra" => Len(projections) = 1)
      /\ reason \in {"none", "invalid", "unavailable", "not_found", "negative_amortization",
                     "out_of_range", "did_not_converge"}
  BY <1>1 DEF DebtIInv, DebtFlow
<1>3. CASE ~ AllPaidOff(balances)
  <2>1. Refuse("did_not_converge")
    BY <1>3 DEF EndSimulation
  <2>2. /\ stage' = "refused" /\ reason' = "did_not_converge" /\ step' = "none"
        /\ UNCHANGED sim /\ projections' = projections
    BY <2>1 DEF Refuse
  <2>3. Rows' = Rows /\ minimums' = minimums /\ FirstInterest' = FirstInterest /\ Owed' = Owed
    BY <1>1, InputsStay
  <2>4. \E i \in Rows : MaxMonths * (minimums[i] - FirstInterest[i]) < Owed[i]
    BY <1>1, <1>3, UnendedIsInsufficient
  <2>5. AmortizingConverges'
    BY <2>3, <2>4 DEF AmortizingConverges
  <2>6. MilestonesFitProjection'
    BY <2>2, <2>3 DEF DebtIInv, MilestonesFitProjection
  <2> QED
    BY <1>1, <1>2, <2>2, <2>5, <2>6, EndKeeps
<1>4. CASE AllPaidOff(balances)
  <2>1. step = "accrue"
    BY <1>1, <1>4 DEF DebtIInv, LastRow
  <2>2. projections' = Append(projections, Projection)
    BY <1>4 DEF EndSimulation
  <2>3. /\ projections' \in Seq([months : Nat, interest : Nat, payoff : [Rows -> Nat]])
        /\ Len(projections') = Len(projections) + 1
        /\ MilestonesFitProjection'
    BY <1>1, <1>4, <2>1, <2>2, AppendKeepsMilestones
  <2>4. Len(projections) = 0 \/ Len(projections) = 1
    <3>1. projections = <<>> => Len(projections) = 0
      OBVIOUS
    <3> QED
      BY <1>2, <3>1 DEF Simulating
  <2>5. Len(projections') <= 2
    <3> DEFINE before == Len(projections)
               after == Len(projections')
    <3>1. after = before + 1 /\ before \in {0, 1}
      BY <2>3, <2>4
    <3> HIDE DEF before, after
    <3>2. after <= 2
      BY <3>1
    <3> QED
      BY <3>2 DEF after
  <2>6. CASE stage = "minimums_only" /\ extra > 0
    <3>1. Simulate("with_extra")
      BY <1>4, <2>6 DEF EndSimulation
    <3>2. Len(projections') = 1
      <4>1. Len(<<>>) = 0
        OBVIOUS
      <4>2. projections = <<>>
        BY <1>2, <2>6
      <4> QED
        BY <2>3, <4>1, <4>2
    <3> QED
      BY <1>1, <1>2, <2>3, <2>5, <3>1, <3>2, StartKeeps
  <2>7. CASE ~ (stage = "minimums_only" /\ extra > 0)
    <3>1. stage' = "answered" /\ step' = "none" /\ UNCHANGED <<reason, sim>>
      BY <1>4, <2>7 DEF EndSimulation
    <3>2. AmortizingConverges'
      BY <3>1 DEF AmortizingConverges
    <3> QED
      BY <1>1, <1>2, <2>3, <2>5, <3>1, <3>2, EndKeeps
  <2> QED
    BY <2>6, <2>7
<1> QED
  BY <1>3, <1>4

(* So does a step that changes nothing.                                    *)
LEMMA DebtStutterKeeps == DebtIInv /\ UNCHANGED debtVars => DebtIInv'
<1> SUFFICES ASSUME DebtIInv, UNCHANGED debtVars PROVE DebtIInv'
  OBVIOUS
<1>1. UNCHANGED <<plan, config, extra, stage, reason, step, order, balances, paidOffMonth,
                  totalInterest, month, remainingExtra, preTotal, due, projections>>
  BY DEF debtVars, sim, inputs
<1>2. Rows' = Rows /\ minimums' = minimums /\ Owed' = Owed /\ FirstInterest' = FirstInterest
      /\ AprOrder' = AprOrder /\ Found' = Found /\ Valid' = Valid /\ DebtInputsOK' = DebtInputsOK
      /\ ExtraPerMonth' = ExtraPerMonth /\ Simulating' = Simulating
  BY <1>1, InputsStay DEF inputs, ExtraPerMonth, Simulating
<1>3. AfterMinimums(due)' = AfterMinimums(due) /\ Leftovers(due)' = Leftovers(due)
  BY <1>1, <1>2 DEF AfterMinimums, Leftovers, Covered
<1>4. MonthPaid' = MonthPaid
  BY <1>1, <1>2, <1>3 DEF MonthPaid, AfterExtra, OwedBefore
<1>5. DebtFlow' /\ Amounts'
  BY <1>1, <1>2 DEF DebtIInv, DebtFlow, Amounts
<1>6. MonthSoFar'
  BY <1>1, <1>2, <1>3, <1>4 DEF DebtIInv, MonthSoFar, MonthDone
<1>7. EndedRows' /\ LastRow'
  BY <1>1, <1>2 DEF DebtIInv, EndedRows, LastRow, Payments, AllPaidOff
<1>8. Converging'
  BY <1>1, <1>2, <1>3 DEF DebtIInv, Converging, Payments, Sufficient, Lowered, SumFunction
<1>9. AmortizingConverges' /\ MilestonesFitProjection'
  BY <1>1, <1>2 DEF DebtIInv, AmortizingConverges, MilestonesFitProjection
<1> QED
  BY <1>2, <1>5, <1>6, <1>7, <1>8, <1>9 DEF DebtIInv

(* The invariant implies the types.                                        *)
LEMMA DebtTypesFollow == DebtIInv => DebtTypeOK
<1> SUFFICES ASSUME DebtIInv PROVE DebtTypeOK
  OBVIOUS
<1>1. step # "none" =>
        /\ order \in [Rows -> Rows] /\ IsInjective(order)
        /\ {balances, due} \subseteq [Rows -> Nat] /\ paidOffMonth \in [Rows -> 0..MaxMonths]
  BY WhileSimulating DEF AprOrder
<1> QED
  BY <1>1 DEF DebtIInv, DebtFlow, Amounts, DebtTypeOK

(* The invariant implies what a month's end should be.                     *)
LEMMA AvalancheFollows == DebtIInv => AvalancheMonth
<1> SUFFICES ASSUME DebtIInv, MonthDone PROVE AvalancheMonth
  BY DEF AvalancheMonth, MonthSpendsItsCapacity, HighestAprFirst
<1>1. step # "none" /\ MonthPaid
  BY DEF MonthDone, DebtIInv, MonthSoFar
<1> QED
  BY <1>1, WhileSimulating, CapacityIsSpent, HighestRowFirst DEF AvalancheMonth

(* The invariant.                                                          *)
THEOREM DebtInvariance == DebtSpec => []DebtIInv
<1>1. DebtIInv /\ [DebtNext]_debtVars => DebtIInv'
  BY CheckKeepsDebt, AccrueKeepsDebt, PayMinimumsKeepsDebt, PayExtraKeepsDebt,
     EndSimulationKeepsDebt, DebtStutterKeeps DEF DebtNext
<1> QED
  BY <1>1, DebtInitEstablishes, PTL DEF DebtSpec

(* Types: balances stay natural numbers whatever is paid, so that no       *)
(* payment exceeds what is owed, and no debt ends after the cap.           *)
THEOREM DebtTypes == DebtSpec => []DebtTypeOK
  BY DebtInvariance, DebtTypesFollow, PTL

(* Each month spends the whole capacity or ends the debt, and its extra    *)
(* goes to the highest rate first.                                         *)
THEOREM AvalancheSpendsAll == DebtSpec => []AvalancheMonth
  BY DebtInvariance, AvalancheFollows, PTL

(* A simulation that is refused because it did not converge had a row      *)
(* whose minimum does not pay it off within the cap: payments that suffice *)
(* end the debt, and neither the stall rule nor the cap refuses them.      *)
THEOREM Convergence == DebtSpec => []AmortizingConverges
<1>1. DebtIInv => AmortizingConverges
  BY DEF DebtIInv
<1> QED
  BY <1>1, DebtInvariance, PTL

(* The milestones of a projection fit it: the last of them is its end.     *)
THEOREM Milestones == DebtSpec => []MilestonesFitProjection
<1>1. DebtIInv => MilestonesFitProjection
  BY DEF DebtIInv
<1> QED
  BY <1>1, DebtInvariance, PTL
=============================================================================
