----------------------------- MODULE FiniteSums -----------------------------
(***************************************************************************)
(* Lemmas about SumFunctionOnSet, the sum of a function over a finite set: *)
(* what it takes to reason about the supply of a token, the balances of    *)
(* its holders and the amounts of claimed leaves for sets of any size.     *)
(*                                                                         *)
(* The sum is defined by recursion over subsets, removing a chosen element *)
(* at a time.  Each induction below is an argument by a minimal            *)
(* counterexample: a non-empty set of subsets of a finite set has a        *)
(* member none of whose proper subsets belongs to it.  FoldLeft removes    *)
(* the last position instead; the lemmas about that are at the end.        *)
(***************************************************************************)
EXTENDS Integers, Functions, FiniteSetsExt, FiniteSetTheorems, NaturalsInduction,
        WellFoundedInduction, TLAPS

(* The element the recursion removes next. *)
Chosen(s) == CHOOSE x \in s : TRUE

(* The recursion equation of the sum of fun, on the subsets of S. *)
SumsSubsets(g, fun, S) ==
    g = [s \in SUBSET S |-> IF s = {} THEN 0 ELSE fun[Chosen(s)] + g[s \ {Chosen(s)}]]

(* Minimal counterexamples exist. *)
LEMMA MinimalSubset ==
    ASSUME NEW S, IsFiniteSet(S), NEW B \in SUBSET SUBSET S, B # {}
    PROVE  \E T \in B : \A U \in B : ~(U \subseteq T /\ U # T)
  <1>1. IsWellFoundedOn(StrictSubsetOrdering(S), FiniteSubsetsOf(S))
    BY FS_StrictSubsetOrderingWellFounded
  <1>2. B \subseteq FiniteSubsetsOf(S)
    BY FS_Subset DEF FiniteSubsetsOf
  <1>3. \E T \in B : \A U \in B : ~(<<U, T>> \in StrictSubsetOrdering(S))
    BY <1>1, <1>2, WFMin
  <1> QED BY <1>3 DEF StrictSubsetOrdering

(* The chosen element is an element, and removing it leaves a proper subset. *)
LEMMA ChosenRemoved ==
    ASSUME NEW s, s # {}
    PROVE  Chosen(s) \in s /\ s \ {Chosen(s)} \subseteq s /\ s \ {Chosen(s)} # s
  BY DEF Chosen

(* SumFunctionOnSet is the value at S of a solution of the equation. *)
LEMMA SumUnfold ==
    ASSUME NEW fun, NEW S
    PROVE  SumFunctionOnSet(fun, S) = (CHOOSE g : SumsSubsets(g, fun, S))[S]
  BY DEF SumFunctionOnSet, FoldFunctionOnSet, MapThenFoldSet, SumsSubsets, Chosen

(* Two solutions agree. *)
LEMMA SumsAgree ==
    ASSUME NEW fun, NEW S, IsFiniteSet(S), NEW g, NEW h,
           SumsSubsets(g, fun, S), SumsSubsets(h, fun, S)
    PROVE  \A s \in SUBSET S : g[s] = h[s]
  <1> DEFINE B == {s \in SUBSET S : g[s] # h[s]}
  <1> SUFFICES ASSUME B # {} PROVE FALSE
    OBVIOUS
  <1>b. B \in SUBSET SUBSET S
    OBVIOUS
  <1> HIDE DEF B
  <1>1. PICK T \in B : \A U \in B : ~(U \subseteq T /\ U # T)
    BY <1>b, MinimalSubset
  <1> USE DEF B
  <1>2. T \in SUBSET S /\ g[T] # h[T]
    OBVIOUS
  <1>3. T # {}
    BY <1>2 DEF SumsSubsets
  <1> DEFINE U == T \ {Chosen(T)}
  <1>4. U \in SUBSET S /\ U \subseteq T /\ U # T
    BY <1>2, <1>3, ChosenRemoved
  <1>5. g[U] = h[U]
    BY <1>1, <1>4
  <1>6. g[T] = fun[Chosen(T)] + g[U] /\ h[T] = fun[Chosen(T)] + h[U]
    BY <1>2, <1>3 DEF SumsSubsets
  <1> QED BY <1>2, <1>5, <1>6

(* A solution on S restricts to a solution on any subset of S. *)
LEMMA SumsRestrict ==
    ASSUME NEW fun, NEW S, NEW g, SumsSubsets(g, fun, S), NEW T \in SUBSET S
    PROVE  SumsSubsets([s \in SUBSET T |-> g[s]], fun, T)
  <1> DEFINE h == [s \in SUBSET T |-> g[s]]
  <1>1. ASSUME NEW s \in SUBSET T
        PROVE  h[s] = IF s = {} THEN 0 ELSE fun[Chosen(s)] + h[s \ {Chosen(s)}]
    <2>1. s \in SUBSET S /\ s \ {Chosen(s)} \in SUBSET T
      OBVIOUS
    <2>2. g[s] = IF s = {} THEN 0 ELSE fun[Chosen(s)] + g[s \ {Chosen(s)}]
      BY <2>1 DEF SumsSubsets
    <2> QED BY <2>1, <2>2
  <1>2. h = [s \in SUBSET T |-> IF s = {} THEN 0 ELSE fun[Chosen(s)] + h[s \ {Chosen(s)}]]
    BY <1>1
  <1> HIDE DEF h
  <1>3. SumsSubsets(h, fun, T)
    BY <1>2 DEF SumsSubsets
  <1> QED BY <1>3 DEF h

(* The value of a solution at a subset is the sum over that subset. *)
LEMMA SumsValue ==
    ASSUME NEW fun, NEW S, IsFiniteSet(S), NEW g, SumsSubsets(g, fun, S),
           NEW T \in SUBSET S
    PROVE  g[T] = SumFunctionOnSet(fun, T)
  <1> DEFINE h == [s \in SUBSET T |-> g[s]]
             c == CHOOSE k : SumsSubsets(k, fun, T)
  <1>1. SumsSubsets(h, fun, T)
    BY SumsRestrict
  <1>2. SumsSubsets(c, fun, T)
    BY <1>1
  <1>3. IsFiniteSet(T)
    BY FS_Subset
  <1> HIDE DEF c
  <1>4. h[T] = g[T]
    OBVIOUS
  <1> HIDE DEF h
  <1>5. \A s \in SUBSET T : h[s] = c[s]
    BY <1>1, <1>2, <1>3, SumsAgree
  <1>6. h[T] = c[T]
    BY <1>5
  <1>7. SumFunctionOnSet(fun, T) = c[T]
    BY SumUnfold DEF c
  <1> QED BY <1>4, <1>6, <1>7

(* The equation has a solution on every finite set. *)
LEMMA SumsExist ==
    ASSUME NEW fun, NEW S, IsFiniteSet(S)
    PROVE  \E g : SumsSubsets(g, fun, S)
  <1> DEFINE B == {T \in SUBSET S : ~\E g : SumsSubsets(g, fun, T)}
  <1> SUFFICES ASSUME B # {} PROVE FALSE
    OBVIOUS
  <1>b. B \in SUBSET SUBSET S
    OBVIOUS
  <1> HIDE DEF B
  <1>1. PICK T \in B : \A U \in B : ~(U \subseteq T /\ U # T)
    BY <1>b, MinimalSubset
  <1> USE DEF B
  <1>2. \A U \in SUBSET T : U # T => \E g : SumsSubsets(g, fun, U)
    BY <1>1
  <1> DEFINE h == [s \in SUBSET T |-> IF s = {} THEN 0
                        ELSE fun[Chosen(s)] + SumFunctionOnSet(fun, s \ {Chosen(s)})]
  <1>3. ASSUME NEW u \in SUBSET T, u # T
        PROVE  SumFunctionOnSet(fun, u) = h[u]
    <2>1. PICK g : SumsSubsets(g, fun, u)
      BY <1>2, <1>3
    <2>2. IsFiniteSet(u)
      BY FS_Subset
    <2>3. \A v \in SUBSET u : g[v] = SumFunctionOnSet(fun, v)
      BY <2>1, <2>2, SumsValue
    <2>4. g[u] = IF u = {} THEN 0 ELSE fun[Chosen(u)] + g[u \ {Chosen(u)}]
      BY <2>1 DEF SumsSubsets
    <2>5. g[u \ {Chosen(u)}] = SumFunctionOnSet(fun, u \ {Chosen(u)})
      BY <2>3
    <2>6. g[u] = SumFunctionOnSet(fun, u)
      BY <2>3
    <2> QED BY <2>4, <2>5, <2>6
  <1>4. ASSUME NEW s \in SUBSET T
        PROVE  h[s] = IF s = {} THEN 0 ELSE fun[Chosen(s)] + h[s \ {Chosen(s)}]
    <2>1. CASE s = {}
      BY <2>1
    <2>2. CASE s # {}
      <3>1. s \ {Chosen(s)} \in SUBSET T /\ s \ {Chosen(s)} # T
        BY <2>2, ChosenRemoved
      <3>2. SumFunctionOnSet(fun, s \ {Chosen(s)}) = h[s \ {Chosen(s)}]
        BY <1>3, <3>1
      <3>3. h[s] = fun[Chosen(s)] + SumFunctionOnSet(fun, s \ {Chosen(s)})
        BY <2>2
      <3> HIDE DEF h
      <3> QED BY <2>2, <3>2, <3>3
    <2> QED BY <2>1, <2>2
  <1>5. h = [s \in SUBSET T |-> h[s]]
    OBVIOUS
  <1> HIDE DEF h
  <1>6. h = [s \in SUBSET T |-> IF s = {} THEN 0 ELSE fun[Chosen(s)] + h[s \ {Chosen(s)}]]
    BY <1>4, <1>5
  <1>7. SumsSubsets(h, fun, T)
    BY <1>6 DEF SumsSubsets
  <1> QED BY <1>7

-----------------------------------------------------------------------------
(* The facts the proofs about the contracts use. *)

(* The sum peels off its chosen element. *)
LEMMA SumRecursion ==
    ASSUME NEW fun, NEW S, IsFiniteSet(S)
    PROVE  SumFunctionOnSet(fun, S) =
               IF S = {} THEN 0
               ELSE fun[Chosen(S)] + SumFunctionOnSet(fun, S \ {Chosen(S)})
  <1>1. PICK g : SumsSubsets(g, fun, S)
    BY SumsExist
  <1>2. \A T \in SUBSET S : g[T] = SumFunctionOnSet(fun, T)
    BY <1>1, SumsValue
  <1>3. g[S] = IF S = {} THEN 0 ELSE fun[Chosen(S)] + g[S \ {Chosen(S)}]
    BY <1>1 DEF SumsSubsets
  <1>4. g[S] = SumFunctionOnSet(fun, S)
        /\ g[S \ {Chosen(S)}] = SumFunctionOnSet(fun, S \ {Chosen(S)})
    BY <1>2
  <1> QED BY <1>3, <1>4

(* Over no element it is 0. *)
LEMMA SumEmpty ==
    ASSUME NEW fun
    PROVE  SumFunctionOnSet(fun, {}) = 0
  BY FS_EmptySet, SumRecursion

(* A sum of integers is an integer. *)
LEMMA SumInt ==
    ASSUME NEW fun, NEW S, IsFiniteSet(S), \A x \in S : fun[x] \in Int
    PROVE  SumFunctionOnSet(fun, S) \in Int
  <1> DEFINE B == {s \in SUBSET S : SumFunctionOnSet(fun, s) \notin Int}
  <1> SUFFICES ASSUME B # {} PROVE FALSE
    OBVIOUS
  <1>b. B \in SUBSET SUBSET S
    OBVIOUS
  <1> HIDE DEF B
  <1>1. PICK T \in B : \A U \in B : ~(U \subseteq T /\ U # T)
    BY <1>b, MinimalSubset
  <1>m. /\ T \in SUBSET S /\ ~(SumFunctionOnSet(fun, T) \in Int)
        /\ \A U \in SUBSET S : U \subseteq T /\ U # T => SumFunctionOnSet(fun, U) \in Int
    BY <1>1 DEF B
  <1>2. IsFiniteSet(T)
    BY <1>m, FS_Subset
  <1>3. T # {}
    <2>1. SumFunctionOnSet(fun, {}) \in Int
      BY SumEmpty
    <2> QED BY <1>m, <2>1, Zenon
  <1>4. SumFunctionOnSet(fun, T \ {Chosen(T)}) \in Int
    BY <1>m, <1>3, ChosenRemoved
  <1>5. fun[Chosen(T)] \in Int
    BY <1>m, <1>3, ChosenRemoved
  <1>6. SumFunctionOnSet(fun, T) = fun[Chosen(T)] + SumFunctionOnSet(fun, T \ {Chosen(T)})
    BY <1>2, <1>3, SumRecursion
  <1>7. SumFunctionOnSet(fun, T) \in Int
    BY <1>4, <1>5, <1>6
  <1> QED BY <1>m, <1>7

(* The sum peels off any element: the order of the recursion does not matter. *)
LEMMA SumRemove ==
    ASSUME NEW fun, NEW S, IsFiniteSet(S), \A x \in S : fun[x] \in Int, NEW x \in S
    PROVE  SumFunctionOnSet(fun, S) = fun[x] + SumFunctionOnSet(fun, S \ {x})
  <1> DEFINE Sum(s) == SumFunctionOnSet(fun, s)
             B == {s \in SUBSET S : \E y \in s : Sum(s) # fun[y] + Sum(s \ {y})}
  <1>0. \A s \in SUBSET S : Sum(s) \in Int
    BY SumInt, FS_Subset
  <1>1. \A s \in SUBSET S : s # {} => Sum(s) = fun[Chosen(s)] + Sum(s \ {Chosen(s)})
    BY SumRecursion, FS_Subset
  <1> HIDE DEF Sum
  <1> SUFFICES ASSUME B # {} PROVE FALSE
    BY DEF Sum
  <1>b. B \in SUBSET SUBSET S
    OBVIOUS
  <1> HIDE DEF B
  <1>2. PICK T \in B : \A U \in B : ~(U \subseteq T /\ U # T)
    BY <1>b, MinimalSubset
  <1>m. /\ T \in SUBSET S /\ \E y \in T : Sum(T) # fun[y] + Sum(T \ {y})
        /\ \A U \in SUBSET S : U \subseteq T /\ U # T =>
                \A y \in U : Sum(U) = fun[y] + Sum(U \ {y})
    BY <1>2 DEF B
  <1>3. PICK y \in T : Sum(T) # fun[y] + Sum(T \ {y})
    BY <1>m
  <1> DEFINE p == Chosen(T)
  <1>4. p \in T /\ T \subseteq S
    BY <1>m, <1>3, ChosenRemoved
  <1>5. Sum(T) = fun[p] + Sum(T \ {p})
    BY <1>1, <1>3, <1>4
  <1> HIDE DEF p
  <1>6. p # y
    BY <1>3, <1>5
  <1>7. Sum(T \ {p}) = fun[y] + Sum((T \ {p}) \ {y})
    <2>1. /\ T \ {p} \in SUBSET S /\ T \ {p} \subseteq T /\ T \ {p} # T
          /\ y \in T \ {p}
      BY <1>m, <1>4, <1>6
    <2> QED BY <1>m, <2>1
  <1>8. Sum(T \ {y}) = fun[p] + Sum((T \ {y}) \ {p})
    <2>1. /\ T \ {y} \in SUBSET S /\ T \ {y} \subseteq T /\ T \ {y} # T
          /\ p \in T \ {y}
      BY <1>m, <1>4, <1>6
    <2> QED BY <1>m, <2>1
  <1>9. (T \ {p}) \ {y} = (T \ {y}) \ {p}
    OBVIOUS
  <1>10. /\ fun[p] \in Int /\ fun[y] \in Int
         /\ Sum((T \ {y}) \ {p}) \in Int
    BY <1>0, <1>3, <1>4
  <1>11. Sum((T \ {p}) \ {y}) = Sum((T \ {y}) \ {p})
    BY <1>9
  <1> QED BY <1>3, <1>5, <1>7, <1>8, <1>10, <1>11

(* Functions that agree on a set have the same sum over it. *)
LEMMA SumCongruence ==
    ASSUME NEW fun, NEW gun, NEW S, IsFiniteSet(S), \A x \in S : fun[x] = gun[x]
    PROVE  SumFunctionOnSet(fun, S) = SumFunctionOnSet(gun, S)
  <1> DEFINE B == {s \in SUBSET S : SumFunctionOnSet(fun, s) # SumFunctionOnSet(gun, s)}
  <1> SUFFICES ASSUME B # {} PROVE FALSE
    OBVIOUS
  <1>b. B \in SUBSET SUBSET S
    OBVIOUS
  <1> HIDE DEF B
  <1>1. PICK T \in B : \A U \in B : ~(U \subseteq T /\ U # T)
    BY <1>b, MinimalSubset
  <1>m. /\ T \in SUBSET S /\ ~(SumFunctionOnSet(fun, T) = SumFunctionOnSet(gun, T))
        /\ \A U \in SUBSET S : U \subseteq T /\ U # T => SumFunctionOnSet(fun, U) = SumFunctionOnSet(gun, U)
    BY <1>1 DEF B
  <1>2. IsFiniteSet(T)
    BY <1>m, FS_Subset
  <1>3. T # {}
    <2>1. SumFunctionOnSet(fun, {}) = 0 /\ SumFunctionOnSet(gun, {}) = 0
      BY SumEmpty
    <2> QED BY <1>m, <2>1
  <1>4. SumFunctionOnSet(fun, T \ {Chosen(T)}) = SumFunctionOnSet(gun, T \ {Chosen(T)})
    BY <1>m, <1>3, ChosenRemoved
  <1>5. fun[Chosen(T)] = gun[Chosen(T)]
    BY <1>m, <1>3, ChosenRemoved
  <1>6. /\ SumFunctionOnSet(fun, T) = fun[Chosen(T)] + SumFunctionOnSet(fun, T \ {Chosen(T)})
        /\ SumFunctionOnSet(gun, T) = gun[Chosen(T)] + SumFunctionOnSet(gun, T \ {Chosen(T)})
    BY <1>2, <1>3, SumRecursion
  <1> QED BY <1>m, <1>4, <1>5, <1>6

(* Adding an element adds its value. *)
LEMMA SumAdd ==
    ASSUME NEW fun, NEW S, IsFiniteSet(S), NEW x, x \notin S,
           \A y \in S \cup {x} : fun[y] \in Int
    PROVE  SumFunctionOnSet(fun, S \cup {x}) = fun[x] + SumFunctionOnSet(fun, S)
  <1>1. IsFiniteSet(S \cup {x})
    BY FS_AddElement
  <1>2. (S \cup {x}) \ {x} = S
    OBVIOUS
  <1>3. SumFunctionOnSet(fun, S \cup {x})
            = fun[x] + SumFunctionOnSet(fun, (S \cup {x}) \ {x})
    BY <1>1, SumRemove
  <1> QED BY <1>2, <1>3

(* Changing one value by d changes the sum by d. *)
LEMMA SumUpdate ==
    ASSUME NEW S, IsFiniteSet(S), NEW fun \in [S -> Int], NEW x \in S, NEW d \in Int
    PROVE  SumFunctionOnSet([fun EXCEPT ![x] = @ + d], S) = SumFunctionOnSet(fun, S) + d
  <1> DEFINE gun == [fun EXCEPT ![x] = @ + d]
  <1>1. gun \in [S -> Int] /\ gun[x] = fun[x] + d /\ \A y \in S \ {x} : gun[y] = fun[y]
    OBVIOUS
  <1> HIDE DEF gun
  <1>2. IsFiniteSet(S \ {x})
    BY FS_RemoveElement
  <1>3. SumFunctionOnSet(gun, S \ {x}) = SumFunctionOnSet(fun, S \ {x})
    BY <1>1, <1>2, SumCongruence
  <1>4. SumFunctionOnSet(fun, S \ {x}) \in Int
    BY <1>2, SumInt
  <1>5. SumFunctionOnSet(gun, S) = gun[x] + SumFunctionOnSet(gun, S \ {x})
    BY <1>1, SumRemove
  <1>6. SumFunctionOnSet(fun, S) = fun[x] + SumFunctionOnSet(fun, S \ {x})
    BY SumRemove
  <1>7. fun[x] \in Int
    OBVIOUS
  <1>8. SumFunctionOnSet(gun, S) = SumFunctionOnSet(fun, S) + d
    BY <1>1, <1>3, <1>4, <1>5, <1>6, <1>7
  <1> QED BY <1>8 DEF gun

(* A function that is 0 everywhere has sum 0. *)
LEMMA SumZero ==
    ASSUME NEW fun, NEW S, IsFiniteSet(S), \A x \in S : fun[x] = 0
    PROVE  SumFunctionOnSet(fun, S) = 0
  <1> DEFINE B == {s \in SUBSET S : SumFunctionOnSet(fun, s) # 0}
  <1> SUFFICES ASSUME B # {} PROVE FALSE
    OBVIOUS
  <1>b. B \in SUBSET SUBSET S
    OBVIOUS
  <1> HIDE DEF B
  <1>1. PICK T \in B : \A U \in B : ~(U \subseteq T /\ U # T)
    BY <1>b, MinimalSubset
  <1>m. /\ T \in SUBSET S /\ ~(SumFunctionOnSet(fun, T) = 0)
        /\ \A U \in SUBSET S : U \subseteq T /\ U # T => SumFunctionOnSet(fun, U) = 0
    BY <1>1 DEF B
  <1>2. IsFiniteSet(T)
    BY <1>m, FS_Subset
  <1>3. T # {}
    <2>1. SumFunctionOnSet(fun, {}) = 0
      BY SumEmpty
    <2> QED BY <1>m, <2>1
  <1>4. SumFunctionOnSet(fun, T \ {Chosen(T)}) = 0 /\ fun[Chosen(T)] = 0
    BY <1>m, <1>3, ChosenRemoved
  <1> QED BY <1>m, <1>2, <1>3, <1>4, SumRecursion

(* A sum of naturals is a natural number. *)
LEMMA SumNat ==
    ASSUME NEW fun, NEW S, IsFiniteSet(S), \A x \in S : fun[x] \in Nat
    PROVE  SumFunctionOnSet(fun, S) \in Nat
  <1> DEFINE B == {s \in SUBSET S : SumFunctionOnSet(fun, s) \notin Nat}
  <1> SUFFICES ASSUME B # {} PROVE FALSE
    OBVIOUS
  <1>b. B \in SUBSET SUBSET S
    OBVIOUS
  <1> HIDE DEF B
  <1>1. PICK T \in B : \A U \in B : ~(U \subseteq T /\ U # T)
    BY <1>b, MinimalSubset
  <1> USE DEF B
  <1>2. T \in SUBSET S /\ IsFiniteSet(T)
    BY FS_Subset
  <1>3. T # {}
    BY SumEmpty
  <1>4. PICK x \in T : TRUE
    BY <1>3
  <1>5. SumFunctionOnSet(fun, T \ {x}) \in Nat
    BY <1>1, <1>2, <1>4
  <1>6. SumFunctionOnSet(fun, T) = fun[x] + SumFunctionOnSet(fun, T \ {x})
    BY <1>2, <1>4, SumRemove
  <1>7. fun[x] \in Nat
    BY <1>2, <1>4
  <1> QED BY <1>5, <1>6, <1>7

(* Summands that all occur among others, each at a place of its own, add up to
   no more than those. *)
LEMMA SumInjection ==
    ASSUME NEW S, IsFiniteSet(S), NEW T, IsFiniteSet(T), NEW place \in [S -> T],
           \A x, y \in S : place[x] = place[y] => x = y,
           NEW fun, NEW gun, \A x \in S : fun[x] = gun[place[x]],
           \A y \in T : gun[y] \in Nat
    PROVE  SumFunctionOnSet(fun, S) <= SumFunctionOnSet(gun, T)
  <1> DEFINE Covers(t, s) == \A x \in s : place[x] \in t
             B == {s \in SUBSET S : \E t \in SUBSET T : 
                      Covers(t, s) /\ ~(SumFunctionOnSet(fun, s) <= SumFunctionOnSet(gun, t))}
  <1>0. \A x \in S : fun[x] \in Nat
    OBVIOUS
  <1>n. /\ \A t \in SUBSET T : IsFiniteSet(t) /\ SumFunctionOnSet(gun, t) \in Nat
        /\ \A s \in SUBSET S : IsFiniteSet(s) /\ SumFunctionOnSet(fun, s) \in Nat
    <2>1. ASSUME NEW t \in SUBSET T PROVE IsFiniteSet(t) /\ SumFunctionOnSet(gun, t) \in Nat
      <3>1. IsFiniteSet(t) /\ \A y \in t : gun[y] \in Nat
        BY FS_Subset
      <3> QED BY <3>1, SumNat
    <2>2. ASSUME NEW s \in SUBSET S PROVE IsFiniteSet(s) /\ SumFunctionOnSet(fun, s) \in Nat
      <3>1. IsFiniteSet(s) /\ \A y \in s : fun[y] \in Nat
        BY <1>0, FS_Subset
      <3> QED BY <3>1, SumNat
    <2> QED BY <2>1, <2>2
  <1> SUFFICES ASSUME B # {} PROVE FALSE
    <2>1. S \in SUBSET S /\ T \in SUBSET T /\ Covers(T, S)
      OBVIOUS
    <2>2. B = {} => SumFunctionOnSet(fun, S) <= SumFunctionOnSet(gun, T)
      BY <2>1
    <2> QED BY <2>2
  <1>b. B \in SUBSET SUBSET S
    OBVIOUS
  <1> HIDE DEF B
  <1>1. PICK s \in B : \A u \in B : ~(u \subseteq s /\ u # s)
    BY <1>b, MinimalSubset
  <1>2. PICK t \in SUBSET T :
            Covers(t, s) /\ ~(SumFunctionOnSet(fun, s) <= SumFunctionOnSet(gun, t))
    BY <1>1 DEF B
  <1>3. s \in SUBSET S
    BY <1>b, <1>1
  <1>4. s # {}
    BY <1>2, <1>n, SumEmpty
  <1>5. PICK x \in s : TRUE
    BY <1>4
  <1>6. PICK y \in t : y = place[x]
    BY <1>2, <1>5
  <1> DEFINE v == s \ {x}
             w == t \ {y}
  <1>7. v \in SUBSET S /\ v # s /\ v \subseteq s /\ w \in SUBSET T /\ Covers(w, v)
    BY <1>2, <1>3, <1>5, <1>6
  <1>8. SumFunctionOnSet(fun, v) <= SumFunctionOnSet(gun, w)
    BY <1>1, <1>7 DEF B
  <1>9. SumFunctionOnSet(fun, s) = fun[x] + SumFunctionOnSet(fun, v)
    <2>1. IsFiniteSet(s) /\ \A z \in s : fun[z] \in Int
      BY <1>0, <1>n, <1>3
    <2> QED BY <1>5, <2>1, SumRemove
  <1>10. SumFunctionOnSet(gun, t) = gun[y] + SumFunctionOnSet(gun, w)
    <2>1. IsFiniteSet(t) /\ \A z \in t : gun[z] \in Int
      BY <1>n, <1>2
    <2> QED BY <1>6, <2>1, SumRemove
  <1>11. fun[x] = gun[y] /\ gun[y] \in Nat
    BY <1>3, <1>5, <1>6
  <1>12. /\ SumFunctionOnSet(fun, v) \in Nat /\ SumFunctionOnSet(gun, w) \in Nat
         /\ SumFunctionOnSet(fun, s) \in Nat /\ SumFunctionOnSet(gun, t) \in Nat
    BY <1>n, <1>2, <1>3, <1>7
  <1> QED BY <1>2, <1>8, <1>9, <1>10, <1>11, <1>12

-----------------------------------------------------------------------------
(* Sets of positions in a list. *)

(* A non-empty set of naturals has a least element. *)
LEMMA LeastElement ==
    ASSUME NEW S \in SUBSET Nat, S # {}
    PROVE  \E x \in S : \A y \in S : x <= y
  <1> DEFINE R == {ss \in Nat \X Nat : ss[1] < ss[2]}
  <1>1. IsWellFoundedOn(R, Nat)
    BY NatLessThanWellFounded, Zenon DEF OpToRel
  <1> HIDE DEF R
  <1>2. PICK x \in S : \A y \in S : ~(<<y, x>> \in R)
    BY <1>1, WFMin
  <1>3. ASSUME NEW y \in S PROVE x <= y
    <2>1. <<y, x>> \in Nat \X Nat /\ <<y, x>>[1] = y /\ <<y, x>>[2] = x
      OBVIOUS
    <2>2. y < x => <<y, x>> \in R
      BY <2>1 DEF R
    <2> QED BY <1>2, <2>2
  <1> QED BY <1>3

(* A non-empty set of positions has a last one, which Max returns. *)
LEMMA MaxIsLast ==
    ASSUME NEW n \in Nat, NEW s \in SUBSET (1..n), s # {}
    PROVE  Max(s) \in s /\ \A y \in s : y <= Max(s)
  <1> DEFINE mirror == {n - x : x \in s}
  <1>1. mirror \in SUBSET Nat /\ mirror # {}
    OBVIOUS
  <1> HIDE DEF mirror
  <1>2. PICK m \in mirror : \A y \in mirror : m <= y
    BY <1>1, LeastElement
  <1>3. PICK x \in s : m = n - x
    BY <1>2 DEF mirror
  <1>4. ASSUME NEW y \in s PROVE x >= y
    <2>1. n - y \in mirror
      BY DEF mirror
    <2>2. n - x <= n - y
      BY <1>2, <1>3, <2>1
    <2> QED BY <2>2
  <1>5. \E z \in s : \A y \in s : z >= y
    BY <1>4
  <1>6. Max(s) \in s /\ \A y \in s : Max(s) >= y
    BY <1>5 DEF Max
  <1> QED BY <1>6
=============================================================================
