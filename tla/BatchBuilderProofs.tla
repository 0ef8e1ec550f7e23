------------------------- MODULE BatchBuilderProofs -------------------------
(***************************************************************************)
(* Proofs about the batch builder for readings, batches and trees of any   *)
(* size.                                                                   *)
(***************************************************************************)
EXTENDS BatchBuilder, FiniteSums

-----------------------------------------------------------------------------
(* Replaying a proof.  FoldLeft is a recursion over the sets of positions still
   to be folded, the largest first; as in FiniteSums each induction is an
   argument by a minimal counterexample. *)

(* The recursion equation, on the subsets of S. *)
ReplaySteps(g, leaf, proof, S) ==
    g = [s \in SUBSET S |-> IF s = {} THEN leaf ELSE HashPair(g[s \ {Max(s)}], proof[Max(s)])]

(* What the siblings at the positions in S lead to. *)
ReplayOver(leaf, proof, S) == (CHOOSE g : ReplaySteps(g, leaf, proof, S))[S]

(* A set of positions of a list. *)
Positions(S) == \E n \in Nat : S \in SUBSET (1..n)

(* There are finitely many of them, and so there are in each part. *)
LEMMA PositionsFinite ==
    ASSUME NEW S, Positions(S)
    PROVE  IsFiniteSet(S) /\ \A s \in SUBSET S : Positions(s)
  <1>1. PICK n \in Nat : S \in SUBSET (1..n)
    BY DEF Positions
  <1>2. IsFiniteSet(1..n)
    BY FS_Interval
  <1>3. IsFiniteSet(S)
    BY <1>1, <1>2, FS_Subset
  <1>4. \A s \in SUBSET S : Positions(s)
    BY <1>1 DEF Positions
  <1> QED BY <1>3, <1>4

(* Taking the last one away leaves a proper part. *)
LEMMA MaxRemoved ==
    ASSUME NEW s, Positions(s), s # {}
    PROVE  Max(s) \in s /\ s \ {Max(s)} \subseteq s /\ s \ {Max(s)} # s
  <1>1. PICK n \in Nat : s \in SUBSET (1..n)
    BY DEF Positions
  <1>2. Max(s) \in s
    BY <1>1, MaxIsLast
  <1> QED BY <1>2

(* Replay is that over all positions. *)
LEMMA ReplayUnfold ==
    ASSUME NEW leaf, NEW proof
    PROVE  Replay(leaf, proof) = ReplayOver(leaf, proof, DOMAIN proof)
  BY DEF Replay, FoldLeft, MapThenFoldSet, ReplayOver, ReplaySteps

(* Two solutions agree. *)
LEMMA StepsAgree ==
    ASSUME NEW leaf, NEW proof, NEW S, Positions(S), NEW g, NEW h,
           ReplaySteps(g, leaf, proof, S), ReplaySteps(h, leaf, proof, S)
    PROVE  \A s \in SUBSET S : g[s] = h[s]
  <1> DEFINE B == {s \in SUBSET S : g[s] # h[s]}
  <1> SUFFICES ASSUME B # {} PROVE FALSE
    OBVIOUS
  <1>b. B \in SUBSET SUBSET S
    OBVIOUS
  <1> HIDE DEF B
  <1>1. PICK T \in B : \A U \in B : ~(U \subseteq T /\ U # T)
    BY <1>b, MinimalSubset, PositionsFinite
  <1> USE DEF B
  <1>2. T \in SUBSET S /\ g[T] # h[T]
    OBVIOUS
  <1>3. T # {}
    BY <1>2 DEF ReplaySteps
  <1> DEFINE U == T \ {Max(T)}
  <1>4. U \in SUBSET S /\ U \subseteq T /\ U # T
    BY <1>2, <1>3, MaxRemoved, PositionsFinite
  <1>5. g[U] = h[U]
    BY <1>1, <1>4
  <1>6. g[T] = HashPair(g[U], proof[Max(T)]) /\ h[T] = HashPair(h[U], proof[Max(T)])
    BY <1>2, <1>3 DEF ReplaySteps
  <1> QED BY <1>2, <1>5, <1>6

(* A solution on S restricts to a solution on any subset of S. *)
LEMMA StepsRestrict ==
    ASSUME NEW leaf, NEW proof, NEW S, NEW g, ReplaySteps(g, leaf, proof, S), NEW T \in SUBSET S
    PROVE  ReplaySteps([s \in SUBSET T |-> g[s]], leaf, proof, T)
  <1> DEFINE h == [s \in SUBSET T |-> g[s]]
  <1>1. ASSUME NEW s \in SUBSET T
        PROVE  h[s] = IF s = {} THEN leaf ELSE HashPair(h[s \ {Max(s)}], proof[Max(s)])
    <2>1. s \in SUBSET S /\ s \ {Max(s)} \in SUBSET T
      OBVIOUS
    <2>2. g[s] = IF s = {} THEN leaf ELSE HashPair(g[s \ {Max(s)}], proof[Max(s)])
      BY <2>1 DEF ReplaySteps
    <2> QED BY <2>1, <2>2
  <1>2. h = [s \in SUBSET T |-> IF s = {} THEN leaf ELSE HashPair(h[s \ {Max(s)}], proof[Max(s)])]
    BY <1>1
  <1> HIDE DEF h
  <1>3. ReplaySteps(h, leaf, proof, T)
    BY <1>2 DEF ReplaySteps
  <1> QED BY <1>3 DEF h

(* The value of a solution at a subset is what replaying that part leads to. *)
LEMMA StepsValue ==
    ASSUME NEW leaf, NEW proof, NEW S, Positions(S), NEW g, ReplaySteps(g, leaf, proof, S),
           NEW T \in SUBSET S
    PROVE  g[T] = ReplayOver(leaf, proof, T)
  <1> DEFINE h == [s \in SUBSET T |-> g[s]]
             c == CHOOSE k : ReplaySteps(k, leaf, proof, T)
  <1>1. ReplaySteps(h, leaf, proof, T)
    BY StepsRestrict
  <1>2. ReplaySteps(c, leaf, proof, T)
    BY <1>1
  <1>3. Positions(T)
    BY PositionsFinite
  <1> HIDE DEF c
  <1>4. h[T] = g[T]
    OBVIOUS
  <1> HIDE DEF h
  <1>5. \A s \in SUBSET T : h[s] = c[s]
    BY <1>1, <1>2, <1>3, StepsAgree
  <1>6. h[T] = c[T]
    BY <1>5
  <1>7. ReplayOver(leaf, proof, T) = c[T]
    BY DEF c, ReplayOver
  <1> QED BY <1>4, <1>6, <1>7

(* The equation has a solution for every proof. *)
LEMMA StepsExist ==
    ASSUME NEW leaf, NEW proof, NEW S, Positions(S)
    PROVE  \E g : ReplaySteps(g, leaf, proof, S)
  <1> DEFINE B == {T \in SUBSET S : ~\E g : ReplaySteps(g, leaf, proof, T)}
  <1> SUFFICES ASSUME B # {} PROVE FALSE
    OBVIOUS
  <1>b. B \in SUBSET SUBSET S
    OBVIOUS
  <1> HIDE DEF B
  <1>1. PICK T \in B : \A U \in B : ~(U \subseteq T /\ U # T)
    BY <1>b, MinimalSubset, PositionsFinite
  <1> USE DEF B
  <1>2. \A U \in SUBSET T : U # T => \E g : ReplaySteps(g, leaf, proof, U)
    BY <1>1
  <1> DEFINE h == [s \in SUBSET T |-> IF s = {} THEN leaf
                        ELSE HashPair(ReplayOver(leaf, proof, s \ {Max(s)}), proof[Max(s)])]
  <1>3. ASSUME NEW u \in SUBSET T, u # T
        PROVE  ReplayOver(leaf, proof, u) = h[u]
    <2>1. PICK g : ReplaySteps(g, leaf, proof, u)
      BY <1>2, <1>3
    <2>2. Positions(u)
      BY PositionsFinite
    <2>3. \A v \in SUBSET u : g[v] = ReplayOver(leaf, proof, v)
      BY <2>1, <2>2, StepsValue
    <2>4. g[u] = IF u = {} THEN leaf ELSE HashPair(g[u \ {Max(u)}], proof[Max(u)])
      BY <2>1 DEF ReplaySteps
    <2>5. g[u \ {Max(u)}] = ReplayOver(leaf, proof, u \ {Max(u)})
      BY <2>3
    <2>6. g[u] = ReplayOver(leaf, proof, u)
      BY <2>3
    <2> QED BY <2>4, <2>5, <2>6
  <1>4. ASSUME NEW s \in SUBSET T
        PROVE  h[s] = IF s = {} THEN leaf ELSE HashPair(h[s \ {Max(s)}], proof[Max(s)])
    <2>1. CASE s = {}
      BY <2>1
    <2>2. CASE s # {}
      <3>1. s \ {Max(s)} \in SUBSET T /\ s \ {Max(s)} # T
        BY <2>2, MaxRemoved, PositionsFinite
      <3>2. ReplayOver(leaf, proof, s \ {Max(s)}) = h[s \ {Max(s)}]
        BY <1>3, <3>1
      <3>3. h[s] = HashPair(ReplayOver(leaf, proof, s \ {Max(s)}), proof[Max(s)])
        BY <2>2
      <3> HIDE DEF h
      <3> QED BY <2>2, <3>2, <3>3
    <2> QED BY <2>1, <2>2
  <1>5. h = [s \in SUBSET T |-> h[s]]
    OBVIOUS
  <1> HIDE DEF h
  <1>6. h = [s \in SUBSET T |-> IF s = {} THEN leaf ELSE HashPair(h[s \ {Max(s)}], proof[Max(s)])]
    BY <1>4, <1>5
  <1>7. ReplaySteps(h, leaf, proof, T)
    BY <1>6 DEF ReplaySteps
  <1> QED BY <1>7

(* The last sibling is hashed last. *)
LEMMA ReplayRecursion ==
    ASSUME NEW leaf, NEW proof, NEW S, Positions(S)
    PROVE  ReplayOver(leaf, proof, S) =
               IF S = {} THEN leaf
               ELSE HashPair(ReplayOver(leaf, proof, S \ {Max(S)}), proof[Max(S)])
  <1>1. PICK g : ReplaySteps(g, leaf, proof, S)
    BY StepsExist
  <1>2. \A T \in SUBSET S : g[T] = ReplayOver(leaf, proof, T)
    BY <1>1, StepsValue
  <1>3. g[S] = IF S = {} THEN leaf ELSE HashPair(g[S \ {Max(S)}], proof[Max(S)])
    BY <1>1 DEF ReplaySteps
  <1>4. g[S] = ReplayOver(leaf, proof, S)
        /\ g[S \ {Max(S)}] = ReplayOver(leaf, proof, S \ {Max(S)})
    BY <1>2
  <1> QED BY <1>3, <1>4

(* Only the siblings that are replayed matter. *)
LEMMA ReplayCongruence ==
    ASSUME NEW leaf, NEW proof, NEW other, NEW S, Positions(S),
           \A i \in S : proof[i] = other[i]
    PROVE  ReplayOver(leaf, proof, S) = ReplayOver(leaf, other, S)
  <1>1. PICK g : ReplaySteps(g, leaf, proof, S)
    BY StepsExist
  <1>2. ASSUME NEW s \in SUBSET S
        PROVE  g[s] = IF s = {} THEN leaf ELSE HashPair(g[s \ {Max(s)}], other[Max(s)])
    <2>1. g[s] = IF s = {} THEN leaf ELSE HashPair(g[s \ {Max(s)}], proof[Max(s)])
      BY <1>1 DEF ReplaySteps
    <2>2. s # {} => proof[Max(s)] = other[Max(s)]
      BY MaxRemoved, PositionsFinite
    <2> QED BY <2>1, <2>2
  <1>3. g = [s \in SUBSET S |-> g[s]]
    BY <1>1 DEF ReplaySteps
  <1>4. ReplaySteps(g, leaf, other, S)
    <2>1. g = [s \in SUBSET S |-> IF s = {} THEN leaf ELSE HashPair(g[s \ {Max(s)}], other[Max(s)])]
      BY <1>2, <1>3
    <2> QED BY <2>1 DEF ReplaySteps
  <1>5. g[S] = ReplayOver(leaf, proof, S)
    BY <1>1, StepsValue
  <1>6. g[S] = ReplayOver(leaf, other, S)
    BY <1>4, StepsValue
  <1> QED BY <1>5, <1>6

(* The node a proof has reached after its first i siblings. *)
ReplayTo(leaf, proof, i) == ReplayOver(leaf, proof, 1..i)

(* It starts at the leaf and climbs one sibling at a time. *)
Climbs(leaf, proof) ==
    /\ ReplayTo(leaf, proof, 0) = leaf
    /\ \A i \in Nat : ReplayTo(leaf, proof, i + 1)
                        = HashPair(ReplayTo(leaf, proof, i), proof[i + 1])

(* Every proof does. *)
LEMMA ReplayClimbs ==
    ASSUME NEW leaf, NEW proof
    PROVE  Climbs(leaf, proof)
  <1>1. \A i \in Nat : Positions(1..i)
    BY DEF Positions
  <1>2. ReplayTo(leaf, proof, 0) = leaf
    <2>1. Positions({}) /\ 1..0 = {}
      BY <1>1
    <2> QED BY <2>1, ReplayRecursion DEF ReplayTo
  <1>3. ASSUME NEW i \in Nat
        PROVE  ReplayTo(leaf, proof, i + 1) = HashPair(ReplayTo(leaf, proof, i), proof[i + 1])
    <2> DEFINE S == 1..(i + 1)
    <2>0. i + 1 \in Nat /\ i + 1 \in S
      OBVIOUS
    <2>1. Positions(S) /\ S # {} /\ S \in SUBSET (1..(i + 1))
      BY <1>1, <2>0
    <2>2. Max(S) \in S /\ \A y \in S : y <= Max(S)
      BY <2>0, <2>1, MaxIsLast
    <2>3. Max(S) = i + 1
      <3>1. i + 1 \in S /\ S \subseteq Int
        OBVIOUS
      <3> HIDE DEF S
      <3>2. i + 1 <= Max(S)
        BY <2>2, <3>1
      <3>3. Max(S) \in Int /\ Max(S) <= i + 1
        BY <2>2, <3>1 DEF S
      <3> QED BY <3>2, <3>3
    <2>4. S \ {i + 1} = 1..i
      OBVIOUS
    <2> HIDE DEF S
    <2>5. ReplayOver(leaf, proof, S) = HashPair(ReplayOver(leaf, proof, S \ {Max(S)}), proof[Max(S)])
      BY <2>1, ReplayRecursion
    <2> QED BY <2>3, <2>4, <2>5 DEF ReplayTo, S
  <1> QED BY <1>2, <1>3 DEF Climbs

(* At the end of a list of n siblings it is where the proof leads. *)
LEMMA ReplayEnds ==
    ASSUME NEW leaf, NEW S, NEW proof \in Seq(S)
    PROVE  Replay(leaf, proof) = ReplayTo(leaf, proof, Len(proof))
  <1>1. DOMAIN proof = 1..Len(proof)
    OBVIOUS
  <1> QED BY <1>1, ReplayUnfold DEF ReplayTo

(* An empty proof leads nowhere. *)
LEMMA ReplayEmpty ==
    ASSUME NEW leaf
    PROVE  Replay(leaf, << >>) = leaf
  <1>0. << >> \in Seq({}) /\ Len(<< >>) = 0
    OBVIOUS
  <1>1. PICK p \in Seq({}) : p = << >>
    BY <1>0
  <1>2. Len(p) = 0
    BY <1>1
  <1>3. Replay(leaf, p) = ReplayTo(leaf, p, 0)
    BY <1>2, ReplayEnds
  <1> QED BY <1>1, <1>3, ReplayClimbs DEF Climbs

(* One more sibling is one more hash. *)
LEMMA ReplayAppend ==
    ASSUME NEW leaf, NEW S, NEW proof \in Seq(S), NEW x \in S
    PROVE  Replay(leaf, Append(proof, x)) = HashPair(Replay(leaf, proof), x)
  <1> DEFINE longer == Append(proof, x)
  <1>1. PICK n \in Nat : n = Len(proof)
    OBVIOUS
  <1>2. longer \in Seq(S) /\ Len(longer) = n + 1 /\ longer[n + 1] = x
        /\ \A i \in 1..n : longer[i] = proof[i]
    BY <1>1
  <1> HIDE DEF longer
  <1>3. Replay(leaf, longer) = ReplayTo(leaf, longer, n + 1)
    BY <1>2, ReplayEnds
  <1>4. ReplayTo(leaf, longer, n + 1) = HashPair(ReplayTo(leaf, longer, n), longer[n + 1])
    BY ReplayClimbs DEF Climbs
  <1>5. ReplayTo(leaf, longer, n) = ReplayTo(leaf, proof, n)
    <2>1. Positions(1..n)
      BY DEF Positions
    <2> QED BY <1>2, <2>1, ReplayCongruence DEF ReplayTo
  <1>6. ReplayTo(leaf, proof, n) = Replay(leaf, proof)
    BY <1>1, ReplayEnds
  <1>7. Replay(leaf, longer) = HashPair(Replay(leaf, proof), x)
    BY <1>2, <1>3, <1>4, <1>5, <1>6
  <1> QED BY <1>7 DEF longer

-----------------------------------------------------------------------------
(* What the hash is good for. *)

(* A digest is a pair; what is known of one is its height. *)
IsDigest(d) == d[1] \in Nat

(* The order of a pair does not matter, and the pair is one level up. *)
LEMMA HashPairFacts ==
    ASSUME NEW a, NEW b, IsDigest(a), IsDigest(b)
    PROVE  /\ HashPair(a, b) = HashPair(b, a)
           /\ HashPair(a, b)[1] \in Nat \ {0}
           /\ HashPair(a, b)[2] = {a, b}
  BY DEF IsDigest, HashPair

(* A hash with a known sibling determines what was hashed. *)
LEMMA HashPairInjective ==
    ASSUME NEW a, NEW b, NEW x, HashPair(a, x) = HashPair(b, x)
    PROVE  a = b
  <1>1. {a, x} = {b, x}
    BY DEF HashPair
  <1> QED BY <1>1

(* Proofs are lists of digests. *)
IsProof(p) == p \in Seq(Range(p)) /\ \A i \in DOMAIN p : IsDigest(p[i])

(* Nothing but the leaf a proof was made for leads where it leads. *)
LEMMA ReplayInjective ==
    ASSUME NEW a, NEW b, NEW p, IsProof(p), Replay(a, p) = Replay(b, p)
    PROVE  a = b
  <1>1. PICK n \in Nat : n = Len(p)
    BY DEF IsProof
  <1>2. ReplayTo(a, p, n) = ReplayTo(b, p, n)
    BY <1>1, ReplayEnds DEF IsProof
  <1> DEFINE same == {i \in Nat : ReplayTo(a, p, i) = ReplayTo(b, p, i)}
  <1>3. same \in SUBSET Nat /\ same # {}
    BY <1>2
  <1> HIDE DEF same
  <1>4. PICK m \in same : \A i \in same : m <= i
    BY <1>3, LeastElement
  <1>5. m = 0
    <2> SUFFICES ASSUME m # 0 PROVE FALSE
      OBVIOUS
    <2>1. PICK k \in Nat : m = k + 1
      <3>1. m - 1 \in Nat /\ m = (m - 1) + 1
        BY <1>3, <1>4
      <3> QED BY <3>1
    <2>2. HashPair(ReplayTo(a, p, k), p[k + 1]) = HashPair(ReplayTo(b, p, k), p[k + 1])
      BY <1>4, <2>1, ReplayClimbs DEF Climbs, same
    <2>3. ReplayTo(a, p, k) = ReplayTo(b, p, k)
      BY <2>2, HashPairInjective
    <2>4. k \in same
      BY <2>3 DEF same
    <2> QED BY <1>4, <2>1, <2>4
  <1> QED BY <1>4, <1>5, ReplayClimbs DEF Climbs, same

(* The nodes in S were grown from the leaves: all that is below them is either
   one of the leaves or the hash of a pair that is below them. *)
Grown(S, leaves) ==
    \E T : /\ S \subseteq T
           /\ \A d \in T : d \in leaves \/ (d[1] \in Nat \ {0} /\ d[2] \subseteq T)

(* Leaves have height 0. *)
AtTheBottom(leaves) == \A d \in leaves : d[1] = 0

(* Whatever a proof takes to a node is itself below that node; a leaf is
   therefore one of those it was grown from. *)
LEMMA ReplayDescends ==
    ASSUME NEW leaf, leaf[1] = 0, NEW p, IsProof(p), NEW leaves,
           AtTheBottom(leaves), Grown({Replay(leaf, p)}, leaves)
    PROVE  leaf \in leaves
  <1>1. PICK n \in Nat : n = Len(p) /\ DOMAIN p = 1..n
    BY DEF IsProof
  <1>2. PICK T : /\ Replay(leaf, p) \in T
                 /\ \A d \in T : d \in leaves \/ (d[1] \in Nat \ {0} /\ d[2] \subseteq T)
    BY DEF Grown
  <1>3. ReplayTo(leaf, p, n) \in T
    BY <1>1, <1>2, ReplayEnds DEF IsProof
  <1>c. Climbs(leaf, p)
    BY ReplayClimbs
  <1>4. \A i \in 0..n : IsDigest(ReplayTo(leaf, p, i))
    <2> DEFINE bad == {i \in 0..n : ~IsDigest(ReplayTo(leaf, p, i))}
    <2> SUFFICES ASSUME bad # {} PROVE FALSE
      OBVIOUS
    <2>1. bad \in SUBSET Nat
      OBVIOUS
    <2> HIDE DEF bad
    <2>2. PICK m \in bad : \A i \in bad : m <= i
      BY <2>1, LeastElement
    <2>3. m \in 0..n /\ ~IsDigest(ReplayTo(leaf, p, m))
      BY <2>2 DEF bad
    <2>4. m # 0
      BY <1>c, <2>3 DEF Climbs, IsDigest
    <2>5. PICK k \in Nat : m = k + 1
      <3>1. m - 1 \in Nat /\ m = (m - 1) + 1
        BY <2>3, <2>4
      <3> QED BY <3>1
    <2>6. k \in 0..n /\ k \notin bad /\ k + 1 \in 1..n
      BY <2>2, <2>3, <2>5
    <2>7. IsDigest(ReplayTo(leaf, p, k)) /\ IsDigest(p[k + 1])
      BY <1>1, <2>6 DEF bad, IsProof
    <2>8. IsDigest(HashPair(ReplayTo(leaf, p, k), p[k + 1]))
      BY <2>7, HashPairFacts DEF IsDigest
    <2>9. ReplayTo(leaf, p, k + 1) = HashPair(ReplayTo(leaf, p, k), p[k + 1])
      BY <1>c DEF Climbs
    <2> QED BY <2>3, <2>5, <2>8, <2>9
  <1> DEFINE below == {i \in 0..n : ReplayTo(leaf, p, i) \in T}
  <1>5. below \in SUBSET Nat /\ below # {}
    BY <1>3
  <1> HIDE DEF below
  <1>6. PICK m \in below : \A i \in below : m <= i
    BY <1>5, LeastElement
  <1>7. m = 0
    <2> SUFFICES ASSUME m # 0 PROVE FALSE
      OBVIOUS
    <2>1. m \in 0..n /\ ReplayTo(leaf, p, m) \in T
      BY <1>6 DEF below
    <2>2. PICK k \in Nat : m = k + 1
      <3>1. m - 1 \in Nat /\ m = (m - 1) + 1
        BY <2>1
      <3> QED BY <3>1
    <2>3. k \in 0..n /\ k + 1 \in 1..n
      BY <2>1, <2>2
    <2>4. IsDigest(ReplayTo(leaf, p, k)) /\ IsDigest(p[k + 1])
      BY <1>1, <1>4, <2>3 DEF IsProof
    <2> DEFINE up == ReplayTo(leaf, p, m)
    <2>5. up = HashPair(ReplayTo(leaf, p, k), p[k + 1])
      BY <1>c, <2>2 DEF Climbs
    <2>6. up[1] \in Nat \ {0} /\ up[2] = {ReplayTo(leaf, p, k), p[k + 1]}
      BY <2>4, <2>5, HashPairFacts
    <2> HIDE DEF up
    <2>7. up \notin leaves
      BY <2>6 DEF AtTheBottom
    <2>8. up[2] \subseteq T
      BY <1>2, <2>1, <2>7 DEF up
    <2>9. k \in below
      BY <2>3, <2>6, <2>8 DEF below
    <2> QED BY <1>6, <2>2, <2>9
  <1>8. leaf \in T
    BY <1>c, <1>6, <1>7 DEF Climbs, below
  <1> QED BY <1>2, <1>8

-----------------------------------------------------------------------------
(* Lists. *)

IsList(s) == s \in Seq(Range(s))

(* The positions of a list are 1 to its length. *)
LEMMA ListFacts ==
    ASSUME NEW s, IsList(s)
    PROVE  /\ Len(s) \in Nat /\ DOMAIN s = 1..Len(s)
           /\ \A i \in 1..Len(s) : s[i] \in Range(s)
           /\ s # << >> <=> Len(s) > 0
  <1>1. PICK T : T = Range(s)
    OBVIOUS
  <1>2. s \in Seq(T)
    BY <1>1 DEF IsList
  <1>3. Len(s) \in Nat /\ DOMAIN s = 1..Len(s) /\ (s # << >> <=> Len(s) > 0)
    BY <1>2
  <1>4. \A i \in 1..Len(s) : s[i] \in T
    BY <1>2
  <1> QED BY <1>1, <1>3, <1>4

(* A function on 1..n is a list of length n. *)
LEMMA ListMade ==
    ASSUME NEW n \in Nat, NEW s, s = [i \in 1..n |-> s[i]]
    PROVE  IsList(s) /\ Len(s) = n /\ DOMAIN s = 1..n
  <1>1. DOMAIN s = 1..n
    OBVIOUS
  <1>2. PICK T : T = Range(s)
    OBVIOUS
  <1>3. \A i \in 1..n : s[i] \in T
    BY <1>1, <1>2 DEF Range
  <1>4. s \in [1..n -> T]
    BY <1>3
  <1>5. s \in Seq(T) /\ Len(s) = n
    BY <1>4
  <1> QED BY <1>1, <1>2, <1>5 DEF IsList

(* A list and one more. *)
LEMMA ListAppend ==
    ASSUME NEW s, IsList(s), NEW x
    PROVE  /\ IsList(Append(s, x)) /\ Len(Append(s, x)) = Len(s) + 1
           /\ \A i \in 1..Len(s) : Append(s, x)[i] = s[i]
           /\ Append(s, x)[Len(s) + 1] = x
  <1>1. PICK T : T = Range(s) \cup {x}
    OBVIOUS
  <1>2. PICK n \in Nat : n = Len(s) /\ DOMAIN s = 1..n
    BY ListFacts
  <1>3. s \in Seq(T)
    <2>1. s \in [1..n -> T]
      <3>1. PICK U : U = Range(s)
        OBVIOUS
      <3>2. s \in Seq(U) /\ U \subseteq T
        BY <1>1, <3>1 DEF IsList
      <3> QED BY <1>2, <3>2
    <2> QED BY <2>1
  <1>4. PICK a : a = Append(s, x)
    OBVIOUS
  <1>5. a \in Seq(T) /\ Len(a) = n + 1 /\ a[n + 1] = x /\ \A i \in 1..n : a[i] = s[i]
    BY <1>1, <1>2, <1>3, <1>4
  <1>6. a = [i \in 1..(n + 1) |-> a[i]] /\ n + 1 \in Nat
    BY <1>5
  <1>7. IsList(a)
    BY <1>6, ListMade
  <1> QED BY <1>2, <1>4, <1>5, <1>7

(* A proof and one more sibling. *)
LEMMA ProofAppend ==
    ASSUME NEW p, IsProof(p), NEW x, IsDigest(x)
    PROVE  /\ IsProof(Append(p, x))
           /\ \A leaf : Replay(leaf, Append(p, x)) = HashPair(Replay(leaf, p), x)
  <1>1. IsList(p)
    BY DEF IsProof, IsList
  <1>2. PICK n \in Nat : n = Len(p) /\ DOMAIN p = 1..n
    BY <1>1, ListFacts
  <1>3. PICK a : a = Append(p, x)
    OBVIOUS
  <1>4. IsList(a) /\ Len(a) = n + 1 /\ a[n + 1] = x /\ \A i \in 1..n : a[i] = p[i]
    BY <1>1, <1>2, <1>3, ListAppend
  <1>5. DOMAIN a = 1..(n + 1)
    BY <1>4, ListFacts
  <1>6. ASSUME NEW i \in DOMAIN a PROVE IsDigest(a[i])
    <2>1. CASE i = n + 1
      BY <1>4, <2>1
    <2>2. CASE i \in 1..n
      BY <1>2, <1>4, <2>2 DEF IsProof
    <2> QED BY <1>5, <2>1, <2>2
  <1>7. IsProof(a)
    BY <1>4, <1>6 DEF IsProof, IsList
  <1>8. p \in Seq(Range(p) \cup {x})
    <2>1. PICK U : U = Range(p)
      OBVIOUS
    <2>2. p \in Seq(U)
      BY <2>1 DEF IsProof
    <2>3. p \in [1..n -> U \cup {x}]
      BY <1>2, <2>2
    <2>4. p \in Seq(U \cup {x})
      BY <2>3
    <2> QED BY <2>1, <2>4
  <1>9. ASSUME NEW leaf PROVE Replay(leaf, Append(p, x)) = HashPair(Replay(leaf, p), x)
    <2>1. PICK U : U = Range(p) \cup {x}
      OBVIOUS
    <2>2. p \in Seq(U) /\ x \in U
      BY <1>8, <2>1
    <2> QED BY <2>2, ReplayAppend
  <1> QED BY <1>3, <1>7, <1>9

(* The empty proof. *)
LEMMA ProofEmpty == IsProof(<< >>) /\ \A leaf : Replay(leaf, << >>) = leaf
  <1>1. << >> \in Seq({}) /\ DOMAIN << >> = {}
    OBVIOUS
  <1>2. Range(<< >>) = {}
    BY <1>1 DEF Range
  <1> QED BY <1>1, <1>2, ReplayEmpty DEF IsProof

(* A power of two above 1 is twice another one. *)
LEMMA PowerHalves ==
    ASSUME NEW n \in Nat, n > 1, IsPowerOfTwo(n)
    PROVE  \E h \in Nat : n = 2 * h /\ h > 0 /\ n \div 2 = h /\ IsPowerOfTwo(h)
  <1>1. n \in 2..n /\ 1 \in 1..n /\ n * 1 = n
    OBVIOUS
  <1>2. n % 2 = 0
    BY <1>1 DEF IsPowerOfTwo
  <1>3. PICK h \in Nat : n = 2 * h /\ n \div 2 = h
    BY <1>2
  <1>4. h > 0
    BY <1>3
  <1>5. ASSUME NEW d \in 2..h, NEW q \in 1..h, d * q = h
        PROVE  d % 2 = 0
    <2>1. d \in 2..n /\ 2 * q \in 1..n
      BY <1>3
    <2>2. d * (2 * q) = 2 * (d * q)
      OBVIOUS
    <2>3. d * (2 * q) = n
      BY <1>3, <1>5, <2>2
    <2> QED BY <2>1, <2>3 DEF IsPowerOfTwo
  <1> QED BY <1>3, <1>4, <1>5 DEF IsPowerOfTwo

-----------------------------------------------------------------------------
(* The inductive invariant. *)

LeavesOf(d, xs) == {Leaf(d, xs[k]) : k \in DOMAIN xs}

(* The readings the builder works on. *)
InputSound ==
    /\ IsList(input) /\ input # << >> /\ Range(input) \subseteq Readings
    /\ \A k \in DOMAIN input : Encodable(domain, input[k].beneficiary, input[k].amount)

(* The level is made of digests grown from the readings' leaves. *)
LevelSound ==
    /\ IsList(level) /\ Len(level) > 0
    /\ \A i \in DOMAIN level : IsDigest(level[i])
    /\ Grown(Range(level), LeavesOf(domain, input))

(* Before the first turn of the loop the readings' leaves come first in it. *)
PadSound ==
    /\ Len(level) >= Len(input)
    /\ \A k \in DOMAIN input : level[k] = Leaf(domain, input[k]) /\ proofs[k] = << >>

(* In the loop every path is inside the level, which halves evenly. *)
PathsSound ==
    /\ DOMAIN input \subseteq DOMAIN cur
    /\ \A k \in DOMAIN cur : cur[k] \in 0..(Len(level) - 1)
    /\ IsPowerOfTwo(Len(level))
    /\ ProofsLeadToLevel

TreeSound ==
    /\ pc \in {"idle", "pad", "level", "dump"}
    /\ pc # "idle" =>
          /\ InputSound
          /\ LevelSound
          /\ \A k \in DOMAIN input : IsProof(proofs[k])
    /\ pc = "pad" => PadSound
    /\ pc \in {"level", "dump"} => PathsSound
    /\ pc = "dump" => Len(level) = 1

(* A complete batch: its records are lists of readings, each with the proof that
   takes its leaf to the root, and the root was grown from these leaves. *)
BatchSound(b) ==
    /\ IsList(b.leaves) /\ b.leaves # << >>
    /\ \A k \in DOMAIN b.leaves :
          /\ \E x \in Readings : x.beneficiary = b.leaves[k].beneficiary
                                /\ x.amount = b.leaves[k].amount
          /\ Encodable(b.domain, b.leaves[k].beneficiary, b.leaves[k].amount)
          /\ b.leaves[k].leaf = Leaf(b.domain, b.leaves[k])
          /\ IsProof(b.leaves[k].proof)
          /\ Replay(b.leaves[k].leaf, b.leaves[k].proof) = b.root
    /\ Grown({b.root}, LeavesOf(b.domain, b.leaves))

Complete(d, root, total, leaves) ==
    [state |-> "complete", domain |-> d, root |-> root, totalKwh |-> total, leaves |-> leaves]

FileSound ==
    file.state = "complete" =>
        /\ file = Complete(file.domain, file.root, file.totalKwh, file.leaves)
        /\ BatchSound(file)
        /\ file.totalKwh = Total(file.leaves)

CommittedSound ==
    committed.state = "complete" =>
        /\ BatchSound(committed)
        /\ committed.totalKwh = AsUint128(Total(committed.leaves))

(* A payment is determined by beneficiary and amount, and its leaf was proposed. *)
Payment(b, amount) ==
    [leaf |-> LeafHash(ThisDomain, b, amount, EPOCH), beneficiary |-> b, amount |-> amount]

ClaimsSound ==
    /\ IsFiniteSet(claimed)
    /\ claimed # {} => committed.state = "complete"
    /\ \A c \in claimed :
          /\ c = Payment(c.beneficiary, c.amount)
          /\ c.leaf \in LeavesOf(committed.domain, committed.leaves)

BuilderInv == TreeSound /\ FileSound /\ CommittedSound /\ ClaimsSound

-----------------------------------------------------------------------------
(* The steps of the builder. *)

(* The leaves are digests of height 0, and different for different readings. *)
LEMMA LeafFacts ==
    /\ \A d, b, a, e : LeafHash(d, b, a, e)[1] = 0 /\ IsDigest(LeafHash(d, b, a, e))
    /\ \A d1, b1, a1, d2, b2, a2 : LeafHash(d1, b1, a1, EPOCH) = LeafHash(d2, b2, a2, EPOCH)
                                        => d1 = d2 /\ b1 = b2 /\ a1 = a2
  <1>1. \A d, b, a, e : LeafHash(d, b, a, e)[1] = 0 /\ IsDigest(LeafHash(d, b, a, e))
    BY DEF LeafHash, IsDigest
  <1>2. ASSUME NEW d1, NEW b1, NEW a1, NEW d2, NEW b2, NEW a2,
               LeafHash(d1, b1, a1, EPOCH) = LeafHash(d2, b2, a2, EPOCH)
        PROVE  d1 = d2 /\ b1 = b2 /\ a1 = a2
    <2>1. {<<d1, b1, a1, EPOCH>>} = {<<d2, b2, a2, EPOCH>>}
      BY <1>2 DEF LeafHash
    <2>2. <<d1, b1, a1, EPOCH>> = <<d2, b2, a2, EPOCH>>
      BY <2>1
    <2> QED BY <2>2
  <1> QED BY <1>1, <1>2

(* main up to build_tree. *)
LEMMA StartStep ==
    ASSUME BuilderInv, NEW d \in Domains, NEW xs \in Inputs, Start(d, xs)
    PROVE  TreeSound'
  <1> USE DEF Start
  <1>1. IsList(xs) /\ xs # << >>
    BY InputsAssumption DEF IsList
  <1>2. PICK n \in Nat : n = Len(xs) /\ DOMAIN xs = 1..n /\ n > 0
    BY <1>1, ListFacts
  <1>3. InputSound'
    BY <1>1 DEF InputSound, Readings
  <1>4. level' = [k \in 1..n |-> level'[k]] /\ \A k \in 1..n : level'[k] = Leaf(d, xs[k])
    BY <1>2
  <1>5. IsList(level') /\ Len(level') = n /\ DOMAIN level' = 1..n
    BY <1>4, ListMade
  <1>6. LevelSound'
    <2>1. \A i \in 1..n : IsDigest(level'[i])
      BY <1>4, LeafFacts DEF Leaf
    <2>2. Range(level') \subseteq LeavesOf(d, xs)
      BY <1>2, <1>4, <1>5 DEF Range, LeavesOf
    <2>3. Grown(Range(level'), LeavesOf(d, xs))
      BY <2>2 DEF Grown
    <2> QED BY <1>2, <1>5, <2>1, <2>3 DEF LevelSound
  <1>7. PadSound'
    BY <1>2, <1>4, <1>5 DEF PadSound
  <1>8. \A k \in DOMAIN input' : IsProof(proofs'[k])
    BY ProofEmpty
  <1> QED BY <1>3, <1>6, <1>7, <1>8 DEF TreeSound

(* A turn of the padding loop, or the step out of it. *)
LEMMA PadStep ==
    ASSUME BuilderInv, Pad
    PROVE  TreeSound'
  <1>1. InputSound /\ LevelSound /\ PadSound /\ \A k \in DOMAIN input : IsProof(proofs[k])
    BY DEF BuilderInv, TreeSound, Pad
  <1>2. UNCHANGED <<domain, input, proofs>>
    BY DEF Pad
  <1>3. PICK n \in Nat : n = Len(level) /\ DOMAIN level = 1..n /\ n > 0
    BY <1>1, ListFacts DEF LevelSound
  <1>4. PICK m \in Nat : m = Len(input) /\ DOMAIN input = 1..m /\ m <= n
    BY <1>1, <1>3, ListFacts DEF InputSound, PadSound
  <1>5. InputSound' /\ \A k \in DOMAIN input' : IsProof(proofs'[k])
    BY <1>1, <1>2 DEF InputSound
  <1>6. CASE IsPowerOfTwo(Len(level))
    <2>1. /\ pc' = "level" /\ level' = level
          /\ cur' = [k \in 1..n |-> k - 1]
      BY <1>3, <1>6 DEF Pad
    <2>2. LevelSound'
      BY <1>1, <1>2, <2>1 DEF LevelSound
    <2>3. ASSUME NEW k \in DOMAIN input
          PROVE  Replay(Leaf(domain, input[k]), proofs[k]) = level[cur'[k] + 1]
      <3>1. cur'[k] + 1 = k
        BY <1>4, <2>1
      <3> QED BY <1>1, <3>1, ProofEmpty DEF PadSound
    <2>4. PathsSound'
      <3>1. DOMAIN input' \subseteq DOMAIN cur'
        BY <1>2, <1>4, <2>1
      <3>2. \A k \in DOMAIN cur' : cur'[k] \in 0..(Len(level') - 1)
        BY <1>3, <2>1
      <3>3. IsPowerOfTwo(Len(level'))
        BY <1>6, <2>1
      <3>4. ProofsLeadToLevel'
        BY <1>2, <2>1, <2>3 DEF ProofsLeadToLevel
      <3> QED BY <3>1, <3>2, <3>3, <3>4 DEF PathsSound
    <2> QED BY <1>5, <2>1, <2>2, <2>4 DEF TreeSound
  <1>7. CASE ~IsPowerOfTwo(Len(level))
    <2>1. pc' = "pad" /\ level' = Append(level, Last(level))
      BY <1>7 DEF Pad
    <2>2. PICK x : x = Last(level)
      OBVIOUS
    <2>3. x \in Range(level)
      BY <1>3, <2>2 DEF Last, Range
    <2>4. /\ IsList(level') /\ Len(level') = n + 1 /\ level'[n + 1] = x
          /\ \A i \in 1..n : level'[i] = level[i]
      BY <1>1, <1>3, <2>1, <2>2, ListAppend DEF LevelSound
    <2>5. DOMAIN level' = 1..(n + 1)
      BY <2>4, ListFacts
    <2>6. \A i \in 1..(n + 1) : level'[i] \in Range(level)
      <3>1. \A i \in 1..(n + 1) : i \in 1..n \/ i = n + 1
        OBVIOUS
      <3> QED BY <1>3, <2>3, <2>4, <3>1 DEF Range
    <2>7. Range(level') \subseteq Range(level)
      BY <2>5, <2>6 DEF Range
    <2>8. \A i \in DOMAIN level' : IsDigest(level'[i])
      BY <1>1, <2>5, <2>6 DEF LevelSound, Range
    <2>9. Grown(Range(level'), LeavesOf(domain, input))
      BY <1>1, <2>7 DEF LevelSound, Grown
    <2>10. LevelSound'
      BY <1>2, <1>3, <2>4, <2>8, <2>9 DEF LevelSound
    <2>11. PadSound'
      BY <1>1, <1>2, <1>3, <1>4, <2>4 DEF PadSound
    <2> QED BY <1>5, <2>1, <2>10, <2>11 DEF TreeSound
  <1> QED BY <1>6, <1>7

(* One turn of the level loop. *)
LEMMA HashLevelStep ==
    ASSUME BuilderInv, HashLevel
    PROVE  TreeSound'
  <1>1. /\ InputSound /\ LevelSound /\ PathsSound
        /\ pc = "level" /\ \A k \in DOMAIN input : IsProof(proofs[k])
    BY DEF BuilderInv, TreeSound, HashLevel
  <1>2. UNCHANGED <<pc, domain, input>>
    BY DEF HashLevel
  <1>3. PICK n \in Nat : n = Len(level) /\ DOMAIN level = 1..n /\ n > 1
    BY <1>1, ListFacts DEF LevelSound, HashLevel
  <1>4. PICK h \in Nat : n = 2 * h /\ h > 0 /\ n \div 2 = h /\ IsPowerOfTwo(h)
    BY <1>1, <1>3, PowerHalves DEF PathsSound
  <1>5. /\ level' = [i \in 1..h |-> level'[i]]
        /\ \A i \in 1..h : level'[i] = HashPair(level[2*i - 1], level[2*i])
    BY <1>3, <1>4 DEF HashLevel, NextLevel
  <1>6. IsList(level') /\ Len(level') = h /\ DOMAIN level' = 1..h
    BY <1>5, ListMade
  <1>7. \A i \in 1..n : IsDigest(level[i]) /\ level[i] \in Range(level)
    BY <1>1, <1>3 DEF LevelSound, Range
  <1>8. ASSUME NEW i \in 1..h
        PROVE  /\ level'[i][1] \in Nat \ {0}
               /\ level'[i][2] \subseteq Range(level)
               /\ level'[i] = HashPair(level[2*i], level[2*i - 1])
    <2>1. 2*i - 1 \in 1..n /\ 2*i \in 1..n
      BY <1>4
    <2>2. IsDigest(level[2*i - 1]) /\ IsDigest(level[2*i])
      BY <1>7, <2>1
    <2>3. level[2*i - 1] \in Range(level) /\ level[2*i] \in Range(level)
      BY <1>7, <2>1
    <2>4. PICK a, b : a = level[2*i - 1] /\ b = level[2*i]
      OBVIOUS
    <2>5. /\ HashPair(a, b) = HashPair(b, a) /\ HashPair(a, b)[1] \in Nat \ {0}
          /\ HashPair(a, b)[2] = {a, b}
      BY <2>2, <2>4, HashPairFacts
    <2>6. level'[i] = HashPair(a, b)
      BY <1>5, <2>4
    <2> QED BY <2>3, <2>4, <2>5, <2>6
  <1>9. LevelSound'
    <2>1. PICK T : /\ Range(level) \subseteq T
                   /\ \A d \in T : d \in LeavesOf(domain, input)
                                   \/ (d[1] \in Nat \ {0} /\ d[2] \subseteq T)
      BY <1>1 DEF LevelSound, Grown
    <2>2. \A d \in Range(level') : d[1] \in Nat \ {0} /\ d[2] \subseteq T
      BY <1>6, <1>8, <2>1 DEF Range
    <2>3. Grown(Range(level'), LeavesOf(domain, input))
      <3> DEFINE U == T \cup Range(level')
      <3>1. \A d \in U : d \in LeavesOf(domain, input)
                         \/ (d[1] \in Nat \ {0} /\ d[2] \subseteq U)
        BY <2>1, <2>2
      <3>2. Range(level') \subseteq U
        OBVIOUS
      <3> HIDE DEF U
      <3> QED BY <3>1, <3>2 DEF Grown
    <2>4. \A i \in DOMAIN level' : IsDigest(level'[i])
      BY <1>6, <1>8 DEF IsDigest
    <2> QED BY <1>2, <1>4, <1>6, <2>3, <2>4 DEF LevelSound
  <1>10. ASSUME NEW k \in DOMAIN cur
         PROVE  /\ cur'[k] \in 0..(h - 1)
                /\ IsDigest(Sibling(level, cur[k]))
                /\ HashPair(level[cur[k] + 1], Sibling(level, cur[k])) = level'[cur'[k] + 1]
    <2>1. PICK c \in 0..(n - 1) : c = cur[k]
      BY <1>1, <1>3 DEF PathsSound
    <2>2. cur'[k] = c \div 2
      BY <2>1 DEF HashLevel
    <2>3. CASE c % 2 = 0
      <3>1. PICK j \in Nat : c = 2 * j /\ c \div 2 = j
        BY <2>3
      <3>2. j \in 0..(h - 1) /\ j + 1 \in 1..h
        BY <1>4, <3>1
      <3>3. /\ c + 1 = 2 * (j + 1) - 1 /\ c + 2 = 2 * (j + 1)
            /\ c + 2 \in 1..n
        BY <1>4, <3>1, <3>2
      <3>4. Sibling(level, c) = level[c + 2]
        BY <2>3 DEF Sibling
      <3>5. level'[j + 1] = HashPair(level[c + 1], level[c + 2])
        BY <1>5, <3>2, <3>3
      <3> QED BY <1>7, <2>1, <2>2, <3>1, <3>2, <3>3, <3>4, <3>5
    <2>4. CASE c % 2 = 1
      <3>1. PICK j \in Nat : c = 2 * j + 1 /\ c \div 2 = j
        BY <2>4
      <3>2. j \in 0..(h - 1) /\ j + 1 \in 1..h
        BY <1>4, <3>1
      <3>3. /\ c = 2 * (j + 1) - 1 /\ c + 1 = 2 * (j + 1)
            /\ c \in 1..n
        BY <1>4, <3>1, <3>2
      <3>4. Sibling(level, c) = level[c]
        BY <2>4 DEF Sibling
      <3>5. level'[j + 1] = HashPair(level[c + 1], level[c])
        BY <1>8, <3>2, <3>3
      <3> QED BY <1>7, <2>1, <2>2, <3>1, <3>2, <3>3, <3>4, <3>5
    <2> QED BY <2>3, <2>4
  <1>11. ASSUME NEW k \in DOMAIN input
         PROVE  /\ IsProof(proofs'[k])
                /\ Replay(Leaf(domain, input[k]), proofs'[k]) = level'[cur'[k] + 1]
    <2>1. k \in DOMAIN cur
      BY <1>1 DEF PathsSound
    <2>2. proofs'[k] = Append(proofs[k], Sibling(level, cur[k]))
      BY DEF HashLevel
    <2>3. Replay(Leaf(domain, input[k]), proofs[k]) = level[cur[k] + 1]
      BY <1>1 DEF PathsSound, ProofsLeadToLevel
    <2>4. IsProof(proofs[k]) /\ IsDigest(Sibling(level, cur[k]))
      BY <1>1, <1>10, <2>1
    <2>5. PICK p, x : p = proofs[k] /\ x = Sibling(level, cur[k])
      OBVIOUS
    <2>6. /\ IsProof(Append(p, x))
          /\ \A leaf : Replay(leaf, Append(p, x)) = HashPair(Replay(leaf, p), x)
      BY <2>4, <2>5, ProofAppend
    <2>7. Replay(Leaf(domain, input[k]), Append(p, x)) = HashPair(level[cur[k] + 1], x)
      BY <2>3, <2>5, <2>6
    <2> QED BY <1>10, <2>1, <2>2, <2>5, <2>6, <2>7
  <1>12. PathsSound'
    <2>1. DOMAIN cur' = DOMAIN cur
      BY DEF HashLevel
    <2>2. \A k \in DOMAIN cur' : cur'[k] \in 0..(Len(level') - 1)
      BY <1>6, <1>10, <2>1
    <2>3. DOMAIN input' \subseteq DOMAIN cur'
      BY <1>1, <1>2, <2>1 DEF PathsSound
    <2>4. ProofsLeadToLevel'
      BY <1>2, <1>11 DEF ProofsLeadToLevel
    <2> QED BY <1>4, <1>6, <2>2, <2>3, <2>4 DEF PathsSound
  <1>13. InputSound'
    BY <1>1, <1>2 DEF InputSound
  <1> QED BY <1>1, <1>2, <1>9, <1>11, <1>12, <1>13 DEF TreeSound

(* Opening the file leaves nothing complete in it. *)
LEMMA OpenFileStep ==
    ASSUME BuilderInv, OpenFile
    PROVE  TreeSound' /\ FileSound'
  <1>1. /\ pc = "level" /\ pc' = "dump" /\ Len(level) = 1
        /\ UNCHANGED <<domain, input, level, cur, proofs>>
    BY DEF OpenFile
  <1>2. /\ InputSound /\ LevelSound /\ PathsSound
        /\ \A k \in DOMAIN input : IsProof(proofs[k])
    BY <1>1 DEF BuilderInv, TreeSound
  <1>3. InputSound' /\ LevelSound'
    BY <1>1, <1>2 DEF InputSound, LevelSound
  <1>4. PathsSound'
    BY <1>1, <1>2 DEF PathsSound, ProofsLeadToLevel
  <1>5. TreeSound'
    BY <1>1, <1>2, <1>3, <1>4 DEF TreeSound
  <1>6. file'.state = "truncated"
    BY DEF OpenFile, Truncated
  <1> QED BY <1>5, <1>6 DEF FileSound

(* What is written is sound. *)
LEMMA DumpStep ==
    ASSUME BuilderInv, Dump
    PROVE  TreeSound' /\ FileSound'
  <1>1. /\ InputSound /\ LevelSound /\ PathsSound /\ Len(level) = 1
        /\ pc = "dump" /\ \A k \in DOMAIN input : IsProof(proofs[k])
    BY DEF BuilderInv, TreeSound, Dump
  <1>2. TreeSound'
    BY DEF Dump, TreeSound
  <1>3. PICK n \in Nat : n = Len(input) /\ DOMAIN input = 1..n /\ n > 0
    BY <1>1, ListFacts DEF InputSound
  <1>4. PICK out : out = [k \in DOMAIN input |->
                   [beneficiary |-> input[k].beneficiary, amount |-> input[k].amount,
                    leaf |-> Leaf(domain, input[k]), proof |-> proofs[k]]]
    OBVIOUS
  <1>5. /\ out = [k \in 1..n |-> out[k]]
        /\ \A k \in 1..n : /\ out[k].beneficiary = input[k].beneficiary
                           /\ out[k].amount = input[k].amount
                           /\ out[k].leaf = Leaf(domain, input[k])
                           /\ out[k].proof = proofs[k]
    BY <1>3, <1>4
  <1>6. file' = Complete(domain, level[1], Total(input), out)
    BY <1>4 DEF Dump, Batch, Complete
  <1>7. /\ file'.state = "complete" /\ file'.domain = domain /\ file'.root = level[1]
        /\ file'.totalKwh = Total(input) /\ file'.leaves = out
    BY <1>6 DEF Complete
  <1>8. IsList(out) /\ Len(out) = n /\ DOMAIN out = 1..n
    BY <1>5, ListMade
  <1>9. out # << >>
    BY <1>3, <1>8, ListFacts
  <1>10. \A k \in 1..n : Leaf(domain, out[k]) = Leaf(domain, input[k])
    BY <1>5 DEF Leaf
  <1>11. Total(out) = Total(input)
    <2>1. Amounts(out) = Amounts(input)
      BY <1>3, <1>5, <1>8 DEF Amounts
    <2> QED BY <2>1 DEF Total
  <1>12. ASSUME NEW k \in 1..n
         PROVE  /\ Encodable(domain, out[k].beneficiary, out[k].amount)
                /\ out[k].leaf = Leaf(domain, out[k])
                /\ IsProof(out[k].proof)
                /\ Replay(out[k].leaf, out[k].proof) = level[1]
    <2>1. Encodable(domain, out[k].beneficiary, out[k].amount)
      BY <1>1, <1>3, <1>5 DEF InputSound
    <2>2. k \in DOMAIN cur
      BY <1>1, <1>3 DEF PathsSound
    <2>3. cur[k] = 0
      <3>1. cur[k] \in 0..0
        BY <1>1, <2>2 DEF PathsSound
      <3> QED BY <3>1
    <2>4. Replay(Leaf(domain, input[k]), proofs[k]) = level[1]
      BY <1>1, <1>3, <2>3 DEF PathsSound, ProofsLeadToLevel
    <2> QED BY <1>1, <1>3, <1>5, <1>10, <2>1, <2>4
  <1>13. LeavesOf(domain, out) = LeavesOf(domain, input)
    BY <1>3, <1>8, <1>10 DEF LeavesOf
  <1>14. Grown({level[1]}, LeavesOf(domain, out))
    <2>1. level[1] \in Range(level)
      BY <1>1, ListFacts DEF LevelSound
    <2>2. Grown(Range(level), LeavesOf(domain, out))
      BY <1>1, <1>13 DEF LevelSound
    <2> QED BY <2>1, <2>2 DEF Grown
  <1>r. \A k \in 1..n : \E x \in Readings : x.beneficiary = out[k].beneficiary
                                            /\ x.amount = out[k].amount
    <2>1. \A k \in 1..n : input[k] \in Readings
      BY <1>1, <1>3, ListFacts DEF InputSound
    <2> QED BY <1>5, <2>1
  <1>15. BatchSound(file')
    BY <1>r, <1>7, <1>8, <1>9, <1>12, <1>14 DEF BatchSound
  <1>16. FileSound'
    BY <1>6, <1>7, <1>11, <1>15 DEF FileSound
  <1> QED BY <1>2, <1>16

(* A killed builder leaves no trace but the file. *)
LEMMA KillStep ==
    ASSUME BuilderInv, Kill
    PROVE  TreeSound'
  BY DEF Kill, TreeSound

(* The script commits the file as it is, but for the cut of the total. *)
LEMMA ProposeStep ==
    ASSUME BuilderInv, Propose
    PROVE  CommittedSound' /\ ClaimsSound'
  <1>1. file.state = "complete" /\ claimed = {} /\ claimed' = {}
    BY DEF BuilderInv, ClaimsSound, Propose
  <1>2. file = Complete(file.domain, file.root, file.totalKwh, file.leaves)
        /\ BatchSound(file) /\ file.totalKwh = Total(file.leaves)
    BY <1>1 DEF BuilderInv, FileSound
  <1>3. PICK b, t : b = file /\ t = AsUint128(file.totalKwh)
    OBVIOUS
  <1>4. [b EXCEPT !.totalKwh = t] = Complete(b.domain, b.root, t, b.leaves)
    <2>1. DOMAIN b = {"state", "domain", "root", "totalKwh", "leaves"}
          /\ b.state = "complete" /\ b = [x \in DOMAIN b |-> b[x]]
      <3>1. PICK d, r, n, l : b = Complete(d, r, n, l)
        BY <1>2, <1>3
      <3> QED BY <3>1 DEF Complete
    <2> QED BY <2>1 DEF Complete
  <1>5. committed' = Complete(b.domain, b.root, t, b.leaves)
    BY <1>3, <1>4 DEF Propose
  <1>6. /\ committed'.state = "complete" /\ committed'.domain = b.domain
        /\ committed'.root = b.root /\ committed'.totalKwh = t /\ committed'.leaves = b.leaves
    BY <1>5 DEF Complete
  <1>7. BatchSound(committed')
    BY <1>2, <1>3, <1>6 DEF BatchSound
  <1>8. CommittedSound'
    BY <1>2, <1>3, <1>6, <1>7 DEF CommittedSound
  <1>9. ClaimsSound'
    BY <1>1, FS_EmptySet DEF ClaimsSound
  <1> QED BY <1>8, <1>9

(* A claim pays what was proposed: whatever the file has become, the proof in it
   leads to the committed root from a leaf of that root's tree only. *)
LEMMA ClaimStep ==
    ASSUME BuilderInv, file.state = "complete", NEW k \in DOMAIN file.leaves, Claim(k)
    PROVE  ClaimsSound'
  <1>1. BatchSound(file) /\ BatchSound(committed) /\ committed.state = "complete"
    BY DEF BuilderInv, FileSound, CommittedSound, Claim
  <1>2. PICK r : r = file.leaves[k]
    OBVIOUS
  <1>3. PICK a : a = AsUint128(r.amount)
    OBVIOUS
  <1>4. PICK leaf : leaf = LeafHash(ThisDomain, r.beneficiary, a, EPOCH)
    OBVIOUS
  <1>5. /\ Replay(leaf, r.proof) = committed.root
        /\ claimed' = claimed \cup {Payment(r.beneficiary, a)}
        /\ UNCHANGED committed
    BY <1>2, <1>3, <1>4 DEF Claim, Payment
  <1>6. IsProof(r.proof)
    BY <1>1, <1>2 DEF BatchSound
  <1>7. leaf \in LeavesOf(committed.domain, committed.leaves)
    <2>1. PICK p, ls : p = r.proof /\ ls = LeavesOf(committed.domain, committed.leaves)
      OBVIOUS
    <2>2. leaf[1] = 0
      BY <1>4, LeafFacts
    <2>3. AtTheBottom(ls)
      BY <2>1, LeafFacts DEF AtTheBottom, LeavesOf, Leaf
    <2>4. Grown({Replay(leaf, p)}, ls)
      BY <1>1, <1>5, <2>1 DEF BatchSound
    <2>5. IsProof(p)
      BY <1>6, <2>1
    <2> QED BY <2>1, <2>2, <2>3, <2>4, <2>5, ReplayDescends
  <1>8. PICK pay : pay = Payment(r.beneficiary, a)
    OBVIOUS
  <1>9. /\ pay = Payment(pay.beneficiary, pay.amount)
        /\ pay.leaf \in LeavesOf(committed.domain, committed.leaves)
    BY <1>4, <1>7, <1>8 DEF Payment
  <1>10. IsFiniteSet(claimed')
    BY <1>5, FS_AddElement DEF BuilderInv, ClaimsSound
  <1> QED BY <1>1, <1>5, <1>8, <1>9, <1>10 DEF BuilderInv, ClaimsSound

-----------------------------------------------------------------------------
(* The results. *)

(* The invariant holds at first. *)
LEMMA BuilderInit == Init => BuilderInv
  <1> SUFFICES ASSUME Init PROVE BuilderInv
    OBVIOUS
  <1>1. file.state = "none" /\ committed.state = "none" /\ claimed = {} /\ pc = "idle"
    BY DEF Init, NoBatch
  <1> QED BY <1>1, FS_EmptySet
          DEF BuilderInv, TreeSound, FileSound, CommittedSound, ClaimsSound

(* Every step keeps it. *)
LEMMA BuilderNext == BuilderInv /\ [Next]_vars => BuilderInv'
  <1> SUFFICES ASSUME BuilderInv, [Next]_vars PROVE BuilderInv'
    OBVIOUS
  <1>1. UNCHANGED builder => TreeSound'
    BY DEF BuilderInv, TreeSound, InputSound, LevelSound, PadSound, PathsSound,
           ProofsLeadToLevel, builder
  <1>2. UNCHANGED file => FileSound'
    BY DEF BuilderInv, FileSound
  <1>3. UNCHANGED committed => CommittedSound'
    BY DEF BuilderInv, CommittedSound
  <1>4. UNCHANGED <<committed, claimed>> => ClaimsSound'
    BY DEF BuilderInv, ClaimsSound
  <1>5. ASSUME NEW d \in Domains, NEW xs \in Inputs, Start(d, xs) PROVE BuilderInv'
    BY <1>2, <1>3, <1>4, <1>5, StartStep DEF Start, BuilderInv
  <1>6. CASE Pad
    BY <1>2, <1>3, <1>4, <1>6, PadStep DEF Pad, BuilderInv
  <1>7. CASE HashLevel
    BY <1>2, <1>3, <1>4, <1>7, HashLevelStep DEF HashLevel, BuilderInv
  <1>8. CASE OpenFile
    BY <1>3, <1>4, <1>8, OpenFileStep DEF OpenFile, BuilderInv
  <1>9. CASE Dump
    BY <1>3, <1>4, <1>9, DumpStep DEF Dump, BuilderInv
  <1>10. CASE Kill
    BY <1>2, <1>3, <1>4, <1>10, KillStep DEF Kill, BuilderInv
  <1>11. CASE Propose
    BY <1>1, <1>2, <1>11, ProposeStep DEF Propose, BuilderInv
  <1>12. ASSUME file.state = "complete", NEW k \in DOMAIN file.leaves, Claim(k)
         PROVE  BuilderInv'
    BY <1>1, <1>2, <1>3, <1>12, ClaimStep DEF Claim, BuilderInv
  <1>13. CASE UNCHANGED vars
    BY <1>1, <1>2, <1>3, <1>4, <1>13 DEF vars, BuilderInv
  <1> QED BY <1>5, <1>6, <1>7, <1>8, <1>9, <1>10, <1>11, <1>12, <1>13 DEF Next

(* The inductive invariant. *)
THEOREM BuilderInvariant == Spec => []BuilderInv
  BY BuilderInit, BuilderNext, PTL DEF Spec

(* ProofsLeadToLevel: the loop invariant of build_tree, for trees of any size. *)
THEOREM PathsInvariant == Spec => []ProofsLeadToLevel
  <1>1. BuilderInv => ProofsLeadToLevel
    BY DEF BuilderInv, TreeSound, PathsSound, ProofsLeadToLevel
  <1> QED BY <1>1, BuilderInvariant, PTL

(* OnlyListedReplay: no proof of a batch file serves any other reading, whatever
   readings and deployments there are. *)
THEOREM OnlyListed == Spec => []OnlyListedReplay
  <1>1. BuilderInv => OnlyListedReplay
    <2> SUFFICES ASSUME BuilderInv, file.state = "complete",
                        NEW d \in Domains, NEW x \in Readings, NEW r \in Records(file),
                        NEW shown,
                        shown = [beneficiary |-> x.beneficiary, amount |-> x.amount,
                                 proof |-> r.proof],
                        ~\E s \in Records(file) : <<s.beneficiary, s.amount, file.domain>>
                                                    = <<x.beneficiary, x.amount, d>>
                 PROVE  /\ \A alg \in {"keccak256", "sha256"} :
                              CliVerifyMerkle(d, shown, EPOCH, file.root, alg) = 1
                        /\ LibraryVerifyMerkle(d, shown, EPOCH, file.root) # "ok"
      BY DEF OnlyListedReplay
    <2>1. PICK k \in DOMAIN file.leaves : r = file.leaves[k]
      BY DEF Records
    <2>2. /\ IsProof(r.proof) /\ Replay(r.leaf, r.proof) = file.root
          /\ r.leaf = LeafHash(file.domain, r.beneficiary, r.amount, EPOCH)
      BY <2>1 DEF BuilderInv, FileSound, BatchSound, Leaf
    <2>3. Replay(LeafHash(d, x.beneficiary, x.amount, EPOCH), r.proof) # file.root
      <3>1. PICK other : other = LeafHash(d, x.beneficiary, x.amount, EPOCH)
        OBVIOUS
      <3>2. other # r.leaf
        BY <2>2, <3>1, LeafFacts
      <3>3. PICK p, leaf : p = r.proof /\ leaf = r.leaf
        OBVIOUS
      <3>4. Replay(other, p) # Replay(leaf, p)
        BY <2>2, <3>2, <3>3, ReplayInjective
      <3> QED BY <2>2, <3>1, <3>3, <3>4
    <2>4. /\ shown.beneficiary = x.beneficiary /\ shown.amount = x.amount
          /\ shown.proof = r.proof
      OBVIOUS
    <2> QED BY <2>3, <2>4 DEF CliVerifyMerkle, LibraryVerifyMerkle
  <1> QED BY <1>1, BuilderInvariant, PTL

(* A payment is of a reading of the batch that was proposed, for this deployment. *)
LEMMA PaymentListed ==
    ASSUME BuilderInv, NEW c \in claimed
    PROVE  /\ committed.domain = ThisDomain
           /\ \E k \in DOMAIN committed.leaves :
                 c.beneficiary = committed.leaves[k].beneficiary
                 /\ c.amount = committed.leaves[k].amount
  <1>1. /\ c = Payment(c.beneficiary, c.amount)
        /\ c.leaf \in LeavesOf(committed.domain, committed.leaves)
    BY DEF BuilderInv, ClaimsSound
  <1>2. c.leaf = LeafHash(ThisDomain, c.beneficiary, c.amount, EPOCH)
    <2>1. PICK b, a : b = c.beneficiary /\ a = c.amount
      OBVIOUS
    <2>2. c = Payment(b, a)
      BY <1>1, <2>1
    <2>3. Payment(b, a).leaf = LeafHash(ThisDomain, b, a, EPOCH)
      BY DEF Payment
    <2> QED BY <2>1, <2>2, <2>3
  <1>3. PICK k \in DOMAIN committed.leaves : c.leaf = Leaf(committed.domain, committed.leaves[k])
    BY <1>1 DEF LeavesOf
  <1>4. PICK b1, a1, d2, b2, a2 :
            /\ b1 = c.beneficiary /\ a1 = c.amount /\ d2 = committed.domain
            /\ b2 = committed.leaves[k].beneficiary /\ a2 = committed.leaves[k].amount
    OBVIOUS
  <1>5. LeafHash(ThisDomain, b1, a1, EPOCH) = LeafHash(d2, b2, a2, EPOCH)
    BY <1>2, <1>3, <1>4 DEF Leaf
  <1>6. ThisDomain = d2 /\ b1 = b2 /\ a1 = a2
    BY <1>5, LeafFacts
  <1> QED BY <1>4, <1>6

(* ClaimsAreOfTheProposal: whatever happens to batch.json after the proposal. *)
THEOREM ClaimsOfProposal == Spec => []ClaimsAreOfTheProposal
  <1>1. BuilderInv => ClaimsAreOfTheProposal
    BY PaymentListed DEF ClaimsAreOfTheProposal, Records
  <1> QED BY <1>1, BuilderInvariant, PTL

(* The amounts of a sound batch are naturals, and their total is at least each. *)
LEMMA BatchTotal ==
    ASSUME NEW b, BatchSound(b)
    PROVE  /\ IsFiniteSet(DOMAIN b.leaves)
           /\ DOMAIN Amounts(b.leaves) = DOMAIN b.leaves
           /\ \A k \in DOMAIN b.leaves : Amounts(b.leaves)[k] = b.leaves[k].amount
                                         /\ b.leaves[k].amount \in Nat
           /\ Total(b.leaves) = SumFunctionOnSet(Amounts(b.leaves), DOMAIN b.leaves)
           /\ Total(b.leaves) \in Nat
           /\ \A k \in DOMAIN b.leaves : b.leaves[k].amount <= Total(b.leaves)
  <1> DEFINE S == DOMAIN b.leaves
             fun == Amounts(b.leaves)
  <1>1. IsFiniteSet(S)
    <2>1. PICK n \in Nat : S = 1..n
      BY ListFacts DEF BatchSound
    <2> QED BY <2>1, FS_Interval
  <1>2. DOMAIN fun = S /\ \A k \in S : fun[k] = b.leaves[k].amount
    BY DEF Amounts
  <1>3. \A k \in S : b.leaves[k].amount \in Nat
    BY WidthAssumption DEF BatchSound, Encodable
  <1> HIDE DEF fun
  <1>4. Total(b.leaves) = SumFunctionOnSet(fun, S)
    BY <1>2 DEF fun, Total, SumFunction, SumFunctionOnSet, FoldFunction
  <1> HIDE DEF S
  <1>5. \A k \in S : fun[k] \in Nat
    BY <1>2, <1>3
  <1>6. SumFunctionOnSet(fun, S) \in Nat
    BY <1>1, <1>5, SumNat
  <1>7. ASSUME NEW k \in S PROVE b.leaves[k].amount <= SumFunctionOnSet(fun, S)
    <2>1. SumFunctionOnSet(fun, S) = fun[k] + SumFunctionOnSet(fun, S \ {k})
      BY <1>1, <1>5, SumRemove
    <2>2. SumFunctionOnSet(fun, S \ {k}) \in Nat
      <3>1. IsFiniteSet(S \ {k}) /\ \A j \in S \ {k} : fun[j] \in Nat
        BY <1>1, <1>5, FS_Subset
      <3> QED BY <3>1, SumNat
    <2> QED BY <1>2, <1>3, <2>1, <2>2
  <1> QED BY <1>1, <1>2, <1>3, <1>4, <1>6, <1>7 DEF S, fun

(* A total within uint128 is not cut. *)
LEMMA NotCut ==
    ASSUME NEW n \in Nat, n <= UINT128_MAX
    PROVE  AsUint128(n) = n
  BY WidthAssumption DEF AsUint128

(* ClaimsWithinTotal: two payments are of two different records of the batch. *)
THEOREM ClaimsTotal == Spec => []ClaimsWithinTotal
  <1>1. BuilderInv => ClaimsWithinTotal
    <2> SUFFICES ASSUME BuilderInv, claimed # {}, Total(committed.leaves) <= UINT128_MAX
                 PROVE  SumFunctionOnSet([c \in claimed |-> c.amount], claimed)
                            <= committed.totalKwh
      BY DEF ClaimsWithinTotal
    <2>1. /\ committed.state = "complete" /\ BatchSound(committed)
          /\ committed.totalKwh = AsUint128(Total(committed.leaves))
          /\ IsFiniteSet(claimed)
          /\ \A c \in claimed : c = Payment(c.beneficiary, c.amount)
      BY DEF BuilderInv, ClaimsSound, CommittedSound
    <2>2. PICK T, gun, fun : /\ T = DOMAIN committed.leaves /\ gun = Amounts(committed.leaves)
                             /\ fun = [c \in claimed |-> c.amount]
      OBVIOUS
    <2>3. /\ IsFiniteSet(T) /\ \A k \in T : gun[k] = committed.leaves[k].amount /\ gun[k] \in Nat
          /\ Total(committed.leaves) = SumFunctionOnSet(gun, T)
          /\ Total(committed.leaves) \in Nat
      BY <2>1, <2>2, BatchTotal
    <2> DEFINE Of(c, k) == /\ c.beneficiary = committed.leaves[k].beneficiary
                           /\ c.amount = committed.leaves[k].amount
               place == [c \in claimed |-> CHOOSE k \in T : Of(c, k)]
    <2>4. \A c \in claimed : \E k \in T : Of(c, k)
      BY <2>2, PaymentListed
    <2>5. place \in [claimed -> T] /\ \A c \in claimed : Of(c, place[c])
      BY <2>4
    <2> HIDE DEF place
    <2>6. ASSUME NEW c \in claimed, NEW e \in claimed, place[c] = place[e] PROVE c = e
      <3>1. c.beneficiary = e.beneficiary /\ c.amount = e.amount
        BY <2>5, <2>6
      <3> QED BY <2>1, <3>1
    <2>7. \A c \in claimed : fun[c] = gun[place[c]]
      BY <2>2, <2>3, <2>5
    <2>8. SumFunctionOnSet(fun, claimed) <= SumFunctionOnSet(gun, T)
      BY <2>1, <2>3, <2>5, <2>6, <2>7, SumInjection
    <2>9. committed.totalKwh = SumFunctionOnSet(gun, T)
      BY <2>1, <2>3, NotCut
    <2> QED BY <2>2, <2>8, <2>9
  <1> QED BY <1>1, BuilderInvariant, PTL

(* VerifiersAccept: a batch that fits uint128 reconciles for the three nodes, and
   its records pass the CLI and the library. *)
THEOREM BuilderAccepted == Spec => []VerifiersAccept
  <1>1. BuilderInv => VerifiersAccept
    <2> SUFFICES ASSUME BuilderInv, file.state = "complete", InUint128(file)
                 PROVE  /\ \A impl \in {"python", "go", "wasm"} :
                              Node!BatchVerdict(impl, Published(file), EPOCH,
                                  [merkleRoot |-> Published(file).root,
                                   totalKwh |-> AsUint128(file.totalKwh)]) = "OK"
                        /\ \A r \in Records(file) :
                              /\ CliVerifyMerkle(file.domain, r, EPOCH, file.root, "keccak256") = 0
                              /\ LibraryVerifyMerkle(file.domain, r, EPOCH, file.root) = "ok"
      BY DEF VerifiersAccept
    <2>1. BatchSound(file) /\ file.totalKwh = Total(file.leaves)
      BY DEF BuilderInv, FileSound
    <2>2. PICK S, fun : S = DOMAIN file.leaves /\ fun = Amounts(file.leaves)
      OBVIOUS
    <2>3. /\ DOMAIN fun = S /\ \A k \in S : fun[k] = file.leaves[k].amount
          /\ \A k \in S : file.leaves[k].amount \in 0..UINT128_MAX
          /\ file.totalKwh = SumFunction(fun) /\ file.totalKwh \in Nat
      <3>1. file.totalKwh <= UINT128_MAX
        BY DEF InUint128
      <3> QED BY <2>1, <2>2, <3>1, BatchTotal, WidthAssumption DEF Total
    <2>4. ASSUME NEW k \in S
          PROVE  /\ Encodable(file.domain, file.leaves[k].beneficiary, file.leaves[k].amount)
                 /\ Replay(file.leaves[k].leaf, file.leaves[k].proof) = file.root
                 /\ file.leaves[k].leaf = Leaf(file.domain, file.leaves[k])
                 /\ AsLeaf(file.leaves[k]) # NoHash
      BY <2>1, <2>2, NoHashAssumption DEF BatchSound, AsLeaf
    <2>5. PICK pub, view : /\ pub = Published(file)
                           /\ view = [merkleRoot |-> pub.root, totalKwh |-> AsUint128(file.totalKwh)]
      OBVIOUS
    <2>6. /\ DOMAIN pub.leaves = S /\ view.merkleRoot = pub.root
          /\ view.totalKwh = file.totalKwh
          /\ pub.root = {AsLeaf(r) : r \in Records(file)}
      BY <2>2, <2>3, <2>5, NotCut DEF Published, InUint128
    <2>7. ASSUME NEW k \in S
          PROVE  /\ pub.leaves[k].beneficiary = file.leaves[k].beneficiary
                 /\ pub.leaves[k].amount = file.leaves[k].amount
                 /\ pub.leaves[k].literal = "integer"
                 /\ pub.leaves[k].hash = AsLeaf(file.leaves[k])
                 /\ pub.leaves[k].proof = "intact"
      BY <2>2, <2>4, <2>5 DEF Published
    <2>8. ASSUME NEW k \in S, NEW impl
          PROVE  Node!LeafVerdict(impl, pub.leaves[k], EPOCH, pub.root) = "OK"
      <3>1. PICK r, leaf : r = pub.leaves[k] /\ leaf = AsLeaf(file.leaves[k])
        OBVIOUS
      <3>2. leaf \in pub.root /\ leaf # NoHash
        BY <2>2, <2>4, <2>6, <3>1 DEF Records
      <3>3. /\ r.literal = "integer" /\ r.hash = leaf /\ r.proof = "intact"
            /\ r.amount \in 0..UINT128_MAX /\ r.beneficiary # BadAddress
        BY <2>3, <2>4, <2>7, <3>1 DEF Encodable
      <3>4. Node!ComputeLeaf(r.beneficiary, r.amount, EPOCH) = leaf
        BY <2>7, <3>1 DEF AsLeaf
      <3>5. Node!FieldsUsable(impl, r) /\ ~Node!EncodingFails(impl, r)
        BY <3>3, WidthAssumption DEF Node!FieldsUsable, Node!EncodingFails, Node!AmountParses
      <3>6. Node!LeafCommitted(r, EPOCH, pub.root)
        BY <3>2, <3>3, <3>4 DEF Node!LeafCommitted, Node!VerifyMerkle
      <3> QED BY <3>1, <3>5, <3>6 DEF Node!LeafVerdict
    <2>9. pub.leaves # << >>
      <3>1. S # {}
        BY <2>1, <2>2, ListFacts DEF BatchSound
      <3> QED BY <2>6, <3>1
    <2>10. Node!TotalMatches(pub.leaves, view)
      <3>1. [k \in DOMAIN pub.leaves |-> pub.leaves[k].amount] = fun
        <4>1. fun = [k \in S |-> fun[k]]
          BY <2>2 DEF Amounts
        <4> QED BY <2>3, <2>6, <2>7, <4>1
      <3>2. Node!SumAmounts(pub.leaves) = Node!FoldFunction(+, 0, fun)
        BY <3>1 DEF Node!SumAmounts
      <3>3. Node!FoldFunction(+, 0, fun) = SumFunction(fun)
        <4>1. Node!FoldFunction(+, 0, fun) = (CHOOSE g : SumsSubsets(g, fun, DOMAIN fun))[DOMAIN fun]
          BY DEF Node!FoldFunction, Node!FoldFunctionOnSet, Node!MapThenFoldSet, SumsSubsets, Chosen
        <4>2. SumFunction(fun) = SumFunctionOnSet(fun, DOMAIN fun)
          BY DEF SumFunction, SumFunctionOnSet, FoldFunction
        <4> QED BY <4>1, <4>2, SumUnfold
      <3> QED BY <2>3, <2>6, <3>2, <3>3 DEF Node!TotalMatches
    <2>11. \A impl \in {"python", "go", "wasm"} : Node!BatchVerdict(impl, pub, EPOCH, view) = "OK"
      BY <2>6, <2>8, <2>9, <2>10 DEF Node!BatchVerdict
    <2>12. ASSUME NEW r \in Records(file)
           PROVE  /\ CliVerifyMerkle(file.domain, r, EPOCH, file.root, "keccak256") = 0
                  /\ LibraryVerifyMerkle(file.domain, r, EPOCH, file.root) = "ok"
      <3>1. PICK k \in S : r = file.leaves[k]
        BY <2>2 DEF Records
      <3>2. /\ Encodable(file.domain, r.beneficiary, r.amount) /\ r.amount <= UINT128_MAX
            /\ Replay(LeafHash(file.domain, r.beneficiary, r.amount, EPOCH), r.proof) = file.root
        BY <2>3, <2>4, <3>1, WidthAssumption DEF Leaf
      <3> QED BY <3>2 DEF CliVerifyMerkle, CliEncodes, LibraryVerifyMerkle, LibraryEncodes
    <2> QED BY <2>5, <2>11, <2>12
  <1> QED BY <1>1, BuilderInvariant, PTL
=============================================================================
