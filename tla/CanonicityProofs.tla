-------------------------- MODULE CanonicityProofs --------------------------
(***************************************************************************)
(* Lemmas about the clause that blocks a noncanonical subgraph, for every  *)
(* order and every graph: it holds in every canonical graph.               *)
(***************************************************************************)
EXTENDS Canonicity, FiniteSetTheorems, WellFoundedInduction, TLAPS

\* A set of naturals that is not empty has a least element.
LEMMA LeastNat ==
  ASSUME NEW T, T \subseteq Nat, T # {}
  PROVE  \E n \in T : \A m \in T : n <= m
<1>1. PICK n \in T : \A m \in T : ~(<<m, n>> \in OpToRel(<, Nat))
  BY NatLessThanWellFounded, WFMin
<1>2. ASSUME NEW m \in T, ~(n <= m)  PROVE FALSE
  <2>1. m < n
    BY <1>2
  <2>2. <<m, n>> \in {ss \in Nat \X Nat : ss[1] < ss[2]}
    BY <2>1
  <2>3. <<m, n>> \in OpToRel(<, Nat)
    BY <2>2, Zenon DEF OpToRel
  <2> QED BY <1>1, <2>3
<1> QED BY <1>2

\* An entry of the matrix, relabelled, is an entry of the matrix again.
LEMMA ImageInPairs ==
  ASSUME NEW k \in Nat, NEW m \in 0 .. (k - 1), NEW p \in Relabellings(m, k),
         NEW e \in Pairs(m + 1)
  PROVE  Image(p, e) \in Pairs(k)
<1>1. e[1] \in 0 .. m /\ e[2] \in 0 .. m /\ e[1] # e[2]
  BY DEF Pairs, Vertices
<1>2. p[e[1]] \in 0 .. (k - 1) /\ p[e[2]] \in 0 .. (k - 1) /\ p[e[1]] # p[e[2]]
  BY <1>1 DEF Relabellings, Vertices
<1> QED BY <1>2 DEF Image, Unordered, Pairs, Vertices

LEMMA PairsMonotone ==
  ASSUME NEW j \in Nat, NEW k \in Nat, j <= k
  PROVE  Pairs(j) \subseteq Pairs(k)
BY DEF Pairs, Vertices

LEMMA RelabellingsMonotone ==
  ASSUME NEW m \in Nat, NEW j \in Nat, NEW k \in Nat, j <= k
  PROVE  Relabellings(m, j) \subseteq Relabellings(m, k)
BY DEF Relabellings, Vertices

\* While not all rows are placed some vertex is unused.
LEMMA UnusedVertex ==
  ASSUME NEW k \in Nat, NEW m \in Nat, m < k - 1, NEW p \in Relabellings(m, k)
  PROVE  \E v \in Vertices(k) : \A a \in 0 .. m : p[a] # v
<1>1. SUFFICES ASSUME \A v \in Vertices(k) : \E a \in 0 .. m : p[a] = v
               PROVE  FALSE
  OBVIOUS
<1>2. p \in Surjection(0 .. m, Vertices(k))
  BY <1>1 DEF Surjection, Relabellings
<1>3. IsFiniteSet(0 .. m) /\ Cardinality(0 .. m) = m + 1
  BY FS_Interval
<1>4. Cardinality(Vertices(k)) = k
  BY FS_Interval DEF Vertices
<1>5. Cardinality(Vertices(k)) <= Cardinality(0 .. m)
  BY <1>2, <1>3, FS_Surjection
<1> QED BY <1>3, <1>4, <1>5

\* If the last of the first j rows is taken from beyond them, one of the rows
\* below j is left out.
LEMMA RowLeftOut ==
  ASSUME NEW j \in Nat, j >= 1, NEW r, r[j - 1] > j - 1
  PROVE  \E v \in 0 .. (j - 1) : \A a \in 0 .. (j - 1) : r[a] # v
<1>1. SUFFICES ASSUME \A v \in 0 .. (j - 1) : \E a \in 0 .. (j - 1) : r[a] = v
               PROVE  FALSE
  OBVIOUS
<1> DEFINE D == {a \in 0 .. (j - 1) : r[a] \in 0 .. (j - 1)}
           V == 0 .. (j - 1)
           t == [a \in D |-> r[a]]
<1>2. IsFiniteSet(V) /\ Cardinality(V) = j
  BY FS_Interval
<1>3. j - 1 \notin D /\ j - 1 \in V /\ D \subseteq V
  OBVIOUS
<1>4. IsFiniteSet(D) /\ Cardinality(D) <= j /\ Cardinality(D) \in Nat
      /\ Cardinality(D) # j
  <2> HIDE DEF D, V
  <2> QED BY <1>2, <1>3, FS_Subset, FS_CardinalityType
<1>5. t \in Surjection(D, V)
  BY <1>1 DEF Surjection
<1>6. Cardinality(V) <= Cardinality(D)
  <2> HIDE DEF D, V, t
  <2> QED BY <1>4, <1>5, FS_Surjection
<1> QED
  <2> HIDE DEF D, V
  <2> QED BY <1>2, <1>4, <1>6

\* The elements of a finite set of numbers can be counted off from the least.
LEMMA Ranked ==
  ASSUME NEW S, S \subseteq Nat, IsFiniteSet(S), NEW j \in Nat, j < Cardinality(S)
  PROVE  \E v \in S : Cardinality({w \in S : w < v}) = j
<1>1. SUFFICES ASSUME \A v \in S : Cardinality({w \in S : w < v}) # j
               PROVE  FALSE
  OBVIOUS
<1> DEFINE Smaller(v) == {w \in S : w < v}
           c == Cardinality(S)
           T == (0 .. (c - 1)) \ {j}
           f == [v \in S |-> Cardinality(Smaller(v))]
<1>2. c \in Nat
  BY FS_CardinalityType
<1>3. ASSUME NEW v \in S  PROVE f[v] \in T
  <2> DEFINE A == Smaller(v)
  <2>1. A \in SUBSET S /\ v \in S /\ v \notin A
    OBVIOUS
  <2> HIDE DEF A
  <2>2. IsFiniteSet(A) /\ Cardinality(A) <= c /\ Cardinality(A) # c /\ Cardinality(A) \in Nat
    BY <2>1, FS_Subset, FS_CardinalityType
  <2>3. f[v] = Cardinality(A)
    BY DEF A
  <2>4. Cardinality(A) # j
    BY <1>1 DEF A
  <2> HIDE DEF f, c
  <2> QED BY <1>2, <2>2, <2>3, <2>4
<1>4. ASSUME NEW v \in S, NEW u \in S, v < u  PROVE f[v] # f[u]
  <2> DEFINE A == Smaller(v)
             B == Smaller(u)
  <2>a. v \in Nat /\ u \in Nat
    OBVIOUS
  <2>b. ASSUME NEW w \in S, w < v  PROVE w < u
    <3>1. w \in Nat
      OBVIOUS
    <3> QED BY <1>4, <2>a, <2>b, <3>1
  <2>c. ~(v < v)
    BY <2>a
  <2>1. A \in SUBSET B /\ v \in B /\ v \notin A /\ B \in SUBSET S
    BY <1>4, <2>b, <2>c
  <2>2. f[v] = Cardinality(A) /\ f[u] = Cardinality(B)
    OBVIOUS
  <2> HIDE DEF A, B, f
  <2>3. IsFiniteSet(B)
    BY <2>1, FS_Subset
  <2>4. Cardinality(A) # Cardinality(B)
    BY <2>1, <2>3, FS_Subset
  <2> QED BY <2>2, <2>4
<1>5. IsFiniteSet(T) /\ Cardinality(T) < c
  <2>1. IsFiniteSet(0 .. (c - 1)) /\ Cardinality(0 .. (c - 1)) = c
    <3> HIDE DEF c
    <3> QED BY <1>2, FS_Interval
  <2>2. j \in 0 .. (c - 1)
    BY <1>2
  <2>3. T \in SUBSET (0 .. (c - 1)) /\ T # 0 .. (c - 1)
    BY <2>2
  <2> HIDE DEF T, c
  <2>4. IsFiniteSet(T) /\ Cardinality(T) <= c /\ Cardinality(T) # c
    BY <2>1, <2>3, FS_Subset
  <2>5. Cardinality(T) \in Nat
    BY <2>4, FS_CardinalityType
  <2> QED BY <1>2, <2>4, <2>5
<1>6. f \in [S -> T]
  BY <1>3
<1>7. PICK v \in S, u \in S : v # u /\ f[v] = f[u]
  <2> HIDE DEF f, T
  <2> QED BY <1>5, <1>6, FS_PigeonHole
<1> HIDE DEF f
<1> QED BY <1>4, <1>7

\* As many vertices are left as rows are missing.
LEMMA VerticesLeft ==
  ASSUME NEW k \in Nat, NEW m \in 0 .. (k - 1), NEW p \in Relabellings(m, k),
         NEW rest, rest = Vertices(k) \ {p[a] : a \in 0 .. m}
  PROVE  /\ rest \subseteq Nat /\ IsFiniteSet(rest)
         /\ Cardinality(rest) \in Nat /\ Cardinality(rest) >= k - (m + 1)
<1> DEFINE used == {p[a] : a \in 0 .. m}
<1>0. rest = Vertices(k) \ used
  OBVIOUS
<1>1. p \in Surjection(0 .. m, used)
  BY DEF Surjection, Relabellings
<1>2. m \in Nat /\ IsFiniteSet(0 .. m) /\ Cardinality(0 .. m) = m + 1
  BY FS_Interval
<1>3. IsFiniteSet(used) /\ Cardinality(used) <= m + 1 /\ Cardinality(used) \in Nat
  <2> HIDE DEF used
  <2> QED BY <1>1, <1>2, FS_Surjection, FS_CardinalityType
<1>4. IsFiniteSet(Vertices(k)) /\ Cardinality(Vertices(k)) = k
  <2> DEFINE top == k - 1
  <2>1. top \in Nat /\ top - 0 + 1 = k /\ 0 <= top
    OBVIOUS
  <2>2. Vertices(k) = 0 .. top
    BY DEF Vertices
  <2> HIDE DEF top
  <2>3. IsFiniteSet(0 .. top) /\ Cardinality(0 .. top) = top - 0 + 1
    BY <2>1, FS_Interval
  <2> QED BY <2>1, <2>2, <2>3
<1>5. Vertices(k) \cap used = used
  BY DEF Relabellings
<1>6. IsFiniteSet(rest) /\ Cardinality(rest) = k - Cardinality(used)
  <2> HIDE DEF used
  <2>1. /\ IsFiniteSet(Vertices(k) \ used)
        /\ Cardinality(Vertices(k) \ used)
             = Cardinality(Vertices(k)) - Cardinality(Vertices(k) \cap used)
    BY <1>4, FS_Difference
  <2> QED BY <1>0, <1>4, <1>5, <2>1
<1>7. rest \subseteq Nat
  BY DEF Vertices
<1>8. Cardinality(rest) \in Nat
  BY <1>6, FS_CardinalityType
<1> HIDE DEF used
<1> QED BY <1>2, <1>3, <1>6, <1>7, <1>8

\* The rows a run of the test has placed can be completed to all rows.
LEMMA ExtendRelabelling ==
  ASSUME NEW k \in Nat, NEW m \in 0 .. (k - 1), NEW p \in Relabellings(m, k)
  PROVE  \E q \in Relabellings(k - 1, k) : \A a \in 0 .. m : q[a] = p[a]
<1> DEFINE Extends(j, q) == q \in Relabellings(j, k) /\ \A a \in 0 .. m : q[a] = p[a]
           Missing == {n \in Nat : \E j \in m .. (k - 1) :
                         n = k - 1 - j /\ \E q : Extends(j, q)}
<1>1. k - 1 - m \in Missing
  OBVIOUS
<1>2. PICK n \in Missing : \A i \in Missing : n <= i
  <2>1. Missing \subseteq Nat
    OBVIOUS
  <2> HIDE DEF Missing
  <2> QED BY <1>1, <2>1, LeastNat
<1>3. PICK j \in m .. (k - 1), q \in UNION {Relabellings(i, k) : i \in Nat} :
        n = k - 1 - j /\ Extends(j, q)
  BY <1>2
<1>4. CASE j = k - 1
  BY <1>3, <1>4
<1>5. CASE j < k - 1
  <2>1. PICK v \in Vertices(k) : \A a \in 0 .. j : q[a] # v
    BY <1>3, <1>5, UnusedVertex
  <2> DEFINE r == [a \in 0 .. (j + 1) |-> IF a = j + 1 THEN v ELSE q[a]]
  <2>2. r \in Relabellings(j + 1, k)
    <3>1. q \in [0 .. j -> Vertices(k)]
          /\ \A a, b \in 0 .. j : q[a] = q[b] => a = b
      BY <1>3 DEF Relabellings
    <3>2. \A a \in 0 .. (j + 1) : a = j + 1 \/ a \in 0 .. j
      OBVIOUS
    <3>3. r \in [0 .. (j + 1) -> Vertices(k)]
      BY <2>1, <3>1, <3>2
    <3>4. ASSUME NEW a \in 0 .. (j + 1), NEW b \in 0 .. (j + 1), r[a] = r[b]
          PROVE  a = b
      BY <2>1, <3>1, <3>2, <3>4
    <3> QED BY <3>3, <3>4 DEF Relabellings
  <2>3. \A a \in 0 .. m : r[a] = p[a]
    BY <1>3
  <2>4. n - 1 \in Missing
    BY <1>3, <1>5, <2>2, <2>3
  <2> QED BY <1>2, <2>4
<1> QED BY <1>3, <1>4, <1>5
-----------------------------------------------------------------------------

LEMMA SmallerAtMonotone ==
  ASSUME NEW k \in Nat, NEW m \in 0 .. (k - 1), NEW p \in Relabellings(m, k),
         NEW q, \A a \in 0 .. m : q[a] = p[a],
         NEW G, NEW e \in Pairs(m + 1), SmallerAt(G, p, e)
  PROVE  SmallerAt(G, q, e)
<1>1. \A f \in Pairs(m + 1) : Image(q, f) = Image(p, f)
  BY DEF Image, Pairs, Vertices
<1>2. Pairs(e[1] + 1) \subseteq Pairs(m + 1)
  BY DEF Pairs, Vertices
<1> QED BY <1>1, <1>2 DEF SmallerAt

\* A witness on the first rows refutes canonicity of a whole graph.
LEMMA PartialWitness ==
  ASSUME NEW k \in Nat, NEW m \in 0 .. (k - 1), NEW p \in Relabellings(m, k),
         NEW G, NEW e \in Pairs(m + 1), SmallerAt(G, p, e)
  PROVE  ~Canonical(k, G)
<1>1. PICK q \in Relabellings(k - 1, k) : \A a \in 0 .. m : q[a] = p[a]
  BY ExtendRelabelling
<1>2. SmallerAt(G, q, e)
  BY <1>1, SmallerAtMonotone
<1>3. e \in Pairs(k)
  BY PairsMonotone
<1> QED BY <1>1, <1>2, <1>3 DEF Canonical

\* Two entries are equal or one of them comes first.
LEMMA BeforeTotal ==
  ASSUME NEW k \in Nat, NEW e \in Pairs(k), NEW f \in Pairs(k)
  PROVE  /\ e = f \/ Before(e, f) \/ Before(f, e)
         /\ ~(Before(e, f) /\ Before(f, e)) /\ ~Before(e, e)
<1>1. e = <<e[1], e[2]>> /\ f = <<f[1], f[2]>>
  BY DEF Pairs
<1> QED BY <1>1 DEF Before, Pairs, Vertices

\* Some entry at which p(G) differs from G has only equal entries before it.
LEMMA FirstDifference ==
  ASSUME NEW k \in Nat, NEW p, NEW G, NEW e \in Pairs(k),
         G[Image(p, e)] # G[e]
  PROVE  \E g \in Pairs(k) :
           /\ g = e \/ Before(g, e)
           /\ G[Image(p, g)] # G[g]
           /\ \A f \in Pairs(k) : Before(f, g) => G[Image(p, f)] = G[f]
<1> DEFINE Differs(f) == f \in Pairs(k) /\ G[Image(p, f)] # G[f]
           Rows == {x \in Nat : \E f \in Pairs(k) : Differs(f) /\ f[1] = x}
<1>1. e[1] \in Rows
  BY DEF Pairs, Vertices
<1>2. PICK x \in Rows : \A z \in Rows : x <= z
  <2>1. Rows \subseteq Nat
    OBVIOUS
  <2> HIDE DEF Rows
  <2> QED BY <1>1, <2>1, LeastNat
<1> DEFINE Places == {y \in Nat : \E f \in Pairs(k) : Differs(f) /\ f[1] = x /\ f[2] = y}
<1>3. Places # {}
  <2>1. PICK f \in Pairs(k) : Differs(f) /\ f[1] = x
    BY <1>2
  <2> QED BY <2>1 DEF Pairs, Vertices
<1>4. PICK y \in Places : \A z \in Places : y <= z
  <2>1. Places \subseteq Nat
    OBVIOUS
  <2> HIDE DEF Places
  <2> QED BY <1>3, <2>1, LeastNat
<1>5. PICK g \in Pairs(k) : Differs(g) /\ g[1] = x /\ g[2] = y
  BY <1>4
<1>6. ASSUME NEW f \in Pairs(k), Differs(f)  PROVE ~Before(f, g)
  <2>1. f[1] \in Nat /\ f[2] \in Nat
    BY DEF Pairs, Vertices
  <2>2. f[1] \in Rows
    BY <1>6, <2>1
  <2>3. f[1] = x => f[2] \in Places
    BY <1>6, <2>1
  <2>4. x <= f[1] /\ (f[1] = x => y <= f[2])
    BY <1>2, <1>4, <2>2, <2>3
  <2>5. x \in Nat /\ y \in Nat
    OBVIOUS
  <2> HIDE DEF Rows, Places
  <2> QED BY <1>5, <2>1, <2>4, <2>5 DEF Before
<1>7. g = e \/ Before(g, e)
  BY <1>6, BeforeTotal
<1> QED BY <1>5, <1>6, <1>7

\* No relabelling makes a canonical graph smaller at an entry, so none at which it
\* is not larger before.
LEMMA NoLargerEntry ==
  ASSUME NEW n \in Nat, NEW q \in Relabellings(n - 1, n),
         NEW G \in Graphs(n), Canonical(n, G),
         NEW e \in Pairs(n), G[e], ~G[Image(q, e)],
         \A f \in Pairs(n) : Before(f, e) => (G[Image(q, f)] => G[f])
  PROVE  FALSE
<1>1. PICK g \in Pairs(n) :
        /\ g = e \/ Before(g, e)
        /\ G[Image(q, g)] # G[g]
        /\ \A f \in Pairs(n) : Before(f, g) => G[Image(q, f)] = G[f]
  <2>1. G[Image(q, e)] # G[e]
    OBVIOUS
  <2> QED BY <2>1, FirstDifference
<1>2. Image(q, g) \in Pairs(n)
  <2>1. n - 1 \in 0 .. (n - 1)
    BY DEF Pairs, Vertices
  <2>2. g \in Pairs((n - 1) + 1)
    OBVIOUS
  <2> QED BY <2>1, <2>2, ImageInPairs
<1>3. G[g] /\ ~G[Image(q, g)]
  <2>1. G[g] \in BOOLEAN /\ G[Image(q, g)] \in BOOLEAN
    BY <1>2 DEF Graphs
  <2> QED BY <1>1, <2>1
<1>4. Pairs(g[1] + 1) \subseteq Pairs(n)
  BY DEF Pairs, Vertices
<1>5. SmallerAt(G, q, g)
  BY <1>1, <1>3, <1>4 DEF SmallerAt
<1> QED BY <1>5 DEF Canonical

\* A graph that falsifies the clause made from a witness has a witness itself.
THEOREM BlockingClauseSound ==
  ASSUME NEW k \in Nat, NEW j \in Nat, j <= k,
         NEW m \in 0 .. (j - 1), NEW p \in Relabellings(m, j),
         NEW e \in Pairs(m + 1),
         NEW M \in Graphs(j), SmallerAt(M, p, e),
         NEW G \in Graphs(k), Canonical(k, G)
  PROVE  Satisfies(G, BlockingClause(M, p, e))
<1>1. p \in Relabellings(m, k) /\ m \in 0 .. (k - 1)
  BY RelabellingsMonotone
<1>2. Pairs(e[1] + 1) \subseteq Pairs(m + 1) /\ Pairs(m + 1) \subseteq Pairs(k)
  BY DEF Pairs, Vertices
<1>3. \A f \in Pairs(m + 1) : Image(p, f) \in Pairs(k) /\ Image(p, f) \in Pairs(j)
  BY <1>1, ImageInPairs
<1>4. SUFFICES ASSUME ~Satisfies(G, BlockingClause(M, p, e))
               PROVE  \E g \in Pairs(m + 1) : SmallerAt(G, p, g)
  BY <1>1, PartialWitness
<1>5. \A f \in Pairs(k) : G[f] \in BOOLEAN
  BY DEF Graphs
<1>6. \A l \in BlockingClause(M, p, e) : G[l[1]] # l[2]
  BY <1>4 DEF Satisfies
<1>7. G[e] /\ ~G[Image(p, e)]
  <2>1. <<e, FALSE>> \in BlockingClause(M, p, e)
        /\ <<Image(p, e), TRUE>> \in BlockingClause(M, p, e)
    BY DEF BlockingClause
  <2>2. G[e] # FALSE /\ G[Image(p, e)] # TRUE
    BY <1>6, <2>1
  <2> QED BY <1>2, <1>3, <1>5, <2>2
<1>8. ASSUME NEW f \in Pairs(e[1] + 1), Before(f, e)
      PROVE  G[Image(p, f)] => G[f]
  <2>1. CASE Image(p, f) = f
    BY <2>1
  <2>2. CASE Image(p, f) # f /\ M[f]
    <3>1. <<f, FALSE>> \in BlockingClause(M, p, e)
      BY <1>8, <2>2 DEF BlockingClause
    <3>2. G[f] # FALSE
      BY <1>6, <3>1
    <3> QED BY <1>2, <1>5, <3>2
  <2>3. CASE Image(p, f) # f /\ ~M[f]
    <3>1. M[Image(p, f)] = M[f]
      BY <1>8 DEF SmallerAt
    <3>2. <<Image(p, f), TRUE>> \in BlockingClause(M, p, e)
      BY <1>8, <2>3, <3>1 DEF BlockingClause
    <3>3. G[Image(p, f)] # TRUE
      BY <1>6, <3>2
    <3> QED BY <1>2, <1>3, <1>5, <3>3
  <2> QED BY <2>1, <2>2, <2>3
<1>9. e[1] \in 0 .. m /\ e \in Pairs(e[1] + 1)
  BY DEF Pairs, Vertices
<1>10. PICK g \in Pairs(e[1] + 1) :
         /\ g = e \/ Before(g, e)
         /\ G[Image(p, g)] # G[g]
         /\ \A f \in Pairs(e[1] + 1) : Before(f, g) => G[Image(p, f)] = G[f]
  <2>1. G[Image(p, e)] # G[e]
    BY <1>7
  <2> QED BY <1>9, <2>1, FirstDifference
<1>11. G[g] /\ ~G[Image(p, g)]
  BY <1>2, <1>3, <1>5, <1>7, <1>8, <1>10
<1>12. Pairs(g[1] + 1) \subseteq Pairs(e[1] + 1)
  BY <1>9 DEF Pairs, Vertices
<1> QED BY <1>2, <1>10, <1>11, <1>12 DEF SmallerAt
=============================================================================
