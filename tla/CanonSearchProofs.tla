------------------------- MODULE CanonSearchProofs -------------------------
(***************************************************************************)
(* Proofs about the backtracking search of is_canonical, for every order   *)
(* of the subgraph, matrix, cutoff and slack: a "no" comes with rows and   *)
(* an entry that show it and with a clause that check-perm.py accepts, a   *)
(* "yes" that is not given up at the limit means canonical.                *)
(***************************************************************************)
EXTENDS CanonSearch, CanonicityProofs

\* The vertices the rows r places in its first j rows.
Used(r, j) == {r[a] : a \in 0 .. (j - 1)}

\* Two relabellings place the same first j rows.
SamePrefix(q, r, j) == \A a \in 0 .. (j - 1) : q[a] = r[a]

\* The relabelled matrix agrees with G before <<a, b>> in the rows below j.
AgreesBelow(n, G, r, a, b, j) ==
  \A f \in Pairs(n) : Before(f, <<a, b>>) /\ f[1] < j => G[Image(r, f)] = G[f]

\* The relabelling does not make G smaller.
Settled(n, G, q) == \A e \in Pairs(n) : ~SmallerAt(G, q, e)

CanonTypeOK ==
  /\ k \in Orders
  /\ M \in Graphs(k)
  /\ pseudo \in BOOLEAN
  /\ pl \in [Vertices(k) -> SUBSET Vertices(k)]
  /\ pn \in [0 .. k -> SUBSET Vertices(k)]
  /\ p \in [Vertices(k) -> 0 .. k]
  /\ i \in -1 .. (k - 1)
  /\ last_x \in 0 .. k /\ last_y \in 0 .. k
  /\ last_y = 0 \/ last_y < last_x
  /\ np \in Nat /\ limit \in Nat
  /\ ~pseudo => limit = INT32_MAX
  /\ pc \in {"loop", "backtrack", "choose", "compare", "done"}

\* The rows placed so far are different vertices, and every candidate left at a
\* level is a vertex that the levels above do not use.
RowsOK ==
  pc # "done" =>
    /\ i \in Vertices(k)
    /\ \A j \in 0 .. i : pn[j] = Vertices(k) \ Used(p, j) /\ pl[j] \subseteq pn[j]
    /\ \A j \in 0 .. (i - 1) : p[j] \in pl[j]
    /\ pc = "compare" =>
         p[i] \in pl[i] /\ pn[i + 1] = Vertices(k) \ Used(p, i + 1)
    /\ pc = "choose" => pl[i] # {}
    /\ pc = "backtrack" => pl[i] = {} \/ p[i] \in pl[i]

\* The comparison of the level above was skipped, because it would have started
\* below the rows placed; the next candidate sends the start back far enough.
Debt ==
  /\ pc \in {"loop", "choose"}
  /\ i >= 1 /\ p[i - 1] > i - 1 /\ last_x > i - 1
  /\ pl[i] = pn[i]
  /\ AgreesBelow(k, M, p, last_x, last_y, i - 1)

\* The entries that the next comparison passes over agree.
StartOK ==
  /\ pc \in {"loop", "choose", "backtrack"} =>
       AgreesBelow(k, M, p, last_x, last_y, i) \/ Debt
  /\ pc = "compare" =>
       \/ last_x <= i /\ AgreesBelow(k, M, p, last_x, last_y, k)
       \/ /\ last_x > i /\ p[i] >= last_x
          /\ AgreesBelow(k, M, p, last_x, last_y, i)

\* What the search has left behind makes no smaller matrix.
Covered ==
  /\ pc # "done" =>
       \A j \in 0 .. i : \A q \in Relabellings(k - 1, k) :
         SamePrefix(q, p, j) /\ q[j] \notin pl[j] => Settled(k, M, q)
  /\ pc = "backtrack" =>
       \A q \in Relabellings(k - 1, k) :
         SamePrefix(q, p, i) /\ q[i] \notin pl[i] \ {p[i]} => Settled(k, M, q)

\* A "no" has rows and an entry that show it.
Witnessed(n, G, v) ==
  \E m \in 1 .. (n - 1) : \E r \in Relabellings(m, n) : \E e \in Pairs(m + 1) :
    v = [answer |-> "noncanonical", e |-> e, p |-> r] /\ SmallerAt(G, r, e)

VerdictOK ==
  /\ pc # "done" => verdict = [answer |-> "none"]
  /\ pc = "done" =>
       \/ verdict = [answer |-> "canonical"] /\ (np >= limit \/ Canonical(k, M))
       \/ Witnessed(k, M, verdict)

\* The inductive invariant of the search.
CanonInv == CanonTypeOK /\ RowsOK /\ StartOK /\ Covered /\ VerdictOK

-----------------------------------------------------------------------------
(* Rows and relabellings.                                                  *)

LEMMA OrdersAre ==
  ASSUME k \in Orders
  PROVE  k \in Nat /\ k >= 2 /\ k <= N /\ N \in Nat
BY SearchAssumption

LEMMA SameUsed ==
  ASSUME NEW j \in Nat, NEW s, NEW r, SamePrefix(s, r, j), NEW h \in 0 .. j
  PROVE  Used(s, h) = Used(r, h)
<1>1. \A a \in 0 .. (h - 1) : a \in 0 .. (j - 1)
  OBVIOUS
<1> QED BY <1>1 DEF Used, SamePrefix

LEMMA UsedNext ==
  ASSUME NEW r, NEW j \in Nat
  PROVE  Used(r, j + 1) = Used(r, j) \cup {r[j]}
<1>1. 0 .. (j + 1 - 1) = (0 .. (j - 1)) \cup {j}
  OBVIOUS
<1> QED BY <1>1 DEF Used

\* Rows of which none is among the ones before it are different vertices.
LEMMA RowsInjective ==
  ASSUME NEW n \in Nat, NEW j \in Vertices(n), NEW r,
         \A a \in 0 .. j : r[a] \in Vertices(n) /\ r[a] \notin Used(r, a)
  PROVE  [a \in 0 .. j |-> r[a]] \in Relabellings(j, n)
<1>1. ASSUME NEW a \in 0 .. j, NEW b \in 0 .. j, a < b  PROVE r[a] # r[b]
  <2>1. a \in 0 .. (b - 1) /\ j \in Nat
    BY <1>1 DEF Vertices
  <2>2. r[a] \in Used(r, b)
    BY <2>1 DEF Used
  <2> QED BY <2>2
<1>2. \A a, b \in 0 .. j : r[a] = r[b] => a = b
  <2>1. \A a, b \in 0 .. j : a < b \/ b < a \/ a = b
    BY DEF Vertices
  <2> QED BY <1>1, <2>1
<1> QED BY <1>2 DEF Relabellings

LEMMA SameImage ==
  ASSUME NEW n \in Nat, NEW j \in Nat, NEW q, NEW r, SamePrefix(q, r, j),
         NEW f \in Pairs(n), f[1] < j
  PROVE  Image(q, f) = Image(r, f)
<1>1. f[1] \in 0 .. (j - 1) /\ f[2] \in 0 .. (j - 1)
  BY DEF Pairs, Vertices
<1> QED BY <1>1 DEF Image, SamePrefix

\* A set of entries that is not empty has a first one.
LEMMA LeastPair ==
  ASSUME NEW n \in Nat, NEW D, D \subseteq Pairs(n), D # {}
  PROVE  \E d \in D : \A f \in D : d = f \/ Before(d, f)
<1> DEFINE FirstRows == {a \in Nat : \E f \in D : f[1] = a}
<1>1. FirstRows # {} /\ FirstRows \subseteq Nat
  BY DEF Pairs, Vertices
<1>2. PICK a \in FirstRows : \A b \in FirstRows : a <= b
  <2> HIDE DEF FirstRows
  <2> QED BY <1>1, LeastNat
<1> DEFINE Places == {b \in Nat : \E f \in D : f[1] = a /\ f[2] = b}
<1>3. Places # {} /\ Places \subseteq Nat
  <2>1. PICK f \in D : f[1] = a
    BY <1>2
  <2> QED BY <2>1 DEF Pairs, Vertices
<1>4. PICK b \in Places : \A c \in Places : b <= c
  <2> HIDE DEF Places
  <2> QED BY <1>3, LeastNat
<1>5. PICK d \in D : d[1] = a /\ d[2] = b
  BY <1>4
<1>6. ASSUME NEW f \in D  PROVE d = f \/ Before(d, f)
  <2>1. f[1] \in Nat /\ f[2] \in Nat /\ f \in Pairs(n) /\ d \in Pairs(n)
    BY DEF Pairs, Vertices
  <2>2. f[1] \in FirstRows
    BY <1>6, <2>1
  <2>3. f[1] = a => f[2] \in Places
    BY <1>6, <2>1
  <2>4. a <= f[1] /\ (f[1] = a => b <= f[2])
    BY <1>2, <1>4, <2>2, <2>3
  <2>5. a \in Nat /\ b \in Nat
    OBVIOUS
  <2> HIDE DEF FirstRows, Places
  <2>6. ~Before(f, d)
    BY <1>5, <2>1, <2>4, <2>5 DEF Before
  <2> QED BY <2>1, <2>6, BeforeTotal
<1> QED BY <1>6

\* As long as a row beyond the first rows has been used, one of these is free.
LEMMA FreeVertex ==
  ASSUME NEW n \in Nat, NEW j \in Vertices(n), j >= 1,
         NEW r \in [Vertices(n) -> 0 .. n], r[j - 1] > j - 1
  PROVE  \E v \in 0 .. (j - 1) : v \notin Used(r, j)
<1>1. j \in Nat
  BY DEF Vertices
<1>2. PICK v \in 0 .. (j - 1) : \A a \in 0 .. (j - 1) : r[a] # v
  BY <1>1, RowLeftOut
<1> QED BY <1>2 DEF Used

\* The least of a set of naturals.
LEMMA MinIsLeast ==
  ASSUME NEW T, T \subseteq Nat, T # {}
  PROVE  Min(T) \in T /\ \A m \in T : Min(T) <= m
<1>1. \E n \in T : \A m \in T : n <= m
  BY LeastNat
<1> QED BY <1>1 DEF Min

LEMMA AtMostOne ==
  ASSUME NEW T, IsFiniteSet(T), Cardinality(T) <= 1, NEW v, T = {} \/ v \in T
  PROVE  T \ {v} = {}
<1>1. SUFFICES ASSUME NEW w \in T, w # v, v \in T  PROVE FALSE
  OBVIOUS
<1>2. IsFiniteSet({v}) /\ Cardinality({v}) = 1
  BY FS_Singleton
<1>3. Cardinality({v} \cup {w}) = 2
  <2> DEFINE V == {v}
  <2>1. w \notin V /\ IsFiniteSet(V) /\ Cardinality(V) = 1
    BY <1>1, <1>2
  <2> HIDE DEF V
  <2>2. Cardinality(V \cup {w}) = Cardinality(V) + 1
    BY <2>1, FS_AddElement
  <2>3. Cardinality(V \cup {w}) = 2
    BY <2>1, <2>2
  <2> QED BY <2>3 DEF V
<1>4. {v} \cup {w} \in SUBSET T
  BY <1>1
<1>5. Cardinality({v} \cup {w}) <= Cardinality(T) /\ Cardinality(T) \in Nat
  BY <1>4, FS_Subset, FS_CardinalityType
<1> QED BY <1>3, <1>5

-----------------------------------------------------------------------------
(* What the invariant says about the comparison.                           *)

LEMMA PlacedRows ==
  ASSUME CanonInv, pc # "done"
  PROVE  /\ k \in Nat /\ k >= 2 /\ i \in Nat /\ i < k
         /\ \A j \in 0 .. (i - 1) : p[j] \in Vertices(k) /\ p[j] \notin Used(p, j)
         /\ pc = "compare" => p[i] \in Vertices(k) /\ p[i] \notin Used(p, i)
<1> USE DEF CanonInv
<1>1. k \in Nat /\ k >= 2 /\ i \in Nat /\ i < k
  BY OrdersAre DEF CanonTypeOK, RowsOK, Vertices
<1>2. ASSUME NEW j \in 0 .. i, p[j] \in pl[j]
      PROVE  p[j] \in Vertices(k) /\ p[j] \notin Used(p, j)
  BY <1>2 DEF RowsOK
<1>3. \A j \in 0 .. (i - 1) : p[j] \in pl[j] /\ j \in 0 .. i
  BY <1>1 DEF RowsOK
<1>4. pc = "compare" => p[i] \in pl[i] /\ i \in 0 .. i
  BY <1>1 DEF RowsOK
<1> QED BY <1>1, <1>2, <1>3, <1>4

LEMMA ComparedRows ==
  ASSUME CanonInv, pc = "compare"
  PROVE  [a \in 0 .. i |-> p[a]] \in Relabellings(i, k)
<1>1. k \in Nat /\ i \in Vertices(k)
  BY PlacedRows DEF Vertices
<1>2. \A a \in 0 .. i : p[a] \in Vertices(k) /\ p[a] \notin Used(p, a)
  <2>1. \A a \in 0 .. i : a \in 0 .. (i - 1) \/ a = i
    BY <1>1 DEF Vertices
  <2> QED BY <2>1, PlacedRows
<1> QED BY <1>1, <1>2, RowsInjective

LEMMA DecisionIsFirst ==
  ASSUME CanonInv, pc = "compare", Deciding # {}
  PROVE  /\ Decision \in Deciding /\ Decision \in Pairs(k)
         /\ \A f \in Deciding : Decision = f \/ Before(Decision, f)
<1>1. k \in Nat
  BY PlacedRows
<1>2. Deciding \subseteq Pairs(k)
  BY DEF Deciding, FromStart
<1>3. \E e \in Deciding : \A f \in Deciding : e = f \/ Before(e, f)
  BY <1>1, <1>2, LeastPair
<1>4. Decision \in Deciding /\ \A f \in Deciding : Decision = f \/ Before(Decision, f)
  BY <1>3, Zenon DEF Decision
<1> QED BY <1>2, <1>4

\* An entry before the decision does not decide.
LEMMA BeforeDecision ==
  ASSUME CanonInv, pc = "compare", Deciding # {}, NEW f \in Pairs(k),
         Before(f, Decision)
  PROVE  f \notin Deciding
<1>1. Decision \in Pairs(k) /\ k \in Nat
  BY DecisionIsFirst, PlacedRows
<1>2. ~Before(Decision, f) /\ Decision # f
  BY <1>1, BeforeTotal
<1> QED BY <1>2, DecisionIsFirst

\* A comparison that starts among the rows placed passes only equal entries.
LEMMA NotDeciding ==
  ASSUME CanonInv, pc = "compare", last_x <= i,
         NEW f \in Pairs(k), f \notin Deciding
  PROVE  f[1] <= i /\ M[Image(p, f)] = M[f]
<1> DEFINE start == <<IF last_x = 0 THEN 1 ELSE last_x, last_y>>
<1>1. k \in Nat /\ i \in Nat /\ i < k
  BY PlacedRows
<1>2. AgreesBelow(k, M, p, last_x, last_y, k)
  <2>1. ~(last_x > i)
    BY <1>1 DEF CanonInv, CanonTypeOK
  <2> QED BY <2>1 DEF CanonInv, StartOK
<1>3. last_x \in Nat /\ last_y \in Nat /\ (last_y = 0 \/ last_y < last_x)
  BY OrdersAre DEF CanonInv, CanonTypeOK
<1>4. f[1] \in Nat /\ f[2] \in Nat /\ f[2] < f[1] /\ f[1] < k
  BY <1>1 DEF Pairs, Vertices
<1>5. CASE f \in FromStart
  <2>1. ~(f[1] > i) /\ ~(M[f] # M[Image(p, f)])
    BY <1>5 DEF Deciding
  <2> QED BY <2>1, <1>1, <1>4
<1>6. CASE f \notin FromStart
  <2>1. Before(f, start)
    BY <1>6 DEF FromStart
  <2>2. last_x # 0
    BY <2>1, <1>3, <1>4 DEF Before
  <2>3. Before(f, <<last_x, last_y>>)
    BY <2>1, <2>2
  <2>4. f[1] <= last_x
    BY <2>3, <1>3, <1>4 DEF Before
  <2>5. M[Image(p, f)] = M[f]
    BY <1>2, <1>4, <2>3 DEF AgreesBelow
  <2> QED BY <1>1, <1>3, <1>4, <2>4, <2>5
<1> QED BY <1>5, <1>6

\* A comparison that starts below the rows placed stops where it starts.
LEMMA SkippedComparison ==
  ASSUME CanonInv, pc = "compare", last_x > i
  PROVE  /\ Deciding # {} /\ Decision = <<last_x, last_y>>
         /\ p[i] >= last_x /\ AgreesBelow(k, M, p, last_x, last_y, i)
<1>1. k \in Nat /\ i \in Nat /\ i < k
  BY PlacedRows
<1>2. last_x \in Nat /\ last_y \in Nat /\ (last_y = 0 \/ last_y < last_x)
  BY OrdersAre DEF CanonInv, CanonTypeOK
<1>3. p[i] >= last_x /\ AgreesBelow(k, M, p, last_x, last_y, i)
  <2>1. ~(last_x <= i)
    BY <1>1, <1>2
  <2> QED BY <2>1 DEF CanonInv, StartOK
<1>4. p[i] \in Nat /\ p[i] < k
  BY PlacedRows DEF Vertices
<1> DEFINE d == <<last_x, last_y>>
<1>5. d \in Pairs(k)
  <2>1. last_x > 0 /\ last_x < k /\ last_y < last_x
    BY <1>1, <1>2, <1>3, <1>4
  <2> QED BY <1>1, <1>2, <2>1 DEF Pairs, Vertices
<1>6. ~Before(d, d)
  BY <1>1, <1>5, BeforeTotal
<1>7. FromStart = {e \in Pairs(k) : ~Before(e, d)}
  <2>1. last_x # 0
    BY <1>1, <1>2
  <2> QED BY <2>1 DEF FromStart
<1>8. d \in Deciding
  BY <1>5, <1>6, <1>7 DEF Deciding
<1>9. ~Before(Decision, d)
  BY <1>7, <1>8, DecisionIsFirst DEF Deciding
<1>10. Decision = d
  BY <1>8, <1>9, DecisionIsFirst
<1> QED BY <1>3, <1>8, <1>10

\* Relabellings with the rows placed make the same entries of these rows.
LEMMA ComparedEntry ==
  ASSUME CanonInv, pc = "compare", NEW q, SamePrefix(q, p, i + 1),
         NEW f \in Pairs(k), f[1] <= i
  PROVE  Image(q, f) = Image(p, f)
<1>1. k \in Nat /\ i \in Nat /\ f[1] < i + 1
  BY PlacedRows DEF Pairs, Vertices
<1> QED BY <1>1, SameImage

\* When every entry is equal, no relabelling with these rows is smaller.
LEMMA EqualSettles ==
  ASSUME CanonInv, pc = "compare", Deciding = {},
         NEW q, SamePrefix(q, p, i + 1)
  PROVE  Settled(k, M, q)
<1>1. last_x <= i
  <2>1. ~(last_x > i)
    BY SkippedComparison
  <2> QED BY <2>1, OrdersAre DEF CanonInv, CanonTypeOK
<1>2. ASSUME NEW e \in Pairs(k), SmallerAt(M, q, e)  PROVE FALSE
  <2>1. e[1] <= i /\ M[Image(p, e)] = M[e]
    BY <1>1, NotDeciding
  <2>2. Image(q, e) = Image(p, e)
    BY <2>1, ComparedEntry
  <2> QED BY <1>2, <2>1, <2>2 DEF SmallerAt
<1> QED BY <1>2 DEF Settled

\* When the decision is larger, no relabelling with these rows is smaller.
LEMMA LargerSettles ==
  ASSUME CanonInv, pc = "compare", Deciding # {}, Decision[1] <= i, ~M[Decision],
         NEW q, SamePrefix(q, p, i + 1)
  PROVE  Settled(k, M, q)
<1>1. Decision \in Deciding /\ Decision \in Pairs(k) /\ k \in Nat
  BY DecisionIsFirst, PlacedRows
<1>2. last_x <= i
  <2>1. ASSUME last_x > i  PROVE FALSE
    <3>1. Decision[1] = last_x
      BY <2>1, SkippedComparison
    <3> QED BY <2>1, <3>1, OrdersAre DEF CanonInv, CanonTypeOK
  <2> QED BY <2>1, OrdersAre DEF CanonInv, CanonTypeOK
<1>3. M[Decision] # M[Image(p, Decision)]
  <2>1. ~(Decision[1] > i)
    BY <1>1, PlacedRows DEF Pairs, Vertices
  <2> QED BY <1>1, <2>1 DEF Deciding
<1>4. Image(q, Decision) = Image(p, Decision)
  BY <1>1, ComparedEntry
<1>5. ASSUME NEW e \in Pairs(k), SmallerAt(M, q, e)  PROVE FALSE
  <2>1. CASE e = Decision
    BY <1>5, <2>1 DEF SmallerAt
  <2>2. CASE Before(e, Decision)
    <3>1. e[1] <= i /\ M[Image(p, e)] = M[e]
      BY <1>2, <2>2, BeforeDecision, NotDeciding
    <3>2. Image(q, e) = Image(p, e)
      BY <3>1, ComparedEntry
    <3> QED BY <1>5, <3>1, <3>2 DEF SmallerAt
  <2>3. CASE Before(Decision, e)
    <3>1. Decision \in Pairs(e[1] + 1)
      BY <1>1, <2>3 DEF Before, Pairs, Vertices
    <3>2. M[Image(q, Decision)] = M[Decision]
      BY <1>5, <2>3, <3>1 DEF SmallerAt
    <3> QED BY <1>3, <1>4, <3>2
  <2> QED BY <1>1, <2>1, <2>2, <2>3, BeforeTotal
<1> QED BY <1>5 DEF Settled

\* When the decision is smaller, the rows placed show it.
LEMMA SmallerShows ==
  ASSUME CanonInv, pc = "compare", Deciding # {}, Decision[1] <= i, M[Decision],
         NEW r, r = [v \in 0 .. i |-> p[v]]
  PROVE  /\ i \in 1 .. (k - 1) /\ r \in Relabellings(i, k)
         /\ Decision \in Pairs(i + 1) /\ SmallerAt(M, r, Decision)
<1>1. /\ Decision \in Deciding /\ Decision \in Pairs(k)
      /\ k \in Nat /\ i \in Nat /\ i < k
  BY DecisionIsFirst, PlacedRows
<1>2. last_x <= i
  <2>1. ASSUME last_x > i  PROVE FALSE
    <3>1. Decision[1] = last_x
      BY <2>1, SkippedComparison
    <3> QED BY <2>1, <3>1, OrdersAre DEF CanonInv, CanonTypeOK
  <2> QED BY <2>1, OrdersAre DEF CanonInv, CanonTypeOK
<1>3. i \in 1 .. (k - 1) /\ Decision \in Pairs(i + 1)
  BY <1>1 DEF Pairs, Vertices
<1>4. r \in Relabellings(i, k)
  BY ComparedRows
<1>5. \A f \in Pairs(i + 1) : Image(r, f) = Image(p, f)
  BY <1>1 DEF Image, Pairs, Vertices
<1>6. M[Decision] # M[Image(p, Decision)]
  <2>1. ~(Decision[1] > i)
    BY <1>1 DEF Pairs, Vertices
  <2> QED BY <1>1, <2>1 DEF Deciding
<1>7. ~M[Image(r, Decision)]
  <2>1. Image(r, Decision) \in Pairs(k)
    BY <1>1, <1>3, <1>4, ImageInPairs
  <2>2. M[Image(r, Decision)] \in BOOLEAN /\ M[Decision] \in BOOLEAN
    BY <1>1, <2>1 DEF CanonInv, CanonTypeOK, Graphs
  <2> QED BY <1>3, <1>5, <1>6, <2>2
<1>8. ASSUME NEW f \in Pairs(Decision[1] + 1), Before(f, Decision)
      PROVE  M[Image(r, f)] = M[f]
  <2>1. f \in Pairs(k) /\ f \in Pairs(i + 1)
    BY <1>1 DEF Pairs, Vertices
  <2>2. f[1] <= i /\ M[Image(p, f)] = M[f]
    BY <1>2, <1>8, <2>1, BeforeDecision, NotDeciding
  <2> QED BY <1>5, <2>1, <2>2
<1> QED BY <1>3, <1>4, <1>7, <1>8 DEF SmallerAt

-----------------------------------------------------------------------------
(* The invariant holds at first and is kept by every step.                 *)

LEMMA InitInv == Init => CanonInv
<1> SUFFICES ASSUME Init  PROVE CanonInv
  OBVIOUS
<1>1. k \in Nat /\ k >= 2 /\ k \in Orders
  BY OrdersAre DEF Init
<1>2. /\ M \in Graphs(k) /\ pseudo \in BOOLEAN
      /\ i = 0 /\ last_x = 0 /\ last_y = 0 /\ np = 1 /\ pc = "loop"
      /\ pl = [v \in Vertices(k) |-> IF v = 0 THEN Vertices(k) ELSE {}]
      /\ pn = [v \in 0 .. k |-> IF v = 0 THEN Vertices(k) ELSE {}]
      /\ p = [v \in Vertices(k) |-> k]
      /\ limit = IF pseudo /\ k >= PseudoFrom THEN PseudoCutoff ELSE INT32_MAX
      /\ verdict = [answer |-> "none"]
  BY DEF Init
<1>3. 0 \in Vertices(k) /\ 0 \in 0 .. k /\ pl[0] = Vertices(k) /\ pn[0] = Vertices(k)
  BY <1>1, <1>2 DEF Vertices
<1>4. CanonTypeOK
  <2>1. limit \in Nat /\ (~pseudo => limit = INT32_MAX)
    BY <1>2, SearchAssumption DEF INT32_MAX
  <2>2. pl \in [Vertices(k) -> SUBSET Vertices(k)]
        /\ pn \in [0 .. k -> SUBSET Vertices(k)]
        /\ p \in [Vertices(k) -> 0 .. k]
    BY <1>1, <1>2
  <2> QED BY <1>1, <1>2, <2>1, <2>2 DEF CanonTypeOK
<1>5. RowsOK
  <2>1. 0 .. (0 - 1) = {} /\ Used(p, 0) = {} /\ 0 .. 0 = {0}
    BY DEF Used
  <2> QED BY <1>2, <1>3, <2>1 DEF RowsOK
<1>6. StartOK
  <2>1. AgreesBelow(k, M, p, last_x, last_y, 0)
    BY <1>1 DEF AgreesBelow, Pairs, Vertices
  <2> QED BY <1>2, <2>1 DEF StartOK
<1>7. Covered
  <2>1. \A q \in Relabellings(k - 1, k) : q[0] \in pl[0]
    BY <1>1, <1>3 DEF Relabellings
  <2>2. 0 .. 0 = {0}
    OBVIOUS
  <2> QED BY <1>2, <2>1, <2>2 DEF Covered
<1>8. VerdictOK
  BY <1>2 DEF VerdictOK
<1> QED BY <1>4, <1>5, <1>6, <1>7, <1>8 DEF CanonInv

\* The least candidate is a vertex that no row above uses.
LEMMA ChosenVertex ==
  ASSUME CanonInv, pc = "choose"
  PROVE  /\ Min(pl[i]) \in pl[i] /\ Min(pl[i]) \in Vertices(k)
         /\ Min(pl[i]) \in Nat /\ Min(pl[i]) < k
         /\ Min(pl[i]) \notin Used(p, i)
         /\ \A v \in pl[i] : Min(pl[i]) <= v
<1>1. k \in Nat /\ i \in Nat /\ i < k
  BY PlacedRows
<1>2. pl[i] # {} /\ pl[i] \subseteq Vertices(k) \ Used(p, i)
  BY <1>1 DEF CanonInv, RowsOK
<1>3. pl[i] \subseteq Nat
  BY <1>2 DEF Vertices
<1>4. Min(pl[i]) \in pl[i] /\ \A v \in pl[i] : Min(pl[i]) <= v
  BY <1>2, <1>3, MinIsLeast
<1>5. Min(pl[i]) \in Vertices(k) /\ Min(pl[i]) \notin Used(p, i)
  BY <1>2, <1>4
<1>6. Min(pl[i]) \in Nat /\ Min(pl[i]) < k
  BY <1>1, <1>5 DEF Vertices
<1> QED BY <1>4, <1>5, <1>6

\* A decision beyond the rows placed leaves a level to go to.
LEMMA UnknownLevel ==
  ASSUME CanonInv, pc = "compare", Deciding # {}, Decision[1] > i
  PROVE  i + 1 \in Vertices(k) /\ i + 1 \in 0 .. k
<1>1. Decision \in Pairs(k) /\ k \in Nat /\ i \in Nat
  BY DecisionIsFirst, PlacedRows
<1> QED BY <1>1 DEF Pairs, Vertices

LEMMA RewoundType ==
  ASSUME CanonInv, NEW r \in 0 .. k, RewindTo(r)
  PROVE  /\ last_x' \in 0 .. k /\ last_y' \in 0 .. k
         /\ last_y' = 0 \/ last_y' < last_x'
BY OrdersAre DEF CanonInv, CanonTypeOK, RewindTo

LEMMA MovedType ==
  ASSUME CanonInv, NEW e \in Pairs(k), MoveStart(e[1], e[2])
  PROVE  /\ last_x' \in 0 .. k /\ last_y' \in 0 .. k
         /\ last_y' = 0 \/ last_y' < last_x'
BY OrdersAre DEF CanonInv, CanonTypeOK, MoveStart, Pairs, Vertices

LEMMA TypeStep ==
  ASSUME CanonInv, Next
  PROVE  CanonTypeOK'
<1>1. k \in Nat /\ k >= 2
  BY OrdersAre DEF CanonInv, CanonTypeOK
<1> USE DEF arguments
<1>2. CASE GiveUp
  BY <1>2 DEF GiveUp, CanonInv, CanonTypeOK
<1>3. CASE Continue
  BY <1>3 DEF Continue, CanonInv, CanonTypeOK
<1>4. CASE LeaveLevel
  <2>1. i \in Vertices(k) /\ p[i] \in 0 .. k
    BY <1>4, <1>1 DEF LeaveLevel, CanonInv, RowsOK, CanonTypeOK
  <2>2. /\ last_x' \in 0 .. k /\ last_y' \in 0 .. k
        /\ last_y' = 0 \/ last_y' < last_x'
    BY <1>4, <2>1, RewoundType DEF LeaveLevel
  <2>3. i' \in -1 .. (k - 1)
    BY <1>1, <1>4, <2>1 DEF LeaveLevel, Vertices
  <2>4. pc' \in {"loop", "backtrack", "choose", "compare", "done"}
    BY <1>4 DEF LeaveLevel
  <2> QED BY <1>4, <2>2, <2>3, <2>4 DEF LeaveLevel, CanonInv, CanonTypeOK
<1>5. CASE ReachLevel
  <2>1. pl' \in [Vertices(k) -> SUBSET Vertices(k)]
    BY <1>5 DEF ReachLevel, CanonInv, CanonTypeOK
  <2> QED BY <1>5, <2>1 DEF ReachLevel, CanonInv, CanonTypeOK
<1>6. CASE Choose
  <2>1. pc = "choose"
    BY <1>6 DEF Choose
  <2> DEFINE v == Min(pl[i])
  <2>2. v \in Vertices(k) /\ v \in Nat /\ v < k
    BY <2>1, ChosenVertex
  <2>3. i \in Vertices(k) /\ i \in Nat /\ i < k
    BY <2>1, PlacedRows DEF Vertices
  <2> HIDE DEF v
  <2>4. p' = [p EXCEPT ![i] = v] /\ pn' = [pn EXCEPT ![i + 1] = pn[i] \ {v}]
    BY <1>6 DEF Choose, v
  <2>5. p' \in [Vertices(k) -> 0 .. k]
    <3>1. v \in 0 .. k
      BY <1>1, <2>2
    <3> QED BY <2>4, <3>1 DEF CanonInv, CanonTypeOK
  <2>6. pn' \in [0 .. k -> SUBSET Vertices(k)]
    <3>1. i \in 0 .. k
      BY <1>1, <2>3
    <3> QED BY <2>4, <3>1 DEF CanonInv, CanonTypeOK
  <2>7. limit' = IF i = 0 /\ v = 1 /\ pseudo /\ k < N THEN np + PseudoSlack ELSE limit
    BY <1>6 DEF Choose, v
  <2>8. limit' \in Nat /\ (~pseudo' => limit' = INT32_MAX)
    <3>1. pseudo' = pseudo
      BY <1>6 DEF Choose
    <3> QED BY <2>7, <3>1, SearchAssumption DEF CanonInv, CanonTypeOK
  <2>9. /\ last_x' \in 0 .. k /\ last_y' \in 0 .. k
        /\ last_y' = 0 \/ last_y' < last_x'
    <3> DEFINE start == IF last_x > v THEN v ELSE last_x
    <3>1. last_x' = start /\ last_y' = IF last_x > v \/ i = start THEN 0 ELSE last_y
      BY <1>6 DEF Choose, v
    <3> QED BY <1>1, <2>2, <3>1 DEF CanonInv, CanonTypeOK
  <2>10. pc' = "compare" /\ UNCHANGED <<k, M, pseudo, pl, i, np>>
    BY <1>6 DEF Choose
  <2> QED BY <2>5, <2>6, <2>8, <2>9, <2>10 DEF CanonInv, CanonTypeOK
<1>7. CASE CompareEqual
  <2>1. i \in Vertices(k)
    BY <1>7 DEF CompareEqual, CanonInv, RowsOK
  <2>2. pl' \in [Vertices(k) -> SUBSET Vertices(k)]
    BY <1>7, <2>1 DEF CompareEqual, Reject, CanonInv, CanonTypeOK
  <2>3. last_x' = k /\ last_y' = 0
    BY <1>7 DEF CompareEqual, MoveStart
  <2> QED BY <1>1, <1>7, <2>2, <2>3 DEF CompareEqual, Reject, CanonInv, CanonTypeOK
<1>8. CASE CompareUnknown
  <2>1. i + 1 \in Vertices(k) /\ i + 1 \in 0 .. k /\ Decision \in Pairs(k)
    BY <1>8, UnknownLevel, DecisionIsFirst DEF CompareUnknown
  <2>2. pl' \in [Vertices(k) -> SUBSET Vertices(k)]
    BY <1>8, <2>1 DEF CompareUnknown, CanonInv, CanonTypeOK
  <2>3. /\ last_x' \in 0 .. k /\ last_y' \in 0 .. k
        /\ last_y' = 0 \/ last_y' < last_x'
    BY <1>8, <2>1, MovedType DEF CompareUnknown
  <2>4. i' \in -1 .. (k - 1)
    BY <1>1, <1>8, <2>1 DEF CompareUnknown, Vertices
  <2> QED BY <1>8, <2>2, <2>3, <2>4 DEF CompareUnknown, CanonInv, CanonTypeOK
<1>9. CASE CompareLarger
  <2>1. i \in Vertices(k) /\ Decision \in Pairs(k)
    BY <1>9, DecisionIsFirst DEF CompareLarger, CanonInv, RowsOK
  <2>2. pl' \in [Vertices(k) -> SUBSET Vertices(k)]
    BY <1>9, <2>1 DEF CompareLarger, Reject, CanonInv, CanonTypeOK
  <2>3. /\ last_x' \in 0 .. k /\ last_y' \in 0 .. k
        /\ last_y' = 0 \/ last_y' < last_x'
    BY <1>9, <2>1, MovedType DEF CompareLarger
  <2> QED BY <1>9, <2>2, <2>3 DEF CompareLarger, Reject, CanonInv, CanonTypeOK
<1>10. CASE CompareSmaller
  BY <1>10 DEF CompareSmaller, CanonInv, CanonTypeOK
<1>11. CASE Finished
  BY <1>11 DEF Finished, vars, CanonInv, CanonTypeOK
<1> QED BY <1>2, <1>3, <1>4, <1>5, <1>6, <1>7, <1>8, <1>9, <1>10, <1>11 DEF Next

\* Every step keeps the rows different and the candidates free.
LEMMA RowsStep ==
  ASSUME CanonInv, Next
  PROVE  RowsOK'
<1> SUFFICES ASSUME pc' # "done"  PROVE RowsOK'
  BY DEF RowsOK
<1>0. pc # "done"
  BY DEF Next, GiveUp, Continue, LeaveLevel, ReachLevel, Choose, CompareEqual,
         CompareUnknown, CompareLarger, CompareSmaller, Finished, vars
<1>1. k \in Nat /\ k >= 2 /\ i \in Nat /\ i < k /\ i \in Vertices(k)
  BY <1>0, PlacedRows DEF Vertices
<1>2. /\ \A j \in 0 .. i : pn[j] = Vertices(k) \ Used(p, j) /\ pl[j] \subseteq pn[j]
      /\ \A j \in 0 .. (i - 1) : p[j] \in pl[j]
  BY <1>0 DEF CanonInv, RowsOK
<1>3. /\ pl \in [Vertices(k) -> SUBSET Vertices(k)]
      /\ pn \in [0 .. k -> SUBSET Vertices(k)]
      /\ p \in [Vertices(k) -> 0 .. k]
  BY DEF CanonInv, CanonTypeOK
<1>4. \A j \in 0 .. i : j \in Vertices(k) /\ j \in 0 .. k
  BY <1>1 DEF Vertices
<1> USE DEF arguments
<1>5. CASE GiveUp
  BY <1>5 DEF GiveUp
<1>6. CASE Continue
  <2>1. UNCHANGED <<k, pl, pn, p, i>>
    BY <1>6 DEF Continue
  <2>2. pc' = IF pl[i] = {} THEN "backtrack" ELSE "choose"
    BY <1>6 DEF Continue
  <2> QED BY <1>1, <1>2, <2>1, <2>2 DEF RowsOK
<1>7. CASE LeaveLevel
  <2>1. UNCHANGED <<k, pl, pn, p>> /\ i' = i - 1 /\ i # 0 /\ pc' = "backtrack"
    BY <1>7 DEF LeaveLevel
  <2>2. /\ i - 1 \in Vertices(k) /\ i - 1 \in 0 .. (i - 1)
        /\ \A j \in 0 .. (i - 1) : j \in 0 .. i
        /\ \A j \in 0 .. (i - 1 - 1) : j \in 0 .. (i - 1)
    BY <1>1, <2>1 DEF Vertices
  <2> QED BY <1>2, <2>1, <2>2 DEF RowsOK
<1>8. CASE ReachLevel
  <2>1. UNCHANGED <<k, pn, p, i>> /\ pl' = [pl EXCEPT ![i] = @ \ {p[i]}]
        /\ pc' = "choose" /\ pc = "backtrack" /\ Cardinality(pl[i]) > 1
    BY <1>8 DEF ReachLevel
  <2>2. /\ \A j \in 0 .. i : pl'[j] \subseteq pl[j]
        /\ \A j \in 0 .. (i - 1) : pl'[j] = pl[j]
        /\ pl'[i] = pl[i] \ {p[i]}
    BY <1>1, <1>3, <1>4, <2>1
  <2>3. pl'[i] # {}
    <3>1. SUFFICES ASSUME pl[i] \subseteq {p[i]}  PROVE FALSE
      BY <2>2
    <3>2. IsFiniteSet({p[i]}) /\ Cardinality({p[i]}) = 1
      BY FS_Singleton
    <3>3. Cardinality(pl[i]) <= 1 /\ Cardinality(pl[i]) \in Nat
      BY <3>1, <3>2, FS_Subset, FS_CardinalityType
    <3> QED BY <2>1, <3>3
  <2> QED BY <1>1, <1>2, <2>1, <2>2, <2>3 DEF RowsOK
<1>9. CASE Choose
  <2> DEFINE v == Min(pl[i])
  <2>1. v \in pl[i]
    BY <1>9, ChosenVertex DEF Choose
  <2> HIDE DEF v
  <2>2. UNCHANGED <<k, pl, i>> /\ pc' = "compare"
        /\ p' = [p EXCEPT ![i] = v] /\ pn' = [pn EXCEPT ![i + 1] = pn[i] \ {v}]
    BY <1>9 DEF Choose, v
  <2>3. /\ \A h \in 0 .. i : Used(p', h) = Used(p, h)
        /\ Used(p', i + 1) = Used(p, i) \cup {v}
    <3>1. SamePrefix(p', p, i) /\ p'[i] = v
      BY <1>1, <1>3, <1>4, <2>2 DEF SamePrefix, Vertices
    <3>2. \A h \in 0 .. i : Used(p', h) = Used(p, h)
      BY <1>1, <3>1, SameUsed
    <3>3. Used(p', i + 1) = Used(p', i) \cup {v}
      BY <1>1, <3>1, UsedNext
    <3>4. i \in 0 .. i
      BY <1>1
    <3> QED BY <3>2, <3>3, <3>4
  <2>4. /\ \A j \in 0 .. i : pn'[j] = pn[j]
        /\ pn'[i + 1] = pn[i] \ {v}
    BY <1>1, <1>3, <2>2
  <2>5. /\ \A j \in 0 .. (i - 1) : p'[j] = p[j]
        /\ p'[i] = v
    BY <1>1, <1>3, <1>4, <2>2
  <2>6. pn'[i + 1] = Vertices(k) \ Used(p', i + 1)
    <3>1. i \in 0 .. i
      BY <1>1
    <3> QED BY <1>2, <2>3, <2>4, <3>1
  <2> QED BY <1>1, <1>2, <2>1, <2>2, <2>3, <2>4, <2>5, <2>6 DEF RowsOK
<1>10. ASSUME CompareEqual \/ CompareLarger  PROVE RowsOK'
  <2>1. UNCHANGED <<k, pn, p, i>> /\ pl' = [pl EXCEPT ![i] = @ \ {p[i]}]
        /\ pc' = "loop"
    BY <1>10 DEF CompareEqual, CompareLarger, Reject
  <2>2. /\ \A j \in 0 .. i : pl'[j] \subseteq pl[j]
        /\ \A j \in 0 .. (i - 1) : pl'[j] = pl[j]
    BY <1>1, <1>3, <1>4, <2>1
  <2> QED BY <1>1, <1>2, <2>1, <2>2 DEF RowsOK
<1>11. CASE CompareUnknown
  <2>1. /\ k' = k /\ pn' = pn /\ p' = p
        /\ pl' = [pl EXCEPT ![i + 1] = pn[i + 1]]
        /\ pc = "compare" /\ pc' = "loop" /\ i' = i + 1
    BY <1>11 DEF CompareUnknown
  <2>2. i + 1 \in Vertices(k)
    BY <1>11, UnknownLevel DEF CompareUnknown
  <2>3. p[i] \in pl[i] /\ pn[i + 1] = Vertices(k) \ Used(p, i + 1)
    BY <2>1 DEF CanonInv, RowsOK
  <2>4. pl'[i + 1] = pn[i + 1] /\ \A j \in 0 .. i : pl'[j] = pl[j]
    BY <1>1, <1>3, <1>4, <2>1, <2>2
  <2>5. /\ \A j \in 0 .. (i + 1) : j \in 0 .. i \/ j = i + 1
        /\ \A j \in 0 .. (i + 1 - 1) : j \in 0 .. i /\ (j \in 0 .. (i - 1) \/ j = i)
    BY <1>1
  <2>6. \A j \in 0 .. (i + 1) : pn[j] = Vertices(k) \ Used(p, j) /\ pl'[j] \subseteq pn[j]
    BY <1>2, <2>3, <2>4, <2>5
  <2>7. \A j \in 0 .. (i + 1 - 1) : p[j] \in pl'[j]
    BY <1>2, <2>3, <2>4, <2>5
  <2>8. /\ i' \in Vertices(k')
        /\ \A j \in 0 .. i' : pn'[j] = Vertices(k') \ Used(p', j) /\ pl'[j] \subseteq pn'[j]
        /\ \A j \in 0 .. (i' - 1) : p'[j] \in pl'[j]
    <3>1. k' = k /\ pn' = pn /\ p' = p /\ i' = i + 1
      BY <2>1
    <3>2. i' \in Vertices(k')
      BY <2>2, <3>1
    <3>3. \A j \in 0 .. i' :
            pn'[j] = Vertices(k') \ Used(p', j) /\ pl'[j] \subseteq pn'[j]
      BY <2>6, <3>1
    <3>4. \A j \in 0 .. (i' - 1) : p'[j] \in pl'[j]
      <4>1. i' - 1 = i + 1 - 1
        BY <1>1, <3>1
      <4> QED BY <2>7, <3>1, <4>1
    <3> QED BY <3>2, <3>3, <3>4
  <2>9. pc' # "compare" /\ pc' # "choose" /\ pc' # "backtrack"
    BY <2>1
  <2> QED BY <2>8, <2>9 DEF RowsOK
<1>12. CASE CompareSmaller
  BY <1>12 DEF CompareSmaller
<1>13. CASE Finished
  BY <1>0, <1>13 DEF Finished
<1> QED BY <1>5, <1>6, <1>7, <1>8, <1>9, <1>10, <1>11, <1>12, <1>13 DEF Next

-----------------------------------------------------------------------------
(* The start of the comparison.                                            *)

\* An earlier start passes over fewer entries.
LEMMA EarlierStart ==
  ASSUME NEW n, NEW G, NEW r, NEW a \in Int, NEW b \in Int, NEW c \in Int, NEW d \in Int,
         NEW j \in Int, NEW h \in Int, n \in Nat, h <= j,
         c < a \/ (c = a /\ d <= b),
         AgreesBelow(n, G, r, a, b, j)
  PROVE  AgreesBelow(n, G, r, c, d, h)
<1>1. ASSUME NEW f \in Pairs(n), Before(f, <<c, d>>), f[1] < h
      PROVE  G[Image(r, f)] = G[f]
  <2>1. f[1] \in Int /\ f[2] \in Int
    BY DEF Pairs, Vertices
  <2>2. Before(f, <<a, b>>) /\ f[1] < j
    BY <1>1, <2>1 DEF Before
  <2> QED BY <2>2 DEF AgreesBelow
<1> QED BY <1>1 DEF AgreesBelow

\* Entries in the rows below j do not depend on the rows from j on.
LEMMA SameRowsAgree ==
  ASSUME NEW n \in Nat, NEW G, NEW r, NEW s, NEW a, NEW b, NEW j \in Nat,
         SamePrefix(s, r, j), AgreesBelow(n, G, r, a, b, j)
  PROVE  AgreesBelow(n, G, s, a, b, j)
<1>1. ASSUME NEW f \in Pairs(n), Before(f, <<a, b>>), f[1] < j
      PROVE  G[Image(s, f)] = G[f]
  <2>1. Image(s, f) = Image(r, f)
    BY <1>1, SameImage
  <2>2. G[Image(r, f)] = G[f]
    BY <1>1 DEF AgreesBelow
  <2> QED BY <2>1, <2>2
<1> QED BY <1>1 DEF AgreesBelow

\* A start in row j at the latest, there at its beginning, passes only over the
\* rows below j.
LEMMA RowsSuffice ==
  ASSUME NEW n \in Nat, NEW G, NEW r, NEW a \in Int, NEW b, NEW j \in Int,
         a < j \/ (a = j /\ b = 0),
         AgreesBelow(n, G, r, a, b, j)
  PROVE  AgreesBelow(n, G, r, a, b, n)
<1>1. ASSUME NEW f \in Pairs(n), Before(f, <<a, b>>)
      PROVE  G[Image(r, f)] = G[f]
  <2>1. f[1] \in Nat /\ f[2] \in Nat
    BY DEF Pairs, Vertices
  <2>2. f[1] < j
    BY <1>1, <2>1 DEF Before
  <2> QED BY <1>1, <2>2 DEF AgreesBelow
<1> QED BY <1>1 DEF AgreesBelow

LEMMA StartStep ==
  ASSUME CanonInv, Next
  PROVE  StartOK'
<1> SUFFICES ASSUME pc' # "done"  PROVE StartOK'
  BY DEF StartOK, Debt
<1>0. pc # "done"
  BY DEF Next, GiveUp, Continue, LeaveLevel, ReachLevel, Choose, CompareEqual,
         CompareUnknown, CompareLarger, CompareSmaller, Finished, vars
<1>1. k \in Nat /\ k >= 2 /\ i \in Nat /\ i < k /\ i \in Vertices(k)
  BY <1>0, PlacedRows DEF Vertices
<1>2. /\ last_x \in Nat /\ last_x <= k /\ last_y \in Nat
      /\ (last_y = 0 \/ last_y < last_x)
      /\ p \in [Vertices(k) -> 0 .. k]
  BY <1>1 DEF CanonInv, CanonTypeOK
<1>3. pc \in {"loop", "choose", "backtrack"} =>
        AgreesBelow(k, M, p, last_x, last_y, i) \/ Debt
  BY DEF CanonInv, StartOK
<1> USE DEF arguments
<1>4. CASE GiveUp
  BY <1>4 DEF GiveUp
<1>5. CASE Continue
  <2>1. UNCHANGED <<k, M, pl, pn, p, i, last_x, last_y>>
        /\ pc' = (IF pl[i] = {} THEN "backtrack" ELSE "choose") /\ pc = "loop"
    BY <1>5 DEF Continue
  <2>2. CASE AgreesBelow(k, M, p, last_x, last_y, i)
    BY <2>1, <2>2 DEF StartOK
  <2>3. CASE Debt
    <3>1. /\ i >= 1 /\ p[i - 1] > i - 1 /\ last_x > i - 1 /\ pl[i] = pn[i]
          /\ AgreesBelow(k, M, p, last_x, last_y, i - 1)
      BY <2>3 DEF Debt
    <3>2. \E v \in 0 .. (i - 1) : v \notin Used(p, i)
      BY <1>1, <1>2, <3>1, FreeVertex
    <3>3. pn[i] = Vertices(k) \ Used(p, i)
      BY <1>0, <1>1 DEF CanonInv, RowsOK
    <3>4. pl[i] # {}
      BY <1>1, <3>1, <3>2, <3>3 DEF Vertices
    <3>5. Debt'
      BY <2>1, <3>1, <3>4 DEF Debt
    <3> QED BY <2>1, <3>4, <3>5 DEF StartOK
  <2> QED BY <1>3, <2>1, <2>2, <2>3
<1>6. CASE LeaveLevel
  <2>1. /\ UNCHANGED <<k, M, p>> /\ i' = i - 1 /\ pc = "backtrack"
        /\ pc' = "backtrack" /\ i # 0 /\ RewindTo(p[i])
    BY <1>6 DEF LeaveLevel
  <2>2. AgreesBelow(k, M, p, last_x, last_y, i)
    BY <1>3, <2>1 DEF Debt
  <2>3. /\ last_x' \in Int /\ last_y' \in Int
        /\ last_x' < last_x \/ (last_x' = last_x /\ last_y' <= last_y)
    BY <1>1, <1>2, <2>1 DEF RewindTo
  <2>4. AgreesBelow(k, M, p, last_x', last_y', i - 1)
    <3>1. i - 1 \in Int /\ i - 1 <= i /\ i \in Int
          /\ last_x \in Int /\ last_y \in Int
      BY <1>1, <1>2
    <3> QED BY <1>1, <2>2, <2>3, <3>1, EarlierStart
  <2> QED BY <2>1, <2>4 DEF StartOK
<1>7. CASE ReachLevel
  <2>1. /\ UNCHANGED <<k, M, p, i, last_x, last_y>> /\ pc = "backtrack"
        /\ pc' = "choose"
    BY <1>7 DEF ReachLevel
  <2>2. AgreesBelow(k, M, p, last_x, last_y, i)
    BY <1>3, <2>1 DEF Debt
  <2> QED BY <2>1, <2>2 DEF StartOK
<1>8. CASE Choose
  <2> DEFINE v == Min(pl[i])
             start == IF last_x > v THEN v ELSE last_x
  <2>1. /\ v \in pl[i] /\ v \in Nat /\ v < k
        /\ \A w \in pl[i] : v <= w
    BY <1>8, ChosenVertex DEF Choose
  <2>2. /\ UNCHANGED <<k, M, i>> /\ pc = "choose" /\ pc' = "compare"
        /\ p' = [p EXCEPT ![i] = v] /\ last_x' = start
        /\ last_y' = IF last_x > v \/ i = start THEN 0 ELSE last_y
    BY <1>8 DEF Choose
  <2> HIDE DEF v
  <2>3. p'[i] = v /\ SamePrefix(p', p, i) /\ SamePrefix(p', p, i - 1)
    BY <1>1, <1>2, <2>2 DEF SamePrefix, Vertices
  <2>4. /\ last_x' \in Int /\ last_y' \in Int /\ last_x \in Int /\ last_y \in Int
        /\ last_x' < last_x \/ (last_x' = last_x /\ last_y' <= last_y)
        /\ last_x' = i => last_y' = 0
        /\ last_x' <= v
    BY <1>1, <1>2, <2>1, <2>2
  <2>5. CASE AgreesBelow(k, M, p, last_x, last_y, i)
    <3>1. AgreesBelow(k, M, p, last_x', last_y', i)
      <4>1. i \in Int /\ i <= i
        BY <1>1
      <4> QED BY <1>1, <2>4, <2>5, <4>1, EarlierStart
    <3>2. AgreesBelow(k, M, p', last_x', last_y', i)
      BY <1>1, <2>3, <3>1, SameRowsAgree
    <3>3. CASE last_x' <= i
      <4>1. last_x' < i \/ (last_x' = i /\ last_y' = 0)
        BY <1>1, <2>4, <3>3
      <4>2. AgreesBelow(k, M, p', last_x', last_y', k)
        BY <1>1, <2>4, <3>2, <4>1, RowsSuffice
      <4> QED BY <2>2, <3>3, <4>2 DEF StartOK
    <3>4. CASE last_x' > i
      BY <2>2, <2>3, <2>1, <2>4, <3>2, <3>4 DEF StartOK
    <3> QED BY <1>1, <2>4, <3>3, <3>4
  <2>6. CASE Debt
    <3>1. /\ i >= 1 /\ p[i - 1] > i - 1 /\ last_x > i - 1 /\ pl[i] = pn[i]
          /\ AgreesBelow(k, M, p, last_x, last_y, i - 1)
      BY <2>6 DEF Debt
    <3>2. PICK w \in 0 .. (i - 1) : w \notin Used(p, i)
      BY <1>1, <1>2, <3>1, FreeVertex
    <3>3. pn[i] = Vertices(k) \ Used(p, i)
      BY <1>0, <1>1 DEF CanonInv, RowsOK
    <3>4. w \in pl[i]
      BY <1>1, <3>1, <3>2, <3>3 DEF Vertices
    <3>5. v <= i - 1 /\ v < last_x
      BY <1>1, <1>2, <2>1, <3>1, <3>4
    <3>6. last_x' = v /\ last_y' = 0
      BY <2>2, <3>5, <1>2, <2>1
    <3>7. AgreesBelow(k, M, p, last_x', last_y', i - 1)
      <4>1. i - 1 \in Int /\ i - 1 <= i - 1
        BY <1>1
      <4> QED BY <1>1, <2>4, <3>1, <4>1, EarlierStart
    <3>8. AgreesBelow(k, M, p', last_x', last_y', i - 1)
      <4>1. i - 1 \in Nat
        BY <1>1, <3>1
      <4> QED BY <1>1, <2>3, <3>7, <4>1, SameRowsAgree
    <3>9. AgreesBelow(k, M, p', last_x', last_y', k)
      <4>1. i - 1 \in Int /\ (last_x' < i - 1 \/ (last_x' = i - 1 /\ last_y' = 0))
        BY <1>1, <2>1, <3>5, <3>6
      <4> QED BY <1>1, <2>4, <3>8, <4>1, RowsSuffice
    <3>10. last_x' <= i
      BY <1>1, <2>1, <3>5, <3>6
    <3> QED BY <2>2, <3>9, <3>10 DEF StartOK
  <2> QED BY <1>3, <2>2, <2>5, <2>6
<1>9. CASE CompareEqual
  <2>1. /\ UNCHANGED <<k, M, p, i>> /\ pc = "compare" /\ pc' = "loop"
        /\ Deciding = {}
    BY <1>9 DEF CompareEqual, Reject
  <2>2. last_x <= i
    <3>1. ~(last_x > i)
      BY <2>1, SkippedComparison
    <3> QED BY <1>1, <1>2, <3>1
  <2>3. AgreesBelow(k, M, p, last_x', last_y', i)
    BY <2>1, <2>2, NotDeciding DEF AgreesBelow
  <2> QED BY <2>1, <2>3 DEF StartOK
<1>10. CASE CompareLarger
  <2>1. /\ UNCHANGED <<k, M, p, i>> /\ pc = "compare" /\ pc' = "loop"
        /\ Deciding # {} /\ Decision[1] <= i
        /\ last_x' = Decision[1] /\ last_y' = Decision[2]
    BY <1>10 DEF CompareLarger, Reject, MoveStart
  <2>2. last_x <= i
    <3>1. ASSUME last_x > i  PROVE FALSE
      <4>1. Decision[1] = last_x
        BY <2>1, <3>1, SkippedComparison
      <4> QED BY <1>1, <1>2, <2>1, <3>1, <4>1
    <3> QED BY <1>1, <1>2, <3>1
  <2>3. \A f \in Pairs(k) : Before(f, Decision) => M[Image(p, f)] = M[f]
    BY <2>1, <2>2, BeforeDecision, NotDeciding
  <2>4. AgreesBelow(k, M, p, last_x', last_y', i)
    BY <2>1, <2>3 DEF AgreesBelow, Before
  <2> QED BY <2>1, <2>4 DEF StartOK
<1>11. CASE CompareUnknown
  <2>1. /\ UNCHANGED <<k, M, p, pn>> /\ pc = "compare" /\ pc' = "loop"
        /\ Deciding # {} /\ Decision[1] > i /\ i' = i + 1
        /\ last_x' = Decision[1] /\ last_y' = Decision[2]
        /\ pl' = [pl EXCEPT ![i + 1] = pn[i + 1]]
    BY <1>11 DEF CompareUnknown, MoveStart
  <2>2. CASE last_x <= i
    <3>1. \A f \in Pairs(k) : Before(f, Decision) => M[Image(p, f)] = M[f]
      BY <2>1, <2>2, BeforeDecision, NotDeciding
    <3>2. AgreesBelow(k, M, p, last_x', last_y', i')
      BY <2>1, <3>1 DEF AgreesBelow, Before
    <3> QED BY <2>1, <3>2 DEF StartOK
  <2>3. CASE last_x > i
    <3>1. /\ Decision = <<last_x, last_y>> /\ p[i] >= last_x
          /\ AgreesBelow(k, M, p, last_x, last_y, i)
      BY <2>1, <2>3, SkippedComparison
    <3>2. i' - 1 = i /\ i' >= 1
      BY <1>1, <2>1
    <3>3. pl'[i'] = pn'[i']
      <4>1. i + 1 \in Vertices(k)
        BY <2>1, UnknownLevel
      <4>2. pl \in [Vertices(k) -> SUBSET Vertices(k)]
        BY DEF CanonInv, CanonTypeOK
      <4> QED BY <2>1, <4>1, <4>2
    <3>4. p[i] > i
      BY <1>1, <1>2, <2>3, <3>1
    <3>5. last_x' = last_x /\ last_y' = last_y
      BY <2>1, <3>1
    <3>6. Debt'
      BY <2>1, <2>3, <3>1, <3>2, <3>3, <3>4, <3>5 DEF Debt
    <3> QED BY <2>1, <3>6 DEF StartOK
  <2> QED BY <1>1, <1>2, <2>2, <2>3
<1>12. CASE CompareSmaller
  BY <1>12 DEF CompareSmaller
<1>13. CASE Finished
  BY <1>0, <1>13 DEF Finished
<1> QED BY <1>4, <1>5, <1>6, <1>7, <1>8, <1>9, <1>10, <1>11, <1>12, <1>13 DEF Next

-----------------------------------------------------------------------------
(* Nothing smaller is left behind.                                         *)

\* Agreement on one row more.
LEMMA PrefixNext ==
  ASSUME NEW j \in Nat, NEW q, NEW r, SamePrefix(q, r, j), q[j] = r[j]
  PROVE  SamePrefix(q, r, j + 1)
<1>1. \A a \in 0 .. (j + 1 - 1) : a \in 0 .. (j - 1) \/ a = j
  OBVIOUS
<1> QED BY <1>1 DEF SamePrefix

\* The vertices that a relabelling with the rows placed may have next are the
\* candidates the level began with.
LEMMA NextRow ==
  ASSUME NEW n \in Nat, NEW j \in Vertices(n), NEW r,
         NEW q \in Relabellings(n - 1, n), SamePrefix(q, r, j)
  PROVE  q[j] \in Vertices(n) \ Used(r, j)
<1>1. j \in Nat /\ j \in 0 .. (n - 1)
  BY DEF Vertices
<1>2. q[j] \in Vertices(n)
  BY <1>1 DEF Relabellings
<1>3. ASSUME NEW a \in 0 .. (j - 1), q[j] = r[a]  PROVE FALSE
  <2>1. q[a] = q[j] /\ a \in 0 .. (n - 1) /\ a # j
    BY <1>1, <1>3 DEF SamePrefix
  <2> QED BY <1>1, <2>1 DEF Relabellings
<1> QED BY <1>2, <1>3 DEF Used

\* Rejecting the vertex of the last row, once it has been compared.
LEMMA RejectCovers ==
  ASSUME CanonInv, pc = "compare",
         \A q : SamePrefix(q, p, i + 1) => Settled(k, M, q),
         k' = k, M' = M, p' = p, i' = i,
         pl' = [pl EXCEPT ![i] = @ \ {p[i]}], pc' = "loop"
  PROVE  Covered'
<1>1. k \in Nat /\ i \in Nat /\ i \in Vertices(k) /\ pc # "done"
  BY PlacedRows DEF Vertices
<1>2. \A j \in 0 .. i : j \in Vertices(k)
  BY <1>1 DEF Vertices
<1>3. ASSUME NEW j \in 0 .. i, NEW q \in Relabellings(k - 1, k),
             SamePrefix(q, p, j), q[j] \notin pl'[j]
      PROVE  Settled(k, M, q)
  <2>1. q[j] \notin pl[j] \/ (j = i /\ q[j] = p[j])
    BY <1>1, <1>2, <1>3 DEF CanonInv, CanonTypeOK
  <2>2. CASE q[j] \notin pl[j]
    BY <1>1, <1>3, <2>2 DEF CanonInv, Covered
  <2>3. CASE j = i /\ q[j] = p[j]
    <3>1. SamePrefix(q, p, i + 1)
      BY <1>1, <1>3, <2>3, PrefixNext
    <3> QED BY <3>1
  <2> QED BY <2>1, <2>2, <2>3
<1> QED BY <1>3 DEF Covered

LEMMA CoveredStep ==
  ASSUME CanonInv, Next
  PROVE  Covered'
<1> SUFFICES ASSUME pc' # "done"  PROVE Covered'
  BY DEF Covered
<1>0. pc # "done"
  BY DEF Next, GiveUp, Continue, LeaveLevel, ReachLevel, Choose, CompareEqual,
         CompareUnknown, CompareLarger, CompareSmaller, Finished, vars
<1>1. k \in Nat /\ k >= 2 /\ i \in Nat /\ i < k /\ i \in Vertices(k)
  BY <1>0, PlacedRows DEF Vertices
<1>2. \A j \in 0 .. i : \A q \in Relabellings(k - 1, k) :
         SamePrefix(q, p, j) /\ q[j] \notin pl[j] => Settled(k, M, q)
  BY <1>0 DEF CanonInv, Covered
<1>3. pc = "backtrack" =>
        \A q \in Relabellings(k - 1, k) :
          SamePrefix(q, p, i) /\ q[i] \notin pl[i] \ {p[i]} => Settled(k, M, q)
  BY DEF CanonInv, Covered
<1>4. pl \in [Vertices(k) -> SUBSET Vertices(k)] /\ p \in [Vertices(k) -> 0 .. k]
  BY DEF CanonInv, CanonTypeOK
<1>5. \A j \in 0 .. i : j \in Vertices(k)
  BY <1>1 DEF Vertices
<1> USE DEF arguments
<1>6. CASE GiveUp
  BY <1>6 DEF GiveUp
<1>7. CASE Continue
  <2>1. /\ k' = k /\ M' = M /\ pl' = pl /\ p' = p /\ i' = i
        /\ pc' = IF pl[i] = {} THEN "backtrack" ELSE "choose"
    BY <1>7 DEF Continue
  <2>2. i \in 0 .. i
    BY <1>1
  <2>3. pl[i] = {} => \A q \in Relabellings(k - 1, k) :
          SamePrefix(q, p, i) /\ q[i] \notin pl[i] \ {p[i]} => Settled(k, M, q)
    BY <1>2, <2>2
  <2> QED BY <1>2, <2>1, <2>3 DEF Covered
<1>8. CASE LeaveLevel
  <2>1. /\ k' = k /\ M' = M /\ pl' = pl /\ p' = p /\ i' = i - 1 /\ i # 0
        /\ pc = "backtrack" /\ Cardinality(pl[i]) <= 1
    BY <1>8 DEF LeaveLevel
  <2>2. pl[i] \ {p[i]} = {}
    <3>1. pl[i] = {} \/ p[i] \in pl[i]
      BY <2>1 DEF CanonInv, RowsOK
    <3>2. IsFiniteSet(pl[i])
      <4>1. pl[i] \in SUBSET (0 .. (k - 1))
        BY <1>1, <1>4 DEF Vertices
      <4>2. IsFiniteSet(0 .. (k - 1))
        BY <1>1, FS_Interval
      <4> QED BY <4>1, <4>2, FS_Subset
    <3> QED BY <2>1, <3>1, <3>2, AtMostOne
  <2>3. \A q \in Relabellings(k - 1, k) : SamePrefix(q, p, i) => Settled(k, M, q)
    BY <1>3, <2>1, <2>2
  <2>4. ASSUME NEW q \in Relabellings(k - 1, k), SamePrefix(q, p, i - 1),
               q[i - 1] \notin pl[i - 1] \ {p[i - 1]}
        PROVE  Settled(k, M, q)
    <3>1. i - 1 \in 0 .. i /\ i - 1 \in Nat
      BY <1>1, <2>1
    <3>2. CASE q[i - 1] \notin pl[i - 1]
      BY <1>2, <2>4, <3>1, <3>2
    <3>3. CASE q[i - 1] = p[i - 1]
      <4>1. SamePrefix(q, p, i - 1 + 1)
        BY <2>4, <3>1, <3>3, PrefixNext
      <4>2. i - 1 + 1 = i
        BY <1>1
      <4> QED BY <2>3, <4>1, <4>2
    <3> QED BY <2>4, <3>2, <3>3
  <2>5. \A j \in 0 .. (i - 1) : j \in 0 .. i
    BY <1>1
  <2> QED BY <1>2, <2>1, <2>4, <2>5 DEF Covered
<1>9. CASE ReachLevel
  <2>1. /\ k' = k /\ M' = M /\ p' = p /\ i' = i /\ pc = "backtrack" /\ pc' = "choose"
        /\ pl' = [pl EXCEPT ![i] = @ \ {p[i]}]
    BY <1>9 DEF ReachLevel
  <2>2. pl'[i] = pl[i] \ {p[i]} /\ \A j \in 0 .. i : j # i => pl'[j] = pl[j]
    BY <1>1, <1>4, <1>5, <2>1
  <2>3. ASSUME NEW j \in 0 .. i, NEW q \in Relabellings(k - 1, k),
               SamePrefix(q, p, j), q[j] \notin pl'[j]
        PROVE  Settled(k, M, q)
    BY <1>2, <1>3, <2>1, <2>2, <2>3
  <2> QED BY <2>1, <2>3 DEF Covered
<1>10. CASE Choose
  <2> DEFINE v == Min(pl[i])
  <2>1. /\ k' = k /\ M' = M /\ pl' = pl /\ i' = i /\ pc' = "compare"
        /\ p' = [p EXCEPT ![i] = v]
    BY <1>10 DEF Choose
  <2> HIDE DEF v
  <2>2. ASSUME NEW j \in 0 .. i, NEW q, SamePrefix(q, p', j)
        PROVE  SamePrefix(q, p, j)
    <3>1. \A a \in 0 .. (j - 1) : p'[a] = p[a]
      BY <1>1, <1>4, <2>1 DEF Vertices
    <3> QED BY <2>2, <3>1 DEF SamePrefix
  <2> QED BY <1>2, <2>1, <2>2 DEF Covered
<1>11. CASE CompareEqual
  <2>1. /\ k' = k /\ M' = M /\ p' = p /\ i' = i /\ pc = "compare" /\ pc' = "loop"
        /\ pl' = [pl EXCEPT ![i] = @ \ {p[i]}] /\ Deciding = {}
    BY <1>11 DEF CompareEqual, Reject
  <2>2. \A q : SamePrefix(q, p, i + 1) => Settled(k, M, q)
    BY <2>1, EqualSettles
  <2> QED BY <2>1, <2>2, RejectCovers
<1>12. CASE CompareLarger
  <2>1. /\ k' = k /\ M' = M /\ p' = p /\ i' = i /\ pc = "compare" /\ pc' = "loop"
        /\ pl' = [pl EXCEPT ![i] = @ \ {p[i]}]
        /\ Deciding # {} /\ Decision[1] <= i /\ ~M[Decision]
    BY <1>12 DEF CompareLarger, Reject
  <2>2. \A q : SamePrefix(q, p, i + 1) => Settled(k, M, q)
    BY <2>1, LargerSettles
  <2> QED BY <2>1, <2>2, RejectCovers
<1>13. CASE CompareUnknown
  <2>1. /\ k' = k /\ M' = M /\ p' = p /\ i' = i + 1 /\ pc = "compare"
        /\ pc' = "loop" /\ pl' = [pl EXCEPT ![i + 1] = pn[i + 1]]
    BY <1>13 DEF CompareUnknown
  <2>2. i + 1 \in Vertices(k)
    BY <1>13, UnknownLevel DEF CompareUnknown
  <2>3. pn[i + 1] = Vertices(k) \ Used(p, i + 1)
    BY <2>1 DEF CanonInv, RowsOK
  <2>4. pl'[i + 1] = pn[i + 1] /\ \A j \in 0 .. i : pl'[j] = pl[j]
    BY <1>1, <1>4, <1>5, <2>1, <2>2
  <2>5. \A q \in Relabellings(k - 1, k) :
          SamePrefix(q, p, i + 1) => q[i + 1] \in pl'[i + 1]
    BY <1>1, <2>2, <2>3, <2>4, NextRow
  <2>6. \A j \in 0 .. (i + 1) : j \in 0 .. i \/ j = i + 1
    BY <1>1
  <2>7. ASSUME NEW j \in 0 .. (i + 1), NEW q \in Relabellings(k - 1, k),
               SamePrefix(q, p, j), q[j] \notin pl'[j]
        PROVE  Settled(k, M, q)
    BY <1>2, <2>4, <2>5, <2>6, <2>7
  <2> QED BY <2>1, <2>7 DEF Covered
<1>14. CASE CompareSmaller
  BY <1>14 DEF CompareSmaller
<1>15. CASE Finished
  BY <1>0, <1>15 DEF Finished
<1> QED BY <1>6, <1>7, <1>8, <1>9, <1>10, <1>11, <1>12, <1>13, <1>14, <1>15 DEF Next

-----------------------------------------------------------------------------
(* The answer, and the theorems.                                           *)

\* A step that ends the search ends it with an answer that the invariant allows.
LEMMA VerdictStep ==
  ASSUME CanonInv, Next
  PROVE  VerdictOK'
<1>1. pc # "done" => verdict = [answer |-> "none"]
  BY DEF CanonInv, VerdictOK
<1> USE DEF arguments
<1>2. CASE GiveUp
  <2>1. /\ pc' = "done" /\ verdict' = [answer |-> "canonical"]
        /\ np' = np /\ limit' = limit /\ np >= limit
    BY <1>2 DEF GiveUp
  <2> QED BY <2>1 DEF VerdictOK
<1>3. CASE Continue
  <2>1. pc # "done" /\ pc' # "done" /\ verdict' = verdict
    BY <1>3 DEF Continue
  <2> QED BY <1>1, <2>1 DEF VerdictOK
<1>4. CASE LeaveLevel
  <2>1. CASE i # 0
    <3>1. pc # "done" /\ pc' # "done" /\ verdict' = verdict
      BY <1>4, <2>1 DEF LeaveLevel
    <3> QED BY <1>1, <3>1 DEF VerdictOK
  <2>2. CASE i = 0
    <3>1. /\ pc = "backtrack" /\ pc' = "done" /\ k' = k /\ M' = M
          /\ verdict' = [answer |-> "canonical"] /\ Cardinality(pl[0]) <= 1
      BY <1>4, <2>2 DEF LeaveLevel
    <3>2. k \in Nat /\ k >= 2 /\ 0 \in Vertices(k)
      BY <3>1, PlacedRows DEF Vertices
    <3>3. pl[0] \ {p[0]} = {}
      <4>1. pl[0] = {} \/ p[0] \in pl[0]
        BY <2>2, <3>1 DEF CanonInv, RowsOK
      <4>2. IsFiniteSet(pl[0])
        <5>1. pl[0] \in SUBSET (0 .. (k - 1))
          BY <3>2 DEF CanonInv, CanonTypeOK, Vertices
        <5>2. IsFiniteSet(0 .. (k - 1))
          BY <3>2, FS_Interval
        <5> QED BY <5>1, <5>2, FS_Subset
      <4> QED BY <3>1, <4>1, <4>2, AtMostOne
    <3>4. \A q \in Relabellings(k - 1, k) : Settled(k, M, q)
      <4>1. \A q : SamePrefix(q, p, 0)
        BY DEF SamePrefix
      <4>2. \A q \in Relabellings(k - 1, k) :
              SamePrefix(q, p, 0) /\ q[0] \notin pl[0] \ {p[0]} => Settled(k, M, q)
        BY <2>2, <3>1 DEF CanonInv, Covered
      <4> QED BY <3>3, <4>1, <4>2
    <3>5. Canonical(k, M)
      BY <3>4 DEF Canonical, Settled
    <3>6. Canonical(k', M')
      BY <3>1, <3>5
    <3> QED BY <3>1, <3>6 DEF VerdictOK
  <2> QED BY <2>1, <2>2
<1>5. CASE ReachLevel
  <2>1. pc # "done" /\ pc' # "done" /\ verdict' = verdict
    BY <1>5 DEF ReachLevel
  <2> QED BY <1>1, <2>1 DEF VerdictOK
<1>6. CASE Choose
  <2>1. pc # "done" /\ pc' # "done" /\ verdict' = verdict
    BY <1>6 DEF Choose
  <2> QED BY <1>1, <2>1 DEF VerdictOK
<1>7. CASE CompareEqual \/ CompareLarger
  <2>1. pc # "done" /\ pc' # "done" /\ verdict' = verdict
    BY <1>7 DEF CompareEqual, CompareLarger, Reject
  <2> QED BY <1>1, <2>1 DEF VerdictOK
<1>8. CASE CompareUnknown
  <2>1. pc # "done" /\ pc' # "done" /\ verdict' = verdict
    BY <1>8 DEF CompareUnknown
  <2> QED BY <1>1, <2>1 DEF VerdictOK
<1>9. CASE CompareSmaller
  <2> DEFINE r == [v \in 0 .. i |-> p[v]]
  <2>1. /\ pc = "compare" /\ pc' = "done" /\ k' = k /\ M' = M
        /\ Deciding # {} /\ Decision[1] <= i /\ M[Decision]
        /\ verdict' = [answer |-> "noncanonical", e |-> Decision, p |-> r]
    BY <1>9 DEF CompareSmaller
  <2>2. /\ i \in 1 .. (k - 1) /\ r \in Relabellings(i, k)
        /\ Decision \in Pairs(i + 1) /\ SmallerAt(M, r, Decision)
    BY <2>1, SmallerShows
  <2> HIDE DEF r
  <2>3. Witnessed(k, M, verdict')
    BY <2>1, <2>2 DEF Witnessed
  <2>4. Witnessed(k', M', verdict')
    BY <2>1, <2>3
  <2> QED BY <2>1, <2>4 DEF VerdictOK
<1>10. CASE Finished
  BY <1>10 DEF Finished, vars, CanonInv, VerdictOK
<1> QED BY <1>2, <1>3, <1>4, <1>5, <1>6, <1>7, <1>8, <1>9, <1>10 DEF Next

LEMMA StutterInv ==
  ASSUME CanonInv, UNCHANGED vars
  PROVE  CanonInv'
BY DEF vars, CanonInv, CanonTypeOK, RowsOK, StartOK, Debt, Covered, VerdictOK

\* is_canonical keeps its invariant: it compares no more than the rows placed,
\* passes over equal entries only, leaves nothing smaller behind, and ends with
\* a "no" that has a witness or a "yes" that is given up or true.
THEOREM CanonSafe == Spec => []CanonInv
<1>1. CanonInv /\ [Next]_vars => CanonInv'
  <2>1. ASSUME CanonInv, Next  PROVE CanonInv'
    BY <2>1, TypeStep, RowsStep, StartStep, CoveredStep, VerdictStep DEF CanonInv
  <2> QED BY <2>1, StutterInv
<1> QED BY InitInv, <1>1, PTL DEF Spec

LEMMA SameTest ==
  ASSUME NEW m, NEW n, NEW G, NEW r, NEW e
  PROVE  /\ Test!Canonical(n, G) <=> Canonical(n, G)
         /\ Test!Relabellings(m, n) = Relabellings(m, n)
         /\ Test!Pairs(n) = Pairs(n) /\ Test!Graphs(n) = Graphs(n)
         /\ Test!SmallerAt(G, r, e) <=> SmallerAt(G, r, e)
BY DEF Test!Canonical, Canonical, Test!Relabellings, Relabellings, Test!Pairs, Pairs,
       Test!Graphs, Graphs, Test!SmallerAt, SmallerAt, Test!Vertices, Vertices,
       Test!Before, Before, Test!Image, Image, Test!Unordered, Unordered

\* The answer of a state is undecided, "canonical", or a "no" with a witness.
LEMMA StepOfTest ==
  ASSUME CanonInv, CanonInv', np < INT32_MAX, [Next]_vars
  PROVE  [Test!Yes \/ Test!No]_<<k, M, pseudo, verdict>>
<1>1. UNCHANGED <<k, M, pseudo>>
  BY DEF Next, GiveUp, Continue, LeaveLevel, ReachLevel, Choose, CompareEqual,
         CompareUnknown, CompareLarger, CompareSmaller, Finished, vars, arguments
<1>2. CASE pc # "done" /\ pc' = "done"
  <2>1. verdict = [answer |-> "none"]
    BY <1>2 DEF CanonInv, VerdictOK
  <2>2. verdict.answer = "none"
    BY <2>1
  <2>3. np' = np \/ verdict' # [answer |-> "canonical"]
    BY <1>2 DEF Next, GiveUp, Continue, LeaveLevel, ReachLevel, Choose, CompareEqual,
         CompareUnknown, CompareLarger, CompareSmaller, Finished, vars, Reject
  <2>4. CASE verdict' = [answer |-> "canonical"]
                /\ (np' >= limit' \/ Canonical(k', M'))
    <3>1. pseudo \/ Canonical(k, M)
      <4>1. SUFFICES ASSUME ~pseudo  PROVE Canonical(k, M)
        OBVIOUS
      <4>2. limit' = INT32_MAX
        BY <1>1, <4>1 DEF CanonInv, CanonTypeOK
      <4>3. ~(np' >= limit')
        BY <2>3, <2>4, <4>2 DEF INT32_MAX, CanonInv, CanonTypeOK
      <4> QED BY <1>1, <2>4, <4>3
    <3>2. Test!Canonical(k, M) <=> Canonical(k, M)
      BY SameTest
    <3>3. Test!Yes
      BY <1>1, <2>2, <2>4, <3>1, <3>2 DEF Test!Yes
    <3> QED BY <3>3
  <2>5. CASE Witnessed(k', M', verdict')
    <3>1. PICK m \in 1 .. (k - 1) : \E r \in Relabellings(m, k) : \E e \in Pairs(m + 1) :
            verdict' = [answer |-> "noncanonical", e |-> e, p |-> r]
            /\ SmallerAt(M, r, e)
      BY <1>1, <2>5 DEF Witnessed
    <3>2. PICK r \in Relabellings(m, k) : \E e \in Pairs(m + 1) :
            verdict' = [answer |-> "noncanonical", e |-> e, p |-> r]
            /\ SmallerAt(M, r, e)
      BY <3>1
    <3>3. PICK e \in Pairs(m + 1) :
            verdict' = [answer |-> "noncanonical", e |-> e, p |-> r]
            /\ SmallerAt(M, r, e)
      BY <3>2
    <3>4. verdict'.answer = "noncanonical" /\ verdict'.p = r /\ verdict'.e = e
      BY <3>3
    <3>5. r \in Test!Relabellings(m, k) /\ e \in Test!Pairs(m + 1)
          /\ Test!SmallerAt(M, r, e)
      BY <3>3, SameTest
    <3>6. Test!No
      BY <1>1, <2>2, <3>4, <3>5 DEF Test!No
    <3> QED BY <3>6
  <2> QED BY <1>2, <2>4, <2>5 DEF CanonInv, VerdictOK
<1>3. CASE ~(pc # "done" /\ pc' = "done")
  <2>1. verdict' = verdict
    BY <1>3 DEF Next, GiveUp, Continue, LeaveLevel, ReachLevel, Choose, CompareEqual,
         CompareUnknown, CompareLarger, CompareSmaller, Finished, vars, Reject
  <2> QED BY <1>1, <2>1
<1> QED BY <1>2, <1>3

\* The search gives the propagator what it relies on (ImplementsTest), as long
\* as it does not count 2^31 - 1 permutations: at that count is_canonical gives
\* up even when the pseudo-test has not been asked for (np < limit with limit =
\* INT32_MAX), and its "yes" need not be true.
THEOREM SearchImplementsTest ==
  Spec /\ [](np < INT32_MAX) => ImplementsTest
<1>1. Init => Test!Init
  <2> SUFFICES ASSUME Init  PROVE Test!Init
    OBVIOUS
  <2>1. Test!Graphs(k) = Graphs(k)
    BY SameTest
  <2> QED BY <2>1 DEF Init, Test!Init
<1>2. CanonInv /\ CanonInv' /\ np < INT32_MAX /\ [Next]_vars
        => [Test!Yes \/ Test!No]_<<k, M, pseudo, verdict>>
  BY StepOfTest
<1> QED BY <1>1, <1>2, CanonSafe, PTL DEF Spec, ImplementsTest, Test!Spec

-----------------------------------------------------------------------------
(* check-perm.py accepts the answer.                                       *)

\* The rows that are missing are added behind the ones that are given.
LEMMA ExtendedAgrees ==
  ASSUME NEW n \in Nat, NEW m \in 0 .. (n - 1), NEW r \in Relabellings(m, n)
  PROVE  \A a \in 0 .. m : Extended(n, r)[a] = r[a]
<1>1. DOMAIN r = 0 .. m /\ m \in Nat
  BY DEF Relabellings
<1>2. Cardinality(DOMAIN r) = m + 1
  BY <1>1, FS_Interval
<1>3. \A a \in 0 .. m : a \in Vertices(n) /\ a < m + 1
  BY DEF Vertices
<1> QED BY <1>2, <1>3 DEF Extended

\* The completed rows are all vertices, each of them once.
LEMMA ExtendedPermutes ==
  ASSUME NEW n \in Nat, NEW m \in 0 .. (n - 1), NEW r \in Relabellings(m, n)
  PROVE  Extended(n, r) \in Relabellings(n - 1, n)
<1> DEFINE rest == Vertices(n) \ {r[a] : a \in DOMAIN r}
           Rank(v) == Cardinality({w \in rest : w < v})
           q == Extended(n, r)
<1>1. DOMAIN r = 0 .. m /\ m \in Nat
  BY DEF Relabellings
<1>2. Cardinality(DOMAIN r) = m + 1
  BY <1>1, FS_Interval
<1>3. /\ rest \subseteq Nat /\ IsFiniteSet(rest)
      /\ Cardinality(rest) \in Nat /\ Cardinality(rest) >= n - (m + 1)
  <2>1. rest = Vertices(n) \ {r[a] : a \in 0 .. m}
    BY <1>1
  <2> HIDE DEF rest
  <2> QED BY <2>1, VerticesLeft
<1>4. q = [a \in Vertices(n) |-> IF a < m + 1 THEN r[a]
                                 ELSE CHOOSE v \in rest : Rank(v) = a - (m + 1)]
  <2> DEFINE Filled(d) == [a \in Vertices(n) |->
                             IF a < d THEN r[a]
                             ELSE CHOOSE v \in rest : Rank(v) = a - d]
  <2>1. q = Filled(Cardinality(DOMAIN r))
    BY Zenon DEF Extended
  <2> HIDE DEF Filled, q
  <2>2. q = Filled(m + 1)
    BY <1>2, <2>1
  <2> QED BY <2>2 DEF Filled
<1>5. ASSUME NEW a \in Vertices(n)  PROVE a \in 0 .. (n - 1) /\ a \in Nat
  BY DEF Vertices
<1>6. ASSUME NEW a \in Vertices(n), a < m + 1
      PROVE  q[a] = r[a] /\ a \in 0 .. m /\ q[a] \in Vertices(n) /\ q[a] \notin rest
  <2>1. q[a] = r[a] /\ a \in 0 .. m
    <3>1. a \in 0 .. m
      BY <1>1, <1>5, <1>6
    <3> HIDE DEF q, rest, Rank
    <3> QED BY <1>4, <1>6, <3>1
  <2>2. r[a] \in Vertices(n)
    BY <2>1 DEF Relabellings
  <2> QED BY <1>1, <2>1, <2>2
<1>7. ASSUME NEW a \in Vertices(n), ~(a < m + 1)
      PROVE  q[a] \in rest /\ Rank(q[a]) = a - (m + 1)
  <2>1. a - (m + 1) \in Nat /\ a - (m + 1) < Cardinality(rest)
    BY <1>1, <1>3, <1>5, <1>7
  <2>2. \E v \in rest : Rank(v) = a - (m + 1)
    <3> HIDE DEF rest
    <3> QED BY <1>3, <2>1, Ranked
  <2>3. q[a] = CHOOSE v \in rest : Rank(v) = a - (m + 1)
    BY <1>4, <1>7
  <2> HIDE DEF rest, Rank, q
  <2> QED BY <2>2, <2>3
<1> HIDE DEF Rank
<1>8. ASSUME NEW a \in Vertices(n), NEW b \in Vertices(n), q[a] = q[b]
      PROVE  a = b
  <2> HIDE DEF rest, q
  <2>1. CASE a < m + 1 /\ b < m + 1
    BY <1>6, <1>8, <2>1 DEF Relabellings
  <2>2. CASE ~(a < m + 1) /\ ~(b < m + 1)
    <3>1. a - (m + 1) = b - (m + 1)
      BY <1>7, <1>8, <2>2
    <3> QED BY <1>1, <1>5, <3>1
  <2> QED BY <1>6, <1>7, <1>8, <2>1, <2>2
<1>9. q \in [0 .. (n - 1) -> Vertices(n)]
  <2>1. \A a \in Vertices(n) : q[a] \in Vertices(n)
    <3>1. rest \subseteq Vertices(n)
      OBVIOUS
    <3> HIDE DEF rest, q
    <3> QED BY <1>6, <1>7, <3>1
  <2>2. DOMAIN q = Vertices(n) /\ q = [a \in DOMAIN q |-> q[a]]
    BY <1>4
  <2> HIDE DEF rest, q
  <2> QED BY <2>1, <2>2 DEF Vertices
<1> HIDE DEF rest
<1> QED BY <1>8, <1>9 DEF Relabellings, Vertices

\* A clause made from a witness shows the script that it blocks only matrices
\* that the witness makes smaller.
LEMMA WitnessAccepted ==
  ASSUME NEW n \in Nat, NEW h \in Nat, n <= h, NEW G \in Graphs(n),
         NEW m \in 0 .. (n - 1), NEW r \in Relabellings(m, n),
         NEW e \in Pairs(m + 1), SmallerAt(G, r, e)
  PROVE  Accepts(h, BlockingClause(G, r, e), r)
<1> DEFINE c == BlockingClause(G, r, e)
           s == Extended(h, r)
           ones == {f \in Pairs(h) : <<f, FALSE>> \in c}
           zeros == {f \in Pairs(h) : <<f, TRUE>> \in c}
<1>1. r \in Relabellings(m, h) /\ m \in 0 .. (h - 1)
  BY RelabellingsMonotone
<1>2. \A a \in 0 .. m : s[a] = r[a]
  BY <1>1, ExtendedAgrees
<1> HIDE DEF s
<1>3. \A f \in Pairs(m + 1) : Image(s, f) = Image(r, f)
  BY <1>2 DEF Image, Pairs, Vertices
<1>4. \A f \in Pairs(m + 1) : /\ f \in Pairs(h) /\ Image(r, f) \in Pairs(h)
                              /\ Image(r, f) \in Pairs(n)
  <2>1. Pairs(m + 1) \subseteq Pairs(h)
    BY <1>1, PairsMonotone
  <2> QED BY <1>1, <2>1, ImageInPairs
<1>5. <<e, FALSE>> \in c /\ <<Image(r, e), TRUE>> \in c
  BY DEF BlockingClause
<1>6. e \in ones /\ Image(s, e) \in zeros
  BY <1>3, <1>4, <1>5
<1>7. ASSUME NEW f \in Pairs(h), Before(f, e)
      PROVE  f \in ones \/ Image(s, f) \in zeros \/ Image(s, f) = f
  <2>1. f \in Pairs(e[1] + 1) /\ f \in Pairs(m + 1)
    BY <1>7 DEF Before, Pairs, Vertices
  <2>2. CASE Image(r, f) = f
    BY <1>3, <2>1, <2>2
  <2>3. CASE Image(r, f) # f /\ G[f]
    <3>1. <<f, FALSE>> \in c
      BY <1>7, <2>1, <2>3 DEF BlockingClause
    <3> QED BY <1>4, <2>1, <3>1
  <2>4. CASE Image(r, f) # f /\ ~G[f]
    <3>1. G[Image(r, f)] = G[f]
      BY <1>7, <2>1 DEF SmallerAt
    <3>2. <<Image(r, f), TRUE>> \in c
      BY <1>7, <2>1, <2>4, <3>1 DEF BlockingClause
    <3> QED BY <1>3, <1>4, <2>1, <3>2
  <2> QED BY <2>2, <2>3, <2>4
<1>8. Blocks(h, c, s)
  <2> HIDE DEF c
  <2> QED BY <1>6, <1>7 DEF Blocks
<1>9. s \in Relabellings(h - 1, h)
  BY <1>1, ExtendedPermutes DEF s
<1> QED BY <1>8, <1>9 DEF Accepts, s

\* The clause of an answer has two literals at least, and finitely many.
LEMMA WitnessNotUnit ==
  ASSUME NEW n \in Nat, NEW G, NEW m \in 0 .. (n - 1), NEW r \in Relabellings(m, n),
         NEW e \in Pairs(m + 1)
  PROVE  Cardinality(BlockingClause(G, r, e)) > 1
<1> DEFINE c == BlockingClause(G, r, e)
           one == {<<e, FALSE>>}
<1>1. IsFiniteSet(c)
  <2>1. IsFiniteSet(0 .. (n - 1)) /\ IsFiniteSet(BOOLEAN)
    <3>1. BOOLEAN = {TRUE} \cup {FALSE}
      OBVIOUS
    <3>2. IsFiniteSet({TRUE}) /\ IsFiniteSet({FALSE})
      BY FS_Singleton
    <3>3. IsFiniteSet({TRUE} \cup {FALSE})
      BY <3>2, FS_Union
    <3>4. IsFiniteSet(BOOLEAN)
      BY <3>1, <3>3, Zenon
    <3>5. IsFiniteSet(0 .. (n - 1))
      BY FS_Interval
    <3> QED BY <3>4, <3>5
  <2>2. IsFiniteSet(Vertices(n) \X Vertices(n))
    BY <2>1, FS_Product DEF Vertices
  <2>3. IsFiniteSet(Pairs(n))
    BY <2>2, FS_Subset DEF Pairs
  <2>4. IsFiniteSet(Literals(n))
    BY <2>1, <2>3, FS_Product DEF Literals
  <2>5. Pairs(m + 1) \subseteq Pairs(n) /\ Pairs(e[1] + 1) \subseteq Pairs(m + 1)
    BY DEF Pairs, Vertices
  <2>6. \A f \in Pairs(m + 1) : Image(r, f) \in Pairs(n)
    BY ImageInPairs
  <2>7. c \subseteq Literals(n)
    <3> SUFFICES ASSUME NEW l \in c  PROVE l \in Literals(n)
      BY Zenon
    <3>1. \/ l = <<e, FALSE>> \/ l = <<Image(r, e), TRUE>>
          \/ \E f \in Pairs(e[1] + 1) :
                l = <<f, FALSE>> \/ l = <<Image(r, f), TRUE>>
      BY DEF BlockingClause
    <3> HIDE DEF c
    <3>2. \A f \in Pairs(m + 1) :
            <<f, FALSE>> \in Literals(n) /\ <<Image(r, f), TRUE>> \in Literals(n)
      BY <2>5, <2>6 DEF Literals
    <3>3. Pairs(e[1] + 1) \subseteq Pairs(m + 1)
      BY <2>5
    <3> QED BY <3>1, <3>2, <3>3, Zenon
  <2> HIDE DEF c
  <2> QED BY <2>4, <2>7, FS_Subset
<1>2. <<e, FALSE>> \in c /\ <<Image(r, e), TRUE>> \in c
  BY DEF BlockingClause
<1>3. <<e, FALSE>> # <<Image(r, e), TRUE>>
  OBVIOUS
<1>4. one \in SUBSET c /\ one # c /\ Cardinality(one) = 1
  <2>1. one \in SUBSET c /\ one # c
    BY <1>2, <1>3
  <2>2. Cardinality(one) = 1
    BY FS_Singleton
  <2> QED BY <2>1, <2>2
<1>5. Cardinality(one) <= Cardinality(c) /\ Cardinality(c) # Cardinality(one)
      /\ Cardinality(c) \in Nat
  <2> HIDE DEF c, one
  <2> QED BY <1>1, <1>4, FS_Subset, FS_CardinalityType
<1> QED
  <2> HIDE DEF c, one
  <2>1. Cardinality(c) > 1
    BY <1>4, <1>5
  <2> QED BY <2>1 DEF c

\* check-perm.py accepts the clause of every "no" with the rows that are
\* written down for it, whatever the order of the graph (AcceptedByCheckPerm).
THEOREM AnswersAccepted == Spec => []AcceptedByCheckPerm
<1>1. CanonInv => AcceptedByCheckPerm
  <2> SUFFICES ASSUME CanonInv, verdict.answer = "noncanonical"
               PROVE  /\ Accepts(N, BlockingClause(M, verdict.p, verdict.e), verdict.p)
                      /\ Cardinality(BlockingClause(M, verdict.p, verdict.e)) > 1
    BY DEF AcceptedByCheckPerm
  <2>1. Witnessed(k, M, verdict)
    BY DEF CanonInv, VerdictOK
  <2>2. k \in Nat /\ k <= N /\ N \in Nat /\ M \in Graphs(k)
    BY OrdersAre DEF CanonInv, CanonTypeOK
  <2>3. PICK m \in 1 .. (k - 1) : \E r \in Relabellings(m, k) : \E e \in Pairs(m + 1) :
          verdict = [answer |-> "noncanonical", e |-> e, p |-> r] /\ SmallerAt(M, r, e)
    BY <2>1 DEF Witnessed
  <2>4. PICK r \in Relabellings(m, k) : \E e \in Pairs(m + 1) :
          verdict = [answer |-> "noncanonical", e |-> e, p |-> r] /\ SmallerAt(M, r, e)
    BY <2>3
  <2>5. PICK e \in Pairs(m + 1) :
          verdict = [answer |-> "noncanonical", e |-> e, p |-> r] /\ SmallerAt(M, r, e)
    BY <2>4
  <2>6. verdict.p = r /\ verdict.e = e /\ m \in 0 .. (k - 1)
    BY <2>5
  <2>7. Accepts(N, BlockingClause(M, r, e), r)
    BY <2>2, <2>5, <2>6, WitnessAccepted
  <2>8. Cardinality(BlockingClause(M, r, e)) > 1
    BY <2>2, <2>6, WitnessNotUnit
  <2> QED BY <2>6, <2>7, <2>8
<1> QED BY <1>1, CanonSafe, PTL

\* Conversely, whatever clause and rows the script accepts, the clause holds
\* in every canonical graph: one that violates it would be larger than its
\* relabelled self at the entry where the script's comparison ends.
THEOREM AcceptedClauseSound ==
  ASSUME NEW n \in Nat, NEW c, NEW r, Accepts(n, c, r),
         NEW G \in Graphs(n), Canonical(n, G)
  PROVE  Satisfies(G, c)
<1> DEFINE q == Extended(n, r)
           ones == {f \in Pairs(n) : <<f, FALSE>> \in c}
           zeros == {f \in Pairs(n) : <<f, TRUE>> \in c}
<1>1. q \in Relabellings(n - 1, n) /\ Blocks(n, c, q)
  BY DEF Accepts
<1> HIDE DEF q
<1>2. PICK e \in Pairs(n) :
        /\ e \in ones /\ Image(q, e) \in zeros
        /\ \A f \in Pairs(n) : Before(f, e) =>
             f \in ones \/ Image(q, f) \in zeros \/ Image(q, f) = f
  BY <1>1 DEF Blocks
<1>3. SUFFICES ASSUME ~Satisfies(G, c)  PROVE FALSE
  OBVIOUS
<1>4. \A f \in ones : G[f]
  BY <1>3 DEF Satisfies, Graphs
<1>5. \A f \in zeros : ~G[f]
  BY <1>3 DEF Satisfies, Graphs
<1> HIDE DEF ones, zeros
<1>6. G[e] /\ ~G[Image(q, e)]
  BY <1>2, <1>4, <1>5
<1>7. \A f \in Pairs(n) : Before(f, e) => (G[Image(q, f)] => G[f])
  BY <1>2, <1>4, <1>5
<1> QED BY <1>1, <1>6, <1>7, NoLargerEntry
=============================================================================
