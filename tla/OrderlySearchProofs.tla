------------------------ MODULE OrderlySearchProofs -------------------------
(***************************************************************************)
(* First of the propagator: it never blocks a canonical graph, whatever    *)
(* calls the solver makes; type correctness and NoCanonicalBlocked, for    *)
(* every order, every hash function, every pseudo-test and every initial   *)
(* memory.                                                                 *)
(*                                                                         *)
(* Then of the search, for every instance, option, decision order and      *)
(* hash: it uses the propagator as its interface allows, so what is proved *)
(* of the propagator holds in it; it leaves no wanted solution out; the    *)
(* propagator's trail mirrors the solver's; a model is counted once; and,  *)
(* when hashes do not collide, a model that search shows is canonical.     *)
(***************************************************************************)
EXTENDS OrderlySearch, CanonicityProofs, SequenceTheorems

\* Every witness the test can return has the shape the clause lemma asks for.
LEMMA CandidateShape ==
  ASSUME NEW i \in Columns, NEW w \in CandidatesOf[i]
  PROVE  \E m \in 0 .. i : w.p \in Relabellings(m, i + 1) /\ w.e \in Pairs(m + 1)
<1>1. w \in Candidates(i + 1)
  BY DEF CandidatesOf
<1>2. PICK m \in 1 .. i : w \in {[p |-> p, e |-> e] : p \in Relabellings(m, i + 1),
                                                     e \in Pairs(m + 1)}
  <2>1. (i + 1) - 1 = i
    BY NAssumption DEF Columns
  <2> QED BY <1>1, <2>1 DEF Candidates
<1>3. PICK p \in Relabellings(m, i + 1), e \in Pairs(m + 1) : w = [p |-> p, e |-> e]
  BY <1>2
<1> QED BY <1>2, <1>3

LEMMA ColumnsAreEdges ==
  ASSUME NEW i \in Columns
  PROVE  /\ i \in Nat /\ i + 1 \in Nat /\ i + 1 <= N /\ N \in Nat
         /\ Pairs(i + 1) \subseteq Edges
BY NAssumption, PairsMonotone DEF Columns, Edges

LEMMA BlockingClauseType ==
  ASSUME NEW i \in Columns, NEW w \in CandidatesOf[i], NEW M
  PROVE  BlockingClause(M, w.p, w.e) \in Clauses
<1>1. PICK m \in 0 .. i : w.p \in Relabellings(m, i + 1) /\ w.e \in Pairs(m + 1)
  BY CandidateShape
<1>2. i \in Nat /\ i + 1 \in Nat /\ m \in 0 .. ((i + 1) - 1)
  BY ColumnsAreEdges
<1>3. \A f \in Pairs(m + 1) : f \in Edges /\ Image(w.p, f) \in Edges
  <2>1. \A f \in Pairs(m + 1) : f \in Pairs(i + 1) /\ Image(w.p, f) \in Pairs(i + 1)
    BY <1>1, <1>2, ImageInPairs, PairsMonotone
  <2> QED BY <2>1, ColumnsAreEdges
<1>4. Pairs(w.e[1] + 1) \subseteq Pairs(m + 1)
  BY <1>1, <1>2 DEF Pairs, Vertices
<1>5. BlockingClause(M, w.p, w.e) \subseteq Literals(N)
  <2>1. \A f \in Pairs(m + 1), b \in BOOLEAN :
          <<f, b>> \in Literals(N) /\ <<Image(w.p, f), b>> \in Literals(N)
    BY <1>3 DEF Literals, Edges
  <2>2. \A l \in BlockingClause(M, w.p, w.e) : \E f \in Pairs(m + 1), b \in BOOLEAN :
          l = <<f, b>> \/ l = <<Image(w.p, f), b>>
    BY <1>1, <1>4, Zenon DEF BlockingClause
  <2> QED BY <2>1, <2>2
<1> QED BY <1>5 DEF Clauses

LEMMA FirstTouchedType == FirstTouched \in 2 .. N
<1> DEFINE P(i) == /\ i = N \/ ~colsuntouched[i]
                   /\ \A j \in 2 .. (i - 1) : colsuntouched[j]
           T == {i \in 2 .. N : i = N \/ ~colsuntouched[i]}
<1>1. N \in T /\ T \subseteq Nat
  BY NAssumption
<1>2. PICK i \in T : \A j \in T : i <= j
  <2> HIDE DEF T
  <2> QED BY <1>1, LeastNat
<1>3. i \in 2 .. N /\ P(i)
  <2>1. ASSUME NEW j \in 2 .. (i - 1), ~colsuntouched[j]  PROVE FALSE
    <3>1. j \in T /\ j < i
      BY <2>1, <1>2, NAssumption
    <3> QED BY <3>1, <1>2
  <2> QED BY <2>1, <1>2
<1>4. \E k \in 2 .. N : P(k)
  BY <1>3
<1> HIDE DEF T
<1> QED BY <1>4 DEF FirstTouched

LEMMA HashType ==
  ASSUME NEW i \in Columns  PROVE Hash(i) \in Hashes
BY ColumnsAreEdges DEF Hash, Hashes

\* The initial state: nothing assigned, nothing analysed, whatever memory held.
LEMMA InitType == SBInit => SBTypeOK
<1> SUFFICES ASSUME SBInit PROVE SBTypeOK
  OBVIOUS
<1> USE InitialAssumption, NAssumption DEF SBInit, l_True, l_False, l_Undef
<1>1. current_trail \in Seq(SUBSET Literals(N)) /\ current_trail # <<>>
  OBVIOUS
<1>2. colsuntouched \in [Columns -> BOOLEAN]
  OBVIOUS
<1>3. canonical_hashes \in [Columns -> SUBSET Hashes]
  OBVIOUS
<1>4. new_clauses \in Seq(Clauses)
  OBVIOUS
<1> QED BY <1>1, <1>2, <1>3, <1>4 DEF SBTypeOK

LEMMA NotifyType ==
  ASSUME SBTypeOK, NEW L \in SUBSET Literals(N), NEW F \in SUBSET Literals(N),
         NotifyAssignment(L, F)
  PROVE  SBTypeOK'
<1>1. assign' \in [Edges -> {l_True, l_False, l_Undef}]
  BY DEF NotifyAssignment, Assigned, Sign, SBTypeOK
<1>2. fixed' \in [Edges -> BOOLEAN]
  BY DEF NotifyAssignment, SBTypeOK
<1>3. current_trail' \in Seq(SUBSET Literals(N)) /\ current_trail' # <<>>
  <2>1. Len(current_trail) \in 1 .. Len(current_trail)
    BY DEF SBTypeOK
  <2>2. current_trail[Len(current_trail)] \cup L \in SUBSET Literals(N)
    BY <2>1 DEF SBTypeOK
  <2> QED BY <2>1, <2>2 DEF NotifyAssignment, SBTypeOK
<1> QED BY <1>1, <1>2, <1>3 DEF NotifyAssignment, SBTypeOK

LEMMA NewLevelType ==
  ASSUME SBTypeOK, NotifyNewDecisionLevel  PROVE SBTypeOK'
<1>1. current_trail' \in Seq(SUBSET Literals(N)) /\ current_trail' # <<>>
  BY DEF NotifyNewDecisionLevel, SBTypeOK
<1> QED BY <1>1 DEF NotifyNewDecisionLevel, SBTypeOK

LEMMA BacktrackType ==
  ASSUME SBTypeOK, NEW lvl \in Nat, NotifyBacktrack(lvl)
  PROVE  SBTypeOK'
<1>1. assign' \in [Edges -> {l_True, l_False, l_Undef}]
  BY DEF NotifyBacktrack, SBTypeOK
<1>2. colsuntouched' \in [Columns -> BOOLEAN]
  BY DEF NotifyBacktrack, SBTypeOK
<1>3. current_trail' \in Seq(SUBSET Literals(N)) /\ current_trail' # <<>>
  <2>1. lvl + 1 \in 1 .. Len(current_trail)
    BY DEF NotifyBacktrack, SBTypeOK
  <2>2. /\ SubSeq(current_trail, 1, lvl + 1) \in Seq(SUBSET Literals(N))
        /\ Len(SubSeq(current_trail, 1, lvl + 1)) = lvl + 1
    BY <2>1, SubSeqProperties DEF SBTypeOK
  <2> QED BY <2>2 DEF NotifyBacktrack
<1> QED BY <1>1, <1>2, <1>3 DEF NotifyBacktrack, SBTypeOK
\* A clause over the edges offered to the solver and written to the proof.
LEMMA OfferType ==
  ASSUME SBTypeOK, NEW clause \in Clauses, NEW kind \in {"block", "mus", "model"},
         new_clauses' = Append(new_clauses, clause),
         trusted' = trusted \cup {<<clause, kind>>}
  PROVE  /\ new_clauses' \in Seq(Clauses)
         /\ trusted' \subseteq Clauses \X {"block", "mus", "model"}
<1>1. new_clauses \in Seq(Clauses) /\ trusted \subseteq Clauses \X {"block", "mus", "model"}
  BY DEF SBTypeOK
<1>2. <<clause, kind>> \in Clauses \X {"block", "mus", "model"}
  OBVIOUS
<1>3. trusted' \subseteq Clauses \X {"block", "mus", "model"}
  BY <1>1, <1>2, Zenon
<1> QED BY <1>1, <1>3

LEMMA FoundModelType ==
  ASSUME SBTypeOK, NEW model \in Graphs(N), CheckFoundModel(model)
  PROVE  SBTypeOK'
<1> DEFINE clause == {<<e, ~model[e]>> : e \in Edges}
<1>1. clause \in Clauses
  <2>1. \A e \in Edges : <<e, ~model[e]>> \in Literals(N)
    BY DEF Graphs, Literals, Edges
  <2> QED BY <2>1 DEF Clauses
<1>2. new_clauses' = Append(new_clauses, clause)
      /\ trusted' = trusted \cup {<<clause, "model">>}
  BY DEF CheckFoundModel
<1>3. /\ assign' = assign /\ fixed' = fixed /\ current_trail' = current_trail
      /\ colsuntouched' = colsuntouched /\ canonical_hashes' = canonical_hashes
      /\ sol_count' = sol_count + 1 /\ t_lines' = t_lines + 1
      /\ perm_lines' = perm_lines /\ col' = col /\ answer' = answer
  BY DEF CheckFoundModel
<1>4. new_clauses' \in Seq(Clauses) /\ trusted' \subseteq Clauses \X {"block", "mus", "model"}
  <2> HIDE DEF clause
  <2> QED BY <1>1, <1>2, OfferType
<1> QED BY <1>3, <1>4 DEF SBTypeOK

LEMMA HasClauseType ==
  ASSUME SBTypeOK, HasExternalClause  PROVE SBTypeOK'
BY FirstTouchedType DEF HasExternalClause, SBTypeOK

LEMMA TakeClauseType ==
  ASSUME SBTypeOK, TakeClause  PROVE SBTypeOK'
<1>1. \A i \in 1 .. (Len(new_clauses) - 1) : new_clauses[i] \in Clauses
  BY DEF SBTypeOK
<1>2. Len(new_clauses) - 1 \in Int
  BY DEF SBTypeOK
<1>3. new_clauses' \in Seq(Clauses)
  BY <1>1, <1>2, SubSeqProperties DEF TakeClause
<1> QED BY <1>3 DEF TakeClause, SBTypeOK

\* One step of the scan over the columns.
LEMMA ScanType ==
  ASSUME SBTypeOK, Scan  PROVE SBTypeOK'
<1>1. ASSUME col \in Columns
      PROVE  /\ col + 1 \in {0} \cup (2 .. N)
             /\ [colsuntouched EXCEPT ![col] = TRUE] \in [Columns -> BOOLEAN]
  BY <1>1, NAssumption DEF Columns, SBTypeOK
<1>2. CASE ScanUndefined
  BY <1>2 DEF ScanUndefined, SBTypeOK
<1>3. CASE ScanSeen
  BY <1>1, <1>3 DEF ScanSeen, Analysed, SBTypeOK
<1>4. CASE ScanCanonical
  <2>1. canonical_hashes' \in [Columns -> SUBSET Hashes]
    BY <1>4, HashType DEF ScanCanonical, SBTypeOK
  <2> QED BY <1>1, <1>4, <2>1 DEF ScanCanonical, Analysed, SBTypeOK
<1>5. ASSUME col \in Columns, NEW w \in Witnesses(col), ScanNoncanonical(w)
      PROVE  SBTypeOK'
  <2> DEFINE clause == BlockingClause(Subgraph(col + 1), w.p, w.e)
  <2>1. clause \in Clauses
    BY <1>5, BlockingClauseType DEF Witnesses
  <2>2. new_clauses' \in Seq(Clauses) /\ trusted' \subseteq Clauses \X {"block", "mus", "model"}
    <3> HIDE DEF clause
    <3>1. new_clauses' = Append(new_clauses, clause) /\ trusted' = trusted \cup {<<clause, "block">>}
      BY <1>5 DEF ScanNoncanonical, clause
    <3> QED BY <2>1, <3>1, OfferType
  <2>3. assign' = assign /\ fixed' = fixed /\ current_trail' = current_trail
        /\ canonical_hashes' = canonical_hashes /\ sol_count' = sol_count
        /\ t_lines' = t_lines + 1 /\ perm_lines' = perm_lines + 1
        /\ col' = 0 /\ answer' = TRUE
        /\ colsuntouched' = [colsuntouched EXCEPT ![col] = TRUE]
    BY <1>5 DEF ScanNoncanonical, Analysed
  <2> QED BY <1>1, <1>5, <2>2, <2>3 DEF SBTypeOK
<1>6. CASE ScanForbidden
  <2>0. PICK g \in Forbidden : \E copy \in Copies(g) :
          /\ new_clauses' = Append(new_clauses, {<<e, FALSE>> : e \in copy})
          /\ trusted' = trusted \cup {<<{<<e, FALSE>> : e \in copy}, "mus">>}
    BY <1>6 DEF ScanForbidden
  <2>1. PICK copy \in Copies(g) :
          /\ new_clauses' = Append(new_clauses, {<<e, FALSE>> : e \in copy})
          /\ trusted' = trusted \cup {<<{<<e, FALSE>> : e \in copy}, "mus">>}
    BY <2>0
  <2>2. copy \subseteq Edges
    <3>1. PICK p \in VertexOrders : copy = {Image(p, e) : e \in g}
      BY DEF Copies
    <3>2. p \in Relabellings(N - 1, N) /\ N - 1 \in 0 .. (N - 1) /\ (N - 1) + 1 = N
      BY NAssumption DEF VertexOrders
    <3>3. \A e \in Edges : Image(p, e) \in Edges
      BY <3>2, NAssumption, ImageInPairs DEF Edges
    <3> QED BY <3>1, <3>3, ForbiddenAssumption
  <2> DEFINE clause == {<<e, FALSE>> : e \in copy}
  <2>3. clause \in Clauses
    <3>1. \A e \in Edges : <<e, FALSE>> \in Literals(N)
      BY DEF Literals, Edges
    <3> QED BY <2>2, <3>1 DEF Clauses
  <2>4. new_clauses' \in Seq(Clauses) /\ trusted' \subseteq Clauses \X {"block", "mus", "model"}
    <3>1. new_clauses' = Append(new_clauses, clause) /\ trusted' = trusted \cup {<<clause, "mus">>}
      BY <2>1
    <3> HIDE DEF clause
    <3> QED BY <2>3, <3>1, OfferType
  <2>5. /\ assign' = assign /\ fixed' = fixed /\ current_trail' = current_trail
        /\ colsuntouched' = colsuntouched /\ canonical_hashes' = canonical_hashes
        /\ sol_count' = sol_count /\ t_lines' = t_lines + 1
        /\ perm_lines' = perm_lines + 1 /\ col' = 0 /\ answer' = TRUE
    BY <1>6 DEF ScanForbidden
  <2> QED BY <2>4, <2>5 DEF SBTypeOK
<1>7. CASE ScanDone
  BY <1>7 DEF ScanDone, SBTypeOK
<1> QED BY <1>2, <1>3, <1>4, <1>5, <1>6, <1>7 DEF Scan

LEMMA NextType ==
  ASSUME SBTypeOK, [SBNext]_sbvars  PROVE SBTypeOK'
<1>1. CASE UNCHANGED sbvars
  BY <1>1 DEF sbvars, SBTypeOK
<1> QED BY <1>1, NotifyType, NewLevelType, BacktrackType, FoundModelType,
           HasClauseType, ScanType, TakeClauseType DEF SBNext

\* The propagator's state keeps its type under any sequence of calls.
THEOREM PropagatorTypeCorrect == SBSpec => []SBTypeOK
BY InitType, NextType, PTL DEF SBSpec

-----------------------------------------------------------------------------
(* NoCanonicalBlocked.  Only ScanNoncanonical adds a blocking clause; the  *)
(* type invariant makes its witness a relabelling of existing vertices.    *)

LEMMA NewClauseSound ==
  ASSUME SBTypeOK, col \in Columns, NEW w \in Witnesses(col),
         NEW G \in CanonicalOfOrderN
  PROVE  Satisfies(G, BlockingClause(Subgraph(col + 1), w.p, w.e))
<1>1. PICK m \in 0 .. col : w.p \in Relabellings(m, col + 1) /\ w.e \in Pairs(m + 1)
  BY CandidateShape DEF Witnesses
<1>2. col + 1 \in Nat /\ N \in Nat /\ col + 1 <= N /\ m \in 0 .. ((col + 1) - 1)
  BY ColumnsAreEdges
<1>3. Subgraph(col + 1) \in Graphs(col + 1)
  BY DEF Subgraph, Graphs
<1>4. SmallerAt(Subgraph(col + 1), w.p, w.e)
  BY DEF Witnesses
<1>5. G \in Graphs(N) /\ Canonical(N, G)
  BY DEF CanonicalOfOrderN, CanonicalGraphs
<1> QED BY <1>1, <1>2, <1>3, <1>4, <1>5, BlockingClauseSound

LEMMA NextBlocks ==
  ASSUME SBTypeOK, NoCanonicalBlocked, [SBNext]_sbvars
  PROVE  NoCanonicalBlocked'
<1>1. CASE trusted' = trusted
  BY <1>1 DEF NoCanonicalBlocked, CanonicalOfOrderN
<1>2. ASSUME NEW c, trusted' = trusted \cup {<<c, "model">>}
      PROVE  NoCanonicalBlocked'
  BY <1>2 DEF NoCanonicalBlocked
<1>3. ASSUME NEW c, trusted' = trusted \cup {<<c, "mus">>}
      PROVE  NoCanonicalBlocked'
  BY <1>3 DEF NoCanonicalBlocked
<1>4. ASSUME col \in Columns, NEW w \in Witnesses(col), ScanNoncanonical(w)
      PROVE  NoCanonicalBlocked'
  <2> DEFINE clause == BlockingClause(Subgraph(col + 1), w.p, w.e)
  <2>1. \A G \in CanonicalOfOrderN : Satisfies(G, clause)
    BY <1>4, NewClauseSound
  <2>2. trusted' = trusted \cup {<<clause, "block">>}
    BY <1>4 DEF ScanNoncanonical
  <2> HIDE DEF clause
  <2> QED BY <2>1, <2>2 DEF NoCanonicalBlocked
<1>5. CASE \E model \in Graphs(N) : CheckFoundModel(model)
  BY <1>2, <1>5 DEF CheckFoundModel
<1>6. CASE Scan
  <2>1. CASE ScanForbidden
    BY <1>3, <2>1 DEF ScanForbidden
  <2>2. CASE ScanUndefined \/ ScanSeen \/ ScanCanonical \/ ScanDone
    BY <1>1, <2>2 DEF ScanUndefined, ScanSeen, ScanCanonical, ScanDone
  <2> QED BY <1>4, <1>6, <2>1, <2>2 DEF Scan
<1>7. CASE UNCHANGED sbvars
  BY <1>1, <1>7 DEF sbvars
<1> QED BY <1>1, <1>5, <1>6, <1>7 DEF SBNext, NotifyAssignment,
           NotifyNewDecisionLevel, NotifyBacktrack, HasExternalClause, TakeClause

\* Whatever the solver does, no canonical graph is ruled out by a clause that
\* blocks a noncanonical subgraph.
THEOREM PropagatorSound == SBSpec => []NoCanonicalBlocked
<1>1. SBInit => NoCanonicalBlocked
  BY DEF SBInit, NoCanonicalBlocked
<1> QED BY <1>1, NextBlocks, PropagatorTypeCorrect, PTL DEF SBSpec

-----------------------------------------------------------------------------
(* The search that uses the propagator.                                    *)
\* A sequence of n levels of entries whose literals are edge literals.
TrailShape(t, n) ==
  /\ t = [k \in 1 .. n |-> t[k]]
  /\ Len(t) = n
  /\ \A k \in 1 .. n : \A a \in t[k] : a.lit \in Literals(N)

\* What the solver has to maintain to keep to the interface: it deals in edge
\* literals, and has as many levels as the propagator.
SolverInv ==
  /\ db \subseteq Clauses
  /\ conflict \in Clauses
  /\ pending \subseteq Literals(N)
  /\ TrailShape(trail, Len(current_trail))

-----------------------------------------------------------------------------
(* Operations on the trail.                                                *)

LEMMA FunctionIsSeq ==
  ASSUME NEW n \in Nat, NEW t, t = [k \in 1 .. n |-> t[k]]
  PROVE  /\ t \in Seq({t[k] : k \in 1 .. n})
         /\ Len(t) = n
<1> DEFINE R == {t[k] : k \in 1 .. n}
<1>1. t \in [1 .. n -> R]
  OBVIOUS
<1>2. t \in Seq(R)
  BY <1>1, SeqDef
<1>3. DOMAIN t = 1 .. n /\ DOMAIN t = 1 .. Len(t) /\ Len(t) \in Nat
  BY <1>1, <1>2, LenProperties
<1> QED BY <1>2, <1>3

LEMMA PutShape ==
  ASSUME NEW n \in Nat \ {0}, NEW t, TrailShape(t, n),
         NEW l \in Literals(N), NEW lvl
  PROVE  TrailShape(Put(t, l, lvl), n)
<1> DEFINE s == Put(t, l, lvl)
<1>1. s = [k \in 1 .. n |-> IF k = n THEN t[n] \cup {[lit |-> l, lvl |-> lvl]} ELSE t[k]]
  BY DEF Put, TrailShape
<1>2. s = [k \in 1 .. n |-> s[k]]
  BY <1>1
<1>3. Len(s) = n
  BY <1>2, FunctionIsSeq
<1>4. \A k \in 1 .. n : \A a \in s[k] : a.lit \in Literals(N)
  BY <1>1 DEF TrailShape
<1> QED BY <1>2, <1>3, <1>4 DEF TrailShape

LEMMA BacktrackShape ==
  ASSUME NEW n \in Nat, TrailShape(trail, n), NEW b \in Nat, b + 1 < n
  PROVE  /\ TrailShape(Backtracked(b), b + 1)
         /\ \A a \in Kept(b) : a.lit \in Literals(N)
<1>1. \A a \in Kept(b) : a.lit \in Literals(N)
  BY DEF Kept, TrailShape
<1> DEFINE s == Backtracked(b)
<1>2. s = [k \in 1 .. (b + 1) |->
             IF k = b + 1 THEN trail[k] \cup Kept(b) ELSE trail[k]]
  BY DEF Backtracked
<1>3. s = [k \in 1 .. (b + 1) |-> s[k]]
  BY <1>2
<1>4. Len(s) = b + 1
  BY <1>3, FunctionIsSeq
<1>5. \A k \in 1 .. (b + 1) : k \in 1 .. n
  OBVIOUS
<1>6. \A k \in 1 .. (b + 1) : \A a \in s[k] : a.lit \in Literals(N)
  BY <1>1, <1>2, <1>5 DEF TrailShape
<1> QED BY <1>1, <1>3, <1>4, <1>6 DEF TrailShape

LEMMA AppendShape ==
  ASSUME NEW n \in Nat, NEW t, TrailShape(t, n), NEW l \in Literals(N), NEW lvl
  PROVE  TrailShape(Append(t, {[lit |-> l, lvl |-> lvl]}), n + 1)
<1> DEFINE new == {[lit |-> l, lvl |-> lvl]}
           R == {t[k] : k \in 1 .. n}
           s == Append(t, new)
<1>1. t \in Seq(R) /\ Len(t) = n
  BY FunctionIsSeq DEF TrailShape
<1>2. t \in Seq(R \cup {new})
  BY <1>1, SeqMonotonic
<1> HIDE DEF R, s
<1>3. /\ s \in Seq(R \cup {new})
      /\ Len(s) = n + 1
      /\ \A k \in 1 .. n : s[k] = t[k]
      /\ s[n + 1] = new
  BY <1>1, <1>2, AppendProperties DEF s
<1>4. s = [k \in 1 .. (n + 1) |-> s[k]]
  BY <1>3, LenProperties
<1>5. \A k \in 1 .. (n + 1) : \A a \in s[k] : a.lit \in Literals(N)
  <2> SUFFICES ASSUME NEW k \in 1 .. (n + 1), NEW a \in s[k]
               PROVE  a.lit \in Literals(N)
    OBVIOUS
  <2>1. CASE k \in 1 .. n
    BY <1>3, <2>1 DEF TrailShape
  <2>2. CASE k = n + 1
    BY <1>3, <2>2
  <2> QED BY <2>1, <2>2
<1> QED BY <1>3, <1>4, <1>5 DEF TrailShape, s

-----------------------------------------------------------------------------
(* How the propagator's calls change the number of levels.                 *)

LEMMA LevelCount ==
  ASSUME SBTypeOK
  PROVE  /\ Len(current_trail) \in Nat \ {0}
         /\ \A L, F : NotifyAssignment(L, F) =>
              Len(current_trail') = Len(current_trail)
         /\ NotifyNewDecisionLevel =>
              Len(current_trail') = Len(current_trail) + 1
         /\ \A b \in Nat : NotifyBacktrack(b) =>
              b + 1 < Len(current_trail) /\ Len(current_trail') = b + 1
<1>1. Len(current_trail) \in Nat \ {0}
  BY DEF SBTypeOK
<1>2. \A L, F : NotifyAssignment(L, F) => Len(current_trail') = Len(current_trail)
  BY DEF NotifyAssignment, SBTypeOK
<1>3. NotifyNewDecisionLevel => Len(current_trail') = Len(current_trail) + 1
  BY DEF NotifyNewDecisionLevel, SBTypeOK
<1>4. ASSUME NEW b \in Nat, NotifyBacktrack(b)
      PROVE  b + 1 < Len(current_trail) /\ Len(current_trail') = b + 1
  <2>1. \A i \in 1 .. (b + 1) : current_trail[i] \in SUBSET Literals(N)
    BY <1>4 DEF NotifyBacktrack, SBTypeOK
  <2> QED BY <1>4, <2>1, SubSeqProperties DEF NotifyBacktrack
<1> QED BY <1>1, <1>2, <1>3, <1>4

\* Going back and driving a literal is a notify_backtrack.
LEMMA BacktrackAndDriveStep ==
  ASSUME SBTypeOK, SolverInv, NEW b \in Nat, NEW l \in Literals(N), NEW lvl,
         BacktrackAndDrive(b, l, lvl)
  PROVE  /\ SBNext
         /\ pending' \subseteq Literals(N)
         /\ TrailShape(trail, Len(current_trail))'
<1>1. NotifyBacktrack(b) /\ trail' = Put(Backtracked(b), l, lvl)
  BY DEF BacktrackAndDrive
<1>2. b + 1 < Len(current_trail) /\ Len(current_trail') = b + 1
      /\ Len(current_trail) \in Nat
  BY <1>1, LevelCount
<1>3. TrailShape(Backtracked(b), b + 1) /\ \A a \in Kept(b) : a.lit \in Literals(N)
  BY <1>2, BacktrackShape DEF SolverInv
<1>4. TrailShape(trail', b + 1)
  BY <1>1, <1>3, PutShape
<1>5. TrailShape(trail, Len(current_trail))'
  BY <1>2, <1>4 DEF TrailShape
<1>6. pending' \subseteq Literals(N)
  BY <1>3 DEF BacktrackAndDrive
<1> QED BY <1>1, <1>5, <1>6 DEF SBNext

-----------------------------------------------------------------------------
(* One step.                                                               *)

LEMMA NextStep ==
  ASSUME SBTypeOK, SolverInv, [Next]_vars
  PROVE  [SBNext]_sbvars /\ SolverInv'
<1> USE DEF Clauses
<1>0. Len(current_trail) \in Nat \ {0} /\ TrailShape(trail, Len(current_trail))
      /\ Len(trail) = Len(current_trail)
  BY LevelCount DEF SolverInv, TrailShape
<1>1. ASSUME current_trail' = current_trail, trail' = trail
      PROVE  TrailShape(trail, Len(current_trail))'
  BY <1>0, <1>1 DEF TrailShape
<1>2. \A a \in OnTrail : a.lit \in Literals(N)
  BY <1>0 DEF OnTrail, TrailShape
<1>3. CASE Propagate
  <2>1. PICK c \in db : \E l \in c :
          LET lvl == DrivenLevel(c, l, level) IN
          /\ trail' = Put(trail, l, lvl)
          /\ IF lvl = 0 THEN NotifyAssignment({}, {l}) /\ UNCHANGED pending
                        ELSE UNCHANGED sbvars /\ pending' = pending \cup {l}
    BY <1>3 DEF Propagate
  <2>2. PICK l \in c :
          LET lvl == DrivenLevel(c, l, level) IN
          /\ trail' = Put(trail, l, lvl)
          /\ IF lvl = 0 THEN NotifyAssignment({}, {l}) /\ UNCHANGED pending
                        ELSE UNCHANGED sbvars /\ pending' = pending \cup {l}
    BY <2>1
  <2>3. l \in Literals(N)
    BY <2>2 DEF SolverInv
  <2>4. [SBNext]_sbvars /\ Len(current_trail') = Len(current_trail)
    <3>1. CASE NotifyAssignment({}, {l})
      <4>1. SBNext
        BY <2>3, <3>1 DEF SBNext
      <4> QED BY <3>1, <4>1, LevelCount
    <3>2. CASE UNCHANGED sbvars
      BY <3>2 DEF sbvars
    <3> QED BY <2>2, <3>1, <3>2
  <2>5. TrailShape(trail', Len(current_trail))
    BY <1>0, <2>2, <2>3, PutShape
  <2>6. TrailShape(trail, Len(current_trail))'
    BY <2>4, <2>5 DEF TrailShape
  <2>7. pending' \subseteq Literals(N)
    BY <2>2, <2>3 DEF SolverInv
  <2> QED BY <1>3, <2>4, <2>6, <2>7 DEF Propagate, SolverInv
<1>4. CASE PropagateConflict
  <2>1. UNCHANGED sbvars /\ trail' = trail /\ current_trail' = current_trail
    BY <1>4 DEF PropagateConflict, sbvars
  <2> QED BY <1>1, <1>4, <2>1 DEF PropagateConflict, SolverInv
<1>5. CASE PropagateDone \/ Notify
  <2>1. \E L, F \in SUBSET Literals(N) : NotifyAssignment(L, F)
    BY <1>5 DEF PropagateDone, Notify, SolverInv
  <2>2. SBNext /\ Len(current_trail') = Len(current_trail)
    BY <2>1, LevelCount DEF SBNext
  <2>3. trail' = trail /\ db' = db /\ conflict' = conflict /\ pending' = {}
    BY <1>5 DEF PropagateDone, Notify
  <2>4. TrailShape(trail, Len(current_trail))'
    BY <1>0, <2>2, <2>3 DEF TrailShape
  <2> QED BY <2>2, <2>3, <2>4 DEF SolverInv
<1>6. CASE AskClause \/ ScanColumns
  <2>1. SBNext
    BY <1>6 DEF AskClause, ScanColumns, SBNext
  <2>2. current_trail' = current_trail
    BY <1>6 DEF AskClause, ScanColumns, HasExternalClause, Scan, ScanUndefined,
       ScanSeen, ScanCanonical, ScanNoncanonical, ScanForbidden, ScanDone
  <2>3. UNCHANGED <<db, trail, pending, conflict>>
    BY <1>6 DEF AskClause, ScanColumns
  <2> QED BY <1>1, <2>1, <2>2, <2>3 DEF SolverInv
<1>7. CASE AddClause
  <2> DEFINE clause == new_clauses[Len(new_clauses)]
             rest == {l \in clause : LevelOf(l) > 0}
  <2>1. TakeClause /\ trail' = trail /\ pending' = pending
        /\ db' = db \cup {clause} /\ conflict' = rest
    BY <1>7 DEF AddClause
  <2>2. clause \in Clauses
    <3>1. new_clauses \in Seq(Clauses) /\ new_clauses # <<>>
      BY <2>1 DEF TakeClause, SBTypeOK
    <3> QED BY <3>1
  <2>3. current_trail' = current_trail
    BY <2>1 DEF TakeClause
  <2>4. SBNext
    BY <2>1 DEF SBNext
  <2>5. TrailShape(trail, Len(current_trail))'
    BY <1>1, <2>1, <2>3
  <2>6. rest \subseteq Literals(N)
    BY <2>2
  <2> HIDE DEF clause, rest
  <2> QED BY <2>1, <2>2, <2>4, <2>5, <2>6 DEF SolverInv
<1>8. CASE AddUnit
  <2>1. PICK l \in conflict : BacktrackAndDrive(0, l, 0)
    BY <1>8 DEF AddUnit
  <2>2. l \in Literals(N)
    BY DEF SolverInv
  <2> QED BY <1>8, <2>1, <2>2, BacktrackAndDriveStep DEF AddUnit, SolverInv
<1>9. CASE AddDriving
  <2>1. PICK highest \in conflict :
          LET second == Max0({LevelOf(m) : m \in conflict \ {highest}}) IN
          IF second \in 0 .. (LevelOf(highest) - 1)
          THEN BacktrackAndDrive(second, highest, second) /\ conflict' = {}
          ELSE UNCHANGED <<sbvars, trail, pending, conflict>>
    BY <1>9 DEF AddDriving
  <2> DEFINE second == Max0({LevelOf(m) : m \in conflict \ {highest}})
  <2>2. db' = db
    BY <1>9 DEF AddDriving
  <2>3. CASE second \in 0 .. (LevelOf(highest) - 1)
    <3>1. BacktrackAndDrive(second, highest, second) /\ conflict' = {}
      BY <2>1, <2>3
    <3> HIDE DEF second
    <3>2. second \in Nat /\ highest \in Literals(N)
      BY <2>3 DEF SolverInv
    <3> QED BY <2>2, <3>1, <3>2, BacktrackAndDriveStep DEF SolverInv
  <2>4. CASE UNCHANGED <<sbvars, trail, pending, conflict>>
    BY <1>1, <2>2, <2>4 DEF SolverInv, sbvars
  <2> QED BY <2>1, <2>3, <2>4
<1>10. CASE CheckModel
  <2> DEFINE model == [e \in Edges |-> True(<<e, TRUE>>)]
  <2>1. model \in Graphs(N)
    BY DEF Graphs, Edges, True
  <2>2. CheckFoundModel(model) /\ UNCHANGED <<db, trail, pending, conflict>>
    BY <1>10 DEF CheckModel
  <2> HIDE DEF model
  <2>3. SBNext /\ current_trail' = current_trail
    BY <2>1, <2>2 DEF SBNext, CheckFoundModel
  <2> QED BY <1>1, <2>2, <2>3 DEF SolverInv
<1>11. CASE NoClause \/ CheckEnds \/ AnalyzeRoot \/ FoundModel \/ Finished
  <2>1. UNCHANGED <<sbvars, db, trail, pending, conflict>>
    BY <1>11 DEF NoClause, CheckEnds, AnalyzeRoot, FoundModel, Finished, vars
  <2> QED BY <1>1, <2>1 DEF SolverInv, sbvars
<1>12. CASE AnalyzeForced
  <2>1. PICK l \in Highest : BacktrackAndDrive(ConflictLevel - 1, l,
                               DrivenLevel(conflict, l, ConflictLevel - 1))
    BY <1>12 DEF AnalyzeForced
  <2>2. ConflictLevel - 1 \in Nat /\ l \in Literals(N)
    BY <1>12 DEF AnalyzeForced, Highest, SolverInv
  <2> QED BY <1>12, <2>1, <2>2, BacktrackAndDriveStep DEF AnalyzeForced, SolverInv
<1>13. CASE AnalyzeLearned
  <2>1. PICK jump \in 0 .. (ConflictLevel - 1) :
          \E b \in jump .. (ConflictLevel - 1), a \in OnTrail :
            BacktrackAndDrive(b, Negation(a.lit), jump)
    BY <1>13 DEF AnalyzeLearned
  <2>2. PICK b \in jump .. (ConflictLevel - 1), a \in OnTrail :
          BacktrackAndDrive(b, Negation(a.lit), jump)
    BY <2>1
  <2>3. b \in Nat /\ Negation(a.lit) \in Literals(N)
    <3>1. a.lit \in Literals(N)
      BY <1>2
    <3>2. a.lit[1] \in Pairs(N) /\ (~a.lit[2]) \in BOOLEAN
      BY <3>1 DEF Literals
    <3>3. Negation(a.lit) \in Literals(N)
      BY <3>2 DEF Negation, Literals
    <3> QED BY <3>3
  <2> QED BY <1>13, <2>2, <2>3, BacktrackAndDriveStep DEF AnalyzeLearned, SolverInv
<1>14. CASE Restart
  <2>1. PICK b \in 0 .. (level - 1) :
          /\ NotifyBacktrack(b)
          /\ trail' = Backtracked(b)
          /\ pending' = {a.lit : a \in {k \in Kept(b) : k.lvl > 0}}
    BY <1>14 DEF Restart
  <2>2. b \in Nat /\ b + 1 < Len(current_trail) /\ Len(current_trail') = b + 1
    BY <2>1, LevelCount
  <2>3. TrailShape(trail', b + 1) /\ \A a \in Kept(b) : a.lit \in Literals(N)
    BY <1>0, <2>1, <2>2, BacktrackShape
  <2>4. TrailShape(trail, Len(current_trail))'
    BY <2>2, <2>3 DEF TrailShape
  <2>5. SBNext
    BY <2>1, <2>2 DEF SBNext
  <2>6. pending' \subseteq Literals(N)
    BY <2>1, <2>3
  <2>7. db' = db /\ conflict' = conflict
    BY <1>14 DEF Restart
  <2> QED BY <2>4, <2>5, <2>6, <2>7 DEF SolverInv
<1>15. CASE Decide
  <2>1. PICK order \in DecisionOrders : \E k \in DOMAIN order, phase \in BOOLEAN :
          /\ trail' = Append(trail, {[lit |-> <<order[k], phase>>, lvl |-> level + 1]})
          /\ pending' = {<<order[k], phase>>}
    BY <1>15 DEF Decide
  <2>2. PICK k \in DOMAIN order, phase \in BOOLEAN :
          /\ trail' = Append(trail, {[lit |-> <<order[k], phase>>, lvl |-> level + 1]})
          /\ pending' = {<<order[k], phase>>}
    BY <2>1
  <2>3. <<order[k], phase>> \in Literals(N)
    <3>1. order \in Seq(Edges)
      BY SearchAssumption
    <3>2. order[k] \in Edges
      BY <3>1
    <3> QED BY <3>2 DEF Literals, Edges
  <2>4. NotifyNewDecisionLevel /\ db' = db /\ conflict' = conflict
    BY <1>15 DEF Decide
  <2>5. Len(current_trail') = Len(current_trail) + 1
    BY <2>4, LevelCount
  <2>6. TrailShape(trail', Len(current_trail) + 1)
    BY <1>0, <2>2, <2>3, AppendShape
  <2>7. TrailShape(trail, Len(current_trail))'
    BY <2>5, <2>6 DEF TrailShape
  <2> QED BY <2>2, <2>3, <2>4, <2>7 DEF SBNext, SolverInv
<1>16. CASE UNCHANGED vars
  BY <1>1, <1>16 DEF vars, sbvars, SolverInv
<1> QED BY <1>3, <1>4, <1>5, <1>6, <1>7, <1>8, <1>9, <1>10, <1>11, <1>12,
           <1>13, <1>14, <1>15, <1>16 DEF Next

LEMMA InitStep == Init => SBInit /\ SolverInv
<1> SUFFICES ASSUME Init PROVE SolverInv
  BY DEF Init
<1>1. trail = <<{}>> /\ current_trail = <<{}>>
  BY DEF Init, SBInit
<1>2. TrailShape(trail, Len(current_trail))
  BY <1>1 DEF TrailShape
<1>3. db \subseteq Clauses /\ conflict \in Clauses /\ pending \subseteq Literals(N)
  BY SearchAssumption DEF Init, Clauses
<1> QED BY <1>2, <1>3 DEF SolverInv

\* The search only makes calls the interface allows: every behaviour of the
\* solver with the propagator is a behaviour of the propagator's specification.
THEOREM SearchImplementsInterface == Spec => SBSpec
<1>1. Init => SBTypeOK
  BY InitType, InitStep
<1>2. SBTypeOK /\ SolverInv /\ [Next]_vars => SBTypeOK' /\ SolverInv' /\ [SBNext]_sbvars
  BY NextStep, NextType
<1> QED BY <1>1, <1>2, InitStep, PTL DEF Spec, SBSpec

\* The clauses that block noncanonical graphs never rule out a canonical one in
\* the search: backtracking, fixed literals and a stale colsuntouched included.
THEOREM SearchSound == Spec => []NoCanonicalBlocked
BY SearchImplementsInterface, PropagatorSound, PTL

-----------------------------------------------------------------------------
(* The search itself: what it derives from the clauses it has.             *)

\* A variable has one entry on the trail, at a level where it may stand.
OneEntry(t, n) ==
  \A j, k \in 1 .. n : \A a \in t[j], b \in t[k] : a.lit[1] = b.lit[1] => j = k /\ a = b
LevelsFit(t, n) ==
  \A k \in 1 .. n : t[k] \subseteq [lit : Literals(N), lvl : 0 .. (k - 1)]
TrailOK(t, n) == OneEntry(t, n) /\ LevelsFit(t, n)

\* What is fixed follows from the clauses.
FixedFollows ==
  \A a \in OnTrail : a.lvl = 0 => \A G \in Models(db) : G[a.lit[1]] = a.lit[2]

\* A clause of the solver that is false, but for literals that are fixed.
ConflictOf(S) ==
  \E c \in db : S \subseteq c /\ Falsified(c) /\ \A m \in c \ S : LevelOf(m) = 0

ConflictsHold ==
  /\ pc \in {"analyze", "drive", "unit"} => ConflictOf(conflict)
  /\ pc = "unit" => \E l \in conflict : conflict = {l} /\ LevelOf(l) > 0
  /\ pc = "done" => Models(db) = {}

TrailInv == TrailOK(trail, Len(trail)) /\ FixedFollows /\ ConflictsHold

\* What the lemmas below assume of the state.
Sane == SBTypeOK /\ SolverInv /\ TrailOK(trail, Len(trail))

LEMMA MaxOfLevels ==
  ASSUME NEW n \in Nat, NEW S, S \subseteq 0 .. n
  PROVE  /\ Max0(S) \in 0 .. n
         /\ \A x \in S : x <= Max0(S)
<1>1. CASE S = {}
  BY <1>1 DEF Max0
<1>2. CASE S # {}
  <2> DEFINE T == {n - x : x \in S}
  <2>1. T \subseteq Nat /\ T # {}
    <3>1. PICK x \in S : TRUE
      BY <1>2
    <3>2. n - x \in T
      OBVIOUS
    <3>3. \A y \in S : y \in 0 .. n /\ n - y \in Nat
      OBVIOUS
    <3>4. T \subseteq Nat
      BY <3>3
    <3> QED BY <3>2, <3>4
  <2>2. PICK t \in T : \A u \in T : t <= u
    <3> HIDE DEF T
    <3> QED BY <2>1, LeastNat
  <2>3. PICK x \in S : t = n - x
    OBVIOUS
  <2>4. \A y \in S : x >= y
    <3> SUFFICES ASSUME NEW y \in S PROVE x >= y
      OBVIOUS
    <3>1. n - x <= n - y
      BY <2>2, <2>3
    <3> QED BY <3>1
  <2>5. Max(S) \in S /\ \A y \in S : Max(S) >= y
    BY <2>4 DEF Max
  <2> QED BY <1>2, <2>5 DEF Max0
<1> QED BY <1>1, <1>2

LEMMA TrailEntries ==
  ASSUME Sane
  PROVE  /\ Len(trail) \in Nat \ {0} /\ DOMAIN trail = 1 .. Len(trail)
         /\ Len(current_trail) = Len(trail) /\ level \in Nat
         /\ OnTrail \subseteq [lit : Literals(N), lvl : 0 .. level]
         /\ \A a, b \in OnTrail : a.lit[1] = b.lit[1] => a = b
<1>1. /\ Len(trail) \in Nat \ {0} /\ DOMAIN trail = 1 .. Len(trail)
      /\ Len(current_trail) = Len(trail)
  BY LevelCount DEF Sane, SolverInv, TrailShape
<1>2. \A a \in OnTrail : \E k \in 1 .. Len(trail) : a \in trail[k]
  BY <1>1 DEF OnTrail
<1>3. OnTrail \subseteq [lit : Literals(N), lvl : 0 .. level]
  <2>1. ASSUME NEW k \in 1 .. Len(trail)
        PROVE  trail[k] \subseteq [lit : Literals(N), lvl : 0 .. level]
    <3>1. trail[k] \subseteq [lit : Literals(N), lvl : 0 .. (k - 1)]
      BY DEF Sane, TrailOK, LevelsFit
    <3>2. 0 .. (k - 1) \subseteq 0 .. level
      BY <1>1 DEF level
    <3> QED BY <3>1, <3>2
  <2> QED BY <1>2, <2>1
<1>4. \A a, b \in OnTrail : a.lit[1] = b.lit[1] => a = b
  BY <1>2 DEF Sane, TrailOK, OneEntry
<1> QED BY <1>1, <1>3, <1>4 DEF level

LEMMA LevelIs ==
  ASSUME Sane, NEW a \in OnTrail, NEW l, a.lit[1] = l[1]
  PROVE  LevelOf(l) = a.lvl
BY TrailEntries DEF LevelOf

LEMMA NegationIs ==
  ASSUME NEW l \in Literals(N)
  PROVE  /\ Negation(l) \in Literals(N) /\ Negation(l)[1] = l[1]
         /\ l = <<l[1], l[2]>> /\ l[1] \in Edges /\ l[2] \in BOOLEAN
         /\ Negation(l)[2] = ~l[2]
         /\ \A m \in Literals(N) : m[1] = l[1] => m = l \/ m = Negation(l)
<1>1. \A m \in Literals(N) : m = <<m[1], m[2]>> /\ m[1] \in Edges /\ m[2] \in BOOLEAN
  BY DEF Literals, Edges
<1>2. Negation(l) = <<l[1], ~l[2]>> /\ (~l[2]) \in BOOLEAN
  BY DEF Negation
<1>3. Negation(l) \in Literals(N)
  BY <1>1, <1>2 DEF Literals, Edges
<1>4. ASSUME NEW m \in Literals(N), m[1] = l[1]  PROVE m = l \/ m = Negation(l)
  <2>1. m[2] = l[2] \/ m[2] = ~l[2]
    BY <1>1
  <2>2. CASE m[2] = l[2]
    BY <1>1, <1>4, <2>2
  <2>3. CASE m[2] = ~l[2]
    BY <1>1, <1>2, <1>4, <2>3
  <2> QED BY <2>1, <2>2, <2>3
<1> QED BY <1>1, <1>2, <1>3, <1>4

\* A false literal has an entry, and the level of that entry.
LEMMA FalseIs ==
  ASSUME Sane, NEW m \in Literals(N), False(m)
  PROVE  /\ LevelOf(m) \in 0 .. level
         /\ \E a \in OnTrail : /\ a.lit[1] = m[1] /\ a.lit[2] # m[2]
                               /\ a.lvl = LevelOf(m)
<1>1. PICK a \in OnTrail : a.lit = Negation(m)
  BY DEF False, TrailLits
<1>2. a.lit[1] = m[1] /\ a.lit[2] = ~m[2] /\ m[2] \in BOOLEAN
  BY <1>1, NegationIs
<1>3. LevelOf(m) = a.lvl
  BY <1>2, LevelIs
<1>4. a.lvl \in 0 .. level
  BY TrailEntries
<1> QED BY <1>2, <1>3, <1>4

LEMMA UnassignedIs ==
  ASSUME Sane, NEW l \in Literals(N), Unassigned(l)
  PROVE  \A a \in OnTrail : a.lit[1] # l[1]
<1> SUFFICES ASSUME NEW a \in OnTrail, a.lit[1] = l[1]  PROVE FALSE
  OBVIOUS
<1>1. a.lit \in Literals(N) /\ a.lit \in TrailLits
  BY TrailEntries DEF TrailLits
<1>2. a.lit = l \/ a.lit = Negation(l)
  BY <1>1, NegationIs
<1> QED BY <1>1, <1>2 DEF Unassigned, True, False

\* A fixed literal that is false is false in every model.
LEMMA FixedFalse ==
  ASSUME Sane, FixedFollows, NEW m \in Literals(N), False(m), LevelOf(m) = 0,
         NEW G \in Models(db)
  PROVE  G[m[1]] # m[2]
BY FalseIs DEF FixedFollows

\* A clause that is false but for one literal, and fixed so, gives that literal.
LEMMA LastLiteral ==
  ASSUME Sane, FixedFollows, NEW c \in db, NEW l \in c,
         \A m \in c \ {l} : False(m) /\ LevelOf(m) = 0
  PROVE  \A G \in Models(db) : G[l[1]] = l[2]
<1> SUFFICES ASSUME NEW G \in Models(db)  PROVE G[l[1]] = l[2]
  OBVIOUS
<1>1. c \subseteq Literals(N)
  BY DEF Sane, SolverInv, Clauses
<1>2. PICK m \in c : G[m[1]] = m[2]
  BY DEF Models, Satisfies
<1>3. m = l
  BY <1>1, <1>2, FixedFalse
<1> QED BY <1>2, <1>3

LEMMA NoModel ==
  ASSUME Sane, FixedFollows, NEW c \in db, \A m \in c : False(m) /\ LevelOf(m) = 0
  PROVE  Models(db) = {}
<1> SUFFICES ASSUME NEW G \in Models(db)  PROVE FALSE
  OBVIOUS
<1>1. c \subseteq Literals(N)
  BY DEF Sane, SolverInv, Clauses
<1>2. PICK m \in c : G[m[1]] = m[2]
  BY DEF Models, Satisfies
<1> QED BY <1>1, <1>2, FixedFalse

\* The level a literal is assigned at: 0 only if the rest of its clause is fixed.
LEMMA DrivenIs ==
  ASSUME NEW c, NEW l, NEW current \in Nat,
         \A m \in c \ {l} : LevelOf(m) \in 0 .. current
  PROVE  /\ DrivenLevel(c, l, current) \in 0 .. current
         /\ DrivenLevel(c, l, current) = 0 => \A m \in c \ {l} : LevelOf(m) = 0
<1> DEFINE S == {LevelOf(m) : m \in c \ {l}}
<1>1. S \subseteq 0 .. current /\ \A m \in c \ {l} : LevelOf(m) \in S
  OBVIOUS
<1>2. DrivenLevel(c, l, current) = IF chrono \/ c = {l} THEN Max0(S) ELSE current
  BY DEF DrivenLevel
<1>3. S = {} => \A m \in c \ {l} : FALSE
  OBVIOUS
<1> HIDE DEF S
<1>4. Max0(S) \in 0 .. current /\ \A x \in S : x <= Max0(S)
  BY <1>1, MaxOfLevels
<1>5. CASE chrono \/ c = {l}
  <2>1. DrivenLevel(c, l, current) = Max0(S)
    BY <1>2, <1>5
  <2> QED BY <1>1, <1>4, <2>1
<1>6. CASE ~(chrono \/ c = {l})
  <2>1. DrivenLevel(c, l, current) = current
    BY <1>2, <1>6
  <2> QED BY <2>1
<1> QED BY <1>5, <1>6

-----------------------------------------------------------------------------
(* What happens to the entries of the trail.                               *)

LEMMA PutTrail ==
  ASSUME NEW n \in Nat \ {0}, NEW t, TrailShape(t, n), TrailOK(t, n),
         NEW l \in Literals(N), NEW lvl \in 0 .. (n - 1),
         \A k \in 1 .. n : \A a \in t[k] : a.lit[1] # l[1]
  PROVE  /\ TrailOK(Put(t, l, lvl), n)
         /\ \A a : (\E k \in 1 .. n : a \in Put(t, l, lvl)[k]) <=>
                     (\E k \in 1 .. n : a \in t[k]) \/ a = [lit |-> l, lvl |-> lvl]
<1> DEFINE s == Put(t, l, lvl)
           new == [lit |-> l, lvl |-> lvl]
<1>1. s = [k \in 1 .. n |-> IF k = n THEN t[n] \cup {new} ELSE t[k]]
  BY DEF Put, TrailShape
<1>2. \A k \in 1 .. n : s[k] = IF k = n THEN t[n] \cup {new} ELSE t[k]
  BY <1>1
<1>3. n \in 1 .. n /\ new.lit = l /\ new.lvl = lvl /\ new \in [lit : Literals(N), lvl : 0 .. (n - 1)]
  OBVIOUS
<1> HIDE DEF s, new
<1>4. \A k \in 1 .. n : \A a \in s[k] : a \in t[k] \/ (k = n /\ a = new)
  BY <1>2
<1>5. OneEntry(s, n)
  <2> SUFFICES ASSUME NEW j \in 1 .. n, NEW k \in 1 .. n, NEW a \in s[j], NEW c \in s[k],
                      a.lit[1] = c.lit[1]
               PROVE  j = k /\ a = c
    BY DEF OneEntry
  <2>1. CASE a \in t[j] /\ c \in t[k]
    BY <2>1 DEF TrailOK, OneEntry
  <2>2. CASE a \in t[j] /\ k = n /\ c = new
    BY <1>3, <2>2
  <2>3. CASE j = n /\ a = new /\ c \in t[k]
    BY <1>3, <2>3
  <2> QED BY <1>4, <2>1, <2>2, <2>3
<1>6. LevelsFit(s, n)
  BY <1>2, <1>3 DEF LevelsFit, TrailOK
<1>7. \A a : (\E k \in 1 .. n : a \in s[k]) <=> (\E k \in 1 .. n : a \in t[k]) \/ a = new
  BY <1>2, <1>3
<1> QED BY <1>5, <1>6, <1>7 DEF TrailOK, s, new

\* Backtracking keeps exactly the entries whose level is not above the target.
LEMMA BacktrackTrail ==
  ASSUME Sane, NEW b \in Nat, b + 1 < Len(trail)
  PROVE  /\ TrailShape(Backtracked(b), b + 1) /\ TrailOK(Backtracked(b), b + 1)
         /\ \A a : (\E k \in 1 .. (b + 1) : a \in Backtracked(b)[k]) <=>
                     a \in OnTrail /\ a.lvl <= b
<1> DEFINE n == Len(trail)
           s == Backtracked(b)
<1>1. n \in Nat /\ DOMAIN trail = 1 .. n /\ Len(current_trail) = n
  BY TrailEntries
<1>2. TrailShape(s, b + 1)
  BY <1>1, BacktrackShape DEF Sane, SolverInv
<1>3. \A k \in 1 .. (b + 1) : s[k] = IF k = b + 1 THEN trail[k] \cup Kept(b) ELSE trail[k]
  BY DEF Backtracked
<1>4. \A a : a \in Kept(b) <=> a.lvl <= b /\ \E k \in (b + 2) .. n : a \in trail[k]
  BY DEF Kept
<1>5. \A k \in 1 .. n : trail[k] \subseteq [lit : Literals(N), lvl : 0 .. (k - 1)]
  BY DEF Sane, TrailOK, LevelsFit
<1>6. \A j, k \in 1 .. n : \A a \in trail[j], c \in trail[k] :
        a.lit[1] = c.lit[1] => j = k /\ a = c
  BY DEF Sane, TrailOK, OneEntry
<1> HIDE DEF s, n
<1>7. \A k \in 1 .. (b + 1) : k \in 1 .. n /\ k # b + 2
  BY <1>1 DEF n
<1>8. \A k \in (b + 2) .. n : k \in 1 .. n /\ k \notin 1 .. (b + 1)
  BY <1>1
<1>9. OneEntry(s, b + 1)
  <2> SUFFICES ASSUME NEW j \in 1 .. (b + 1), NEW k \in 1 .. (b + 1), NEW a \in s[j],
                      NEW c \in s[k], a.lit[1] = c.lit[1]
               PROVE  j = k /\ a = c
    BY DEF OneEntry
  <2>1. a \in trail[j] \/ (j = b + 1 /\ a \in Kept(b))
    BY <1>3
  <2>2. c \in trail[k] \/ (k = b + 1 /\ c \in Kept(b))
    BY <1>3
  <2>3. CASE a \in trail[j] /\ c \in trail[k]
    BY <1>6, <1>7, <2>3
  <2>4. CASE a \in trail[j] /\ c \in Kept(b)
    <3>1. PICK i \in (b + 2) .. n : c \in trail[i]
      BY <1>4, <2>4
    <3>2. i = j
      BY <1>6, <1>7, <1>8, <2>4, <3>1
    <3> QED BY <1>8, <3>1, <3>2
  <2>5. CASE a \in Kept(b) /\ c \in trail[k]
    <3>1. PICK i \in (b + 2) .. n : a \in trail[i]
      BY <1>4, <2>5
    <3>2. i = k
      BY <1>6, <1>7, <1>8, <2>5, <3>1
    <3> QED BY <1>8, <3>1, <3>2
  <2>6. CASE j = b + 1 /\ k = b + 1 /\ a \in Kept(b) /\ c \in Kept(b)
    <3>1. PICK i \in (b + 2) .. n : a \in trail[i]
      BY <1>4, <2>6
    <3>2. PICK h \in (b + 2) .. n : c \in trail[h]
      BY <1>4, <2>6
    <3> QED BY <1>6, <1>8, <2>6, <3>1, <3>2
  <2> QED BY <2>1, <2>2, <2>3, <2>4, <2>5, <2>6
<1>10. \A a \in Kept(b) : a \in [lit : Literals(N), lvl : 0 .. b]
  <2> SUFFICES ASSUME NEW a \in Kept(b)  PROVE a \in [lit : Literals(N), lvl : 0 .. b]
    OBVIOUS
  <2>1. PICK i \in (b + 2) .. n : a \in trail[i]
    BY <1>4
  <2>2. a \in [lit : Literals(N), lvl : 0 .. (i - 1)] /\ a.lvl <= b
    BY <1>4, <1>5, <1>8, <2>1
  <2> QED BY <2>2
<1>11. LevelsFit(s, b + 1)
  <2> SUFFICES ASSUME NEW k \in 1 .. (b + 1)
               PROVE  s[k] \subseteq [lit : Literals(N), lvl : 0 .. (k - 1)]
    BY DEF LevelsFit
  <2>1. trail[k] \subseteq [lit : Literals(N), lvl : 0 .. (k - 1)]
    BY <1>5, <1>7
  <2>2. k = b + 1 => k - 1 = b
    OBVIOUS
  <2> QED BY <1>3, <1>10, <2>1, <2>2
<1>12. ASSUME NEW a
       PROVE  (\E k \in 1 .. (b + 1) : a \in s[k]) <=> a \in OnTrail /\ a.lvl <= b
  <2>1. a \in OnTrail <=> \E k \in 1 .. n : a \in trail[k]
    BY <1>1 DEF OnTrail
  <2>2. ASSUME NEW k \in 1 .. (b + 1), a \in s[k]  PROVE a \in OnTrail /\ a.lvl <= b
    <3>1. CASE a \in trail[k]
      <4>1. a.lvl \in 0 .. (k - 1)
        BY <1>5, <1>7, <3>1
      <4> QED BY <1>7, <2>1, <3>1, <4>1
    <3>2. CASE a \in Kept(b)
      BY <1>4, <1>8, <2>1, <3>2
    <3> QED BY <1>3, <2>2, <3>1, <3>2
  <2>3. ASSUME NEW k \in 1 .. n, a \in trail[k], a.lvl <= b
        PROVE  \E i \in 1 .. (b + 1) : a \in s[i]
    <3>1. CASE k \in 1 .. (b + 1)
      BY <1>3, <2>3, <3>1
    <3>2. CASE k \in (b + 2) .. n
      <4>1. a \in Kept(b) /\ b + 1 \in 1 .. (b + 1)
        BY <1>4, <2>3, <3>2
      <4> QED BY <1>3, <4>1
    <3> QED BY <1>1, <3>1, <3>2
  <2> QED BY <2>1, <2>2, <2>3
<1> QED BY <1>2, <1>9, <1>11, <1>12 DEF TrailOK, s

\* A step that puts a literal on a trail of n levels.
LEMMA PutStep ==
  ASSUME NEW n \in Nat \ {0}, NEW t, TrailShape(t, n), TrailOK(t, n),
         NEW E, \A a : a \in E <=> \E k \in 1 .. n : a \in t[k],
         NEW l \in Literals(N), NEW lvl \in 0 .. (n - 1), \A a \in E : a.lit[1] # l[1],
         trail' = Put(t, l, lvl)
  PROVE  /\ TrailOK(trail, Len(trail))' /\ Len(trail') = n
         /\ OnTrail' = E \cup {[lit |-> l, lvl |-> lvl]}
<1> DEFINE new == [lit |-> l, lvl |-> lvl]
<1>0. \A k \in 1 .. n : \A a \in t[k] : a.lit[1] # l[1]
  OBVIOUS
<1>1. /\ TrailOK(trail', n)
      /\ \A a : (\E k \in 1 .. n : a \in trail'[k]) <=> (\E k \in 1 .. n : a \in t[k]) \/ a = new
  BY <1>0, PutTrail
<1>2. TrailShape(trail', n)
  BY PutShape
<1>3. Len(trail') = n /\ DOMAIN trail' = 1 .. n
  BY <1>2 DEF TrailShape
<1> HIDE DEF new
<1>4. OnTrail' = E \cup {new}
  <2>1. \A a : a \in OnTrail' <=> \E k \in 1 .. n : a \in trail'[k]
    BY <1>3 DEF OnTrail
  <2> QED BY <1>1, <2>1
<1>5. TrailOK(trail, Len(trail))'
  BY <1>1, <1>3 DEF TrailOK, OneEntry, LevelsFit
<1> QED BY <1>3, <1>4, <1>5 DEF new

LEMMA DriveTrail ==
  ASSUME Sane, NEW b \in Nat, NEW l \in Literals(N), NEW lvl \in 0 .. b,
         BacktrackAndDrive(b, l, lvl), \A a \in OnTrail : a.lvl <= b => a.lit[1] # l[1]
  PROVE  /\ TrailOK(trail, Len(trail))' /\ b + 1 < Len(trail) /\ Len(trail') = b + 1
         /\ OnTrail' = {a \in OnTrail : a.lvl <= b} \cup {[lit |-> l, lvl |-> lvl]}
<1>1. NotifyBacktrack(b) /\ trail' = Put(Backtracked(b), l, lvl)
  BY DEF BacktrackAndDrive
<1>2. b + 1 < Len(trail)
  BY <1>1, LevelCount, TrailEntries DEF Sane
<1> DEFINE E == {a \in OnTrail : a.lvl <= b}
<1>3. /\ TrailShape(Backtracked(b), b + 1) /\ TrailOK(Backtracked(b), b + 1)
      /\ \A a : a \in E <=> \E k \in 1 .. (b + 1) : a \in Backtracked(b)[k]
  BY <1>2, BacktrackTrail
<1>4. \A a \in E : a.lit[1] # l[1]
  OBVIOUS
<1> HIDE DEF E
<1>5. b + 1 \in Nat \ {0} /\ lvl \in 0 .. ((b + 1) - 1)
  OBVIOUS
<1>6. /\ TrailOK(trail, Len(trail))' /\ Len(trail') = b + 1
      /\ OnTrail' = E \cup {[lit |-> l, lvl |-> lvl]}
  BY <1>1, <1>3, <1>4, <1>5, PutStep
<1> QED BY <1>2, <1>6 DEF E

-----------------------------------------------------------------------------
(* The steps of the search keep TrailInv.                                  *)

LEMMA ModelsKept ==
  ASSUME db' = db  PROVE Models(db)' = Models(db)
BY DEF Models

\* A trail that changes by an entry that is fixed only if that follows.
LEMMA FixedStep ==
  ASSUME FixedFollows, db' = db, NEW new, OnTrail' \subseteq OnTrail \cup {new},
         new.lvl = 0 => \A G \in Models(db) : G[new.lit[1]] = new.lit[2]
  PROVE  FixedFollows'
BY ModelsKept DEF FixedFollows

\* A trail that stays, with the clauses there are or more.
LEMMA TrailStays ==
  ASSUME TrailOK(trail, Len(trail)), FixedFollows, trail' = trail, db \subseteq db'
  PROVE  /\ TrailOK(trail, Len(trail))' /\ FixedFollows' /\ Models(db') \subseteq Models(db)
         /\ \A S : ConflictOf(S) => ConflictOf(S)'
         /\ \A l : LevelOf(l)' = LevelOf(l) /\ (False(l)' <=> False(l))
<1>1. OnTrail' = OnTrail /\ TrailLits' = TrailLits
  BY DEF OnTrail, TrailLits
<1>2. \A l : LevelOf(l)' = LevelOf(l) /\ (False(l)' <=> False(l))
  BY <1>1 DEF LevelOf, False
<1>3. TrailOK(trail, Len(trail))'
  BY DEF TrailOK, OneEntry, LevelsFit
<1>4. Models(db') \subseteq Models(db)
  BY DEF Models
<1>5. Models(db)' = Models(db')
  BY DEF Models
<1>6. FixedFollows'
  BY <1>1, <1>4, <1>5 DEF FixedFollows
<1>7. ASSUME NEW S, ConflictOf(S)  PROVE ConflictOf(S)'
  BY <1>2, <1>7 DEF ConflictOf, Falsified
<1> QED BY <1>2, <1>3, <1>4, <1>6, <1>7

\* Backtracking and driving a literal whose variable that frees.
Drives ==
  \E b \in Nat, l \in Literals(N) : \E lvl \in 0 .. b :
    /\ BacktrackAndDrive(b, l, lvl)
    /\ \A a \in OnTrail : a.lvl <= b => a.lit[1] # l[1]

\* The literal driven must follow if that fixes it.
LEMMA DriveInv ==
  ASSUME Sane, FixedFollows, db' = db, NEW b \in Nat, NEW l \in Literals(N),
         NEW lvl \in 0 .. b, BacktrackAndDrive(b, l, lvl),
         \A a \in OnTrail : a.lvl <= b => a.lit[1] # l[1],
         lvl = 0 => \A G \in Models(db) : G[l[1]] = l[2]
  PROVE  TrailInv' /\ Drives
<1>1. /\ TrailOK(trail, Len(trail))'
      /\ OnTrail' = {a \in OnTrail : a.lvl <= b} \cup {[lit |-> l, lvl |-> lvl]}
  BY DriveTrail
<1>2. FixedFollows'
  <2> DEFINE new == [lit |-> l, lvl |-> lvl]
  <2>1. new.lvl = lvl /\ new.lit = l /\ OnTrail' \subseteq OnTrail \cup {new}
    BY <1>1
  <2> HIDE DEF new
  <2> QED BY <2>1, FixedStep
<1>3. ConflictsHold'
  BY DEF ConflictsHold, BacktrackAndDrive
<1>4. Drives
  BY DEF Drives
<1> QED BY <1>1, <1>2, <1>3, <1>4 DEF TrailInv

LEMMA PropagateInv ==
  ASSUME Sane, TrailInv, Propagate  PROVE TrailInv'
<1>1. PICK c \in db : \E l \in c :
        /\ Implied(c, l)
        /\ trail' = Put(trail, l, DrivenLevel(c, l, level))
  BY DEF Propagate
<1>2. PICK l \in c : /\ Implied(c, l)
                     /\ trail' = Put(trail, l, DrivenLevel(c, l, level))
  BY <1>1
<1> DEFINE lvl == DrivenLevel(c, l, level)
           new == [lit |-> l, lvl |-> lvl]
           n == Len(trail)
<1>3. c \subseteq Literals(N) /\ l \in Literals(N)
  BY DEF Sane, SolverInv, Clauses
<1>4. n \in Nat \ {0} /\ DOMAIN trail = 1 .. n /\ Len(current_trail) = n
      /\ level \in Nat /\ level = n - 1
  BY TrailEntries DEF level
<1>5. \A m \in c \ {l} : False(m) /\ LevelOf(m) \in 0 .. level
  BY <1>2, <1>3, FalseIs DEF Implied
<1>6. lvl \in 0 .. level /\ (lvl = 0 => \A m \in c \ {l} : LevelOf(m) = 0)
  BY <1>4, <1>5, DrivenIs
<1>7. \A a \in OnTrail : a.lit[1] # l[1]
  BY <1>2, <1>3, UnassignedIs DEF Implied
<1>8. lvl = 0 => \A G \in Models(db) : G[l[1]] = l[2]
  BY <1>5, <1>6, LastLiteral DEF TrailInv
<1> HIDE DEF lvl
<1>9. TrailOK(trail, Len(trail))' /\ OnTrail' = OnTrail \cup {new}
  <2>1. TrailShape(trail, n) /\ TrailOK(trail, n)
    BY <1>4 DEF Sane, SolverInv
  <2>2. \A a : a \in OnTrail <=> \E k \in 1 .. n : a \in trail[k]
    BY <1>4 DEF OnTrail
  <2>3. trail' = Put(trail, l, lvl) /\ lvl \in 0 .. (n - 1)
    BY <1>2, <1>4, <1>6 DEF lvl
  <2> HIDE DEF n
  <2> QED BY <1>3, <1>4, <1>7, <2>1, <2>2, <2>3, PutStep
<1>10. db' = db /\ pc' = "propagate"
  BY DEF Propagate
<1>11. FixedFollows'
  <2>1. new.lvl = lvl /\ new.lit = l
    OBVIOUS
  <2> HIDE DEF new
  <2> QED BY <1>8, <1>9, <1>10, <2>1, FixedStep DEF TrailInv
<1> QED BY <1>9, <1>10, <1>11 DEF TrailInv, ConflictsHold

LEMMA AddClauseInv ==
  ASSUME Sane, TrailInv, AddClause  PROVE TrailInv'
<1> DEFINE clause == new_clauses[Len(new_clauses)]
           rest == {l \in clause : LevelOf(l) > 0}
<1>1. /\ Falsified(clause) /\ trail' = trail /\ db' = db \cup {clause}
      /\ conflict' = rest /\ new_clauses # <<>>
      /\ pc' = CASE rest = {} -> "done"
                 [] Cardinality(rest) = 1 -> "unit"
                 [] OTHER -> IF chrono THEN "analyze" ELSE "drive"
  BY DEF AddClause, TakeClause
<1>2. clause \subseteq Literals(N)
  <2>1. new_clauses \in Seq(Clauses)
    BY DEF Sane, SBTypeOK
  <2>2. clause \in Clauses
    BY <1>1, <2>1
  <2> QED BY <2>2 DEF Clauses
<1> HIDE DEF clause
<1>3. \A m \in clause : False(m) /\ LevelOf(m) \in 0 .. level
  BY <1>1, <1>2, FalseIs DEF Falsified
<1>4. \A m \in clause \ rest : LevelOf(m) = 0
  BY <1>3, TrailEntries
<1>5. /\ TrailOK(trail, Len(trail))' /\ FixedFollows' /\ Models(db') \subseteq Models(db)
      /\ \A l : LevelOf(l)' = LevelOf(l) /\ (False(l)' <=> False(l))
  BY <1>1, TrailStays DEF TrailInv
<1>6. ConflictOf(conflict)'
  BY <1>1, <1>3, <1>4, <1>5 DEF ConflictOf, Falsified
<1>7. ASSUME rest = {}  PROVE Models(db') = {}
  <2> SUFFICES ASSUME NEW G \in Models(db')  PROVE FALSE
    OBVIOUS
  <2>1. G \in Models(db)
    BY <1>5
  <2>2. PICK m \in clause : G[m[1]] = m[2]
    BY <1>1 DEF Models, Satisfies
  <2> QED BY <1>2, <1>3, <1>4, <1>7, <2>1, <2>2, FixedFalse DEF TrailInv
<1>8. IsFiniteSet(rest)
  <2>1. IsFiniteSet(Literals(N))
    <3>1. IsFiniteSet(Vertices(N))
      BY NAssumption, FS_Interval DEF Vertices
    <3>2. IsFiniteSet(Vertices(N) \X Vertices(N))
      BY <3>1, FS_Product
    <3>3. IsFiniteSet(Pairs(N))
      BY <3>2, FS_Subset DEF Pairs
    <3>4. IsFiniteSet(BOOLEAN)
      <4>1. IsFiniteSet({}) /\ IsFiniteSet({} \cup {TRUE})
        BY FS_EmptySet, FS_AddElement
      <4>2. IsFiniteSet(({} \cup {TRUE}) \cup {FALSE})
        BY <4>1, FS_AddElement
      <4>3. ({} \cup {TRUE}) \cup {FALSE} = BOOLEAN
        OBVIOUS
      <4> QED BY <4>2, <4>3
    <3> QED BY <3>3, <3>4, FS_Product DEF Literals
  <2>2. rest \subseteq Literals(N)
    BY <1>2
  <2> QED BY <2>1, <2>2, FS_Subset
<1>9. Cardinality(rest) = 1 => \E l : rest = {l}
  BY <1>8, FS_Singleton
<1>10. rest = {} => Cardinality(rest) = 0
  BY FS_EmptySet
<1>11. pc' = "done" => rest = {}
  BY <1>1
<1>12. pc' = "unit" => Cardinality(rest) = 1
  BY <1>1
<1>13. pc' = "unit" => \E l \in conflict' : conflict' = {l} /\ LevelOf(l)' > 0
  <2> SUFFICES ASSUME pc' = "unit"
               PROVE  \E l \in conflict' : conflict' = {l} /\ LevelOf(l)' > 0
    OBVIOUS
  <2>1. PICK l : rest = {l}
    BY <1>9, <1>12
  <2>2. LevelOf(l) > 0
    BY <2>1
  <2> HIDE DEF rest
  <2> QED BY <1>1, <1>5, <2>1, <2>2
<1>14. Models(db)' = Models(db')
  BY DEF Models
<1>15. ConflictsHold'
  BY <1>6, <1>7, <1>11, <1>13, <1>14 DEF ConflictsHold
<1> QED BY <1>5, <1>15 DEF TrailInv

\* The literals of a conflict are false; driving one at level 0 needs the others
\* fixed.
LEMMA ConflictLiterals ==
  ASSUME Sane, FixedFollows, ConflictOf(conflict)
  PROVE  /\ \A m \in conflict : m \in Literals(N) /\ False(m) /\ LevelOf(m) \in 0 .. level
         /\ \A l \in conflict : (\A m \in conflict \ {l} : LevelOf(m) = 0) =>
              \A G \in Models(db) : G[l[1]] = l[2]
         /\ (\A m \in conflict : LevelOf(m) = 0) => Models(db) = {}
<1>1. PICK c \in db : /\ conflict \subseteq c /\ Falsified(c)
                      /\ \A m \in c \ conflict : LevelOf(m) = 0
  BY DEF ConflictOf
<1>2. c \subseteq Literals(N)
  BY DEF Sane, SolverInv, Clauses
<1>3. \A m \in c : False(m) /\ LevelOf(m) \in 0 .. level
  BY <1>1, <1>2, FalseIs DEF Falsified
<1>4. ASSUME NEW l \in conflict, \A m \in conflict \ {l} : LevelOf(m) = 0
      PROVE  \A G \in Models(db) : G[l[1]] = l[2]
  <2>1. l \in c /\ \A m \in c \ {l} : False(m) /\ LevelOf(m) = 0
    BY <1>1, <1>3, <1>4
  <2> QED BY <2>1, LastLiteral
<1>5. ASSUME \A m \in conflict : LevelOf(m) = 0  PROVE Models(db) = {}
  <2>1. \A m \in c : False(m) /\ LevelOf(m) = 0
    BY <1>1, <1>3, <1>5
  <2> QED BY <2>1, NoModel
<1> QED BY <1>1, <1>2, <1>3, <1>4, <1>5

\* The variable of a literal above level b is free after going back to b.
LEMMA AboveIsFree ==
  ASSUME Sane, NEW l \in Literals(N), False(l), NEW b \in Nat, LevelOf(l) > b
  PROVE  \A a \in OnTrail : a.lvl <= b => a.lit[1] # l[1]
<1> SUFFICES ASSUME NEW a \in OnTrail, a.lvl <= b, a.lit[1] = l[1]  PROVE FALSE
  OBVIOUS
<1>1. LevelOf(l) = a.lvl
  BY LevelIs
<1>2. a.lvl \in 0 .. level
  BY TrailEntries
<1> QED BY <1>1, <1>2

LEMMA AddUnitInv ==
  ASSUME Sane, TrailInv, AddUnit  PROVE TrailInv' /\ Drives
<1>1. PICK l \in conflict : BacktrackAndDrive(0, l, 0)
  BY DEF AddUnit
<1>2. conflict = {l} /\ LevelOf(l) > 0 /\ ConflictOf(conflict) /\ FixedFollows /\ db' = db
  BY DEF TrailInv, ConflictsHold, AddUnit
<1>3. l \in Literals(N) /\ False(l) /\ \A G \in Models(db) : G[l[1]] = l[2]
  BY <1>2, ConflictLiterals
<1>4. \A a \in OnTrail : a.lvl <= 0 => a.lit[1] # l[1]
  BY <1>2, <1>3, AboveIsFree
<1>5. 0 \in Nat /\ 0 \in 0 .. 0
  OBVIOUS
<1> QED BY <1>1, <1>2, <1>3, <1>4, <1>5, DriveInv

LEMMA AddDrivingInv ==
  ASSUME Sane, TrailInv, AddDriving
  PROVE  /\ TrailInv'
         /\ Drives \/ (pc' = "analyze" /\ UNCHANGED <<sbvars, trail, pending>>)
<1>1. PICK highest \in conflict :
        LET second == Max0({LevelOf(m) : m \in conflict \ {highest}}) IN
        /\ \A m \in conflict : LevelOf(m) <= LevelOf(highest)
        /\ IF second \in 0 .. (LevelOf(highest) - 1)
           THEN BacktrackAndDrive(second, highest, second) /\ conflict' = {}
           ELSE pc' = "analyze" /\ UNCHANGED <<sbvars, trail, pending, conflict>>
  BY DEF AddDriving
<1> DEFINE S == {LevelOf(m) : m \in conflict \ {highest}}
           second == Max0(S)
<1>2. db' = db /\ pc = "drive" /\ ConflictOf(conflict) /\ FixedFollows
      /\ TrailOK(trail, Len(trail))
  BY DEF AddDriving, TrailInv, ConflictsHold
<1>3. \A m \in conflict : m \in Literals(N) /\ False(m) /\ LevelOf(m) \in 0 .. level
  BY <1>2, ConflictLiterals
<1>4. CASE second \in 0 .. (LevelOf(highest) - 1)
  <2>1. BacktrackAndDrive(second, highest, second)
    BY <1>1, <1>4
  <2>2. \A m \in conflict \ {highest} : LevelOf(m) \in S
    OBVIOUS
  <2>3. S \subseteq 0 .. level
    BY <1>3
  <2> HIDE DEF S
  <2>4. \A x \in S : x <= second
    BY <2>3, TrailEntries, MaxOfLevels
  <2> HIDE DEF second
  <2>5. LevelOf(highest) \in 0 .. level /\ level \in Nat
    BY <1>3, TrailEntries
  <2>6. second \in Nat /\ LevelOf(highest) > second /\ second \in 0 .. second
    BY <1>4, <2>5
  <2>7. second = 0 => \A m \in conflict \ {highest} : LevelOf(m) = 0
    <3> SUFFICES ASSUME second = 0, NEW m \in conflict \ {highest}  PROVE LevelOf(m) = 0
      OBVIOUS
    <3>1. LevelOf(m) <= 0 /\ LevelOf(m) \in 0 .. level
      BY <1>3, <2>2, <2>4
    <3> QED BY <2>5, <3>1
  <2>8. second = 0 => \A G \in Models(db) : G[highest[1]] = highest[2]
    BY <1>2, <2>7, ConflictLiterals
  <2>9. \A a \in OnTrail : a.lvl <= second => a.lit[1] # highest[1]
    BY <1>3, <2>6, AboveIsFree
  <2> QED BY <1>2, <1>3, <2>1, <2>6, <2>8, <2>9, DriveInv
<1>5. CASE second \notin 0 .. (LevelOf(highest) - 1)
  <2>1. pc' = "analyze" /\ trail' = trail /\ conflict' = conflict
        /\ UNCHANGED <<sbvars, trail, pending>>
    BY <1>1, <1>5
  <2>2. TrailOK(trail, Len(trail))' /\ FixedFollows' /\ ConflictOf(conflict)'
    <3>1. \A T : ConflictOf(T) => ConflictOf(T)'
      BY <1>2, <2>1, TrailStays
    <3>2. ConflictOf(conflict)'
      BY <1>2, <2>1, TrailStays DEF ConflictOf, Falsified
    <3> QED BY <1>2, <2>1, <3>2, TrailStays
  <2> QED BY <2>1, <2>2 DEF TrailInv, ConflictsHold
<1> QED BY <1>4, <1>5

\* The level of a conflict bounds the levels of its literals.
LEMMA ConflictLevelIs ==
  ASSUME Sane, FixedFollows, ConflictOf(conflict)
  PROVE  /\ ConflictLevel \in 0 .. level
         /\ \A m \in conflict : LevelOf(m) <= ConflictLevel
<1> DEFINE S == {LevelOf(m) : m \in conflict}
<1>1. S \subseteq 0 .. level /\ \A m \in conflict : LevelOf(m) \in S
  BY ConflictLiterals
<1>2. ConflictLevel = Max0(S)
  BY DEF ConflictLevel
<1> HIDE DEF S
<1> QED BY <1>1, <1>2, TrailEntries, MaxOfLevels

LEMMA AnalyzeRootInv ==
  ASSUME Sane, TrailInv, AnalyzeRoot  PROVE TrailInv'
<1>1. /\ ConflictLevel = 0 /\ pc = "analyze" /\ pc' = "done" /\ trail' = trail /\ db' = db
      /\ ConflictOf(conflict) /\ FixedFollows /\ TrailOK(trail, Len(trail))
  BY DEF AnalyzeRoot, TrailInv, ConflictsHold
<1>2. \A m \in conflict : LevelOf(m) = 0
  <2> SUFFICES ASSUME NEW m \in conflict  PROVE LevelOf(m) = 0
    OBVIOUS
  <2>1. LevelOf(m) <= 0 /\ LevelOf(m) \in 0 .. level /\ level \in Nat
    BY <1>1, ConflictLevelIs, ConflictLiterals, TrailEntries
  <2> QED BY <2>1
<1>3. Models(db) = {}
  BY <1>1, <1>2, ConflictLiterals
<1>4. TrailOK(trail, Len(trail))' /\ FixedFollows' /\ Models(db)' = Models(db)
  BY <1>1, TrailStays, ModelsKept
<1> QED BY <1>1, <1>3, <1>4 DEF TrailInv, ConflictsHold

LEMMA AnalyzeForcedInv ==
  ASSUME Sane, TrailInv, AnalyzeForced  PROVE TrailInv' /\ Drives
<1>1. PICK l \in Highest :
        /\ Highest = {l}
        /\ BacktrackAndDrive(ConflictLevel - 1, l,
                             DrivenLevel(conflict, l, ConflictLevel - 1))
  BY DEF AnalyzeForced
<1> DEFINE b == ConflictLevel - 1
           lvl == DrivenLevel(conflict, l, b)
<1>2. /\ db' = db /\ ConflictOf(conflict) /\ FixedFollows /\ ConflictLevel \in 1 .. level
  BY DEF AnalyzeForced, TrailInv, ConflictsHold
<1>3. b \in Nat /\ level \in Nat /\ ConflictLevel = b + 1
  BY <1>2, TrailEntries
<1>4. \A m \in conflict : m \in Literals(N) /\ False(m) /\ LevelOf(m) \in 0 .. level
                          /\ LevelOf(m) <= ConflictLevel
  BY <1>2, ConflictLiterals, ConflictLevelIs
<1>5. l \in conflict /\ LevelOf(l) = ConflictLevel
      /\ \A m \in conflict \ {l} : LevelOf(m) # ConflictLevel
  BY <1>1 DEF Highest
<1>6. \A m \in conflict \ {l} : LevelOf(m) \in 0 .. b
  <2> SUFFICES ASSUME NEW m \in conflict \ {l}  PROVE LevelOf(m) \in 0 .. b
    OBVIOUS
  <2>1. LevelOf(m) \in 0 .. level /\ LevelOf(m) <= b + 1 /\ LevelOf(m) # b + 1
    BY <1>3, <1>4, <1>5
  <2> QED BY <1>3, <2>1
<1>7. BacktrackAndDrive(b, l, lvl)
  BY <1>1
<1>8. LevelOf(l) > b
  BY <1>3, <1>5
<1> HIDE DEF b
<1>9. lvl \in 0 .. b /\ (lvl = 0 => \A m \in conflict \ {l} : LevelOf(m) = 0)
  BY <1>3, <1>6, DrivenIs
<1> HIDE DEF lvl
<1>10. lvl = 0 => \A G \in Models(db) : G[l[1]] = l[2]
  BY <1>2, <1>5, <1>9, ConflictLiterals
<1>11. \A a \in OnTrail : a.lvl <= b => a.lit[1] # l[1]
  BY <1>3, <1>4, <1>5, <1>8, AboveIsFree
<1> QED BY <1>2, <1>3, <1>4, <1>5, <1>7, <1>9, <1>10, <1>11, DriveInv

LEMMA AnalyzeLearnedInv ==
  ASSUME Sane, TrailInv, AnalyzeLearned  PROVE TrailInv' /\ Drives
<1>1. PICK jump \in 0 .. (ConflictLevel - 1) :
        \E b \in jump .. (ConflictLevel - 1), a \in OnTrail :
          /\ a.lvl = ConflictLevel
          /\ \A G \in ModelsUpTo(jump) : G[a.lit[1]] # a.lit[2]
          /\ BacktrackAndDrive(b, Negation(a.lit), jump)
  BY DEF AnalyzeLearned
<1>2. PICK b \in jump .. (ConflictLevel - 1), a \in OnTrail :
        /\ a.lvl = ConflictLevel
        /\ \A G \in ModelsUpTo(jump) : G[a.lit[1]] # a.lit[2]
        /\ BacktrackAndDrive(b, Negation(a.lit), jump)
  BY <1>1
<1> DEFINE l == Negation(a.lit)
<1>3. db' = db /\ FixedFollows /\ ConflictLevel \in 1 .. level /\ level \in Nat
  BY TrailEntries DEF AnalyzeLearned, TrailInv
<1>4. jump \in 0 .. b /\ b \in Nat /\ a.lvl > b
  BY <1>2, <1>3
<1>5. /\ a.lit \in Literals(N) /\ l \in Literals(N) /\ l[1] = a.lit[1]
      /\ a.lit[2] \in BOOLEAN /\ l[2] = ~a.lit[2] /\ a.lit[1] \in Edges
  BY TrailEntries, NegationIs
<1>6. \A c \in OnTrail : c.lvl <= b => c.lit[1] # l[1]
  <2> SUFFICES ASSUME NEW c \in OnTrail, c.lvl <= b, c.lit[1] = l[1]  PROVE FALSE
    OBVIOUS
  <2>1. c = a /\ a.lvl \in Nat
    BY <1>5, TrailEntries
  <2> QED BY <1>4, <2>1
<1>7. ASSUME jump = 0  PROVE \A G \in Models(db) : G[l[1]] = l[2]
  <2> SUFFICES ASSUME NEW G \in Models(db)  PROVE G[l[1]] = l[2]
    OBVIOUS
  <2>1. G \in ModelsUpTo(jump)
    <3>1. \A c \in OnTrail : c.lvl <= jump => c.lvl = 0
      BY <1>7, TrailEntries
    <3> QED BY <1>3, <3>1 DEF ModelsUpTo, FixedFollows
  <2>2. G[a.lit[1]] # a.lit[2]
    BY <1>2, <2>1
  <2>3. G[a.lit[1]] \in BOOLEAN
    BY <1>5 DEF Models, Graphs, Edges
  <2>4. G[a.lit[1]] = ~a.lit[2]
    BY <1>5, <2>2, <2>3, Zenon
  <2> QED BY <1>5, <2>4
<1>8. BacktrackAndDrive(b, l, jump)
  BY <1>2
<1> HIDE DEF l
<1> QED BY <1>3, <1>4, <1>5, <1>6, <1>7, <1>8, DriveInv

LEMMA RestartInv ==
  ASSUME Sane, TrailInv, Restart  PROVE TrailInv'
<1>1. PICK b \in 0 .. (level - 1) : NotifyBacktrack(b) /\ trail' = Backtracked(b)
  BY DEF Restart
<1>2. db' = db /\ pc' = "notify" /\ FixedFollows
  BY DEF Restart, TrailInv
<1>3. b \in Nat /\ b + 1 < Len(trail)
  BY <1>1, LevelCount, TrailEntries DEF Sane
<1>4. /\ TrailShape(trail', b + 1) /\ TrailOK(trail', b + 1)
      /\ \A a : (\E k \in 1 .. (b + 1) : a \in trail'[k]) <=> a \in OnTrail /\ a.lvl <= b
  BY <1>1, <1>3, BacktrackTrail
<1>5. Len(trail') = b + 1 /\ DOMAIN trail' = 1 .. (b + 1)
  BY <1>4 DEF TrailShape
<1>6. OnTrail' \subseteq OnTrail
  BY <1>4, <1>5 DEF OnTrail
<1>7. TrailOK(trail, Len(trail))'
  BY <1>4, <1>5 DEF TrailOK, OneEntry, LevelsFit
<1>8. FixedFollows'
  BY <1>2, <1>6, ModelsKept DEF FixedFollows
<1> QED BY <1>2, <1>7, <1>8 DEF TrailInv, ConflictsHold

\* A trail with one more level, for a decision.
Entries(n) == [lit : Literals(N), lvl : 0 .. n]
Deeper(t, new) == Append(t, {new})
LEMMA AppendTrail ==
  ASSUME NEW n \in Nat, NEW t, TrailShape(t, n), TrailOK(t, n),
         NEW new \in Entries(n),
         \A k \in 1 .. n : \A a \in t[k] : a.lit[1] # new.lit[1]
  PROVE  /\ TrailOK(Deeper(t, new), n + 1)
         /\ \A k \in 1 .. n : Deeper(t, new)[k] = t[k]
         /\ Deeper(t, new)[n + 1] = {new}
<1> DEFINE s == Append(t, {new})
           R == {t[k] : k \in 1 .. n}
<1>1. t \in Seq(R) /\ Len(t) = n
  BY FunctionIsSeq DEF TrailShape
<1>2. t \in Seq(R \cup {{new}})
  BY <1>1, SeqMonotonic
<1>3. /\ \A k \in 1 .. n : s[k] = t[k]
      /\ s[n + 1] = {new}
  <2> HIDE DEF R
  <2> QED BY <1>1, <1>2, AppendProperties
<1>4. new \in [lit : Literals(N), lvl : 0 .. ((n + 1) - 1)]
  BY DEF Entries
<1> HIDE DEF s, R
<1>5. \A k \in 1 .. (n + 1) : k \in 1 .. n \/ k = n + 1
  OBVIOUS
<1>6. OneEntry(s, n + 1)
  <2> SUFFICES ASSUME NEW j \in 1 .. (n + 1), NEW k \in 1 .. (n + 1), NEW a \in s[j],
                      NEW c \in s[k], a.lit[1] = c.lit[1]
               PROVE  j = k /\ a = c
    BY DEF OneEntry
  <2>1. CASE j \in 1 .. n /\ k \in 1 .. n
    BY <1>3, <2>1 DEF TrailOK, OneEntry
  <2>2. CASE j = n + 1 /\ k = n + 1
    BY <1>3, <2>2
  <2>3. CASE j \in 1 .. n /\ k = n + 1
    BY <1>3, <1>4, <2>3
  <2>4. CASE j = n + 1 /\ k \in 1 .. n
    BY <1>3, <1>4, <2>4
  <2> QED BY <1>5, <2>1, <2>2, <2>3, <2>4
<1>7. LevelsFit(s, n + 1)
  <2> SUFFICES ASSUME NEW k \in 1 .. (n + 1)
               PROVE  s[k] \subseteq [lit : Literals(N), lvl : 0 .. (k - 1)]
    BY DEF LevelsFit
  <2>1. CASE k \in 1 .. n
    BY <1>3, <2>1 DEF TrailOK, LevelsFit
  <2>2. CASE k = n + 1
    BY <1>3, <1>4, <2>2
  <2> QED BY <1>5, <2>1, <2>2
<1>8. s = Deeper(t, new)
  BY DEF s, Deeper
<1> QED BY <1>3, <1>6, <1>7, <1>8 DEF TrailOK

\* What a decision does to the trail.
LEMMA DecideTrail ==
  ASSUME Sane, Decide
  PROVE  \E l \in Literals(N) :
           LET new == [lit |-> l, lvl |-> level + 1] IN
           /\ TrailOK(trail, Len(trail))' /\ Len(trail') = Len(trail) + 1
           /\ OnTrail' = OnTrail \cup {new} /\ pending' = {l}
           /\ \A k \in 1 .. Len(trail) : trail'[k] = trail[k]
           /\ trail'[Len(trail) + 1] = {new}
           /\ \A a \in OnTrail : a.lit[1] # l[1]
<1>1. PICK order \in DecisionOrders : \E k \in DOMAIN order, phase \in BOOLEAN :
        /\ Unassigned(<<order[k], phase>>)
        /\ trail' = Append(trail, {[lit |-> <<order[k], phase>>, lvl |-> level + 1]})
        /\ pending' = {<<order[k], phase>>}
  BY DEF Decide
<1>2. PICK k \in DOMAIN order, phase \in BOOLEAN :
        /\ Unassigned(<<order[k], phase>>)
        /\ trail' = Append(trail, {[lit |-> <<order[k], phase>>, lvl |-> level + 1]})
        /\ pending' = {<<order[k], phase>>}
  BY <1>1
<1> DEFINE l == <<order[k], phase>>
           n == Len(trail)
<1>3. l \in Literals(N)
  <2>1. order \in Seq(Edges)
    BY SearchAssumption
  <2>2. order[k] \in Edges
    BY <2>1
  <2> QED BY <2>2 DEF Literals, Edges
<1>4. /\ n \in Nat \ {0} /\ DOMAIN trail = 1 .. n /\ level + 1 = n
      /\ TrailShape(trail, n) /\ TrailOK(trail, n)
  BY TrailEntries DEF level, Sane, SolverInv
<1> DEFINE new == [lit |-> l, lvl |-> n]
<1>5. trail' = Append(trail, {new}) /\ Unassigned(l) /\ pending' = {l}
  BY <1>2, <1>4
<1> HIDE DEF l, n
<1>6. \A a \in OnTrail : a.lit[1] # l[1]
  BY <1>3, <1>5, UnassignedIs
<1>7. \A i \in 1 .. n : \A a \in trail[i] : a.lit[1] # l[1]
  BY <1>4, <1>6 DEF OnTrail
<1>8. /\ TrailOK(trail', n + 1)
      /\ \A i \in 1 .. n : trail'[i] = trail[i]
      /\ trail'[n + 1] = {new}
  <2>1. new \in Entries(n) /\ new.lit = l
    BY <1>3, <1>4 DEF Entries
  <2>2. n \in Nat /\ TrailShape(trail, n) /\ TrailOK(trail, n)
    BY <1>4
  <2>3. trail' = Deeper(trail, new)
    BY <1>5 DEF Deeper
  <2> HIDE DEF new
  <2>4. \A i \in 1 .. n : \A a \in trail[i] : a.lit[1] # new.lit[1]
    BY <1>7, <2>1
  <2>5. /\ TrailOK(Deeper(trail, new), n + 1)
        /\ \A i \in 1 .. n : Deeper(trail, new)[i] = trail[i]
        /\ Deeper(trail, new)[n + 1] = {new}
    BY <2>1, <2>2, <2>4, AppendTrail
  <2> QED BY <2>3, <2>5
<1>9. TrailShape(trail', n + 1)
  BY <1>3, <1>4, <1>5, AppendShape
<1>10. Len(trail') = n + 1 /\ DOMAIN trail' = 1 .. (n + 1)
  BY <1>9 DEF TrailShape
<1> HIDE DEF new
<1>11. OnTrail' = OnTrail \cup {new}
  <2>1. \A a : a \in OnTrail' <=> \E i \in 1 .. (n + 1) : a \in trail'[i]
    BY <1>10 DEF OnTrail
  <2>2. \A a : a \in OnTrail <=> \E i \in 1 .. n : a \in trail[i]
    BY <1>4 DEF OnTrail
  <2>3. \A i : i \in 1 .. (n + 1) <=> i \in 1 .. n \/ i = n + 1
    BY <1>4
  <2> QED BY <1>8, <2>1, <2>2, <2>3
<1>12. TrailOK(trail, Len(trail))'
  BY <1>8, <1>10 DEF TrailOK, OneEntry, LevelsFit
<1> QED BY <1>3, <1>4, <1>5, <1>6, <1>8, <1>10, <1>11, <1>12 DEF n, new

LEMMA DecideInv ==
  ASSUME Sane, TrailInv, Decide  PROVE TrailInv'
<1>1. PICK l \in Literals(N) :
        LET new == [lit |-> l, lvl |-> level + 1] IN
        /\ TrailOK(trail, Len(trail))' /\ OnTrail' = OnTrail \cup {new}
  BY DecideTrail
<1> DEFINE new == [lit |-> l, lvl |-> level + 1]
<1>2. db' = db /\ pc' = "propagate" /\ FixedFollows
  BY DEF Decide, TrailInv
<1>3. new.lvl # 0 /\ OnTrail' \subseteq OnTrail \cup {new}
  BY <1>1, TrailEntries
<1> HIDE DEF new
<1>4. FixedFollows'
  BY <1>2, <1>3, FixedStep
<1> QED BY <1>1, <1>2, <1>4 DEF TrailInv, ConflictsHold

\* The steps that leave the trail and the clauses alone.
LEMMA QuietInv ==
  ASSUME Sane, TrailInv, trail' = trail, db' = db,
         \/ pc' \notin {"analyze", "drive", "unit", "done"}
         \/ pc' = pc /\ conflict' = conflict
  PROVE  TrailInv'
<1>1. /\ TrailOK(trail, Len(trail))' /\ FixedFollows'
      /\ \A S : ConflictOf(S) => ConflictOf(S)'
      /\ \A l : LevelOf(l)' = LevelOf(l)
  BY TrailStays DEF TrailInv
<1>2. Models(db)' = Models(db)
  BY ModelsKept
<1>3. conflict' = conflict => (ConflictOf(conflict) => ConflictOf(conflict)')
  <2>1. \A l : (False(l)' <=> False(l)) /\ LevelOf(l)' = LevelOf(l)
    BY TrailStays DEF TrailInv
  <2> QED BY <2>1 DEF ConflictOf, Falsified
<1>4. ConflictsHold'
  BY <1>1, <1>2, <1>3 DEF TrailInv, ConflictsHold
<1> QED BY <1>1, <1>4 DEF TrailInv

LEMMA PropagateConflictInv ==
  ASSUME Sane, TrailInv, PropagateConflict  PROVE TrailInv'
<1>1. PICK c \in db : Falsified(c) /\ conflict' = c
  BY DEF PropagateConflict
<1>2. trail' = trail /\ db' = db /\ pc' = "analyze"
  BY DEF PropagateConflict
<1>3. /\ TrailOK(trail, Len(trail))' /\ FixedFollows'
      /\ \A l : False(l)' <=> False(l)
  BY <1>2, TrailStays DEF TrailInv
<1>4. ConflictOf(conflict)'
  BY <1>1, <1>2, <1>3 DEF ConflictOf, Falsified
<1> QED BY <1>2, <1>3, <1>4 DEF TrailInv, ConflictsHold

LEMMA TrailNext ==
  ASSUME SBTypeOK, SolverInv, TrailInv, [Next]_vars  PROVE TrailInv'
<1>1. Sane
  BY DEF Sane, TrailInv
<1>2. CASE PropagateDone \/ Notify \/ AskClause \/ ScanColumns \/ NoClause \/ CheckModel
           \/ CheckEnds \/ FoundModel
  <2>1. trail' = trail /\ db' = db /\ pc' \notin {"analyze", "drive", "unit", "done"}
    BY <1>2 DEF PropagateDone, Notify, AskClause, ScanColumns, NoClause, CheckModel,
       CheckEnds, FoundModel
  <2> QED BY <1>1, <2>1, QuietInv
<1>3. CASE Finished \/ UNCHANGED vars
  <2>1. trail' = trail /\ db' = db /\ pc' = pc /\ conflict' = conflict
    BY <1>3 DEF Finished, vars
  <2> QED BY <1>1, <2>1, QuietInv
<1> QED BY <1>1, <1>2, <1>3, PropagateInv, PropagateConflictInv, AddClauseInv, AddUnitInv,
           AddDrivingInv, AnalyzeRootInv, AnalyzeForcedInv, AnalyzeLearnedInv, RestartInv,
           DecideInv DEF Next

LEMMA TrailInit == Init => TrailInv
<1> SUFFICES ASSUME Init PROVE TrailInv
  OBVIOUS
<1>1. trail = <<{}>> /\ pc = "propagate"
  BY DEF Init
<1>2. OnTrail = {} /\ Len(trail) = 1 /\ trail[1] = {}
  BY <1>1 DEF OnTrail
<1> QED BY <1>1, <1>2 DEF TrailInv, TrailOK, OneEntry, LevelsFit, FixedFollows, ConflictsHold


-----------------------------------------------------------------------------
(* Exhaustive: no clause the solver has, or is offered, rules out a         *)
(* canonical solution that has not been found yet.                         *)

\* The solutions that are still to be found satisfy every clause.
Wanted == {G \in CanonicalOfOrderN :
             (\A c \in cnf : Satisfies(G, c)) /\ ~Embeds(G) /\ G \notin found}
Offered == {new_clauses[k] : k \in DOMAIN new_clauses}
WantedLeft == \A G \in Wanted : \A c \in db \cup Offered : Satisfies(G, c)

\* The step adds only clauses that the solutions still wanted satisfy.
LEMMA WantedStep ==
  ASSUME WantedLeft, cnf' = cnf, found \subseteq found',
         \A c \in db' \cup Offered' : \/ c \in db \cup Offered
           \/ \A G \in Wanted : G \notin found' => Satisfies(G, c)
  PROVE  WantedLeft'
<1>1. Wanted' \subseteq Wanted /\ \A G \in Wanted' : G \notin found'
  BY DEF Wanted, CanonicalOfOrderN, CanonicalGraphs, Canonical, Embeds
<1> QED BY <1>1 DEF WantedLeft

LEMMA OfferedAfter ==
  ASSUME SBTypeOK
  PROVE  /\ new_clauses' = new_clauses => Offered' = Offered
         /\ \A c : new_clauses' = Append(new_clauses, c) => Offered' \subseteq Offered \cup {c}
         /\ TakeClause => /\ Offered' \subseteq Offered
                          /\ new_clauses[Len(new_clauses)] \in Offered
<1>1. new_clauses \in Seq(Clauses) /\ Len(new_clauses) \in Nat
      /\ DOMAIN new_clauses = 1 .. Len(new_clauses)
  BY DEF SBTypeOK
<1>2. new_clauses' = new_clauses => Offered' = Offered
  BY DEF Offered
<1>3. ASSUME NEW c, new_clauses' = Append(new_clauses, c)
      PROVE  Offered' \subseteq Offered \cup {c}
  <2>1. new_clauses \in Seq(Clauses \cup {c})
    BY <1>1, SeqMonotonic
  <2>2. /\ Len(new_clauses') = Len(new_clauses) + 1
        /\ DOMAIN new_clauses' = 1 .. (Len(new_clauses) + 1)
        /\ \A k \in 1 .. Len(new_clauses) : new_clauses'[k] = new_clauses[k]
        /\ new_clauses'[Len(new_clauses) + 1] = c
    <3>1. /\ new_clauses' \in Seq(Clauses \cup {c})
          /\ Len(new_clauses') = Len(new_clauses) + 1
          /\ \A k \in 1 .. Len(new_clauses) : new_clauses'[k] = new_clauses[k]
          /\ new_clauses'[Len(new_clauses) + 1] = c
      BY <1>3, <2>1, AppendProperties
    <3> QED BY <3>1, LenProperties
  <2>3. \A k \in 1 .. (Len(new_clauses) + 1) :
          k \in 1 .. Len(new_clauses) \/ k = Len(new_clauses) + 1
    BY <1>1
  <2> QED BY <1>1, <2>2, <2>3 DEF Offered
<1>4. ASSUME TakeClause
      PROVE  Offered' \subseteq Offered /\ new_clauses[Len(new_clauses)] \in Offered
  <2>1. /\ new_clauses # <<>>
        /\ new_clauses' = SubSeq(new_clauses, 1, Len(new_clauses) - 1)
    BY <1>4 DEF TakeClause
  <2>2. Len(new_clauses) \in DOMAIN new_clauses
    BY <1>1, <2>1
  <2>3. /\ DOMAIN new_clauses' = 1 .. (Len(new_clauses) - 1)
        /\ \A k \in 1 .. (Len(new_clauses) - 1) : new_clauses'[k] = new_clauses[k]
    BY <1>1, <2>1
  <2> QED BY <1>1, <2>2, <2>3 DEF Offered
<1> QED BY <1>2, <1>3, <1>4

\* A clause that forbids a copy of a subgraph.
LEMMA CopyClause ==
  ASSUME NEW G \in Graphs(N), ~Embeds(G), NEW g \in Forbidden, NEW copy \in Copies(g)
  PROVE  Satisfies(G, {<<e, FALSE>> : e \in copy})
<1>1. PICK p \in VertexOrders : copy = {Image(p, e) : e \in g}
  BY DEF Copies
<1>2. \A e \in g : Image(p, e) \in Pairs(N)
  <2>1. p \in Relabellings(N - 1, N) /\ N \in Nat /\ N - 1 \in 0 .. (N - 1) /\ (N - 1) + 1 = N
    BY NAssumption DEF VertexOrders
  <2>2. g \subseteq Pairs((N - 1) + 1)
    BY <2>1, ForbiddenAssumption DEF Edges
  <2> QED BY <2>1, <2>2, ImageInPairs
<1>3. PICK e \in g : ~G[Image(p, e)]
  BY <1>1 DEF Embeds
<1>4. G[Image(p, e)] = FALSE /\ Image(p, e) \in copy
  BY <1>1, <1>2, <1>3 DEF Graphs
<1> DEFINE c == {<<f, FALSE>> : f \in copy}
<1>5. <<Image(p, e), FALSE>> \in c
  BY <1>4
<1> HIDE DEF c
<1>6. Satisfies(G, c)
  BY <1>4, <1>5 DEF Satisfies
<1> QED BY <1>6 DEF c

LEMMA ScanWanted ==
  ASSUME Sane, WantedLeft, ScanColumns  PROVE WantedLeft'
<1>1. db' = db /\ cnf' = cnf /\ found' = found /\ Scan
  BY DEF ScanColumns, inputs
<1>2. CASE new_clauses' = new_clauses
  BY <1>1, <1>2, OfferedAfter, WantedStep DEF Sane
<1>3. ASSUME NEW c, new_clauses' = Append(new_clauses, c),
             \A G \in Wanted : Satisfies(G, c)
      PROVE  WantedLeft'
  <2>1. Offered' \subseteq Offered \cup {c}
    BY <1>3, OfferedAfter DEF Sane
  <2> QED BY <1>1, <1>3, <2>1, WantedStep
<1>4. CASE ScanUndefined \/ ScanSeen \/ ScanCanonical \/ ScanDone
  <2>1. new_clauses' = new_clauses
    BY <1>4 DEF ScanUndefined, ScanSeen, ScanCanonical, ScanDone
  <2> QED BY <1>2, <2>1
<1>5. ASSUME col \in Columns, NEW w \in Witnesses(col), ScanNoncanonical(w)
      PROVE  WantedLeft'
  <2> DEFINE c == BlockingClause(Subgraph(col + 1), w.p, w.e)
  <2>1. new_clauses' = Append(new_clauses, c)
    BY <1>5 DEF ScanNoncanonical
  <2>2. \A G \in CanonicalOfOrderN : Satisfies(G, c)
    BY <1>5, NewClauseSound DEF Sane
  <2> HIDE DEF c
  <2> QED BY <1>3, <2>1, <2>2 DEF Wanted
<1>6. CASE ScanForbidden
  <2>1. PICK g \in Forbidden : \E copy \in Copies(g) :
               new_clauses' = Append(new_clauses, {<<e, FALSE>> : e \in copy})
    BY <1>6 DEF ScanForbidden
  <2>2. PICK copy \in Copies(g) :
               new_clauses' = Append(new_clauses, {<<e, FALSE>> : e \in copy})
    BY <2>1
  <2>3. \A G \in Wanted : G \in Graphs(N) /\ ~Embeds(G)
    BY DEF Wanted, CanonicalOfOrderN, CanonicalGraphs
  <2>4. \A G \in Wanted : Satisfies(G, {<<e, FALSE>> : e \in copy})
    BY <2>3, CopyClause
  <2> QED BY <1>3, <2>2, <2>4
<1> QED BY <1>1, <1>4, <1>5, <1>6 DEF Scan

LEMMA CheckModelWanted ==
  ASSUME Sane, WantedLeft, CheckModel  PROVE WantedLeft'
<1> DEFINE model == [e \in Edges |-> True(<<e, TRUE>>)]
           clause == {<<e, ~model[e]>> : e \in Edges}
<1>1. db' = db /\ cnf' = cnf /\ found' = found \cup {model}
      /\ new_clauses' = Append(new_clauses, clause)
  BY DEF CheckModel, CheckFoundModel, inputs
<1>2. model \in [Edges -> BOOLEAN]
  BY DEF True
<1>3. ASSUME NEW G \in Wanted, G \notin found'  PROVE Satisfies(G, clause)
  <2> HIDE DEF model
  <2>1. G \in [Edges -> BOOLEAN] /\ G # model
    BY <1>1, <1>3 DEF Wanted, CanonicalOfOrderN, CanonicalGraphs, Graphs, Edges
  <2>2. PICK e \in Edges : G[e] # model[e]
    BY <1>2, <2>1
  <2>3. G[e] = ~model[e]
    BY <1>2, <2>1, <2>2
  <2>4. <<e, ~model[e]>> \in clause
    OBVIOUS
  <2> HIDE DEF clause
  <2> QED BY <2>3, <2>4 DEF Satisfies
<1> HIDE DEF clause, model
<1>4. Offered' \subseteq Offered \cup {clause}
  BY <1>1, OfferedAfter DEF Sane
<1> QED BY <1>1, <1>3, <1>4, WantedStep

LEMMA WantedNext ==
  ASSUME Sane, WantedLeft, [Next]_vars  PROVE WantedLeft'
<1>1. CASE db' = db /\ cnf' = cnf /\ found' = found /\ new_clauses' = new_clauses
  <2>1. db' \cup Offered' \subseteq db \cup Offered
    BY <1>1, OfferedAfter DEF Sane
  <2> QED BY <1>1, <2>1, WantedStep
<1>2. CASE AddClause
  <2>1. /\ TakeClause /\ cnf' = cnf /\ found' = found
        /\ db' = db \cup {new_clauses[Len(new_clauses)]}
    BY <1>2 DEF AddClause, inputs
  <2>2. db' \cup Offered' \subseteq db \cup Offered
    BY <2>1, OfferedAfter DEF Sane
  <2> QED BY <2>1, <2>2, WantedStep
<1>3. CASE PropagateConflict \/ NoClause \/ CheckEnds \/ AnalyzeRoot \/ FoundModel
           \/ Finished \/ UNCHANGED vars
  BY <1>1, <1>3 DEF PropagateConflict, NoClause, CheckEnds, AnalyzeRoot, FoundModel,
     Finished, vars, sbvars, inputs
<1>4. CASE Propagate
  <2>1. new_clauses' = new_clauses
    BY <1>4 DEF Propagate, NotifyAssignment, sbvars
  <2> QED BY <1>1, <1>4, <2>1 DEF Propagate, inputs
<1>5. CASE PropagateDone \/ Notify
  BY <1>1, <1>5 DEF PropagateDone, Notify, NotifyAssignment, inputs
<1>6. CASE AskClause \/ Decide
  BY <1>1, <1>6 DEF AskClause, Decide, HasExternalClause, NotifyNewDecisionLevel, inputs
<1>7. CASE AddUnit \/ AddDriving
  <2>1. new_clauses' = new_clauses
    BY <1>7 DEF AddUnit, AddDriving, BacktrackAndDrive, NotifyBacktrack, sbvars
  <2> QED BY <1>1, <1>7, <2>1 DEF AddUnit, AddDriving, inputs
<1>8. CASE AnalyzeForced \/ AnalyzeLearned \/ Restart
  <2>1. new_clauses' = new_clauses
    BY <1>8 DEF AnalyzeForced, AnalyzeLearned, Restart, BacktrackAndDrive, NotifyBacktrack
  <2> QED BY <1>1, <1>8, <2>1 DEF AnalyzeForced, AnalyzeLearned, Restart, inputs
<1> QED BY <1>2, <1>3, <1>4, <1>5, <1>6, <1>7, <1>8, ScanWanted, CheckModelWanted DEF Next

LEMMA WantedInit == Init => WantedLeft
<1> SUFFICES ASSUME Init PROVE WantedLeft
  OBVIOUS
<1>1. db = cnf /\ new_clauses = <<>>
  BY DEF Init, SBInit
<1>2. Offered = {}
  BY <1>1 DEF Offered
<1> QED BY <1>1, <1>2 DEF WantedLeft, Wanted

\* The invariant of the search: the trail has one entry per variable and fixes
\* only what follows, a conflict is a false clause, no wanted solution is lost.
SearchInv == SBTypeOK /\ SolverInv /\ TrailInv /\ WantedLeft

\* Every step of the solver, of its glue code and of the propagator keeps it.
THEOREM SearchKeepsInvariant == Spec => []SearchInv
<1>1. Init => SearchInv
  BY InitStep, InitType, TrailInit, WantedInit DEF SearchInv
<1>2. SearchInv /\ [Next]_vars => SearchInv'
  <2> SUFFICES ASSUME SearchInv, [Next]_vars PROVE SearchInv'
    OBVIOUS
  <2>1. Sane
    BY DEF SearchInv, Sane, TrailInv
  <2> QED BY <2>1, NextStep, NextType, TrailNext, WantedNext DEF SearchInv
<1> QED BY <1>1, <1>2, PTL DEF Spec

\* When the search ends every canonical solution has been found: none of the
\* clauses rules one out that has not, and then the clauses have no model.
THEOREM SearchExhaustive == Spec => []Exhaustive
<1>1. SearchInv => Exhaustive
  <2> SUFFICES ASSUME SearchInv, pc = "done", NEW G \in CanonicalOfOrderN,
                      \A c \in cnf : Satisfies(G, c), ~Embeds(G), G \notin found
               PROVE  FALSE
    BY DEF Exhaustive
  <2>1. G \in Wanted /\ G \in Graphs(N)
    BY DEF Wanted, CanonicalOfOrderN, CanonicalGraphs
  <2>2. G \in Models(db)
    BY <2>1 DEF SearchInv, WantedLeft, Models
  <2> QED BY <2>2 DEF SearchInv, TrailInv, ConflictsHold
<1> QED BY <1>1, SearchKeepsInvariant, PTL


-----------------------------------------------------------------------------
(* PropagatorMirrorsTrail: the propagator's copy of the trail, up to what   *)
(* is still to be announced.                                               *)

Announced(a) == a.lit \notin pending
ShowsTrail ==
  \A k \in 1 .. Len(trail) : \A a \in trail[k] : Announced(a) =>
    /\ assign[a.lit[1]] = Sign(a.lit[2])
    /\ IF a.lvl = 0 THEN fixed[a.lit[1]] ELSE a.lit \in current_trail[k]
AssignBacked ==
  \A e \in Edges : assign[e] # l_Undef => \E a \in OnTrail : a.lit[1] = e /\ Announced(a)
FixedBacked ==
  \A e \in Edges : fixed[e] =>
    \E a \in OnTrail : a.lit[1] = e /\ a.lvl = 0 /\ Announced(a)
LevelsBacked ==
  \A k \in 1 .. Len(trail) : \A l \in current_trail[k] :
    \E a \in trail[k] : a.lit = l /\ a.lvl > 0 /\ Announced(a)
Mirrors == ShowsTrail /\ AssignBacked /\ FixedBacked /\ LevelsBacked

\* What is not announced is on the last level, and announced before the
\* propagator is asked anything.
Settling == {"extprop", "scan", "asked", "check", "recheck", "search"}
PendingOK ==
  /\ \A l \in pending : \E a \in trail[Len(trail)] :
       a.lit = l /\ (pc # "notify" => a.lvl > 0)
  /\ pc \in Settling => pending = {}
MirrorInv == Mirrors /\ PendingOK

LEMMA EntriesAre ==
  ASSUME Sane
  PROVE  /\ Len(trail) \in Nat \ {0} /\ Len(current_trail) = Len(trail)
         /\ \A a : a \in OnTrail <=> \E k \in 1 .. Len(trail) : a \in trail[k]
         /\ \A j, k \in 1 .. Len(trail) : \A a \in trail[j], c \in trail[k] :
              a.lit[1] = c.lit[1] => j = k /\ a = c
         /\ \A k \in 1 .. Len(trail) : \A a \in trail[k] :
              /\ a.lit \in Literals(N) /\ a.lit[1] \in Edges /\ a.lit[2] \in BOOLEAN
              /\ a.lvl \in Nat /\ a.lvl < k
<1>1. /\ Len(trail) \in Nat \ {0} /\ Len(current_trail) = Len(trail)
      /\ DOMAIN trail = 1 .. Len(trail)
  BY TrailEntries
<1>2. \A a : a \in OnTrail <=> \E k \in 1 .. Len(trail) : a \in trail[k]
  BY <1>1 DEF OnTrail
<1>3. \A j, k \in 1 .. Len(trail) : \A a \in trail[j], c \in trail[k] :
        a.lit[1] = c.lit[1] => j = k /\ a = c
  BY DEF Sane, TrailOK, OneEntry
<1>4. ASSUME NEW k \in 1 .. Len(trail), NEW a \in trail[k]
      PROVE  /\ a.lit \in Literals(N) /\ a.lit[1] \in Edges /\ a.lit[2] \in BOOLEAN
             /\ a.lvl \in Nat /\ a.lvl < k
  <2>1. a \in [lit : Literals(N), lvl : 0 .. (k - 1)]
    BY DEF Sane, TrailOK, LevelsFit
  <2>2. a.lit \in Literals(N) /\ a.lvl \in 0 .. (k - 1)
    BY <2>1
  <2> QED BY <2>2, NegationIs
<1> QED BY <1>1, <1>2, <1>3, <1>4

LEMMA AssignedIs ==
  ASSUME NEW L, NEW e \in Edges
  PROVE  /\ (\A l \in L : l[1] # e) => Assigned(L)[e] = assign[e]
         /\ \A l \in L : l[1] = e /\ (\A m \in L : m[1] = e => m = l) =>
              Assigned(L)[e] = Sign(l[2])
<1>1. Assigned(L)[e] = IF \E l \in L : l[1] = e
                       THEN Sign((CHOOSE l \in L : l[1] = e)[2]) ELSE assign[e]
  BY DEF Assigned
<1>2. ASSUME NEW l \in L, l[1] = e, \A m \in L : m[1] = e => m = l
      PROVE  (CHOOSE m \in L : m[1] = e) = l
  BY <1>2
<1> QED BY <1>1, <1>2

\* Steps that leave the trail and the propagator's copy of it alone.
LEMMA QuietMirror ==
  ASSUME MirrorInv, trail' = trail, pending' = pending, assign' = assign, fixed' = fixed,
         current_trail' = current_trail,
         \/ pc' = pc
         \/ pc # "notify" /\ (pc' \in Settling => pc \in Settling)
  PROVE  MirrorInv'
<1>1. OnTrail' = OnTrail
  BY DEF OnTrail
<1>2. Mirrors'
  BY <1>1 DEF MirrorInv, Mirrors, ShowsTrail, AssignBacked, FixedBacked, LevelsBacked,
     Announced
<1>3. PendingOK'
  BY DEF MirrorInv, PendingOK, Settling
<1> QED BY <1>2, <1>3 DEF MirrorInv

\* Announcing everything that is pending.
LEMMA AnnounceMirror ==
  ASSUME Sane, MirrorInv, trail' = trail, pending' = {},
         NotifyAssignment({l \in pending : LevelOf(l) # 0}, {l \in pending : LevelOf(l) = 0})
  PROVE  MirrorInv'
<1> DEFINE n == Len(trail)
           L == {l \in pending : LevelOf(l) # 0}
           F == {l \in pending : LevelOf(l) = 0}
<1>1. /\ n \in Nat \ {0} /\ Len(current_trail) = n
      /\ \A a : a \in OnTrail <=> \E k \in 1 .. n : a \in trail[k]
      /\ \A j, k \in 1 .. n : \A a \in trail[j], c \in trail[k] :
           a.lit[1] = c.lit[1] => j = k /\ a = c
      /\ \A k \in 1 .. n : \A a \in trail[k] :
           /\ a.lit \in Literals(N) /\ a.lit[1] \in Edges /\ a.lit[2] \in BOOLEAN
           /\ a.lvl \in Nat /\ a.lvl < k
  BY EntriesAre
<1>2. /\ ShowsTrail /\ AssignBacked /\ FixedBacked /\ LevelsBacked
      /\ \A l \in pending : \E a \in trail[n] : a.lit = l
  BY DEF MirrorInv, Mirrors, PendingOK
<1>3. OnTrail' = OnTrail /\ Len(trail') = n /\ n \in 1 .. n
  BY <1>1 DEF OnTrail
<1>4. L \cup F = pending /\ \A l \in L : l \in pending
  OBVIOUS
<1>5. /\ assign' = Assigned(pending)
      /\ \A e \in Edges : fixed'[e] <=> fixed[e] \/ \E l \in F : l[1] = e
      /\ \A k \in 1 .. n :
           current_trail'[k] = IF k = n THEN current_trail[k] \cup L ELSE current_trail[k]
  <2>1. /\ assign' = Assigned(L \cup F)
        /\ fixed' = [e \in Edges |-> fixed[e] \/ \E l \in F : l[1] = e]
        /\ current_trail' = [current_trail EXCEPT ![Len(current_trail)] = @ \cup L]
    BY DEF NotifyAssignment
  <2>2. DOMAIN current_trail = 1 .. n
    BY <1>1, LenProperties DEF Sane, SBTypeOK
  <2> HIDE DEF L, F, n
  <2> QED BY <1>1, <1>4, <2>1, <2>2
<1>6. \A k \in 1 .. n : \A a \in trail[k] : a.lit \in pending =>
        /\ k = n /\ LevelOf(a.lit) = a.lvl
        /\ \A l \in pending : l[1] = a.lit[1] => l = a.lit
  <2> SUFFICES ASSUME NEW k \in 1 .. n, NEW a \in trail[k], a.lit \in pending
               PROVE  /\ k = n /\ LevelOf(a.lit) = a.lvl
                      /\ \A l \in pending : l[1] = a.lit[1] => l = a.lit
    OBVIOUS
  <2>1. \A l \in pending : l[1] = a.lit[1] => k = n /\ l = a.lit
    BY <1>1, <1>2, <1>3
  <2>2. LevelOf(a.lit) = a.lvl
    BY <1>1, LevelIs
  <2> QED BY <2>1, <2>2
<1>7. \A k \in 1 .. n : \A a \in trail[k] : a.lit \notin pending =>
        \A l \in pending : l[1] # a.lit[1]
  BY <1>1, <1>2, <1>3
<1>8. \A l \in pending : LevelOf(l) # 0 => l \in L
  OBVIOUS
<1>9. \A l \in pending : LevelOf(l) = 0 => l \in F
  OBVIOUS
<1>10. \A l \in F : l \in pending /\ LevelOf(l) = 0
  OBVIOUS
<1>11. \A l \in L : l \in pending /\ LevelOf(l) # 0
  OBVIOUS
<1> HIDE DEF n, L, F
<1>12. ShowsTrail'
  <2> SUFFICES ASSUME NEW k \in 1 .. n, NEW a \in trail[k]
               PROVE  /\ assign'[a.lit[1]] = Sign(a.lit[2])
                      /\ IF a.lvl = 0 THEN fixed'[a.lit[1]] ELSE a.lit \in current_trail'[k]
    BY <1>3 DEF ShowsTrail
  <2>1. a.lit[1] \in Edges
    BY <1>1
  <2>2. CASE a.lit \in pending
    <3>1. assign'[a.lit[1]] = Sign(a.lit[2])
      BY <1>5, <1>6, <2>1, <2>2, AssignedIs
    <3>2. CASE a.lvl = 0
      BY <1>5, <1>6, <1>9, <2>1, <2>2, <3>1, <3>2
    <3>3. CASE a.lvl # 0
      BY <1>5, <1>6, <1>8, <2>2, <3>1, <3>3
    <3> QED BY <3>2, <3>3
  <2>3. CASE a.lit \notin pending
    <3>1. assign'[a.lit[1]] = assign[a.lit[1]]
      BY <1>5, <1>7, <2>1, <2>3, AssignedIs
    <3>2. /\ assign[a.lit[1]] = Sign(a.lit[2])
          /\ IF a.lvl = 0 THEN fixed[a.lit[1]] ELSE a.lit \in current_trail[k]
      BY <1>2, <2>3 DEF ShowsTrail, Announced, n
    <3> QED BY <1>5, <2>1, <3>1, <3>2
  <2> QED BY <2>2, <2>3
<1>13. AssignBacked'
  <2> SUFFICES ASSUME NEW e \in Edges, assign'[e] # l_Undef
               PROVE  \E a \in OnTrail : a.lit[1] = e
    BY <1>3 DEF AssignBacked, Announced
  <2>1. CASE \E l \in pending : l[1] = e
    BY <1>1, <1>2, <1>3, <2>1
  <2>2. CASE \A l \in pending : l[1] # e
    <3>1. assign[e] # l_Undef
      BY <1>5, <2>2, AssignedIs
    <3> QED BY <1>2, <3>1 DEF AssignBacked
  <2> QED BY <2>1, <2>2
<1>14. FixedBacked'
  <2> SUFFICES ASSUME NEW e \in Edges, fixed'[e]
               PROVE  \E a \in OnTrail : a.lit[1] = e /\ a.lvl = 0
    BY <1>3 DEF FixedBacked, Announced
  <2>1. CASE \E l \in F : l[1] = e
    <3>1. PICK l \in F : l[1] = e
      BY <2>1
    <3>2. PICK a \in trail[n] : a.lit = l
      BY <1>2, <1>10
    <3>3. a.lvl = 0
      BY <1>3, <1>6, <1>10, <3>2
    <3> QED BY <1>1, <1>3, <3>1, <3>2, <3>3
  <2>2. CASE fixed[e]
    BY <1>2, <2>2 DEF FixedBacked
  <2> QED BY <1>5, <2>1, <2>2
<1>15. LevelsBacked'
  <2> SUFFICES ASSUME NEW k \in 1 .. n, NEW l \in current_trail'[k]
               PROVE  \E a \in trail[k] : a.lit = l /\ a.lvl > 0
    BY <1>3 DEF LevelsBacked, Announced
  <2>1. CASE l \in current_trail[k]
    BY <1>2, <2>1 DEF LevelsBacked, n
  <2>2. CASE k = n /\ l \in L
    <3>1. PICK a \in trail[n] : a.lit = l
      BY <1>2, <1>11, <2>2
    <3>2. a.lvl # 0 /\ a.lvl \in Nat
      BY <1>1, <1>3, <1>6, <1>11, <2>2, <3>1
    <3> QED BY <2>2, <3>1, <3>2
  <2> QED BY <1>5, <2>1, <2>2
<1>16. PendingOK'
  BY DEF PendingOK
<1> QED BY <1>12, <1>13, <1>14, <1>15, <1>16 DEF MirrorInv, Mirrors


LEMMA PropagateMirror ==
  ASSUME Sane, MirrorInv, Propagate  PROVE MirrorInv'
<1>1. PICK c \in db : \E l \in c :
        LET lvl == DrivenLevel(c, l, level) IN
        /\ Implied(c, l)
        /\ trail' = Put(trail, l, lvl)
        /\ IF lvl = 0 THEN NotifyAssignment({}, {l}) /\ UNCHANGED pending
                      ELSE UNCHANGED sbvars /\ pending' = pending \cup {l}
  BY DEF Propagate
<1>2. PICK l \in c :
        LET lvl == DrivenLevel(c, l, level) IN
        /\ Implied(c, l)
        /\ trail' = Put(trail, l, lvl)
        /\ IF lvl = 0 THEN NotifyAssignment({}, {l}) /\ UNCHANGED pending
                      ELSE UNCHANGED sbvars /\ pending' = pending \cup {l}
  BY <1>1
<1> DEFINE n == Len(trail)
           lvl == DrivenLevel(c, l, level)
           new == [lit |-> l, lvl |-> lvl]
<1>3. /\ n \in Nat \ {0} /\ Len(current_trail) = n
      /\ \A a : a \in OnTrail <=> \E k \in 1 .. n : a \in trail[k]
      /\ \A k \in 1 .. n : \A a \in trail[k] : a.lit[1] \in Edges
  BY EntriesAre
<1>4. l \in Literals(N) /\ l[1] \in Edges /\ c \subseteq Literals(N)
  <2>1. c \subseteq Literals(N)
    BY DEF Sane, SolverInv, Clauses
  <2> QED BY <2>1, NegationIs
<1>5. \A a \in OnTrail : a.lit[1] # l[1]
  BY <1>2, <1>4, UnassignedIs DEF Implied
<1>6. \A k \in 1 .. n : \A a \in trail[k] : a.lit[1] # l[1] /\ a.lit # l
  BY <1>3, <1>5
<1>7. /\ ShowsTrail /\ AssignBacked /\ FixedBacked /\ LevelsBacked
      /\ \A m \in pending : \E a \in trail[n] : a.lit = m /\ a.lvl > 0
      /\ pc = "propagate" /\ pc' = "propagate"
  <2>1. pc = "propagate" /\ pc' = "propagate"
    BY DEF Propagate
  <2> QED BY <2>1 DEF MirrorInv, Mirrors, PendingOK
<1>8. lvl \in Nat
  <2>1. \A m \in c \ {l} : LevelOf(m) \in 0 .. level
    BY <1>2, <1>4, FalseIs DEF Implied
  <2>2. level \in Nat
    BY TrailEntries
  <2> QED BY <2>1, <2>2, DrivenIs
<1>9. /\ Len(trail') = n
      /\ \A k \in 1 .. n : trail'[k] = IF k = n THEN trail[k] \cup {new} ELSE trail[k]
  <2>1. TrailShape(trail, n)
    BY <1>3 DEF Sane, SolverInv
  <2>2. trail' = [k \in 1 .. n |-> IF k = n THEN trail[n] \cup {new} ELSE trail[k]]
    BY <1>2, <2>1 DEF Put, TrailShape
  <2>3. TrailShape(trail', n)
    BY <1>2, <1>3, <1>4, <2>1, PutShape
  <2> QED BY <2>2, <2>3 DEF TrailShape
<1>10. new.lit = l /\ new.lvl = lvl /\ n \in 1 .. n
  BY <1>3
<1>11. \/ /\ lvl = 0 /\ pending' = pending /\ assign' = Assigned({l})
          /\ \A e \in Edges : fixed'[e] <=> fixed[e] \/ l[1] = e
          /\ \A k \in 1 .. n : current_trail'[k] = current_trail[k]
       \/ /\ lvl # 0 /\ pending' = pending \cup {l} /\ assign' = assign /\ fixed' = fixed
          /\ current_trail' = current_trail
  <2>1. CASE lvl # 0
    BY <1>2, <2>1 DEF sbvars
  <2>2. CASE lvl = 0
    <3>1. NotifyAssignment({}, {l}) /\ pending' = pending
      BY <1>2, <2>2
    <3>2. DOMAIN current_trail = 1 .. n
      BY <1>3, LenProperties DEF Sane, SBTypeOK
    <3>3. {} \cup {l} = {l}
      OBVIOUS
    <3> HIDE DEF n
    <3> QED BY <1>3, <2>2, <3>1, <3>2, <3>3 DEF NotifyAssignment
  <2> QED BY <2>1, <2>2
<1> HIDE DEF n, new, lvl
<1>12. \A a : a \in OnTrail' <=> a \in OnTrail \/ a = new
  <2>1. DOMAIN trail' = 1 .. n
    <3>1. TrailShape(trail, n)
      BY <1>3 DEF Sane, SolverInv
    <3>2. TrailShape(trail', n)
      BY <1>2, <1>3, <1>4, <3>1, PutShape
    <3> QED BY <3>2 DEF TrailShape
  <2>2. \A a : a \in OnTrail' <=> \E k \in 1 .. n : a \in trail'[k]
    BY <2>1 DEF OnTrail
  <2> QED BY <1>3, <1>9, <1>10, <2>2
<1>13. \A k \in 1 .. n : \A a \in trail[k] :
         /\ a.lit \notin pending' <=> a.lit \notin pending
         /\ assign'[a.lit[1]] = assign[a.lit[1]]
  <2> SUFFICES ASSUME NEW k \in 1 .. n, NEW a \in trail[k]
               PROVE  /\ a.lit \notin pending' <=> a.lit \notin pending
                      /\ assign'[a.lit[1]] = assign[a.lit[1]]
    OBVIOUS
  <2>1. a.lit[1] # l[1] /\ a.lit # l /\ a.lit[1] \in Edges
    BY <1>3, <1>6
  <2>2. \A m \in {l} : m[1] # a.lit[1]
    BY <2>1
  <2>3. Assigned({l})[a.lit[1]] = assign[a.lit[1]]
    BY <2>1, <2>2, AssignedIs
  <2> QED BY <1>11, <2>1, <2>3
<1>14. l \notin pending /\ (lvl = 0 => assign'[l[1]] = Sign(l[2]))
  <2>1. l \notin pending
    BY <1>6, <1>7, <1>10
  <2>2. Assigned({l})[l[1]] = Sign(l[2])
    BY <1>4, AssignedIs
  <2> QED BY <1>11, <2>1, <2>2
<1>15. ShowsTrail'
  <2> SUFFICES ASSUME NEW k \in 1 .. n, NEW a \in trail'[k], a.lit \notin pending'
               PROVE  /\ assign'[a.lit[1]] = Sign(a.lit[2])
                      /\ IF a.lvl = 0 THEN fixed'[a.lit[1]] ELSE a.lit \in current_trail'[k]
    BY <1>9 DEF ShowsTrail, Announced
  <2>1. CASE a \in trail[k]
    <3>1. /\ assign[a.lit[1]] = Sign(a.lit[2])
          /\ IF a.lvl = 0 THEN fixed[a.lit[1]] ELSE a.lit \in current_trail[k]
      BY <1>7, <1>13, <2>1 DEF ShowsTrail, Announced, n
    <3>2. a.lit[1] \in Edges
      BY <1>3, <2>1
    <3> QED BY <1>11, <1>13, <2>1, <3>1, <3>2
  <2>2. CASE a = new
    <3>1. lvl = 0
      BY <1>10, <1>11, <2>2
    <3>2. fixed'[l[1]]
      BY <1>4, <1>11, <3>1
    <3> QED BY <1>10, <1>14, <2>2, <3>1, <3>2
  <2> QED BY <1>9, <2>1, <2>2
<1>16. ASSUME NEW e \in Edges, NEW a \in OnTrail, a.lit[1] = e, Announced(a)
       PROVE  a \in OnTrail' /\ a.lit \notin pending'
  BY <1>3, <1>12, <1>13, <1>16 DEF Announced
<1>17. lvl = 0 => new \in OnTrail' /\ new.lit \notin pending'
  BY <1>10, <1>11, <1>12, <1>14
<1>18. AssignBacked'
  <2> SUFFICES ASSUME NEW e \in Edges, assign'[e] # l_Undef
               PROVE  \E a \in OnTrail' : a.lit[1] = e /\ a.lit \notin pending'
    BY DEF AssignBacked, Announced
  <2>1. CASE assign[e] # l_Undef
    BY <1>7, <1>16, <2>1 DEF AssignBacked
  <2>2. CASE lvl = 0 /\ e = l[1]
    BY <1>10, <1>17, <2>2
  <2>3. lvl = 0 /\ e # l[1] => assign'[e] = assign[e]
    <3>1. e # l[1] => \A m \in {l} : m[1] # e
      OBVIOUS
    <3> QED BY <1>11, <3>1, AssignedIs
  <2> QED BY <1>11, <2>1, <2>2, <2>3
<1>19. FixedBacked'
  <2> SUFFICES ASSUME NEW e \in Edges, fixed'[e]
               PROVE  \E a \in OnTrail' : a.lit[1] = e /\ a.lvl = 0 /\ a.lit \notin pending'
    BY DEF FixedBacked, Announced
  <2>1. CASE fixed[e]
    BY <1>7, <1>16, <2>1 DEF FixedBacked
  <2>2. CASE lvl = 0 /\ e = l[1]
    BY <1>10, <1>17, <2>2
  <2> QED BY <1>11, <2>1, <2>2
<1>20. LevelsBacked'
  <2> SUFFICES ASSUME NEW k \in 1 .. n, NEW m \in current_trail'[k]
               PROVE  \E a \in trail'[k] : a.lit = m /\ a.lvl > 0 /\ a.lit \notin pending'
    BY <1>9 DEF LevelsBacked, Announced
  <2>1. m \in current_trail[k]
    BY <1>11
  <2>2. PICK a \in trail[k] : a.lit = m /\ a.lvl > 0 /\ a.lit \notin pending
    BY <1>7, <2>1 DEF LevelsBacked, Announced, n
  <2>3. a \in trail'[k]
    BY <1>9
  <2> QED BY <1>13, <2>2, <2>3
<1>21. PendingOK'
  <2>1. trail'[n] = trail[n] \cup {new}
    BY <1>9, <1>10
  <2>2. \A m \in pending' : m \in pending \/ (m = l /\ lvl # 0)
    BY <1>11
  <2>3. lvl # 0 => lvl > 0
    BY <1>8
  <2>4. \A m \in pending' : \E a \in trail'[n] : a.lit = m /\ a.lvl > 0
    BY <1>7, <1>10, <2>1, <2>2, <2>3
  <2> QED BY <1>7, <1>9, <2>4 DEF PendingOK, Settling
<1> QED BY <1>15, <1>18, <1>19, <1>20, <1>21 DEF MirrorInv, Mirrors

LEMMA NotifyMirror ==
  ASSUME Sane, MirrorInv, PropagateDone \/ Notify  PROVE MirrorInv'
<1>1. /\ trail' = trail /\ pending' = {}
      /\ \/ pc # "notify" /\ NotifyAssignment(pending, {})
         \/ NotifyAssignment(pending \ {l \in pending : LevelOf(l) = 0},
                             {l \in pending : LevelOf(l) = 0})
  BY DEF PropagateDone, Notify
<1>2. pending \ {l \in pending : LevelOf(l) = 0} = {l \in pending : LevelOf(l) # 0}
  OBVIOUS
<1>3. ASSUME pc # "notify"
      PROVE  /\ {l \in pending : LevelOf(l) # 0} = pending
             /\ {l \in pending : LevelOf(l) = 0} = {}
  <2> SUFFICES ASSUME NEW l \in pending PROVE LevelOf(l) # 0
    OBVIOUS
  <2>1. PICK a \in trail[Len(trail)] : a.lit = l /\ a.lvl > 0
    BY <1>3 DEF MirrorInv, PendingOK
  <2>2. a \in OnTrail
    BY EntriesAre
  <2>3. LevelOf(l) = a.lvl
    BY <2>1, <2>2, LevelIs
  <2> QED BY <2>1, <2>3
<1> QED BY <1>1, <1>2, <1>3, AnnounceMirror


\* Backtracking, with new entries on the level gone back to: what is undone is
\* retracted, what is kept out of order and what is new waits to be announced.
GoesBack(b, New) ==
  /\ pc # "notify" /\ pc' = "notify" /\ b + 1 < Len(trail) /\ NotifyBacktrack(b)
  /\ \A a \in OnTrail : a.lvl <= b => \A x \in New : a.lit[1] # x.lit[1]
  /\ Len(trail') = b + 1 /\ DOMAIN trail' = 1 .. (b + 1)
  /\ \A k \in 1 .. (b + 1) :
       trail'[k] = IF k = b + 1 THEN trail[k] \cup Kept(b) \cup New ELSE trail[k]
  /\ pending' = {x.lit : x \in New} \cup {a.lit : a \in {k \in Kept(b) : k.lvl > 0}}

LEMMA BacktrackMirror ==
  ASSUME Sane, MirrorInv, NEW b \in Nat, NEW New, GoesBack(b, New)
  PROVE  MirrorInv'
<1> USE DEF GoesBack
<1> DEFINE n == Len(trail)
<1>1. /\ n \in Nat \ {0} /\ Len(current_trail) = n
      /\ \A a : a \in OnTrail <=> \E k \in 1 .. n : a \in trail[k]
      /\ \A j, k \in 1 .. n : \A a \in trail[j], c \in trail[k] :
           a.lit[1] = c.lit[1] => j = k /\ a = c
      /\ \A k \in 1 .. n : \A a \in trail[k] :
           /\ a.lit \in Literals(N) /\ a.lit[1] \in Edges /\ a.lit[2] \in BOOLEAN
           /\ a.lvl \in Nat /\ a.lvl < k
  BY EntriesAre
<1>2. /\ ShowsTrail /\ AssignBacked /\ FixedBacked /\ LevelsBacked
      /\ \A l \in pending : \E a \in trail[n] : a.lit = l /\ a.lvl > 0
  BY DEF MirrorInv, Mirrors, PendingOK
<1>3. \A a : a \in Kept(b) <=> a.lvl <= b /\ \E k \in (b + 2) .. n : a \in trail[k]
  BY DEF Kept
<1>4. /\ \A e \in Edges : assign'[e] = IF e \in Retracted(b) THEN l_Undef ELSE assign[e]
      /\ fixed' = fixed
      /\ \A k \in 1 .. (b + 1) : current_trail'[k] = current_trail[k]
  <2>1. /\ assign' = [e \in Edges |-> IF e \in Retracted(b) THEN l_Undef ELSE assign[e]]
        /\ fixed' = fixed /\ current_trail' = SubSeq(current_trail, 1, b + 1)
    BY DEF NotifyBacktrack
  <2>2. \A k \in 1 .. (b + 1) : current_trail[k] \in SUBSET Literals(N)
    BY <1>1 DEF Sane, SBTypeOK
  <2> HIDE DEF n
  <2> QED BY <1>1, <2>1, <2>2, SubSeqProperties
<1>5. \A e \in Edges : e \in Retracted(b) <=>
        /\ ~fixed[e]
        /\ \E k \in (b + 2) .. n : \E l \in current_trail[k] : l[1] = e
  BY <1>1 DEF Retracted
<1>6. /\ \A k \in 1 .. (b + 1) : k \in 1 .. n /\ k # n /\ k \notin (b + 2) .. n
      /\ \A k \in (b + 2) .. n : k \in 1 .. n /\ k \notin 1 .. (b + 1)
      /\ n \in 1 .. n /\ b + 1 \in 1 .. (b + 1)
      /\ \A k \in 1 .. n : k \in 1 .. (b + 1) \/ k \in (b + 2) .. n
  BY <1>1
<1>7. \A a : a \in OnTrail' <=> \E k \in 1 .. (b + 1) : a \in trail'[k]
  BY DEF OnTrail
<1> HIDE DEF n
<1>8. \A a \in OnTrail : a.lit \in pending => a \in trail[n] /\ a.lvl > 0
  BY <1>1, <1>2, <1>6
\* An entry that stays, on its level or as fixed, is not among the new ones.
<1>9. \A k \in 1 .. (b + 1) : \A a \in trail[k] :
        a.lit \notin pending /\ a.lit \notin pending'
  <2> SUFFICES ASSUME NEW k \in 1 .. (b + 1), NEW a \in trail[k]
               PROVE  a.lit \notin pending /\ a.lit \notin pending'
    OBVIOUS
  <2>0. k \in 1 .. n /\ k # n /\ n \in 1 .. n
    BY <1>6
  <2>1. a \in OnTrail /\ a.lvl <= b
    <3>1. a \in OnTrail /\ a.lvl \in Nat /\ a.lvl < k
      BY <1>1, <2>0
    <3> QED BY <3>1
  <2>2. a.lit \notin pending
    <3> SUFFICES ASSUME a.lit \in pending PROVE FALSE
      OBVIOUS
    <3>1. PICK c \in trail[n] : c.lit = a.lit
      BY <1>2
    <3> QED BY <1>1, <2>0, <3>1
  <2>3. \A x \in New : a.lit # x.lit
    BY <2>1
  <2>4. \A c \in Kept(b) : a.lit # c.lit
    <3> SUFFICES ASSUME NEW c \in Kept(b), a.lit = c.lit PROVE FALSE
      OBVIOUS
    <3>1. PICK i \in (b + 2) .. n : c \in trail[i]
      BY <1>3
    <3>2. i = k
      BY <1>1, <1>6, <3>1
    <3> QED BY <1>6, <3>2
  <2> QED BY <2>2, <2>3, <2>4
<1>10. \A a \in OnTrail : a.lvl = 0 => a.lit \notin pending /\ a.lit \notin pending' /\ a \in OnTrail'
  <2> SUFFICES ASSUME NEW a \in OnTrail, a.lvl = 0
               PROVE  a.lit \notin pending /\ a.lit \notin pending' /\ a \in OnTrail'
    OBVIOUS
  <2>1. PICK k \in 1 .. n : a \in trail[k]
    BY <1>1
  <2>2. a.lit \notin pending
    BY <1>8
  <2>3. CASE k \in 1 .. (b + 1)
    BY <1>7, <1>9, <2>1, <2>2, <2>3
  <2>4. CASE k \in (b + 2) .. n
    <3>1. a \in Kept(b)
      BY <1>3, <2>1, <2>4
    <3>2. a \in trail'[b + 1]
      BY <1>6, <3>1
    <3>3. \A c \in Kept(b) : a.lit = c.lit => c.lvl = 0
      <4> SUFFICES ASSUME NEW c \in Kept(b), a.lit = c.lit PROVE c = a
        OBVIOUS
      <4>1. PICK i \in (b + 2) .. n : c \in trail[i]
        BY <1>3
      <4> QED BY <1>1, <1>6, <2>1, <4>1
    <3>4. \A x \in New : a.lit # x.lit
      BY <1>1
    <3>5. a.lit \notin pending'
      BY <3>3, <3>4
    <3> QED BY <1>6, <1>7, <2>2, <3>2, <3>5
  <2> QED BY <1>6, <2>1, <2>3, <2>4
<1>11. ShowsTrail'
  <2> SUFFICES ASSUME NEW k \in 1 .. (b + 1), NEW a \in trail'[k], a.lit \notin pending'
               PROVE  /\ assign'[a.lit[1]] = Sign(a.lit[2])
                      /\ IF a.lvl = 0 THEN fixed'[a.lit[1]] ELSE a.lit \in current_trail'[k]
    BY DEF ShowsTrail, Announced
  <2>1. CASE a \in trail[k]
    <3>1. /\ assign[a.lit[1]] = Sign(a.lit[2])
          /\ IF a.lvl = 0 THEN fixed[a.lit[1]] ELSE a.lit \in current_trail[k]
      BY <1>2, <1>6, <1>9, <2>1 DEF ShowsTrail, Announced, n
    <3>2. a.lit[1] \in Edges /\ a.lit[1] \notin Retracted(b)
      <4>1. a.lit[1] \in Edges
        BY <1>1, <1>6, <2>1
      <4>2. ASSUME NEW i \in (b + 2) .. n, NEW l \in current_trail[i], l[1] = a.lit[1]
            PROVE  FALSE
        <5>1. PICK c \in trail[i] : c.lit = l
          BY <1>2, <1>6 DEF LevelsBacked, n
        <5>2. i = k
          BY <1>1, <1>6, <2>1, <4>2, <5>1
        <5> QED BY <1>6, <5>2
      <4> QED BY <1>5, <4>1, <4>2
    <3> QED BY <1>4, <3>1, <3>2
  <2>2. CASE a \in Kept(b)
    <3>1. a.lvl = 0
      <4>1. a.lvl \in Nat
        BY <1>1, <1>3, <1>6, <2>2
      <4> QED BY <2>2, <4>1
    <3>2. PICK i \in (b + 2) .. n : a \in trail[i]
      BY <1>3, <2>2
    <3>3. a \in OnTrail /\ a.lit[1] \in Edges
      BY <1>1, <1>6, <3>2
    <3>4. assign[a.lit[1]] = Sign(a.lit[2]) /\ fixed[a.lit[1]]
      BY <1>2, <1>6, <1>10, <3>1, <3>2, <3>3 DEF ShowsTrail, Announced, n
    <3> QED BY <1>4, <1>5, <3>1, <3>3, <3>4
  <2>3. a \notin New
    OBVIOUS
  <2> QED BY <2>1, <2>2, <2>3
<1>12. AssignBacked'
  <2> SUFFICES ASSUME NEW e \in Edges, assign'[e] # l_Undef
               PROVE  \E a \in OnTrail' : a.lit[1] = e /\ a.lit \notin pending'
    BY DEF AssignBacked, Announced
  <2>1. assign[e] # l_Undef /\ e \notin Retracted(b)
    BY <1>4
  <2>2. PICK a \in OnTrail : a.lit[1] = e /\ a.lit \notin pending
    BY <1>2, <2>1 DEF AssignBacked, Announced
  <2>3. PICK k \in 1 .. n : a \in trail[k]
    BY <1>1
  <2>4. CASE a.lvl = 0
    BY <1>10, <2>2, <2>4
  <2>5. CASE a.lvl # 0 /\ k \in 1 .. (b + 1)
    BY <1>7, <1>9, <2>2, <2>3, <2>5
  <2>6. CASE a.lvl # 0 /\ k \in (b + 2) .. n
    <3>1. a.lit \in current_trail[k]
      BY <1>2, <2>2, <2>3, <2>6 DEF ShowsTrail, Announced, n
    <3>2. fixed[e]
      BY <1>5, <2>1, <2>2, <2>6, <3>1
    <3>3. PICK c \in OnTrail : c.lit[1] = e /\ c.lvl = 0
      BY <1>2, <3>2 DEF FixedBacked
    <3>4. c = a
      BY <1>1, <2>2, <3>3
    <3> QED BY <2>6, <3>3, <3>4
  <2> QED BY <1>6, <2>4, <2>5, <2>6
<1>13. FixedBacked'
  <2> SUFFICES ASSUME NEW e \in Edges, fixed[e]
               PROVE  \E a \in OnTrail' : a.lit[1] = e /\ a.lvl = 0 /\ a.lit \notin pending'
    BY <1>4 DEF FixedBacked, Announced
  <2> QED BY <1>2, <1>10 DEF FixedBacked
<1>14. LevelsBacked'
  <2> SUFFICES ASSUME NEW k \in 1 .. (b + 1), NEW l \in current_trail[k]
               PROVE  \E a \in trail'[k] : a.lit = l /\ a.lvl > 0 /\ a.lit \notin pending'
    BY <1>4 DEF LevelsBacked, Announced
  <2>1. PICK a \in trail[k] : a.lit = l /\ a.lvl > 0
    BY <1>2, <1>6 DEF LevelsBacked, n
  <2>2. a \in trail'[k]
    OBVIOUS
  <2> QED BY <1>9, <2>1, <2>2
<1>15. PendingOK'
  <2>1. trail'[b + 1] = trail[b + 1] \cup Kept(b) \cup New
    BY <1>6
  <2>2. \A l \in pending' : \E a \in trail'[b + 1] : a.lit = l
    BY <2>1
  <2> QED BY <2>2 DEF PendingOK, Settling
<1> QED BY <1>11, <1>12, <1>13, <1>14, <1>15 DEF MirrorInv, Mirrors

LEMMA DriveMirror ==
  ASSUME Sane, MirrorInv, pc # "notify", Drives  PROVE MirrorInv'
<1>1. PICK b \in Nat, l \in Literals(N) : \E lvl \in 0 .. b :
        /\ BacktrackAndDrive(b, l, lvl)
        /\ \A a \in OnTrail : a.lvl <= b => a.lit[1] # l[1]
  BY DEF Drives
<1>2. PICK lvl \in 0 .. b :
        /\ BacktrackAndDrive(b, l, lvl)
        /\ \A a \in OnTrail : a.lvl <= b => a.lit[1] # l[1]
  BY <1>1
<1> DEFINE new == [lit |-> l, lvl |-> lvl]
<1>3. /\ NotifyBacktrack(b) /\ trail' = Put(Backtracked(b), l, lvl) /\ pc' = "notify"
      /\ pending' = {l} \cup {a.lit : a \in {k \in Kept(b) : k.lvl > 0}}
  BY <1>2 DEF BacktrackAndDrive
<1>4. b + 1 < Len(trail)
  BY <1>2, DriveTrail
<1>5. TrailShape(Backtracked(b), b + 1)
  BY <1>4, BacktrackTrail
<1>6. TrailShape(trail', b + 1)
  BY <1>3, <1>5, PutShape
<1>7. Len(trail') = b + 1 /\ DOMAIN trail' = 1 .. (b + 1)
  BY <1>6 DEF TrailShape
<1>8. \A k \in 1 .. (b + 1) :
        trail'[k] = IF k = b + 1 THEN trail[k] \cup Kept(b) \cup {new} ELSE trail[k]
  <2>1. Len(Backtracked(b)) = b + 1 /\ DOMAIN Backtracked(b) = 1 .. (b + 1)
    BY <1>5 DEF TrailShape
  <2>2. \A k \in 1 .. (b + 1) : trail'[k] = IF k = b + 1 THEN Backtracked(b)[k] \cup {new}
                                                         ELSE Backtracked(b)[k]
    BY <1>3, <2>1 DEF Put
  <2>3. \A k \in 1 .. (b + 1) : Backtracked(b)[k] =
          IF k = b + 1 THEN trail[k] \cup Kept(b) ELSE trail[k]
    BY DEF Backtracked
  <2> HIDE DEF new
  <2> QED BY <2>2, <2>3
<1>9. new.lit = l /\ {x.lit : x \in {new}} = {l}
  OBVIOUS
<1> HIDE DEF new
<1>10. \A a \in OnTrail : a.lvl <= b => \A x \in {new} : a.lit[1] # x.lit[1]
  BY <1>2, <1>9
<1>11. pending' = {x.lit : x \in {new}} \cup {a.lit : a \in {k \in Kept(b) : k.lvl > 0}}
  BY <1>3, <1>9
<1>12. GoesBack(b, {new})
  BY <1>3, <1>4, <1>7, <1>8, <1>10, <1>11 DEF GoesBack
<1> QED BY <1>12, BacktrackMirror

LEMMA RestartMirror ==
  ASSUME Sane, MirrorInv, Restart  PROVE MirrorInv'
<1>1. PICK b \in 0 .. (level - 1) :
        /\ NotifyBacktrack(b) /\ trail' = Backtracked(b)
        /\ pending' = {a.lit : a \in {k \in Kept(b) : k.lvl > 0}}
  BY DEF Restart
<1>2. pc = "search" /\ pc # "notify" /\ pc' = "notify"
  BY DEF Restart
<1>3. b \in Nat /\ b + 1 < Len(trail)
  BY <1>1, LevelCount, TrailEntries DEF Sane
<1>4. TrailShape(trail', b + 1)
  BY <1>1, <1>3, BacktrackTrail
<1>5. Len(trail') = b + 1 /\ DOMAIN trail' = 1 .. (b + 1)
  BY <1>4 DEF TrailShape
<1>6. \A k \in 1 .. (b + 1) :
        trail'[k] = IF k = b + 1 THEN trail[k] \cup Kept(b) \cup {} ELSE trail[k]
  BY <1>1 DEF Backtracked
<1>7. pending' = {x.lit : x \in {}} \cup {a.lit : a \in {k \in Kept(b) : k.lvl > 0}}
  BY <1>1
<1>8. \A a \in OnTrail : a.lvl <= b => \A x \in {} : a.lit[1] # x.lit[1]
  OBVIOUS
<1>9. GoesBack(b, {})
  BY <1>1, <1>2, <1>3, <1>5, <1>6, <1>7, <1>8 DEF GoesBack
<1> QED BY <1>3, <1>9, BacktrackMirror


LEMMA DecideMirror ==
  ASSUME Sane, MirrorInv, Decide  PROVE MirrorInv'
<1> DEFINE n == Len(trail)
<1>1. PICK l \in Literals(N) :
        LET new == [lit |-> l, lvl |-> level + 1] IN
        /\ Len(trail') = Len(trail) + 1
        /\ OnTrail' = OnTrail \cup {new} /\ pending' = {l}
        /\ \A k \in 1 .. Len(trail) : trail'[k] = trail[k]
        /\ trail'[Len(trail) + 1] = {new}
        /\ \A a \in OnTrail : a.lit[1] # l[1]
  BY DecideTrail
<1> DEFINE new == [lit |-> l, lvl |-> level + 1]
<1>2. new.lit = l /\ new.lvl > 0
  BY TrailEntries
<1>3. /\ Len(trail') = n + 1 /\ OnTrail' = OnTrail \cup {new} /\ pending' = {l}
      /\ \A k \in 1 .. n : trail'[k] = trail[k]
      /\ trail'[n + 1] = {new}
      /\ \A a \in OnTrail : a.lit[1] # l[1] /\ a.lit # l
  BY <1>1
<1>4. /\ n \in Nat \ {0} /\ Len(current_trail) = n
      /\ \A a : a \in OnTrail <=> \E k \in 1 .. n : a \in trail[k]
  BY EntriesAre
<1>5. ShowsTrail /\ AssignBacked /\ FixedBacked /\ LevelsBacked /\ pending = {}
  BY DEF Decide, MirrorInv, Mirrors, PendingOK, Settling
<1>6. /\ assign' = assign /\ fixed' = fixed /\ pc' = "propagate"
      /\ \A k \in 1 .. n : current_trail'[k] = current_trail[k]
      /\ current_trail'[n + 1] = {}
  <2>1. /\ current_trail' = Append(current_trail, {}) /\ assign' = assign /\ fixed' = fixed
        /\ pc' = "propagate"
    BY DEF Decide, NotifyNewDecisionLevel
  <2>2. current_trail \in Seq(SUBSET Literals(N)) /\ {} \in SUBSET Literals(N)
    BY DEF Sane, SBTypeOK
  <2> HIDE DEF n
  <2> QED BY <1>4, <2>1, <2>2, AppendProperties
<1> HIDE DEF n, new
<1>7. \A k \in 1 .. (n + 1) : k \in 1 .. n \/ k = n + 1
  BY <1>4
<1>8. \A a \in OnTrail : a \in OnTrail' /\ a.lit \notin pending'
  BY <1>3
<1>9. ShowsTrail'
  <2> SUFFICES ASSUME NEW k \in 1 .. (n + 1), NEW a \in trail'[k], a.lit \notin pending'
               PROVE  /\ assign'[a.lit[1]] = Sign(a.lit[2])
                      /\ IF a.lvl = 0 THEN fixed'[a.lit[1]] ELSE a.lit \in current_trail'[k]
    BY <1>3 DEF ShowsTrail, Announced
  <2>1. CASE k \in 1 .. n
    <3>1. a \in trail[k] /\ current_trail'[k] = current_trail[k]
      BY <1>3, <1>6, <2>1
    <3> QED BY <1>5, <1>6, <2>1, <3>1 DEF ShowsTrail, Announced, n
  <2>2. CASE k = n + 1
    BY <1>2, <1>3, <2>2
  <2> QED BY <1>7, <2>1, <2>2
<1>10. AssignBacked'
  BY <1>5, <1>6, <1>8 DEF AssignBacked, Announced
<1>11. FixedBacked'
  BY <1>5, <1>6, <1>8 DEF FixedBacked, Announced
<1>12. LevelsBacked'
  <2> SUFFICES ASSUME NEW k \in 1 .. (n + 1), NEW l1 \in current_trail'[k]
               PROVE  \E a \in trail'[k] : a.lit = l1 /\ a.lvl > 0 /\ a.lit \notin pending'
    BY <1>3 DEF LevelsBacked, Announced
  <2>1. k \in 1 .. n /\ l1 \in current_trail[k]
    BY <1>6, <1>7
  <2>2. PICK a \in trail[k] : a.lit = l1 /\ a.lvl > 0
    BY <1>5, <2>1 DEF LevelsBacked, n
  <2>3. a \in trail'[k] /\ a \in OnTrail
    BY <1>3, <1>4, <2>1
  <2> QED BY <1>8, <2>2, <2>3
<1>13. PendingOK'
  BY <1>2, <1>3, <1>6 DEF PendingOK, Settling
<1> QED BY <1>9, <1>10, <1>11, <1>12, <1>13 DEF MirrorInv, Mirrors

LEMMA MirrorNext ==
  ASSUME Sane, TrailInv, MirrorInv, [Next]_vars  PROVE MirrorInv'
<1>1. ASSUME trail' = trail, pending' = pending, assign' = assign, fixed' = fixed,
             current_trail' = current_trail,
             pc # "notify" /\ (pc' \in Settling => pc \in Settling)
      PROVE  MirrorInv'
  BY <1>1, QuietMirror
<1>2. CASE PropagateConflict \/ NoClause \/ CheckEnds \/ AnalyzeRoot \/ FoundModel
  <2>1. UNCHANGED sbvars /\ trail' = trail /\ pending' = pending
        /\ pc # "notify" /\ (pc' \in Settling => pc \in Settling)
    BY <1>2 DEF PropagateConflict, NoClause, CheckEnds, AnalyzeRoot, FoundModel, Settling
  <2> QED BY <1>1, <2>1 DEF sbvars
<1>3. CASE Finished \/ UNCHANGED vars
  <2>1. UNCHANGED vars
    BY <1>3 DEF Finished
  <2>2. trail' = trail /\ pending' = pending /\ assign' = assign /\ fixed' = fixed
        /\ current_trail' = current_trail /\ pc' = pc
    BY <2>1 DEF vars, sbvars
  <2> QED BY <2>2, QuietMirror
<1>4. CASE AskClause \/ ScanColumns
  <2>1. trail' = trail /\ pending' = pending
        /\ pc # "notify" /\ (pc' \in Settling => pc \in Settling)
    BY <1>4 DEF AskClause, ScanColumns, Settling
  <2>2. assign' = assign /\ fixed' = fixed /\ current_trail' = current_trail
    BY <1>4 DEF AskClause, ScanColumns, HasExternalClause, Scan, ScanUndefined, ScanSeen,
       ScanCanonical, ScanNoncanonical, ScanForbidden, ScanDone
  <2> QED BY <1>1, <2>1, <2>2
<1>5. CASE AddClause
  <2>1. trail' = trail /\ pending' = pending /\ TakeClause
        /\ pc # "notify" /\ pc' \notin Settling
    BY <1>5 DEF AddClause, Settling
  <2> QED BY <1>1, <2>1 DEF TakeClause
<1>6. CASE CheckModel
  <2>1. trail' = trail /\ pending' = pending
        /\ pc # "notify" /\ (pc' \in Settling => pc \in Settling)
    BY <1>6 DEF CheckModel, Settling
  <2> QED BY <1>1, <1>6, <2>1 DEF CheckModel, CheckFoundModel
<1>7. CASE AddUnit \/ AnalyzeForced \/ AnalyzeLearned
  <2>1. pc # "notify"
    BY <1>7 DEF AddUnit, AnalyzeForced, AnalyzeLearned
  <2> QED BY <1>7, <2>1, AddUnitInv, AnalyzeForcedInv, AnalyzeLearnedInv, DriveMirror
<1>8. CASE AddDriving
  <2>1. pc # "notify"
    BY <1>8 DEF AddDriving
  <2>2. CASE Drives
    BY <2>1, <2>2, DriveMirror
  <2>3. CASE pc' = "analyze" /\ UNCHANGED <<sbvars, trail, pending>>
    BY <1>1, <2>1, <2>3 DEF sbvars, Settling
  <2> QED BY <1>8, <2>2, <2>3, AddDrivingInv
<1> QED BY <1>2, <1>3, <1>4, <1>5, <1>6, <1>7, <1>8, PropagateMirror, NotifyMirror,
           RestartMirror, DecideMirror DEF Next

LEMMA MirrorInit == Init => MirrorInv
<1> SUFFICES ASSUME Init PROVE MirrorInv
  OBVIOUS
<1>1. /\ trail = <<{}>> /\ pending = {} /\ assign = [e \in Edges |-> l_Undef]
      /\ fixed = [e \in Edges |-> FALSE] /\ current_trail = <<{}>>
  BY DEF Init, SBInit
<1>2. /\ Len(trail) = 1 /\ \A k \in 1 .. 1 : trail[k] = {} /\ current_trail[k] = {}
      /\ \A e \in Edges : assign[e] = l_Undef /\ ~fixed[e]
  BY <1>1
<1> QED BY <1>1, <1>2 DEF MirrorInv, Mirrors, ShowsTrail, AssignBacked, FixedBacked,
       LevelsBacked, PendingOK

LEMMA MirrorIs ==
  ASSUME Sane, MirrorInv  PROVE PropagatorMirrorsTrail
<1> SUFFICES ASSUME pc \in Settling, NEW e \in Edges
             PROVE  /\ assign[e] = l_True <=> <<e, TRUE>> \in TrailLits
                    /\ assign[e] = l_False <=> <<e, FALSE>> \in TrailLits
  BY DEF PropagatorMirrorsTrail, True, Settling
<1>1. pending = {} /\ ShowsTrail /\ AssignBacked
  BY DEF MirrorInv, Mirrors, PendingOK
<1>2. \A a \in OnTrail : /\ a.lit[2] \in BOOLEAN /\ a.lit = <<a.lit[1], a.lit[2]>>
                         /\ assign[a.lit[1]] = Sign(a.lit[2])
  <2> SUFFICES ASSUME NEW a \in OnTrail
               PROVE  /\ a.lit[2] \in BOOLEAN /\ a.lit = <<a.lit[1], a.lit[2]>>
                      /\ assign[a.lit[1]] = Sign(a.lit[2])
    OBVIOUS
  <2>1. PICK k \in 1 .. Len(trail) : a \in trail[k]
    BY EntriesAre
  <2>2. a.lit \in Literals(N) /\ a.lit[2] \in BOOLEAN
    BY <2>1, EntriesAre
  <2>3. assign[a.lit[1]] = Sign(a.lit[2])
    BY <1>1, <2>1 DEF ShowsTrail, Announced
  <2> QED BY <2>2, <2>3, NegationIs
<1>3. Sign(TRUE) = l_True /\ Sign(FALSE) = l_False
  BY DEF Sign
<1>4. l_True # l_False /\ l_True # l_Undef /\ l_False # l_Undef
  BY DEF l_True, l_False, l_Undef
<1>5. ASSUME NEW v \in BOOLEAN, <<e, v>> \in TrailLits  PROVE assign[e] = Sign(v)
  <2>1. PICK a \in OnTrail : a.lit = <<e, v>>
    BY <1>5 DEF TrailLits
  <2>2. a.lit[1] = e /\ a.lit[2] = v
    BY <2>1
  <2> QED BY <1>2, <2>2
<1>6. ASSUME NEW v \in BOOLEAN, assign[e] = Sign(v)  PROVE <<e, v>> \in TrailLits
  <2>1. assign[e] # l_Undef
    <3>1. v = TRUE \/ v = FALSE
      OBVIOUS
    <3> QED BY <1>3, <1>4, <1>6, <3>1
  <2>2. PICK a \in OnTrail : a.lit[1] = e
    BY <1>1, <2>1 DEF AssignBacked
  <2>3. Sign(a.lit[2]) = Sign(v) /\ a.lit[2] \in BOOLEAN
    BY <1>2, <1>6, <2>2
  <2>4. a.lit[2] = v
    <3>1. (v = TRUE \/ v = FALSE) /\ (a.lit[2] = TRUE \/ a.lit[2] = FALSE)
      BY <2>3
    <3> QED BY <1>3, <1>4, <2>3, <3>1
  <2>5. a.lit = <<e, v>>
    BY <1>2, <2>2, <2>4
  <2> QED BY <2>5 DEF TrailLits
<1> QED BY <1>3, <1>5, <1>6

\* Levels announced, entries announced and levels popped keep the propagator's
\* trail equal to the part of the solver's that has been announced.
THEOREM MirrorHolds == Spec => []MirrorInv
<1>1. SearchInv => Sane /\ TrailInv
  BY DEF SearchInv, Sane, TrailInv
<1>2. SearchInv /\ MirrorInv /\ [Next]_vars => MirrorInv'
  BY <1>1, MirrorNext
<1> QED BY <1>2, MirrorInit, SearchKeepsInvariant, PTL DEF Spec

\* Whenever it is called back the propagator's copy of the trail is the solver's:
\* its levels are popped with the solver's, what chronological backtracking keeps
\* on the trail is announced again, and what is fixed is never retracted.
THEOREM MirrorsTrail == Spec => []PropagatorMirrorsTrail
<1>1. SearchInv /\ MirrorInv => PropagatorMirrorsTrail
  <2>1. SearchInv => Sane
    BY DEF SearchInv, Sane, TrailInv
  <2> QED BY <2>1, MirrorIs
<1> QED BY <1>1, SearchKeepsInvariant, MirrorHolds, PTL


-----------------------------------------------------------------------------
(* PendingClauseFalsified and CountsModelsOnce: what the propagator offers  *)
(* is false when it is read, and blocks the model it was made for.         *)

OffersOK ==
  /\ col # 0 <=> pc = "scan"
  /\ col # 0 => Defined(Pairs(col))
  /\ new_clauses # <<>> =>
       Len(new_clauses) = 1 /\ (pc = "extprop" \/ (pc = "asked" /\ answer))
  /\ \A c \in Offered : Falsified(c)

Blocks(G) == {<<e, ~G[e]>> : e \in Edges}
FoundOK ==
  /\ cnf \subseteq db
  /\ found \subseteq Graphs(N) /\ IsFiniteSet(found) /\ sol_count = Cardinality(found)
  /\ \A G \in found : (\A c \in cnf : Satisfies(G, c)) /\ Blocks(G) \in db \cup Offered
  /\ pc \in Settling => \A c \in db : ~Falsified(c)

OfferInv == OffersOK /\ FoundOK

LEMMA NothingOffered == new_clauses = <<>> => Offered = {}
BY DEF Offered

\* A graph the trail says: its blocking clause is false, and it satisfies every
\* clause that is not.
LEMMA ModelOnTrail ==
  ASSUME Sane, Satisfied, NEW M, M = [e \in Edges |-> True(<<e, TRUE>>)]
  PROVE  /\ M \in Graphs(N)
         /\ Falsified(Blocks(M))
         /\ \A c \in Clauses : ~Falsified(c) => Satisfies(M, c)
<1>1. M \in [Edges -> BOOLEAN]
  BY DEF True
<1>2. \A a \in OnTrail : a.lit \in Literals(N) /\ a.lit \in TrailLits
  BY TrailEntries DEF TrailLits
<1>3. \A a, c \in OnTrail : a.lit[1] = c.lit[1] => a = c
  BY TrailEntries
<1>4. \A e \in Edges : M[e] <=> <<e, TRUE>> \in TrailLits
  BY DEF True
\* Every edge has the literal on the trail that M gives it.
<1>5. ASSUME NEW e \in Edges  PROVE <<e, M[e]>> \in TrailLits
  <2>1. PICK a \in OnTrail : a.lit[1] = e
    BY DEF Satisfied
  <2>2. a.lit = <<e, a.lit[2]>> /\ a.lit[2] \in BOOLEAN
    BY <1>2, <2>1, NegationIs
  <2>3. CASE a.lit[2] = TRUE
    <3>1. M[e] = TRUE
      BY <1>1, <1>2, <1>4, <2>2, <2>3
    <3> QED BY <1>2, <2>2, <2>3, <3>1
  <2>4. CASE a.lit[2] = FALSE
    <3>1. <<e, TRUE>> \notin TrailLits
      <4> SUFFICES ASSUME NEW c \in OnTrail, c.lit = <<e, TRUE>>  PROVE FALSE
        BY DEF TrailLits
      <4>1. c.lit[1] = e /\ c.lit[2] = TRUE
        OBVIOUS
      <4>2. c = a
        BY <1>3, <2>1, <4>1
      <4> QED BY <2>4, <4>1, <4>2
    <3>2. M[e] = FALSE
      BY <1>1, <1>4, <3>1
    <3> QED BY <1>2, <2>2, <2>4, <3>2
  <2> QED BY <2>2, <2>3, <2>4
<1>6. Falsified(Blocks(M))
  <2> SUFFICES ASSUME NEW e \in Edges  PROVE False(<<e, ~M[e]>>)
    BY DEF Falsified, Blocks
  <2>1. Negation(<<e, ~M[e]>>) = <<e, ~~M[e]>>
    BY DEF Negation
  <2>2. M[e] \in BOOLEAN
    BY <1>1
  <2>3. (~~M[e]) = M[e]
    BY <2>2
  <2> QED BY <1>5, <2>1, <2>3 DEF False
<1>7. ASSUME NEW c \in Clauses, ~Falsified(c)  PROVE Satisfies(M, c)
  <2>1. PICK l \in c : Negation(l) \notin TrailLits
    BY <1>7 DEF Falsified, False
  <2>2. l \in Literals(N) /\ l[1] \in Edges /\ l[2] \in BOOLEAN
    <3>1. l \in Literals(N)
      BY DEF Clauses
    <3> QED BY <3>1, NegationIs
  <2>3. <<l[1], M[l[1]]>> \in TrailLits
    BY <1>5, <2>2
  <2>4. Negation(l) = <<l[1], ~l[2]>>
    BY DEF Negation
  <2>5. M[l[1]] \in BOOLEAN /\ M[l[1]] # ~l[2]
    BY <1>1, <2>1, <2>2, <2>3, <2>4
  <2>6. M[l[1]] = l[2]
    BY <2>2, <2>5
  <2> QED BY <2>6 DEF Satisfies
<1> QED BY <1>1, <1>6, <1>7 DEF Graphs, Edges

\* What the propagator has recorded as true or false is so on the trail.
LEMMA RecordedIs ==
  ASSUME PropagatorMirrorsTrail, pc = "scan", NEW e \in Edges
  PROVE  /\ assign[e] = l_True => False(<<e, FALSE>>)
         /\ assign[e] = l_False => False(<<e, TRUE>>)
<1>1. Negation(<<e, FALSE>>) = <<e, TRUE>> /\ Negation(<<e, TRUE>>) = <<e, FALSE>>
  BY DEF Negation
<1>2. /\ assign[e] = l_True => <<e, TRUE>> \in TrailLits
      /\ assign[e] = l_False => <<e, FALSE>> \in TrailLits
  BY DEF PropagatorMirrorsTrail, True
<1> QED BY <1>1, <1>2 DEF False

LEMMA DefinedColumn ==
  ASSUME NEW i \in Columns, Defined(Pairs(i)), Defined(Column(i))
  PROVE  Defined(Pairs(i + 1))
<1> SUFFICES ASSUME NEW e \in Pairs(i + 1)  PROVE e \in Pairs(i) \/ e \in Column(i)
  BY DEF Defined
<1>1. i \in Nat
  BY ColumnsAreEdges
<1> QED BY <1>1 DEF Pairs, Column, Vertices

\* The clause that blocks a subgraph that is not canonical is false.
LEMMA BlockFalsified ==
  ASSUME Sane, PropagatorMirrorsTrail, pc = "scan", col \in Columns,
         Defined(Pairs(col + 1)), NEW w \in Witnesses(col)
  PROVE  Falsified(BlockingClause(Subgraph(col + 1), w.p, w.e))
<1> DEFINE M == Subgraph(col + 1)
<1>1. w \in CandidatesOf[col] /\ SmallerAt(M, w.p, w.e)
  BY DEF Witnesses
<1>2. PICK m \in 0 .. col : w.p \in Relabellings(m, col + 1) /\ w.e \in Pairs(m + 1)
  BY <1>1, CandidateShape
<1>3. col \in Nat /\ col + 1 \in Nat /\ m \in 0 .. ((col + 1) - 1) /\ Pairs(col + 1) \subseteq Edges
  BY ColumnsAreEdges
<1>4. Pairs(m + 1) \subseteq Pairs(col + 1) /\ \A f \in Pairs(m + 1) : Image(w.p, f) \in Pairs(col + 1)
  BY <1>2, <1>3, PairsMonotone, ImageInPairs
<1>5. Pairs(w.e[1] + 1) \subseteq Pairs(m + 1)
  <2>1. w.e[1] + 1 \in Nat /\ w.e[1] + 1 <= m + 1 /\ m + 1 \in Nat
    BY <1>2, <1>3 DEF Pairs, Vertices
  <2> QED BY <2>1, PairsMonotone
<1>6. \A f \in Pairs(col + 1) : /\ M[f] => False(<<f, FALSE>>)
                                /\ ~M[f] => False(<<f, TRUE>>)
  <2> SUFFICES ASSUME NEW f \in Pairs(col + 1)
               PROVE  /\ M[f] => False(<<f, FALSE>>)
                      /\ ~M[f] => False(<<f, TRUE>>)
    OBVIOUS
  <2>1. M[f] <=> assign[f] = l_True
    BY DEF Subgraph
  <2>2. assign[f] \in {l_True, l_False} /\ f \in Edges
    BY <1>3 DEF Defined, Sane, SBTypeOK
  <2> QED BY <2>1, <2>2, RecordedIs
<1>7. M[w.e] /\ ~M[Image(w.p, w.e)]
  BY <1>1 DEF SmallerAt
<1> HIDE DEF M
<1> SUFFICES ASSUME NEW l \in BlockingClause(M, w.p, w.e)  PROVE False(l)
  BY DEF Falsified, M
<1>8. \/ l = <<w.e, FALSE>> \/ l = <<Image(w.p, w.e), TRUE>>
      \/ \E f \in Pairs(w.e[1] + 1) : l = <<f, FALSE>> /\ M[f]
      \/ \E f \in Pairs(w.e[1] + 1) : l = <<Image(w.p, f), TRUE>> /\ ~M[Image(w.p, f)]
  BY DEF BlockingClause
<1> QED BY <1>2, <1>4, <1>5, <1>6, <1>7, <1>8


LEMMA TrailSame == trail' = trail => \A c : Falsified(c)' <=> Falsified(c)
BY DEF Falsified, False, TrailLits, OnTrail

\* Steps in which nothing is on offer and nothing is found.
LEMMA QuietOffer ==
  ASSUME OfferInv, new_clauses = <<>>, new_clauses' = <<>>, col' = col, pc # "scan",
         pc' # "scan", cnf' = cnf, found' = found, sol_count' = sol_count, db' = db,
         pc' \in Settling => trail' = trail /\ \A c \in db : ~Falsified(c)
  PROVE  OfferInv'
<1>1. Offered' = {} /\ Offered = {}
  BY DEF Offered
<1>2. col = 0
  BY DEF OfferInv, OffersOK
<1>3. OffersOK'
  BY <1>1, <1>2 DEF OffersOK
<1>4. pc' \in Settling => \A c \in db' : ~Falsified(c)'
  BY TrailSame
<1>5. FoundOK'
  BY <1>1, <1>4 DEF OfferInv, FoundOK, Blocks, Settling
<1> QED BY <1>3, <1>5 DEF OfferInv

LEMMA AskOffer ==
  ASSUME Sane, OfferInv, AskClause  PROVE OfferInv'
<1>1. /\ pc = "extprop" /\ trail' = trail /\ db' = db /\ found' = found /\ cnf' = cnf
      /\ new_clauses' = new_clauses /\ sol_count' = sol_count /\ assign' = assign
      /\ pc' = (IF col' = 0 THEN "asked" ELSE "scan")
      /\ \/ new_clauses # <<>> /\ answer' = TRUE /\ col' = col
         \/ new_clauses = <<>> /\ col' = col
         \/ new_clauses = <<>> /\ Defined(Pairs(FirstTouched)) /\ col' = FirstTouched
      /\ col = 0
  BY DEF AskClause, HasExternalClause, inputs
<1>2. FirstTouched # 0
  BY FirstTouchedType, NAssumption
<1>3. Offered' = Offered /\ \A E : Defined(E)' = Defined(E)
  BY <1>1 DEF Offered, Defined
<1>4. OffersOK'
  <2>1. col' # 0 <=> pc' = "scan"
    BY <1>1
  <2>2. col' # 0 => Defined(Pairs(col'))
    BY <1>1
  <2>3. Defined(Pairs(col))' <=> Defined(Pairs(col'))
    BY <1>1 DEF Defined
  <2>4. new_clauses' # <<>> =>
          Len(new_clauses') = 1 /\ (pc' = "extprop" \/ (pc' = "asked" /\ answer'))
    BY <1>1 DEF OfferInv, OffersOK
  <2>5. \A c \in Offered' : Falsified(c)'
    BY <1>1, <1>3, TrailSame DEF OfferInv, OffersOK
  <2> QED BY <2>1, <2>2, <2>3, <2>4, <2>5 DEF OffersOK
<1>5. FoundOK'
  <2>1. \A c \in db' : ~Falsified(c)'
    BY <1>1, TrailSame DEF OfferInv, FoundOK, Settling
  <2> QED BY <1>1, <1>3, <2>1 DEF OfferInv, FoundOK, Blocks
<1> QED BY <1>4, <1>5 DEF OfferInv

\* One clause on offer.
LEMMA OneOffered ==
  ASSUME NEW c, new_clauses = <<>>, new_clauses' = Append(new_clauses, c)
  PROVE  Len(new_clauses') = 1 /\ Offered' = {c} /\ Offered = {}
<1>1. new_clauses' = <<c>>
  OBVIOUS
<1> QED BY <1>1 DEF Offered

LEMMA ScanOffer ==
  ASSUME Sane, PropagatorMirrorsTrail, OfferInv, ScanColumns  PROVE OfferInv'
<1>1. /\ pc = "scan" /\ Scan /\ trail' = trail /\ db' = db /\ found' = found /\ cnf' = cnf
      /\ pc' = (IF col' = 0 THEN "asked" ELSE "scan")
  BY DEF ScanColumns, inputs
<1>2. col # 0 /\ Defined(Pairs(col)) /\ new_clauses = <<>> /\ Offered = {}
  BY <1>1, NothingOffered DEF OfferInv, OffersOK
<1>3. sol_count' = sol_count /\ assign' = assign
  BY <1>1 DEF Scan, ScanUndefined, ScanSeen, ScanCanonical, ScanNoncanonical,
     ScanForbidden, ScanDone
<1>4. FoundOK'
  <2>1. \A c \in db' : ~Falsified(c)'
    BY <1>1, TrailSame DEF OfferInv, FoundOK, Settling
  <2> QED BY <1>1, <1>2, <1>3, <2>1 DEF OfferInv, FoundOK, Blocks
<1>5. (col' # 0 <=> pc' = "scan") /\ (Defined(Pairs(col))' <=> Defined(Pairs(col')))
  BY <1>1, <1>3 DEF Defined
<1>6. CASE new_clauses' = new_clauses /\ (col' # 0 => Defined(Pairs(col')))
  <2>1. Offered' = {}
    BY <1>2, <1>6 DEF Offered
  <2> QED BY <1>2, <1>4, <1>5, <1>6, <2>1 DEF OfferInv, OffersOK
<1>7. ASSUME NEW c, new_clauses' = Append(new_clauses, c), Falsified(c), answer' = TRUE, col' = 0
      PROVE  OfferInv'
  <2>1. Len(new_clauses') = 1 /\ Offered' = {c}
    BY <1>2, <1>7, OneOffered
  <2>2. pc' = "asked" /\ Falsified(c)'
    BY <1>1, <1>7, TrailSame
  <2> QED BY <1>4, <1>5, <1>7, <2>1, <2>2 DEF OfferInv, OffersOK
<1>8. CASE ScanUndefined \/ ScanDone
  <2>1. new_clauses' = new_clauses /\ col' = 0
    BY <1>8 DEF ScanUndefined, ScanDone
  <2> QED BY <1>6, <2>1
<1>9. CASE ScanSeen \/ ScanCanonical
  <2>1. new_clauses' = new_clauses /\ col' = col + 1 /\ col \in Columns /\ Defined(Column(col))
    BY <1>9 DEF ScanSeen, ScanCanonical
  <2>2. Defined(Pairs(col + 1))
    BY <1>2, <2>1, DefinedColumn
  <2> QED BY <1>6, <2>1, <2>2
<1>10. ASSUME col \in Columns, NEW w \in Witnesses(col), ScanNoncanonical(w)
       PROVE  OfferInv'
  <2> DEFINE c == BlockingClause(Subgraph(col + 1), w.p, w.e)
  <2>1. /\ new_clauses' = Append(new_clauses, c) /\ answer' = TRUE /\ col' = 0
        /\ Defined(Column(col))
    BY <1>10 DEF ScanNoncanonical
  <2>2. Falsified(c)
    BY <1>1, <1>2, <1>10, <2>1, DefinedColumn, BlockFalsified
  <2> HIDE DEF c
  <2> QED BY <1>7, <2>1, <2>2
<1>11. CASE ScanForbidden
  <2>1. PICK g \in Forbidden : \E copy \in Copies(g) :
               new_clauses' = Append(new_clauses, {<<e, FALSE>> : e \in copy})
    BY <1>11 DEF ScanForbidden
  <2>2. PICK copy \in Copies(g) :
               new_clauses' = Append(new_clauses, {<<e, FALSE>> : e \in copy})
    BY <2>1
  <2>3. PICK p \in VertexOrders : /\ copy = {Image(p, e) : e \in g}
                                  /\ \A e \in g : assign[Image(p, e)] = l_True
    BY DEF Copies
  <2>4. \A e \in g : Image(p, e) \in Edges
    <3>1. p \in Relabellings(N - 1, N) /\ N \in Nat /\ N - 1 \in 0 .. (N - 1) /\ (N - 1) + 1 = N
      BY NAssumption DEF VertexOrders
    <3>2. g \subseteq Pairs((N - 1) + 1)
      BY <3>1, ForbiddenAssumption DEF Edges
    <3> QED BY <3>1, <3>2, ImageInPairs DEF Edges
  <2>5. \A e \in g : False(<<Image(p, e), FALSE>>)
    BY <1>1, <2>3, <2>4, RecordedIs
  <2>6. Falsified({<<e, FALSE>> : e \in copy})
    BY <2>3, <2>5 DEF Falsified
  <2>7. answer' = TRUE /\ col' = 0
    BY <1>11 DEF ScanForbidden
  <2> QED BY <1>7, <2>2, <2>6, <2>7
<1> QED BY <1>1, <1>8, <1>9, <1>10, <1>11 DEF Scan

LEMMA AddClauseOffer ==
  ASSUME Sane, OfferInv, AddClause  PROVE OfferInv'
<1> DEFINE clause == new_clauses[Len(new_clauses)]
<1>1. /\ pc = "asked" /\ pc' \notin Settling /\ pc' # "scan" /\ db' = db \cup {clause}
      /\ trail' = trail /\ found' = found /\ cnf' = cnf /\ TakeClause
  BY DEF AddClause, inputs, Settling
<1>2. /\ new_clauses # <<>> /\ new_clauses' = SubSeq(new_clauses, 1, Len(new_clauses) - 1)
      /\ col = 0 /\ col' = 0 /\ sol_count' = sol_count
  BY <1>1 DEF TakeClause
<1>3. Len(new_clauses) = 1 /\ new_clauses \in Seq(Clauses)
  BY <1>2 DEF OfferInv, OffersOK, Sane, SBTypeOK
<1>4. new_clauses' = <<>> /\ Offered' = {} /\ Offered = {clause}
  <2>1. new_clauses' = <<>>
    BY <1>2, <1>3
  <2>2. DOMAIN new_clauses = {1} /\ Len(new_clauses) = 1
    BY <1>3
  <2> QED BY <2>1, <2>2 DEF Offered
<1> HIDE DEF clause
<1>5. OffersOK'
  BY <1>1, <1>2, <1>4 DEF OffersOK
<1>6. FoundOK'
  BY <1>1, <1>2, <1>4 DEF OfferInv, FoundOK, Blocks
<1> QED BY <1>5, <1>6 DEF OfferInv

\* A model that is shown is new: its blocking clause would be a false one.
LEMMA CheckModelOffer ==
  ASSUME Sane, OfferInv, CheckModel  PROVE OfferInv'
<1> DEFINE model == [e \in Edges |-> True(<<e, TRUE>>)]
<1>1. /\ pc \in {"check", "recheck"} /\ pc' = "extprop" /\ Satisfied
      /\ trail' = trail /\ db' = db /\ cnf' = cnf /\ found' = found \cup {model}
      /\ new_clauses' = Append(new_clauses, Blocks(model)) /\ col = 0 /\ col' = 0
      /\ sol_count' = sol_count + 1
  BY DEF CheckModel, CheckFoundModel, inputs, Blocks
<1>2. /\ model \in Graphs(N) /\ Falsified(Blocks(model))
      /\ \A c \in Clauses : ~Falsified(c) => Satisfies(model, c)
  BY <1>1, ModelOnTrail
<1> HIDE DEF model
<1>3. new_clauses = <<>> /\ \A c \in db : ~Falsified(c)
  BY <1>1 DEF OfferInv, OffersOK, FoundOK, Settling
<1>4. Len(new_clauses') = 1 /\ Offered' = {Blocks(model)} /\ Offered = {}
  BY <1>1, <1>3, OneOffered
<1>5. model \notin found
  BY <1>2, <1>3, <1>4 DEF OfferInv, FoundOK
<1>6. \A c \in cnf : Satisfies(model, c)
  BY <1>2, <1>3 DEF OfferInv, FoundOK, Sane, SolverInv
<1>7. IsFiniteSet(found') /\ sol_count' = Cardinality(found')
  BY <1>1, <1>5, FS_AddElement DEF OfferInv, FoundOK
<1>8. \A c : Falsified(c)' <=> Falsified(c)
  BY <1>1, TrailSame
<1>9. OffersOK'
  BY <1>1, <1>2, <1>4, <1>8 DEF OffersOK
<1>10. FoundOK'
  BY <1>1, <1>2, <1>3, <1>4, <1>6, <1>7, <1>8 DEF OfferInv, FoundOK, Blocks
<1> QED BY <1>9, <1>10 DEF OfferInv


LEMMA OfferNext ==
  ASSUME Sane, PropagatorMirrorsTrail, OfferInv, [Next]_vars  PROVE OfferInv'
<1>1. CASE UNCHANGED vars
  <2>1. /\ pc' = pc /\ col' = col /\ new_clauses' = new_clauses /\ answer' = answer
        /\ trail' = trail /\ db' = db /\ found' = found /\ cnf' = cnf
        /\ sol_count' = sol_count /\ assign' = assign
    BY <1>1 DEF vars, sbvars, inputs
  <2>2. Offered' = Offered /\ \A c : Falsified(c)' <=> Falsified(c)
    BY <2>1, TrailSame DEF Offered
  <2>3. OffersOK'
    BY <2>1, <2>2 DEF OfferInv, OffersOK, Defined
  <2>4. FoundOK'
    BY <2>1, <2>2 DEF OfferInv, FoundOK, Blocks
  <2> QED BY <2>3, <2>4 DEF OfferInv
<1>2. ASSUME pc \notin {"extprop", "scan", "asked"} \/ (pc = "asked" /\ ~answer),
             pc' # "scan", new_clauses' = new_clauses, col' = col, sol_count' = sol_count,
             cnf' = cnf, found' = found, db' = db,
             pc' \in Settling => trail' = trail /\ \A c \in db : ~Falsified(c)
      PROVE  OfferInv'
  <2>1. new_clauses = <<>> /\ pc # "scan"
    BY <1>2 DEF OfferInv, OffersOK
  <2> QED BY <1>2, <2>1, QuietOffer
<1>3. pc \in Settling => \A c \in db : ~Falsified(c)
  BY DEF OfferInv, FoundOK
<1>4. CASE NoClause \/ FoundModel
  <2>1. /\ UNCHANGED sbvars /\ cnf' = cnf /\ found' = found /\ db' = db /\ trail' = trail
        /\ pc \in Settling /\ pc' # "scan"
        /\ (pc \notin {"extprop", "scan", "asked"} \/ (pc = "asked" /\ ~answer))
    BY <1>4 DEF NoClause, FoundModel, inputs, Settling
  <2> QED BY <1>2, <1>3, <2>1 DEF sbvars
<1>5. CASE PropagateConflict \/ CheckEnds \/ AnalyzeRoot
  <2>1. /\ UNCHANGED sbvars /\ cnf' = cnf /\ found' = found /\ db' = db
        /\ pc \notin {"extprop", "scan", "asked"} /\ pc' # "scan" /\ pc' \notin Settling
    BY <1>5 DEF PropagateConflict, CheckEnds, AnalyzeRoot, inputs, Settling
  <2> QED BY <1>2, <2>1 DEF sbvars
<1>6. CASE Propagate
  <2>1. new_clauses' = new_clauses /\ col' = col /\ sol_count' = sol_count
    BY <1>6 DEF Propagate, NotifyAssignment, sbvars
  <2>2. /\ cnf' = cnf /\ found' = found /\ db' = db
        /\ pc \notin {"extprop", "scan", "asked"} /\ pc' # "scan" /\ pc' \notin Settling
    BY <1>6 DEF Propagate, inputs, Settling
  <2> QED BY <1>2, <2>1, <2>2
<1>7. CASE PropagateDone
  <2>1. new_clauses' = new_clauses /\ col' = col /\ sol_count' = sol_count
    BY <1>7 DEF PropagateDone, NotifyAssignment
  <2>2. /\ cnf' = cnf /\ found' = found /\ db' = db /\ trail' = trail
        /\ pc \notin {"extprop", "scan", "asked"} /\ pc' # "scan"
        /\ \A c \in db : ~Falsified(c)
    BY <1>7 DEF PropagateDone, inputs
  <2> QED BY <1>2, <2>1, <2>2
<1>8. CASE Notify
  <2>1. new_clauses' = new_clauses /\ col' = col /\ sol_count' = sol_count
    BY <1>8 DEF Notify, NotifyAssignment
  <2>2. /\ cnf' = cnf /\ found' = found /\ db' = db
        /\ pc \notin {"extprop", "scan", "asked"} /\ pc' # "scan" /\ pc' \notin Settling
    BY <1>8 DEF Notify, inputs, Settling
  <2> QED BY <1>2, <2>1, <2>2
<1>9. CASE AddUnit \/ AddDriving
  <2>1. new_clauses' = new_clauses /\ col' = col /\ sol_count' = sol_count
    BY <1>9 DEF AddUnit, AddDriving, BacktrackAndDrive, NotifyBacktrack, sbvars
  <2>2. /\ cnf' = cnf /\ found' = found /\ db' = db
        /\ pc \notin {"extprop", "scan", "asked"} /\ pc' # "scan" /\ pc' \notin Settling
    BY <1>9 DEF AddUnit, AddDriving, BacktrackAndDrive, inputs, Settling
  <2> QED BY <1>2, <2>1, <2>2
<1>10. CASE AnalyzeForced \/ AnalyzeLearned \/ Restart
  <2>1. new_clauses' = new_clauses /\ col' = col /\ sol_count' = sol_count
    BY <1>10 DEF AnalyzeForced, AnalyzeLearned, Restart, BacktrackAndDrive, NotifyBacktrack
  <2>2. /\ cnf' = cnf /\ found' = found /\ db' = db
        /\ pc \notin {"extprop", "scan", "asked"} /\ pc' # "scan" /\ pc' \notin Settling
    BY <1>10 DEF AnalyzeForced, AnalyzeLearned, Restart, BacktrackAndDrive, inputs, Settling
  <2> QED BY <1>2, <2>1, <2>2
<1>11. CASE Decide
  <2>1. new_clauses' = new_clauses /\ col' = col /\ sol_count' = sol_count
    BY <1>11 DEF Decide, NotifyNewDecisionLevel
  <2>2. /\ cnf' = cnf /\ found' = found /\ db' = db
        /\ pc \notin {"extprop", "scan", "asked"} /\ pc' # "scan" /\ pc' \notin Settling
    BY <1>11 DEF Decide, inputs, Settling
  <2> QED BY <1>2, <2>1, <2>2
<1>12. CASE Finished
  BY <1>1, <1>12 DEF Finished
<1> QED BY <1>1, <1>4, <1>5, <1>6, <1>7, <1>8, <1>9, <1>10, <1>11, <1>12, AskOffer,
           ScanOffer, AddClauseOffer, CheckModelOffer DEF Next

LEMMA OfferInit == Init => OfferInv
<1> SUFFICES ASSUME Init PROVE OfferInv
  OBVIOUS
<1>1. /\ db = cnf /\ new_clauses = <<>> /\ col = 0 /\ found = {} /\ sol_count = 0
      /\ pc = "propagate"
  BY DEF Init, SBInit
<1>2. Offered = {}
  BY <1>1, NothingOffered
<1>3. IsFiniteSet(found) /\ Cardinality(found) = 0
  BY <1>1, FS_EmptySet
<1> QED BY <1>1, <1>2, <1>3 DEF OfferInv, OffersOK, FoundOK, Settling

\* A clause on offer stays false until it is taken, and the clause that blocks a
\* model shown is held or on offer from then on, so no model is shown twice.
THEOREM OffersHold == Spec => []OfferInv
<1>1. SearchInv => Sane
  BY DEF SearchInv, Sane, TrailInv
<1>2. SearchInv /\ PropagatorMirrorsTrail /\ OfferInv /\ [Next]_vars => OfferInv'
  BY <1>1, OfferNext
<1> QED BY <1>2, OfferInit, SearchKeepsInvariant, MirrorsTrail, PTL DEF Spec

\* add_external_clause never reads a clause that is not false on the trail.
THEOREM PendingFalsified == Spec => []PendingClauseFalsified
<1>1. OfferInv => PendingClauseFalsified
  BY DEF OfferInv, OffersOK, Offered, PendingClauseFalsified
<1> QED BY <1>1, OffersHold, PTL

\* sol_count is the number of models shown, which are all different and all
\* satisfy the instance.
THEOREM CountedOnce == Spec => []CountsModelsOnce
<1>1. OfferInv => CountsModelsOnce
  BY DEF OfferInv, FoundOK, CountsModelsOnce
<1> QED BY <1>1, OffersHold, PTL

-----------------------------------------------------------------------------
(* SearchedModelsCanonical: the last column is tested before a model that   *)
(* the search reaches is shown.                                             *)

\* No two graphs share a hash, and the memory of colsuntouched starts cleared.
\* The code assures neither; without them the property fails.
HashesDistinct ==
  HashOf[{}] = 0 /\ \A E, F \in SUBSET Edges : HashOf[E] = HashOf[F] => E = F
FreshColumns == InitialColumns = {[i \in Columns |-> FALSE]}

Last == N - 1
Tested == Last \in Columns => colsuntouched[Last]

\* What is kept of a graph that was found canonical is its hash.
HashesOfCanonical ==
  Last \in Columns => \A h \in canonical_hashes[Last] :
    \E G \in CanonicalGraphs(N) : h = HashOf[{e \in Edges : G[e]}]

\* A last column that was analysed and has not been touched since: the graph is
\* canonical, or a clause blocks it that the solver has or is about to read.
TestHolds ==
  Last \in Columns /\ colsuntouched[Last] =>
    /\ Defined(Edges)
    /\ \/ Canonical(N, Subgraph(N))
       \/ \E c \in db \cup Offered : ~Satisfies(Subgraph(N), c)

\* The scan does not end without the last column unless an entry is undefined.
AskedAll ==
  /\ col = N => Tested
  /\ pc \in {"search", "check"} \/ (pc = "asked" /\ ~answer) => ~Defined(Edges) \/ Tested

\* The loop of external_check_solution comes back to its test only at the root.
CheckingAtRoot ==
  /\ pc = "recheck" => checking
  /\ checking => \/ pc \in {"check", "analyze", "drive", "unit", "done"}
                 \/ pc = "extprop" /\ new_clauses # <<>>
                 \/ pc = "asked" /\ answer
                 \/ pc \in {"notify", "propagate", "recheck"} /\ Len(trail) = 1

TestedInv == HashesOfCanonical /\ TestHolds /\ AskedAll /\ CheckingAtRoot

LEMMA LastIs ==
  /\ Last \in Nat /\ Last + 1 = N /\ Edges = Pairs(Last + 1)
  /\ \A e \in Edges : ~(Last < e[1])
  /\ \A i \in Columns : i # Last => i + 1 # N
  /\ Last \notin Columns => N = 2
BY NAssumption DEF Last, Columns, Edges, Pairs, Vertices

\* Steps that touch the last column or leave the assignment alone.
LEMMA KeepTested ==
  ASSUME TestHolds, HashesOfCanonical,
         canonical_hashes' = canonical_hashes,
         Last \in Columns /\ colsuntouched'[Last] => colsuntouched[Last] /\ assign' = assign,
         db \cup Offered \subseteq db' \cup Offered'
  PROVE  TestHolds' /\ HashesOfCanonical'
<1>1. HashesOfCanonical'
  BY DEF HashesOfCanonical
<1>2. TestHolds'
  <2> SUFFICES ASSUME Last \in Columns, colsuntouched'[Last]
               PROVE  /\ Defined(Edges)'
                      /\ \/ Canonical(N, Subgraph(N))'
                         \/ \E c \in db' \cup Offered' : ~Satisfies(Subgraph(N), c)'
    BY DEF TestHolds
  <2>1. assign' = assign /\ colsuntouched[Last]
    OBVIOUS
  <2>2. /\ Defined(Edges)
        /\ \/ Canonical(N, Subgraph(N))
           \/ \E c \in db \cup Offered : ~Satisfies(Subgraph(N), c)
    BY <2>1 DEF TestHolds
  <2>3. Defined(Edges)' /\ Subgraph(N)' = Subgraph(N)
    BY <2>1, <2>2 DEF Defined, Subgraph
  <2>4. (Canonical(N, Subgraph(N))' <=> Canonical(N, Subgraph(N)))
        /\ \A c : Satisfies(Subgraph(N), c)' <=> Satisfies(Subgraph(N), c)
    BY <2>3 DEF Canonical, SmallerAt, Satisfies
  <2> QED BY <2>2, <2>3, <2>4
<1> QED BY <1>1, <1>2

\* A step back that takes an entry away touches the last column.
LEMMA BackTouches ==
  ASSUME SBTypeOK, NEW b, NotifyBacktrack(b), Last \in Columns, colsuntouched'[Last]
  PROVE  colsuntouched[Last] /\ assign' = assign
<1>1. colsuntouched[Last] /\ \A e \in Retracted(b) : Last < e[1]
  BY DEF NotifyBacktrack
<1>2. Retracted(b) = {}
  BY <1>1, LastIs DEF Retracted
<1>3. assign' = [e \in Edges |-> assign[e]]
  BY <1>2 DEF NotifyBacktrack
<1> QED BY <1>1, <1>3 DEF SBTypeOK

\* When every entry is defined nothing is left to be announced.
LEMMA NothingPending ==
  ASSUME Sane, MirrorInv, Defined(Edges)
  PROVE  pending = {} /\ \A l \in Literals(N) : ~Unassigned(l)
<1>1. \A e \in Edges : \E a \in OnTrail : a.lit[1] = e /\ Announced(a)
  BY DEF MirrorInv, Mirrors, AssignBacked, Defined
<1>2. ASSUME NEW l \in pending  PROVE FALSE
  <2>1. PICK a \in trail[Len(trail)] : a.lit = l
    BY DEF MirrorInv, PendingOK
  <2>2. Len(trail) \in 1 .. Len(trail) /\ a \in OnTrail /\ a.lit[1] \in Edges
    BY EntriesAre
  <2>3. PICK c \in OnTrail : c.lit[1] = a.lit[1] /\ Announced(c)
    BY <1>1, <2>2
  <2>4. c = a
    BY <2>2, <2>3, TrailEntries
  <2> QED BY <2>1, <2>3, <2>4 DEF Announced
<1>3. ASSUME NEW l \in Literals(N)  PROVE ~Unassigned(l)
  <2>1. l[1] \in Edges
    BY NegationIs
  <2>2. PICK a \in OnTrail : a.lit[1] = l[1]
    BY <1>1, <2>1
  <2>3. a.lit \in Literals(N)
    BY TrailEntries
  <2>4. a.lit = l \/ a.lit = Negation(l)
    BY <2>2, <2>3, NegationIs
  <2> QED BY <2>4 DEF Unassigned, True, False, TrailLits
<1> QED BY <1>2, <1>3

LEMMA NoAnnouncement ==
  ASSUME SBTypeOK, NotifyAssignment({}, {})  PROVE assign' = assign
<1>1. assign' = [e \in Edges |-> assign[e]]
  BY DEF NotifyAssignment, Assigned
<1> QED BY <1>1 DEF SBTypeOK

\* On a full assignment a clause that is false on the trail is false in the graph.
LEMMA FalseInGraph ==
  ASSUME PropagatorMirrorsTrail, pc = "scan", Defined(Edges), SBTypeOK,
         NEW c \in Clauses, Falsified(c)
  PROVE  ~Satisfies(Subgraph(N), c)
<1> SUFFICES ASSUME NEW l \in c, Subgraph(N)[l[1]] = l[2]  PROVE FALSE
  BY DEF Satisfies
<1>1. l \in Literals(N) /\ l[1] \in Edges /\ l[2] \in BOOLEAN /\ l = <<l[1], l[2]>>
  <2>1. l \in Literals(N)
    BY DEF Clauses
  <2> QED BY <2>1, NegationIs
<1>2. Negation(l) \in TrailLits /\ Negation(l) = <<l[1], ~l[2]>>
  BY DEF Falsified, False, Negation
<1>3. Subgraph(N)[l[1]] = (assign[l[1]] = l_True)
  BY <1>1 DEF Subgraph, Edges
<1>4. l_True # l_False
  BY DEF l_True, l_False
<1>5. CASE l[2] = TRUE
  <2>1. <<l[1], FALSE>> \in TrailLits
    BY <1>2, <1>5
  <2>2. assign[l[1]] = l_False
    BY <1>1, <2>1 DEF PropagatorMirrorsTrail, True
  <2> QED BY <1>3, <1>4, <1>5, <2>2
<1>6. CASE l[2] = FALSE
  <2>1. <<l[1], TRUE>> \in TrailLits
    BY <1>2, <1>6
  <2>2. assign[l[1]] = l_True
    BY <1>1, <2>1 DEF PropagatorMirrorsTrail, True
  <2> QED BY <1>3, <1>6, <2>2
<1> QED BY <1>1, <1>5, <1>6

\* What the tests of the last column rely on.
LEMMA NoWitnessCanonical ==
  ASSUME Last \in Columns, Witnesses(Last) = {}
  PROVE  Canonical(N, Subgraph(N))
<1> SUFFICES ASSUME NEW p \in Relabellings(N - 1, N), NEW e \in Pairs(N),
                    SmallerAt(Subgraph(N), p, e)
             PROVE  FALSE
  BY DEF Canonical
<1> DEFINE w == [p |-> p, e |-> e]
<1>1. N - 1 \in 1 .. (N - 1) /\ (N - 1) + 1 = N /\ Last + 1 = N
  BY LastIs, NAssumption DEF Last
<1>2. w \in Candidates(N)
  BY <1>1 DEF Candidates
<1>3. w \in Witnesses(Last)
  BY <1>1, <1>2 DEF Witnesses, CandidatesOf
<1> QED BY <1>3

LEMMA EmptyCanonical ==
  ASSUME NEW G, \A e \in Edges : ~G[e]  PROVE Canonical(N, G)
BY DEF Canonical, SmallerAt, Edges

LEMMA SameHashSameGraph ==
  ASSUME HashesDistinct, NEW G \in Graphs(N), NEW M \in Graphs(N),
         HashOf[{e \in Edges : G[e]}] = HashOf[{e \in Edges : M[e]}]
  PROVE  G = M
<1>1. {e \in Edges : G[e]} = {e \in Edges : M[e]}
  BY DEF HashesDistinct
<1>2. G \in [Edges -> BOOLEAN] /\ M \in [Edges -> BOOLEAN]
  BY DEF Graphs, Edges
<1>3. \A e \in Edges : G[e] = M[e]
  BY <1>1, <1>2
<1> QED BY <1>2, <1>3

LEMMA SubgraphIs ==
  ASSUME Last \in Columns
  PROVE  /\ Subgraph(N) \in Graphs(N)
         /\ Hash(Last) = HashOf[{e \in Edges : Subgraph(N)[e]}]
<1>1. Subgraph(N) \in Graphs(N)
  BY DEF Subgraph, Graphs
<1>2. {e \in Edges : Subgraph(N)[e]} = {e \in Edges : assign[e] = l_True}
  BY DEF Subgraph, Edges
<1>3. {e \in Pairs(Last + 1) : assign[e] = l_True} = {e \in Edges : assign[e] = l_True}
  BY LastIs
<1>4. Hash(Last) = HashOf[{e \in Pairs(Last + 1) : assign[e] = l_True}]
  BY DEF Hash
<1> QED BY <1>1, <1>2, <1>3, <1>4

\* A last column that passes the test.
LEMMA PassedCanonical ==
  ASSUME HashesDistinct, HashesOfCanonical, col = Last, ScanSeen \/ ScanCanonical
  PROVE  Canonical(N, Subgraph(N))
<1>1. Last \in Columns
  BY DEF ScanSeen, ScanCanonical
<1>2. /\ Subgraph(N) \in Graphs(N)
      /\ Hash(Last) = HashOf[{e \in Edges : Subgraph(N)[e]}]
  BY <1>1, SubgraphIs
<1>3. CASE ScanSeen
  <2>1. Hash(Last) \in canonical_hashes[Last]
    BY <1>3 DEF ScanSeen
  <2>2. PICK G \in CanonicalGraphs(N) : Hash(Last) = HashOf[{e \in Edges : G[e]}]
    BY <1>1, <2>1 DEF HashesOfCanonical
  <2>3. G \in Graphs(N) /\ Canonical(N, G)
    BY DEF CanonicalGraphs
  <2>4. G = Subgraph(N)
    BY <1>2, <2>2, <2>3, SameHashSameGraph
  <2> QED BY <2>3, <2>4
<1>4. CASE ScanCanonical
  <2>1. Hash(Last) = 0 \/ Last \in PseudoColumns \/ Witnesses(Last) = {}
    BY <1>4 DEF ScanCanonical
  <2>2. Last \notin PseudoColumns
    BY PseudoAssumption DEF Last
  <2>3. CASE Hash(Last) = 0
    <3>1. {e \in Edges : Subgraph(N)[e]} = {}
      <4> DEFINE E == {e \in Edges : Subgraph(N)[e]}
      <4>1. E \in SUBSET Edges /\ {} \in SUBSET Edges /\ HashOf[E] = 0
        BY <1>2, <2>3
      <4> HIDE DEF E
      <4>2. E = {}
        BY <4>1 DEF HashesDistinct
      <4> QED BY <4>2 DEF E
    <3> QED BY <3>1, EmptyCanonical
  <2> QED BY <1>1, <2>1, <2>2, <2>3, NoWitnessCanonical
<1> QED BY <1>3, <1>4

LEMMA ScanTested ==
  ASSUME HashesDistinct, Sane, PropagatorMirrorsTrail, OfferInv, TestedInv, ScanColumns
  PROVE  TestedInv'
<1>1. /\ pc = "scan" /\ Scan /\ trail' = trail /\ db' = db /\ checking' = checking
      /\ pc' = (IF col' = 0 THEN "asked" ELSE "scan")
  BY DEF ScanColumns
<1>2. /\ col # 0 /\ Defined(Pairs(col)) /\ new_clauses = <<>> /\ Offered = {} /\ col \in 2 .. N
  BY <1>1, NothingOffered DEF OfferInv, OffersOK, Sane, SBTypeOK
<1>3. assign' = assign
  BY <1>1 DEF Scan, ScanUndefined, ScanSeen, ScanCanonical, ScanNoncanonical,
     ScanForbidden, ScanDone
<1>4. CheckingAtRoot'
  BY <1>1, <1>2 DEF TestedInv, CheckingAtRoot
<1>5. /\ HashesOfCanonical /\ TestHolds /\ AskedAll
      /\ colsuntouched \in [Columns -> BOOLEAN] /\ canonical_hashes \in [Columns -> SUBSET Hashes]
  BY DEF TestedInv, Sane, SBTypeOK
<1>6. /\ Defined(Edges)' <=> Defined(Edges)
      /\ Subgraph(N)' = Subgraph(N)
      /\ Canonical(N, Subgraph(N))' <=> Canonical(N, Subgraph(N))
      /\ \A c : Satisfies(Subgraph(N), c)' <=> Satisfies(Subgraph(N), c)
  <2>1. Subgraph(N)' = Subgraph(N)
    BY <1>3 DEF Subgraph
  <2> QED BY <1>3, <2>1 DEF Defined, Canonical, SmallerAt, Satisfies
<1>7. ASSUME col' = 0, canonical_hashes' = canonical_hashes, colsuntouched' = colsuntouched,
             answer' \/ ~Defined(Edges) \/ Tested
      PROVE  TestedInv'
  <2>1. TestHolds' /\ HashesOfCanonical'
    BY <1>1, <1>2, <1>3, <1>5, <1>7, KeepTested
  <2>2. AskedAll'
    BY <1>1, <1>6, <1>7, NAssumption DEF AskedAll, Tested
  <2> QED BY <1>4, <2>1, <2>2 DEF TestedInv
<1>8. CASE ScanUndefined
  <2>1. col \in Columns /\ ~Defined(Column(col))
    BY <1>8 DEF ScanUndefined
  <2>2. Column(col) \subseteq Edges
    <3>1. Column(col) \subseteq Pairs(col + 1)
      BY DEF Column
    <3> QED BY <2>1, <3>1, ColumnsAreEdges
  <2>3. ~Defined(Edges)
    BY <2>1, <2>2 DEF Defined
  <2> QED BY <1>7, <1>8, <2>3 DEF ScanUndefined
<1>9. CASE ScanForbidden
  BY <1>7, <1>9 DEF ScanForbidden
<1>10. CASE ScanDone
  <2>1. Tested
    BY <1>5, <1>10 DEF ScanDone, AskedAll
  <2> QED BY <1>7, <1>10, <2>1 DEF ScanDone
\* A column before the last one.
<1>11. ASSUME col \in Columns, col # Last,
              colsuntouched' = [colsuntouched EXCEPT ![col] = TRUE],
              \/ canonical_hashes' = canonical_hashes
              \/ canonical_hashes' = [canonical_hashes EXCEPT ![col] = @ \cup {Hash(col)}],
              \/ col' = 0 /\ answer'
              \/ col' = col + 1
       PROVE  TestedInv'
  <2>1. Last \in Columns => /\ colsuntouched'[Last] = colsuntouched[Last]
                            /\ canonical_hashes'[Last] = canonical_hashes[Last]
    BY <1>5, <1>11
  <2>2. HashesOfCanonical'
    BY <1>5, <2>1 DEF HashesOfCanonical
  <2>3. TestHolds'
    BY <1>1, <1>2, <1>5, <1>6, <2>1 DEF TestHolds
  <2>4. AskedAll'
    <3>1. col' # N
      BY <1>11, LastIs, NAssumption
    <3>2. pc' \in {"search", "check"} \/ (pc' = "asked" /\ ~answer') => FALSE
      <4>1. CASE col' = 0
        <5>1. answer'
          BY <1>11, <4>1, LastIs, ColumnsAreEdges
        <5> QED BY <1>1, <4>1, <5>1
      <4> QED BY <1>1, <4>1
    <3> QED BY <3>1, <3>2 DEF AskedAll
  <2> QED BY <1>4, <2>2, <2>3, <2>4 DEF TestedInv
\* The last one.
<1>12. ASSUME col \in Columns, col = Last, Defined(Column(col)),
              colsuntouched' = [colsuntouched EXCEPT ![col] = TRUE],
              \/ canonical_hashes' = canonical_hashes
              \/ /\ canonical_hashes' = [canonical_hashes EXCEPT ![col] = @ \cup {Hash(col)}]
                 /\ Canonical(N, Subgraph(N)),
              \/ Canonical(N, Subgraph(N))
              \/ \E c \in Offered' : ~Satisfies(Subgraph(N), c)
       PROVE  TestedInv'
  <2>1. colsuntouched'[Last] = TRUE
    BY <1>5, <1>12
  <2>2. Defined(Edges)
    BY <1>2, <1>12, DefinedColumn, LastIs
  <2>3. TestHolds'
    BY <1>6, <1>12, <2>2 DEF TestHolds
  <2>4. AskedAll'
    BY <2>1 DEF AskedAll, Tested
  <2>5. HashesOfCanonical'
    <3>1. CASE canonical_hashes' = canonical_hashes
      BY <1>5, <3>1 DEF HashesOfCanonical
    <3>2. CASE canonical_hashes' = [canonical_hashes EXCEPT ![col] = @ \cup {Hash(col)}]
               /\ Canonical(N, Subgraph(N))
      <4>1. canonical_hashes'[Last] = canonical_hashes[Last] \cup {Hash(Last)}
        BY <1>5, <1>12, <3>2
      <4>2. Subgraph(N) \in CanonicalGraphs(N) /\ Hash(Last) = HashOf[{e \in Edges : Subgraph(N)[e]}]
        BY <1>12, <3>2, SubgraphIs DEF CanonicalGraphs
      <4> QED BY <1>5, <4>1, <4>2 DEF HashesOfCanonical
    <3> QED BY <1>12, <3>1, <3>2
  <2> QED BY <1>4, <2>3, <2>4, <2>5 DEF TestedInv
<1>13. CASE ScanSeen \/ ScanCanonical
  <2>1. /\ col \in Columns /\ Defined(Column(col)) /\ col' = col + 1
        /\ colsuntouched' = [colsuntouched EXCEPT ![col] = TRUE]
        /\ \/ canonical_hashes' = canonical_hashes
           \/ canonical_hashes' = [canonical_hashes EXCEPT ![col] = @ \cup {Hash(col)}]
    BY <1>13 DEF ScanSeen, ScanCanonical, Analysed
  <2>2. CASE col # Last
    BY <1>11, <2>1, <2>2
  <2>3. CASE col = Last
    <3>1. Canonical(N, Subgraph(N))
      BY <1>5, <1>13, <2>3, PassedCanonical
    <3> QED BY <1>12, <2>1, <2>3, <3>1
  <2> QED BY <2>2, <2>3
<1>14. ASSUME col \in Columns, NEW w \in Witnesses(col), ScanNoncanonical(w)
       PROVE  TestedInv'
  <2> DEFINE c == BlockingClause(Subgraph(col + 1), w.p, w.e)
  <2>1. /\ Defined(Column(col)) /\ col' = 0 /\ answer' /\ canonical_hashes' = canonical_hashes
        /\ colsuntouched' = [colsuntouched EXCEPT ![col] = TRUE]
        /\ new_clauses' = Append(new_clauses, c)
    BY <1>14 DEF ScanNoncanonical, Analysed
  <2>2. CASE col # Last
    <3> HIDE DEF c
    <3> QED BY <1>11, <1>14, <2>1, <2>2
  <2>3. CASE col = Last
    <3>1. Defined(Pairs(col + 1)) /\ Defined(Edges)
      BY <1>2, <1>14, <2>1, <2>3, DefinedColumn, LastIs
    <3>2. Falsified(c)
      BY <1>1, <1>14, <3>1, BlockFalsified
    <3>3. c \in Clauses
      BY <1>14, BlockingClauseType DEF Witnesses
    <3> HIDE DEF c
    <3>4. ~Satisfies(Subgraph(N), c)
      BY <1>1, <3>1, <3>2, <3>3, FalseInGraph DEF Sane
    <3>5. c \in Offered'
      BY <1>2, <2>1, OneOffered
    <3> QED BY <1>12, <1>14, <2>1, <2>3, <3>4, <3>5
  <2> QED BY <2>2, <2>3
<1> QED BY <1>1, <1>8, <1>9, <1>10, <1>13, <1>14 DEF Scan

\* A scan that starts behind the last column has found no column touched.
LEMMA NoneTouched ==
  ASSUME FirstTouched = N  PROVE Tested
<1> DEFINE P(i) == /\ i = N \/ ~colsuntouched[i]
                   /\ \A j \in 2 .. (i - 1) : colsuntouched[j]
           T == {i \in 2 .. N : i = N \/ ~colsuntouched[i]}
<1>1. N \in T /\ T \subseteq Nat
  BY NAssumption
<1>2. PICK i \in T : \A j \in T : i <= j
  <2> HIDE DEF T
  <2> QED BY <1>1, LeastNat
<1>3. \A j \in 2 .. (i - 1) : colsuntouched[j]
  BY <1>1, <1>2, NAssumption
<1>4. P(i) /\ i \in 2 .. N
  BY <1>2, <1>3
<1>5. FirstTouched = CHOOSE k \in 2 .. N : P(k)
  BY DEF FirstTouched
<1>6. P(FirstTouched)
  <2> HIDE DEF P
  <2> QED BY <1>4, <1>5
<1> QED BY <1>6, NAssumption DEF Tested, Columns, Last

LEMMA AskTested ==
  ASSUME Sane, OfferInv, TestedInv, AskClause  PROVE TestedInv'
<1>1. /\ pc = "extprop" /\ trail' = trail /\ db' = db /\ checking' = checking
      /\ new_clauses' = new_clauses /\ assign' = assign
      /\ colsuntouched' = colsuntouched /\ canonical_hashes' = canonical_hashes
      /\ pc' = (IF col' = 0 THEN "asked" ELSE "scan")
      /\ \/ new_clauses # <<>> /\ answer' = TRUE /\ col' = col
         \/ new_clauses = <<>> /\ ~Defined(Pairs(FirstTouched)) /\ col' = col
         \/ new_clauses = <<>> /\ col' = FirstTouched
      /\ col = 0
  BY DEF AskClause, HasExternalClause
<1>2. Offered' = Offered /\ N # 0 /\ FirstTouched \in 2 .. N
  BY <1>1, FirstTouchedType, NAssumption DEF Offered
<1>3. TestHolds' /\ HashesOfCanonical'
  BY <1>1, <1>2, KeepTested DEF TestedInv
<1>4. ASSUME ~Defined(Pairs(FirstTouched))  PROVE ~Defined(Edges)
  <2>1. Pairs(FirstTouched) \subseteq Edges
    BY <1>2, NAssumption, PairsMonotone DEF Edges
  <2> QED BY <1>4, <2>1 DEF Defined
<1>5. (Defined(Edges)' <=> Defined(Edges)) /\ (Tested' <=> Tested)
  BY <1>1 DEF Defined, Tested
<1>6. AskedAll'
  <2>1. col' = N => Tested
    BY <1>1, <1>2, NoneTouched
  <2>2. pc' \in {"search", "check"} \/ (pc' = "asked" /\ ~answer') => ~Defined(Edges)
    <3>1. FirstTouched # 0
      BY <1>2
    <3> QED BY <1>1, <1>4, <3>1
  <2> QED BY <1>5, <2>1, <2>2 DEF AskedAll
<1>7. CheckingAtRoot'
  <2>1. checking => new_clauses # <<>>
    BY <1>1 DEF TestedInv, CheckingAtRoot
  <2> QED BY <1>1, <2>1 DEF CheckingAtRoot
<1> QED BY <1>3, <1>6, <1>7 DEF TestedInv

\* Steps of the solver after which the propagator is not waiting for anything.
LEMMA QuietTested ==
  ASSUME TestedInv, OfferInv,
         canonical_hashes' = canonical_hashes, col' = col,
         Last \in Columns /\ colsuntouched'[Last] => colsuntouched[Last] /\ assign' = assign,
         db \cup Offered \subseteq db' \cup Offered',
         pc # "scan", pc' \notin {"search", "check"}, pc' = "asked" => answer',
         CheckingAtRoot'
  PROVE  TestedInv'
<1>1. TestHolds' /\ HashesOfCanonical'
  BY KeepTested DEF TestedInv
<1>2. col' # N
  BY NAssumption DEF OfferInv, OffersOK
<1>3. AskedAll'
  BY <1>2 DEF AskedAll
<1> QED BY <1>1, <1>3 DEF TestedInv

LEMMA TestedNext ==
  ASSUME HashesDistinct, Sane, TrailInv, MirrorInv, PropagatorMirrorsTrail, OfferInv,
         TestedInv, [Next]_vars
  PROVE  TestedInv'
<1>1. CheckingAtRoot /\ SBTypeOK /\ (new_clauses' = new_clauses => Offered' = Offered)
      /\ Len(trail) \in Nat
  BY TrailEntries DEF TestedInv, Sane, Offered
<1>2. CASE UNCHANGED vars
  <2>1. /\ pc' = pc /\ col' = col /\ new_clauses' = new_clauses /\ answer' = answer
        /\ trail' = trail /\ db' = db /\ checking' = checking /\ assign' = assign
        /\ colsuntouched' = colsuntouched /\ canonical_hashes' = canonical_hashes
    BY <1>2 DEF vars, sbvars
  <2>2. TestHolds' /\ HashesOfCanonical'
    BY <1>1, <2>1, KeepTested DEF TestedInv
  <2>3. AskedAll' /\ CheckingAtRoot'
    BY <2>1 DEF TestedInv, AskedAll, Tested, Defined, CheckingAtRoot
  <2> QED BY <2>2, <2>3 DEF TestedInv
<1>3. CASE NoClause \/ FoundModel
  <2>1. /\ UNCHANGED sbvars /\ trail' = trail /\ db' = db
        /\ (pc = "asked" /\ ~answer /\ checking' = checking /\ pc' = "search")
           \/ (pc = "search" /\ pc' = "check")
    BY <1>3 DEF NoClause, FoundModel
  <2>2. /\ col' = col /\ new_clauses' = new_clauses /\ answer' = answer /\ assign' = assign
        /\ colsuntouched' = colsuntouched /\ canonical_hashes' = canonical_hashes
    BY <2>1 DEF sbvars
  <2>3. TestHolds' /\ HashesOfCanonical'
    BY <1>1, <2>1, <2>2, KeepTested DEF TestedInv
  <2>4. AskedAll' /\ CheckingAtRoot'
    BY <2>1, <2>2 DEF TestedInv, AskedAll, Tested, Defined, CheckingAtRoot
  <2> QED BY <2>3, <2>4 DEF TestedInv
<1>4. CASE PropagateConflict \/ CheckEnds \/ AnalyzeRoot
  <2>1. /\ UNCHANGED sbvars /\ db' = db /\ pc # "scan"
        /\ pc' \notin {"search", "check", "asked"}
        /\ \/ checking' = checking /\ pc' \in {"analyze", "done"}
           \/ checking' = FALSE /\ pc' = "propagate"
    BY <1>4 DEF PropagateConflict, CheckEnds, AnalyzeRoot
  <2>2. CheckingAtRoot'
    BY <1>1, <2>1 DEF CheckingAtRoot
  <2> QED BY <1>1, <2>1, <2>2, QuietTested DEF sbvars
<1>5. CASE Propagate
  <2>1. PICK c \in db : \E l \in c :
              LET lvl == DrivenLevel(c, l, level) IN
              /\ Implied(c, l)
              /\ trail' = Put(trail, l, lvl)
              /\ IF lvl = 0 THEN NotifyAssignment({}, {l}) /\ UNCHANGED pending
                            ELSE UNCHANGED sbvars /\ pending' = pending \cup {l}
    BY <1>5 DEF Propagate
  <2>2. PICK l \in c : /\ Implied(c, l)
                       /\ \E lvl : trail' = Put(trail, l, lvl)
                       /\ NotifyAssignment({}, {l}) \/ UNCHANGED sbvars
    BY <2>1
  <2>3. /\ pc = "propagate" /\ pc' = "propagate" /\ db' = db /\ checking' = checking
        /\ Len(trail') = Len(trail)
    <3>1. pc = "propagate" /\ pc' = "propagate" /\ db' = db /\ checking' = checking
      BY <1>5 DEF Propagate
    <3>2. PICK lvl : trail' = Put(trail, l, lvl)
      BY <2>2
    <3>3. trail = [k \in 1 .. Len(trail) |-> trail[k]] /\ Len(trail) \in Nat
      BY <1>1 DEF Sane, SolverInv, TrailShape
    <3>4. trail' = [k \in 1 .. Len(trail) |->
                      [trail EXCEPT ![Len(trail)] = @ \cup {[lit |-> l, lvl |-> lvl]}][k]]
      BY <3>2, <3>3 DEF Put
    <3>5. Len(trail') = Len(trail)
      BY <3>3, <3>4, FunctionIsSeq
    <3> QED BY <3>1, <3>5
  <2>4. CheckingAtRoot'
    BY <1>1, <2>3 DEF CheckingAtRoot
  <2>5. /\ canonical_hashes' = canonical_hashes /\ colsuntouched' = colsuntouched
        /\ col' = col /\ new_clauses' = new_clauses
    BY <2>2 DEF NotifyAssignment, sbvars
  <2>6. Last \in Columns /\ colsuntouched[Last] => FALSE
    <3> SUFFICES ASSUME Last \in Columns, colsuntouched[Last]  PROVE FALSE
      OBVIOUS
    <3>1. Defined(Edges)
      BY DEF TestedInv, TestHolds
    <3>2. l \in Literals(N)
      BY DEF Sane, SolverInv, Clauses
    <3> QED BY <2>2, <3>1, <3>2, NothingPending DEF Implied
  <2> QED BY <1>1, <2>3, <2>4, <2>5, <2>6, QuietTested
<1>6. CASE PropagateDone \/ Notify
  <2>1. PICK L \in SUBSET pending, F \in SUBSET pending : NotifyAssignment(L, F)
    <3>1. CASE PropagateDone
      BY <3>1 DEF PropagateDone
    <3>2. CASE Notify
      <4> DEFINE units == {l \in pending : LevelOf(l) = 0}
      <4>1. NotifyAssignment(pending \ units, units)
        BY <3>2 DEF Notify
      <4>2. pending \ units \in SUBSET pending /\ units \in SUBSET pending
        OBVIOUS
      <4> HIDE DEF units
      <4> QED BY <4>1, <4>2
    <3> QED BY <1>6, <3>1, <3>2
  <2>2. /\ db' = db /\ checking' = checking /\ trail' = trail
        /\ \/ pc = "propagate" /\ pc' = (IF checking THEN "recheck" ELSE "extprop")
           \/ pc = "notify" /\ pc' = "propagate"
    BY <1>6 DEF PropagateDone, Notify
  <2>3. CheckingAtRoot'
    BY <1>1, <2>2 DEF CheckingAtRoot
  <2>4. /\ canonical_hashes' = canonical_hashes /\ colsuntouched' = colsuntouched
        /\ col' = col /\ new_clauses' = new_clauses
    BY <2>1 DEF NotifyAssignment
  <2>5. Last \in Columns /\ colsuntouched[Last] => assign' = assign
    <3> SUFFICES ASSUME Last \in Columns, colsuntouched[Last]  PROVE assign' = assign
      OBVIOUS
    <3>1. Defined(Edges)
      BY DEF TestedInv, TestHolds
    <3>2. L = {} /\ F = {}
      BY <3>1, NothingPending
    <3>3. NotifyAssignment({}, {})
      BY <2>1, <3>2
    <3> QED BY <1>1, <3>3, NoAnnouncement
  <2> QED BY <1>1, <2>2, <2>3, <2>4, <2>5, QuietTested
<1>7. CASE AddClause
  <2> DEFINE clause == new_clauses[Len(new_clauses)]
  <2>1. /\ pc = "asked" /\ answer /\ db' = db \cup {clause} /\ checking' = checking
        /\ pc' \in {"done", "unit", "analyze", "drive"} /\ TakeClause
    BY <1>7 DEF AddClause
  <2>2. CheckingAtRoot'
    BY <2>1 DEF CheckingAtRoot
  <2>3. /\ canonical_hashes' = canonical_hashes /\ colsuntouched' = colsuntouched
        /\ col' = col /\ assign' = assign
        /\ new_clauses # <<>>
    BY <2>1 DEF TakeClause
  <2>4. Offered = {clause}
    <3>1. Len(new_clauses) = 1 /\ new_clauses \in Seq(Clauses)
      BY <1>1, <2>3 DEF OfferInv, OffersOK, SBTypeOK
    <3>2. DOMAIN new_clauses = {1}
      BY <3>1
    <3> QED BY <3>1, <3>2 DEF Offered
  <2> HIDE DEF clause
  <2> QED BY <1>1, <2>1, <2>2, <2>3, <2>4, QuietTested
<1>8. CASE CheckModel
  <2> DEFINE model == [e \in Edges |-> True(<<e, TRUE>>)]
  <2>1. /\ pc \in {"check", "recheck"} /\ pc' = "extprop" /\ db' = db /\ checking' = checking
        /\ CheckFoundModel(model)
    BY <1>8 DEF CheckModel
  <2> HIDE DEF model
  <2>2. PICK clause : new_clauses' = Append(new_clauses, clause)
    BY <2>1 DEF CheckFoundModel
  <2>3. new_clauses = <<>>
    BY <2>1 DEF OfferInv, OffersOK
  <2>4. Offered = {} /\ new_clauses' # <<>>
    BY <2>2, <2>3, OneOffered
  <2>5. CheckingAtRoot'
    BY <2>1, <2>4 DEF CheckingAtRoot
  <2>6. /\ canonical_hashes' = canonical_hashes /\ colsuntouched' = colsuntouched
        /\ col' = col /\ assign' = assign
    BY <2>1 DEF CheckFoundModel
  <2> QED BY <1>1, <2>1, <2>4, <2>5, <2>6, QuietTested
\* Going back.
<1>9. ASSUME NEW b, NotifyBacktrack(b), db' = db, pc # "scan",
             pc' \notin {"search", "check", "asked"}, CheckingAtRoot'
      PROVE  TestedInv'
  <2>1. canonical_hashes' = canonical_hashes /\ col' = col /\ new_clauses' = new_clauses
    BY <1>9 DEF NotifyBacktrack
  <2>2. Last \in Columns /\ colsuntouched'[Last] => colsuntouched[Last] /\ assign' = assign
    BY <1>1, <1>9, BackTouches
  <2> QED BY <1>1, <1>9, <2>1, <2>2, QuietTested
<1>10. CASE AddUnit
  <2>1. PICK l \in conflict : BacktrackAndDrive(0, l, 0)
    BY <1>10 DEF AddUnit
  <2>2. /\ db' = db /\ pc = "unit" /\ pc' = "notify" /\ NotifyBacktrack(0)
        /\ trail' = Put(Backtracked(0), l, 0)
    BY <1>10, <2>1 DEF AddUnit, BacktrackAndDrive
  <2>3. Len(trail') = 1
    <3> DEFINE first == Backtracked(0)[1]
               entry == {[lit |-> l, lvl |-> 0]}
    <3>1. Backtracked(0) = [k \in 1 .. 1 |-> first]
      BY DEF Backtracked
    <3> HIDE DEF first
    <3>2. Backtracked(0) = <<first>>
      BY <3>1
    <3>3. trail' = <<first \cup entry>>
      BY <2>2, <3>2 DEF Put
    <3> HIDE DEF entry
    <3> QED BY <3>3
  <2>4. CheckingAtRoot'
    BY <2>2, <2>3 DEF CheckingAtRoot
  <2> QED BY <1>9, <2>2, <2>4
<1>11. CASE AddDriving \/ AnalyzeForced \/ AnalyzeLearned
  <2>1. /\ db' = db /\ pc \in {"drive", "analyze"}
        /\ \/ checking' = FALSE /\ \E b, l, lvl : BacktrackAndDrive(b, l, lvl)
           \/ pc' = "analyze" /\ UNCHANGED sbvars
    BY <1>11 DEF AddDriving, AnalyzeForced, AnalyzeLearned
  <2>2. CASE checking' = FALSE /\ \E b, l, lvl : BacktrackAndDrive(b, l, lvl)
    <3>1. PICK b, l, lvl : BacktrackAndDrive(b, l, lvl)
      BY <2>2
    <3>2. NotifyBacktrack(b) /\ pc' = "notify"
      BY <3>1 DEF BacktrackAndDrive
    <3>3. CheckingAtRoot'
      BY <2>2, <3>2 DEF CheckingAtRoot
    <3> QED BY <1>9, <2>1, <3>2, <3>3
  <2>3. CASE pc' = "analyze" /\ UNCHANGED sbvars
    <3>1. CheckingAtRoot'
      BY <2>3 DEF CheckingAtRoot
    <3> QED BY <1>1, <2>1, <2>3, <3>1, QuietTested DEF sbvars
  <2> QED BY <2>1, <2>2, <2>3
<1>12. CASE Restart
  <2>1. PICK b : NotifyBacktrack(b)
    BY <1>12 DEF Restart
  <2>2. db' = db /\ pc = "search" /\ pc' = "notify" /\ checking' = checking
    BY <1>12 DEF Restart
  <2>3. CheckingAtRoot'
    BY <1>1, <2>2 DEF CheckingAtRoot
  <2> QED BY <1>9, <2>1, <2>2, <2>3
<1>13. CASE Decide
  <2>1. /\ db' = db /\ pc = "search" /\ pc' = "propagate" /\ checking' = checking
        /\ NotifyNewDecisionLevel
    BY <1>13 DEF Decide
  <2>2. CheckingAtRoot'
    BY <1>1, <2>1 DEF CheckingAtRoot
  <2> QED BY <1>1, <2>1, <2>2, QuietTested DEF NotifyNewDecisionLevel
<1>14. CASE Finished
  BY <1>2, <1>14 DEF Finished
<1> QED BY <1>2, <1>3, <1>4, <1>5, <1>6, <1>7, <1>8, <1>10, <1>11, <1>12, <1>13, <1>14,
           AskTested, ScanTested DEF Next

LEMMA TestedInit == Init /\ FreshColumns => TestedInv
<1> SUFFICES ASSUME Init, FreshColumns  PROVE TestedInv
  OBVIOUS
<1>1. /\ colsuntouched = [i \in Columns |-> FALSE] /\ canonical_hashes = [i \in Columns |-> {}]
      /\ col = 0 /\ pc = "propagate" /\ checking = FALSE
  BY DEF Init, SBInit, FreshColumns
<1> QED BY <1>1, NAssumption
        DEF TestedInv, HashesOfCanonical, TestHolds, AskedAll, CheckingAtRoot

\* For two vertices no relabelling changes anything.
LEMMA TwoVertices ==
  ASSUME N = 2, NEW G  PROVE Canonical(N, G)
<1> SUFFICES ASSUME NEW p \in Relabellings(N - 1, N), NEW e \in Pairs(N), SmallerAt(G, p, e)
             PROVE  FALSE
  BY DEF Canonical
<1>1. e[1] = 1 /\ e[2] = 0 /\ e = <<e[1], e[2]>>
  BY DEF Pairs, Vertices
<1>2. p[0] \in {0, 1} /\ p[1] \in {0, 1} /\ p[0] # p[1]
  BY DEF Relabellings, Vertices
<1>3. Image(p, e) = e
  BY <1>1, <1>2 DEF Image, Unordered
<1> QED BY <1>3 DEF SmallerAt

\* What is shown at the end of a search is canonical.
LEMMA ShownCanonical ==
  ASSUME Sane, PropagatorMirrorsTrail, OfferInv, TestedInv, CheckModel, pc = "check"
  PROVE  [e \in Edges |-> True(<<e, TRUE>>)] \in CanonicalOfOrderN
<1> DEFINE model == [e \in Edges |-> True(<<e, TRUE>>)]
<1>1. Satisfied
  BY DEF CheckModel
<1>2. model \in Graphs(N) /\ \A c \in Clauses : ~Falsified(c) => Satisfies(model, c)
  BY <1>1, ModelOnTrail
<1>3. ASSUME NEW e \in Edges  PROVE assign[e] # l_Undef /\ model[e] = (assign[e] = l_True)
  <2>1. PICK a \in OnTrail : a.lit[1] = e
    BY <1>1 DEF Satisfied
  <2>2. a.lit \in TrailLits /\ a.lit = <<e, a.lit[2]>> /\ a.lit[2] \in BOOLEAN
    BY <2>1, TrailEntries, NegationIs DEF TrailLits
  <2>3. /\ assign[e] = l_True <=> True(<<e, TRUE>>)
        /\ assign[e] = l_False <=> True(<<e, FALSE>>)
    BY DEF PropagatorMirrorsTrail
  <2>4. <<e, TRUE>> \in TrailLits \/ <<e, FALSE>> \in TrailLits
    BY <2>2
  <2>5. assign[e] = l_True \/ assign[e] = l_False
    BY <2>3, <2>4 DEF True
  <2>6. model[e] = True(<<e, TRUE>>) /\ model[e] \in BOOLEAN
    BY <1>2 DEF Graphs, Edges
  <2>7. assign[e] # l_Undef
    BY <2>5 DEF l_True, l_False, l_Undef
  <2>8. model[e] <=> assign[e] = l_True
    BY <2>3, <2>6
  <2> HIDE DEF model
  <2> QED BY <2>6, <2>7, <2>8
<1> HIDE DEF model
<1>4. Defined(Edges)
  BY <1>3 DEF Defined
<1>5. Subgraph(N) = model
  <2>1. model = [e \in Edges |-> model[e]]
    BY <1>2 DEF Graphs, Edges
  <2> QED BY <1>3, <2>1 DEF Subgraph, Edges
<1>6. Tested
  BY <1>4 DEF TestedInv, AskedAll
<1>7. Canonical(N, model)
  <2>1. CASE Last \notin Columns
    BY <2>1, LastIs, TwoVertices
  <2>2. CASE Last \in Columns
    <3>1. Canonical(N, model) \/ \E c \in db \cup Offered : ~Satisfies(model, c)
      BY <1>5, <1>6, <2>2 DEF TestedInv, TestHolds, Tested
    <3>2. new_clauses = <<>> /\ \A c \in db : ~Falsified(c)
      BY DEF OfferInv, OffersOK, FoundOK, Settling
    <3>3. Offered = {} /\ db \subseteq Clauses
      BY <3>2, NothingOffered DEF Sane, SolverInv
    <3> QED BY <1>2, <3>1, <3>2, <3>3
  <2> QED BY <2>1, <2>2
<1> QED BY <1>2, <1>7 DEF model, CanonicalOfOrderN, CanonicalGraphs

\* The last column is tested, by the search or by its hash, between the last
\* time one of its entries changed and the time a model is shown; only the loop
\* in external_check_solution shows one without a test, at the root.
THEOREM SearchedCanonical ==
  ASSUME HashesDistinct, FreshColumns
  PROVE  Spec => SearchedModelsCanonical
<1>1. SearchInv => Sane /\ TrailInv
  BY DEF SearchInv, Sane, TrailInv
<1>2. SearchInv /\ MirrorInv /\ PropagatorMirrorsTrail /\ OfferInv /\ TestedInv /\ [Next]_vars
        => TestedInv'
  BY <1>1, TestedNext
<1>3. Init => TestedInv
  BY TestedInit
<1>4. SearchInv /\ PropagatorMirrorsTrail /\ OfferInv /\ TestedInv /\ [Next]_vars
        => [level > 0 => found' \ found \subseteq CanonicalOfOrderN]_vars
  <2> SUFFICES ASSUME SearchInv, PropagatorMirrorsTrail, OfferInv, TestedInv, Next, level > 0
               PROVE  found' \ found \subseteq CanonicalOfOrderN
    BY DEF vars
  <2>1. CASE CheckModel
    <3>1. found' = found \cup {[e \in Edges |-> True(<<e, TRUE>>)]} /\ pc \in {"check", "recheck"}
      BY <2>1 DEF CheckModel
    <3>2. pc # "recheck"
      <4>1. pc = "recheck" => Len(trail) = 1
        BY DEF TestedInv, CheckingAtRoot
      <4>2. Len(trail) = 1 => level = 0
        BY DEF level
      <4>3. level # 0
        OBVIOUS
      <4> QED BY <4>1, <4>2, <4>3
    <3> QED BY <1>1, <2>1, <3>1, <3>2, ShownCanonical
  <2>2. CASE ~CheckModel
    <3>1. found' = found
      BY <2>2 DEF Next, Propagate, PropagateConflict, PropagateDone, Notify, AskClause,
         ScanColumns, NoClause, AddClause, AddUnit, AddDriving, CheckEnds, AnalyzeRoot,
         AnalyzeForced, AnalyzeLearned, FoundModel, Restart, Decide, Finished, vars
    <3> QED BY <3>1
  <2> QED BY <2>1, <2>2
<1> QED BY <1>2, <1>3, <1>4, SearchKeepsInvariant, MirrorHolds, MirrorsTrail, OffersHold, PTL
        DEF Spec, SearchedModelsCanonical
=============================================================================
