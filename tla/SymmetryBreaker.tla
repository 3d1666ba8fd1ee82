--------------------------- MODULE SymmetryBreaker ---------------------------
(***************************************************************************)
(* The external propagator of cadical-ks (symbreak.cpp): orderly           *)
(* generation of graphs up to isomorphism.  The solver calls it through    *)
(* the IPASIR-UP interface; here every callback is an action, and the      *)
(* order of the calls is left open.  OrderlySearch puts the solver around  *)
(* it.  Each call of cb_has_external_clause is one step per column scanned.*)
(***************************************************************************)
EXTENDS Canonicity, Sequences

CONSTANTS
  N,                \* order of the graphs (--order)
  HashOf,           \* sum of hash_values over a set of true edges
  PseudoColumns,    \* columns on which the test may give up (pseudo-test)
  Forbidden,        \* the subgraphs of --unembeddable-check, as sets of edges
  InitialColumns    \* what colsuntouched can hold when it comes from new int[n]

VARIABLES
  assign,           \* the propagator's copy of the edge variables
  fixed,            \* the ones the solver has announced as fixed
  current_trail,    \* literals announced per decision level, level 0 first
  colsuntouched,    \* columns not changed since they were analysed
  canonical_hashes, \* per column, hashes of subgraphs found canonical
  new_clauses,      \* clauses the solver has not read yet
  sol_count,        \* models the propagator was shown
  trusted,          \* clauses added to the proof as trusted ('t' lines)
  t_lines,          \* number of 't' lines in the proof
  perm_lines,       \* number of lines in the permutation file
  col,              \* column a running cb_has_external_clause is at, 0: none
  answer            \* what the last cb_has_external_clause returned

sbvars == <<assign, fixed, current_trail, colsuntouched, canonical_hashes,
            new_clauses, sol_count, trusted, t_lines, perm_lines, col, answer>>

Columns == 2 .. (N - 1)
Edges == Pairs(N)
Hashes == {HashOf[E] : E \in SUBSET Edges}
Clauses == SUBSET Literals(N)
CanonicalOfOrderN == {G : G \in CanonicalGraphs(N)}
VertexOrders == {p : p \in Relabellings(N - 1, N)}
l_True == "l_True"
l_False == "l_False"
l_Undef == "l_Undef"
Sign(b) == IF b THEN l_True ELSE l_False

ASSUME NAssumption == N \in Nat /\ N >= 2
ASSUME HashAssumption == DOMAIN HashOf = SUBSET Edges
ASSUME PseudoAssumption == PseudoColumns \subseteq Columns \ {N - 1}
ASSUME ForbiddenAssumption == \A g \in Forbidden : g \subseteq Edges
ASSUME InitialAssumption ==
  InitialColumns \subseteq [Columns -> BOOLEAN] /\ InitialColumns # {}

SBTypeOK ==
  /\ assign \in [Edges -> {l_True, l_False, l_Undef}]
  /\ fixed \in [Edges -> BOOLEAN]
  /\ current_trail \in Seq(SUBSET Literals(N)) /\ current_trail # <<>>
  /\ colsuntouched \in [Columns -> BOOLEAN]
  /\ canonical_hashes \in [Columns -> SUBSET Hashes]
  /\ new_clauses \in Seq(Clauses)
  /\ sol_count \in Nat
  /\ trusted \subseteq Clauses \X {"block", "mus", "model"}
  /\ t_lines \in Nat /\ perm_lines \in Nat
  /\ col \in {0} \cup (2 .. N)
  /\ answer \in BOOLEAN

\* The constructor; colsuntouched is allocated and never written.
SBInit ==
  /\ assign = [e \in Edges |-> l_Undef]
  /\ fixed = [e \in Edges |-> FALSE]
  /\ current_trail = <<{}>>
  /\ colsuntouched \in InitialColumns
  /\ canonical_hashes = [i \in Columns |-> {}]
  /\ new_clauses = <<>>
  /\ sol_count = 0
  /\ trusted = {}
  /\ t_lines = 0 /\ perm_lines = 0
  /\ col = 0
  /\ answer = FALSE

-----------------------------------------------------------------------------
(* Notifications.                                                          *)

Assigned(L) == [e \in Edges |-> IF \E l \in L : l[1] = e
                                THEN Sign((CHOOSE l \in L : l[1] = e)[2])
                                ELSE assign[e]]

\* One notify_assignment per literal: of L with is_fixed = FALSE, recorded on
\* the current level, and of F with is_fixed = TRUE, recorded nowhere.
NotifyAssignment(L, F) ==
  /\ col = 0
  /\ assign' = Assigned(L \cup F)
  /\ fixed' = [e \in Edges |-> fixed[e] \/ \E l \in F : l[1] = e]
  /\ current_trail' =
       [current_trail EXCEPT ![Len(current_trail)] = @ \cup L]
  /\ UNCHANGED <<colsuntouched, canonical_hashes, new_clauses, sol_count,
                 trusted, t_lines, perm_lines, col, answer>>

NotifyNewDecisionLevel ==
  /\ col = 0
  /\ current_trail' = Append(current_trail, {})
  /\ UNCHANGED <<assign, fixed, colsuntouched, canonical_hashes, new_clauses,
                 sol_count, trusted, t_lines, perm_lines, col, answer>>

\* Mutant: only the last level is unassigned, however many are popped.
RetractedLast(level) ==
  {e \in Edges : ~fixed[e] /\ \E l \in current_trail[Len(current_trail)] : l[1] = e}

\* The entries of the literals on the popped levels that are not fixed.
Retracted(level) ==
  {e \in Edges : /\ ~fixed[e]
                 /\ \E k \in (level + 2) .. Len(current_trail) :
                      \E l \in current_trail[k] : l[1] = e}

\* Mutant: no column is touched.
NotifyBacktrackNoColumn(level) ==
  /\ col = 0
  /\ level + 1 < Len(current_trail)
  /\ assign' = [e \in Edges |-> IF e \in Retracted(level) THEN l_Undef
                                ELSE assign[e]]
  /\ current_trail' = SubSeq(current_trail, 1, level + 1)
  /\ UNCHANGED <<fixed, colsuntouched, canonical_hashes, new_clauses, sol_count,
                 trusted, t_lines, perm_lines, col, answer>>

\* An entry in column c touches column c and every later one.
NotifyBacktrack(level) ==
  /\ col = 0
  /\ level + 1 < Len(current_trail)
  /\ assign' = [e \in Edges |-> IF e \in Retracted(level) THEN l_Undef
                                ELSE assign[e]]
  /\ colsuntouched' = [i \in Columns |-> colsuntouched[i] /\
                         \A e \in Retracted(level) : i < e[1]]
  /\ current_trail' = SubSeq(current_trail, 1, level + 1)
  /\ UNCHANGED <<fixed, canonical_hashes, new_clauses, sol_count, trusted,
                 t_lines, perm_lines, col, answer>>

-----------------------------------------------------------------------------
(* Clauses.                                                                *)

\* Mutant: a model is not forbidden.
CheckFoundModelAgain(model) ==
  /\ col = 0
  /\ sol_count' = sol_count + 1
  /\ UNCHANGED <<assign, fixed, current_trail, colsuntouched,
                 canonical_hashes, new_clauses, trusted, t_lines, perm_lines,
                 col, answer>>

\* cb_check_found_model: count the model and forbid it.  Always answers "no".
CheckFoundModel(model) ==
  LET clause == {<<e, ~model[e]>> : e \in Edges} IN
  /\ col = 0
  /\ sol_count' = sol_count + 1
  /\ new_clauses' = Append(new_clauses, clause)
  /\ trusted' = trusted \cup {<<clause, "model">>}
  /\ t_lines' = t_lines + 1
  /\ UNCHANGED <<assign, fixed, current_trail, colsuntouched,
                 canonical_hashes, perm_lines, col, answer>>

Defined(E) == \A e \in E : assign[e] # l_Undef

\* The graph the assignment gives on the first k vertices.
Subgraph(k) == [e \in Pairs(k) |-> assign[e] = l_True]

\* What is_canonical can answer "no" with for the subgraph of order i + 1.
CandidatesOf == [i \in Columns |-> Candidates(i + 1)]
Witnesses(i) == {w \in CandidatesOf[i] : SmallerAt(Subgraph(i + 1), w.p, w.e)}

Hash(i) == HashOf[{e \in Pairs(i + 1) : assign[e] = l_True}]

\* The first column touched since the last analysis, N when there is none.
FirstTouched ==
  CHOOSE i \in 2 .. N : /\ i = N \/ ~colsuntouched[i]
                        /\ \A j \in 2 .. (i - 1) : colsuntouched[j]

\* Entry of cb_has_external_clause.
HasExternalClause ==
  /\ col = 0
  /\ \/ /\ new_clauses # <<>>
        /\ answer' = TRUE
        /\ UNCHANGED col
     \/ /\ new_clauses = <<>>
        /\ ~Defined(Pairs(FirstTouched))
        /\ answer' = FALSE
        /\ UNCHANGED col
     \/ /\ new_clauses = <<>>
        /\ Defined(Pairs(FirstTouched))
        /\ col' = FirstTouched
        /\ UNCHANGED answer
  /\ UNCHANGED <<assign, fixed, current_trail, colsuntouched,
                 canonical_hashes, new_clauses, sol_count, trusted, t_lines,
                 perm_lines>>

\* A column with an undefined entry ends the scan.
ScanUndefined ==
  /\ col \in Columns
  /\ ~Defined(Column(col))
  /\ col' = 0
  /\ answer' = FALSE
  /\ UNCHANGED <<assign, fixed, current_trail, colsuntouched,
                 canonical_hashes, new_clauses, sol_count, trusted, t_lines,
                 perm_lines>>

Analysed == colsuntouched' = [colsuntouched EXCEPT ![col] = TRUE]

\* The subgraph has been found canonical before.
ScanSeen ==
  /\ col \in Columns
  /\ Defined(Column(col))
  /\ Hash(col) \in canonical_hashes[col]
  /\ Analysed
  /\ col' = col + 1
  /\ UNCHANGED <<assign, fixed, current_trail, canonical_hashes, new_clauses,
                 sol_count, trusted, t_lines, perm_lines, answer>>

\* hash = 0 is taken for the empty graph; the pseudo-test may give up.
ScanCanonical ==
  /\ col \in Columns
  /\ Defined(Column(col))
  /\ Hash(col) \notin canonical_hashes[col]
  /\ \/ Hash(col) = 0
     \/ col \in PseudoColumns
     \/ Witnesses(col) = {}
  /\ Analysed
  /\ canonical_hashes' = [canonical_hashes EXCEPT ![col] = @ \cup {Hash(col)}]
  /\ col' = col + 1
  /\ UNCHANGED <<assign, fixed, current_trail, new_clauses, sol_count, trusted,
                 t_lines, perm_lines, answer>>

\* Not canonical: block it, write the clause to the proof, then the witness.
ScanNoncanonical(w) ==
  LET clause == BlockingClause(Subgraph(col + 1), w.p, w.e) IN
  /\ col \in Columns
  /\ Defined(Column(col))
  /\ Hash(col) \notin canonical_hashes[col]
  /\ Hash(col) # 0
  /\ Analysed
  /\ new_clauses' = Append(new_clauses, clause)
  /\ trusted' = trusted \cup {<<clause, "block">>}
  /\ t_lines' = t_lines + 1
  /\ perm_lines' = perm_lines + 1
  /\ col' = 0
  /\ answer' = TRUE
  /\ UNCHANGED <<assign, fixed, current_trail, canonical_hashes, sol_count>>

\* The edges of a copy of g in the graph, one set per embedding found.
Copies(g) ==
  {{Image(p, e) : e \in g} : p \in {q \in VertexOrders :
      \A e \in g : assign[Image(q, e)] = l_True}}

\* Mutant: only the edges of the last column are forbidden.
ScanForbiddenColumn ==
  /\ col = N
  /\ \E g \in Forbidden : \E copy \in Copies(g) :
       LET clause == {<<e, FALSE>> : e \in copy \cap Column(N - 1)} IN
       /\ new_clauses' = Append(new_clauses, clause)
       /\ trusted' = trusted \cup {<<clause, "mus">>}
  /\ t_lines' = t_lines + 1
  /\ perm_lines' = perm_lines + 1
  /\ col' = 0
  /\ answer' = TRUE
  /\ UNCHANGED <<assign, fixed, current_trail, colsuntouched,
                 canonical_hashes, sol_count>>

\* Every column is defined: look for the forbidden subgraphs.
ScanForbidden ==
  /\ col = N
  /\ \E g \in Forbidden : \E copy \in Copies(g) :
       LET clause == {<<e, FALSE>> : e \in copy} IN
       /\ new_clauses' = Append(new_clauses, clause)
       /\ trusted' = trusted \cup {<<clause, "mus">>}
  /\ t_lines' = t_lines + 1
  /\ perm_lines' = perm_lines + 1
  /\ col' = 0
  /\ answer' = TRUE
  /\ UNCHANGED <<assign, fixed, current_trail, colsuntouched,
                 canonical_hashes, sol_count>>

ScanDone ==
  /\ col = N
  /\ \A g \in Forbidden : Copies(g) = {}
  /\ col' = 0
  /\ answer' = FALSE
  /\ UNCHANGED <<assign, fixed, current_trail, colsuntouched,
                 canonical_hashes, new_clauses, sol_count, trusted, t_lines,
                 perm_lines>>

\* The solver reads the last clause with cb_add_external_clause_lit up to its 0.
TakeClause ==
  /\ col = 0
  /\ new_clauses # <<>>
  /\ new_clauses' = SubSeq(new_clauses, 1, Len(new_clauses) - 1)
  /\ UNCHANGED <<assign, fixed, current_trail, colsuntouched,
                 canonical_hashes, sol_count, trusted, t_lines, perm_lines,
                 col, answer>>

Scan ==
  \/ ScanUndefined
  \/ ScanSeen
  \/ ScanCanonical
  \/ col \in Columns /\ \E w \in Witnesses(col) :
                             ScanNoncanonical(w)
  \/ ScanForbidden
  \/ ScanDone

\* The interface on its own: any call in any order.
SBNext ==
  \/ \E L, F \in SUBSET Literals(N) : NotifyAssignment(L, F)
  \/ NotifyNewDecisionLevel
  \/ \E level \in Nat : NotifyBacktrack(level)
  \/ \E model \in Graphs(N) : CheckFoundModel(model)
  \/ HasExternalClause
  \/ Scan
  \/ TakeClause

SBSpec == SBInit /\ [][SBNext]_sbvars

-----------------------------------------------------------------------------
(* Properties.                                                             *)

\* A clause that blocks a noncanonical subgraph (symbreak.cpp:266-292) is
\* satisfied by every canonical graph of order N, so no isomorphism class
\* loses its canonical member: the 't' lines of the proof may be trusted.
NoCanonicalBlocked ==
  \A t \in trusted : t[2] = "block" =>
    \A G \in CanonicalOfOrderN : Satisfies(G, t[1])
=============================================================================
