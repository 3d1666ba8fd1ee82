---------------------------- MODULE OrderlySearch ----------------------------
(***************************************************************************)
(* cadical-ks as a whole: the search loop of CaDiCaL                       *)
(* (cdcl_loop_with_inprocessing) around the SymmetryBreaker propagator.    *)
(* The formula is the given instance over the edge variables, auxiliary    *)
(* variables projected away.  The trail keeps, per decision level, the     *)
(* literals put there with their assignment level, which chronological     *)
(* backtracking allows to be lower than the level they were put at.        *)
(***************************************************************************)
EXTENDS SymmetryBreaker, FiniteSets, FiniteSetsExt

CONSTANTS
  Instances,     \* the formulas to solve: sets of clauses over the edges
  ChronoOptions, \* values of opts.chrono
  DecisionOrders,\* the variable orders the decision heuristic may follow
  MaxRestarts    \* bound on restarts (the real intervals only grow)

ASSUME SearchAssumption ==
  /\ Instances \subseteq SUBSET Clauses
  /\ ChronoOptions \subseteq BOOLEAN
  /\ DecisionOrders \subseteq Seq(Edges)
  /\ MaxRestarts \in Nat

VARIABLES
  cnf,       \* the instance
  chrono,    \* opts.chrono
  pc,        \* where the solver is in its loop
  db,        \* clauses of the solver: the instance and those it was given
  trail,     \* per level, the assigned literals [lit, lvl]
  pending,   \* trail literals the propagator has not been told of
  conflict,  \* the falsified clause, {} when there is none
  checking,  \* inside external_check_solution
  found,     \* the models shown to cb_check_found_model
  restarts

inputs == <<cnf, chrono>>
vars == <<sbvars, inputs, pc, db, trail, pending, conflict, checking, found,
          restarts>>

level == Len(trail) - 1
OnTrail == UNION {trail[k] : k \in DOMAIN trail}
TrailLits == {a.lit : a \in OnTrail}
True(l) == l \in TrailLits
False(l) == Negation(l) \in TrailLits
Unassigned(l) == ~True(l) /\ ~False(l)
LevelOf(l) == (CHOOSE a \in OnTrail : a.lit[1] = l[1]).lvl
Falsified(c) == \A l \in c : False(l)
Max0(S) == IF S = {} THEN 0 ELSE Max(S)

\* The graphs satisfying C and the trail literals of levels up to j.
Models(C) == {G \in Graphs(N) : \A c \in C : Satisfies(G, c)}
ModelsUpTo(j) ==
  {G \in Models(db) : \A a \in OnTrail : a.lvl <= j => G[a.lit[1]] = a.lit[2]}

Satisfied == \A e \in Edges : \E a \in OnTrail : a.lit[1] = e

Init ==
  /\ SBInit
  /\ pc = "propagate"
  /\ cnf \in Instances /\ chrono \in ChronoOptions
  /\ db = cnf
  /\ trail = <<{}>>
  /\ pending = {} /\ conflict = {} /\ checking = FALSE
  /\ found = {} /\ restarts = 0

\* Trail t with literal l put on its current level at assignment level lvl.
Put(t, l, lvl) == [t EXCEPT ![Len(t)] = @ \cup {[lit |-> l, lvl |-> lvl]}]

\* The trail after backtrack(b): literals of the popped levels that were
\* assigned out of order, at level b or lower, are kept on level b.
Kept(b) ==
  {a \in UNION {trail[k] : k \in (b + 2) .. Len(trail)} : a.lvl <= b}
Backtracked(b) ==
  [k \in 1 .. (b + 1) |-> IF k = b + 1 THEN trail[k] \cup Kept(b) ELSE trail[k]]

\* backtrack(b), then a literal l driven by a clause at level lvl.  What was
\* kept and what is driven is announced by the notify_assignments that follow.
BacktrackAndDrive(b, l, lvl) ==
  /\ NotifyBacktrack(b)
  /\ trail' = Put(Backtracked(b), l, lvl)
  /\ pending' = {l} \cup {a.lit : a \in {k \in Kept(b) : k.lvl > 0}}
  /\ pc' = "notify"

-----------------------------------------------------------------------------
(* Internal::propagate: a clause with one literal left implies it.         *)

Implied(c, l) == l \in c /\ Unassigned(l) /\ \A m \in c \ {l} : False(m)

\* search_assign: with chrono the level is assignment_level, the highest in
\* the reason; without, the current one.  A unit clause gives level 0.
DrivenLevel(c, l, current) ==
  IF chrono \/ c = {l} THEN Max0({LevelOf(m) : m \in c \ {l}}) ELSE current

\* A level-0 literal is fixed and mark_fixed announces it at once.
Propagate ==
  /\ pc = "propagate"
  /\ \E c \in db : \E l \in c :
       LET lvl == DrivenLevel(c, l, level) IN
       /\ Implied(c, l)
       /\ trail' = Put(trail, l, lvl)
       /\ IF lvl = 0 THEN NotifyAssignment({}, {l}) /\ UNCHANGED pending
                     ELSE UNCHANGED sbvars /\ pending' = pending \cup {l}
  /\ UNCHANGED <<pc, db, conflict, checking, found, restarts, inputs>>

PropagateConflict ==
  /\ pc = "propagate"
  /\ \E c \in db : Falsified(c) /\ conflict' = c
  /\ pc' = "analyze"
  /\ UNCHANGED <<sbvars, db, trail, pending, checking, found, restarts, inputs>>

\* No clause is left to propagate: notify_assignments, in external_propagate
\* or, inside external_check_solution, before its next test for a model.
PropagateDone ==
  /\ pc = "propagate"
  /\ \A c \in db : ~Falsified(c) /\ \A l \in c : ~Implied(c, l)
  /\ NotifyAssignment(pending, {})
  /\ pending' = {}
  /\ pc' = IF checking THEN "recheck" ELSE "extprop"
  /\ UNCHANGED <<db, trail, conflict, checking, found, restarts, inputs>>

\* notify_assignments at the end of search_assign_driving; a driven literal of
\* level 0 has been announced as fixed just before.
Notify ==
  LET units == {l \in pending : LevelOf(l) = 0} IN
  /\ pc = "notify"
  /\ NotifyAssignment(pending \ units, units)
  /\ pending' = {}
  /\ pc' = "propagate"
  /\ UNCHANGED <<db, trail, conflict, checking, found, restarts, inputs>>

-----------------------------------------------------------------------------
(* external_propagate and external_check_solution.                         *)

AskClause ==
  /\ pc = "extprop"
  /\ HasExternalClause
  /\ pc' = IF col' = 0 THEN "asked" ELSE "scan"
  /\ UNCHANGED <<db, trail, pending, conflict, checking, found, restarts, inputs>>

ScanColumns ==
  /\ pc = "scan"
  /\ Scan
  /\ pc' = IF col' = 0 THEN "asked" ELSE "scan"
  /\ UNCHANGED <<db, trail, pending, conflict, checking, found, restarts, inputs>>

NoClause ==
  /\ pc = "asked" /\ ~answer
  /\ pc' = "search"
  /\ UNCHANGED <<sbvars, db, trail, pending, conflict, checking, found,
                 restarts, inputs>>

\* add_external_clause reads the clause, add_new_original_clause drops its
\* literals that are false at the root, handle_external_clause reacts.  Only
\* the falsified case is here: PendingClauseFalsified says there is no other.
AddClause ==
  LET clause == new_clauses[Len(new_clauses)]
      rest == {l \in clause : LevelOf(l) > 0}
  IN
  /\ pc = "asked" /\ answer
  /\ Falsified(clause)
  /\ TakeClause
  /\ db' = db \cup {clause}
  /\ conflict' = rest
  /\ pc' = CASE rest = {} -> "done"
              [] Cardinality(rest) = 1 -> "unit"
              [] OTHER -> IF chrono THEN "analyze" ELSE "drive"
  /\ UNCHANGED <<trail, pending, checking, found, restarts, inputs>>

\* A unit: back to the root, assign_original_unit, propagate.
AddUnit ==
  /\ pc = "unit"
  /\ \E l \in conflict : BacktrackAndDrive(0, l, 0)
  /\ conflict' = {}
  /\ UNCHANGED <<db, checking, found, restarts, inputs>>

\* Without chrono handle_external_clause goes back to the second highest level
\* and assigns the highest literal, if that undoes it.
AddDriving ==
  /\ pc = "drive"
  /\ \E highest \in conflict :
       LET second == Max0({LevelOf(m) : m \in conflict \ {highest}}) IN
       /\ \A m \in conflict : LevelOf(m) <= LevelOf(highest)
       /\ IF second \in 0 .. (LevelOf(highest) - 1)
          THEN /\ BacktrackAndDrive(second, highest, second)
               /\ conflict' = {}
               /\ checking' = FALSE
          ELSE /\ pc' = "analyze"
               /\ UNCHANGED <<sbvars, trail, pending, conflict, checking>>
  /\ UNCHANGED <<db, found, restarts, inputs>>

\* external_check_solution: all edges assigned, show the model.  Its loop comes
\* back here after a unit clause without asking for a canonicity test.
CheckModel ==
  LET model == [e \in Edges |-> True(<<e, TRUE>>)] IN
  /\ pc \in {"check", "recheck"} /\ Satisfied
  /\ CheckFoundModel(model)
  /\ found' = found \cup {model}
  /\ pc' = "extprop"
  /\ UNCHANGED <<db, trail, pending, conflict, checking, restarts, inputs>>

\* The loop ends when the unit has left a variable unassigned: an edge, or an
\* auxiliary variable, which may happen or not.
CheckEnds ==
  /\ pc = "recheck"
  /\ pc' = "propagate" /\ checking' = FALSE
  /\ UNCHANGED <<sbvars, db, trail, pending, conflict, found, restarts, inputs>>

-----------------------------------------------------------------------------
(* Internal::analyze.                                                      *)

ConflictLevel == Max0({LevelOf(l) : l \in conflict})
Highest == {l \in conflict : LevelOf(l) = ConflictLevel}

AnalyzeRoot ==
  /\ pc = "analyze" /\ ConflictLevel = 0
  /\ pc' = "done"
  /\ UNCHANGED <<sbvars, db, trail, pending, conflict, checking, found,
                 restarts, inputs>>

\* One literal of the highest level: the conflict itself drives it.
AnalyzeForced ==
  /\ pc = "analyze" /\ ConflictLevel \in 1 .. level
  /\ \E l \in Highest :
       /\ Highest = {l}
       /\ BacktrackAndDrive(ConflictLevel - 1, l,
                            DrivenLevel(conflict, l, ConflictLevel - 1))
  /\ conflict' = {} /\ checking' = FALSE
  /\ UNCHANGED <<db, found, restarts, inputs>>

\* Otherwise a clause is learned.  Which one the resolution of reasons gives is
\* left open: any literal of the conflict level that the clauses and the
\* literals up to the jump level refute.  Chronological backtracking may stop
\* anywhere between the jump level and the conflict level.
AnalyzeLearned ==
  /\ pc = "analyze" /\ ConflictLevel \in 1 .. level /\ Cardinality(Highest) > 1
  /\ \E jump \in 0 .. (ConflictLevel - 1) :
     \E b \in jump .. (ConflictLevel - 1) :
     \E a \in OnTrail :
       /\ b > jump => chrono
       /\ a.lvl = ConflictLevel
       /\ \A G \in ModelsUpTo(jump) : G[a.lit[1]] # a.lit[2]
       /\ BacktrackAndDrive(b, Negation(a.lit), jump)
  /\ conflict' = {} /\ checking' = FALSE
  /\ UNCHANGED <<db, found, restarts, inputs>>

-----------------------------------------------------------------------------
(* The rest of the loop.                                                   *)

FoundModel ==
  /\ pc = "search" /\ Satisfied
  /\ pc' = "check" /\ checking' = TRUE
  /\ UNCHANGED <<sbvars, db, trail, pending, conflict, found, restarts, inputs>>

\* Mutant: the restart limit is not moved.
RestartForever ==
  /\ pc = "search" /\ ~Satisfied
  /\ restarts < MaxRestarts
  /\ \E b \in 0 .. (level - 1) :
       /\ NotifyBacktrack(b)
       /\ trail' = Backtracked(b)
       /\ pending' = {a.lit : a \in {k \in Kept(b) : k.lvl > 0}}
  /\ pc' = "notify"
  /\ UNCHANGED <<db, conflict, checking, found, restarts, inputs>>

Restart ==
  /\ pc = "search" /\ ~Satisfied
  /\ restarts < MaxRestarts
  /\ \E b \in 0 .. (level - 1) :
       /\ NotifyBacktrack(b)
       /\ trail' = Backtracked(b)
       /\ pending' = {a.lit : a \in {k \in Kept(b) : k.lvl > 0}}
  /\ restarts' = restarts + 1
  /\ pc' = "notify"
  /\ UNCHANGED <<db, conflict, checking, found, inputs>>

\* cb_decide has no preference; the heuristic's next unassigned variable.
Decide ==
  /\ pc = "search" /\ ~Satisfied
  /\ \E order \in DecisionOrders : \E k \in DOMAIN order : \E phase \in BOOLEAN :
       /\ Unassigned(<<order[k], phase>>)
       /\ \A j \in 1 .. (k - 1) : ~Unassigned(<<order[j], phase>>)
       /\ trail' = Append(trail, {[lit |-> <<order[k], phase>>, lvl |-> level + 1]})
       /\ pending' = {<<order[k], phase>>}
  /\ NotifyNewDecisionLevel
  /\ pc' = "propagate"
  /\ UNCHANGED <<db, conflict, checking, found, restarts, inputs>>

Finished == pc = "done" /\ UNCHANGED vars

Next ==
  \/ Propagate \/ PropagateConflict \/ PropagateDone \/ Notify
  \/ AskClause \/ ScanColumns \/ NoClause
  \/ AddClause \/ AddUnit \/ AddDriving \/ CheckModel \/ CheckEnds
  \/ AnalyzeRoot \/ AnalyzeForced \/ AnalyzeLearned
  \/ FoundModel \/ Restart \/ Decide
  \/ Finished

Spec == Init /\ [][Next]_vars /\ WF_vars(Next)

-----------------------------------------------------------------------------
(* Properties.                                                             *)

\* Whenever the solver calls back, the propagator's assign is the solver's
\* trail: through backtracking over several levels, literals kept on the trail
\* out of order and announced again, and literals announced as fixed, which the
\* propagator records on no level (symbreak.cpp:105-132).
PropagatorMirrorsTrail ==
  pc \in {"extprop", "scan", "asked", "check", "recheck", "search"} =>
    \A e \in Edges :
      /\ assign[e] = l_True <=> True(<<e, TRUE>>)
      /\ assign[e] = l_False <=> True(<<e, FALSE>>)

\* Some forbidden subgraph is in G.
Embeds(G) == \E g \in Forbidden : \E p \in VertexOrders :
               \A e \in g : G[Image(p, e)]

\* When the search ends, every canonical solution of the instance has been
\* shown to cb_check_found_model: unit clauses, jumps, restarts and the clauses
\* of the propagator never lose one (whatever colsuntouched started as).
Exhaustive ==
  pc = "done" =>
    \A G \in CanonicalOfOrderN :
      (\A c \in cnf : Satisfies(G, c)) /\ ~Embeds(G) => G \in found

\* "Number of solutions" counts every model once, and only models.
CountsModelsOnce == sol_count = Cardinality(found) /\
  \A G \in found : \A c \in cnf : Satisfies(G, c)

\* Every clause the propagator offers is false under the solver's trail when it
\* is read, so add_external_clause always leads to a conflict or a new unit.
PendingClauseFalsified ==
  \A k \in DOMAIN new_clauses : Falsified(new_clauses[k])

\* cb_has_external_clause tests the last column before a model is shown, so a
\* model reached by search is canonical.  (Premises: no two graphs share a hash,
\* and colsuntouched starts cleared.  The model the loop of
\* external_check_solution reaches at the root is not tested.)
SearchedModelsCanonical ==
  [][level > 0 => found' \ found \subseteq CanonicalOfOrderN]_vars

\* The search ends: every clause removes the graph it was made for, and every
\* jump asserts something new at a lower level.
Terminates == <>(pc = "done")

\* symbreak.cpp:260 "If subgraph is not canonical then block it": no graph that
\* is not canonical is counted as a solution.
SolutionsCanonical == found \subseteq CanonicalOfOrderN

\* check-perm.py:3-4: the i-th permutation belongs to the i-th trusted clause.
PermPerTrusted == perm_lines = t_lines
=============================================================================
