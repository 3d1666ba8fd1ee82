----------------------------- MODULE MarchSearch -----------------------------
(***************************************************************************)
(* march_cu (march.c, solver.c, preselect.c, cube.c): the formula is       *)
(* simplified, a tree of branches is searched with a lookahead at every    *)
(* node, and the leaves of the tree are written as cubes.                  *)
(*                                                                         *)
(* Which variable is branched on, with which sign, the order of the        *)
(* variables by rank, when a double lookahead is triggered and how far the *)
(* threshold of the dynamic cutoff falls are choices.                      *)
(***************************************************************************)
EXTENDS MarchUpdate, MarchFormula

CONSTANTS
  Problems,     \* records [clauses, options]
  Orders,       \* orders of the variables by rank
  MaxDoubles    \* bound: double lookaheads in one node

VARIABLES
  problem,      \* the input and the options
  formula,      \* Cv and what was taken out of it
  s,            \* the search's data, see MarchLookahead and MarchUpdate
  tree,         \* Dnodes: from the path to a node, 0 left and 1 right
  path,         \* current_Dnode, as long as depth
  pc,           \* where march_solve_rec is
  look,         \* the lookahead of this node
  bound,        \* [th, entry, conflicts]: free_th, initial_freeentryvars, conflicts
  answer,       \* of the program
  file          \* [written, lines]: the file of cubes

searchVars == <<problem, formula, s, tree, path, pc, look, bound, answer, file>>

options == problem.options
depth == Len(path)
Dynamic == options.depth = 0 /\ options.vars = 0
Entry(v) == options.maxvar = 0 \/ v <= options.maxvar
Left == Append(path, 0)
Right == Append(path, 1)

NoLook == [array |-> <<>>, tree |-> <<>>, k |-> 1, turn |-> 1, last |-> 0,
           doubled |-> {}, free |-> 0]
NoFile == [written |-> FALSE, lines |-> <<>>]
Lines(lines) == [written |-> TRUE, lines |-> lines]

\* Dnode_new
NewNode == [type |-> "refuted", lit |-> 0, weight |-> 0]

Init ==
  /\ problem \in Problems
  /\ formula = ParsedFormula(problem.clauses)
  /\ s = <<>> /\ tree = (<<>> :> NewNode) /\ path = <<>>
  /\ pc = "simplify" /\ look = NoLook
  /\ bound = [th |-> 0, entry |-> 0, conflicts |-> 0]
  /\ answer = "none" /\ file = NoFile

(***************************************************************************)
(* Before the search.                                                      *)
(***************************************************************************)
\* One turn of simplify_formula, called by runParser. A conflict writes the
\* empty cube, in plain mode too.
Simplified(f) ==
  IF f.unsat
  THEN /\ pc' = "done" /\ answer' = "UNSAT" /\ file' = Lines(<<<<>>>>)
       /\ UNCHANGED formula
  ELSE /\ formula' = f /\ pc' = IF Grew(formula, f) THEN "simplify" ELSE "start"
       /\ UNCHANGED <<answer, file>>

Simplify ==
  /\ pc = "simplify"
  /\ Simplified(SimplifyRound(formula))
  /\ UNCHANGED <<problem, s, tree, path, look, bound>>

\* kSAT_flag, big clauses and ternary clauses.
LongClauses(F) == {c \in F : Cardinality(c) >= 3}
IsKSat(F) == \E c \in F : Cardinality(c) > 3

\* rebuild_BinaryImp
Implications(F) == [l \in Lits |-> SetToSeq(UNION {c \ {-l} : c \in {d \in Binaries(F) : -l \in d}})]

\* init_freevars: a variable that occurs in no clause is not searched over.
InitialState(f) ==
  LET long == LongClauses(f.clauses)
      ksat == IsKSat(f.clauses)
  IN [time |-> [l \in Lits |-> IF l \in f.fixed THEN NaryMax
                               ELSE IF -l \in f.fixed THEN NaryMax + 1 ELSE 0],
      now |-> 0, bimp |-> Implications(f.clauses),
      sets |-> [l \in Lits |-> {c \in long : l \in c}],
      len |-> [c \in IF ksat THEN long ELSE {} |-> Cardinality(c)],
      cred |-> [c \in IF ksat THEN long ELSE {} |-> 0],
      ksat |-> ksat, ternary |-> IF ksat THEN {} ELSE long,
      fix |-> <<>>, res |-> <<>>, saved |-> [l \in {} |-> 0], forced |-> <<>>, ok |-> TRUE,
      free |-> VarsOf(UNION f.clauses), rstack |-> <<0>>,
      bsat |-> [l \in Lits |-> 0], red |-> [l \in Lits |-> 0],
      btb |-> [l \in Lits |-> {}], kept |-> [l \in Lits |-> {}],
      equal |-> {}, frames |-> <<>>]

\* main up to the search and initSolver, whose own simplification finds nothing
\* left to do.
Start ==
  /\ pc = "start"
  /\ s' = InitialState(formula)
  /\ bound' = [bound EXCEPT !.entry = Cardinality({v \in s'.free : Entry(v)})]
  /\ pc' = "enter"
  /\ UNCHANGED <<problem, formula, tree, path, look, answer, file>>

(***************************************************************************)
(* The tree of cubes, as it is written.                                    *)
(***************************************************************************)
\* Mutant: refuted leaves are left out.
RECURSIVE OpenLeaves(_, _, _)
OpenLeaves(t, p, cube) ==
  IF t[p].type = "refuted" THEN <<>> ELSE IF t[p].type # "internal" THEN <<cube>>
  ELSE OpenLeaves(t, Append(p, 0), Append(cube, t[Append(p, 0)].lit))
       \o OpenLeaves(t, Append(p, 1), Append(cube, t[Append(p, 1)].lit))

\* printDecisionNode, without the limit on the discrepancies.
RECURSIVE Leaves(_, _, _)
Leaves(t, p, cube) ==
  IF t[p].type # "internal" THEN <<cube>>
  ELSE Leaves(t, Append(p, 0), Append(cube, t[Append(p, 0)].lit))
       \o Leaves(t, Append(p, 1), Append(cube, t[Append(p, 1)].lit))

\* The internal node filterTree splits next: the last of the heaviest, if none
\* but internal nodes are as heavy as the first node of the filter.
Heaviest(t, filter) ==
  FoldLeft(LAMBDA max, i :
             IF t[filter[i]].type = "internal" /\ t[filter[i]].weight >= t[filter[max[1]]].weight
             THEN <<i, TRUE>> ELSE max,
           <<1, FALSE>>, [i \in DOMAIN filter |-> i])

RECURSIVE Filter(_, _, _)
Filter(t, filter, limit) ==
  LET max == Heaviest(t, filter)
  IN IF Len(filter) >= limit \/ ~max[2] THEN ToSet(filter)
     ELSE Filter(t, Append([filter EXCEPT ![max[1]] = Append(@, 0)], Append(filter[max[1]], 1)), limit)

\* filterTree
FilterTree(t, limit) ==
  IF limit = 0 THEN t
  ELSE LET filter == Filter(t, <<<<>>>>, limit)
       IN [p \in DOMAIN t |-> IF p \in filter THEN [t[p] EXCEPT !.type = "filter"] ELSE t[p]]

\* printDecisionTree and printUNSAT
DecisionTree(t) ==
  IF options.plain THEN NoFile
  ELSE IF t[<<>>].type = "refuted" THEN Lines(<<<<>>>>)
  ELSE Lines(Leaves(FilterTree(t, options.limit), <<>>, <<>>))

\* main with the result of the search: a solution is printed instead.
Answer(result) ==
  /\ answer' = result /\ pc' = "done"
  /\ file' = IF result = "SAT" THEN NoFile ELSE DecisionTree(tree)

\* refuteNode for the node p.
Refute(p) == tree' = [tree EXCEPT ![p].type = "refuted"]

(***************************************************************************)
(* march_solve_rec.                                                        *)
(***************************************************************************)
OutOfConflicts == options.hard > 0 /\ bound.conflicts >= options.hard

\* The returns before the node is made.
StopAtOnce ==
  /\ pc = "enter"
  /\ \/ formula.clauses = {} /\ Answer("SAT")
     \/ formula.clauses # {} /\ OutOfConflicts /\ Answer("UNKNOWN")
  /\ UNCHANGED <<problem, formula, s, tree, path, look, bound>>

\* Mutant: the limit on the depth is passed by one.
CutBelow ==
  /\ ~options.plain
  /\ \/ options.depth > 0 /\ depth > options.depth
     \/ Dynamic /\ Cardinality(s.free) < bound.th
     \/ /\ options.vars > 0
        /\ bound.entry - Cardinality({v \in s.free : Entry(v)}) > options.vars

CutHere ==
  /\ ~options.plain
  /\ \/ options.depth > 0 /\ depth = options.depth
     \/ Dynamic /\ Cardinality(s.free) < bound.th
     \/ /\ options.vars > 0
        /\ bound.entry - Cardinality({v \in s.free : Entry(v)}) > options.vars

\* Dnode_init
Grown(type) ==
  Left :> NewNode @@ Right :> NewNode @@
  [tree EXCEPT ![path].type = type, ![path].weight = Cardinality(s.free)]

Searches == pc = "enter" /\ formula.clauses # {} /\ ~OutOfConflicts

\* The threshold, up to the next integer: 2 % or less are taken from it.
Lowered(th) == IF th > 1 THEN {th - 1, th} ELSE {th}

Cut ==
  /\ Searches /\ CutHere
  /\ tree' = Grown("cube")
  /\ \E th \in Lowered(bound.th) : bound' = [bound EXCEPT !.th = th]
  /\ pc' = "return"
  /\ UNCHANGED <<problem, formula, s, path, look, answer, file>>

Visit ==
  /\ Searches /\ ~CutHere
  /\ tree' = Grown("internal")
  /\ pc' = "choose" /\ look' = NoLook
  /\ UNCHANGED <<problem, formula, s, path, bound, answer, file>>

\* ConstructCandidatesSet
Candidates(t) ==
  {v \in t.free :
     /\ Entry(v) /\ v \notin t.equal
     /\ options.gah /\ depth > 0 => t.red[v] # 0 \/ t.red[-v] # 0}

Occurs(t, v) == \E l \in {v, -v} : t.sets[l] # {} \/ Len(t.bimp[l]) > t.bsat[l]

\* checkSolution
NothingLeft(t) == \A v \in Vars : ~IsFixed(t, v) => ~Occurs(t, v)

\* The literals printSolution prints.
Assigned(t) == {l \in Lits : t.time[l] = NaryMax}

\* verifySolution, with the literals that are true in the end.
Verify(t, A) ==
  /\ s' = [t EXCEPT !.time = [l \in Lits |-> IF l \in A THEN NaryMax
                                            ELSE IF -l \in A THEN NaryMax + 1 ELSE @[l]]]
  /\ Answer(IF \A c \in formula.clauses : c \cap A # {} THEN "SAT" ELSE "UNKNOWN")

\* init_lookahead_procedure; that the tree has a contradiction is not looked at.
LookAt(t, array) ==
  LET trees == TreebasedLookahead(t.bimp, array)
  IN /\ s' = [t EXCEPT !.forced = <<>>, !.now = 2, !.fix = <<>>,
                       !.equal = @ \cup trees.equal]
     /\ look' = [look EXCEPT !.array = array, !.tree = trees.list, !.k = 1, !.turn = 1,
                             !.last = 0, !.free = Cardinality(t.free)]
     /\ pc' = "look"

InOrder(o, S) == SelectSeq(o, LAMBDA v : v \in S)

\* RealisePreselectedSet: with more than five candidates of a rank above the trigger
\* only these are left; the ranks are a choice.
Ranked(S) == {S} \cup {R \in SUBSET S : Cardinality(R) > 5}

\* The variables to look ahead on, or what verifySolution says without any.
ChooseFrom(t) ==
  LET all == {v \in t.free : Entry(v) /\ Occurs(t, v)}
      arrays == IF Candidates(t) # {} THEN Ranked(Candidates(t))
                ELSE IF depth > 0 /\ NothingLeft(t) THEN {{}} ELSE {all}
  IN \E array \in arrays :
       IF array = {}
       THEN Verify(t, ExtendedOver(formula, Assigned(t))) /\ UNCHANGED look
       ELSE /\ \E o \in Orders : LookAt(t, InOrder(o, array))
            /\ UNCHANGED <<answer, file>>

Choose ==
  /\ pc = "choose"
  /\ ChooseFrom([s EXCEPT !.time = [l \in Lits |-> IF VarOf(l) \in s.free THEN 0 ELSE @[l]]])
  /\ UNCHANGED <<problem, formula, tree, path, bound>>

\* lookahead after its loop, and the node without a solution.
EndOfLook(t) ==
  /\ s' = RestoredTo(t, 0)
  /\ IF t.ok THEN pc' = "force" /\ UNCHANGED <<tree, bound>>
     ELSE /\ pc' = "return" /\ Refute(path)
          /\ bound' = [bound EXCEPT !.conflicts = @ + 1, !.th = look.free]

Literal == look.tree[look.k].literal
AtTime(t) == [t EXCEPT !.now = @ + look.tree[look.k].gap]
LookEnds == Literal = look.last \/ AtTime(s).now >= LookMax

\* One turn of tree_lookahead's inner loop, after treelookvar.
Looked(t, double) ==
  IF ~t.ok THEN EndOfLook(t) /\ UNCHANGED look
  ELSE /\ s' = [t EXCEPT !.now = @ - look.tree[look.k].gap]
       /\ look' = [look EXCEPT
            !.k = @ + 1,
            !.last = IF Len(t.forced) > Len(s.forced) THEN Literal ELSE @,
            !.doubled = IF double THEN @ \cup {Literal} ELSE @]
       /\ UNCHANGED <<pc, tree, bound>>

Look ==
  /\ pc = "look" /\ look.k <= Len(look.tree)
  /\ IF LookEnds THEN EndOfLook([s EXCEPT !.ok = TRUE]) /\ UNCHANGED look
     ELSE \E double \in BOOLEAN :
            /\ double => /\ Cardinality(look.doubled) < MaxDoubles /\ Literal \notin look.doubled
                         /\ ~IsFixed(AtTime(s), Literal)
                         /\ RoomForDouble(AtTime(s), look.tree)
            /\ Looked(TreeLookVar(AtTime(s), Literal, look.tree, double, options.wfr), double)
  /\ UNCHANGED <<problem, formula, path, answer, file>>

\* The end of one turn over the tree.
LookAgain ==
  /\ pc = "look" /\ look.k > Len(look.tree)
  /\ LET t == [s EXCEPT !.now = @ + 2 * Len(look.tree), !.ok = TRUE]
     IN IF look.last # 0 /\ look.turn <= SlIter
        THEN /\ s' = t /\ look' = [look EXCEPT !.k = 1, !.turn = @ + 1]
             /\ UNCHANGED <<pc, tree, bound>>
        ELSE EndOfLook(t) /\ UNCHANGED look
  /\ UNCHANGED <<problem, formula, path, answer, file>>

\* Mutant: a variable that was reduced is insisted on.
ReducedVariables(t) ==
  {v \in ToSet(look.array) : ~IsForced(t, v) /\ v \notin t.equal /\ (t.red[v] # 0 \/ t.red[-v] # 0)}

\* get_signedBranchVariable, any score.
BranchVariables(t) ==
  LET open == {v \in ToSet(look.array) : ~IsForced(t, v)}
      reduced == {v \in open : v \notin t.equal /\ (t.red[v] # 0 \/ t.red[-v] # 0)}
  IN IF options.gah /\ reduced # {} THEN reduced ELSE open

MostForced(t) == 2 * (look.free - Cardinality(t.free)) > look.free

\* propagate_forced_literals; MainDead and march_solve_rec both refute a node
\* in which it fails.
AfterForcing(t) ==
  /\ s' = t
  /\ IF t.ok
     THEN /\ pc' = IF MostForced(t) \/ BranchVariables(t) = {} THEN "choose" ELSE "branch"
          /\ UNCHANGED <<tree, bound>>
     ELSE /\ pc' = "return" /\ Refute(path)
          /\ bound' = [bound EXCEPT !.conflicts = @ + 2, !.th = look.free]

Force ==
  /\ pc = "force"
  /\ AfterForcing(FixForGood(s, s.forced, options.gah))
  /\ UNCHANGED <<problem, formula, path, look, answer, file>>

\* IFIUP of a branch and what follows it: the recursive call, or a dead end.
Entered(t, child, l) ==
  /\ s' = [t EXCEPT !.rstack = Append(@, 0)]
  /\ path' = child
  /\ tree' = [tree EXCEPT ![child].lit = l]
  /\ pc' = IF t.ok THEN "enter" ELSE "return"
  /\ bound' = IF t.ok THEN bound
              ELSE [bound EXCEPT !.conflicts = @ + 1,
                                 !.th = IF @ < Cardinality(t.free) THEN Cardinality(t.free) ELSE @]
Descend(t, child, l) == Entered(FixForGood(NodeStart(t), <<l>>, options.gah), child, l)

\* What the global autarky heuristic counted at the root is forgotten.
Forgotten(t) ==
  IF options.gah /\ depth = 0
  THEN [t EXCEPT !.red = [l \in Lits |-> 0], !.btb = [l \in Lits |-> {}],
                 !.cred = [c \in DOMAIN @ |-> 0]]
  ELSE t

BranchLeft ==
  /\ pc = "branch"
  /\ \E v \in BranchVariables(s) : \E l \in {v, -v} : Descend(Forgotten(s), Left, l)
  /\ UNCHANGED <<problem, formula, look, answer, file>>

\* NODE_END after a branch without a solution.
Return ==
  /\ pc = "return" /\ path # <<>>
  /\ s' = NodeEnd(s, options.gah)
  /\ path' = Front(path)
  /\ pc' = IF Last(path) = 0 THEN "right" ELSE "return"
  /\ UNCHANGED <<problem, formula, tree, look, bound, answer, file>>

BranchRight ==
  /\ pc = "right"
  /\ Descend(s, Right, -tree[Left].lit)
  /\ UNCHANGED <<problem, formula, look, answer, file>>

Finish ==
  /\ pc = "return" /\ path = <<>>
  /\ Answer("UNSAT")
  /\ UNCHANGED <<problem, formula, s, tree, path, look, bound>>

Step ==
  \/ Simplify \/ Start \/ StopAtOnce \/ Cut \/ Visit \/ Choose \/ Look \/ LookAgain
  \/ Force \/ BranchLeft \/ Return \/ BranchRight \/ Finish

Done == pc = "done" /\ UNCHANGED searchVars
Next == Step \/ Done

\* Weak fairness of Step, which is possible until pc is "done": the process runs.
Fairness == []<><<TRUE>>_searchVars \/ []<>(pc = "done")
Spec == Init /\ [][Next]_searchVars /\ Fairness

(***************************************************************************)
(* Properties.                                                             *)
(***************************************************************************)
Searching == pc \notin {"simplify", "start", "done"}
Trail(t) == ToSet(t.rstack) \ {0}
Decisions(p) == {tree[SubSeq(p, 1, k)].lit : k \in 1 .. Len(p)}

\* All the search concludes at a node follows from the formula and the branches
\* on the way to it: the literals fixed (march_solve_rec, IFIUP), those the
\* lookahead forces (look_fix_forced_literal), the implications it adds
\* (add_resolvents) and the nodes it refutes (refuteNode). An implication found
\* under an assumption that is no longer made, or not taken back by backtrack,
\* breaks it.
LearnsOnlyConsequences ==
  Searching =>
    \A A \in Models(formula.clauses) :
      Decisions(path) \subseteq A =>
        /\ Trail(s) \subseteq A
        /\ pc \in {"look", "force"} => ToSet(s.forced) \subseteq A
        /\ \A l \in A : ToSet(s.bimp[l]) \subseteq A
        /\ ~(pc = "return" /\ tree[path].type = "refuted")

\* The long clauses that are still looked at once the literals in T are true.
LiveClauses(T) ==
  {c \in LongClauses(formula.clauses) :
     /\ c \cap T = {}
     /\ IF s.ksat THEN Cardinality({l \in c : -l \notin T}) >= 3 ELSE c \cap Negated(T) = {}}

\* Between two updates what the search counts is a function of the trail alone:
\* the lengths and the lists of the live clauses, the satisfied implications and
\* the free variables, as DPLL_update_datastructures leaves them and
\* restore_implication_arrays puts them back, after a conflict half way too. At
\* the root the counts of the autarky heuristic are back at zero between the two
\* branches, which solver.c:769-792 asserts.
CountsMatchTrail ==
  Searching =>
    LET T == Trail(s)
        open == Lits \ (T \cup Negated(T))
    IN /\ s.free = VarsOf(UNION formula.clauses) \ VarsOf(T)
       /\ \A l \in Lits : s.bsat[l] = Cardinality({k \in DOMAIN s.bimp[l] : s.bimp[l][k] \in T})
       /\ \A l \in open : s.sets[l] = {c \in LiveClauses(T) : l \in c}
       /\ pc # "look" =>
            \A c \in LiveClauses(T) \cap DOMAIN s.len : s.len[c] = Cardinality(c \ Negated(T))
       /\ pc = "right" /\ options.gah =>
            \A l \in Lits : /\ path = <<>> => s.red[l] = 0 /\ s.btb[l] = {}
                           /\ s.ksat => s.red[l] >= 0

\* A formula called satisfiable is: what is printed can be extended to a solution
\* of the input, and is one of the clauses left after verifySolution.
SolutionHolds ==
  answer = "SAT" =>
    LET A == IF s = <<>> THEN formula.fixed ELSE Assigned(s)
    IN (\E B \in Models(problem.clauses) : A \subseteq B) /\ \A c \in formula.clauses : c \cap A # {}

\* An assignment is below exactly one of the cubes a search that ended has
\* written, cut leaves, refuted leaves and the filter's leaves together.
CubesPartition ==
  answer = "UNSAT" /\ file.written =>
    \A A \in Assignments(Vars) :
      Cardinality({k \in DOMAIN file.lines : ToSet(file.lines[k]) \subseteq A}) = 1

\* march_cu with -d 1, as the cube scripts call it, keeps the promise the model of
\* the scripts relies on.
AnswersAsScript ==
  answer # "none" /\ options.depth = 1 /\ ~options.plain /\ options.hard + options.limit = 0 =>
    Outcome(answer, file.lines)
      \in March(problem.clauses, IF options.maxvar = 0 THEN MaxVar ELSE options.maxvar)

\* Every run of march_cu ends: looking ahead once more at a node needs a literal
\* that was forced, and every return takes a branch back.
Ends == <>(pc = "done")
=============================================================================
