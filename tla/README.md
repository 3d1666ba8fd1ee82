# Verification of MathCheckRamsey

MathCheckRamsey searches for Ramsey graphs: a graph on n vertices with no
p-clique in one colour and no q-clique in the other. It writes the question as a
CNF over the edges, simplifies it, splits it into cubes and solves the parts with
a CDCL solver (`cadical-ks`) that carries a propagator for orderly generation:
whenever the first columns of the adjacency matrix are assigned and the subgraph
is not the smallest of its isomorphism class, a clause blocks it. The result is
meant to be checkable: DRAT proofs with *trusted* clauses (`t` lines), each with
a permutation that justifies it.

This directory models the way from the command line to the checked answer: the
instance and its encodings, the two programs that make cubes of it, the driver
that solves the cubes in parallel, the solver (search, incremental interface,
simplification between conflicts, proof tracing), the propagator with its
canonicity test, and the two programs that check the proof.

## Inventory

| component | state | operations | interacts with |
|---|---|---|---|
| `SymmetryBreaker` (cadical-ks/src/symbreak.cpp) | copy of the assignment, fixed flags, trail per level, touched columns, hashes of canonical subgraphs, clauses not read yet, solution counter | the ExternalPropagator callbacks | called back by the search loop; writes the proof and the permutation file |
| `is_canonical` (same file) | candidate sets per level, partial permutation, where the comparison starts, counters | one backtracking search | called per column by `cb_has_external_clause` |
| search loop and IPASIR-UP glue (internal, propagate, backtrack, analyze, decide, restart, clause, external_propagate) | trail with assignment levels, clauses, conflict, what has been notified | propagate, analyze, decide, restart, read a clause, check a model | calls the propagator; answers the scripts by its output |
| search and incremental interface (also assume, constrain, minimize, shrink, reduce, collect, lucky, walk, rephase, flip, external, solver) | watched clauses, reasons, assumptions, constraint, failed literals, what is left of the last trail | add, assume, constrain, solve, flip; learn, strengthen, reduce | tells the proof every clause added and deleted |
| inprocessing (subsume, vivify, probe, ternary, decompose, elim, block, cover, condition, restore, ...) | irredundant and redundant clauses, status of variables, extension stack | one procedure after another | runs between conflicts of the search |
| proof tracing (proof, lratbuilder, lratchecker, checker) | the clauses believed to be there, the builder's trail | add, delete, conclude | fed by the search |
| `march_cu` | binary implications, longer clauses, time stamps, implication tree, stacks, tree of branches | lookahead, branch, backtrack, cut, print | called by `cube-instance.sh` |
| `ams_no_mcts.py` | stack of nodes with literals learnt on the way | choose a variable, propagate, cut off | called by the driver |
| `cube.sh`, `cube-instance.sh`, `apply.sh` | a file of cubes per depth | apply a cube, split it, rewrite the lines | call `march_cu` |
| `gen_instance`, `combine.sh` | the last variable used, temporary file, the file `header` | one generator after another | makes the CNF |
| `main.sh`, `caller_main.sh` | directory of the run | options, three solve modes, distribution over nodes | starts everything |
| `parallel-solve.py` | JoinableQueue with its count of unfinished tasks, worker processes, files | get, put, task_done, join; the branches of `cube` and `run_command` | starts the simplifier, the cuber and `solve-verify.sh` |
| `proof-module.sh`, `drat-trim`, `drat-trim/check-perm.py` | watched clauses, trail with reasons, dependency marks; rows of the permutation file | forward pass, backward pass, RUP and RAT checks; compare line with clause | called by `solve-verify.sh` |
| `verify_cubes.py`, `verify.py` | log files | recursion over the tree of cubes | read what the driver left |
| `lrat-check` | table of clauses | read a line, check its hints | called by no script; reads the LRAT files in `ProofFiles` |
| `maplesat-ks`, rest of CaDiCaL, bundled PySAT, set-up scripts | | | see *Not modelled* |

What is hard in it:

* the propagator keeps a *copy* of the trail by notifications alone, while the
  solver backtracks chronologically and leaves out-of-order literals in place,
  announces root literals separately and early, and jumps in the middle of
  reading a clause; the bookkeeping of touched columns and seen hashes decides
  which subgraphs are not tested again;
* the shortened blocking clause and the comparison that does not restart at the
  first entry are sound for reasons that no test of small inputs shows;
* the solver keeps its trail between calls, so a clause, an assumption or a
  flipped literal meets levels that were made for another question; every
  simplification leaves irredundant, redundant and extension clauses that the
  next one must read correctly;
* `march_cu` tells what is fixed by time stamps only and undoes its counters by
  running updates backwards;
* `drat-trim` checks a proof backwards from the conflict, with deletions undone
  and trusted clauses never checked;
* several processes put, get and count tasks; commands fail; programs are
  killed; two generators share one file name.

What makes each part correct:

* propagator: a blocking clause excludes no canonical graph; its assignment is
  the solver's; a clause is false when it is read; models are counted once;
* canonicity test: a "no" comes with a witness, a "yes" outside the pseudo-test
  means canonical, the search ends;
* search: every canonical solution is found; every answer keeps the contract of
  the interface; reasons stay; the proof lines are accepted; every call returns;
* inprocessing: over the observed variables the solutions stay as they are, and
  the extension stack completes a model of what is left to one of what was given;
* instance: its solutions are the graphs asked for with rows in order, the
  canonical ones among them; cubes: each solution is in exactly one;
* driver: the subproblems partition the problem, `join` waits for all of them,
  files exist when they are read, it ends;
* checkers: silence means that the clauses really exclude every canonical graph
  that was not listed.

`PROJECT.json` lists the hazards at their lines with the properties aimed at
them.

## Modules

| module | what it models |
|---|---|
| `Canonicity` | matrix entries, graphs, relabellings, the reference definition of canonical, and the blocking clause (symbreak.cpp:266-288) |
| `CanonicityTest` | what the propagator relies on when it calls `is_canonical`: the abstract test |
| `CanonSearch` | `is_canonical` itself, step by step, with `CheckPerm` on its answers |
| `SymmetryBreaker` | the propagator, every callback an action; `SBSpec` allows the calls in any order |
| `OrderlySearch` | CaDiCaL's search loop around the propagator |
| `Clauses` | literals, clauses, unit propagation, satisfiability; the models of a set of clauses |
| `ConflictAnalysis` | trail, control stack, watches, reasons, propagation, proof lines; first UIP, on-the-fly strengthening, minimization, shrinking, levels, chains |
| `IncrementalSolver` | the calls of the interface, order of assumptions, trail reuse and who failed, and the search loop around `ConflictAnalysis` |
| `SolverContract` | abstract: what the interface promises |
| `LratChecker`, `RupChecker`, `LratBuilder` | the two online checkers and the chain builder |
| `ProofFiles` | what the five file tracers (LRAT, FRAT, DRAT, VeriPB, IDRUP) write, each as what a reader of the file makes of it; for LRAT the reader is `lrat-check.c` |
| `CheckedSolver` | `IncrementalSolver` composed with these: each step, told to `Proof`, reaches every tracer |
| `ClauseDatabase` | units, garbage, extension stack, restoring, compaction |
| `Subsumption`, `Probing`, `Elimination` | the procedures, by what they may do to the clauses |
| `Inprocessing` | the search loop that starts them, with clauses learnt, reduced and added between |
| `IncrementalSAT` | abstract: the observed solutions stay |
| `InstanceGenerator` | the clause generators of `gen_instance`; `main.sh`, `generate.py`, `combine.sh` and the parser's header check, with kills and a second generator |
| `Cuber` | `ams_no_mcts.py` |
| `CubeScript` | `cube.sh`, `cube-instance.sh`, `apply.sh` over the answers `MarchFormula` allows |
| `InstanceToCubes` | generator, then either cuber on its instance |
| `MarchFormula`, `MarchLookahead`, `MarchUpdate`, `MarchSearch` | `march_cu`: simplification, equivalences and (abstract) what it may answer to the cube script, time-stamped propagation and the implication tree with lookahead and double lookahead, fixing and undoing, the search and the tree it prints |
| `ParallelSolve` | `parallel-solve.py` |
| `DratTrim`, `CheckPerm`, `ProofModule` | `drat-trim`, `check-perm.py`, and `proof-module.sh` that runs one after the other |
| `MC...` | instances for TLC |
| `CanonicityProofs`, `OrderlySearchProofs`, `CanonSearchProofs`, `InprocessingSteps`, `InprocessingProofs`, `ParallelSolveProofs`, `DratTrimProofs`, `ProofModuleProofs` | theorems |

Compositions: `OrderlySearch` drives `SymmetryBreaker`; `CheckedSolver` feeds
the checkers from `IncrementalSolver`; `InstanceToCubes` hands one program's file
to the next; `ProofModule` runs two programs over one proof. Refinements:
`CanonSearch` implements `CanonicityTest`, `IncrementalSolver` implements
`SolverContract`, `Inprocessing` implements `IncrementalSAT`, and
`OrderlySearch` implements the propagator's `SBSpec`; all but the second of
these are proved. The answers allowed to `march_cu` (`March` in `MarchFormula`)
stand between `MarchSearch`, which is checked to give one of them, and
`CubeScript`, which assumes them.

**The propagator and its search.** In `SymmetryBreaker` the variables carry the
names of the members of the class; `col` is the loop variable of a running
`cb_has_external_clause` (0 when none runs), `answer` its result. The proof and
the permutation file are represented by their trusted clauses and numbers of
lines. A call of the callback is one step per column scanned, so that each
column's verdict is an action (`ScanSeen`, `ScanCanonical`, `ScanNoncanonical`,
`ScanUndefined`), followed by `ScanForbidden` or `ScanDone`. The edge with
number x(x-1)/2+y+1 is the pair `<<x, y>>`. Inside `SymmetryBreaker` the
canonicity test is its abstract specification: any witness may come back, and on
the columns in `PseudoColumns` it may say "canonical" at will. `CanonSearch`
shows that the code's search is such a test.

In `OrderlySearch` a trail literal carries its assignment level besides the
decision level it is put on, because with `chrono` the two differ. `pc` says
which call of the loop (internal.cpp:228-272) runs. `pending` holds the literals
between `notified` and the end of the trail. `conflict` holds the clause under
analysis, or the remaining literals of a clause just read. `found` records the
models shown, for the properties. Three abstractions are made:

* auxiliary variables are projected away: the instance is a set of clauses over
  the edges. After a unit clause the loop of `external_check_solution` goes on
  while every variable is assigned; whether an auxiliary one is not is left open
  (`CheckEnds`);
* conflict analysis asserts *some* literal that the clauses and the literals up
  to the jump level refute, instead of the one the resolution of reasons yields,
  and learned clauses are not kept after they have driven their literal.
  Chronological backtracking may stop at any level between the jump and the
  conflict. `ConflictAnalysis` models the resolution itself;
* restarts go to any level; inprocessing, assumptions and rephasing are in the
  modules below. Lucky phases are off when a propagator is connected
  (lucky.cpp:348).

`AddClause` treats only the case that the clause is false under the trail. The
invariant `PendingClauseFalsified` shows there is no other.

**The solver behind its interface.** `core` is the solver's own state: the
trail of `[lit, level, reason]`, the control stack, the set of watched clauses
with their two watches, which of them are redundant, and the proof lines of the
step just made. `user` is what the caller has said since the last answer, for the
contract; `run.pc` says what is running, `idle` between calls. `AddClause`,
`AssumeLiteral`, `Constrain`, the two resets, `Flip`, `Flippable` and `Solve` are
the calls (a script of sets of calls makes them); the actions of `SolveNext` are
the search loop, with one propagated literal or one conflict per step. What the
code decides by scores, phases, glue or limits is a choice: decisions follow an
order per problem and the literals it may try, reductions take any redundant
clauses that are no reasons, strategies of a lucky phase are followed exactly.
Clauses are sets of literals, so two equal clauses are one, and a clause stands
for its own identifier in the proof; ties fall by `CHOOSE`. Blocking literals and
`pos` appear as what they lead to: a watch is moved, or the clause is skipped.

`CheckedSolver` hands each step's lines to the tracers in the order `proof.cpp`
does: originals, derived clauses, deletions, and at the end of a call the
conclusion. Each checker keeps the message it would stop with in `failure`.
The builder's cached chain for the empty clause is recomputed instead. The files
of `ProofFiles` are read as they are written, by a reader that rejects a line it
cannot confirm: an LRAT hint that is no clause of the table or leaves two literals
open, a deletion of a clause that is not there, a conclusion without its clause.

**Inprocessing.** `irr`, `red`, `units`, `extension` and `status` are the
clauses, fixed literals, extension stack and flags. A procedure is a list of
techniques (`plan`); each step of a technique is one change, under the condition
the code checks before it makes it, and the technique may stop at any time, as
its limits may. `work` holds what goes from one step to the next. `Database` is
what the solver holds: while decompose rewrites clauses it includes the
equivalences found. They may follow from redundant clauses only, so half way
through the irredundant clauses alone can admit more over the observed variables
than was given: {1,-2,4}, {1,-2,-4}, {-1,2}, {-2,3}, {2,4} with 3 and 4 observed,
{1,-2} learnt, the first two clauses removed as blocked, and {-2,3} the first to be
rewritten. The search never runs in between; the attempt to prove
`KeepsObservedSolutions` without the equivalences showed it.

**From options to cubes.** `stage` and `next` walk through the blocks
`generate.py` writes; `temp`, `final` and `header` are its files. A graph is the
set of edge literals it makes true. `Cuber` keeps the agenda of the depth-first
search, `CubeScript` the file of the current depth. `MarchSearch` uses the
names of the C arrays; its state `s` is one record because every function reads
and writes most of it (the fields are explained at the head of
`MarchLookahead` and `MarchUpdate`). A value is a time stamp, even for true
and odd for false, as in the code.

**The driver.** In `ParallelSolve` a subproblem is a node of a binary tree below
a given instance; a command names the file it starts from (`orig`) and the node.
What the simplifier, the cuber and the solver decide is a free choice.
`MaxDepth` says where no variable is left, so the solver must answer there. The
bodies of the `cube` and `run_command` branches are single steps, since they
touch files no other command names; the puts that follow are single steps of
their own, because that is where the processes interfere. `CubeFails` and
`SolveFails` are exceptions; they happen before the first put of a command.
`ReadsInstance`, a guard of every branch, is discharged by `InstancePresent`.
`Settled` is a stutter that marks the states in which the program has ended or
main waits in `join` for a worker that has died; every other state without a
successor would be reported as a deadlock.

**The checkers of the result.** `DratTrim` reads the lines of a proof, makes the
forward pass with core-first propagation and goes back over it with marks, RUP
and RAT checks; `ProofModule` adds the shell script's reading of its verdict and
`check-perm.py`'s comparison line by line. The first variables are the edges; an
instance has others too, and a clause over them has no entry in the matrix.

## Runs

| run | question | size |
|---|---|---|
| `canon_search` | is the code's search the abstract test, does it end, does `check-perm.py` accept what it yields? | 90 818 states |
| `orderly_n3` | soundness, mirroring, counting, termination of the whole search | 302 753 states |
| `orderly_n4` | touched columns with more than one column, a pseudo-tested column, a forbidden subgraph | 239 227 states |
| `incremental` | do answers keep the contract over several calls, do reasons stay, are the proof's lines accepted and its files readable, does every call return? | 201 256 states |
| `inprocess` | does any interleaving of simplifications change what is asked? | 332 503 states |
| `instance_to_cubes` | is an accepted instance the question asked, and do the cubes cover it? | 31 780 states |
| `march` | what lookahead learns, what backtracking undoes, what is printed | 317 934 states |
| `parallel_solve` | partition, join, files, retry and termination | 414 403 states |
| `proof_module` | what does a proof without an error message show? | 1 475 495 states |
| `orderly_root`, `orderly_perms`, `drat_trusted` | statements of comments, of the checker and of a README that the code does not meet | stop at the counterexample |

What the passing runs show:

* `ImplementsTest` (refinement of `CanonicityTest`): although the comparison
  resumes at `last_x`, `last_y`, a "no" has a witness whose earlier entries all
  agree, and a "yes" outside the pseudo-test is right. `AcceptedByCheckPerm`:
  the clause and the rows written for it pass `check-perm.py`. `Terminates`.
* `NoCanonicalBlocked`, `Exhaustive`: no canonical solution is excluded, and
  when the search ends each one has been shown to `cb_check_found_model`.
  `PropagatorMirrorsTrail`: at every callback the propagator's assignment is the
  trail. `SearchedModelsCanonical`: a model reached above the root is canonical.
  `CountsModelsOnce`, `PendingClauseFalsified`, `Terminates`.
* `KeepsContract` (refinement of `SolverContract`): a model satisfies clauses,
  assumptions and constraint; failed assumptions, with the constraint where it
  is said to fail, really contradict the clauses; the next call forgets both.
  `ReasonsHold`: the clause that implied a literal is kept, watches it and was
  false before it on levels not above its own, through reductions, flushing and
  on-the-fly strengthening. `NoClauseFalsified`: whatever is added to a kept
  trail, propagation misses no conflict. `AssumptionsFirst`: the levels kept
  from the last call still decide this call's assumptions. `CheckersAccept`: no
  line of the proof stops either checker, with the solver's chains or with those
  `lratbuilder.cpp` finds, deletions included, what they then hold follows
  from what was given, and a reader of each of the five files accepts it.
  `Returns`.
* `KeepsObservedSolutions` (refinement of `IncrementalSAT`),
  `ExtensionGivesModel`, `RedundantExcludesNothing`, `SearchOverMappedVariables`,
  `ProofStepsCheck`: see their comments; together they say that a solver
  interrupted between any two simplification steps, given more clauses or asked
  for a model, still answers about the clauses that were given.
* `InstanceExact`: an instance that passes the parser's header check has
  solutions for exactly the graphs with rows in order that the options ask for,
  also after a kill, a restart or interference on the file `header`. What is
  asked (`Asked`) is what `main.sh` says of each option by itself; the command
  lines on which `generate.py` does something else are named and excepted
  (`LeavesOut`, `Narrows`, see below). `CanonicalAdmitted`: the row clauses and
  the propagator agree on one representative, and no block loses it; only
  `Narrows` is excepted. `FreshVariables`: no generator takes another's variables.
  `AmsCubesPartition`, `ScriptCubesPartition`: every solution lies in exactly one
  cube, unless (for the script) `march_cu` found a solution or had no variable to
  branch on.
* `LearnsOnlyConsequences`, `CountsMatchTrail`, `SolutionHolds`,
  `CubesPartition`, `AnswersAsScript`, `Ends`.
* `Partition`: every complete assignment lies in exactly one subproblem that is
  pending, closed, kept or lost by an exception. `JoinWaits`, `InstancePresent`,
  `GivenUpIsSplit`, `Ends`.
* `CertificateUnlessTrustedUnit`: a verified proof without trusted unit clauses
  and RAT lemmas shows that formula and trusted clauses have no solution.
  `AcceptsSolverProofs`: RUP proofs as the solver writes them are accepted.
  `NoErrorMeansExhausted`: without an error message, all canonical solutions are
  among those listed in the permutation file.

What the failing runs show:

* `orderly_root`: after a clause that is a unit at the root,
  `external_check_solution` loops and shows the next complete assignment without
  a canonicity test. A noncanonical graph is counted as a solution.
* `orderly_perms`: a model adds a `t` line but no permutation line, so
  `check-perm.py`, which pairs the lines by position, is out of step after the
  first model. (`maplesat-ks` writes the line "Complete solution" that the
  checker expects.)
* `drat_trusted`: a trusted unit clause that closes the proof by itself is not
  marked, and no lemma is checked at all. The propagator's blocking clauses have
  at least two literals, so its proofs do not run into it.

Met while modelling, without a run of their own:

* `sort_assumptions_positive_rank` (assume.cpp:518-536) truncates its 64-bit
  rank to `int`, so the level, which the comment at assume.cpp:525 says is the
  first key, is lost and assumptions are sorted by trail position. Sorting by level
  first would be wrong: with a false assumption on a low level, later ones would
  be matched with kept levels that do not decide them. `SortedByLevel`, the
  mutant of `AssumptionsFirst`, is that intended order.
* The option `-P` of `main.sh` (line 42: minimal p-clique-free) never writes its
  block: generate.py:83 compares the string it is given with the number 0
  (`LeavesOut`).
* `main.sh` (lines 38-39, 44-45) documents lower and upper bounds separately, and
  passes 0 for the one that is not given. Of these only `--edge-ub` works alone:
  `-D` writes no degree clause at all, since generate.py:54 asks for a lower bound
  (`LeavesOut`); `-d` and `--edge-lb` hand the encodings the upper bound 0
  (`Narrows`). The totalizer then demands exactly the lower bound
  (b_b_card.py:115-119), the sequential counter demands that there is no edge for
  a lower bound of 1 and ends in an IndexError beyond, so that solutions are lost.
  Without the exceptions TLC finds `InstanceExact` violated wherever an instance is
  written, and `CanonicalAdmitted` for the lower bounds.
* `proof-module.sh` takes "s DERIVATION" for verified in forward mode, and skips
  `check-perm.py` when there is no permutation file. A RAT lemma before a trusted
  clause is unsound, since the trusted clause was no candidate of its check.
* `parallel-solve.py` closes a subproblem on UNSAT whatever the proof check said,
  and an exception in a solve command drops its subproblem (`Partition` counts it).
* When no variable up to `m` is free but clauses remain, `march_cu` answers
  UNKNOWN and writes "a 0 0" twice; the scripts do not look, the next depth
  applies a cube without a literal, `march_cu` then reads an empty clause and
  fails, and the cube is lost. `ScriptCubesPartition` excepts it.
* In `march_cu`: `assert (freevars > 0)` in the weights' computation does not
  hold when the root lookahead forces every variable (nothing uses the weights
  then); a contradictory component of the implication
  graph makes the lookahead of that node a no-op; a failure among forced literals
  counts two conflicts. The assertions at solver.c:763-797 are part of
  `CountsMatchTrail` and hold; in 3-SAT mode the reduction counters go negative
  after the reset at the root, which nothing reads.
* `LratChecker` skips its resolution check with the solver's own chains, since
  `strict_lrat` is `internal->lrat`, although its message speaks of externallrat.
  After the empty clause, deleting an original that is false at the root makes
  the builder forget that it is inconsistent; nothing is derived from then on.
* `Solver::reset_assumptions` (solver.cpp:646) and a call of solve that answers 0
  never reach `proof->reset_assumptions`. The next "q" line of an IDRUP proof then
  still lists the assumptions that were forgotten, as does `LratChecker`, though
  tracer.hpp:111 says that observers are told. What is claimed of the answers stays
  true, since the failed assumptions named are the current ones.
* The comment at options.hpp:186 says "odd=checkdeletions" of the option `veripb`;
  `Internal::trace` (proof.cpp:111-141) checks deletions for 2 and 4. And
  `VeripbTracer::report_status` prints "conclusion UNSAT : 0" also when only
  assumptions have failed and no clause is empty.
* The flag `satisfied` in backward.cpp is not reset from one clause to the next. It
  has no effect, because no clause is true at the root while elimination runs:
  that is `Planned`, a part of the invariant proved in `InprocessingProofs`.
* flip: a literal flipped before `assume` or `solve` does no harm, because a
  flipped decision is never reused; `tainted_literal` matters for clauses only.

**Bounds and why they are enough.** Order 5 is the first at which the
canonicity search leaves and re-enters several levels with a comparison start
inside a row; the cut-off constants 12, `perm_cutoff` and 100 are scaled to 4, 5
and 2 so that both ways of giving up occur. Order 3 has one column to analyse
and six literals, enough for out-of-order literals kept by a jump, root units in
the middle of a scan and restarts; all partial assignments are instances. Order
4 has two columns, so a touched earlier column matters. `MaxRestarts` bounds
restarts (the code's intervals only grow). Decisions follow the column order or
its reverse. Hashes are injective.

`incremental`: 6 variables and at most 9 clauses, chosen so that conflicts lie
on several levels, learnt clauses shrink in every way and strengthening on the
fly applies; up to three calls of solve with every combination of a few
assumptions, clauses, constraints and flips between them; at most one restart
and one rephase per conflict, at most two reductions; 328 problems, each option
set used with the solver's chains and with `externallrat`. `inprocess`: 4
variables, 13 formulas with one gate, equivalence, failed literal or cycle each,
one or two rounds, at most one learnt and one added clause.
`instance_to_cubes`: orders 4 and 5 (below 4, the row lengths of `cubic.py`
degenerate), at most 120 variables (`MaxVar`), each block with each encoding and
its bounds at the ends and, for degrees and edges, given alone; one kill or one interference (two can defeat the header
check: a file cut by the first with a header changed by the second), cuts at the
ends and in the middle of a block. Simplification between generation and cubing
is left out. `march`: 8 formulas over 5 variables, 12 option sets, two rank
orders, one double lookahead per node (`MaxDoubles`), `LookMax` above any stamp
reached. `proof_module`: all proofs of up to three lines and the empty clause over
six clauses of two variables, with deletions and trusted lines, chosen ones of
three variables, graphs of order 3, also with an auxiliary variable (`MaxVar` is
4), and permutation files of up to two lines.
`parallel_solve`: two workers and main interleave all queue operations; depth 2
lets a given-up leaf be split below itself; `Removed` and `Extension` are scaled
(40 becomes 1) with cutoffs below, at and above what is removed; `MaxFaults`
is 1.

Deadlock is checked everywhere except in `inprocess` and `instance_to_cubes`,
where the program stops when its calls or its options are used up.

**Fairness.** `OrderlySearch` and `CanonSearch` are sequential programs:
`WF_vars(Next)` says they keep running. `IncrementalSolver` and `MarchSearch` say
the same of the running call, written as "some step is taken again and again, or
it has ended", since a step is possible until then. `ParallelSolve` has weak
fairness per process: the operating system schedules every process that can go
on, and the programs it waits for end (the simplifier has a limit of 10000
conflicts, the solver a proof size limit of 7168 MB). The other modules state no
fairness, and no liveness is claimed of them.

## Proofs

* `CanonicityProofs!BlockingClauseSound`: let p place rows of a subgraph G of a
  graph H so that p(G) is smaller than G at entry e, with equal entries before.
  If H falsified the clause, then H agrees with G on every entry the clause
  mentions, so p would make H smaller at e as well. The partial p is completed
  to a permutation of all vertices (finite sets of equal size have bijections),
  and H is not canonical.
* `OrderlySearchProofs!PropagatorTypeCorrect`: `SBTypeOK` is inductive under
  any order of calls.
* `OrderlySearchProofs!PropagatorSound`: the inductive invariant is `SBTypeOK`
  with `NoCanonicalBlocked`; the only action that adds a blocking clause is
  `ScanNoncanonical`, where the lemma applies, since its subgraph and witness
  satisfy the lemma's assumptions by the type invariant.
* `OrderlySearchProofs!SearchImplementsInterface` (`Spec => SBSpec`): every step
  of the loop is a call of the interface or a stutter. The strengthening needed
  is the shape of the trail (each level a set of literals of edges with levels,
  the literals pending and in conflict among them), because
  `notify_assignment` must be given literals of edges and `notify_backtrack` a
  level. `SearchSound` follows.
* `SearchExhaustive` (`Exhaustive`), from `SearchKeepsInvariant`: the trail has
  one entry per variable, at a level where it may stand (chronological
  backtracking leaves entries above their own level); what is fixed at the root
  follows from the clauses; a clause in conflict is false; and every wanted
  solution not yet found satisfies every clause the solver holds or has been
  offered. A conflict at the root then leaves no wanted solution.
* `MirrorsTrail` (`PropagatorMirrorsTrail`), from `MirrorHolds`: level by level,
  the propagator's trail and assignment are the announced part of the solver's,
  also between a jump and the announcement of the literals it left in place.
* `PendingFalsified`, `CountedOnce`, from `OffersHold`: the clause on offer stays
  false until it is read, and the clause that blocks a model shown is kept.
* `SearchedCanonical` (`SearchedModelsCanonical`): the last column, once analysed
  and not touched since, is canonical or blocked by a clause still to be read; a
  scan ends without it only if an entry is undefined; at the root alone the loop
  of `external_check_solution` shows a model without asking. Two hypotheses the
  code does not assure are named: no two graphs share a hash (`HashesDistinct`),
  and the array `colsuntouched` starts cleared (`FreshColumns`).
* `CanonSearchProofs!SearchImplementsTest` (`ImplementsTest`): `is_canonical`
  refines `CanonicityTest` for every order. The inductive invariant (`CanonSafe`)
  says that the rows placed are different vertices and the candidates unused
  ones; that the entries passed over agree, or that a comparison skipped by
  resuming at `last_x`, `last_y` is owed and the pigeonhole principle forces the
  next choice to make up for it (`Debt`); that every relabelling left behind is
  settled; and that a verdict has its witness, is true, or comes from giving up.
  It holds as long as fewer than 2^31 - 1 permutations are counted: there the
  code says "canonical" even for the last column.
* `AnswersAccepted` (`AcceptedByCheckPerm`): clause and rows of every "no" pass
  `check-perm.py`. `AcceptedClauseSound`: whatever passes it excludes no
  canonical graph, so that for this step nothing is taken from the solver.
* `InprocessingProofs!InprocessingInvariant`, for every formula, every set of
  observed variables and every addition. The invariant (`Inv`) has four parts, and
  each is there because a step needs it. `Meaning`: every model of what was given
  satisfies all that is held, extension clauses included (so restoring one is
  sound), and the stack *reconstructs*: from a model of the clauses left it makes
  one of everything given, not only as it stands, but for every set of entries
  that is closed under tainting and taken back (`Reconstructs`), because that is
  what `restore_clauses` does when clauses are added later. No witness has an
  observed variable. `Base`: no clause is a tautology or a unit, the root literals
  are consistent, an irredundant clause is true or has two open literals, and only
  redundant clauses, only while elimination or blocking runs, have a variable that
  was removed. `Planned`: elimination runs on clauses that are not true. `Working`
  says for the technique in progress what it has shown so far: that resolvents done
  with are satisfied by the clauses without the pivot and a gate defines it, also
  after one of its clauses was strengthened away; that the entries collected for a
  covered clause mend a model of the others with the extended clause; that the
  clauses rewritten in a substitution have representatives only and the stack below
  the new entries reconstructs from clauses and equivalences. There is a lemma per
  action (48 of them; those of elimination, blocked, covered and globally blocked
  clauses are in `InprocessingProofs`, the others in `InprocessingSteps`, where the
  invariant is stated); propagation is shown to compute the least closed set, by
  well-founded induction on the literals missing.
* From it `ObservedSolutionsKept` (`KeepsObservedSolutions`, the refinement of
  `IncrementalSAT`), `RedundantExcludesNothingHolds`, `ExtensionGivesModelHolds`
  and `SearchOverMappedVariablesHolds`.
* `ParallelSolveProofs!ParallelSafe`, with `PartitionHolds`, `JoinWaitsHolds`,
  `InstancePresentHolds` and the action property `GivenUpIsSplitHolds`, for any
  number of workers and any depth: every subproblem is at exactly one place (in
  the queue, with a worker, closed, kept or lost), the subproblems are pairwise
  incomparable and cover the tree, `unfinished` counts the commands queued or
  worked on, and the files a command needs are there.
* `DratTrimProofs!DratTrimSafe`: the types of `DratTrim` and the shape of a run.
  Each phase says where `at` stands, what the first `forced` literals of the trail
  are and what was assumed above them; a watched clause comes from the formula or
  from a line read before and not removed; what a deletion names is a clause that
  can be deleted.
* `ProofModuleProofs!CertificateIsSound` (`CertificateUnlessTrustedUnit`), for
  every formula and proof. In forward mode the invariant (`ModelOf`) says that as
  long as formula and trusted clauses have a model, one satisfies all clauses
  watched so far and the literals that are not undone. A RUP lemma holds in it. For
  a RAT lemma either it holds, or the model with the pivot flipped takes over: each
  candidate done with has another literal that is true. In backward mode
  (`BackwardBody`) the marked clauses among those still available have no model
  together with the trusted ones. What makes this inductive is that the reasons in
  the trail do not suffice: a RAT check clears the reason of the earlier literal
  that satisfies a candidate, and the deletion of a unit clause is ignored. So
  `Links` asserts some assignment `g` of supporting clauses to the entries, which
  the reasons are a part of, and a set `K` of entries, closed under what they
  follow from, that marked clauses support; a lemma that is not marked supports
  none of them and can be passed unchecked. During a RAT check the marks are
  split: `M` refutes the lemma, and each candidate in `M` is still to do, settled,
  or the current one (`Pursued`).
* `ProofModuleProofs!ExhaustedWithoutErrors` (`NoErrorMeansExhausted`), from the
  theorem above and `NoLargerEntry`, the lemma behind `AcceptedClauseSound`. A
  canonical solution satisfies the formula, so it falsifies a trusted clause;
  `check-perm.py` has compared that clause with the line in the same place
  (`Compared`, `EndOK`); rows would show that the clause is over the edges and
  holds in every canonical graph, so the line is "Complete solution", and a clause
  over the edges of that length without repetition is false for one graph only,
  which is the one listed. That such a clause is over the edges is a premise
  (`OverEdges`): the script asserts only its length, and TLC finds the statement
  violated without it; the propagator's clause for a model (symbreak.cpp:135-157)
  is of that form. Two edge variables have different matrix entries
  (`EntryOnce`); the auxiliary variables are free.

Assumptions: the named ones on the constants, which TLC evaluates in the runs:
`NAssumption` (at least two vertices), `HashAssumption` (each set of edges has a
hash), `PseudoAssumption` (the last column is never pseudo-tested),
`ForbiddenAssumption` (forbidden subgraphs are sets of edges),
`InitialAssumption` (what `colsuntouched` may start with), `SearchAssumption` (in
`OrderlySearch` instances are clauses over the edges, in `CanonSearch` the bounds
are numbers) and `ParallelAssumption` (finitely many workers, at least one, and
finitely many roots; the bounds are numbers), `MaxVarAssumption`,
`InputAssumption` (formula and proof of `DratTrim` are over the variables) and
`ModuleAssumption` (every edge of the graph is a variable, and there may be more,
as in the instances of `generate.py`, which have those of `cubic.py`; rows are
lists of numbers), `ProblemsAssumption` and `AdditionsAssumption` (clauses given
and added, and observed variables, are over the variables). `CertificateIsSound` excepts what the run `drat_trusted` and
the remark on RAT lemmas above show to be false.

**Only model-checked.** Liveness, which is out of the prover's reach. The modules
with recursive operators: `ConflictAnalysis`, `IncrementalSolver`,
`CheckedSolver`, `LratBuilder` and `march_cu` (`MarchLookahead`, `MarchSearch`,
`MarchUpdate`). `AcceptsSolverProofs`, which needs that drat-trim's propagation is
complete, an induction over how long it may go on. `ProofStepsCheck`: that each
derived clause follows by propagation needs, beyond `Inv`, which clauses every
gate, cover and vivification step was propagated over. `InstanceToCubes` is left to
the plan.

## Not modelled

* `maplesat-ks`: repeats the canonicity test inside an older solver;
  `solve-verify.sh` has it commented out. Of `lrat-check`: RAT lines, which the
  solver does not write.
* Of CaDiCaL: parser, options, command line, binary proof formats and the cutting
  planes VeriPB files may use instead of hints, the model-based tester
  `mobical`, lookahead cubes, freezing counters, scores, limits and statistics.
  Of `march_cu`: what is compiled out or not switched on by the scripts
  (equivalence reasoning in the search, autarkies, discrepancy search, -imp off,
  processes, `resolvent.c`). Of `drat-trim`: SAT mode, optimisation, core and
  LRAT output.
* In the proof: the lines of inprocessing are checked by `ProofStepsCheck` as
  propagation steps, not with the checkers' bookkeeping; restored and weakened
  clauses are not traced; hash tables are exact.
* `mindegree.py`, `neighbor.py`, `concat.sh`: called by nothing.
  `generate-instance.sh` passes eight arguments where `generate.py` reads twelve;
  `cube-solve.sh` calls `cube.sh` with `-a`, which its getopts rejects;
  `solve-single-cube.sh` calls a script that is not in the repository.
* `verify_cubes.py`, `verify.py`: read log names that `parallel-solve.py` does
  not write for every node; without the log of a node `verify_cubes.py:34` calls
  itself with a longer name for ever.
* The simplifier and the solver appear in `ParallelSolve` as outcomes: exit codes
  are not checked (parallel-solve.py:77), the checker's output is not read
  (parallel-solve.py:19). `main.sh:199` distributes files by a pattern that may
  match none. The int shifts at symbreak.cpp:422 are wide enough for orders up
  to 31, `MAXORDER` is 40.
* Set-up and reporting scripts, bundled PySAT: third-party or pure input and
  output.

## Plan

The parts planned for the model are there. Left, in this order:

1. Proofs: `AmsCubesPartition`; `ProofStepsCheck` from the invariant of
   `InprocessingProofs`.
2. The checkers' view of inprocessing: restored and weakened clauses.
3. `OrderlySearch` over the clauses `ConflictAnalysis` learns.
