------------------------- MODULE IncrementalSolver --------------------------
(***************************************************************************)
(* The solver behind its incremental interface: clauses, assumptions and a *)
(* constraint are given between calls of solve, each call searches from    *)
(* what is left of the trail, and its answer holds until the next call.    *)
(*                                                                         *)
(* First solving under assumptions and a constraint: the order in which    *)
(* they are decided, how much of the trail of the last call is kept, and   *)
(* which of them are to blame when there is no solution.                   *)
(***************************************************************************)
EXTENDS ConflictAnalysis

VARIABLES
  constraint,   \* lits: what is left of the constraint; unsat: unsat_constraint
  user,         \* what was asked: given clauses, assumed sequence, constraint (a set
                \* of at most one clause), and script: the calls still to come
  failed        \* literals marked as failed assumptions

NoConstraint == [lits |-> {}, unsat |-> FALSE]
AssumptionSet == {assumptions[i] : i \in DOMAIN assumptions}

\* assume: a false literal is taken off the trail with its level.
Assuming(s, l) ==
  IF ~opts.ilbassumptions THEN Backtrack(s, 0)
  ELSE IF -l \in True(s) THEN Backtrack(s, Max({0, Level(s, l) - 1}))
  ELSE s

\* Mutant: the order the comment describes, by level first.
SortedByLevel(s, as) ==
  LET before(i, j) ==
        LET a == as[i]
            b == as[j]
        IN \/ Assigned(s, a) /\ ~Assigned(s, b)
           \/ Assigned(s, a) /\ Assigned(s, b) /\ Before(s, a, b)
           \/ ~Assigned(s, a) /\ ~Assigned(s, b) /\ i < j
      order == InOrder(DOMAIN as, before)
  IN [k \in DOMAIN as |-> as[order[k]]]

\* sort_assumptions_positive_rank: the rank is an int, which cuts the level off;
\* what is left is the position on the trail, or the variable of an open literal.
Sorted(s, as) ==
  LET rank(l) == IF Assigned(s, l) THEN Position(s, l) - 1 ELSE VarOf(l)
      before(i, j) == LET x == rank(as[i])
                          y == rank(as[j])
                      IN x < y \/ (x = y /\ i < j)
      order == InOrder(DOMAIN as, before)
  IN [k \in DOMAIN as |-> as[order[k]]]

\* sort_and_reuse_assumptions: the level to return to.  Going up the levels i and
\* the sorted assumptions j, the first that differ end it, and the level before
\* the last one looked at is kept.
RECURSIVE Reused(_, _, _, _, _)
Reused(s, as, top, i, j) ==
  IF Assigned(s, as[j]) /\ Level(s, as[j]) < i THEN Reused(s, as, top, i, j + 1)
  ELSE IF s.control[i].decision = as[j] /\ Level(s, as[j]) = i /\ i < top
       THEN Reused(s, as, top, i + 1, j + 1)
  ELSE i - 1

ReuseLevel(s, as) ==
  LET assigned == {k \in DOMAIN as : \A o \in 1 .. k : Assigned(s, as[o])}
      top == IF assigned = {} THEN 0 ELSE Level(s, as[Max(assigned)])
  IN IF as = <<>> THEN LevelCount(s) ELSE IF top = 0 THEN 0 ELSE Reused(s, as, top, 1, 1)

\* The trail a call of solve starts from.
SearchStart(s, as) ==
  IF ~opts.ilb THEN Backtrack(s, 0)
  ELSE IF opts.ilbassumptions THEN Backtrack(s, ReuseLevel(s, as))
  ELSE s

-----------------------------------------------------------------------------
(* Failed assumptions.                                                       *)

NothingAnalyzed == [seen |-> {}, clause |-> {}, chain |-> <<>>]

\* assume_analyze_literal: back from a false literal to the assumptions.
RECURSIVE AnalyzeFailed(_, _, _)
AnalyzeFailed(s, b, l) ==
  LET others == Listed(Reason(s, l))
      here == [b EXCEPT !.seen = @ \cup {VarOf(l)}]
      each[i \in 0 .. Len(others)] ==
        IF i = 0 THEN here ELSE AnalyzeFailed(s, each[i - 1], others[i])
  IN IF VarOf(l) \in b.seen THEN b
     ELSE IF Level(s, l) = 0 THEN [here EXCEPT !.chain = Append(@, {-l})]
     ELSE IF Reason(s, l) = {} THEN [here EXCEPT !.clause = {l} \cup @]
     ELSE [each[Len(others)] EXCEPT !.chain = Append(@, Reason(s, l))]

Failing(F, lines) == [failed |-> F, lines |-> lines]

\* Mutant: the second of two clashing assumptions only.
FailingAlone(s, l) == Failing({l}, <<[clause |-> {-l}, chain |-> <<>>]>>)

\* Two assumptions that are each other's negation.
FailingClash(s, l) == Failing({l, -l}, <<[clause |-> {l, -l}, chain |-> <<>>]>>)

\* An assumption that others imply to be false.
FailingImplied(s, l) ==
  LET b == AnalyzeFailed(s, NothingAnalyzed, l)
      c == b.clause \cup {-l}
  IN Failing(Negated(c), <<[clause |-> c, chain |-> b.chain]>>)

\* failing, by an assumption: false on the root level, clashing, or false on the
\* lowest level.
FailingAssumption(s) ==
  LET false == SelectSeq(user.assumed, LAMBDA l : -l \in True(s))
      units == SelectSeq(false, LAMBDA l : Level(s, l) = 0)
      clashing == SelectSeq(false, LAMBDA l : Level(s, l) > 0 /\ Reason(s, l) = {})
      first == CHOOSE l \in Range(false) : \A o \in Range(false) : Level(s, l) <= Level(s, o)
  IN IF units # <<>>
     THEN Failing({units[1]}, <<[clause |-> {-units[1]}, chain |-> <<{-units[1]}>>]>>)
     ELSE IF clashing # <<>> THEN FailingClash(s, clashing[1])
     ELSE FailingImplied(s, first)

\* failing, by the constraint: one line for each of its literals.
FailingConstraint(s) ==
  LET lits == Listed(constraint.lits)
      fixed == Listed(UNION user.constraint \ constraint.lits)
      b(i) == AnalyzeFailed(s, NothingAnalyzed, lits[i])
  IN Failing(UNION {Negated(b(i).clause) : i \in DOMAIN lits},
             [i \in DOMAIN lits |-> [clause |-> b(i).clause \cup {-lits[i]}, chain |-> b(i).chain]]
             \o [i \in DOMAIN fixed |-> [clause |-> {-fixed[i]}, chain |-> <<{-fixed[i]}>>]])

\* conclude_unsat: with the empty clause derived no assumption fails.
Conclude(s, unsatConstraint) ==
  IF s.unsat THEN Failing({}, <<>>)
  ELSE IF unsatConstraint THEN FailingConstraint(s)
  ELSE FailingAssumption(s)

-----------------------------------------------------------------------------
CONSTANT Problems   \* [script, order, phases, restarts, reductions, opts]: sets of calls one
                    \* of which is made at a time, the order in which open variables are
                    \* decided, the literals tried, which of "restart" and "rephase" may
                    \* follow a conflict, and how often clauses are reduced

VARIABLES
  api,    \* Solver::state: "steady", "satisfied", "unsatisfied"
  run,    \* pc: what runs, "idle" between calls; lucky: number of the strategy
  limits  \* order and phases of decisions, restarts: what may follow a conflict,
          \* due: what may since the last one, reductions: how many are left

query == <<assumptions, constraint, failed>>
vars == <<core, opts, query, user, api, run, limits>>

Init ==
  \E p \in Problems :
    /\ core = [trail |-> <<>>, control |-> <<>>, propagated |-> 0, conflict |-> {},
               watch |-> [c \in {} |-> {}], red |-> {}, steps |-> <<>>, unsat |-> FALSE,
               vars |-> 0, tainted |-> 0]
    /\ assumptions = <<>> /\ constraint = NoConstraint /\ failed = {}
    /\ user = [given |-> {}, assumed |-> <<>>, constraint |-> {}, script |-> p.script]
    /\ opts = p.opts
    /\ api = "steady" /\ run = [pc |-> "idle", lucky |-> 0]
    /\ limits = [order |-> p.order, phases |-> p.phases,
                 restarts |-> p.restarts, due |-> {}, reductions |-> p.reductions]

Goto(pc) == run' = [run EXCEPT !.pc = pc]

-----------------------------------------------------------------------------
(* Calls of the interface.                                                   *)

\* transition_to_steady_state: leaving an answer resets what it was about.
Answered == api # "steady"
Kept(x, empty) == IF Answered THEN empty ELSE x

\* internalize: variables up to the highest in use exist; with new ones the
\* search goes back to the root.
Declared(s, c) ==
  LET n == Max({s.vars} \cup VarsOf(c))
  IN [(IF n > s.vars THEN Backtrack(s, 0) ELSE s) EXCEPT !.vars = n]

Calls == IF run.pc = "idle" /\ user.script # <<>> THEN Head(user.script) ELSE {}
Calling(op) == {c.lits : c \in {d \in Calls : d.op = op}}
Entered == api' = "steady" /\ UNCHANGED <<opts, limits>>

Asked(given, assumed, constraintGiven) ==
  user' = [given |-> given, assumed |-> assumed, constraint |-> constraintGiven,
           script |-> Tail(user.script)]

KeepQuery ==
  /\ assumptions' = Kept(assumptions, <<>>)
  /\ constraint' = Kept(constraint, NoConstraint)
  /\ failed' = Kept(failed, {})

\* move_literal_to_watch: a true literal, of the lowest level, before an open one
\* before a false one, of the highest level; on the root level any.
Preferred(s, C) ==
  LET true == C \cap True(s)
      open == {l \in C : ~Assigned(s, l)}
  IN IF LevelCount(s) = 0 THEN CHOOSE l \in C : TRUE
     ELSE IF true # {} THEN CHOOSE l \in true : \A o \in true : Level(s, l) <= Level(s, o)
     ELSE IF open # {} THEN CHOOSE l \in open : TRUE
     ELSE CHOOSE l \in C : \A o \in C : Level(s, l) >= Level(s, o)

\* Mutant: the trail is left as it is when the clause is false on it.
HandledInPlace(s, c, first, second) == s

\* handle_external_clause: a false clause is taken off the trail, a unit one drives.
Handled(s, c, first, second) ==
  LET k == Level(s, second)
      t == IF opts.chrono = 0 THEN Backtrack(s, k) ELSE s
  IN IF LevelCount(s) = 0 \/ second \notin False(s) \/ first \in True(s) THEN s
     ELSE IF first \in False(t) THEN Backtrack(t, k - 1)
     ELSE Drive(t, first, c)

\* add_new_original_clause, for what is left of the clause.
AddWatched(s, c) ==
  LET first == Preferred(s, c)
      second == Preferred(s, c \ {first})
      t == Watch(s, c, {first, second})
  IN Handled([t EXCEPT !.red = @ \ {c}], c, first, second)

AddUnit(s, l) ==
  LET t == IF l \in False(s) THEN Backtrack(s, Level(s, l) - 1) ELSE s
  IN Push(Backtrack(t, 0), l, 0, {})

Rest(s, c) == c \ Negated(RootTrue(s))
Skipped(s, c) == s.unsat \/ Tautology(c) \/ c \cap RootTrue(s) # {}
Original(s, c) ==
  LET rest == Rest(s, c)
      t == IF rest = c THEN s ELSE Line(s, rest, Append(UnitChain(c \ rest), c))
  IN IF Skipped(s, c) THEN s
     ELSE IF rest = {} THEN [t EXCEPT !.unsat = TRUE]
     ELSE IF Cardinality(rest) = 1 THEN AddUnit(t, CHOOSE l \in rest : TRUE)
     ELSE AddWatched(t, rest)

\* add: also a literal that was flipped is taken off the trail.
Added(s, c) ==
  LET t == Declared(s, c)
      u == IF ~opts.ilb THEN Backtrack(t, 0)
           ELSE IF t.tainted # 0 THEN Backtrack(t, Level(t, t.tainted) - 1) ELSE t
  IN Original(u, c)

AddClause ==
  \E c \in Calling("add") :
    /\ Become(Added(Fresh, c))
    /\ Asked(user.given \cup {c}, Kept(user.assumed, <<>>), Kept(user.constraint, {}))
    /\ KeepQuery /\ Entered
    /\ Goto(IF ~Skipped(core, c) /\ Cardinality(Rest(core, c)) = 1 THEN "add" ELSE "idle")

\* assign_original_unit propagates on the root level.
EndAdd ==
  /\ run.pc = "add" /\ UNCHANGED <<user, opts, query, api, limits>> /\ Goto("idle")
  /\ \/ Propagated /\ Become(Fresh)
     \/ core.conflict # {} /\ Become(LearnEmpty(Fresh))

AssumeLiteral ==
  \E c \in Calling("assume") : \E l \in c :
    LET as == Kept(assumptions, <<>>) IN
    /\ Become(Assuming(Declared(Fresh, c), l))
    /\ Asked(user.given, Append(Kept(user.assumed, <<>>), l), Kept(user.constraint, {}))
    /\ assumptions' = IF l \in Range(as) THEN as ELSE Append(as, l)
    /\ constraint' = Kept(constraint, NoConstraint)
    /\ failed' = Kept(failed, {})
    /\ Entered /\ UNCHANGED run

\* constrain: what is left of the constraint on the root level.
Constrained(s, c) ==
  LET rest == c \ False(s)
      satisfied == Tautology(c) \/ c \cap True(s) # {}
  IN [lits |-> IF satisfied THEN {} ELSE rest, unsat |-> ~satisfied /\ rest = {}]

Constrain ==
  \E c \in Calling("constrain") :
    LET s == Backtrack(Declared(Fresh, c), 0) IN
    /\ Become(s)
    /\ Asked(user.given, Kept(user.assumed, <<>>), {c})
    /\ constraint' = Constrained(s, c)
    /\ assumptions' = Kept(assumptions, <<>>)
    /\ failed' = Kept(failed, {})
    /\ Entered /\ UNCHANGED run

ResetAssumptions ==
  \E c \in Calling("reset assumptions") :
    /\ Become(Fresh)
    /\ Asked(user.given, <<>>, Kept(user.constraint, {}))
    /\ assumptions' = <<>> /\ failed' = {}
    /\ constraint' = Kept(constraint, NoConstraint)
    /\ Entered /\ UNCHANGED run

ResetConstraint ==
  \E c \in Calling("reset constraint") :
    /\ Become(Fresh)
    /\ Asked(user.given, Kept(user.assumed, <<>>), {})
    /\ constraint' = NoConstraint
    /\ assumptions' = Kept(assumptions, <<>>)
    /\ failed' = Kept(failed, {})
    /\ Entered /\ UNCHANGED run

-----------------------------------------------------------------------------
(* flip, in a model: the watches are moved to true literals first.           *)

RECURSIVE Propergated(_, _)
Propergated(s, i) ==
  IF i > Len(s.trail) THEN s
  ELSE LET l == -s.trail[i].lit
           stuck == {c \in Watching(s, l) : s.watch[c] \subseteq False(s)}
           moved == [c \in stuck |-> {OtherWatch(s, c, l), CHOOSE r \in c : r \in True(s)}]
       IN Propergated([s EXCEPT !.watch = moved @@ @], i + 1)

\* The clauses that would be left with two false watches, and their rescue.
Alone(s, l) == {c \in Watching(s, l) : OtherWatch(s, c, l) \in False(s)}
CanFlip(s, l) == \A c \in Alone(s, l) : \E r \in c \ s.watch[c] : r \in True(s)

Flipped(s, l) ==
  LET moved == [c \in Alone(s, l) |->
                  {OtherWatch(s, c, l), CHOOSE r \in c \ s.watch[c] : r \in True(s)}]
      i == Position(s, l)
      lowest == s.tainted = 0 \/ Level(s, l) < Level(s, s.tainted)
  IN [s EXCEPT !.watch = moved @@ @, !.trail[i].lit = -l,
               !.tainted = IF opts.ilb /\ lowest THEN l ELSE @]

Flip ==
  \E c \in Calling("flip") : \E v \in c :
    LET s == Propergated(Fresh, 1)
        l == CHOOSE o \in {v, -v} : o \in True(s)
    IN
    /\ api = "satisfied"
    /\ Become(IF Level(s, v) = 0 THEN Fresh ELSE IF CanFlip(s, l) THEN Flipped(s, l) ELSE s)
    /\ Asked(user.given, user.assumed, user.constraint)
    /\ UNCHANGED <<opts, query, api, run, limits>>

\* flippable only looks, but moves the watches as well.
Flippable ==
  \E c \in Calling("flippable") : \E v \in c :
    /\ api = "satisfied"
    /\ Become(IF Level(core, v) = 0 THEN Fresh ELSE Propergated(Fresh, 1))
    /\ Asked(user.given, user.assumed, user.constraint)
    /\ UNCHANGED <<opts, query, api, run, limits>>

-----------------------------------------------------------------------------
(* solve.                                                                    *)

\* solve and already_solved: from the trail that is kept.
Solve ==
  \E c \in Calling("solve") :
    LET as == Kept(assumptions, <<>>) IN
    /\ assumptions' = IF opts.ilb /\ opts.ilbassumptions THEN Sorted(core, as) ELSE as
    /\ Become(SearchStart(Fresh, assumptions'))
    /\ Asked(user.given, Kept(user.assumed, <<>>), Kept(user.constraint, {}))
    /\ constraint' = Kept(constraint, NoConstraint)
    /\ failed' = Kept(failed, {})
    /\ Goto(IF LevelCount(core') = 0 THEN "root" ELSE "search")
    /\ Entered

\* Steps of a running call.
During(pcs) == run.pc \in pcs /\ UNCHANGED <<user, opts>>
Search == During({"search", "failing"})
Ready == Propagated /\ ~core.unsat /\ ~constraint.unsat
Keep == UNCHANGED <<query, api, run, limits>>

Answer(kind) == api' = kind /\ Goto("idle") /\ UNCHANGED <<assumptions, limits>>
Satisfied == Answer("satisfied") /\ Become(Fresh) /\ UNCHANGED <<constraint, failed>>

\* finalize: the failed assumptions are found and written to the proof.
Unsatisfied(s, constraintFails) ==
  LET f == Conclude(s, constraintFails) IN
  /\ Answer("unsatisfied")
  /\ Become([s EXCEPT !.steps = @ \o f.lines])
  /\ failed' = f.failed
  /\ constraint' = [constraint EXCEPT !.unsat = constraintFails]

AlreadyUnsatisfied ==
  /\ During({"root", "search", "failing"})
  /\ core.unsat \/ constraint.unsat
  /\ Unsatisfied(Fresh, constraint.unsat)

PropagateStep ==
  /\ During({"add", "root", "lucky", "saved", "search", "failing", "reduce"})
  /\ ~constraint.unsat /\ Propagate /\ Keep

\* A round of local search may have found that the assumptions fail.
WalkFails ==
  \/ \E l \in AssumptionSet : -l \in True(core) \cup AssumptionSet
  \/ \E c \in DOMAIN core.watch \ core.red : c \subseteq False(core) \cup Negated(AssumptionSet)

\* What follows on the root level: local search, lucky phases, or the search loop.
\* (already_solved also looks for a conflict here; there is none, or the model would
\* deadlock: calls of add propagate, and the literals of a longer trail contain what
\* the literals on its root level imply.)
EndRoot ==
  /\ During({"root"}) /\ Ready /\ Become(Fresh)
  /\ \/ opts.lucky /\ assumptions = <<>> /\ constraint.lits = {}
        /\ run' = [pc |-> "lucky", lucky |-> 1]
     \/ opts.walk /\ constraint.lits = {} /\ ~WalkFails /\ Goto("saved")
     \/ opts.walk /\ constraint.lits = {} /\ WalkFails /\ Goto("failing")
     \/ ~opts.walk /\ ~(opts.lucky /\ assumptions = <<>> /\ constraint.lits = {})
        /\ Goto("search")
  /\ UNCHANGED <<query, api, limits>>

AllAssigned == Len(core.trail) = core.vars

\* satisfied: all variables are assigned, above all assumptions and the constraint.
AboveQuery == LevelCount(core) >= Len(assumptions) + (IF constraint.lits = {} THEN 0 ELSE 1)
EndSatisfied ==
  /\ During({"saved", "search"}) /\ Ready /\ AboveQuery /\ AllAssigned
  /\ Satisfied

AnalyzeConflict ==
  /\ Search /\ ~core.unsat /\ core.conflict # {}
  /\ \E s \in Analyzed(Fresh) : Become(s)
  /\ limits' = [limits EXCEPT !.due = limits.restarts]
  /\ UNCHANGED <<query, api, run>>

\* try_to_satisfy_formula_by_saved_phases gives up on a conflict, and does not
\* look at it again.
SavedPhasesFail ==
  /\ During({"saved"}) /\ core.conflict # {}
  /\ Become([Backtrack(Fresh, 0) EXCEPT !.conflict = {}])
  /\ Goto("search") /\ UNCHANGED <<query, api, limits>>

-----------------------------------------------------------------------------
(* decide, while not satisfied.                                              *)

Deciding ==
  /\ During({"saved", "search", "failing"})
  /\ Ready /\ ~(AboveQuery /\ AllAssigned)

DecideAssumption ==
  LET l == assumptions[LevelCount(core) + 1] IN
  /\ Deciding /\ LevelCount(core) < Len(assumptions)
  /\ \/ l \in False(core) /\ Unsatisfied(Fresh, FALSE)
     \/ l \in True(core) /\ Become(PseudoLevel(Fresh, 0)) /\ Keep
     \/ ~Assigned(core, l) /\ Become(Decision(Fresh, l)) /\ Keep

DecideConstraint ==
  /\ Deciding /\ LevelCount(core) = Len(assumptions) /\ constraint.lits # {}
  /\ \/ constraint.lits \cap True(core) # {} /\ Become(PseudoLevel(Fresh, 0)) /\ Keep
     \/ /\ constraint.lits \cap True(core) = {}
        /\ \E l \in constraint.lits : ~Assigned(core, l) /\ Become(Decision(Fresh, l)) /\ Keep
     \/ constraint.lits \subseteq False(core) /\ Unsatisfied(Fresh, TRUE)

\* next_decision_variable and decide_phase.
DecideVariable ==
  LET v == limits.order[Min({i \in DOMAIN limits.order : ~Assigned(core, limits.order[i])})]
  IN
  /\ Deciding /\ AboveQuery
  /\ \E l \in {v, -v} \cap limits.phases : Become(Decision(Fresh, l))
  /\ Keep

-----------------------------------------------------------------------------
(* What else the search loop does between conflicts.                         *)

Between == During({"search"}) /\ Ready /\ ~(AboveQuery /\ AllAssigned)

\* reuse_trail: the decisions of assumptions and of a constraint that holds stay.
Trivial ==
  LET n == Len(assumptions) IN IF core.control[n + 1].decision = 0 THEN n + 1 ELSE n
ReusedLevels ==
  {Trivial} \cup
  {k \in Trivial + 1 .. LevelCount(core) :
     opts.restartreusetrail /\ \A i \in Trivial + 1 .. k : core.control[i].decision # 0}

\* Mutant: restart sets no new limit.
SameLimits(what) == limits

\* A new limit is higher than the number of conflicts so far.
NewLimits(what) == [limits EXCEPT !.due = @ \ {what}]

Restart ==
  /\ Between /\ "restart" \in limits.due /\ LevelCount(core) >= Len(assumptions) + 2
  /\ \E k \in ReusedLevels : Become(Backtrack(Fresh, k))
  /\ limits' = NewLimits("restart")
  /\ UNCHANGED <<query, api, run>>

Rephase ==
  /\ Between /\ "rephase" \in limits.due
  /\ Become(Backtrack(Fresh, 0))
  /\ limits' = NewLimits("rephase")
  /\ UNCHANGED <<query, api, run>>

Protected(s) == {s.trail[i].reason : i \in DOMAIN s.trail}
OutOfOrderUnits(s) ==
  LevelCount(s) > 0 /\
  \E i \in DOMAIN s.trail : i > s.control[1].trail /\ s.trail[i].level = 0

\* Mutant: reasons are not protected.
ReducibleAny(s) ==
  [must |-> {c \in DOMAIN s.watch : c \cap RootTrue(s) # {}}, may |-> s.red]

\* What reduce collects: all clauses true on the root level, and any redundant
\* ones, but no reasons.
Reducible(s) ==
  [must |-> {c \in DOMAIN s.watch : c \cap RootTrue(s) # {}} \ Protected(s),
   may |-> s.red \ Protected(s)]

\* reduce: out-of-order units are propagated on the root level first.
Reduce ==
  /\ Between /\ limits.reductions > 0 /\ core.red # {}
  /\ Become(IF OutOfOrderUnits(core) THEN Backtrack(Fresh, 0) ELSE Fresh)
  /\ Goto("reduce") /\ UNCHANGED <<query, api, limits>>

\* clause_contains_fixed_literal: not satisfied but with a false literal.
Shrinkable(s) ==
  {c \in DOMAIN s.watch : c \cap RootTrue(s) = {} /\ Rest(s, c) # c}

\* flush_clause and remove_falsified_literals: such a clause loses these literals
\* where it stands, as a reason, too.
Flush(s, c) ==
  LET d == Rest(s, c)
      t == Line(s, d, Append(UnitChain(c \ d), c))
      u == Without(IF d \in DOMAIN s.watch THEN t ELSE Watch(t, d, s.watch[c]), {c})
      reason(r) == IF r = c THEN d ELSE r
  IN [u EXCEPT
       !.red = IF StaysRedundant(s, c, d, {}) THEN @ \cup {d} ELSE @ \ {d},
       !.trail = [i \in DOMAIN @ |-> [@[i] EXCEPT !.reason = reason(@)]]]

\* mark_satisfied_clauses_as_garbage, for the clauses that stay.
FlushedAll(s) == FoldSet(LAMBDA c, t : Flush(t, c), s, Shrinkable(s))

\* garbage_collection, with the watches and reasons that go on.
GarbageCollected(s, G) == Without(s, G \cup Reducible(s).must)

CollectClauses ==
  /\ During({"reduce"}) /\ Ready
  /\ LET s == FlushedAll(Fresh)
     IN \E G \in SUBSET Reducible(s).may : Become(GarbageCollected(s, G))
  /\ limits' = [limits EXCEPT !.reductions = @ - 1]
  /\ Goto("search") /\ UNCHANGED <<query, api>>

\* A limit is hit or the user terminates: no answer, and nothing is asked any more.
GiveUp ==
  /\ Between /\ opts.limited
  /\ api' = "steady" /\ Goto("idle") /\ Become(Fresh)
  /\ user' = [user EXCEPT !.assumed = <<>>, !.constraint = {}]
  /\ assumptions' = <<>> /\ constraint' = NoConstraint /\ failed' = {}
  /\ UNCHANGED limits

-----------------------------------------------------------------------------
(* Lucky phases: eight ways to decide all variables without analysis.        *)

OpenVars == {v \in 1 .. core.vars : ~Assigned(core, v)}
Irredundant == DOMAIN core.watch \ core.red
Unsatisfied0 == {c \in Irredundant : c \cap True(core) = {}}

\* What the strategy decides next; no literal if it gives up.
LuckyLiterals ==
  LET open(sign, C) == {l \in C : ~Assigned(core, l) /\ (l > 0) = (sign > 0)}
      constant(sign) == IF LevelCount(core) = 0 /\ \E c \in Unsatisfied0 : open(sign, c) = {}
                        THEN {} ELSE {sign * Min(OpenVars)}
      horn(sign) == IF Unsatisfied0 # {} THEN {open(sign, c) : c \in Unsatisfied0}
                    ELSE {{-sign * Min(OpenVars)}}
  IN CASE run.lucky = 1 -> {constant(-1)}
       [] run.lucky = 2 -> {constant(1)}
       [] run.lucky = 3 -> {{Min(OpenVars)}}
       [] run.lucky = 4 -> {{-Min(OpenVars)}}
       [] run.lucky = 5 -> {{-Max(OpenVars)}}
       [] run.lucky = 6 -> {{Max(OpenVars)}}
       [] run.lucky = 7 -> horn(1)
       [] run.lucky = 8 -> horn(-1)

LuckyDecide ==
  /\ During({"lucky"}) /\ Ready /\ OpenVars # {}
  /\ \E S \in LuckyLiterals : \E l \in S : Become(Decision(Fresh, l))
  /\ Keep

\* unlucky: back to the root, and the conflict is forgotten.
UnluckyState(s) == [Backtrack(s, 0) EXCEPT !.conflict = {}]

Unlucky ==
  /\ During({"lucky"})
  /\ core.conflict # {} \/ (Ready /\ OpenVars # {} /\ {} \in LuckyLiterals)
  /\ Become(UnluckyState(Fresh))
  /\ run' = IF run.lucky = 8 THEN [pc |-> "search", lucky |-> 0]
                             ELSE [run EXCEPT !.lucky = @ + 1]
  /\ UNCHANGED <<query, api, limits>>

LuckySatisfies ==
  /\ During({"lucky"}) /\ Ready /\ OpenVars = {}
  /\ Satisfied

-----------------------------------------------------------------------------
\* Nothing more is asked.
Done == run.pc = "idle" /\ user.script = <<>> /\ UNCHANGED vars

SolveNext ==
  \/ PropagateStep \/ AlreadyUnsatisfied \/ EndRoot \/ EndSatisfied
  \/ AnalyzeConflict \/ SavedPhasesFail
  \/ DecideAssumption \/ DecideConstraint \/ DecideVariable
  \/ Restart \/ Rephase \/ Reduce \/ CollectClauses \/ GiveUp
  \/ LuckyDecide \/ Unlucky \/ LuckySatisfies \/ EndAdd

CallNext ==
  \/ AddClause \/ AssumeLiteral \/ Constrain \/ ResetAssumptions \/ ResetConstraint
  \/ Flip \/ Flippable \/ Solve

Next == CallNext \/ SolveNext \/ Done

\* While a call runs the solver goes on: every step of SolveNext changes a variable, and
\* one is possible until the call returns.
Fairness == []<><<TRUE>>_vars \/ []<>(run.pc = "idle")
Spec == Init /\ [][Next]_vars /\ Fairness

-----------------------------------------------------------------------------
\* Every answer is right for what was asked, and calls forget what they should.
Contract == INSTANCE SolverContract WITH
  given <- user.given, assumed <- Range(user.assumed), constraint <- user.constraint,
  answer <- [kind |-> CASE api = "satisfied" -> "sat" [] api = "unsatisfied" -> "unsat"
                        [] OTHER -> "none",
             lits |-> CASE api = "satisfied" -> True(core) [] api = "unsatisfied" -> failed
                        [] OTHER -> {},
             constraint |-> api = "unsatisfied" /\ constraint.unsat]
KeepsContract == Contract!Spec

\* What implied a literal is still there, watches it, and was false before it, on
\* levels that are not above its own.
ReasonsHold ==
  run.pc # "idle" => \A i \in DOMAIN core.trail :
    LET e == core.trail[i] IN
    e.reason # {} =>
      /\ e.reason \in DOMAIN core.watch /\ e.lit \in core.watch[e.reason]
      /\ e.reason \ {e.lit} \subseteq Negated({core.trail[j].lit : j \in 1 .. i - 1})
      /\ e.level >= HighestLevel(core, e.reason)

\* Where nothing is left to propagate no clause is false.
NoClauseFalsified ==
  Propagated => \A c \in DOMAIN core.watch : ~(c \subseteq False(core))

\* The first decisions are the assumptions, in their order, and all of them hold.
AssumptionsFirst ==
  run.pc \in {"search", "failing", "saved"} =>
    \A k \in 1 .. Min({LevelCount(core), Len(assumptions)}) :
      /\ core.control[k].decision \in {0} \cup AssumptionSet
      /\ Propagated => assumptions[k] \in True(core)

\* Every call of solve returns.
Returns == (run.pc # "idle") ~> (run.pc = "idle")
=============================================================================
