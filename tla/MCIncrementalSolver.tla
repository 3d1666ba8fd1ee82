------------------------- MODULE MCIncrementalSolver -------------------------
(* Instances of CheckedSolver for TLC.                                       *)
EXTENDS CheckedSolver

Default == [chrono |-> 1, chronoalways |-> FALSE, chronolevelim |-> 100, chronoreusetrail |-> TRUE,
            otfs |-> TRUE, shrink |-> 3, minimize |-> TRUE, minimizedepth |-> 1000,
            eagersubsume |-> TRUE, ilb |-> TRUE, ilbassumptions |-> TRUE, lucky |-> FALSE,
            restartreusetrail |-> TRUE, walk |-> FALSE, limited |-> FALSE,
            externallrat |-> FALSE]

Does(op, lits) == [op |-> op, lits |-> lits]
Clause(c) == {Does("add", c)}
Assumption(l) == {Does("assume", {l})}
Constraint(c) == {Does("constrain", c)}
Flips(S) == {Does("flip", S)}
AsksToFlip(S) == {Does("flippable", S)}
Forgetting == {Does("reset assumptions", {}), Does("reset constraint", {})}
Asking == {Does("solve", {})}
Given(F) == [i \in DOMAIN F |-> Clause(F[i])]
Problem(script, order, phases, restarts, reductions, o) ==
  [script |-> script, order |-> order, phases |-> phases, restarts |-> restarts,
   reductions |-> reductions, opts |-> o]

Odd == <<{1, 2, 3}, {1, 2, -3}, {1, -2, 4}, {1, -2, -4}, {-1, 3, 5}, {-1, 3, -5}, {-1, -3, 4}, {-1, -3, -4}>>
Chain == <<{-1, 2}, {-1, 3}, {-2, -3, 4}, {-2, -3, 5}, {-4, -5, 1, 6}, {-4, -5, -6}, {-5, 6, -1}, {1, 4, 5}>>
Subsuming == <<{1, 2, 3}, {1, 2, -3, 4}, {-3, -4, 1}, {5, -1, 6}, {5, -1, -6}, {-5, 2, 6}, {-5, -6, 3}>>
Blocks == <<{1, 2, 4}, {1, 2, 5}, {-4, -5, 3, 6}, {-4, 3, -6}, {-3, 2, 5}, {-3, -5, 1}, {-2, -1, 6}>>
Late == <<{1, 2, 3}, {1, 2, -3}, {1, -2, 4}, {1, -2, -4}, {-1, 6}, {-6, 3, 5}, {-6, 3, -5}, {-6, -3, 4}, {-6, -3, -4}>>
Up == <<1, 2, 3, 4, 5, 6>>
Inside == <<3, 5, 1, 6, 2, 4>>

Tuned ==
  {Default,
   [Default EXCEPT !.chrono = 0, !.shrink = 0],
   [Default EXCEPT !.chrono = 2, !.chronoalways = TRUE, !.shrink = 2],
   [Default EXCEPT !.chronoalways = TRUE, !.otfs = FALSE, !.shrink = 0],
   [Default EXCEPT !.chrono = 2, !.chronolevelim = 1, !.minimizedepth = 1],
   [Default EXCEPT !.chronoreusetrail = FALSE, !.minimize = FALSE, !.shrink = 0, !.eagersubsume = FALSE]}

Searches ==
  {Problem(Given(F) \o <<Asking>>, o, Lits, {}, 0, opt) :
     F \in {Odd, Chain, Subsuming, Blocks}, o \in {Up, Inside}, opt \in Tuned}

\* Three calls of solve with assumptions, clauses and constraints between them.
Small == <<{1, 2, 3}, {-1, 4}, {-2, -4, 5}, {-5, 3}>>
Assumes(S) == {Does("assume", {l}) : l \in S}
Interactive ==
  {Problem(Given(Small) \o <<Asking>> \o middle \o <<Asking>>, Up, phases, {}, 0, opt) :
     phases \in {Lits, {-v : v \in 1 .. MaxVar}, 1 .. MaxVar},
     opt \in {Default, [Default EXCEPT !.chrono = 0], [Default EXCEPT !.chrono = 2, !.chronoalways = TRUE],
              [Default EXCEPT !.ilb = FALSE], [Default EXCEPT !.ilbassumptions = FALSE]},
     middle \in
       {<<Assumes({1, -2, -3}), Assumes({-1, 4, -3}), Assumes({2, 5, -5})>>,
        <<Assumes({1, -3}), Clause({2, -1}) \cup Clause({-5}) \cup Clause({-2, -4}), Assumes({2, -4})>>,
        <<Constraint({-1, -3}) \cup Constraint({-4, -5}), Assumes({-3, 1}), Assumes({2, 4})>>,
        <<Assumes({-3, 4}), Constraint({-4, -2}), Clause({-3}) \cup Forgetting>>,
        <<Flips({1, 2, 3, 4, 5}) \cup AsksToFlip({4}), Flips({1, 2, 3, 4, 5}), Clause({-1, -3}) \cup Clause({6, -4}) \cup Clause({-2}) \cup Assumes({1, -2, 3, -4})>>}}

\* Lucky phases, local search, limits, restarts and reductions.
Fortunate ==
  {<<{1, -2}, {3, 4, -1}, {2, -4}>>, <<{-1, 2}, {-3, -4, 1}, {-2, 4}>>, <<{1, 2}, {1, -2}, {-1, 3}, {-1, -3, 2}, {-1}>>,
   <<{1, 2}, {-1, -2}, {-2, 3}>>, <<{2, -1}, {-2, -1, 3}, {1, -3}, {1, 3, 4}>>,
   <<{1, 2, 3}, {-1, -2}, {-1, -3}, {-2, -3}, {1, 4}, {2, -4}>>}
Lucky ==
  {Problem(Given(F) \o <<Asking, Assumes({1, -1}), Asking, Asking>>, Up, {-v : v \in 1 .. MaxVar}, {}, 0, opt) :
     F \in Fortunate \cup {Odd, Chain},
     opt \in {[Default EXCEPT !.lucky = TRUE], [Default EXCEPT !.walk = TRUE],
              [Default EXCEPT !.walk = TRUE, !.lucky = TRUE, !.limited = TRUE]}}
Scheduled ==
  {Problem(first \o Given(F) \o <<Asking>>, Inside, Lits, {"restart", "rephase"}, 1, opt) :
     first \in {<<>>, <<Assumes({1, -2, 4})>>, <<Constraint({1, -4}), Assumes({2, -5})>>},
     F \in {Odd, Subsuming},
     opt \in {Default, [Default EXCEPT !.chrono = 2, !.chronoalways = TRUE, !.restartreusetrail = FALSE]}}

\* A clause that implied a unit is collected before a conflict needs the unit.
Reduced ==
  {Problem(Given(Late) \o <<Asking>>, Up, Lits, {}, 2, [Default EXCEPT !.otfs = FALSE])}

\* A clause added between two assumptions makes the second false below kept levels;
\* a constraint whose literals are all fixed.
Several ==
  {Problem(<<Clause({1, 2, 3, 4, 5}), Asking, Assumes({1}), Assumes({-2}), Clause({2, -1}),
             Assumes({3}), Assumes({4}), Assumes({5}), Asking, Asking>>,
           <<1, 3, 4, 5, 2>>, 1 .. MaxVar, {}, 0, opt) :
     opt \in {Default, [Default EXCEPT !.chrono = 0], [Default EXCEPT !.chronoalways = TRUE]}}
  \cup
  {Problem(<<Clause({-1, 3}), Clause({1, 2}), Clause({-3}), Constraint({1, 3}) \cup Constraint({-2, 1}),
             Assumes({2, -2}), Asking, Constraint({2, 1}), Asking>>,
           Up, Lits, {}, 0, Default)}
\* What is left of a learned clause subsumes an irredundant one.
Taking ==
  {Problem(Given(<<{1, 4}, {2, 6}, {3, -4, 5}, {3, -5, -6}>>)
             \o <<Asking, Clause({-3, -4, -6}), Assumption(4), Assumption(6), Asking>>,
           Up, {-v : v \in 1 .. MaxVar}, {}, 0, Default)}
\* Each with the solver's own chains and with those of the builder.
SomeProblems ==
  {[p EXCEPT !.opts.externallrat = b] :
     p \in Searches \cup Interactive \cup Lucky \cup Scheduled \cup Reduced \cup Several \cup Taking, b \in BOOLEAN}
=============================================================================
