------------------------------ MODULE MCMarch ------------------------------
(* Formulas over five variables, each searched under the options that matter for it. *)
EXTENDS MarchSearch

Default ==
  [depth |-> 0, vars |-> 0, maxvar |-> 0, plain |-> FALSE, hard |-> 0, limit |-> 0,
   gah |-> TRUE, wfr |-> TRUE]

Ternary == {{1, 2}, {1, -2, 3}, {-1, 3, 4}, {-1, -3, 4}, {3, -4, 5}}
Long == {{1, 2, 3, 4}, {-1, -2, -3, 5}, {-1, 2, -4}, {1, -3, -5}, {2, 4, -5}, {-2, 3, -4, -5}}
Equivalent == {{1, 3}, {-1, -3}, {2, -3}, {-2, 3}, {1, 4, 5}, {2, 4, -5}, {-1, -4, -5}}
Refutable == {{1}, {-1, 2}, {-2, 3}, {-1, -3}}
Hard == {{1, 2, 3}, {1, 2, -3}, {1, -2, 4}, {1, -2, -4}, {-1, 3, 4}, {-1, 3, -4}, {-1, -3, 5}, {-1, -3, -5}}
Outside == {{1, 2, 3}, {3, 4, 5}, {-3, -4, 5}, {-1, -2}, {-4, -5, 3}, {3, 4, -5}}
Clash == {{1, 2}, {1, -2}, {-1, 3}, {-1, -3}}
Units == {{1, 2}, {-2}, {-1, 4, 5}, {4}}

P(F, o) == [clauses |-> F, options |-> o]

MCProblems ==
  {P(Ternary, [Default EXCEPT !.depth = 1]),
   P(Ternary, [Default EXCEPT !.plain = TRUE, !.gah = FALSE]),
   P(Long, [Default EXCEPT !.depth = 2]),
   P(Long, [Default EXCEPT !.depth = 2, !.limit = 3, !.wfr = FALSE]),
   P(Equivalent, [Default EXCEPT !.vars = 1]), P(Equivalent, [Default EXCEPT !.plain = TRUE]),
   P(Hard, [Default EXCEPT !.depth = 2]),
   P(Hard, [Default EXCEPT !.hard = 1, !.vars = 2]),
   P(Outside, [Default EXCEPT !.depth = 1, !.maxvar = 2]),
   P(Clash, Default), P(Refutable, [Default EXCEPT !.depth = 1]), P(Units, [Default EXCEPT !.depth = 1])}

MCOrders == {<<1, 2, 3, 4, 5>>, <<5, 4, 3, 2, 1>>}
=============================================================================
