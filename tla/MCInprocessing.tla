--------------------------- MODULE MCInprocessing ---------------------------
(* Instances of Inprocessing for TLC.                                        *)
EXTENDS Inprocessing

Given(clauses, vs, calls_, learns_, adds_) ==
  [clauses |-> clauses, observed |-> vs, calls |-> calls_, learns |-> learns_, adds |-> adds_]

AndGate == {{-3, 1}, {-3, 2}, {3, -1, -2}, {3, 1, 2}}
XorGate == {{1, 2, 3}, {1, -2, -3}, {-1, 2, -3}, {-1, -2, 3}}
Equivalence == {{-2, 3}, {2, -3}, {1, 2, 3}}
Cycle == {{-1, 2}, {-2, 3}, {-3, 1}}
Failing == {{1, 2}, {-1, 3}, {-1, -3}}
Ternary == {{1, 2, 3}, {-1, 2, 3}, {-2, -3}}
Loose == {{1, 2, 3}, {-1, -2}, {-2, -3, 1}}
IfThenElse == {{4, -1, -2}, {4, 1, -3}, {-4, -1, 2}, {-4, 1, 3}}
Used == {{4, 2, 3}}
LongCycle == {{-1, 2}, {-2, 3}, {-3, 4}, {-4, 1}, {1, -3, 4}, {2, 3, 4}}
Stopping == {{3, -2}, {-3, 2}, {-3, -2}, {1, 2, 3}}
Forcing == {{1, 2, 4}, {1, 2, -4}, {-1, 3}, {-1, -3}}

SomeProblems ==
  {Given(AndGate, {1}, 1, 1, 1), Given(Ternary, {1}, 1, 0, 0), Given(Equivalence, {3}, 1, 1, 1),
   Given(Cycle, {2}, 1, 1, 1), Given(Failing, {1}, 2, 1, 1), Given(Failing, {}, 1, 1, 1),
   Given(Loose, {1}, 1, 1, 1), Given(Stopping, {1}, 1, 0, 0), Given(Forcing, {1, 2, 4}, 1, 1, 0),
   Given(XorGate, {1}, 1, 0, 0), Given(IfThenElse, {1}, 1, 0, 0),
   Given(IfThenElse \cup Used, {1, 2, 3}, 1, 0, 0), Given(LongCycle, {2}, 1, 0, 0)}
SomeClauses == {{{-2, 1}}, {{3}}}
=============================================================================
