---------------------------- MODULE Inprocessing ----------------------------
(***************************************************************************)
(* CaDiCaL between conflicts: the search loop starts one procedure after   *)
(* another, learns and forgets clauses, and is given further clauses.      *)
(* Each procedure runs the techniques of Subsumption, Probing and          *)
(* Elimination as often as its limits let it.                              *)
(***************************************************************************)
EXTENDS Subsumption, Probing, Elimination

\* What one call of a procedure runs through; each part may do nothing, so a
\* second round of elimination that is not reached is one without a change.
ElimRound == <<"connect", "elim", "instantiate">>
Plans ==
  {<<"decompose", "decompose", "ternary", "deduplicate", "probe", "decompose", "decompose">>,
   <<"subsume", "vivify", "vivify redundant", "transred">>,
   ElimRound \o <<"subsume", "block", "cover">> \o ElimRound,
   <<"condition">>}

Init ==
  /\ \E p \in Problems :
       /\ given = p.clauses /\ observed = p.observed /\ calls = p.calls
       /\ learns = p.learns /\ adds = p.adds
       /\ irr = {c \in p.clauses : ~Tautology(c)}
       /\ \A c \in p.clauses : Cardinality(c) > 1
       /\ status = [v \in Vars |-> IF v \in VarsOf(UNION p.clauses) \cup p.observed
                                   THEN "active" ELSE "unused"]
  /\ red = {} /\ units = {} /\ unsat = FALSE
  /\ extension = <<>> /\ plan = <<>> /\ work = Idle

Start ==
  Searching /\ \E p \in Plans :
    /\ calls > 0
    /\ calls' = calls - 1
    /\ plan' = p
    /\ UNCHANGED <<database, extension, user, work, learns>>

\* A procedure ends when its schedule or its limit is exhausted; ternary
\* resolution is followed by decompose when it derived binary clauses.
Simple == {"ternary", "deduplicate", "probe", "subsume", "vivify",
           "vivify redundant", "transred", "instantiate", "cover"}
EndProcedure ==
  /\ plan # <<>> /\ Head(plan) \in Simple /\ At(Head(plan))
  /\ \/ plan' = Tail(plan)
     \/ Head(plan) = "ternary" /\ plan' = <<"decompose", "decompose">> \o Tail(plan)
  /\ UNCHANGED <<database, extension, user, work, calls, learns>>

Unsatisfiable == unsat /\ UNCHANGED vars

Next ==
  \/ Start \/ EndProcedure \/ AddClauses \/ Learn \/ Reduce \/ Compact
  \/ SubsumptionNext \/ ProbingNext \/ EliminationNext \/ Unsatisfiable

Spec == Init /\ [][Next]_vars

-----------------------------------------------------------------------------
\* What the solver holds: the equivalences it is substituting by count until all
\* clauses are rewritten, as some may follow from redundant clauses only.
Equivalences ==
  IF work.kind # "substitute" THEN {}
  ELSE UNION {{{-v, work.repr[v]}, {v, -work.repr[v]}} : v \in SubstitutedBy(work.repr)}
Database == IF unsat THEN {{}} ELSE irr \cup Unit(units) \cup Equivalences

\* No procedure changes what the database says about the observed variables.
Interface == INSTANCE IncrementalSAT WITH
  observed <- observed, given <- given, solutions <- On(Models(Database), observed)
KeepsObservedSolutions == Interface!Spec

\* Redundant clauses exclude no solution over the observed variables.
RedundantExcludesNothing ==
  ~unsat => On(Models(Database \cup red), observed) = On(Models(Database), observed)

\* Whatever the solver leaves in the variables it no longer has, the extension
\* stack turns a model of its clauses into one of all clauses given.
ExtensionGivesModel ==
  ~unsat /\ work.kind # "substitute" =>
    \A a \in Models(irr \cup Unit(units)) : Satisfies(Extended(extension, a), given)

\* Back in the search loop every clause is over variables the solver still has.
SearchOverMappedVariables ==
  Searching => \A c \in Formula : \A l \in c : status[VarOf(l)] \in {"active", "fixed"}

\* Every clause a step derives follows by unit propagation from those before it
\* and at most one unit that does, so the proof checker accepts its lines.
Checked == Formula \cup Unit(units) \cup Equivalences
Derivable(c) ==
  \/ RUP(Checked, c)
  \/ \E l \in Lits : RUP(Checked, {l}) /\ RUP(Checked \cup {{l}}, c)
ProofStepsCheck ==
  [][given' = given =>
       /\ \A c \in (Formula' \cup Unit(units')) \ (Formula \cup Unit(units)) : Derivable(c)
       /\ unsat' => unsat \/ Derivable({})]_vars
=============================================================================
