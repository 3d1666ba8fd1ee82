--------------------------- MODULE IncrementalSAT ---------------------------
(***************************************************************************)
(* What a user of the solver's interface may rely on while the solver      *)
(* simplifies: over the observed variables, exactly the solutions of the   *)
(* clauses given so far remain.                                            *)
(***************************************************************************)
EXTENDS Clauses

CONSTANT Additions      \* sets of clauses that may be added later
VARIABLES observed, given, solutions

Solutions(F) == On(Models(F), observed)

Init ==
  /\ observed \subseteq Vars
  /\ given \subseteq SUBSET Lits
  /\ solutions = Solutions(given)

Add ==
  \E F \in Additions :
    /\ given' = given \cup F
    /\ solutions' = Solutions(given')
    /\ UNCHANGED observed

Spec == Init /\ [][Add]_<<observed, given, solutions>>
=============================================================================
