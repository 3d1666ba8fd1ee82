--------------------------- MODULE SolverContract ---------------------------
(***************************************************************************)
(* What the incremental interface promises: an answer is right for the     *)
(* clauses given so far under the assumptions and the constraint given     *)
(* since the last answer, and the next call forgets both.                  *)
(***************************************************************************)
EXTENDS Clauses

VARIABLES
  given, assumed, constraint,   \* sets of clauses, literals, at most one clause
  answer   \* kind: "none", "sat" with the model's literals or "unsat" with the
           \* failed ones and whether the constraint failed

None == [kind |-> "none", lits |-> {}, constraint |-> FALSE]

\* A model may be changed by flipping, then only the clauses hold.
ModelOf(F, lits) == \A c \in F : c \cap lits # {}
Right(a) ==
  \/ a = None
  \/ /\ a.kind = "sat"
     /\ ModelOf(given \cup constraint, a.lits) /\ assumed \subseteq a.lits
     /\ ~Inconsistent(a.lits)
  \/ /\ a.kind = "unsat" /\ a.lits \subseteq assumed
     /\ ~Satisfiable(given \cup (IF a.constraint THEN constraint ELSE {}), a.lits)

Init == given = {} /\ assumed = {} /\ constraint = {} /\ answer = None

\* Any further call takes back the answer, and with it what it was about.
Since(x) == IF answer = None THEN x ELSE {}
Call == answer' = None

Add ==
  /\ Call /\ given \subseteq given'
  /\ assumed' = Since(assumed) /\ constraint' = Since(constraint)
Assume ==
  /\ Call /\ Since(assumed) \subseteq assumed' /\ assumed' \subseteq Lits
  /\ UNCHANGED given /\ constraint' = Since(constraint)
Constrain ==
  /\ Call /\ Cardinality(constraint') = 1
  /\ UNCHANGED given /\ assumed' = Since(assumed)
Reset ==
  /\ Call /\ UNCHANGED given
  /\ \/ assumed' = {} /\ constraint' = Since(constraint)
     \/ constraint' = {} /\ assumed' = Since(assumed)

\* Without an answer the assumptions and the constraint are forgotten at once.
GiveUp ==
  /\ answer = None /\ answer' = None
  /\ assumed' = {} /\ constraint' = {} /\ UNCHANGED given

Answer ==
  /\ answer = None /\ answer' # None /\ Right(answer')
  /\ UNCHANGED <<given, assumed, constraint>>

Flip ==
  /\ answer.kind = "sat" /\ answer'.kind = "sat"
  /\ VarsOf(answer'.lits) = VarsOf(answer.lits) /\ ~Inconsistent(answer'.lits)
  /\ ModelOf(given, answer'.lits)
  /\ UNCHANGED <<given, assumed, constraint>>

Next == Add \/ Assume \/ Constrain \/ Reset \/ GiveUp \/ Answer \/ Flip
Spec == Init /\ [][Next]_<<given, assumed, constraint, answer>>
=============================================================================
