--------------------------- MODULE CanonicityTest ---------------------------
(***************************************************************************)
(* What cb_has_external_clause relies on when it calls is_canonical: one   *)
(* answer, "no" only with rows and an entry that show it, "yes" only for a *)
(* canonical graph unless the pseudo-test has been asked for.              *)
(***************************************************************************)
EXTENDS Canonicity

CONSTANTS Orders   \* the values of k
VARIABLES k, M, pseudo, verdict

Init ==
  /\ k \in Orders
  /\ M \in Graphs(k)
  /\ pseudo \in BOOLEAN
  /\ verdict = [answer |-> "none"]

Yes ==
  /\ verdict.answer = "none"
  /\ verdict' = [answer |-> "canonical"]
  /\ pseudo \/ Canonical(k, M)
  /\ UNCHANGED <<k, M, pseudo>>

No ==
  /\ verdict.answer = "none"
  /\ verdict'.answer = "noncanonical"
  /\ \E m \in 1 .. (k - 1) :
       verdict'.p \in Relabellings(m, k) /\ verdict'.e \in Pairs(m + 1)
  /\ SmallerAt(M, verdict'.p, verdict'.e)
  /\ UNCHANGED <<k, M, pseudo>>

Spec == Init /\ [][Yes \/ No]_<<k, M, pseudo, verdict>>
=============================================================================
