----------------------------- MODULE CanonSearch -----------------------------
(***************************************************************************)
(* SymmetryBreaker::is_canonical: the backtracking search for a            *)
(* relabelling that makes the matrix smaller.  Level i places row i of the *)
(* permuted matrix; the bit sets of candidates are sets of vertices.  One  *)
(* step is a backtracking move, a choice of p[i], or the comparison that   *)
(* follows it.                                                             *)
(***************************************************************************)
EXTENDS CheckPerm, FiniteSetsExt

CONSTANTS
  Orders,        \* sizes of the subgraphs to test
  N,             \* order of the whole graph: the pseudo-test is off at k = N
  PseudoFrom,    \* order from which perm_cutoff applies (12 in the code)
  PseudoCutoff,  \* perm_cutoff: the limit the pseudo-test starts with
  PseudoSlack    \* permutations still tried once p[0] = 1 (100 in the code)

ASSUME SearchAssumption ==
  /\ Orders \subseteq 2 .. N /\ N \in Nat
  /\ PseudoFrom \in Nat /\ PseudoCutoff \in Nat /\ PseudoSlack \in Nat

INT32_MAX == 2147483647

VARIABLES
  k, M, pseudo,     \* the arguments
  pl, pn,           \* candidates left and candidates at first, per level
  p,                \* rows chosen; k where nothing has been chosen yet
  i,                \* the level
  last_x, last_y,   \* where the next comparison starts
  x, y,             \* where the last comparison ended
  np, limit,        \* permutations tried, and when to give up
  pc, verdict

vars == <<k, M, pseudo, pl, pn, p, i, last_x, last_y, x, y, np, limit, pc, verdict>>
arguments == <<k, M, pseudo>>

Init ==
  /\ k \in Orders
  /\ M \in Graphs(k)
  /\ pseudo \in BOOLEAN
  /\ pl = [v \in Vertices(k) |-> IF v = 0 THEN Vertices(k) ELSE {}]
  /\ pn = [v \in 0 .. k |-> IF v = 0 THEN Vertices(k) ELSE {}]
  /\ p = [v \in Vertices(k) |-> k]
  /\ i = 0
  /\ last_x = 0 /\ last_y = 0 /\ x = 0 /\ y = 0
  /\ np = 1
  /\ limit = IF pseudo /\ k >= PseudoFrom THEN PseudoCutoff ELSE INT32_MAX
  /\ pc = "loop"
  /\ verdict = [answer |-> "none"]

\* A start beyond row r is moved back to the beginning of row r.
RewindTo(r) ==
  /\ last_x' = IF last_x > r THEN r ELSE last_x
  /\ last_y' = IF last_x > r THEN 0 ELSE last_y

\* The loop gives up at the limit and takes the matrix for canonical.
GiveUp ==
  /\ pc = "loop" /\ np >= limit
  /\ verdict' = [answer |-> "canonical"]
  /\ pc' = "done"
  /\ UNCHANGED <<arguments, pl, pn, p, i, last_x, last_y, x, y, np, limit>>

Continue ==
  /\ pc = "loop" /\ np < limit
  /\ pc' = IF pl[i] = {} THEN "backtrack" ELSE "choose"
  /\ UNCHANGED <<arguments, pl, pn, p, i, last_x, last_y, x, y, np, limit, verdict>>

\* A level with at most one candidate is left; leaving level 0 ends the search.
\* The start is rewound to p[i], the row number chosen, not to i.
LeaveLevel ==
  /\ pc = "backtrack" /\ i >= 0 /\ Cardinality(pl[i]) <= 1
  /\ RewindTo(p[i])
  /\ i' = i - 1
  /\ IF i = 0 THEN pc' = "done" /\ verdict' = [answer |-> "canonical"]
              ELSE UNCHANGED <<pc, verdict>>
  /\ UNCHANGED <<arguments, pl, pn, p, x, y, np, limit>>

ReachLevel ==
  /\ pc = "backtrack" /\ i >= 0 /\ Cardinality(pl[i]) > 1
  /\ pl' = [pl EXCEPT ![i] = @ \ {p[i]}]
  /\ pc' = "choose"
  /\ UNCHANGED <<arguments, pn, p, i, last_x, last_y, x, y, np, limit, verdict>>

\* Mutant: the comparison goes on where it ended although p[i] is new.
ChooseStale ==
  LET v == Min(pl[i]) IN
  /\ pc = "choose"
  /\ p' = [p EXCEPT ![i] = v]
  /\ pn' = [pn EXCEPT ![i + 1] = pn[i] \ {v}]
  /\ pc' = "compare"
  /\ UNCHANGED <<arguments, pl, i, last_x, last_y, x, y, np, limit, verdict>>

\* The least candidate.  The comparison restarts at row p[i] at the latest, and
\* at the beginning of row i when it would start inside it.
Choose ==
  LET v == Min(pl[i])
      start == IF last_x > v THEN v ELSE last_x
  IN
  /\ pc = "choose"
  /\ p' = [p EXCEPT ![i] = v]
  /\ pn' = [pn EXCEPT ![i + 1] = pn[i] \ {v}]
  /\ limit' = IF i = 0 /\ v = 1 /\ pseudo /\ k < N THEN np + PseudoSlack ELSE limit
  /\ last_x' = start
  /\ last_y' = IF last_x > v \/ i = start THEN 0 ELSE last_y
  /\ pc' = "compare"
  /\ UNCHANGED <<arguments, pl, i, x, y, np, verdict>>

\* The entries from the start on, and the ones among them that end the
\* comparison: the first beyond the rows placed or the first that differs.
FromStart ==
  {e \in Pairs(k) : ~Before(e, <<IF last_x = 0 THEN 1 ELSE last_x, last_y>>)}
Deciding == {e \in FromStart : e[1] > i \/ M[e] # M[Image(p, e)]}
Decision == CHOOSE e \in Deciding : \A f \in Deciding : e = f \/ Before(e, f)

\* Drop p[i] and count the permutation.
Reject ==
  /\ np' = np + 1
  /\ pl' = [pl EXCEPT ![i] = @ \ {p[i]}]
  /\ pc' = "loop"
  /\ UNCHANGED <<i, verdict>>

MoveStart(a, b) == x' = a /\ y' = b /\ last_x' = a /\ last_y' = b

\* Mutant: an automorphism leaves its candidate in place.
CompareEqualKeeps ==
  /\ pc = "compare" /\ Deciding = {}
  /\ MoveStart(k, 0)
  /\ pc' = "loop"
  /\ UNCHANGED <<arguments, pl, pn, p, i, np, limit, verdict>>

\* Every entry is equal: an automorphism.
CompareEqual ==
  /\ pc = "compare" /\ Deciding = {}
  /\ MoveStart(k, 0)
  /\ Reject
  /\ UNCHANGED <<arguments, pn, p, limit>>

\* Rows are missing: place the next one.
CompareUnknown ==
  /\ pc = "compare" /\ Deciding # {} /\ Decision[1] > i
  /\ MoveStart(Decision[1], Decision[2])
  /\ i' = i + 1
  /\ pl' = [pl EXCEPT ![i + 1] = pn[i + 1]]
  /\ pc' = "loop"
  /\ UNCHANGED <<arguments, pn, p, np, limit, verdict>>

CompareLarger ==
  /\ pc = "compare" /\ Deciding # {} /\ Decision[1] <= i /\ ~M[Decision]
  /\ MoveStart(Decision[1], Decision[2])
  /\ Reject
  /\ UNCHANGED <<arguments, pn, p, limit>>

\* The caller reads p[0 .. i] and the entry.
CompareSmaller ==
  /\ pc = "compare" /\ Deciding # {} /\ Decision[1] <= i /\ M[Decision]
  /\ x' = Decision[1] /\ y' = Decision[2]
  /\ verdict' = [answer |-> "noncanonical", e |-> Decision,
                 p |-> [v \in 0 .. i |-> p[v]]]
  /\ pc' = "done"
  /\ UNCHANGED <<arguments, pl, pn, p, i, last_x, last_y, np, limit>>

Finished == pc = "done" /\ UNCHANGED vars

Next ==
  \/ GiveUp \/ Continue \/ LeaveLevel \/ ReachLevel \/ Choose
  \/ CompareEqual \/ CompareUnknown \/ CompareLarger \/ CompareSmaller
  \/ Finished

Spec == Init /\ [][Next]_vars /\ WF_vars(Next)

-----------------------------------------------------------------------------
(* Properties.                                                             *)

\* The search is an implementation of what the propagator relies on
\* (symbreak.cpp:413-418): a "no" comes with rows placed and an entry at which
\* the permuted matrix is smaller while all earlier entries agree, although the
\* comparison does not start at the first entry; a "yes" outside the
\* pseudo-test means canonical.
Test == INSTANCE CanonicityTest
          WITH Orders <- Orders, k <- k, M <- M, pseudo <- pseudo, verdict <- verdict
ImplementsTest == Test!Spec

\* check-perm.py accepts the clause made from every answer "no" with the rows
\* that are written to the permutation file, whatever the order of the graph.
AcceptedByCheckPerm ==
  verdict.answer = "noncanonical" =>
    /\ Accepts(N, BlockingClause(M, verdict.p, verdict.e), verdict.p)
    /\ Cardinality(BlockingClause(M, verdict.p, verdict.e)) > 1

\* The search tries finitely many permutations.
Terminates == <>(pc = "done")
=============================================================================
