---------------------------- MODULE LratChecker ----------------------------
(***************************************************************************)
(* lratchecker.cpp, the checker inside CaDiCaL that follows the solver     *)
(* line by line: each derived clause must follow from the clauses its line *)
(* cites, each deleted one must be there, and what the solver concludes    *)
(* from a call must fit what was asked.  A clause stands for its own id.   *)
(* Any failure ends the program with the message kept in failure.          *)
(***************************************************************************)
EXTENDS Clauses, SequencesExt

\* The constructor; strict without the resolution check, as with internal chains.
Connected(strict) ==
  [clauses |-> {}, strict |-> strict, assumptions |-> {}, constraint |-> {},
   assumptionClauses |-> <<>>, concluded |-> FALSE, failure |-> ""]

Fails(k, message) == [k EXCEPT !.failure = message]
Unless(ok, k, message, then) == IF ok THEN then ELSE Fails(k, message)

\* The hash table.
Known(k, c) == c \in k.clauses
Insert(k, c) == [k EXCEPT !.clauses = @ \cup {c}]

\* check: with the clause false, one cited clause after the other must be known,
\* not cited before, and leave one literal open, until one leaves none.
Cite(k, w, d) ==
  LET open == d \ w.false
  IN IF w.end # "" THEN w
     ELSE IF ~Known(k, d) \/ Tautology(d) \/ d \in w.used THEN [w EXCEPT !.end = "failed"]
     ELSE IF open = {} THEN [w EXCEPT !.end = "conflict"]
     ELSE IF Cardinality(open) > 1 THEN [w EXCEPT !.end = "failed"]
     ELSE [w EXCEPT !.false = @ \cup Negated(open), !.used = @ \cup {d}]

Follows(k, c, chain) ==
  \/ Tautology(c)
  \/ FoldLeft(LAMBDA w, d : Cite(k, w, d), [false |-> c, used |-> {}, end |-> ""], chain).end
       = "conflict"

\* check_resolution: the cited clauses resolved from the last to the first give
\* a clause that subsumes the new one.
Resolved(r, d) == (r \ Negated(d)) \cup {l \in d : -l \notin r}
Resolves(k, c, chain) ==
  chain = <<>> \/ k.strict
    \/ FoldLeft(Resolved, Last(chain), Tail(Reverse(chain))) \subseteq c

AddOriginal(k, c) == Insert(k, c)

Checked(k, c, chain) == Follows(k, c, chain) /\ Resolves(k, c, chain)
AddDerived(k, c, chain) ==
  Unless(Checked(k, c, chain), k, "failed to check derived clause", Insert(k, c))

Delete(k, c) ==
  Unless(Known(k, c), k, "deleted clause not in proof", [k EXCEPT !.clauses = @ \ {c}])

\* An assumption clause is checked and deleted at once.
AddAssumptionClause(k, c, chain) ==
  LET known == k.assumptions \cup k.constraint
  IN IF ~(Negated(c) \subseteq known)
     THEN Fails(k, "clause contains non assumptions or constraint literals")
     ELSE Unless(Checked(k, c, chain), k, "failed to check derived clause",
                 [k EXCEPT !.assumptionClauses = Append(@, c)])

AddAssumption(k, l) == [k EXCEPT !.assumptions = @ \cup {l}]
AddConstraint(k, c) == [k EXCEPT !.constraint = c]

\* The constraint stays.
ResetAssumptions(k) ==
  [k EXCEPT !.assumptions = {}, !.assumptionClauses = <<>>, !.concluded = FALSE]

\* conclude_unsat, with the clauses the conclusion rests on.
Conclusive(k, kind, ids) ==
  CASE kind = "conflict" -> Known(k, {})
    [] kind = "assumptions" -> Len(ids) = 1 /\ ids = k.assumptionClauses
    [] kind = "constraint" -> /\ Len(ids) = Cardinality(k.constraint)
                              /\ ToSet(ids) \subseteq ToSet(k.assumptionClauses)
ConcludeUnsat(k, kind, ids) ==
  IF k.concluded THEN Fails(k, "already concluded")
  ELSE Unless(Conclusive(k, kind, ids), k, "conclusion does not fit", [k EXCEPT !.concluded = TRUE])

\* finalize_clause of all the solver has, and report_status: nothing is left over.
Finalize(k, live) ==
  Unless(live \subseteq k.clauses, k, "finalized clause not in proof",
         Unless(k.clauses \subseteq live, k, "finalize check failed", k))
=============================================================================
