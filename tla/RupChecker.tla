----------------------------- MODULE RupChecker -----------------------------
(***************************************************************************)
(* checker.cpp, the other checker inside CaDiCaL: it needs no chains, but  *)
(* propagates every clause itself.  What follows without assumptions stays *)
(* assigned for ever, so a clause that is true by then is not even kept.   *)
(***************************************************************************)
EXTENDS Clauses

\* watched: the clauses propagated, those in the hash table and deleted binary
\* ones until they are collected.
Connected ==
  [clauses |-> {}, watched |-> {}, true |-> {}, inconsistent |-> FALSE, failure |-> ""]

\* tautological: also a clause that is true already.
Ignored(k, c) == k.inconsistent \/ Tautology(c) \/ c \cap k.true # {}
Open(k, c) == {l \in c : -l \notin k.true}

Assigning(k, S) ==
  LET T == Propagation(k.watched, k.true \cup S)
  IN IF Inconsistent(T) THEN [k EXCEPT !.inconsistent = TRUE] ELSE [k EXCEPT !.true = T]

Known(k, c) == c \in k.clauses
Insert(k, c) == [k EXCEPT !.clauses = @ \cup {c}, !.watched = @ \cup {c}]

\* add_clause: false, a unit, or one to watch.
Add(k, c) ==
  IF Open(k, c) = {} THEN [k EXCEPT !.inconsistent = TRUE]
  ELSE IF Cardinality(Open(k, c)) = 1 THEN Assigning(k, Open(k, c))
  ELSE Insert(k, c)

AddOriginal(k, c) == IF Ignored(k, c) THEN k ELSE Add(k, c)

\* check: the clause assumed false, propagation runs into a conflict.
Follows(k, c) == Refuted(k.watched, k.true \cup Negated(c))
AddDerived(k, c) ==
  IF Ignored(k, c) THEN k
  ELSE IF Follows(k, c) THEN Add(k, c)
  ELSE [k EXCEPT !.failure = "failed to check derived clause"]

\* A large clause is garbage at once; all that are true go with a collection.
Uncollected(k, c) ==
  [k EXCEPT !.clauses = @ \ {c}, !.watched = IF Cardinality(c) = 2 THEN @ ELSE @ \ {c}]
Collected(k, c) ==
  LET kept == {d \in k.clauses \ {c} : d \cap k.true = {}}
  IN [k EXCEPT !.clauses = kept, !.watched = kept]

\* delete_clause, with a collection of the garbage or without.
Delete(k, c, collects) ==
  IF Ignored(k, c) THEN k
  ELSE IF ~Known(k, c) THEN [k EXCEPT !.failure = "deleted clause not in proof"]
  ELSE IF collects THEN Collected(k, c) ELSE Uncollected(k, c)

\* An assumption clause is deleted at once, but what it implied stays.
AddAssumptionClause(k, c) ==
  IF Known(k, c) THEN k ELSE Delete(AddDerived(k, c), c, FALSE)
=============================================================================
