---------------------------- MODULE LratBuilder ----------------------------
(***************************************************************************)
(* lratbuilder.cpp: with option externallrat the solver gives no chains,   *)
(* and this tracer finds one for every derived clause.  It keeps a trail   *)
(* of what its clauses imply, with reasons, and takes back what followed   *)
(* from a clause when the clause is deleted.                               *)
(***************************************************************************)
EXTENDS Clauses, SequencesExt

\* trail: sequence of [lit, reason]; units: the literals with a unit_reason;
\* conflict: the inconsistent clause, if inconsistent.
Connected ==
  [clauses |-> {}, trail |-> <<>>, units |-> {}, inconsistent |-> FALSE, conflict |-> {},
   failure |-> ""]

TrueOn(trail) == {trail[i].lit : i \in DOMAIN trail}
OpenOn(trail, c) == c \ Negated(TrueOn(trail))
Entry(l, c) == [lit |-> l, reason |-> c]

\* A clause that is false or forces a literal, unit clauses before the others; the
\* empty clause has no watches.
Active(F, trail) ==
  LET T == TrueOn(trail)
      some == {c \in F : /\ c # {} /\ c \cap T = {} /\ ~Tautology(c)
                         /\ Cardinality(OpenOn(trail, c)) < 2}
      units == {c \in some : Cardinality(c) = 1}
  IN IF units # {} THEN units ELSE some

\* unit_propagate and propagate: to completion or to a conflict.
RECURSIVE Propagated(_, _)
Propagated(F, trail) ==
  LET active == Active(F, trail)
      c == CHOOSE d \in active : TRUE
      open == OpenOn(trail, c)
  IN IF active = {} THEN [ok |-> TRUE, trail |-> trail, conflict |-> {}]
     ELSE IF open = {} THEN [ok |-> FALSE, trail |-> trail, conflict |-> c]
     ELSE Propagated(F, Append(trail, Entry(CHOOSE l \in open : TRUE, c)))

-----------------------------------------------------------------------------
(* Chains.                                                                   *)

\* What justifies a literal of the trail: its unit clause if there is one.
Justification(k, e) == IF e.lit \in k.units THEN {e.lit} ELSE e.reason

\* construct_chain: back over the trail, the reasons of all that is needed and is
\* not a literal of the clause itself.
Justify(k, own, b, e) ==
  LET reason == Justification(k, e)
  IN IF VarOf(e.lit) \notin b.todo \/ VarOf(e.lit) \in own THEN b
     ELSE [todo |-> b.todo \cup VarsOf(reason), chain |-> <<reason>> \o b.chain]

ChainBack(k, own, todo, chain, trail) ==
  FoldRight(LAMBDA e, b : Justify(k, own, b, e), trail, [todo |-> todo, chain |-> chain]).chain

ByConflict(k, own, c, trail) == ChainBack(k, own, VarsOf(c), <<c>>, trail)

NoChain == [ok |-> FALSE, chain |-> <<>>]
Chain(chain) == [ok |-> TRUE, chain |-> chain]

\* The literals of the clause assumed false, those already false apart.
Denied(k, c) ==
  FoldSet(LAMBDA l, trail : Append(trail, Entry(-l, {})), k.trail, OpenOn(k.trail, c))

\* build_chain_if_possible.
ChainByPropagation(k, c, p) ==
  IF p.ok THEN NoChain ELSE Chain(ByConflict(k, VarsOf(c), p.conflict, p.trail))
SatisfiedBy(k, c) == CHOOSE l \in c \cap TrueOn(k.trail) : TRUE
Build(k, c) ==
  IF Tautology(c) THEN Chain(<<>>)
  ELSE IF k.inconsistent THEN Chain(ByConflict(k, {}, k.conflict, k.trail))
  ELSE IF c \cap TrueOn(k.trail) # {}
       THEN Chain(ChainBack(k, {}, {VarOf(SatisfiedBy(k, c))}, <<>>, k.trail))
  ELSE ChainByPropagation(k, c, Propagated(k.clauses, Denied(k, c)))

-----------------------------------------------------------------------------
(* Clauses added and deleted.                                                *)

Found(k, p) == [k EXCEPT !.trail = p.trail, !.inconsistent = ~p.ok, !.conflict = p.conflict]

\* add_clause.
Force(k, c, l) ==
  Found([k EXCEPT !.units = IF Cardinality(c) = 1 THEN @ \cup {l} ELSE @],
        Propagated(k.clauses, Append(k.trail, Entry(l, c))))
Assigning(k, c, open) ==
  IF Tautology(c) \/ c \cap TrueOn(k.trail) # {} \/ Cardinality(open) > 1 THEN k
  ELSE IF open = {} THEN [k EXCEPT !.inconsistent = TRUE, !.conflict = c]
  ELSE Force(k, c, CHOOSE l \in open : TRUE)
Known(k, c) == c \in k.clauses
Insert(k, c) == [k EXCEPT !.clauses = @ \cup {c}]
Add(k, c) == IF k.inconsistent THEN Insert(k, c) ELSE Assigning(Insert(k, c), c, OpenOn(k.trail, c))

\* add_clause_get_proof: the chain is Build(k, c).chain.
AddDerived(k, c) ==
  IF Build(k, c).ok THEN Add(k, c) ELSE [k EXCEPT !.failure = "failed to build chain for clause"]

\* delete_clause: from the literal the clause implied on, the trail is built anew.
ReasonOf(k, c) == {i \in DOMAIN k.trail : k.trail[i].reason = c}
Before(trail, S) == IF S = {} THEN trail ELSE SubSeq(trail, 1, (CHOOSE i \in S : TRUE) - 1)
Removed(k, c) ==
  [k EXCEPT !.clauses = @ \ {c}, !.units = IF Cardinality(c) = 1 THEN @ \ c ELSE @]
Unwound(k, c, S) ==
  IF S # {} \/ (k.inconsistent /\ k.conflict = c)
  THEN Found(Removed(k, c), Propagated(k.clauses \ {c}, Before(k.trail, S)))
  ELSE Removed(k, c)
Delete(k, c) ==
  IF ~Known(k, c) THEN [k EXCEPT !.failure = "deleted clause not in proof"]
  ELSE Unwound(k, c, ReasonOf(k, c))

\* An assumption clause is added and deleted.
AddAssumptionClause(k, c) ==
  IF Known(k, c) THEN k ELSE Delete(AddDerived(k, c), c)
=============================================================================
