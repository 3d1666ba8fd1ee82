------------------------------ MODULE Probing ------------------------------
(***************************************************************************)
(* Procedures that derive units and short clauses: failed literal probing  *)
(* with hyper binary resolution, hyper ternary resolution, substitution of *)
(* equivalent literals.                                                    *)
(***************************************************************************)
EXTENDS ClauseDatabase

\* generate_probes: roots of the binary implication graph.
ProbeBinaries == {Residual(c) : c \in {d \in Formula : ~True(d)}}
Roots ==
  {l \in Lits :
     /\ Active(l)
     /\ \E c \in Binaries(ProbeBinaries) : -l \in c
     /\ ~ \E c \in Binaries(ProbeBinaries) : l \in c}

\* Propagating a probe runs into a conflict.
Fails(probe) == Refuted(Formula, units \cup {probe})

\* Mutant: any literal on the way to the conflict is taken for a dominator.
FailedLiteralAnywhere ==
  At("probe") /\ \E probe \in Roots : \E uip \in Propagation(Formula, units \cup {probe}) :
    /\ Fails(probe)
    /\ Active(uip)
    /\ Become(irr, red, {-uip})
    /\ UNCHANGED <<extension, user, control>>

\* failed_literal: the negation of a literal all paths from the probe to the
\* conflict go through is a unit; the literals between follow by propagation.
FailedLiteral ==
  At("probe") /\ \E probe \in Roots : \E uip \in Propagation(Formula, units \cup {probe}) :
    /\ Fails(probe)
    /\ Active(uip) /\ Fails(uip)
    /\ Become(irr, red, {-uip})
    /\ UNCHANGED <<extension, user, control>>

\* What binary clauses imply from a dominator.
Below(dom) == Propagation(Binaries(Formula), units \cup {dom})

\* hyper_binary_resolve: all literals of the reason but one are false through
\* binary clauses from one dominator.  If its negation is in the reason the
\* new clause subsumes the reason and is as redundant as it is.
HyperBinary ==
  At("probe") /\ \E reason \in Formula, dom \in Lits : \E l \in reason :
    LET new == {-dom, l}
        below == Below(dom)
        contained == -dom \in reason
        late == contained /\ reason \in irr
    IN
    /\ Cardinality(reason) > 2 /\ Active(dom) /\ Active(l) /\ VarOf(l) # VarOf(dom)
    /\ Negated(reason \ {l}) \subseteq below /\ ~(Negated(reason \ {l}) \subseteq units)
    /\ l \notin below /\ ~Inconsistent(below)
    /\ new \notin Formula
    /\ irr' = (IF contained THEN irr \ {reason} ELSE irr) \cup (IF late THEN {new} ELSE {})
    /\ red' = (IF contained THEN red \ {reason} ELSE red) \cup (IF late THEN {} ELSE {new})
    /\ UNCHANGED <<units, unsat, status, extension, user, control>>

\* ternary_round connects the ternary clauses without a fixed literal.
Ternaries == {c \in Formula : Cardinality(c) = 3 /\ VarsOf(c) \cap VarsOf(units) = {}}

\* ternary_find_binary_clause, ternary_find_ternary_clause: a resolvent is there
\* already, or a binary clause that subsumes it.
TernaryFound(r) == \E d \in Formula : Cardinality(d) \in 2 .. 3 /\ d \subseteq r

\* hyper_ternary_resolve: a resolvent of size two replaces both clauses.
HyperTernary ==
  At("ternary") /\ \E c, d \in Ternaries : \E l \in c :
    LET r == Resolvent(c, l, d)
        late == Cardinality(r) = 2 /\ (c \in irr \/ d \in irr)
        gone == IF Cardinality(r) = 2 THEN {c, d} ELSE {}
    IN
    /\ -l \in d /\ Active(l)
    /\ ~Tautology(r) /\ Cardinality(r) <= 3 /\ ~TernaryFound(r)
    /\ irr' = (irr \ gone) \cup (IF late THEN {r} ELSE {})
    /\ red' = (red \ gone) \cup (IF late THEN {} ELSE {r})
    /\ UNCHANGED <<units, unsat, status, extension, user, control>>

-----------------------------------------------------------------------------
\* decompose_round: strongly connected components of the implication graph of
\* the binary clauses over active literals.
Reachable(l) == Propagation({c \in Binaries(Formula) : \A o \in c : Active(o)}, {l})
Component(l) == {o \in Reachable(l) : l \in Reachable(o)}

\* Mutant: frozen literals are replaced like all others.
RepresentativeOfAll(l) ==
  IF ~Active(l) THEN l
  ELSE CHOOSE o \in Component(l) : \A m \in Component(l) : VarOf(o) <= VarOf(m)

\* The member with the smallest index represents the others; a frozen literal
\* represents itself.
Representative(l) ==
  IF ~Active(l) \/ Frozen(l) THEN l
  ELSE CHOOSE o \in Component(l) : \A m \in Component(l) : VarOf(o) <= VarOf(m)

SubstitutedBy(repr) == {v \in Vars : repr[v] # v}

\* Both implications of every substituted variable, by index.
EquivalenceEntries(repr) ==
  LET upto[n \in 0 .. MaxVar] ==
        IF n = 0 THEN <<>>
        ELSE upto[n - 1] \o
             IF n \in SubstitutedBy(repr)
             THEN <<Entry({-n}, {repr[n], -n}), Entry({n}, {n, -repr[n]})>>
             ELSE <<>>
  IN upto[MaxVar]

Decompose ==
  LET repr == [l \in Lits |-> Representative(l)] IN
  /\ At("decompose")
  /\ IF \E l \in Lits : Active(l) /\ -l \in Component(l)
     THEN unsat' = TRUE /\ UNCHANGED <<extension, work, plan>>
     ELSE /\ extension' = extension \o EquivalenceEntries(repr)
          /\ work' = [kind |-> "substitute", repr |-> repr, todo |-> Formula, late |-> {}]
          /\ UNCHANGED <<unsat, plan>>
  /\ UNCHANGED <<irr, red, units, status, user, calls, learns>>

\* One clause: the images of its literals that are not false.  A clause that
\* becomes true is collected only after all the others.
Substitute ==
  LET c == CHOOSE d \in work.todo : TRUE
      image(F) == {work.repr[l] : l \in F}
      new == Residual(image(Residual(c)))
      put(F) == IF c \in F THEN (F \ {c}) \cup {new} ELSE F
  IN
  /\ Doing("substitute") /\ work.todo # {}
  /\ IF c = image(c)
     THEN UNCHANGED <<irr, red, units, unsat, status>> /\ work' = [work EXCEPT !.todo = @ \ {c}]
     ELSE IF True(c) \/ True(image(Residual(c))) \/ Tautology(new)
     THEN /\ work' = [work EXCEPT !.todo = @ \ {c}, !.late = @ \cup {c}]
          /\ UNCHANGED <<irr, red, units, unsat, status>>
     ELSE /\ work' = [work EXCEPT !.todo = @ \ {c}]
          /\ IF Cardinality(new) <= 1
             THEN irr' = irr \ {c} /\ red' = red \ {c}
             ELSE irr' = put(irr) /\ red' = put(red)
          /\ IF new = {} THEN unsat' = TRUE /\ UNCHANGED <<units, status>>
             ELSE IF Cardinality(new) = 1 THEN Assign(new)
             ELSE UNCHANGED <<units, unsat, status>>
  /\ UNCHANGED <<extension, user, plan, calls, learns>>

\* Postponed garbage goes, units are propagated, and a variable is marked
\* substituted unless its representative has been fixed.
SubstituteEnd ==
  LET i == irr \ work.late
      r == red \ work.late
      T == Propagation(i \cup r, units)
  IN
  /\ Doing("substitute") /\ work.todo = {}
  /\ irr' = i /\ red' = r
  /\ IF Inconsistent(T) THEN unsat' = TRUE /\ UNCHANGED <<units, status>>
     ELSE /\ units' = T
          /\ status' = [v \in Vars |->
               IF v \in VarsOf(T) THEN "fixed"
               ELSE IF v \in SubstitutedBy(work.repr) /\ VarOf(work.repr[v]) \notin VarsOf(T)
               THEN "substituted" ELSE status[v]]
          /\ UNCHANGED unsat
  /\ work' = Idle
  /\ plan' = Tail(plan)
  /\ UNCHANGED <<extension, user, calls, learns>>

ProbingNext ==
  \/ FailedLiteral \/ HyperBinary \/ HyperTernary
  \/ Decompose \/ Substitute \/ SubstituteEnd
=============================================================================
