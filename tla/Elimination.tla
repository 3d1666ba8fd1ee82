---------------------------- MODULE Elimination ----------------------------
(***************************************************************************)
(* Procedures that remove irredundant clauses the others do not imply, and *)
(* push them with a witness on the extension stack: bounded variable       *)
(* elimination with gates and backward subsumption, blocked clauses and    *)
(* pure literals, covered clauses, globally blocked clauses, and the       *)
(* instantiation of literals that goes with elimination.                   *)
(***************************************************************************)
EXTENDS ClauseDatabase

CONSTANT ElimBounds   \* values of lim.elimbound

Eliminable(v) == Active(v) /\ ~Frozen(v)

\* Occurrence lists hold irredundant clauses only; a unit found here is
\* propagated over them when the code does so eagerly.
BecomeEagerly(i, L) ==
  LET T == Propagation(i, units \cup L) IN
  /\ irr' = {c \in i : c \cap T = {}}
  /\ IF Inconsistent(T) THEN unsat' = TRUE /\ UNCHANGED <<units, status>>
                        ELSE units' = T /\ status' = Fixed(T) /\ UNCHANGED unsat

-----------------------------------------------------------------------------
\* elim_round starts with occurrence lists of clauses that are not true.
Connect ==
  /\ At("connect")
  /\ irr' = {c \in irr : ~True(c)}
  /\ plan' = Tail(plan)
  /\ UNCHANGED <<red, units, unsat, status, extension, user, work, calls, learns>>

\* Gates: sets of clauses that define the pivot.
With(l) == {c \in Occs(l) : ~True(c)}
Is(c, r) == Residual(c) = r

EquivalenceGates(p) ==
  {g \in {{c, d} : c \in With(-p), d \in With(p)} :
     \E c, d \in g : \E x \in Lits : Is(c, {-p, x}) /\ Is(d, {p, -x})}

\* A long clause with -p and the binary clauses of p with its other literals.
AndGates(p) ==
  LET inputs(b) == Residual(b) \ {-p}
      sides(b) == {c \in With(p) : \E l \in inputs(b) : Is(c, {p, -l})}
  IN {{b} \cup sides(b) :
        b \in {c \in With(-p) : Cardinality(c) > 2 /\ inputs(c) # {} /\
                 \A l \in inputs(c) : \E d \in With(p) : Is(d, {p, -l})}}

IfThenElseGates(p) ==
  {g \in {{a, b, c, d} : a, b \in With(p), c, d \in With(-p)} :
     \E i, t, e \in Lits :
       /\ VarOf(t) # VarOf(e) /\ VarOf(i) \notin {VarOf(t), VarOf(e)}
       /\ \E a \in g : Is(a, {p, i, t})
       /\ \E b \in g : Is(b, {p, -i, e})
       /\ \E c \in g : Is(c, {-p, i, -t})
       /\ \E d \in g : Is(d, {-p, -i, -e})}

\* All clauses that differ from one in an even number of signs.
XorGates(p) ==
  LET variants(r) == {(r \ F) \cup Negated(F) :
                        F \in {G \in SUBSET r : Cardinality(G) % 2 = 0}}
  IN {{c \in With(p) \cup With(-p) : Residual(c) \in variants(Residual(b))} :
        b \in {c \in With(p) : Cardinality(Residual(c)) >= 3 /\
                 \A r \in variants(Residual(c)) :
                   \E d \in With(p) \cup With(-p) : Is(d, r)}}

\* find_gate_clauses: the first kind that is found.
Gates(p) ==
  IF With(p) = {} THEN {{}}
  ELSE LET kinds == <<EquivalenceGates(p), AndGates(p), AndGates(-p),
                      IfThenElseGates(p), XorGates(p)>>
           found == {n \in DOMAIN kinds : kinds[n] # {}}
       IN IF found = {} THEN {{}}
          ELSE kinds[CHOOSE n \in found : \A m \in found : n <= m]

\* mark_binary_literals, find_equivalence: two binary clauses of the pivot, or
\* one of either sign, that give a unit.
GateUnits(p) ==
  {x \in Lits : \/ x = p /\ \E o \in Lits : \E c, d \in With(p) : Is(c, {p, o}) /\ Is(d, {p, -o})
                \/ \E c \in With(p), d \in With(-p) : Is(c, {p, x}) /\ Is(d, {-p, x})}

\* The pivot is the sign that occurs less often.
Pivot(p) == Eliminable(p) /\ Cardinality(Occs(p)) <= Cardinality(Occs(-p))

GateUnit ==
  At("elim") /\ \E p \in Lits : \E x \in GateUnits(p) :
    /\ Pivot(p)
    /\ BecomeEagerly(irr, {x})
    /\ UNCHANGED <<red, extension, user, control>>

\* With a gate only pairs of a gate clause and another are resolved.
Pairs(p, gate) ==
  {q \in Occs(p) \X Occs(-p) : gate = {} \/ (q[1] \in gate) # (q[2] \in gate)}

\* try_to_eliminate_variable: the search for gates has assigned the units it
\* met, all of them when it found no equivalence to stop at.
TryToEliminate ==
  At("elim") /\ \E p \in Lits, bound \in ElimBounds : \E gate \in Gates(p) :
    /\ Pivot(p)
    /\ p \notin GateUnits(p) /\ (GateUnits(p) = {} \/ EquivalenceGates(p) # {})
    /\ work' = [kind |-> "resolve", pivot |-> p, gate |-> gate, todo |-> Pairs(p, gate),
                adding |-> FALSE, found |-> {}, count |-> 0,
                bound |-> Cardinality(Occs(p)) + Cardinality(Occs(-p)) + bound]
    /\ UNCHANGED <<database, extension, user, plan, calls, learns>>

\* Trying stops with too many resolvents or when the pivot gets a value.
Stopped ==
  ~work.adding /\ \/ work.count > work.bound
                  \/ work.pivot \in units \cup Negated(units)

\* elim_on_the_fly_self_subsumption: a resolvent smaller than a parent replaces it.
SelfSubsumed(c, d, r) == {q \in {c, d} : Cardinality(Residual(q)) > Cardinality(r)}

\* resolve_clauses on one pair.  Trying counts resolvents and propagates units
\* at once; adding keeps the resolvents.
Resolve ==
  LET p == work.pivot
      pair == CHOOSE q \in work.todo : TRUE
      c == pair[1]
      d == pair[2]
      r == Residual(Resolvent(c, p, d))
      replaced == SelfSubsumed(c, d, r)
      satisfied == {q \in {c, d} : True(q \ {p, -p})}
      next == [work EXCEPT !.todo = @ \ {pair}]
  IN
  /\ Doing("resolve") /\ work.todo # {} /\ ~Stopped
  /\ CASE ~({c, d} \subseteq irr) \/ (satisfied = {} /\ Tautology(r)) ->
            work' = next /\ UNCHANGED <<irr, units, unsat, status>>
       [] {c, d} \subseteq irr /\ satisfied # {} ->
            /\ irr' = irr \ {IF c \in satisfied THEN c ELSE d}
            /\ work' = next /\ UNCHANGED <<units, unsat, status>>
       [] OTHER ->
            IF Cardinality(r) <= 1
            THEN /\ work' = next
                 /\ IF r = {} THEN unsat' = TRUE /\ UNCHANGED <<irr, units, status>>
                    ELSE IF work.adding THEN Assign(r) /\ UNCHANGED irr
                    ELSE BecomeEagerly(irr, r)
            ELSE /\ irr' = (irr \ replaced) \cup
                            (IF replaced # {} \/ work.adding THEN {r} ELSE {})
                 /\ work' = [next EXCEPT !.found = IF replaced = {} THEN @ \cup {r} ELSE @,
                                         !.count = IF replaced = {} THEN @ + 1 ELSE @]
                 /\ UNCHANGED <<units, unsat, status>>
  /\ UNCHANGED <<red, extension, user, plan, calls, learns>>

GiveUpElimination ==
  /\ Doing("resolve") /\ Stopped
  /\ work' = [kind |-> "backward", queue |-> {}]
  /\ UNCHANGED <<database, extension, user, plan, calls, learns>>

StartAdding ==
  /\ Doing("resolve") /\ ~work.adding /\ work.todo = {} /\ ~Stopped
  /\ work' = [work EXCEPT !.adding = TRUE, !.found = {},
                          !.todo = Pairs(work.pivot, work.gate)]
  /\ UNCHANGED <<database, extension, user, plan, calls, learns>>

\* mark_eliminated_clauses_as_garbage: the clauses of the pivot, then those of
\* its negation, go on the stack, of a gate only the gate's.
Entries(C, l) ==
  CHOOSE es \in [1 .. Cardinality(C) -> {Entry({l}, c) : c \in C}] :
    \A c \in C : \E n \in DOMAIN es : es[n] = Entry({l}, c)

Eliminate ==
  LET p == work.pivot
      saved(l) == {c \in Occs(l) : work.gate = {} \/ c \in work.gate}
  IN
  /\ Doing("resolve") /\ work.adding /\ work.todo = {}
  /\ irr' = irr \ (Occs(p) \cup Occs(-p))
  /\ extension' = extension \o Entries(saved(p), p)
                            \o Entries(saved(-p), -p)
  /\ status' = [status EXCEPT ![VarOf(p)] = IF @ = "active" THEN "eliminated" ELSE @]
  /\ work' = [kind |-> "backward", queue |-> work.found \cap irr]
  /\ UNCHANGED <<red, units, unsat, user, plan, calls, learns>>

-----------------------------------------------------------------------------
\* elim_backward_clause: an added clause removes what it subsumes and shortens
\* what it subsumes but for one sign; what is shortened is queued in turn.
\* The flag of a true clause is not reset: after one, every clause met goes.
Met(c) == {d \in irr \ {c} : d \cap Residual(c) # {}}
BackwardSubsumed(c) ==
  {d \in Met(c) : Residual(c) \subseteq Residual(d) \/ \E e \in Met(c) : True(e)}
BackwardFlipped(c) ==
  {q \in Met(c) \X Lits :
     /\ q[2] \in q[1] /\ -q[2] \in Residual(c)
     /\ Residual(c) \ {-q[2]} \subseteq Residual(q[1]) \ {q[2]}}

Backward ==
  Doing("backward") /\ \E c \in work.queue :
    /\ c \in irr /\ ~True(c)
    /\ \/ \E d \in BackwardSubsumed(c) :
            /\ irr' = irr \ {d}
            /\ work' = [work EXCEPT !.queue = @ \ {d}]
            /\ UNCHANGED <<units, unsat, status>>
       \/ \E q \in BackwardFlipped(c) :
            LET s == Residual(q[1] \ {q[2]}) IN
            IF Cardinality(s) = 1
            THEN BecomeEagerly(irr, s) /\ UNCHANGED work
            ELSE /\ irr' = (irr \ {q[1]}) \cup {q[1] \ {q[2]}}
                 /\ work' = [work EXCEPT !.queue = (@ \ {q[1]}) \cup {q[1] \ {q[2]}}]
                 /\ UNCHANGED <<units, unsat, status>>
    /\ UNCHANGED <<red, extension, user, plan, calls, learns>>

\* Dequeue a clause that has nothing left to do; a true one goes.
Dequeue ==
  Doing("backward") /\ \E c \in work.queue :
    /\ c \in irr /\ ~True(c) => BackwardSubsumed(c) = {} /\ BackwardFlipped(c) = {}
    /\ irr' = IF True(c) THEN irr \ {c} ELSE irr
    /\ work' = [work EXCEPT !.queue = @ \ {c}]
    /\ UNCHANGED <<red, units, unsat, status, extension, user, plan, calls, learns>>

EndBackward ==
  /\ Doing("backward") /\ work.queue = {}
  /\ work' = Idle
  /\ UNCHANGED <<database, extension, user, plan, calls, learns>>

\* End of elim_round: redundant clauses with an eliminated variable go; what
\* the units imply is propagated over all clauses before the next procedure.
EndElim ==
  /\ At("elim")
  /\ Become({c \in irr : ~True(c)}, NoEliminated(red), {})
  /\ plan' = Tail(plan)
  /\ UNCHANGED <<extension, user, work, calls, learns>>

-----------------------------------------------------------------------------
\* collect_instantiation_candidates: a literal that occurs once.
InstantiationCandidate(c, l) ==
  /\ Eliminable(l) /\ Cardinality(Occs(l)) <= 1
  /\ Cardinality(Residual(c)) >= 3 /\ ~True(c)

\* inst_propagate: the literal true and the others false.
InstantiationConflicts(c, l) == Refuted(Formula, units \cup {l} \cup Negated(c \ {l}))

\* instantiate_candidate: the literal is removed.
Instantiate ==
  At("instantiate") /\ \E c \in irr : \E l \in c :
    /\ InstantiationCandidate(c, l) /\ InstantiationConflicts(c, l)
    /\ irr' = (irr \ {c}) \cup {c \ {l}}
    /\ UNCHANGED <<red, units, unsat, status, extension, user, control>>

-----------------------------------------------------------------------------
\* is_blocked_clause: every resolvent on the literal is a tautology.
Blocked(c, l) == \A d \in Occs(-l) : \E o \in c \ {l} : -o \in d

\* block_literal_with_one_negative_occ: all resolvents are with one clause.
BlockOnOne(c, l) ==
  \E d \in Occs(-l) : Occs(-l) = {d} /\ \E o \in c \ {l} : -o \in d

\* block_candidates: clauses with a literal whose negation is met.
BlockCandidates(l) == {c \in Occs(l) : \E o \in c \ {l} : -o \in UNION Occs(-l)}

\* block_impossible: a clause has no tautological resolvent with any candidate.
BlockImpossible(l) ==
  \E d \in Occs(-l) : \A o \in d \ {-l} : -o \notin UNION BlockCandidates(l)

\* block_literal_with_at_least_two_negative_occs
BlockOnMore(c, l) ==
  /\ Cardinality(Occs(-l)) > 1
  /\ c \in BlockCandidates(l) /\ (Cardinality(BlockCandidates(l)) > 1 => ~BlockImpossible(l))
  /\ Blocked(c, l)

\* block_literal
BlockClause ==
  At("block") /\ \E c \in irr : \E l \in c :
    /\ Eliminable(l)
    /\ BlockOnOne(c, l) \/ BlockOnMore(c, l)
    /\ irr' = irr \ {c}
    /\ extension' = Append(extension, Entry({l}, c))
    /\ UNCHANGED <<red, units, unsat, status, user, control>>

BlockPureLiteral ==
  At("block") /\ \E l \in Lits :
    /\ Eliminable(l) /\ Occs(-l) = {}
    /\ irr' = irr \ Occs(l)
    /\ extension' = extension \o Entries(Occs(l), l)
    /\ status' = [status EXCEPT ![VarOf(l)] = "pure"]
    /\ UNCHANGED <<red, units, unsat, user, control>>

EndBlock ==
  /\ At("block")
  /\ red' = NoEliminated(red)
  /\ plan' = Tail(plan)
  /\ UNCHANGED <<irr, units, unsat, status, extension, user, work, calls, learns>>

-----------------------------------------------------------------------------
\* cover_clause: the clause grows by asymmetric and covered literals; false
\* holds all of them, covered those of the clause and of covered additions.
Cover ==
  At("cover") /\ \E c \in irr :
    /\ ~True(c) /\ \E l \in c : ~Frozen(l)
    /\ work' = [kind |-> "cover", clause |-> c, false |-> Residual(c),
                covered |-> Residual(c), stack |-> <<>>]
    /\ UNCHANGED <<database, extension, user, plan, calls, learns>>

CoverTrue ==
  At("cover") /\ \E c \in irr :
    /\ True(c)
    /\ irr' = irr \ {c}
    /\ UNCHANGED <<red, units, unsat, status, extension, user, control>>

CoverForced ==
  Forced(irr \ {work.clause}, units \cup Negated(work.false))
    \ (units \cup Negated(work.false))

\* Some clause is false already, or its last literal is.
CoverConflict == \E l \in CoverForced : l \in work.false \cup Negated(units)

CoverAsymmetric ==
  Doing("cover") /\ \E l \in CoverForced :
    /\ ~CoverConflict
    /\ work' = [work EXCEPT !.false = @ \cup {-l}]
    /\ UNCHANGED <<database, extension, user, plan, calls, learns>>

\* The clauses with -l that are not true under the extended clause, without the
\* literals that are false there.
Candidates(l) ==
  {{o \in d \ {-l} : o \notin work.false \cup Negated(units)} :
     d \in {e \in Occs(-l) : ~True(e) /\ ~ \E o \in e \ {-l} : -o \in work.false}}
Intersection(l) == {o \in UNION Candidates(l) : \A d \in Candidates(l) : o \in d}
CoverEntry(l) == Entry({l}, work.clause \cup work.covered)

CoverLiteral ==
  Doing("cover") /\ \E l \in work.covered :
    /\ CoverForced = {} /\ ~Frozen(l)
    /\ Candidates(l) # {} /\ Intersection(l) # {}
    /\ work' = [work EXCEPT !.false = @ \cup Intersection(l),
                            !.covered = @ \cup Intersection(l),
                            !.stack = Append(@, CoverEntry(l))]
    /\ UNCHANGED <<database, extension, user, plan, calls, learns>>

\* The extended clause is an asymmetric tautology or blocked on l.
Covered(entries) ==
  /\ irr' = irr \ {work.clause}
  /\ extension' = extension \o entries
  /\ work' = Idle
  /\ UNCHANGED <<red, units, unsat, status, user, plan, calls, learns>>

CoverTautology == Doing("cover") /\ CoverConflict /\ Covered(work.stack)

CoverBlocked ==
  Doing("cover") /\ \E l \in work.covered :
    /\ CoverForced = {} /\ ~Frozen(l) /\ Candidates(l) = {}
    /\ Covered(Append(work.stack, CoverEntry(l)))

CoverFails ==
  /\ Doing("cover") /\ CoverForced = {}
  /\ \A l \in work.covered : Frozen(l) \/ (Candidates(l) # {} /\ Intersection(l) = {})
  /\ work' = Idle
  /\ UNCHANGED <<database, extension, user, plan, calls, learns>>

-----------------------------------------------------------------------------
\* condition_round: all variables that are not frozen have a value.
StartCondition ==
  At("condition") /\ \E P \in SUBSET {v \in Vars : Eliminable(v)} :
    /\ irr' = {c \in irr : ~True(c)}
    /\ work' = [kind |-> "condition", clauses |-> irr',
                trail |-> P \cup Negated({v \in Vars : Eliminable(v)} \ P)]
    /\ UNCHANGED <<red, units, unsat, status, extension, user, plan, calls, learns>>

\* The negations of the literals of clauses without a true one are conditional.
InitiallyConditional == {l \in work.trail : \E d \in work.clauses : -l \in d /\ d \cap work.trail = {}}

\* So become, when the conditional literals outside the candidate are unassigned,
\* those whose negation is left in a clause without a true literal.  The rest is
\* an autarky.  Clauses removed in the same round still count.
Autarky(c) ==
  LET a == work.trail
      unassigned(K) == {l \in K : -l \notin c}
      more(K) == {l \in a : \E d \in work.clauses :
                    /\ -l \in d /\ d \cap unassigned(K) # {}
                    /\ d \cap (a \ unassigned(K)) = {}}
      settled == {K \in SUBSET a : InitiallyConditional \subseteq K /\ more(K) \subseteq K}
  IN {l \in a : \E K \in settled : l \notin K}

Condition ==
  Doing("condition") /\ \E c \in irr :
    /\ c \cap Autarky(c) # {}
    /\ irr' = irr \ {c}
    /\ extension' = Append(extension, Entry(Autarky(c), c))
    /\ UNCHANGED <<red, units, unsat, status, user, control>>

EndCondition ==
  /\ Doing("condition")
  /\ work' = Idle
  /\ plan' = Tail(plan)
  /\ UNCHANGED <<database, extension, user, calls, learns>>

EliminationNext ==
  \/ Connect \/ GateUnit \/ TryToEliminate \/ Resolve \/ GiveUpElimination \/ StartAdding \/ Eliminate
  \/ Backward \/ Dequeue \/ EndBackward \/ EndElim \/ Instantiate
  \/ BlockClause \/ BlockPureLiteral \/ EndBlock
  \/ Cover \/ CoverTrue \/ CoverAsymmetric \/ CoverLiteral \/ CoverTautology \/ CoverBlocked \/ CoverFails
  \/ StartCondition \/ Condition \/ EndCondition
=============================================================================
