--------------------------- MODULE ClauseDatabase ---------------------------
(***************************************************************************)
(* The state CaDiCaL's simplification procedures share, and the updates    *)
(* they are built from: units and their propagation, collection of         *)
(* garbage, the extension stack with its witnesses, reactivation and       *)
(* restoring of clauses, compaction.                                       *)
(***************************************************************************)
EXTENDS Clauses

CONSTANTS
  Problems,     \* [clauses, observed, calls, learns, adds]: what is given and frozen,
                \* and how often it is simplified, learned from and added to at most
  Additions     \* sets of clauses added between two calls of solve

ASSUME ProblemsAssumption ==
  \A p \in Problems : p.clauses \subseteq SUBSET Lits /\ p.observed \subseteq Vars
ASSUME AdditionsAssumption == Additions \subseteq SUBSET SUBSET Lits

VARIABLES
  irr, red,        \* irredundant and redundant clauses, garbage left out
  units,           \* literals fixed at the root level
  unsat,
  status,          \* Flags::status per variable; "unmapped": e2i is 0
  extension,       \* sequence of [witness, clause], oldest first
  observed, given, \* frozen variables, and all clauses ever given
  plan,            \* procedures still to run; empty in the search loop
  work,            \* what the running procedure has in progress
  calls, learns, adds   \* how often each may still happen

Formula == irr \cup red
database == <<irr, red, units, unsat, status>>
user == <<observed, given, adds>>
control == <<plan, work, calls, learns>>
vars == <<database, extension, user, control>>

Idle == [kind |-> "idle"]
Searching == plan = <<>> /\ ~unsat
At(procedure) == ~unsat /\ plan # <<>> /\ Head(plan) = procedure /\ work = Idle
Doing(kind) == ~unsat /\ work.kind = kind

Active(l) == status[VarOf(l)] = "active"
Frozen(l) == VarOf(l) \in observed
True(c) == c \cap units # {}
Residual(c) == {l \in c : -l \notin units}
Unit(F) == {{l} : l \in F}
Occs(l) == {c \in irr : l \in c}

Fixed(T) == [v \in Vars |-> IF v \in VarsOf(T) THEN "fixed" ELSE status[v]]

\* Replace the clauses, assign L and propagate over all of them.
Become(i, r, L) ==
  LET T == Propagation(i \cup r, units \cup L) IN
  /\ irr' = i /\ red' = r
  /\ IF Inconsistent(T) THEN unsat' = TRUE /\ UNCHANGED <<units, status>>
                        ELSE units' = T /\ status' = Fixed(T) /\ UNCHANGED unsat

\* Assign without propagating, as in occurrence list mode.
Assign(L) ==
  IF Inconsistent(units \cup L)
  THEN unsat' = TRUE /\ UNCHANGED <<units, status>>
  ELSE units' = units \cup L /\ status' = Fixed(units \cup L) /\ UNCHANGED unsat

\* mark_satisfied_clauses_as_garbage: no true clause stays; false literals go
\* while two others remain.
Collected(F) ==
  {IF Cardinality(Residual(c)) >= 2 THEN Residual(c) ELSE c : c \in {d \in F : ~True(d)}}

\* Mutant: redundant clauses with eliminated variables stay.
WithEliminated(F) == F

NoEliminated(F) == {c \in F : \A l \in c : status[VarOf(l)] \notin {"eliminated", "pure"}}

Entry(w, c) == [witness |-> w, clause |-> c]
Witnesses == UNION {extension[j].witness : j \in DOMAIN extension}

\* External::extend: from the last entry to the first, a clause that is false
\* makes its witness true.
Extended(stack, a) ==
  LET value[j \in 0 .. Len(stack)] ==
        IF j = Len(stack) THEN a
        ELSE LET b == value[j + 1]
                 e == stack[j + 1]
             IN IF e.clause \cap b # {} THEN b ELSE (b \ Negated(e.witness)) \cup e.witness
  IN value[0]

\* Mutant: restoring does not taint the literals of what it restores.
RestoringOnce(F) ==
  LET tainted == {l \in UNION F : -l \in Witnesses}
      hit(e) == Negated(e.witness) \cap tainted # {}
  IN [tainted |-> tainted,
      kept |-> SelectSeq(extension, LAMBDA e : ~hit(e)),
      restored |-> {extension[j].clause : j \in {n \in DOMAIN extension : hit(extension[n])}}]

\* External::restore_clauses: going from the oldest entry on, an entry is
\* restored when the negation of a witness literal has been used again; its
\* literals are internalized then and may taint further ones.
Restoring(F) ==
  LET taint(c) == {l \in c : -l \in Witnesses}
      walk[j \in 0 .. Len(extension)] ==
        IF j = 0 THEN [tainted |-> taint(UNION F), kept |-> <<>>, restored |-> {}]
        ELSE LET w == walk[j - 1]
                 e == extension[j]
             IN IF Negated(e.witness) \cap w.tainted = {}
                THEN [w EXCEPT !.kept = Append(@, e)]
                ELSE [w EXCEPT !.tainted = @ \cup taint(e.clause),
                               !.restored = @ \cup {e.clause}]
  IN walk[Len(extension)]

\* add_new_original_clause: true and tautological clauses are dropped, false
\* literals removed.
Original(F) == {Residual(c) : c \in {d \in F : ~True(d) /\ ~Tautology(d)}}

\* Flags of the variables a new clause uses: all that were eliminated or not yet
\* used are active.
Reactivated(used) == [v \in Vars |-> IF v \in used THEN "active" ELSE status[v]]

\* New clauses between two calls: their variables are active again, and what
\* the extension stack holds against them is restored before the search goes on.
AddClauses ==
  Searching /\ \E F \in Additions :
    LET r == Restoring(F)
        new == Original(F \cup r.restored)
        used == VarsOf(UNION (F \cup r.restored))
        T == Propagation(new \cup Formula, units)
    IN
    /\ adds > 0 /\ F \cap given = {}
    /\ adds' = adds - 1
    /\ given' = given \cup F
    /\ extension' = r.kept
    /\ irr' = irr \cup {c \in new : Cardinality(c) > 1}
    /\ IF {} \in new \/ Inconsistent(T)
       THEN unsat' = TRUE /\ UNCHANGED <<units, status>>
       ELSE /\ units' = T
            /\ status' = [v \in Vars |-> IF v \in VarsOf(T) THEN "fixed" ELSE Reactivated(used)[v]]
            /\ UNCHANGED unsat
    /\ UNCHANGED <<red, observed, control>>

\* The search loop learns what propagation confirms.
Learn ==
  Searching /\ \E c \in SUBSET Lits :
    /\ learns > 0
    /\ Cardinality(c) \in 1 .. 2 /\ c \notin Formula /\ ~Tautology(c)
    /\ \A l \in c : Active(l)
    /\ RUP(Formula, c \cup Negated(units))
    /\ learns' = learns - 1
    /\ IF Cardinality(c) = 1 THEN Become(irr, red, c) ELSE Become(irr, red \cup {c}, {})
    /\ UNCHANGED <<extension, user, plan, work, calls>>

\* reduce: some redundant clauses go, true ones and false literals with them.
Reduce ==
  Searching /\ \E r \in SUBSET red :
    /\ r # red
    /\ irr' = Collected(irr) /\ red' = Collected(r)
    /\ UNCHANGED <<units, unsat, status, extension, user, control>>

\* Mapper: the variables that are no longer active lose their place; a fixed one
\* keeps its value.
Mapped == [v \in Vars |-> IF status[v] \in {"active", "fixed"} THEN status[v] ELSE "unmapped"]

\* compact, after a garbage collection.
Compact ==
  /\ Searching /\ \E v \in Vars : status[v] \in {"eliminated", "substituted", "pure"}
  /\ irr' = Collected(irr) /\ red' = Collected(red)
  /\ status' = Mapped
  /\ UNCHANGED <<units, unsat, extension, user, control>>
=============================================================================
