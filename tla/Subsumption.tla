---------------------------- MODULE Subsumption ----------------------------
(***************************************************************************)
(* Procedures that remove or shorten clauses and keep their meaning:       *)
(* subsumption and strengthening, vivification, transitive reduction,      *)
(* removal of duplicate binary clauses.                                    *)
(***************************************************************************)
EXTENDS ClauseDatabase

Undecided(c) == VarsOf(c) \cap VarsOf(units) = {}

\* What may subsume: any undecided clause but redundant binary ones.
Connected == {d \in Formula : Undecided(d) /\ (Cardinality(d) = 2 => d \in irr)}

\* subsume_clause: a redundant clause that subsumes an irredundant one takes
\* its place.
Subsume ==
  At("subsume") /\ \E c \in Formula, d \in Connected :
    /\ Cardinality(c) > 2 /\ Undecided(c) /\ d \subseteq c /\ d # c
    /\ IF c \in irr /\ d \notin irr
       THEN irr' = (irr \ {c}) \cup {d} /\ red' = red \ {c, d}
       ELSE irr' = irr \ {c} /\ red' = red \ {c}
    /\ UNCHANGED <<units, unsat, status, extension, user, control>>

\* strengthen_clause: d with one literal flipped is part of c.
Strengthen ==
  At("subsume") /\ \E c \in Formula, d \in Connected : \E l \in c :
    LET s == c \ {l}
        short(F) == IF c \in F THEN (F \ {c}) \cup {s} ELSE F
    IN
    /\ Cardinality(c) > 2 /\ Undecided(c) /\ -l \in d /\ d \ {-l} \subseteq s
    /\ irr' = short(irr) /\ red' = short(red)
    /\ UNCHANGED <<units, unsat, status, extension, user, control>>

-----------------------------------------------------------------------------
\* Mutant: irredundant clauses are checked against redundant ones too.
RestOfAll(c) == Formula \ {c}

\* vivify_clause: literals of c that are not fixed are decided false one after
\* the other; c itself is ignored, and redundant clauses are watched only when
\* c is redundant.  D has been decided when the loop stops.
Rest(c) == IF c \in irr THEN irr \ {c} ELSE Formula \ {c}
Assuming(c, D) == Propagation(Rest(c), units \cup Negated(D))
Vivified == IF At("vivify") THEN irr ELSE IF At("vivify redundant") THEN red \ irr ELSE {}

VivifySatisfied ==
  \E c \in Vivified :
    /\ True(c)
    /\ irr' = irr \ {c} /\ red' = red \ {c}
    /\ UNCHANGED <<units, unsat, status, extension, user, control>>

\* A conflict, or a literal of c that is implied: c follows from the others.
VivifyImplied ==
  \E c \in Vivified : \E D \in SUBSET Residual(c) :
    LET T == Assuming(c, D) IN
    /\ ~True(c) /\ (Inconsistent(T) \/ (c \ D) \cap T # {})
    /\ irr' = irr \ {c} /\ red' = red \ {c}
    /\ UNCHANGED <<units, unsat, status, extension, user, control>>

\* Shorten c to s in whichever set it is; a unit is assigned.
Shortened(c, s) ==
  LET short(F) == IF c \notin F THEN F
                  ELSE IF Cardinality(s) = 1 THEN F \ {c} ELSE (F \ {c}) \cup {s}
  IN Become(short(irr), short(red), IF Cardinality(s) = 1 THEN s ELSE {})

\* In redundant mode only the decisions the conflict or the implied literal
\* depends on are kept.
VivifyAnalyzed ==
  At("vivify redundant") /\ \E c \in Vivified : \E D \in SUBSET Residual(c) : \E s \in SUBSET c :
    /\ ~True(c) /\ s # {} /\ s # c
    /\ \/ s = D /\ Inconsistent(Assuming(c, D))
       \/ \E l \in (c \ D) \cap Assuming(c, D) : s = D \cup {l}
    /\ Shortened(c, s)
    /\ UNCHANGED <<extension, user, control>>

\* Literals implied false are removed, the decisions remain.
VivifyRemove ==
  \E c \in Vivified : \E D \in SUBSET Residual(c) :
    LET T == Assuming(c, D) IN
    /\ ~True(c) /\ ~Inconsistent(T) /\ D # {}
    /\ Residual(c) \ D # {} /\ Negated(Residual(c) \ D) \subseteq T
    /\ Shortened(c, D)
    /\ UNCHANGED <<extension, user, control>>

\* vivifyinst: all but the last literal false and the last one true conflict.
VivifyInstantiate ==
  \E c \in Vivified : \E l \in Residual(c) :
    LET D == Residual(c) \ {l} IN
    /\ ~True(c) /\ D # {}
    /\ ~Inconsistent(Assuming(c, D)) /\ l \notin Assuming(c, D)
    /\ Refuted(Rest(c), units \cup Negated(D) \cup {l})
    /\ Shortened(c, D)
    /\ UNCHANGED <<extension, user, control>>

-----------------------------------------------------------------------------
\* transred: dst is reached from src through other binary clauses, irredundant
\* ones only when c is irredundant.
Reach(c, src) ==
  Propagation(Binaries(IF c \in irr THEN irr \ {c} ELSE Formula \ {c}), {src})

TransitivelyReduce ==
  At("transred") /\ \E c \in Binaries(Formula) : \E l \in c :
    /\ Undecided(c)
    /\ (c \ {l}) \subseteq Reach(c, -l)
    /\ irr' = irr \ {c} /\ red' = red \ {c}
    /\ UNCHANGED <<units, unsat, status, extension, user, control>>

\* A source that reaches a literal and its negation fails.
TransredUnit ==
  At("transred") /\ \E c \in Binaries(Formula) : \E l \in c :
    /\ Undecided(c)
    /\ Inconsistent(Reach(c, -l))
    /\ Become(irr, red, {l})
    /\ UNCHANGED <<extension, user, control>>

-----------------------------------------------------------------------------
\* mark_duplicated_binary_clauses_as_garbage: of two copies the irredundant one
\* is kept, and two clauses that differ in the sign of one literal give a unit.
Deduplicate ==
  At("deduplicate") /\ \E c \in Binaries(irr) \cap red :
    /\ red' = red \ {c}
    /\ UNCHANGED <<irr, units, unsat, status, extension, user, control>>

DeduplicateUnit ==
  At("deduplicate") /\ \E c \in Binaries(Formula) : \E l \in c :
    /\ Active(l)
    /\ \E o \in c \ {l} : {l, -o} \in Formula
    /\ Become(irr, red, {l})
    /\ UNCHANGED <<extension, user, control>>

SubsumptionNext ==
  \/ Subsume \/ Strengthen
  \/ VivifySatisfied \/ VivifyImplied \/ VivifyAnalyzed \/ VivifyRemove \/ VivifyInstantiate
  \/ TransitivelyReduce \/ TransredUnit \/ Deduplicate \/ DeduplicateUnit
=============================================================================
