------------------------------ MODULE Clauses ------------------------------
(***************************************************************************)
(* Clauses as the solver and the scripts see them: a literal is a variable *)
(* or its negative, a clause a set of literals, an assignment the set of   *)
(* the literals it makes true.                                             *)
(***************************************************************************)
EXTENDS Integers, FiniteSets, Sequences

CONSTANT MaxVar   \* External::max_var

ASSUME MaxVarAssumption == MaxVar \in Nat

Vars == 1 .. MaxVar
Lits == Vars \cup {-v : v \in Vars}
Negated(S) == {-l : l \in S}
VarOf(l) == IF l < 0 THEN -l ELSE l
VarsOf(c) == {VarOf(l) : l \in c}
Tautology(c) == \E l \in c : -l \in c

\* What a clause forces once the literals in T are true: its last literal that
\* is not false, or, with none left, any of them, against T.
ForcedBy(c, T) ==
  LET open == {l \in c : -l \notin T}
  IN IF open = {} THEN c ELSE IF Cardinality(open) = 1 THEN open ELSE {}

Forced(F, T) == UNION {ForcedBy(c, T) : c \in F}

\* Propagation to completion.
Propagation(F, T) ==
  LET close[U \in SUBSET Lits] ==
        LET more == Forced(F, U) IN IF more \subseteq U THEN U ELSE close[U \cup more]
  IN close[T]

Inconsistent(T) == \E l \in T : -l \in T
Refuted(F, T) == Inconsistent(Propagation(F, T))

\* What a forward proof checker accepts: assuming the clause false, propagation
\* runs into a conflict.
RUP(F, c) == Refuted(F, Negated(c))

\* Some assignment that makes the literals in T true satisfies F.
Satisfiable(F, T) ==
  LET sat[A \in SUBSET Lits] ==
        LET U == Propagation(F, A)
            open == {c \in F : c \cap U = {}}
        IN ~Inconsistent(U) /\ (open = {} \/
             LET l == CHOOSE l \in UNION open : -l \notin U
             IN sat[U \cup {l}] \/ sat[U \cup {-l}])
  IN sat[T]

Resolvent(c, l, d) == (c \ {l}) \cup (d \ {-l})
Binaries(F) == {c \in F : Cardinality(c) = 2}

\* The assignments to the variables in V.
Assignments(V) == {P \cup Negated(V \ P) : P \in SUBSET V}
Satisfies(a, F) == \A c \in F : c \cap a # {}
Models(F) == {a \in Assignments(Vars) : Satisfies(a, F)}

\* What the assignments in A say about the variables in S.
On(A, S) == {{l \in a : VarOf(l) \in S} : a \in A}
=============================================================================
