-------------------------- MODULE InprocessingSteps --------------------------
(***************************************************************************)
(* The invariant of simplification between conflicts, and its proof for    *)
(* every step but those of elimination, which InprocessingProofs adds.     *)
(*                                                                         *)
(* The invariant, Inv, says what must hold between any two steps:          *)
(*   Base     units are consistent, clauses have two literals or more, over*)
(*            variables the solver has, and are true or have two open ones;*)
(*   Meaning  what was given implies all that is held, and the stack       *)
(*            reconstructs, also when any set of entries closed under      *)
(*            tainting is taken back;                                      *)
(*   Planned  elimination works on clauses that are not true;              *)
(*   Working  what the running procedure has in progress.                  *)
(* First what literals, propagation and the stack do, then a lemma for     *)
(* each step.                                                              *)
(***************************************************************************)
EXTENDS Inprocessing, FiniteSetTheorems, SequenceTheorems, WellFoundedInduction, TLAPS

-----------------------------------------------------------------------------
(* Literals, assignments and what they satisfy.                            *)

USE MaxVarAssumption

\* Negation and variable of a literal.
LEMMA LitFacts ==
  ASSUME NEW l \in Lits
  PROVE  /\ l \in Int /\ -l \in Lits /\ -(-l) = l /\ l # -l
         /\ VarOf(l) \in Vars /\ VarOf(-l) = VarOf(l)
         /\ l = VarOf(l) \/ l = -VarOf(l)
BY DEF Lits, Vars, VarOf

\* A variable and its negation are literals.
LEMMA VarsAreLits ==
  ASSUME NEW v \in Vars
  PROVE  v \in Lits /\ -v \in Lits /\ VarOf(v) = v /\ v \in Int
BY DEF Lits, Vars, VarOf

\* Literals of one variable are equal or opposite.
LEMMA SameVar ==
  ASSUME NEW l \in Lits, NEW m \in Lits, VarOf(l) = VarOf(m)
  PROVE  m = l \/ m = -l
BY DEF Lits, Vars, VarOf

\* A literal is in the negated set when its negation is in the set.
LEMMA NegatedFacts ==
  ASSUME NEW S, S \subseteq Lits
  PROVE  /\ Negated(S) \subseteq Lits
         /\ \A l \in Lits : l \in Negated(S) <=> -l \in S
<1>1. \A l \in Lits : -l \in Lits /\ -(-l) = l
  BY LitFacts
<1> QED BY <1>1 DEF Negated

\* A set has the variable of a literal when it has the literal or its negation.
LEMMA VarsOfFacts ==
  ASSUME NEW S, S \subseteq Lits, NEW l \in Lits
  PROVE  VarOf(l) \in VarsOf(S) <=> l \in S \/ -l \in S
<1>1. ASSUME l \in S \/ -l \in S  PROVE VarOf(l) \in VarsOf(S)
  BY <1>1, LitFacts DEF VarsOf
<1>2. ASSUME VarOf(l) \in VarsOf(S)  PROVE l \in S \/ -l \in S
  <2>1. PICK m \in S : VarOf(l) = VarOf(m)
    BY <1>2 DEF VarsOf
  <2> QED BY <2>1, SameVar
<1> QED BY <1>1, <1>2

\* There are finitely many literals, MaxVar of them positive.
LEMMA FiniteLits ==
  IsFiniteSet(Lits) /\ IsFiniteSet(Vars) /\ Cardinality(Vars) = MaxVar
<1>1. IsFiniteSet(Vars) /\ Cardinality(Vars) = MaxVar
  BY FS_Interval DEF Vars
<1>2. IsFiniteSet((-MaxVar) .. MaxVar)
  BY FS_Interval
<1>3. Lits \subseteq (-MaxVar) .. MaxVar
  BY DEF Lits, Vars
<1> QED BY <1>1, <1>2, <1>3, FS_Subset

\* A set of literals is finite; it is a singleton, or empty, by its size.
LEMMA Singletons ==
  ASSUME NEW S, S \subseteq Lits
  PROVE  /\ IsFiniteSet(S) /\ Cardinality(S) \in Nat
         /\ Cardinality(S) = 1 <=> \E x \in S : S = {x}
         /\ Cardinality(S) = 0 <=> S = {}
<1>1. IsFiniteSet(S)
  BY FiniteLits, FS_Subset
<1>2. (Cardinality(S) = 1) <=> \E x \in S : S = {x}
  BY <1>1, FS_Singleton
<1>3. (Cardinality(S) = 0) <=> S = {}
  BY <1>1, FS_EmptySet
<1>4. Cardinality(S) \in Nat
  BY <1>1, FS_CardinalityType
<1> QED BY <1>1, <1>2, <1>3, <1>4

\* At least two literals.
LEMMA TwoOrMore ==
  ASSUME NEW S, S \subseteq Lits
  PROVE  Cardinality(S) >= 2 <=> \E x, y \in S : x # y
<1>1. Cardinality(S) \in Nat /\ (Cardinality(S) = 1 <=> \E x \in S : S = {x})
      /\ (Cardinality(S) = 0 <=> S = {})
  BY Singletons
<1>2. (\E x, y \in S : x # y) <=> (S # {} /\ ~ \E x \in S : S = {x})
  OBVIOUS
<1>3. Cardinality(S) >= 2 <=> Cardinality(S) # 0 /\ Cardinality(S) # 1
  BY <1>1
<1> QED BY <1>1, <1>2, <1>3

\* One literal of every variable.
Total(a) == a \subseteq Lits /\ \A l \in Lits : -l \in a <=> l \notin a

\* Assignments to all variables are the total sets of literals.
LEMMA AssignmentsTotal ==
  ASSUME NEW a
  PROVE  a \in Assignments(Vars) <=> Total(a)
<1>1. ASSUME a \in Assignments(Vars)  PROVE Total(a)
  <2>1. PICK P \in SUBSET Vars : a = P \cup Negated(Vars \ P)
    BY <1>1 DEF Assignments
  <2>2. a \subseteq Lits
    BY <2>1, VarsAreLits DEF Negated
  <2>3. ASSUME NEW l \in Lits  PROVE -l \in a <=> l \notin a
    <3>1. \A v \in Vars : v \in Nat \ {0}
      BY DEF Vars
    <3>2. CASE l \in Vars
      <4>1. l \in a <=> l \in P
        BY <2>1, <3>1, <3>2 DEF Negated
      <4>2. -l \in a <=> l \notin P
        BY <2>1, <3>1, <3>2 DEF Negated
      <4> QED BY <4>1, <4>2
    <3>3. CASE l \notin Vars
      <4>1. PICK v \in Vars : l = -v
        BY <3>3 DEF Lits
      <4>2. -l = v
        BY <4>1, <3>1
      <4>3. v \in a <=> v \in P
        BY <2>1, <3>1 DEF Negated
      <4>4. -v \in a <=> v \notin P
        BY <2>1, <3>1 DEF Negated
      <4> QED BY <4>1, <4>2, <4>3, <4>4
    <3> QED BY <3>2, <3>3
  <2> QED BY <2>2, <2>3 DEF Total
<1>2. ASSUME Total(a)  PROVE a \in Assignments(Vars)
  <2> DEFINE P == a \cap Vars
  <2>1. a = P \cup Negated(Vars \ P)
    <3>1. ASSUME NEW l \in a  PROVE l \in P \cup Negated(Vars \ P)
      <4>1. l \in Lits /\ -l \notin a /\ -(-l) = l
        BY <1>2, LitFacts DEF Total
      <4>2. CASE l \in Vars
        BY <4>2
      <4>3. CASE l \notin Vars
        <5>1. PICK v \in Vars : l = -v
          BY <4>1, <4>3 DEF Lits
        <5>2. v \notin a
          BY <5>1, <4>1, VarsAreLits
        <5> QED BY <5>1, <5>2 DEF Negated
      <4> QED BY <4>2, <4>3
    <3>2. ASSUME NEW l \in P \cup Negated(Vars \ P)  PROVE l \in a
      <4>1. CASE l \in P
        BY <4>1
      <4>2. CASE l \in Negated(Vars \ P)
        <5>1. PICK v \in Vars \ P : l = -v
          BY <4>2 DEF Negated
        <5> QED BY <5>1, <1>2, VarsAreLits DEF Total
      <4> QED BY <4>1, <4>2
    <3> QED BY <3>1, <3>2
  <2> QED BY <2>1 DEF Assignments
<1> QED BY <1>1, <1>2

\* Models are the total assignments that satisfy the clauses.
LEMMA ModelsTotal ==
  ASSUME NEW F, NEW a
  PROVE  a \in Models(F) <=> Total(a) /\ Satisfies(a, F)
BY AssignmentsTotal DEF Models

-----------------------------------------------------------------------------
(* Propagation computes the least closed set.                              *)

Closed(F, U) == Forced(F, U) \subseteq U
Least(F, T) == {l \in Lits : \A U \in SUBSET Lits : T \subseteq U /\ Closed(F, U) => l \in U}

\* What is forced stays forced as more becomes true: a clause with no open literal
\* left contributes all of its literals.
LEMMA ForcedMonotone ==
  ASSUME NEW F, F \subseteq SUBSET Lits, NEW T, NEW U, T \subseteq U
  PROVE  Forced(F, T) \subseteq Forced(F, U)
<1>1. ASSUME NEW c \in F, NEW l \in ForcedBy(c, T)  PROVE l \in ForcedBy(c, U)
  <2> DEFINE S == {k \in c : -k \notin T}
             V == {k \in c : -k \notin U}
  <2>1. V \subseteq S /\ S \subseteq c /\ c \subseteq Lits
    OBVIOUS
  <2>2. CASE S = {}
    <3>1. V = {} /\ l \in c
      BY <2>1, <2>2, <1>1 DEF ForcedBy
    <3> QED BY <3>1 DEF ForcedBy
  <2>3. CASE S # {}
    <3>1. Cardinality(S) = 1 /\ l \in S
      BY <2>3, <1>1 DEF ForcedBy
    <3>2. S = {l}
      <4> HIDE DEF S, V
      <4>1. \E x \in S : S = {x}
        BY <3>1, <2>1, Singletons
      <4> QED BY <4>1, <3>1
    <3>3. V = {} \/ V = S
      BY <3>2, <2>1
    <3>4. CASE V = {}
      BY <3>4, <3>1, <2>1 DEF ForcedBy
    <3>5. CASE V = S
      BY <3>5, <3>1, <2>3 DEF ForcedBy
    <3> QED BY <3>3, <3>4, <3>5
  <2> QED BY <2>2, <2>3
<1> QED BY <1>1 DEF Forced

\* Only literals are forced.
LEMMA ForcedLits ==
  ASSUME NEW F, F \subseteq SUBSET Lits, NEW T
  PROVE  Forced(F, T) \subseteq Lits
<1>1. ASSUME NEW c \in F  PROVE ForcedBy(c, T) \subseteq Lits
  <2> DEFINE S == {k \in c : -k \notin T}
  <2>1. ForcedBy(c, T) = c \/ ForcedBy(c, T) = S \/ ForcedBy(c, T) = {}
    BY DEF ForcedBy
  <2> QED BY <2>1
<1> QED BY <1>1 DEF Forced

\* The least closed set exists: it contains T, is closed, and is below all others.
LEMMA LeastClosed ==
  ASSUME NEW F, F \subseteq SUBSET Lits, NEW T, T \subseteq Lits
  PROVE  /\ Least(F, T) \subseteq Lits /\ T \subseteq Least(F, T) /\ Closed(F, Least(F, T))
         /\ \A U \in SUBSET Lits : T \subseteq U /\ Closed(F, U) => Least(F, T) \subseteq U
<1>1. \A U \in SUBSET Lits : T \subseteq U /\ Closed(F, U) => Least(F, T) \subseteq U
  BY DEF Least
<1>2. Closed(F, Least(F, T))
  <2>1. ASSUME NEW l \in Forced(F, Least(F, T)), NEW U \in SUBSET Lits, T \subseteq U, Closed(F, U)
        PROVE  l \in U
    <3>1. Least(F, T) \subseteq U
      BY <1>1, <2>1
    <3>2. Forced(F, Least(F, T)) \subseteq Forced(F, U)
      BY <3>1, ForcedMonotone
    <3> QED BY <3>2, <2>1 DEF Closed
  <2> QED BY <2>1, ForcedLits DEF Closed, Least
<1> QED BY <1>1, <1>2 DEF Least

\* One round of propagation does not change the least closed set.
LEMMA LeastAgain ==
  ASSUME NEW F, F \subseteq SUBSET Lits, NEW T, T \subseteq Lits
  PROVE  /\ Closed(F, T) => Least(F, T) = T
         /\ Least(F, T \cup Forced(F, T)) = Least(F, T)
<1>1. Closed(F, T) => Least(F, T) = T
  BY LeastClosed
<1>2. T \cup Forced(F, T) \subseteq Lits
  BY ForcedLits
<1>3. Least(F, T) \subseteq Least(F, T \cup Forced(F, T))
  <2>1. T \subseteq Least(F, T \cup Forced(F, T)) /\ Closed(F, Least(F, T \cup Forced(F, T)))
        /\ Least(F, T \cup Forced(F, T)) \in SUBSET Lits
    BY <1>2, LeastClosed
  <2>2. PICK U : U = Least(F, T \cup Forced(F, T))
    OBVIOUS
  <2>3. T \subseteq U /\ Closed(F, U) /\ U \in SUBSET Lits
    BY <2>1, <2>2
  <2>4. Least(F, T) \subseteq U
    BY <2>3, LeastClosed
  <2> QED BY <2>2, <2>4
<1>4. Least(F, T \cup Forced(F, T)) \subseteq Least(F, T)
  <2>1. T \subseteq Least(F, T) /\ Closed(F, Least(F, T)) /\ Least(F, T) \in SUBSET Lits
    BY LeastClosed
  <2>2. Forced(F, T) \subseteq Least(F, T)
    BY <2>1, ForcedMonotone DEF Closed
  <2> QED BY <2>1, <2>2, <1>2, LeastClosed
<1> QED BY <1>1, <1>3, <1>4

\* Propagation ends, in the least set that contains T and is closed.
LEMMA PropagationLeast ==
  ASSUME NEW F, F \subseteq SUBSET Lits, NEW T, T \subseteq Lits
  PROVE  Propagation(F, T) = Least(F, T)
<1> DEFINE close[U \in SUBSET Lits] ==
             LET more == Forced(F, U) IN IF more \subseteq U THEN U ELSE close[U \cup more]
           step(f, U) == IF Forced(F, U) \subseteq U THEN U ELSE f[U \cup Forced(F, U)]
           least == [U \in SUBSET Lits |-> Least(F, U)]
<1>1. \A U \in SUBSET Lits : U \cup Forced(F, U) \in SUBSET Lits
  BY ForcedLits
<1>2. least = [U \in SUBSET Lits |-> step(least, U)]
  <2>1. ASSUME NEW U \in SUBSET Lits  PROVE Least(F, U) = step(least, U)
    BY <1>1, LeastAgain DEF Closed
  <2> QED BY <2>1
<1>3. close = [U \in SUBSET Lits |-> step(close, U)]
  <2>1. close = CHOOSE f : f = [U \in SUBSET Lits |-> step(f, U)]
    OBVIOUS
  <2> QED BY <1>2, <2>1, Zenon
<1> HIDE DEF close
<1> DEFINE B == {U \in SUBSET Lits : close[U] # Least(F, U)}
<1>4. ASSUME B # {}  PROVE FALSE
  <2> DEFINE W == {Lits \ U : U \in B}
             R == StrictSubsetOrdering(Lits)
  <2>1. W \subseteq FiniteSubsetsOf(Lits) /\ W # {}
    <3>1. FiniteSubsetsOf(Lits) = SUBSET Lits
      BY FiniteLits, FS_FiniteSubsetsOfFinite
    <3>2. W # {}
      <4>1. PICK U : U \in B
        BY <1>4
      <4>2. Lits \ U \in W
        BY <4>1
      <4> QED BY <4>2
    <3>3. \A w \in W : w \in SUBSET Lits
      OBVIOUS
    <3> HIDE DEF W
    <3> QED BY <3>1, <3>2, <3>3
  <2>2. IsWellFoundedOn(R, FiniteSubsetsOf(Lits))
    BY FS_StrictSubsetOrderingWellFounded
  <2>3. PICK w \in W : \A y \in W : ~(<<y, w>> \in R)
    <3> HIDE DEF W, R
    <3> QED BY <2>1, <2>2, WFMin
  <2>4. PICK U \in B : w = Lits \ U
    OBVIOUS
  <2> DEFINE V == U \cup Forced(F, U)
  <2>5. U \in SUBSET Lits /\ close[U] # Least(F, U) /\ V \in SUBSET Lits
    BY <1>1
  <2>6. ~(Forced(F, U) \subseteq U)
    BY <2>5, <1>3, LeastAgain DEF Closed
  <2>7. V \notin B
    <3>1. Lits \ V \subseteq Lits \ U /\ Lits \ V # Lits \ U
      BY <2>6, <2>5
    <3>2. <<Lits \ V, Lits \ U>> \in R
      BY <3>1 DEF StrictSubsetOrdering
    <3> QED BY <3>2, <2>3, <2>4
  <2>8. close[V] = Least(F, V)
    BY <2>5, <2>7
  <2> QED BY <2>5, <2>6, <2>8, <1>3, LeastAgain
<1>5. close[T] = Least(F, T)
  BY <1>4
<1> QED BY <1>5 DEF Propagation, close

\* What propagation returns: the start, closed, and nothing more than that needs.
LEMMA PropagationFacts ==
  ASSUME NEW F, F \subseteq SUBSET Lits, NEW T, T \subseteq Lits
  PROVE  /\ Propagation(F, T) \subseteq Lits /\ T \subseteq Propagation(F, T)
         /\ Closed(F, Propagation(F, T))
         /\ \A U \in SUBSET Lits : T \subseteq U /\ Closed(F, U) => Propagation(F, T) \subseteq U
BY PropagationLeast, LeastClosed

\* A clause met by a closed set that contradicts nothing has a literal in it or
\* two literals it leaves open.
LEMMA ClosedClause ==
  ASSUME NEW F, F \subseteq SUBSET Lits, NEW T, T \subseteq Lits, Closed(F, T),
         ~Inconsistent(T), NEW c \in F, c # {}
  PROVE  c \cap T # {} \/ Cardinality({l \in c : -l \notin T}) >= 2
<1> DEFINE S == {l \in c : -l \notin T}
<1>1. ForcedBy(c, T) \subseteq T
  BY DEF Closed, Forced
<1>2. S \subseteq Lits
  OBVIOUS
<1>3. CASE S = {}
  <2>1. c \subseteq T
    BY <1>1, <1>3 DEF ForcedBy
  <2> QED BY <2>1
<1>4. CASE Cardinality(S) = 1
  <2>1. PICK x \in S : S = {x}
    <3> HIDE DEF S
    <3> QED BY <1>2, <1>4, Singletons
  <2>2. S # {}
    BY <2>1
  <2>3. S \subseteq T
    BY <1>1, <1>4, <2>2 DEF ForcedBy
  <2> QED BY <2>1, <2>3
<1>5. CASE S # {} /\ Cardinality(S) # 1
  <2> HIDE DEF S
  <2>1. Cardinality(S) \in Nat /\ Cardinality(S) # 0
    BY <1>2, <1>5, Singletons
  <2>2. Cardinality(S) >= 2
    BY <2>1, <1>5
  <2> QED BY <2>2 DEF S
<1> QED BY <1>3, <1>4, <1>5

\* Propagation is sound: it stays inside every assignment that satisfies the
\* clauses and agrees with where it starts.
LEMMA ModelClosed ==
  ASSUME NEW F, F \subseteq SUBSET Lits, NEW a, Total(a), Satisfies(a, F), NEW T, T \subseteq a
  PROVE  Forced(F, T) \subseteq a
<1>1. ASSUME NEW c \in F, NEW l \in ForcedBy(c, T)  PROVE l \in a
  <2> DEFINE S == {k \in c : -k \notin T}
  <2>1. PICK m \in c : m \in a
    BY DEF Satisfies
  <2>2. m \in Lits /\ -m \notin a
    BY <2>1 DEF Total
  <2>3. m \in S
    BY <2>2
  <2>4. S # {} /\ Cardinality(S) = 1 /\ l \in S
    BY <2>3, <1>1 DEF ForcedBy
  <2>5. S = {m}
    <3>1. S \subseteq Lits
      OBVIOUS
    <3> HIDE DEF S
    <3>2. PICK x \in S : S = {x}
      BY <3>1, <2>4, Singletons
    <3> QED BY <3>2, <2>3
  <2> QED BY <2>4, <2>5, <2>1
<1> QED BY <1>1 DEF Forced

\* Propagation stays within every model that contains what it starts from.
LEMMA PropagationSound ==
  ASSUME NEW F, F \subseteq SUBSET Lits, NEW a, Total(a), Satisfies(a, F), NEW T, T \subseteq a
  PROVE  Propagation(F, T) \subseteq a
<1>1. Closed(F, a)
  BY ModelClosed DEF Closed
<1>2. a \in SUBSET Lits /\ T \subseteq Lits
  BY DEF Total
<1> QED BY <1>1, <1>2, PropagationFacts

\* Nothing below an assignment contradicts itself.
LEMMA TotalConsistent ==
  ASSUME NEW a, Total(a), NEW T, T \subseteq a
  PROVE  ~Inconsistent(T)
BY DEF Total, Inconsistent

\* What propagation refutes no model contains.
LEMMA RefutedSound ==
  ASSUME NEW F, F \subseteq SUBSET Lits, NEW T, Refuted(F, T),
         NEW a, Total(a), Satisfies(a, F), T \subseteq a
  PROVE  FALSE
BY PropagationSound, TotalConsistent DEF Refuted

-----------------------------------------------------------------------------
(* Functions defined by recursion on an interval.                          *)

\* A set of naturals that is not empty has a least element.
LEMMA LeastNat ==
  ASSUME NEW T, T \subseteq Nat, T # {}
  PROVE  \E n \in T : \A m \in T : n <= m
<1>1. PICK n \in T : \A m \in T : ~(<<m, n>> \in OpToRel(<, Nat))
  BY NatLessThanWellFounded, WFMin
<1>2. ASSUME NEW m \in T, ~(n <= m)  PROVE FALSE
  <2>1. m < n
    BY <1>2
  <2>2. <<m, n>> \in {ss \in Nat \X Nat : ss[1] < ss[2]}
    BY <2>1
  <2>3. <<m, n>> \in OpToRel(<, Nat)
    BY <2>2, Zenon DEF OpToRel
  <2> QED BY <1>1, <2>3
<1> QED BY <1>2

\* A base and a step for every number give a function.
LEMMA FiniteRecursion ==
  ASSUME NEW S, NEW b \in S, NEW N \in Nat, NEW g \in [1 .. N -> [S -> S]]
  PROVE  \E f \in [0 .. N -> S] : f[0] = b /\ \A n \in 1 .. N : f[n] = g[n][f[n - 1]]
<1> DEFINE Upto(k, f) == f[0] = b /\ \A n \in 1 .. k : f[n] = g[n][f[n - 1]]
           Bad == {k \in 0 .. N : ~ \E f \in [0 .. k -> S] : Upto(k, f)}
<1>1. ASSUME Bad # {}  PROVE FALSE
  <2>1. Bad \subseteq Nat
    OBVIOUS
  <2>2. PICK k \in Bad : \A m \in Bad : k <= m
    <3> HIDE DEF Bad
    <3> QED BY <1>1, <2>1, LeastNat
  <2>3. k \in 0 .. N /\ ~ \E f \in [0 .. k -> S] : Upto(k, f)
    BY <2>2
  <2>4. CASE k = 0
    <3> DEFINE f == [n \in 0 .. 0 |-> b]
    <3>1. f \in [0 .. 0 -> S] /\ Upto(0, f)
      OBVIOUS
    <3> QED BY <3>1, <2>4, <2>3
  <2>5. CASE k # 0
    <3>1. k - 1 \in 0 .. N /\ k - 1 < k /\ k \in 1 .. N
      BY <2>3, <2>5
    <3>2. k - 1 \notin Bad
      <4> HIDE DEF Bad
      <4>1. k \in Nat /\ ~(k <= k - 1)
        BY <3>1
      <4> QED BY <4>1, <2>2
    <3>3. PICK h \in [0 .. (k - 1) -> S] : Upto(k - 1, h)
      BY <3>1, <3>2
    <3> DEFINE f == [n \in 0 .. k |-> IF n = k THEN g[k][h[k - 1]] ELSE h[n]]
    <3>4. g[k][h[k - 1]] \in S
      BY <3>1, <3>3
    <3>5. f \in [0 .. k -> S]
      BY <3>1, <3>3, <3>4
    <3>6. f[0] = b
      BY <3>1, <3>3
    <3>7. ASSUME NEW n \in 1 .. k  PROVE f[n] = g[n][f[n - 1]]
      <4>1. CASE n = k
        BY <4>1, <3>1
      <4>2. CASE n # k
        <5>1. n \in 1 .. (k - 1) /\ n \in 0 .. k /\ n - 1 \in 0 .. k /\ n - 1 # k
          BY <4>2, <3>1
        <5>2. h[n] = g[n][h[n - 1]]
          BY <5>1, <3>3
        <5> QED BY <5>1, <5>2, <4>2
      <4> QED BY <4>1, <4>2
    <3>8. Upto(k, f)
      BY <3>6, <3>7
    <3> QED BY <3>5, <3>8, <2>3
  <2> QED BY <2>4, <2>5
<1>2. N \in 0 .. N /\ N \notin Bad
  <2>1. N \in 0 .. N
    OBVIOUS
  <2> HIDE DEF Bad
  <2> QED BY <2>1, <1>1
<1>3. \E f \in [0 .. N -> S] : Upto(N, f)
  BY <1>2
<1> QED BY <1>3

-----------------------------------------------------------------------------
(* The extension stack: what it makes of an assignment.                    *)

EntrySet == [witness : SUBSET Lits, clause : SUBSET Lits]
Flip(a, w) == (a \ Negated(w)) \cup w
Mended(e, a) == IF e.clause \cap a # {} THEN a ELSE Flip(a, e.witness)

\* The assignments after each entry, the newest first; those in R are skipped.
Chain(st, R, v) ==
  /\ v \in [0 .. Len(st) -> SUBSET Lits]
  /\ \A j \in 1 .. Len(st) : v[j - 1] = IF j \in R THEN v[j] ELSE Mended(st[j], v[j])

\* Entries that are restored together: with a clause go all newer entries whose
\* witness has its negation in that clause.
TaintClosed(st, R) ==
  /\ R \subseteq 1 .. Len(st)
  /\ \A i \in R : \A j \in 1 .. Len(st) :
       i < j /\ Negated(st[j].witness) \cap st[i].clause # {} => j \in R

\* From an assignment in A that satisfies the clauses of the entries in R the
\* others make one that satisfies G.
Reconstructs(A, st, G) ==
  \A R, v : TaintClosed(st, R) /\ Chain(st, R, v) /\ v[Len(st)] \in A
            /\ (\A i \in R : st[i].clause \cap v[Len(st)] # {})
            => Satisfies(v[0], G)

\* A stack that reconstructs from a set does so from every part of it.
LEMMA ReconstructsLess ==
  ASSUME NEW A, NEW B, B \subseteq A, NEW st, NEW G, Reconstructs(A, st, G)
  PROVE  Reconstructs(B, st, G)
BY Zenon DEF Reconstructs

\* Making a witness true leaves a set of literals.
LEMMA FlipLits ==
  ASSUME NEW a, a \subseteq Lits, NEW w, w \subseteq Lits
  PROVE  Flip(a, w) \subseteq Lits
BY DEF Flip

\* Making a consistent witness true leaves an assignment.
LEMMA FlipTotal ==
  ASSUME NEW a, Total(a), NEW w, w \subseteq Lits, ~Inconsistent(w)
  PROVE  Total(Flip(a, w))
<1>1. Flip(a, w) \subseteq Lits
  BY FlipLits DEF Total
<1>2. ASSUME NEW l \in Lits  PROVE -l \in Flip(a, w) <=> l \notin Flip(a, w)
  <2>1. -l \in Lits /\ -(-l) = l
    BY LitFacts
  <2>2. (l \in Negated(w) <=> -l \in w) /\ (-l \in Negated(w) <=> l \in w)
    BY <2>1, NegatedFacts
  <2>3. -l \in a <=> l \notin a
    BY DEF Total
  <2>4. ~(l \in w /\ -l \in w)
    BY DEF Inconsistent
  <2> QED BY <2>2, <2>3, <2>4 DEF Flip
<1> QED BY <1>1, <1>2 DEF Total

\* External::extend goes from literals to literals.
LEMMA MendedLits ==
  ASSUME NEW a \in SUBSET Lits, NEW e \in EntrySet
  PROVE  Mended(e, a) \in SUBSET Lits
<1>1. e.witness \subseteq Lits
  BY DEF EntrySet
<1> QED BY <1>1, FlipLits DEF Mended

\* Appending to the second part appends to the whole.
LEMMA ConcatAppend ==
  ASSUME NEW E, NEW s \in Seq(E), NEW t \in Seq(E), NEW e \in E
  PROVE  s \o Append(t, e) = Append(s \o t, e)
OBVIOUS

\* One more entry.
LEMMA Push ==
  ASSUME NEW st \in Seq(EntrySet), NEW e \in EntrySet, NEW A, NEW B, NEW G,
         Reconstructs(B, st, G),
         \A a \in A : Mended(e, a) \in B
  PROVE  Reconstructs(A, Append(st, e), G)
<1> DEFINE L == Len(st)
           new == Append(st, e)
<1>1. L \in Nat /\ Len(new) = L + 1 /\ new[L + 1] = e /\ \A i \in 1 .. L : new[i] = st[i]
  OBVIOUS
<1> SUFFICES ASSUME NEW R, NEW v, TaintClosed(new, R), Chain(new, R, v), v[L + 1] \in A,
                    \A i \in R : new[i].clause \cap v[L + 1] # {}
             PROVE  Satisfies(v[0], G)
  BY <1>1, Zenon DEF Reconstructs
<1> DEFINE a == v[L + 1]
           Q == R \ {L + 1}
           u == [j \in 0 .. L |-> v[j]]
<1> HIDE DEF L, new
<1>2. v \in [0 .. (L + 1) -> SUBSET Lits]
      /\ \A j \in 1 .. (L + 1) : v[j - 1] = IF j \in R THEN v[j] ELSE Mended(new[j], v[j])
  BY <1>1 DEF Chain
<1>3. R \subseteq 1 .. (L + 1)
      /\ \A i \in R : \A j \in 1 .. (L + 1) :
           i < j /\ Negated(new[j].witness) \cap new[i].clause # {} => j \in R
  BY <1>1 DEF TaintClosed
<1>4. Q \subseteq 1 .. L
  BY <1>3, <1>1
<1>5. TaintClosed(st, Q)
  <2>1. ASSUME NEW i \in Q, NEW j \in 1 .. L, i < j,
               Negated(st[j].witness) \cap st[i].clause # {}
        PROVE  j \in Q
    <3>1. i \in R /\ i \in 1 .. L /\ j \in 1 .. (L + 1) /\ j # L + 1
      BY <1>1, <1>4
    <3>2. new[i] = st[i] /\ new[j] = st[j]
      BY <1>1, <3>1
    <3>3. Negated(new[j].witness) \cap new[i].clause # {}
      BY <3>2, <2>1
    <3>4. j \in R
      BY <3>1, <3>3, <2>1, <1>3
    <3> QED BY <3>4, <3>1
  <2> QED BY <2>1, <1>4 DEF TaintClosed, L
<1>6. u \in [0 .. L -> SUBSET Lits] /\ u[L] = v[L] /\ u[0] = v[0]
  BY <1>1, <1>2
<1>7. Chain(st, Q, u)
  <2>1. ASSUME NEW j \in 1 .. L
        PROVE  u[j - 1] = IF j \in Q THEN u[j] ELSE Mended(st[j], u[j])
    <3>1. j \in 1 .. (L + 1) /\ j # L + 1 /\ j \in 0 .. L /\ j - 1 \in 0 .. L
      BY <1>1
    <3>2. u[j] = v[j] /\ u[j - 1] = v[j - 1]
      BY <3>1
    <3>3. new[j] = st[j] /\ (j \in Q <=> j \in R)
      BY <1>1, <3>1
    <3>4. v[j - 1] = IF j \in R THEN v[j] ELSE Mended(new[j], v[j])
      BY <1>2, <3>1
    <3> QED BY <3>2, <3>3, <3>4
  <2> QED BY <2>1, <1>6 DEF Chain, L
<1>8. L + 1 \in 1 .. (L + 1) /\ (L + 1) - 1 = L
  BY <1>1
<1>9. v[L] = IF L + 1 \in R THEN a ELSE Mended(e, a)
  BY <1>1, <1>2, <1>8
<1>10. CASE L + 1 \in R
  <2>1. e.clause \cap a # {}
    BY <1>10, <1>1
  <2>2. v[L] = a /\ a = Mended(e, a)
    BY <1>9, <1>10, <2>1 DEF Mended
  <2>3. u[L] \in B
    BY <2>2, <1>6
  <2>4. \A i \in Q : st[i].clause \cap u[L] # {}
    <3>1. ASSUME NEW i \in Q  PROVE st[i].clause \cap u[L] # {}
      <4>1. i \in R /\ new[i] = st[i]
        BY <1>4, <1>1
      <4> QED BY <4>1, <2>2, <1>6
    <3> QED BY <3>1
  <2> QED BY <2>3, <2>4, <1>5, <1>6, <1>7, Zenon DEF Reconstructs, L
<1>11. CASE L + 1 \notin R
  <2>1. v[L] = Mended(e, a)
    BY <1>9, <1>11
  <2>2. u[L] \in B
    BY <2>1, <1>6
  <2>3. \A i \in Q : st[i].clause \cap u[L] # {}
    <3>1. ASSUME NEW i \in Q  PROVE st[i].clause \cap u[L] # {}
      <4>1. i \in R /\ new[i] = st[i] /\ i < L + 1
        BY <1>4, <1>1
      <4>2. PICK m : m \in st[i].clause /\ m \in a
        BY <4>1
      <4>3. Negated(e.witness) \cap st[i].clause = {}
        BY <4>1, <1>1, <1>3, <1>8, <1>11
      <4>4. m \in Mended(e, a)
        BY <4>2, <4>3 DEF Mended, Flip
      <4> QED BY <4>2, <4>4, <2>1, <1>6
    <3> QED BY <3>1
  <2> QED BY <2>2, <2>3, <1>5, <1>6, <1>7, Zenon DEF Reconstructs, L
<1> QED BY <1>10, <1>11

\* A sequence of entries, with the assignments each of them leaves.
LEMMA PushAll ==
  ASSUME NEW st \in Seq(EntrySet), NEW es \in Seq(EntrySet), NEW G, NEW A,
         Reconstructs(A[0], st, G),
         \A k \in 1 .. Len(es) : \A a \in A[k] : Mended(es[k], a) \in A[k - 1]
  PROVE  Reconstructs(A[Len(es)], st \o es, G)
<1> DEFINE Upto(k) == st \o SubSeq(es, 1, k)
           Bad == {k \in 0 .. Len(es) : ~Reconstructs(A[k], Upto(k), G)}
<1>1. ASSUME Bad # {}  PROVE FALSE
  <2>1. Bad \subseteq Nat
    OBVIOUS
  <2>2. PICK k \in Bad : \A m \in Bad : k <= m
    <3> HIDE DEF Bad
    <3> QED BY <1>1, <2>1, LeastNat
  <2>3. k \in 0 .. Len(es) /\ ~Reconstructs(A[k], Upto(k), G)
    BY <2>2
  <2>4. k # 0
    <3>1. Upto(0) = st
      OBVIOUS
    <3> QED BY <3>1, <2>3
  <2>5. k \in 1 .. Len(es) /\ k - 1 \in 0 .. Len(es) /\ ~(k <= k - 1)
    BY <2>3, <2>4
  <2>6. Reconstructs(A[k - 1], Upto(k - 1), G)
    <3>1. k - 1 \notin Bad
      <4> HIDE DEF Bad
      <4> QED BY <2>2, <2>5
    <3> QED BY <3>1, <2>5
  <2>7. es[k] \in EntrySet
    BY <2>5, ElementOfSeq
  <2>8. SubSeq(es, 1, k) = Append(SubSeq(es, 1, k - 1), es[k])
    BY <2>5
  <2>9. Upto(k) = Append(Upto(k - 1), es[k])
    <3>1. PICK u, e : u = SubSeq(es, 1, k - 1) /\ e = es[k]
      OBVIOUS
    <3>2. u \in Seq(EntrySet)
      BY <2>5, <3>1
    <3>3. st \o Append(u, e) = Append(st \o u, e)
      BY <2>7, <3>1, <3>2, ConcatAppend
    <3> QED BY <2>8, <3>1, <3>3
  <2>10. Upto(k - 1) \in Seq(EntrySet)
    BY <2>5
  <2>11. \A a \in A[k] : Mended(es[k], a) \in A[k - 1]
    BY <2>5
  <2> HIDE DEF Upto, Bad
  <2>12. Reconstructs(A[k], Append(Upto(k - 1), es[k]), G)
    BY <2>6, <2>7, <2>10, <2>11, Push
  <2> QED BY <2>12, <2>9, <2>3
<1>2. Len(es) \in 0 .. Len(es)
  OBVIOUS
<1>3. Reconstructs(A[Len(es)], Upto(Len(es)), G)
  <2>1. Len(es) \notin Bad
    <3> HIDE DEF Bad
    <3> QED BY <1>1, <1>2
  <2> QED BY <2>1, <1>2
<1>4. Upto(Len(es)) = st \o es
  OBVIOUS
<1> QED BY <1>3, <1>4

\* A literal of M that holds at first holds in the end when no witness used
\* contradicts one.
LEMMA ChainKeeps ==
  ASSUME NEW st \in Seq(EntrySet), NEW R, NEW v, Chain(st, R, v), NEW M,
         \A j \in 1 .. Len(st) : j \notin R => Negated(st[j].witness) \cap M = {}
  PROVE  v[Len(st)] \cap M \subseteq v[0]
<1> DEFINE L == Len(st)
           Bad == {n \in 0 .. L : ~(v[L] \cap M \subseteq v[L - n])}
<1>1. L \in Nat /\ \A j \in 1 .. L : v[j - 1] = IF j \in R THEN v[j] ELSE Mended(st[j], v[j])
  BY DEF Chain
<1>2. ASSUME Bad # {}  PROVE FALSE
  <2>1. Bad \subseteq Nat
    OBVIOUS
  <2>2. PICK n \in Bad : \A m \in Bad : n <= m
    <3> HIDE DEF Bad
    <3> QED BY <1>2, <2>1, LeastNat
  <2>3. n \in 0 .. L /\ ~(v[L] \cap M \subseteq v[L - n])
    BY <2>2
  <2> HIDE DEF L
  <2>4. n # 0
    <3>1. L - 0 = L
      BY <1>1
    <3> QED BY <3>1, <2>3
  <2> DEFINE j == L - n + 1
  <2>5. j \in 1 .. L /\ j - 1 = L - n /\ n - 1 \in 0 .. L /\ L - (n - 1) = j /\ ~(n <= n - 1)
    BY <1>1, <2>3, <2>4
  <2>6. v[L] \cap M \subseteq v[j]
    <3>1. n - 1 \notin Bad
      <4> HIDE DEF Bad, j
      <4> QED BY <2>2, <2>5
    <3>2. L - (n - 1) = j /\ n - 1 \in 0 .. L
      BY <2>5
    <3> HIDE DEF j
    <3> QED BY <3>1, <3>2
  <2> HIDE DEF j, Bad
  <2>7. v[L - n] = IF j \in R THEN v[j] ELSE Mended(st[j], v[j])
    BY <1>1, <2>5
  <2>8. j \notin R => Negated(st[j].witness) \cap M = {}
    BY <2>5 DEF L
  <2>9. v[L] \cap M \subseteq v[L - n]
    BY <2>6, <2>7, <2>8 DEF Mended, Flip
  <2> QED BY <2>9, <2>3
<1>3. L \in 0 .. L /\ L - L = 0
  BY <1>1
<1>4. L \notin Bad
  <2> HIDE DEF Bad, L
  <2> QED BY <1>2
<1> QED BY <1>3, <1>4

\* Where no witness contradicts itself an assignment remains one.
LEMMA ChainTotal ==
  ASSUME NEW st \in Seq(EntrySet), NEW R, NEW v, Chain(st, R, v), Total(v[Len(st)]),
         \A j \in 1 .. Len(st) : ~Inconsistent(st[j].witness)
  PROVE  Total(v[0])
<1> DEFINE L == Len(st)
           Bad == {n \in 0 .. L : ~Total(v[L - n])}
<1>1. L \in Nat /\ \A j \in 1 .. L : v[j - 1] = IF j \in R THEN v[j] ELSE Mended(st[j], v[j])
  BY DEF Chain
<1>2. ASSUME Bad # {}  PROVE FALSE
  <2>1. Bad \subseteq Nat
    OBVIOUS
  <2>2. PICK n \in Bad : \A m \in Bad : n <= m
    <3> HIDE DEF Bad
    <3> QED BY <1>2, <2>1, LeastNat
  <2>3. n \in 0 .. L /\ ~Total(v[L - n])
    BY <2>2
  <2>4. n # 0
    <3>1. L - 0 = L
      BY <1>1
    <3> QED BY <3>1, <2>3
  <2> DEFINE j == L - n + 1
  <2>5. j \in 1 .. L /\ j - 1 = L - n /\ n - 1 \in 0 .. L /\ L - (n - 1) = j /\ ~(n <= n - 1)
    BY <1>1, <2>3, <2>4
  <2>6. Total(v[j])
    <3>1. n - 1 \notin Bad
      <4> HIDE DEF Bad, j
      <4> QED BY <2>2, <2>5
    <3>2. L - (n - 1) = j /\ n - 1 \in 0 .. L
      BY <2>5
    <3> HIDE DEF j
    <3> QED BY <3>1, <3>2
  <2>7. st[j] \in EntrySet
    BY <2>5, ElementOfSeq
  <2>8. st[j].witness \subseteq Lits /\ ~Inconsistent(st[j].witness)
    BY <2>5, <2>7 DEF EntrySet
  <2> HIDE DEF j, Bad, L
  <2>9. v[L - n] = IF j \in R THEN v[j] ELSE Mended(st[j], v[j])
    BY <1>1, <2>5
  <2>10. Total(Flip(v[j], st[j].witness))
    BY <2>6, <2>8, FlipTotal
  <2>11. Total(v[L - n])
    BY <2>6, <2>9, <2>10 DEF Mended
  <2> QED BY <2>11, <2>3
<1>3. L \in 0 .. L /\ L - L = 0
  BY <1>1
<1>4. L \notin Bad
  <2> HIDE DEF Bad, L
  <2> QED BY <1>2
<1> QED BY <1>3, <1>4

\* External::extend runs down such a chain, and skips no entry.
LEMMA ExtendedChain ==
  ASSUME NEW st, st \in Seq(EntrySet), NEW a, a \in SUBSET Lits
  PROVE  \E v : Chain(st, {}, v) /\ v[Len(st)] = a /\ Extended(st, a) = v[0]
<1> DEFINE L == Len(st)
           value[j \in 0 .. Len(st)] ==
             IF j = Len(st) THEN a
             ELSE LET b == value[j + 1]
                      e == st[j + 1]
                  IN IF e.clause \cap b # {} THEN b ELSE (b \ Negated(e.witness)) \cup e.witness
           step(f, j) == IF j = Len(st) THEN a ELSE Mended(st[j + 1], f[j + 1])
           g == [n \in 1 .. L |-> [b \in SUBSET Lits |-> Mended(st[L - n + 1], b)]]
<1>1. L \in Nat
  OBVIOUS
<1>2. g \in [1 .. L -> [SUBSET Lits -> SUBSET Lits]]
  <2>1. ASSUME NEW n \in 1 .. L, NEW b \in SUBSET Lits  PROVE Mended(st[L - n + 1], b) \in SUBSET Lits
    <3>1. L - n + 1 \in 1 .. Len(st)
      OBVIOUS
    <3>2. st[L - n + 1] \in EntrySet
      BY <3>1, ElementOfSeq
    <3> QED BY <3>2, MendedLits
  <2> QED BY <2>1
<1>3. PICK h \in [0 .. L -> SUBSET Lits] :
        h[0] = a /\ \A n \in 1 .. L : h[n] = g[n][h[n - 1]]
  <2>1. PICK S, G, N, b : S = SUBSET Lits /\ G = g /\ N = L /\ b = a
    OBVIOUS
  <2> HIDE DEF g, L, value, step
  <2>2. b \in S /\ G \in [1 .. N -> [S -> S]] /\ N \in Nat
    BY <1>1, <1>2, <2>1
  <2>3. \E h \in [0 .. N -> S] : h[0] = b /\ \A n \in 1 .. N : h[n] = G[n][h[n - 1]]
    BY ONLY <2>2, FiniteRecursion
  <2> QED BY <2>1, <2>3
<1> DEFINE f == [j \in 0 .. L |-> h[L - j]]
<1>4. f = [j \in 0 .. Len(st) |-> step(f, j)]
  <2>1. ASSUME NEW j \in 0 .. L  PROVE f[j] = step(f, j)
    <3>1. CASE j = L
      <4>1. f[j] = h[0]
        BY <3>1
      <4> QED BY <4>1, <3>1, <1>3
    <3>2. CASE j # L
      <4>1. L - j \in 1 .. L /\ j + 1 \in 0 .. L /\ L - j - 1 = L - (j + 1) /\ L - (L - j) + 1 = j + 1
            /\ L - j - 1 \in 0 .. L
        BY <3>2
      <4>2. h[L - j] = g[L - j][h[L - j - 1]]
        BY <4>1, <1>3
      <4>3. h[L - j - 1] \in SUBSET Lits
        BY <4>1, <1>3
      <4>4. g[L - j][h[L - j - 1]] = Mended(st[j + 1], h[L - j - 1])
        BY <4>1, <4>3
      <4>5. f[j + 1] = h[L - j - 1] /\ f[j] = h[L - j]
        BY <4>1
      <4> HIDE DEF f, g
      <4> QED BY <4>2, <4>4, <4>5, <3>2
    <3> QED BY <3>1, <3>2
  <2> HIDE DEF step
  <2> QED BY <2>1
<1>5. value = [j \in 0 .. Len(st) |-> step(value, j)]
  <2>1. value = CHOOSE k : k = [j \in 0 .. Len(st) |-> step(k, j)]
    BY DEF Mended, Flip
  <2> HIDE DEF value, step, f
  <2> QED BY <1>4, <2>1, Zenon
<1>6. Extended(st, a) = value[0]
  BY DEF Extended
<1> HIDE DEF value
<1>7. \A j \in 0 .. L : value[j] = f[j]
  <2> DEFINE Bad == {n \in 0 .. L : value[L - n] # f[L - n]}
  <2>1. ASSUME Bad # {}  PROVE FALSE
    <3>1. Bad \subseteq Nat
      OBVIOUS
    <3>2. PICK n \in Bad : \A m \in Bad : n <= m
      <4> HIDE DEF Bad
      <4> QED BY <2>1, <3>1, LeastNat
    <3>3. n \in 0 .. L /\ value[L - n] # f[L - n]
      BY <3>2
    <3> DEFINE j == L - n
    <3>4. j \in 0 .. L
      BY <3>3, <1>1
    <3>5. value[j] = step(value, j) /\ f[j] = step(f, j)
      <4> HIDE DEF step, f, j
      <4> QED BY <3>4, <1>4, <1>5
    <3>6. CASE n = 0
      <4>1. j = Len(st)
        BY <3>6, <1>1
      <4> QED BY <4>1, <3>5, <3>3
    <3>7. CASE n # 0
      <4>1. n - 1 \in 0 .. L /\ L - (n - 1) = j + 1 /\ ~(n <= n - 1)
        BY <3>3, <3>7
      <4>2. n - 1 \notin Bad
        <5> HIDE DEF Bad
        <5> QED BY <4>1, <3>2
      <4>3. value[j + 1] = f[j + 1]
        <5> HIDE DEF f, j
        <5> QED BY <4>1, <4>2
      <4> HIDE DEF f
      <4> QED BY <4>3, <3>5, <3>3
    <3> QED BY <3>6, <3>7
  <2>2. ASSUME NEW j \in 0 .. L  PROVE value[j] = f[j]
    <3>1. L - j \in 0 .. L /\ L - (L - j) = j
      OBVIOUS
    <3>2. L - j \notin Bad
      <4> HIDE DEF Bad
      <4> QED BY <2>1
    <3> HIDE DEF f
    <3> QED BY <3>1, <3>2
  <2> HIDE DEF f
  <2> QED BY <2>2
<1>8. f \in [0 .. L -> SUBSET Lits]
  <2>1. \A j \in 0 .. L : L - j \in 0 .. L
    OBVIOUS
  <2> QED BY <2>1, <1>3
<1>9. f[Len(st)] = a
  <2>1. L \in 0 .. L /\ L - L = 0
    OBVIOUS
  <2> QED BY <2>1, <1>3
<1>10. ASSUME NEW j \in 1 .. Len(st)  PROVE f[j - 1] = Mended(st[j], f[j])
  <2>1. j - 1 \in 0 .. L /\ j - 1 # Len(st) /\ (j - 1) + 1 = j
    OBVIOUS
  <2>2. f[j - 1] = step(f, j - 1)
    <3> HIDE DEF step, f
    <3> QED BY <2>1, <1>4
  <2> HIDE DEF f
  <2> QED BY <2>1, <2>2
<1>11. Chain(st, {}, f)
  <2> HIDE DEF f
  <2> QED BY <1>8, <1>10 DEF Chain
<1>12. Extended(st, a) = f[0]
  <2>1. 0 \in 0 .. L
    BY <1>1
  <2> HIDE DEF f
  <2> QED BY <2>1, <1>6, <1>7
<1> HIDE DEF f
<1> QED BY <1>9, <1>11, <1>12

\* Entries with one witness literal: the first that is false makes all true.
LEMMA PushSame ==
  ASSUME NEW st \in Seq(EntrySet), NEW es \in Seq(EntrySet), NEW G, NEW A, A \subseteq SUBSET Lits,
         NEW B, NEW l \in Lits, Reconstructs(B, st, G),
         \A k \in 1 .. Len(es) : es[k].witness = {l} /\ l \in es[k].clause,
         \A a \in A : (\A k \in 1 .. Len(es) : es[k].clause \cap a # {}) => a \in B,
         \A a \in A : \A k \in 1 .. Len(es) : es[k].clause \cap a = {} => Flip(a, {l}) \in B
  PROVE  Reconstructs(A, st \o es, G)
<1> DEFINE Hold(a, k) == \A i \in 1 .. k : es[i].clause \cap a # {}
           good(k) == {a \in SUBSET Lits : IF Hold(a, k) THEN a \in B ELSE Flip(a, {l}) \in B}
           D == [k \in 0 .. Len(es) |-> good(k)]
<1>1. Len(es) \in Nat
  OBVIOUS
<1>2. Reconstructs(D[0], st, G)
  <2>1. D[0] \subseteq B
    OBVIOUS
  <2> QED BY <2>1, ReconstructsLess
<1>3. ASSUME NEW k \in 1 .. Len(es), NEW a \in D[k]  PROVE Mended(es[k], a) \in D[k - 1]
  <2>1. k \in 0 .. Len(es) /\ k - 1 \in 0 .. Len(es)
    OBVIOUS
  <2>2. a \in SUBSET Lits /\ (IF Hold(a, k) THEN a \in B ELSE Flip(a, {l}) \in B)
    BY <2>1
  <2>3. \A b \in SUBSET Lits : Hold(b, k) <=> Hold(b, k - 1) /\ es[k].clause \cap b # {}
    OBVIOUS
  <2>4. es[k].witness = {l}
    OBVIOUS
  <2>5. CASE es[k].clause \cap a # {}
    <3>1. Mended(es[k], a) = a
      BY <2>5 DEF Mended
    <3>2. Hold(a, k) <=> Hold(a, k - 1)
      BY <2>2, <2>3, <2>5
    <3>3. a \in good(k - 1)
      <4> HIDE DEF Hold
      <4> QED BY <2>2, <3>2
    <3> HIDE DEF good
    <3> QED BY <3>1, <3>3, <2>1
  <2>6. CASE es[k].clause \cap a = {}
    <3>1. Mended(es[k], a) = Flip(a, {l})
      BY <2>4, <2>6 DEF Mended
    <3>2. ~Hold(a, k)
      BY <2>6
    <3>3. Flip(a, {l}) \in B
      <4> HIDE DEF Hold
      <4> QED BY <2>2, <3>2
    <3>4. Flip(a, {l}) \in SUBSET Lits /\ l \in Flip(a, {l})
      BY <2>2, FlipLits DEF Flip
    <3>5. Hold(Flip(a, {l}), k - 1)
      BY <3>4
    <3>6. Flip(a, {l}) \in good(k - 1)
      <4> HIDE DEF Hold
      <4> QED BY <3>3, <3>4, <3>5
    <3> HIDE DEF good
    <3> QED BY <3>1, <3>6, <2>1
  <2> QED BY <2>5, <2>6
<1>4. A \subseteq D[Len(es)]
  <2>1. ASSUME NEW a \in A  PROVE a \in good(Len(es))
    BY <1>1
  <2> HIDE DEF good
  <2> QED BY <2>1, <1>1
<1>5. Reconstructs(D[Len(es)], st \o es, G)
  <2> HIDE DEF D
  <2> QED BY <1>2, <1>3, PushAll
<1> QED BY <1>4, <1>5, ReconstructsLess

-----------------------------------------------------------------------------
(* The entries of an equivalence substitution.                             *)

EntriesOf(repr, n) ==
  IF n \in SubstitutedBy(repr)
  THEN <<Entry({-n}, {repr[n], -n}), Entry({n}, {n, -repr[n]})>>
  ELSE <<>>

\* The entries decompose pushes, as a chain of lists, one variable after another.
LEMMA EquivalenceRecursion ==
  ASSUME NEW repr, repr \in [Lits -> Lits]
  PROVE  \E u \in [0 .. MaxVar -> Seq(EntrySet)] :
           /\ u[0] = <<>>
           /\ \A n \in 1 .. MaxVar : u[n] = u[n - 1] \o EntriesOf(repr, n)
           /\ EquivalenceEntries(repr) = u[MaxVar]
<1> DEFINE upto[n \in 0 .. MaxVar] ==
             IF n = 0 THEN <<>>
             ELSE upto[n - 1] \o
                  IF n \in SubstitutedBy(repr)
                  THEN <<Entry({-n}, {repr[n], -n}), Entry({n}, {n, -repr[n]})>>
                  ELSE <<>>
           step(f, n) == IF n = 0 THEN <<>> ELSE f[n - 1] \o EntriesOf(repr, n)
           g == [n \in 1 .. MaxVar |-> [s \in Seq(EntrySet) |-> s \o EntriesOf(repr, n)]]
<1>1. ASSUME NEW n \in 1 .. MaxVar  PROVE EntriesOf(repr, n) \in Seq(EntrySet)
  <2>1. n \in Lits /\ -n \in Lits /\ repr[n] \in Lits /\ -repr[n] \in Lits
    <3>1. n \in Vars
      BY DEF Vars
    <3> QED BY <3>1, VarsAreLits, LitFacts
  <2>2. Entry({-n}, {repr[n], -n}) \in EntrySet /\ Entry({n}, {n, -repr[n]}) \in EntrySet
    BY <2>1 DEF Entry, EntrySet
  <2> QED BY <2>2 DEF EntriesOf
<1>2. g \in [1 .. MaxVar -> [Seq(EntrySet) -> Seq(EntrySet)]]
  <2>1. ASSUME NEW n \in 1 .. MaxVar, NEW s \in Seq(EntrySet)
        PROVE  s \o EntriesOf(repr, n) \in Seq(EntrySet)
    BY <1>1
  <2> QED BY <2>1
<1>3. PICK h \in [0 .. MaxVar -> Seq(EntrySet)] :
        h[0] = <<>> /\ \A n \in 1 .. MaxVar : h[n] = g[n][h[n - 1]]
  <2>1. PICK S, G, N, b : S = Seq(EntrySet) /\ G = g /\ N = MaxVar /\ b = <<>>
    OBVIOUS
  <2>2. <<>> \in Seq(EntrySet)
    OBVIOUS
  <2> HIDE DEF g, upto, step
  <2>3. b \in S /\ G \in [1 .. N -> [S -> S]] /\ N \in Nat
    BY <1>2, <2>1, <2>2
  <2>4. \E h \in [0 .. N -> S] : h[0] = b /\ \A n \in 1 .. N : h[n] = G[n][h[n - 1]]
    BY ONLY <2>3, FiniteRecursion
  <2> QED BY <2>1, <2>4
<1>4. \A n \in 1 .. MaxVar : h[n] = h[n - 1] \o EntriesOf(repr, n)
  <2>1. ASSUME NEW n \in 1 .. MaxVar  PROVE h[n] = h[n - 1] \o EntriesOf(repr, n)
    <3>1. h[n - 1] \in Seq(EntrySet)
      OBVIOUS
    <3>2. g[n][h[n - 1]] = h[n - 1] \o EntriesOf(repr, n)
      BY <3>1
    <3> HIDE DEF g
    <3> QED BY <3>2, <1>3
  <2> QED BY <2>1
<1>5. h = [n \in 0 .. MaxVar |-> step(h, n)]
  <2>1. ASSUME NEW n \in 0 .. MaxVar  PROVE h[n] = step(h, n)
    <3>1. CASE n = 0
      BY <3>1, <1>3
    <3>2. CASE n # 0
      <4>1. n \in 1 .. MaxVar
        BY <3>2
      <4> QED BY <4>1, <3>2, <1>4
    <3> QED BY <3>1, <3>2
  <2> HIDE DEF step
  <2> QED BY <2>1
<1>6. upto = [n \in 0 .. MaxVar |-> step(upto, n)]
  <2>1. upto = CHOOSE k : k = [n \in 0 .. MaxVar |-> step(k, n)]
    BY DEF EntriesOf
  <2> HIDE DEF upto, step
  <2> QED BY <1>5, <2>1, Zenon
<1>7. EquivalenceEntries(repr) = upto[MaxVar]
  BY DEF EquivalenceEntries
<1> HIDE DEF upto
<1>8. upto[MaxVar] = h[MaxVar]
  <2> DEFINE Bad == {n \in 0 .. MaxVar : upto[n] # h[n]}
  <2>1. ASSUME Bad # {}  PROVE FALSE
    <3>1. Bad \subseteq Nat
      OBVIOUS
    <3>2. PICK n \in Bad : \A m \in Bad : n <= m
      <4> HIDE DEF Bad
      <4> QED BY <2>1, <3>1, LeastNat
    <3>3. n \in 0 .. MaxVar /\ upto[n] # h[n]
      BY <3>2
    <3>4. upto[n] = step(upto, n) /\ h[n] = step(h, n)
      <4> HIDE DEF step
      <4> QED BY <3>3, <1>5, <1>6
    <3>5. n # 0
      BY <3>3, <3>4
    <3>6. n - 1 \in 0 .. MaxVar /\ ~(n <= n - 1)
      BY <3>3, <3>5
    <3>7. n - 1 \notin Bad
      <4> HIDE DEF Bad
      <4> QED BY <3>6, <3>2
    <3>8. upto[n - 1] = h[n - 1]
      BY <3>6, <3>7
    <3> QED BY <3>3, <3>4, <3>5, <3>8
  <2>2. MaxVar \in 0 .. MaxVar
    OBVIOUS
  <2>3. MaxVar \notin Bad
    <3> HIDE DEF Bad
    <3> QED BY <2>1
  <2> QED BY <2>2, <2>3
<1> QED BY <1>3, <1>4, <1>7, <1>8

\* Every entry is one of the two of a substituted variable.
LEMMA EquivalenceEntriesFacts ==
  ASSUME NEW repr, repr \in [Lits -> Lits]
  PROVE  /\ EquivalenceEntries(repr) \in Seq(EntrySet)
         /\ \A j \in 1 .. Len(EquivalenceEntries(repr)) : \E v \in SubstitutedBy(repr) :
              \/ EquivalenceEntries(repr)[j] = Entry({-v}, {repr[v], -v})
              \/ EquivalenceEntries(repr)[j] = Entry({v}, {v, -repr[v]})
<1> DEFINE Good(s) == \A j \in 1 .. Len(s) : \E v \in SubstitutedBy(repr) :
                        \/ s[j] = Entry({-v}, {repr[v], -v})
                        \/ s[j] = Entry({v}, {v, -repr[v]})
<1>1. PICK u \in [0 .. MaxVar -> Seq(EntrySet)] :
           /\ u[0] = <<>>
           /\ \A n \in 1 .. MaxVar : u[n] = u[n - 1] \o EntriesOf(repr, n)
           /\ EquivalenceEntries(repr) = u[MaxVar]
  BY EquivalenceRecursion
<1> DEFINE Bad == {n \in 0 .. MaxVar : ~Good(u[n])}
<1>2. ASSUME Bad # {}  PROVE FALSE
  <2>1. Bad \subseteq Nat
    OBVIOUS
  <2>2. PICK n \in Bad : \A m \in Bad : n <= m
    <3> HIDE DEF Bad
    <3> QED BY <1>2, <2>1, LeastNat
  <2>3. n \in 0 .. MaxVar /\ ~Good(u[n])
    BY <2>2
  <2>4. n # 0
    BY <2>3, <1>1
  <2>5. n - 1 \in 0 .. MaxVar /\ n \in 1 .. MaxVar /\ ~(n <= n - 1)
    BY <2>3, <2>4
  <2>6. n - 1 \notin Bad
    <3> HIDE DEF Bad
    <3> QED BY <2>5, <2>2
  <2>7. Good(u[n - 1])
    <3> HIDE DEF Good
    <3> QED BY <2>5, <2>6
  <2>8. u[n] = u[n - 1] \o EntriesOf(repr, n) /\ u[n - 1] \in Seq(EntrySet)
    BY <1>1, <2>5
  <2> DEFINE s == u[n - 1]
  <2>9. CASE n \notin SubstitutedBy(repr)
    <3>1. EntriesOf(repr, n) = <<>>
      BY <2>9 DEF EntriesOf
    <3>2. u[n] = u[n - 1]
      BY <2>8, <3>1
    <3> HIDE DEF Good
    <3> QED BY <3>2, <2>7, <2>3
  <2>10. CASE n \in SubstitutedBy(repr)
    <3>1. PICK e1, e2 : e1 = Entry({-n}, {repr[n], -n}) /\ e2 = Entry({n}, {n, -repr[n]})
      OBVIOUS
    <3>2. EntriesOf(repr, n) = <<e1, e2>>
      BY <2>10, <3>1 DEF EntriesOf
    <3>3. u[n] = s \o <<e1, e2>> /\ Len(s) \in Nat
      BY <2>8, <3>2
    <3>4. /\ Len(u[n]) = Len(s) + 2 /\ u[n][Len(s) + 1] = e1 /\ u[n][Len(s) + 2] = e2
          /\ \A j \in 1 .. Len(s) : u[n][j] = s[j]
      BY <2>8, <3>3
    <3>5. ASSUME NEW j \in 1 .. Len(u[n])
          PROVE  \E v \in SubstitutedBy(repr) :
                        \/ u[n][j] = Entry({-v}, {repr[v], -v})
                        \/ u[n][j] = Entry({v}, {v, -repr[v]})
      <4>1. j \in 1 .. Len(s) \/ j = Len(s) + 1 \/ j = Len(s) + 2
        <5> HIDE DEF s, Good, Bad
        <5>1. Len(s) \in Nat /\ Len(u[n]) = Len(s) + 2
          BY <3>3, <3>4
        <5> QED BY <5>1
      <4>2. CASE j \in 1 .. Len(s)
        BY <4>2, <2>7, <3>4
      <4>3. CASE j = Len(s) + 1
        BY <4>3, <3>4, <3>1, <2>10
      <4>4. CASE j = Len(s) + 2
        BY <4>4, <3>4, <3>1, <2>10
      <4> QED BY <4>1, <4>2, <4>3, <4>4
    <3> QED BY <3>5, <2>3
  <2> QED BY <2>9, <2>10
<1>3. MaxVar \in 0 .. MaxVar
  OBVIOUS
<1>4. MaxVar \notin Bad
  <2> HIDE DEF Bad
  <2> QED BY <1>2
<1>5. Good(u[MaxVar])
  <2> HIDE DEF Good
  <2> QED BY <1>3, <1>4
<1>6. Good(EquivalenceEntries(repr))
  <2> HIDE DEF Good
  <2> QED BY <1>1, <1>5
<1>7. EquivalenceEntries(repr) \in Seq(EntrySet)
  BY <1>1, <1>3
<1> QED BY <1>6, <1>7

\* Concatenating a pair appends twice.
LEMMA ConcatPair ==
  ASSUME NEW E, NEW s \in Seq(E), NEW t \in Seq(E), NEW e1 \in E, NEW e2 \in E
  PROVE  s \o (t \o <<e1, e2>>) = Append(Append(s \o t, e1), e2)
<1>1. t \o <<e1, e2>> = Append(Append(t, e1), e2)
  OBVIOUS
<1>2. Append(t, e1) \in Seq(E)
  OBVIOUS
<1>3. s \o Append(Append(t, e1), e2) = Append(s \o Append(t, e1), e2)
  BY <1>2, ConcatAppend
<1>4. s \o Append(t, e1) = Append(s \o t, e1)
  BY ConcatAppend
<1> QED BY <1>1, <1>3, <1>4

\* From assignments in D, which do not depend on substituted variables, the
\* entries make one where the variables agree with their representatives.
LEMMA EquivalencesReconstruct ==
  ASSUME NEW repr, repr \in [Lits -> Lits],
         \A l \in Lits : repr[-l] = -repr[l] /\ repr[repr[l]] = repr[l],
         NEW st \in Seq(EntrySet), NEW G, NEW B, NEW D, Reconstructs(B, st, G),
         \A a \in D : Total(a) /\ \A l \in Lits : repr[l] # l => Flip(a, {l}) \in D,
         \A a \in D : (\A v \in Vars : v \in a <=> repr[v] \in a) => a \in B
  PROVE  Reconstructs(D, st \o EquivalenceEntries(repr), G)
<1>1. PICK u \in [0 .. MaxVar -> Seq(EntrySet)] :
           /\ u[0] = <<>>
           /\ \A n \in 1 .. MaxVar : u[n] = u[n - 1] \o EntriesOf(repr, n)
           /\ EquivalenceEntries(repr) = u[MaxVar]
  BY EquivalenceRecursion
<1> DEFINE Agree(a, n) == \A v \in Vars : v > n => (v \in a <=> repr[v] \in a)
           A(n) == {a \in D : Agree(a, n)}
           Bad == {n \in 0 .. MaxVar : ~Reconstructs(A(n), st \o u[n], G)}
<1>2. ASSUME Bad # {}  PROVE FALSE
  <2>1. Bad \subseteq Nat
    OBVIOUS
  <2>2. PICK n \in Bad : \A m \in Bad : n <= m
    <3> HIDE DEF Bad
    <3> QED BY <1>2, <2>1, LeastNat
  <2>3. n \in 0 .. MaxVar /\ ~Reconstructs(A(n), st \o u[n], G)
    BY <2>2
  <2>4. n # 0
    <3>1. ASSUME n = 0  PROVE FALSE
      <4>1. st \o u[n] = st
        BY <3>1, <1>1
      <4>2. A(0) \subseteq B
        <5>1. \A v \in Vars : v > 0
          BY DEF Vars
        <5> QED BY <5>1
      <4>3. Reconstructs(A(n), st, G)
        <5> HIDE DEF A
        <5> QED BY <3>1, <4>2, ReconstructsLess
      <4> QED BY <4>1, <4>3, <2>3
    <3> QED BY <3>1
  <2>5. n - 1 \in 0 .. MaxVar /\ n \in 1 .. MaxVar /\ n \in Vars /\ ~(n <= n - 1)
    BY <2>3, <2>4 DEF Vars
  <2>6. n - 1 \notin Bad
    <3> HIDE DEF Bad
    <3> QED BY <2>5, <2>2
  <2>7. Reconstructs(A(n - 1), st \o u[n - 1], G)
    <3> HIDE DEF A
    <3> QED BY <2>5, <2>6
  <2>8. u[n] = u[n - 1] \o EntriesOf(repr, n) /\ u[n - 1] \in Seq(EntrySet)
    BY <1>1, <2>5
  <2>9. ASSUME NEW a, Agree(a, n), n \in a <=> repr[n] \in a  PROVE Agree(a, n - 1)
    <3>1. ASSUME NEW v \in Vars, v > n - 1  PROVE v \in a <=> repr[v] \in a
      <4>1. v = n \/ v > n
        BY <3>1, <2>5 DEF Vars
      <4> QED BY <4>1, <2>9
    <3> QED BY <3>1
  <2>10. CASE n \notin SubstitutedBy(repr)
    <3>1. EntriesOf(repr, n) = <<>>
      BY <2>10 DEF EntriesOf
    <3>2. u[n] = u[n - 1]
      BY <2>8, <3>1
    <3>3. repr[n] = n
      BY <2>10, <2>5 DEF SubstitutedBy
    <3>4. A(n) \subseteq A(n - 1)
      <4> HIDE DEF Agree
      <4> QED BY <2>9, <3>3
    <3>5. Reconstructs(A(n), st \o u[n - 1], G)
      <4> HIDE DEF A
      <4> QED BY <3>4, <2>7, ReconstructsLess
    <3> QED BY <3>2, <3>5, <2>3
  <2>11. CASE n \in SubstitutedBy(repr)
    <3> DEFINE r == repr[n]
    <3>1. PICK e1, e2 : e1 = Entry({-n}, {r, -n}) /\ e2 = Entry({n}, {n, -r})
      OBVIOUS
    <3>2. n \in Lits /\ -n \in Lits /\ n \in Int /\ r \in Lits /\ -r \in Lits /\ -(-n) = n /\ r # n
          /\ -(-r) = r /\ n # -n
      BY <2>5, <2>11, VarsAreLits, LitFacts DEF SubstitutedBy
    <3>3. repr[r] = r /\ repr[-n] = -r /\ repr[-r] = -r
      BY <3>2
    <3>4. r # -n /\ -r # n /\ -r # -n /\ repr[-n] # -n
      BY <3>2, <3>3
    <3> HIDE DEF r
    <3>5. e1 \in EntrySet /\ e2 \in EntrySet
      BY <3>1, <3>2 DEF Entry, EntrySet
    <3>6. EntriesOf(repr, n) = <<e1, e2>>
      BY <2>11, <3>1 DEF EntriesOf, r
    <3> DEFINE s == st \o u[n - 1]
    <3>7. s \in Seq(EntrySet)
      BY <2>8
    <3>8. st \o u[n] = Append(Append(s, e1), e2)
      <4>1. PICK t, E, x : t = u[n - 1] /\ E = EntrySet /\ x = st
        OBVIOUS
      <4> HIDE DEF Agree, A, Bad, s
      <4>2. x \in Seq(E) /\ t \in Seq(E) /\ e1 \in E /\ e2 \in E
        BY <4>1, <2>8, <3>5
      <4>3. x \o (t \o <<e1, e2>>) = Append(Append(x \o t, e1), e2)
        BY ONLY <4>2, ConcatPair, SMTT(30)
      <4> QED BY <2>8, <3>6, <4>1, <4>3 DEF s
    <3>9. ASSUME NEW a, Agree(a, n), a \subseteq Lits, NEW k \in {n, -n}  PROVE Agree(Flip(a, {k}), n)
      <4>1. ASSUME NEW v \in Vars, v > n  PROVE v \in Flip(a, {k}) <=> repr[v] \in Flip(a, {k})
        <5>1. v \in Lits /\ v # n /\ v # -n /\ v # -(-n)
          BY <4>1, <2>5, VarsAreLits DEF Vars
        <5>2. repr[repr[v]] = repr[v]
          BY <5>1
        <5>3. repr[n] # n /\ repr[-n] # -n
          BY <3>4, <3>2 DEF r
        <5>4. repr[v] # n /\ repr[v] # -n
          BY <5>2, <5>3
        <5>5. \A x : x # n /\ x # -n => (x \in Flip(a, {k}) <=> x \in a)
          <6>1. Negated({k}) = {-k}
            BY DEF Negated
          <6>2. -k \in {n, -n}
            BY <3>2
          <6> QED BY <6>1, <6>2 DEF Flip
        <5>6. v \in a <=> repr[v] \in a
          BY <3>9, <4>1
        <5> QED BY <5>1, <5>4, <5>5, <5>6
      <4> QED BY <4>1
    <3> DEFINE M == {a \in A(n) : r \in a => n \in a}
    <3>10. ASSUME NEW a, a \in A(n)
           PROVE  /\ Total(a) /\ Agree(a, n) /\ a \in D /\ a \subseteq Lits
                  /\ (-n \in a <=> n \notin a) /\ (-r \in a <=> r \notin a)
                  /\ Flip(a, {n}) \in A(n) /\ Flip(a, {-n}) \in A(n)
      <4>1. Total(a) /\ Agree(a, n) /\ a \in D
        BY <3>10
      <4>2. (-n \in a <=> n \notin a) /\ (-r \in a <=> r \notin a) /\ a \subseteq Lits
        BY <4>1, <3>2 DEF Total
      <4>3. Flip(a, {n}) \in D /\ Flip(a, {-n}) \in D
        BY <4>1, <3>2, <3>4 DEF r
      <4>4. Agree(Flip(a, {n}), n) /\ Agree(Flip(a, {-n}), n)
        <5> HIDE DEF Agree
        <5> QED BY <4>1, <4>2, <3>9
      <4> HIDE DEF Agree
      <4> QED BY <4>1, <4>2, <4>3, <4>4
    <3>11. Negated({n}) = {-n} /\ Negated({-n}) = {n}
      BY <3>2 DEF Negated
    <3>12. ASSUME NEW a, a \in A(n)  PROVE Mended(e2, a) \in M
      <4>1. e2.witness = {n} /\ e2.clause = {n, -r}
        BY <3>1 DEF Entry
      <4>2. CASE n \in a \/ -r \in a
        <5>1. Mended(e2, a) = a
          BY <4>1, <4>2 DEF Mended
        <5>2. r \in a => n \in a
          BY <4>2, <3>10, <3>12
        <5> HIDE DEF A
        <5> QED BY <5>1, <5>2, <3>12
      <4>3. CASE ~(n \in a \/ -r \in a)
        <5>1. Mended(e2, a) = Flip(a, {n})
          BY <4>1, <4>3 DEF Mended
        <5>2. n \in Flip(a, {n})
          BY DEF Flip
        <5>3. Flip(a, {n}) \in A(n)
          <6> HIDE DEF A
          <6> QED BY <3>10, <3>12
        <5> HIDE DEF A
        <5> QED BY <5>1, <5>2, <5>3
      <4> QED BY <4>2, <4>3
    <3>13. ASSUME NEW a, a \in M  PROVE Mended(e1, a) \in A(n - 1)
      <4>1. e1.witness = {-n} /\ e1.clause = {r, -n}
        BY <3>1 DEF Entry
      <4>2. a \in A(n) /\ (r \in a => n \in a)
        BY <3>13
      <4>3. /\ Agree(a, n) /\ a \in D
            /\ (-n \in a <=> n \notin a) /\ (-r \in a <=> r \notin a)
            /\ Flip(a, {-n}) \in A(n)
        <5> HIDE DEF A, Agree
        <5> QED BY <4>2, <3>10
      <4>4. CASE r \in a \/ -n \in a
        <5>1. Mended(e1, a) = a
          BY <4>1, <4>4 DEF Mended
        <5>2. n \in a <=> r \in a
          BY <4>4, <4>3, <4>2
        <5>3. Agree(a, n - 1)
          <6> HIDE DEF Agree
          <6> QED BY <5>2, <4>3, <2>9 DEF r
        <5> HIDE DEF Agree
        <5> QED BY <5>1, <5>3, <4>3
      <4>5. CASE ~(r \in a \/ -n \in a)
        <5> DEFINE b == Flip(a, {-n})
        <5>1. Mended(e1, a) = b
          BY <4>1, <4>5 DEF Mended
        <5>2. n \notin b /\ r \notin b
          BY <4>5, <3>11, <3>2, <3>4 DEF Flip
        <5>3. b \in D /\ Agree(b, n)
          <6> HIDE DEF Agree, b
          <6>1. b \in A(n)
            BY <4>3 DEF b
          <6> QED BY <6>1
        <5>4. Agree(b, n - 1)
          <6> HIDE DEF Agree, b
          <6> QED BY <5>2, <5>3, <2>9 DEF r
        <5> HIDE DEF Agree, b
        <5> QED BY <5>1, <5>3, <5>4
      <4> QED BY <4>4, <4>5
    <3> HIDE DEF A, M, s
    <3>14. Reconstructs(M, Append(s, e1), G)
      <4>1. Reconstructs(A(n - 1), s, G)
        BY <2>7 DEF s
      <4>2. \A a \in M : Mended(e1, a) \in A(n - 1)
        BY <3>13
      <4> QED BY <4>1, <4>2, <3>7, <3>5, Push
    <3>15. Append(s, e1) \in Seq(EntrySet)
      BY <3>7, <3>5
    <3>16. Reconstructs(A(n), Append(Append(s, e1), e2), G)
      <4>1. \A a \in A(n) : Mended(e2, a) \in M
        BY <3>12
      <4> QED BY <4>1, <3>14, <3>15, <3>5, Push
    <3> QED BY <3>16, <3>8, <2>3 DEF s
  <2> QED BY <2>10, <2>11
<1>3. MaxVar \in 0 .. MaxVar
  OBVIOUS
<1>4. MaxVar \notin Bad
  <2> HIDE DEF Bad
  <2> QED BY <1>2
<1>5. Reconstructs(A(MaxVar), st \o u[MaxVar], G)
  <2> HIDE DEF A
  <2> QED BY <1>3, <1>4
<1>6. D \subseteq A(MaxVar)
  <2>1. \A v \in Vars : ~(v > MaxVar)
    BY DEF Vars
  <2> QED BY <2>1
<1> HIDE DEF A
<1> QED BY <1>1, <1>5, <1>6, ReconstructsLess

-----------------------------------------------------------------------------
(* Restoring clauses: the walk over the stack, and what is left of it.     *)

Walks == [tainted : SUBSET Lits, kept : Seq(EntrySet), restored : SUBSET SUBSET Lits]
TaintOf(c) == {l \in c : -l \in Witnesses}
WalkStep(e, w) ==
  IF Negated(e.witness) \cap w.tainted = {}
  THEN [w EXCEPT !.kept = Append(@, e)]
  ELSE [w EXCEPT !.tainted = @ \cup TaintOf(e.clause), !.restored = @ \cup {e.clause}]
Walk(F, w) ==
  /\ w \in [0 .. Len(extension) -> Walks]
  /\ w[0] = [tainted |-> TaintOf(UNION F), kept |-> <<>>, restored |-> {}]
  /\ \A j \in 1 .. Len(extension) : w[j] = WalkStep(extension[j], w[j - 1])
  /\ Restoring(F) = w[Len(extension)]

\* One entry of restore_clauses keeps the walk's types.
LEMMA WalkStepType ==
  ASSUME NEW e \in EntrySet, NEW w \in Walks
  PROVE  WalkStep(e, w) \in Walks
<1>1. e.clause \subseteq Lits /\ TaintOf(e.clause) \subseteq Lits
  BY DEF EntrySet, TaintOf
<1>2. w = [tainted |-> w.tainted, kept |-> w.kept, restored |-> w.restored]
      /\ w.tainted \subseteq Lits /\ w.kept \in Seq(EntrySet) /\ w.restored \subseteq SUBSET Lits
  BY DEF Walks
<1>3. CASE Negated(e.witness) \cap w.tainted = {}
  <2>1. WalkStep(e, w) = [tainted |-> w.tainted, kept |-> Append(w.kept, e), restored |-> w.restored]
    BY <1>2, <1>3 DEF WalkStep
  <2>2. Append(w.kept, e) \in Seq(EntrySet)
    BY <1>2
  <2> QED BY <1>2, <2>1, <2>2 DEF Walks
<1>4. CASE Negated(e.witness) \cap w.tainted # {}
  <2>1. WalkStep(e, w) = [tainted |-> w.tainted \cup TaintOf(e.clause), kept |-> w.kept,
                          restored |-> w.restored \cup {e.clause}]
    BY <1>2, <1>4 DEF WalkStep
  <2> QED BY <1>1, <1>2, <2>1 DEF Walks
<1> QED BY <1>3, <1>4

\* The loop of restore_clauses, as a chain of states.
LEMMA RestoringWalk ==
  ASSUME extension \in Seq(EntrySet), NEW F, F \subseteq SUBSET Lits
  PROVE  \E w : Walk(F, w)
<1> DEFINE taint(c) == {l \in c : -l \in Witnesses}
           walk[j \in 0 .. Len(extension)] ==
             IF j = 0 THEN [tainted |-> taint(UNION F), kept |-> <<>>, restored |-> {}]
             ELSE LET w == walk[j - 1]
                      e == extension[j]
                  IN IF Negated(e.witness) \cap w.tainted = {}
                     THEN [w EXCEPT !.kept = Append(@, e)]
                     ELSE [w EXCEPT !.tainted = @ \cup taint(e.clause),
                                    !.restored = @ \cup {e.clause}]
           base == [tainted |-> TaintOf(UNION F), kept |-> <<>>, restored |-> {}]
           step(f, j) == IF j = 0 THEN base ELSE WalkStep(extension[j], f[j - 1])
           L == Len(extension)
           g == [j \in 1 .. L |-> [w \in Walks |-> WalkStep(extension[j], w)]]
<1>1. L \in Nat
  OBVIOUS
<1>2. g \in [1 .. L -> [Walks -> Walks]]
  <2>1. ASSUME NEW j \in 1 .. L, NEW w \in Walks  PROVE WalkStep(extension[j], w) \in Walks
    <3>1. extension[j] \in EntrySet
      BY ElementOfSeq
    <3> QED BY <3>1, WalkStepType
  <2> QED BY <2>1
<1>3. base \in Walks
  BY DEF TaintOf, Walks
<1>4. PICK h \in [0 .. L -> Walks] : h[0] = base /\ \A j \in 1 .. L : h[j] = g[j][h[j - 1]]
  <2>1. PICK S, G, N, b : S = Walks /\ G = g /\ N = L /\ b = base
    OBVIOUS
  <2> HIDE DEF g, L, walk, step, base
  <2>2. b \in S /\ G \in [1 .. N -> [S -> S]] /\ N \in Nat
    BY <1>1, <1>2, <1>3, <2>1
  <2>3. \E h \in [0 .. N -> S] : h[0] = b /\ \A j \in 1 .. N : h[j] = G[j][h[j - 1]]
    BY ONLY <2>2, FiniteRecursion
  <2> QED BY <2>1, <2>3
<1>5. \A j \in 1 .. L : h[j] = WalkStep(extension[j], h[j - 1])
  <2>1. ASSUME NEW j \in 1 .. L  PROVE h[j] = WalkStep(extension[j], h[j - 1])
    <3>1. h[j - 1] \in Walks
      BY <1>1
    <3>2. g[j][h[j - 1]] = WalkStep(extension[j], h[j - 1])
      BY <3>1
    <3> HIDE DEF g
    <3> QED BY <3>2, <1>4
  <2> QED BY <2>1
<1>6. h = [j \in 0 .. Len(extension) |-> step(h, j)]
  <2>1. ASSUME NEW j \in 0 .. L  PROVE h[j] = step(h, j)
    <3>1. CASE j = 0
      BY <3>1, <1>4
    <3>2. CASE j # 0
      <4>1. j \in 1 .. L
        BY <3>2
      <4> HIDE DEF base
      <4> QED BY <4>1, <3>2, <1>5
    <3> QED BY <3>1, <3>2
  <2> HIDE DEF step
  <2> QED BY <2>1
<1>7. walk = [j \in 0 .. Len(extension) |-> step(walk, j)]
  <2>1. walk = CHOOSE k : k = [j \in 0 .. Len(extension) |-> step(k, j)]
    BY DEF WalkStep, TaintOf
  <2> HIDE DEF walk, step
  <2> QED BY <1>6, <2>1, Zenon
<1>8. Restoring(F) = walk[Len(extension)]
  BY DEF Restoring
<1> HIDE DEF walk
<1>9. walk[L] = h[L]
  <2> DEFINE Bad == {n \in 0 .. L : walk[n] # h[n]}
  <2>1. ASSUME Bad # {}  PROVE FALSE
    <3>1. Bad \subseteq Nat
      OBVIOUS
    <3>2. PICK n \in Bad : \A m \in Bad : n <= m
      <4> HIDE DEF Bad
      <4> QED BY <2>1, <3>1, LeastNat
    <3>3. n \in 0 .. L /\ walk[n] # h[n]
      BY <3>2
    <3>4. walk[n] = step(walk, n) /\ h[n] = step(h, n)
      <4> HIDE DEF step
      <4> QED BY <3>3, <1>6, <1>7
    <3>5. n # 0
      <4> HIDE DEF base
      <4> QED BY <3>3, <3>4
    <3>6. n - 1 \in 0 .. L /\ ~(n <= n - 1)
      BY <3>3, <3>5
    <3>7. n - 1 \notin Bad
      <4> HIDE DEF Bad
      <4> QED BY <3>6, <3>2
    <3>8. walk[n - 1] = h[n - 1]
      BY <3>6, <3>7
    <3> HIDE DEF base
    <3> QED BY <3>3, <3>4, <3>5, <3>8
  <2>2. L \in 0 .. L
    BY <1>1
  <2>3. L \notin Bad
    <3> HIDE DEF Bad
    <3> QED BY <2>1
  <2> QED BY <2>2, <2>3
<1>10. Walk(F, h)
  BY <1>4, <1>5, <1>8, <1>9 DEF Walk
<1> QED BY <1>10

Hit(w) == {j \in 1 .. Len(extension) : Negated(extension[j].witness) \cap w[j - 1].tainted # {}}

\* What the loop does with an entry that is hit, and with one that is not.
LEMMA WalkStepFacts ==
  ASSUME extension \in Seq(EntrySet), NEW F, NEW w, Walk(F, w), NEW j \in 1 .. Len(extension)
  PROVE  LET p == w[j - 1]
             e == extension[j]
         IN
         /\ w[j] \in Walks /\ p \in Walks /\ e \in EntrySet
         /\ j \in Hit(w) => /\ w[j].kept = p.kept
                            /\ w[j].tainted = p.tainted \cup TaintOf(e.clause)
                            /\ w[j].restored = p.restored \cup {e.clause}
         /\ j \notin Hit(w) => /\ w[j].kept = Append(p.kept, e) /\ w[j].tainted = p.tainted
                               /\ w[j].restored = p.restored
<1> DEFINE p == w[j - 1]
           e == extension[j]
<1>1. w[j] \in Walks /\ p \in Walks
  <2>1. w \in [0 .. Len(extension) -> Walks] /\ j \in 0 .. Len(extension) /\ j - 1 \in 0 .. Len(extension)
    BY DEF Walk
  <2> QED BY <2>1
<1>2. e \in EntrySet
  BY ElementOfSeq
<1>3. w[j] = WalkStep(e, p)
  BY DEF Walk
<1>4. j \in Hit(w) <=> Negated(e.witness) \cap p.tainted # {}
  BY DEF Hit
<1> HIDE DEF p, e
<1>5. p = [tainted |-> p.tainted, kept |-> p.kept, restored |-> p.restored]
  BY <1>1 DEF Walks
<1>6. CASE j \in Hit(w)
  BY <1>6, <1>1, <1>2, <1>3, <1>4, <1>5 DEF WalkStep, p, e
<1>7. CASE j \notin Hit(w)
  BY <1>7, <1>1, <1>2, <1>3, <1>4, <1>5 DEF WalkStep, p, e
<1> QED BY <1>6, <1>7

\* What has been kept, tainted and restored stays so.
LEMMA WalkGrows ==
  ASSUME extension \in Seq(EntrySet), NEW F, NEW w, Walk(F, w),
         NEW m \in 0 .. Len(extension), NEW i \in 0 .. m
  PROVE  /\ Len(w[i].kept) \in Nat /\ Len(w[m].kept) \in Nat
         /\ Len(w[i].kept) <= Len(w[m].kept)
         /\ \A k \in 1 .. Len(w[i].kept) : w[m].kept[k] = w[i].kept[k]
         /\ w[i].tainted \subseteq w[m].tainted
         /\ w[i].restored \subseteq w[m].restored
<1> DEFINE Good(n) == /\ Len(w[n].kept) \in Nat
                      /\ Len(w[i].kept) <= Len(w[n].kept)
                      /\ \A k \in 1 .. Len(w[i].kept) : w[n].kept[k] = w[i].kept[k]
                      /\ w[i].tainted \subseteq w[n].tainted
                      /\ w[i].restored \subseteq w[n].restored
           Bad == {n \in i .. Len(extension) : ~Good(n)}
<1>1. Len(extension) \in Nat
  OBVIOUS
<1>2. \A n \in 0 .. Len(extension) : w[n] \in Walks
  BY DEF Walk
<1>3. \A n \in 0 .. Len(extension) : w[n].kept \in Seq(EntrySet)
  BY <1>2 DEF Walks
<1>4. Len(w[i].kept) \in Nat
  <2>1. i \in 0 .. Len(extension)
    BY <1>1
  <2>2. w[i].kept \in Seq(EntrySet)
    BY <2>1, <1>3
  <2> QED BY <2>2
<1>5. ASSUME Bad # {}  PROVE FALSE
  <2>1. Bad \subseteq Nat
    BY <1>1
  <2>2. PICK n \in Bad : \A k \in Bad : n <= k
    <3> HIDE DEF Bad
    <3> QED BY <1>5, <2>1, LeastNat
  <2>3. n \in i .. Len(extension) /\ ~Good(n)
    BY <2>2
  <2>4. n # i
    BY <2>3, <1>4
  <2>5. n \in 1 .. Len(extension) /\ n - 1 \in i .. Len(extension) /\ ~(n <= n - 1)
    BY <2>3, <2>4, <1>1
  <2>6. n - 1 \notin Bad
    <3> HIDE DEF Bad
    <3> QED BY <2>5, <2>2
  <2>7. Good(n - 1)
    <3> HIDE DEF Good
    <3> QED BY <2>5, <2>6
  <2>8. n - 1 \in 0 .. Len(extension)
    BY <2>5
  <2>9. PICK p, q, e : p = w[n - 1] /\ q = w[n] /\ e = extension[n]
    OBVIOUS
  <2>10. /\ p.kept \in Seq(EntrySet) /\ e \in EntrySet
         /\ \/ q.kept = p.kept \/ q.kept = Append(p.kept, e)
         /\ p.tainted \subseteq q.tainted /\ p.restored \subseteq q.restored
    <3> HIDE DEF Good, Bad
    <3>1. CASE n \in Hit(w)
      BY <3>1, <2>5, <2>8, <2>9, <1>3, WalkStepFacts
    <3>2. CASE n \notin Hit(w)
      BY <3>2, <2>5, <2>8, <2>9, <1>3, WalkStepFacts
    <3> QED BY <3>1, <3>2
  <2>11. PICK s : s = w[i].kept
    OBVIOUS
  <2>12. Len(s) \in Nat /\ Len(s) <= Len(p.kept) /\ \A k \in 1 .. Len(s) : p.kept[k] = s[k]
    BY <1>4, <2>7, <2>9, <2>11
  <2>13. Len(q.kept) \in Nat /\ Len(s) <= Len(q.kept) /\ \A k \in 1 .. Len(s) : q.kept[k] = s[k]
    <3> HIDE DEF Good, Bad
    <3>1. CASE q.kept = p.kept
      BY <3>1, <2>10, <2>12
    <3>2. CASE q.kept = Append(p.kept, e)
      <4>1. PICK t : t = p.kept
        OBVIOUS
      <4>2. t \in Seq(EntrySet) /\ q.kept = Append(t, e) /\ Len(s) <= Len(t)
            /\ \A k \in 1 .. Len(s) : t[k] = s[k]
        BY <4>1, <3>2, <2>10, <2>12
      <4>3. Len(q.kept) = Len(t) + 1 /\ \A k \in 1 .. Len(t) : q.kept[k] = t[k]
        BY <4>2, <2>10
      <4>4. Len(t) \in Nat
        BY <4>2
      <4> QED BY <4>2, <4>3, <4>4, <2>12
    <3> QED BY <3>1, <3>2, <2>10
  <2>14. w[i].tainted \subseteq q.tainted /\ w[i].restored \subseteq q.restored
    BY <2>7, <2>9, <2>10
  <2>15. Good(n)
    BY <2>9, <2>11, <2>13, <2>14
  <2> QED BY <2>15, <2>3
<1>6. m \in i .. Len(extension)
  BY <1>1
<1>7. m \notin Bad
  <2> HIDE DEF Bad
  <2> QED BY <1>5
<1>8. Good(m)
  <2> HIDE DEF Good
  <2> QED BY <1>6, <1>7
<1> QED BY <1>8, <1>4

\* Every entry not restored is kept, at a place that grows with its own; every
\* entry kept comes from one.
LEMMA WalkPlaces ==
  ASSUME extension \in Seq(EntrySet), NEW F, NEW w, Walk(F, w)
  PROVE  /\ Restoring(F) \in Walks
         /\ \A j \in 1 .. Len(extension) \ Hit(w) :
              LET k == Len(w[j].kept) IN
              k \in 1 .. Len(Restoring(F).kept) /\ Len(w[j - 1].kept) = k - 1
              /\ Restoring(F).kept[k] = extension[j]
         /\ \A j \in Hit(w) : extension[j].clause \in Restoring(F).restored
<1> DEFINE L == Len(extension)
           r == Restoring(F)
<1>1. L \in Nat /\ w[L] = r /\ L \in 0 .. L
  BY DEF Walk
<1>2. r \in Walks
  BY <1>1 DEF Walk
<1>3. ASSUME NEW j \in 1 .. L \ Hit(w)
      PROVE  Len(w[j].kept) \in 1 .. Len(r.kept) /\ Len(w[j - 1].kept) = Len(w[j].kept) - 1
             /\ r.kept[Len(w[j].kept)] = extension[j]
  <2>1. j \in 0 .. L /\ j \in 1 .. L /\ j - 1 \in 0 .. L
    BY <1>1
  <2>2. PICK p, q, e : p = w[j - 1].kept /\ q = w[j].kept /\ e = extension[j]
    OBVIOUS
  <2>3. q = Append(p, e) /\ p \in Seq(EntrySet) /\ e \in EntrySet
    BY <2>1, <2>2, WalkStepFacts DEF Walks
  <2>4. Len(q) = Len(p) + 1 /\ Len(p) \in Nat /\ q[Len(q)] = e
    BY <2>3
  <2>5. /\ Len(w[L].kept) \in Nat /\ Len(w[j].kept) <= Len(w[L].kept)
        /\ \A k \in 1 .. Len(w[j].kept) : w[L].kept[k] = w[j].kept[k]
    <3>1. j \in 0 .. L /\ L \in 0 .. Len(extension)
      BY <2>1, <1>1
    <3> QED BY <3>1, WalkGrows
  <2>6. PICK s : s = r.kept
    OBVIOUS
  <2>7. Len(s) \in Nat /\ Len(q) <= Len(s) /\ \A k \in 1 .. Len(q) : s[k] = q[k]
    BY <2>2, <2>5, <2>6, <1>1
  <2>8. Len(q) \in 1 .. Len(s) /\ Len(p) = Len(q) - 1 /\ s[Len(q)] = e
    <3> HIDE DEF L, r
    <3>1. Len(q) \in 1 .. Len(q)
      BY <2>4
    <3> QED BY <3>1, <2>4, <2>7
  <2> QED BY <2>8, <2>2, <2>6
<1>4. ASSUME NEW j \in Hit(w)  PROVE extension[j].clause \in r.restored
  <2>1. j \in 1 .. L /\ j \in 0 .. L
    BY <1>1 DEF Hit
  <2>2. extension[j].clause \in w[j].restored
    BY <2>1, WalkStepFacts
  <2>3. w[j].restored \subseteq w[L].restored
    BY <2>1, <1>1, WalkGrows
  <2> QED BY <2>2, <2>3, <1>1
<1> HIDE DEF r, L
<1> QED BY <1>2, <1>3, <1>4 DEF r, L

\* What is kept and what is restored comes from the stack.
LEMMA RestoringSubset ==
  ASSUME extension \in Seq(EntrySet), NEW F, F \subseteq SUBSET Lits
  PROVE  /\ Restoring(F).kept \in Seq(EntrySet)
         /\ Restoring(F).restored \subseteq SUBSET Lits
         /\ \A k \in 1 .. Len(Restoring(F).kept) :
              \E j \in 1 .. Len(extension) : Restoring(F).kept[k] = extension[j]
         /\ \A c \in Restoring(F).restored :
              \E j \in 1 .. Len(extension) : c = extension[j].clause
<1>1. PICK w : Walk(F, w)
  BY RestoringWalk
<1> DEFINE L == Len(extension)
           From(r) == /\ \A k \in 1 .. Len(r.kept) : \E j \in 1 .. L : r.kept[k] = extension[j]
                      /\ \A c \in r.restored : \E j \in 1 .. L : c = extension[j].clause
           Bad == {n \in 0 .. L : ~From(w[n])}
<1>2. L \in Nat /\ w \in [0 .. L -> Walks]
      /\ w[0] = [tainted |-> TaintOf(UNION F), kept |-> <<>>, restored |-> {}]
  BY <1>1 DEF Walk
<1>3. ASSUME Bad # {}  PROVE FALSE
  <2>1. Bad \subseteq Nat
    BY <1>2
  <2>2. PICK n \in Bad : \A k \in Bad : n <= k
    <3> HIDE DEF Bad
    <3> QED BY <1>3, <2>1, LeastNat
  <2>3. n \in 0 .. L /\ ~From(w[n])
    BY <2>2
  <2>4. n # 0
    <3>1. w[0].kept = <<>> /\ w[0].restored = {}
      BY <1>2
    <3>2. From(w[0])
      BY <3>1
    <3> HIDE DEF From
    <3> QED BY <3>2, <2>3
  <2>5. n \in 1 .. L /\ n - 1 \in 0 .. L /\ ~(n <= n - 1)
    BY <2>3, <2>4, <1>2
  <2>6. n - 1 \notin Bad
    <3> HIDE DEF Bad
    <3> QED BY <2>5, <2>2
  <2>7. From(w[n - 1])
    <3> HIDE DEF From
    <3> QED BY <2>5, <2>6
  <2>8. PICK p, q, e : p = w[n - 1] /\ q = w[n] /\ e = extension[n]
    OBVIOUS
  <2>9. p.kept \in Seq(EntrySet) /\ e \in EntrySet
        /\ (q.kept = p.kept \/ q.kept = Append(p.kept, e))
        /\ (q.restored = p.restored \/ q.restored = p.restored \cup {e.clause})
    <3> HIDE DEF From, Bad
    <3> QED BY <1>1, <2>5, <2>8, WalkStepFacts DEF Walks, L
  <2>10. \A c \in q.restored : \E j \in 1 .. L : c = extension[j].clause
    BY <2>5, <2>7, <2>8, <2>9
  <2>11. ASSUME NEW k \in 1 .. Len(q.kept)  PROVE \E j \in 1 .. L : q.kept[k] = extension[j]
    <3>1. PICK t : t = p.kept
      OBVIOUS
    <3>2. t \in Seq(EntrySet) /\ \A i \in 1 .. Len(t) : \E j \in 1 .. L : t[i] = extension[j]
      BY <3>1, <2>7, <2>8, <2>9
    <3>3. CASE q.kept = t
      BY <3>2, <3>3
    <3>4. CASE q.kept = Append(t, e)
      <4> HIDE DEF From, Bad
      <4>1. Len(t) \in Nat /\ Len(q.kept) = Len(t) + 1 /\ q.kept[Len(t) + 1] = e
            /\ \A i \in 1 .. Len(t) : q.kept[i] = t[i]
        BY <3>2, <3>4, <2>9
      <4>2. k \in 1 .. Len(t) \/ k = Len(t) + 1
        BY <4>1
      <4>3. CASE k \in 1 .. Len(t)
        BY <4>3, <4>1, <3>2
      <4>4. CASE k = Len(t) + 1
        BY <4>4, <4>1, <2>8, <2>5
      <4> QED BY <4>2, <4>3, <4>4
    <3> QED BY <3>1, <3>3, <3>4, <2>9
  <2>12. From(w[n])
    BY <2>8, <2>10, <2>11
  <2> QED BY <2>12, <2>3
<1>4. L \in 0 .. L
  BY <1>2
<1>5. L \notin Bad
  <2> HIDE DEF Bad
  <2> QED BY <1>3
<1>6. From(w[L])
  <2> HIDE DEF From
  <2> QED BY <1>4, <1>5
<1>7. w[L] = Restoring(F) /\ w[L] \in Walks
  BY <1>1, <1>2, <1>4 DEF Walk
<1> QED BY <1>6, <1>7 DEF Walks

\* The entries that are kept make a model of all clauses from an assignment that
\* satisfies the new ones and those restored for them.
LEMMA RestoringReconstructs ==
  ASSUME extension \in Seq(EntrySet), NEW F, F \subseteq SUBSET Lits,
         NEW A, NEW B, NEW G, Reconstructs(A, extension, G), B \subseteq A,
         \A a \in B : Satisfies(a, F \cup Restoring(F).restored)
  PROVE  Reconstructs(B, Restoring(F).kept, G \cup F)
<1>1. PICK w : Walk(F, w)
  BY RestoringWalk
<1> DEFINE L == Len(extension)
           kept == Restoring(F).kept
           K == Len(kept)
           hit == Hit(w)
           at(j) == Len(w[j].kept)
<1>2. /\ kept \in Seq(EntrySet) /\ K \in Nat /\ L \in Nat /\ hit \subseteq 1 .. L
  BY <1>1, WalkPlaces DEF Walks, Hit
<1>3. \A j \in 1 .. L : j \notin hit =>
         at(j) \in 1 .. K /\ at(j - 1) = at(j) - 1 /\ kept[at(j)] = extension[j]
  BY <1>1, WalkPlaces
<1>4. \A j \in hit : extension[j].clause \in Restoring(F).restored
  BY <1>1, WalkPlaces
<1>5. \A j \in 1 .. L : j \in hit => at(j - 1) = at(j)
  BY <1>1, WalkStepFacts
<1>6. \A m \in 0 .. L : \A i \in 0 .. m :
         at(i) \in Nat /\ at(m) \in Nat /\ at(i) <= at(m) /\ w[i].tainted \subseteq w[m].tainted
  BY <1>1, WalkGrows
<1>7. at(L) = K /\ at(0) = 0 /\ w[0].tainted = TaintOf(UNION F)
  <2>1. w[L] = Restoring(F) /\ w[0].kept = <<>> /\ w[0].tainted = TaintOf(UNION F)
    BY <1>1 DEF Walk
  <2> QED BY <2>1
<1>8. \A j \in hit : TaintOf(extension[j].clause) \subseteq w[j].tainted
  <2>1. ASSUME NEW j \in hit  PROVE TaintOf(extension[j].clause) \subseteq w[j].tainted
    <3>1. j \in 1 .. Len(extension)
      BY <1>2
    <3> QED BY <1>1, <3>1, WalkStepFacts
  <2> QED BY <2>1
<1>9. \A j \in 1 .. L : extension[j] \in EntrySet
  BY ElementOfSeq
\* A literal used up to entry j - 1 that contradicts the witness of j restores j.
<1>10. ASSUME NEW j \in 1 .. L, j \notin hit, NEW m \in Negated(extension[j].witness),
              m \in Lits, -m \in extension[j].witness
       PROVE  /\ m \in Witnesses \/ -m \in Witnesses
              /\ \A c : m \in c => m \in TaintOf(c)
              /\ m \notin w[j - 1].tainted
  <2>1. -m \in Witnesses
    BY <1>10 DEF Witnesses
  <2>2. m \notin w[j - 1].tainted
    BY <1>10 DEF Hit
  <2> QED BY <2>1, <2>2 DEF TaintOf
<1>11. ASSUME NEW j \in 1 .. L, NEW m \in Negated(extension[j].witness)
       PROVE  m \in Lits /\ -m \in extension[j].witness
  <2>1. extension[j].witness \subseteq Lits
    BY <1>9 DEF EntrySet
  <2>2. Negated(extension[j].witness) \subseteq Lits
    BY <2>1, NegatedFacts
  <2> QED BY <2>1, <2>2, NegatedFacts
<1> SUFFICES ASSUME NEW Q, NEW u, TaintClosed(kept, Q), Chain(kept, Q, u), u[K] \in B,
                    \A i \in Q : kept[i].clause \cap u[K] # {}
             PROVE  Satisfies(u[0], G \cup F)
  BY Zenon DEF Reconstructs
<1> DEFINE R == hit \cup {j \in 1 .. L : j \notin hit /\ at(j) \in Q}
           v == [j \in 0 .. L |-> u[at(j)]]
<1> HIDE DEF L, kept, K, hit, at
<1>12. u \in [0 .. K -> SUBSET Lits]
       /\ \A k \in 1 .. K : u[k - 1] = IF k \in Q THEN u[k] ELSE Mended(kept[k], u[k])
  BY DEF Chain, K
<1>13. Q \subseteq 1 .. K
       /\ \A i \in Q : \A j \in 1 .. K :
            i < j /\ Negated(kept[j].witness) \cap kept[i].clause # {} => j \in Q
  BY DEF TaintClosed, K
<1>14. TaintClosed(extension, R)
  <2>1. ASSUME NEW i \in R, NEW j \in 1 .. L, i < j,
               NEW m \in Negated(extension[j].witness), m \in extension[i].clause
        PROVE  j \in R
    <3>1. CASE j \in hit
      BY <3>1
    <3>2. CASE j \notin hit
      <4>1. m \in Lits /\ -m \in extension[j].witness
        BY <1>11
      <4>2. i \in 1 .. L
        BY <1>2
      <4>3. CASE i \in hit
        <5>1. m \in TaintOf(extension[i].clause) /\ m \notin w[j - 1].tainted
          BY <1>10, <2>1, <3>2, <4>1
        <5>2. m \in w[i].tainted
          BY <1>8, <4>3, <5>1
        <5>3. i \in 0 .. (j - 1) /\ j - 1 \in 0 .. L
          BY <2>1, <4>2, <1>2
        <5> QED BY <5>1, <5>2, <5>3, <1>6
      <4>4. CASE i \notin hit
        <5>1. at(i) \in Q
          BY <4>4
        <5>2. kept[at(i)] = extension[i] /\ kept[at(j)] = extension[j] /\ at(j) \in 1 .. K
              /\ at(j - 1) = at(j) - 1 /\ at(i) \in 1 .. K
          BY <1>3, <3>2, <4>2, <4>4
        <5>3. i \in 0 .. (j - 1) /\ j - 1 \in 0 .. L
          BY <2>1, <4>2, <1>2
        <5>4. at(i) <= at(j - 1)
          BY <5>3, <1>6
        <5>5. at(i) < at(j)
          BY <5>2, <5>4
        <5>6. at(j) \in Q
          BY <5>1, <5>2, <5>5, <1>13, <2>1
        <5> QED BY <5>6, <3>2
      <4> QED BY <4>3, <4>4
    <3> QED BY <3>1, <3>2
  <2> QED BY <2>1, <1>2 DEF TaintClosed, L
<1>15. \A j \in 0 .. L : at(j) \in 0 .. K
  <2>1. ASSUME NEW j \in 0 .. L  PROVE at(j) \in 0 .. K
    <3>1. L \in 0 .. L /\ j \in 0 .. L
      BY <1>2
    <3>2. at(j) \in Nat /\ at(j) <= at(L)
      BY <3>1, <1>6
    <3> QED BY <3>2, <1>7, <1>2
  <2> QED BY <2>1
<1>16. v \in [0 .. L -> SUBSET Lits] /\ v[L] = u[K] /\ v[0] = u[0]
  <2>1. L \in 0 .. L /\ 0 \in 0 .. L
    BY <1>2
  <2> QED BY <2>1, <1>7, <1>12, <1>15
<1>17. Chain(extension, R, v)
  <2>1. ASSUME NEW j \in 1 .. L
        PROVE  v[j - 1] = IF j \in R THEN v[j] ELSE Mended(extension[j], v[j])
    <3>1. j \in 0 .. L /\ j - 1 \in 0 .. L
      BY <1>2
    <3>2. v[j] = u[at(j)] /\ v[j - 1] = u[at(j - 1)]
      BY <3>1
    <3>3. CASE j \in hit
      BY <3>2, <3>3, <1>5
    <3>4. CASE j \notin hit
      <4>1. at(j) \in 1 .. K /\ at(j - 1) = at(j) - 1 /\ kept[at(j)] = extension[j]
        BY <3>4, <1>3
      <4>2. j \in R <=> at(j) \in Q
        BY <3>4
      <4> HIDE DEF R, v
      <4>3. u[at(j) - 1] = IF at(j) \in Q THEN u[at(j)] ELSE Mended(kept[at(j)], u[at(j)])
        BY <4>1, <1>12
      <4> QED BY <3>2, <4>1, <4>2, <4>3
    <3> QED BY <3>3, <3>4
  <2> QED BY <2>1, <1>16 DEF Chain, L
<1>18. \A i \in R : extension[i].clause \cap v[L] # {}
  <2>1. ASSUME NEW i \in R  PROVE extension[i].clause \cap v[L] # {}
    <3>1. CASE i \in hit
      <4>1. Satisfies(u[K], Restoring(F).restored)
        BY DEF Satisfies
      <4> QED BY <4>1, <3>1, <1>4, <1>16 DEF Satisfies
    <3>2. CASE i \notin hit
      <4>1. i \in 1 .. L /\ at(i) \in Q
        BY <3>2
      <4>2. kept[at(i)] = extension[i]
        BY <4>1, <3>2, <1>3
      <4> QED BY <4>1, <4>2, <1>16
    <3> QED BY <3>1, <3>2
  <2> QED BY <2>1
<1>19. Satisfies(u[0], G)
  <2>1. v[L] \in A
    BY <1>16
  <2> HIDE DEF R, v
  <2> QED BY <2>1, <1>14, <1>16, <1>17, <1>18, Zenon DEF Reconstructs, L
<1>20. Satisfies(u[0], F)
  <2>1. Satisfies(u[K], F)
    BY DEF Satisfies
  <2>2. ASSUME NEW k \in 1 .. Len(extension), k \notin R  PROVE Negated(extension[k].witness) \cap UNION F = {}
    <3>1. ASSUME NEW m \in Negated(extension[k].witness), m \in UNION F  PROVE FALSE
      <4>1. k \in 1 .. L /\ k \notin hit
        BY <2>2 DEF L
      <4>2. m \in Lits /\ -m \in extension[k].witness
        BY <1>11, <4>1
      <4>3. m \in TaintOf(UNION F) /\ m \notin w[k - 1].tainted
        BY <1>10, <4>1, <4>2, <3>1
      <4>4. 0 \in 0 .. (k - 1) /\ k - 1 \in 0 .. L
        BY <4>1, <1>2
      <4> QED BY <4>3, <4>4, <1>6, <1>7
    <3> QED BY <3>1
  <2>3. v[Len(extension)] \cap UNION F \subseteq v[0]
    <3> HIDE DEF R, v
    <3> QED BY <2>2, <1>17, ChainKeeps
  <2>4. u[K] \cap UNION F \subseteq u[0]
    BY <2>3, <1>16 DEF L
  <2> QED BY <2>1, <2>4 DEF Satisfies
<1> QED BY <1>19, <1>20 DEF Satisfies

-----------------------------------------------------------------------------
(* The inductive invariant.                                                *)

\* The assignments that satisfy F and contain U.
Mod(F, U) == {a \in SUBSET Lits : Total(a) /\ Satisfies(a, F) /\ U \subseteq a}
Present(l) == status[VarOf(l)] \in {"active", "fixed"}
Good(c) == ~Tautology(c) /\ Cardinality(c) >= 2 /\ \A l \in c : Present(l)
\* A clause that propagation has nothing to do with.
OpenIn(c, U) == c \cap U # {} \/ Cardinality({l \in c : -l \notin U}) >= 2
\* While elimination and blocking run, redundant clauses may still have variables
\* that are eliminated.
Late == plan # <<>> /\ Head(plan) \in {"elim", "block"}

Types ==
  /\ irr \subseteq SUBSET Lits /\ red \subseteq SUBSET Lits /\ units \subseteq Lits
  /\ status \in [Vars -> {"active", "fixed", "eliminated", "pure", "substituted", "unused", "unmapped"}]
  /\ extension \in Seq(EntrySet) /\ observed \subseteq Vars /\ given \subseteq SUBSET Lits

\* The clauses are what the code calls clean: no tautology, no unit, no variable
\* that was removed.
Base ==
  /\ ~Inconsistent(units)
  /\ \A l \in Lits : Active(l) => l \notin units
  /\ \A c \in irr : Good(c)
  /\ \A c \in red : /\ ~Tautology(c) /\ Cardinality(c) >= 2
                    /\ \A l \in c : \/ Present(l)
                                    \/ Late /\ status[VarOf(l)] \in {"eliminated", "pure"}
  /\ work.kind # "substitute" => \A c \in irr : OpenIn(c, units)

\* No entry is mended at the cost of an observed variable, or against itself.
Harmless(st) ==
  \A j \in 1 .. Len(st) : /\ ~Inconsistent(st[j].witness)
                          /\ \A l \in st[j].witness : ~Frozen(l)

\* Both directions: what was given implies everything held, the entries of the
\* stack included, and what is held gives, by the stack, what was given.
Meaning ==
  /\ \A a : Total(a) /\ Satisfies(a, given) =>
       /\ Satisfies(a, irr \cup red) /\ units \subseteq a /\ Satisfies(a, Equivalences)
       /\ \A j \in 1 .. Len(extension) : extension[j].clause \cap a # {}
  /\ Harmless(extension)
  /\ work.kind # "substitute" => Reconstructs(Mod(irr, units), extension, given)

Procedures ==
  {"decompose", "ternary", "deduplicate", "probe", "subsume", "vivify", "vivify redundant",
   "transred", "connect", "elim", "instantiate", "block", "cover", "condition"}
\* Every elim is preceded by connect, which removes the true clauses.
PlanOK(q) ==
  /\ q \in Seq(Procedures)
  /\ \A i \in 2 .. Len(q) : q[i] = "elim" => q[i - 1] = "connect"
Planned ==
  /\ PlanOK(plan)
  /\ plan # <<>> /\ Head(plan) = "elim" => \A c \in irr : ~True(c)

\* The clauses elimination resolves: on the pivot, and with a gate only a gate
\* clause with another.
May(p, gate, c, d) == p \in c /\ -p \in d /\ (gate = {} \/ (c \in gate) # (d \in gate))
Others(p) == {c \in irr : p \notin c /\ -p \notin c}
Open(p) == p \notin units /\ -p \notin units

\* The resolvents on the pivot give no unit, except one with an equivalence gate
\* that has not been met yet and will fix the pivot.
NoUnits(p, gate, todo) ==
  \A c \in irr, d \in irr : May(p, gate, c, d) =>
    \/ Cardinality(Residual(Resolvent(c, p, d))) >= 2
    \/ /\ <<c, d>> \in todo
       /\ \E e, f \in irr, x \in Lits :
            gate = {e, f} /\ Residual(e) = {-p, x} /\ Residual(f) = {p, -x}
\* Resolvents that are done with are satisfied wherever the other clauses are.
Resolved(p, gate, todo) ==
  \A c \in irr, d \in irr : May(p, gate, c, d) =>
    <<c, d>> \in todo \/ \A a \in Mod(Others(p), units) : Resolvent(c, p, d) \cap a # {}
\* The gate's own resolvents are true, and some clause of it always needs the pivot:
\* so resolvents of two clauses outside the gate are implied.
Defines(p, gate) ==
  /\ gate \subseteq SUBSET Lits
  /\ \A c \in gate : (p \in c \/ -p \in c) /\ ~Tautology(c)
  /\ \A c \in gate, d \in gate : p \in c /\ -p \in d =>
       \A a \in Mod({}, units) : Resolvent(c, p, d) \cap a # {}
  /\ gate # {} => \A a \in Mod({}, units) : \E c \in gate : (c \ {p, -p}) \cap a = {}
\* A gate clause that was removed, by strengthening, is implied by the others.
GateKept(p, gate) ==
  \A c \in gate : c \in irr \/ \A a \in Mod(Others(p), units) : (c \ {p, -p}) \cap a # {}

\* A variable is being eliminated.
Resolving ==
  /\ work.kind = "resolve"
  /\ work = [kind |-> "resolve", pivot |-> work.pivot, gate |-> work.gate, todo |-> work.todo,
             adding |-> work.adding, found |-> work.found, count |-> work.count,
             bound |-> work.bound]
  /\ plan # <<>> /\ Head(plan) = "elim"
  /\ work.pivot \in Lits /\ ~Frozen(work.pivot) /\ work.adding \in BOOLEAN
  /\ work.todo \subseteq (SUBSET Lits) \X (SUBSET Lits)
  /\ \A q \in work.todo : May(work.pivot, work.gate, q[1], q[2])
  /\ Defines(work.pivot, work.gate)
  /\ work.adding => Open(work.pivot) /\ Resolved(work.pivot, work.gate, work.todo)
  /\ Open(work.pivot) =>
       /\ GateKept(work.pivot, work.gate)
       /\ NoUnits(work.pivot, work.gate, IF work.adding THEN {} ELSE work.todo)

InBackward ==
  /\ work.kind = "backward"
  /\ work = [kind |-> "backward", queue |-> work.queue]
  /\ plan # <<>> /\ Head(plan) = "elim"

\* A clause is being covered: the entries so far mend a model of the others that
\* satisfies the extended clause, and what is false besides follows.
Covering ==
  /\ work.kind = "cover"
  /\ work = [kind |-> "cover", clause |-> work.clause, false |-> work.false,
             covered |-> work.covered, stack |-> work.stack]
  /\ plan # <<>> /\ Head(plan) = "cover"
  /\ work.clause \in irr
  /\ work.false \subseteq Lits /\ work.covered \subseteq Lits
  /\ work.stack \in Seq(EntrySet) /\ Harmless(work.stack)
  /\ \A j \in 1 .. Len(work.stack) : work.clause \subseteq work.stack[j].clause
  /\ \A l \in work.covered : l \notin units /\ -l \notin units
  /\ \A a \in Mod(irr \ {work.clause}, units) :
       (work.clause \cup work.covered) \cap a = {} => work.false \cap a = {}
  /\ Reconstructs({a \in Mod(irr \ {work.clause}, units) : (work.clause \cup work.covered) \cap a # {}},
                  extension \o work.stack, given)

\* Clauses are tested for being globally blocked under one assignment.
Conditioning ==
  /\ work.kind = "condition"
  /\ work = [kind |-> "condition", clauses |-> work.clauses, trail |-> work.trail]
  /\ plan # <<>> /\ Head(plan) = "condition"
  /\ irr \subseteq work.clauses
  /\ work.trail \subseteq Lits /\ ~Inconsistent(work.trail)
  /\ \A l \in work.trail : l \notin units /\ -l \notin units /\ ~Frozen(l)

\* Representatives are consistent with negation, are present, and are their own;
\* fixed and frozen literals are never replaced.
Replaces(repr, l) ==
  /\ repr[-l] = -repr[l] /\ repr[repr[l]] = repr[l]
  /\ repr[l] = l \/ Present(repr[l])
  /\ l \in units \/ Frozen(l) => repr[l] = l
\* Clauses are being rewritten: those not to do any more have representatives only,
\* or are true already; the stack below the new entries reconstructs.
Substituting ==
  /\ work.kind = "substitute"
  /\ work = [kind |-> "substitute", repr |-> work.repr, todo |-> work.todo, late |-> work.late]
  /\ plan # <<>> /\ Head(plan) = "decompose"
  /\ work.repr \in [Lits -> Lits] /\ \A l \in Lits : Replaces(work.repr, l)
  /\ work.todo \subseteq irr \cup red
  /\ work.late \subseteq SUBSET Lits
  /\ \A c \in work.late : /\ \E l \in c : work.repr[l] # l
                          /\ \A a \in Mod(Equivalences, units) : c \cap a # {}
  /\ \A c \in irr \cup red : c \in work.todo \/ c \in work.late \/ \A l \in c : work.repr[l] = l
  /\ \E st \in Seq(EntrySet) :
       /\ extension = st \o EquivalenceEntries(work.repr)
       /\ Reconstructs(Mod(irr \cup Equivalences, units), st, given)

Working ==
  work = Idle \/ Resolving \/ InBackward \/ Covering \/ Conditioning \/ Substituting

NoModel == \A a : Total(a) => ~Satisfies(a, given)
\* The inductive invariant.
Inv == IF unsat THEN NoModel ELSE Types /\ Base /\ Meaning /\ Planned /\ Working

-----------------------------------------------------------------------------
(* What a step has to show.                                                *)

\* Satisfying a union, and a subset.
LEMMA SatisfiesParts ==
  ASSUME NEW a, NEW F, NEW H
  PROVE  /\ Satisfies(a, F \cup H) <=> Satisfies(a, F) /\ Satisfies(a, H)
         /\ F \subseteq H /\ Satisfies(a, H) => Satisfies(a, F)
BY DEF Satisfies

\* Fewer models with more clauses and literals.
LEMMA ModLess ==
  ASSUME NEW F, NEW U, NEW H, NEW V,
         \A a : Total(a) /\ Satisfies(a, F) /\ U \subseteq a => Satisfies(a, H) /\ V \subseteq a
  PROVE  Mod(F, U) \subseteq Mod(H, V)
BY DEF Mod

\* Under the root literals a clause is as true as its residual.
LEMMA ResidualLits ==
  ASSUME NEW c, c \subseteq Lits
  PROVE  /\ Residual(c) \subseteq c /\ Residual(c) \subseteq Lits
         /\ Residual(Residual(c)) = Residual(c)
         /\ \A a : Total(a) /\ units \subseteq a => Residual(c) \cap a = c \cap a
<1>1. ASSUME NEW a, Total(a), units \subseteq a  PROVE Residual(c) \cap a = c \cap a
  <2>1. ASSUME NEW l \in c, l \in a  PROVE l \in Residual(c)
    <3>1. -l \notin a
      BY <1>1, <2>1 DEF Total
    <3> QED BY <3>1, <1>1 DEF Residual
  <2> QED BY <2>1 DEF Residual
<1> QED BY <1>1 DEF Residual

\* Every assignment satisfies a tautology.
LEMMA TautologyHolds ==
  ASSUME NEW c, c \subseteq Lits, Tautology(c), NEW a, Total(a)
  PROVE  c \cap a # {}
BY DEF Tautology, Total

\* Two literals of a clause and what contains it.
LEMMA TwoInside ==
  ASSUME NEW S, NEW T, S \subseteq T, T \subseteq Lits, Cardinality(S) >= 2
  PROVE  Cardinality(T) >= 2
<1>1. PICK x \in S, y \in S : x # y
  BY TwoOrMore
<1> QED BY <1>1, TwoOrMore

\* Two literals do not fit into one.
LEMMA NotEmpty ==
  ASSUME NEW S, S \subseteq Lits, Cardinality(S) >= 2
  PROVE  S # {} /\ Cardinality(S) # 1 /\ \A x : S \ {x} # {}
<1>1. PICK x \in S, y \in S : x # y
  BY TwoOrMore
<1>2. Cardinality(S) # 1
  BY Singletons
<1> QED BY <1>1, <1>2

\* The invariant after a step that is neither inside a substitution.
Holds ==
  IF unsat THEN NoModel ELSE Types /\ Base /\ Meaning

Unchanged == observed' = observed /\ given' = given /\ extension' = extension
Searchable == /\ ~unsat /\ Types /\ Base /\ Meaning
              /\ work.kind # "substitute" /\ work'.kind # "substitute"

\* Units and status as they were.
LEMMA PlainStep ==
  ASSUME Searchable, Unchanged, units' = units, status' = status, unsat' = unsat,
         irr' \subseteq SUBSET Lits, red' \subseteq SUBSET Lits,
         \A c \in irr' : c \in irr \/ (Good(c) /\ OpenIn(c, units)),
         \A c \in red' : c \in red \/ Good(c),
         Late => Late' \/ \A c \in red' : \A l \in c : Present(l),
         \A a : Total(a) /\ Satisfies(a, irr \cup red) /\ units \subseteq a =>
                Satisfies(a, irr' \cup red'),
         \A a : Total(a) /\ Satisfies(a, irr') /\ units \subseteq a => Satisfies(a, irr)
  PROVE  Holds'
<1>1. Types'
  BY DEF Types, Searchable, Unchanged
<1>2. Base'
  <2>1. \A c : Good(c)' <=> Good(c)
    BY DEF Good, Present
  <2>2. \A c \in irr' : Good(c)' /\ OpenIn(c, units')
    BY <2>1 DEF Searchable, Base
  <2>3. ASSUME NEW c \in red'
        PROVE  /\ ~Tautology(c) /\ Cardinality(c) >= 2
               /\ \A l \in c : \/ Present(l)'
                               \/ Late' /\ status'[VarOf(l)] \in {"eliminated", "pure"}
    <3>1. CASE Good(c)
      BY <3>1 DEF Good, Present
    <3>2. CASE c \in red
      BY <3>2 DEF Searchable, Base, Present
    <3> QED BY <3>1, <3>2
  <2>4. ~Inconsistent(units') /\ \A l \in Lits : Active(l)' => l \notin units'
    BY DEF Searchable, Base, Active
  <2> QED BY <2>2, <2>3, <2>4 DEF Base
<1>3. Equivalences' = {}
  BY DEF Searchable, Equivalences
<1>4. Meaning'
  <2>1. ASSUME NEW a, Total(a), Satisfies(a, given')
        PROVE  /\ Satisfies(a, irr' \cup red') /\ units' \subseteq a /\ Satisfies(a, Equivalences')
               /\ \A j \in 1 .. Len(extension') : extension'[j].clause \cap a # {}
    <3>1. Satisfies(a, irr \cup red) /\ units \subseteq a
          /\ \A j \in 1 .. Len(extension) : extension[j].clause \cap a # {}
      BY <2>1 DEF Searchable, Meaning, Unchanged
    <3> QED BY <2>1, <3>1, <1>3 DEF Unchanged, Satisfies
  <2>2. Harmless(extension)'
    BY DEF Searchable, Meaning, Unchanged, Harmless, Frozen
  <2>3. Reconstructs(Mod(irr', units'), extension', given')
    <3>1. Mod(irr', units') \subseteq Mod(irr, units)
      BY ModLess
    <3>2. Reconstructs(Mod(irr, units), extension, given)
      BY DEF Searchable, Meaning
    <3>3. Reconstructs(Mod(irr', units'), extension, given)
      BY <3>1, <3>2, ReconstructsLess
    <3> QED BY <3>3 DEF Unchanged
  <2> QED BY <2>1, <2>2, <2>3 DEF Meaning
<1> QED BY <1>1, <1>2, <1>4 DEF Holds, Searchable

\* A propagation that runs to completion, over clauses F.
LEMMA PropagatedFacts ==
  ASSUME NEW F, F \subseteq SUBSET Lits, NEW U, U \subseteq Lits
  PROVE  LET T == Propagation(F, U) IN
         /\ T \subseteq Lits /\ U \subseteq T
         /\ \A a : Total(a) /\ Satisfies(a, F) /\ U \subseteq a => T \subseteq a
         /\ Inconsistent(T) => \A a : Total(a) /\ U \subseteq a => ~Satisfies(a, F)
         /\ ~Inconsistent(T) => \A c \in F : c # {} => OpenIn(c, T)
<1> DEFINE T == Propagation(F, U)
<1>1. T \subseteq Lits /\ U \subseteq T /\ Closed(F, T)
  BY PropagationFacts
<1>2. \A a : Total(a) /\ Satisfies(a, F) /\ U \subseteq a => T \subseteq a
  BY PropagationSound
<1>3. Inconsistent(T) => \A a : Total(a) /\ U \subseteq a => ~Satisfies(a, F)
  <2> HIDE DEF T
  <2> QED BY <1>2, TotalConsistent
<1>4. ASSUME ~Inconsistent(T), NEW c \in F, c # {}  PROVE OpenIn(c, T)
  <2> HIDE DEF T
  <2> QED BY <1>1, <1>4, ClosedClause DEF OpenIn
<1> HIDE DEF T
<1> QED BY <1>1, <1>2, <1>3, <1>4 DEF T

\* Fixed marks the units, and leaves the others as they are.
LEMMA FixedFacts ==
  ASSUME Types, \A l \in Lits : Active(l) => l \notin units,
         NEW T, T \subseteq Lits, units' = T, status' = Fixed(T)
  PROVE  /\ status' \in [Vars -> {"active", "fixed", "eliminated", "pure", "substituted", "unused", "unmapped"}]
         /\ \A l \in Lits : Active(l)' => l \notin units'
         /\ \A l \in Lits : Present(l) => Present(l)'
         /\ \A l \in Lits : status'[VarOf(l)] = "fixed" \/ status'[VarOf(l)] = status[VarOf(l)]
         /\ \A c : c \subseteq Lits /\ Good(c) => Good(c)'
<1>1. \A v \in Vars : status'[v] = IF v \in VarsOf(T) THEN "fixed" ELSE status[v]
  BY DEF Fixed
<1>2. \A l \in Lits : VarOf(l) \in Vars
  BY LitFacts
<1>3. \A l \in T : VarOf(l) \in VarsOf(T)
  BY DEF VarsOf
<1>4. \A l \in Lits : Active(l)' => l \notin units'
  BY <1>1, <1>2, <1>3 DEF Active
<1>5. \A l \in Lits : Present(l) => Present(l)'
  BY <1>1, <1>2 DEF Present
<1>6. \A c : c \subseteq Lits /\ Good(c) => Good(c)'
  BY <1>5 DEF Good
<1>7. status' \in [Vars -> {"active", "fixed", "eliminated", "pure", "substituted", "unused", "unmapped"}]
  BY DEF Types, Fixed
<1> QED BY <1>1, <1>2, <1>4, <1>5, <1>6, <1>7

\* Replacing clauses by clauses the solver's models satisfy, from whose models the
\* old ones follow, and propagating, keeps what the invariant says of them.
LEMMA BecomeStep ==
  ASSUME Searchable, Unchanged, NEW i, NEW r, NEW L, Become(i, r, L),
         i \subseteq SUBSET Lits, r \subseteq SUBSET Lits, L \subseteq Lits,
         \A c \in i \cup r : Good(c),
         \A a : Total(a) /\ Satisfies(a, irr \cup red) /\ units \subseteq a =>
                Satisfies(a, i \cup r) /\ L \subseteq a,
         \A a : Total(a) /\ Satisfies(a, i) /\ units \cup L \subseteq a => Satisfies(a, irr)
  PROVE  Holds'
<1> DEFINE T == Propagation(i \cup r, units \cup L)
<1>1. irr' = i /\ red' = r
      /\ IF Inconsistent(T) THEN unsat' = TRUE /\ UNCHANGED <<units, status>>
                            ELSE units' = T /\ status' = Fixed(T) /\ UNCHANGED unsat
  BY DEF Become
<1>2. units \subseteq Lits /\ i \cup r \subseteq SUBSET Lits /\ units \cup L \subseteq Lits
  BY DEF Searchable, Types
<1>3. /\ T \subseteq Lits /\ units \cup L \subseteq T
      /\ \A a : Total(a) /\ Satisfies(a, i \cup r) /\ units \cup L \subseteq a => T \subseteq a
      /\ Inconsistent(T) => \A a : Total(a) /\ units \cup L \subseteq a => ~Satisfies(a, i \cup r)
      /\ ~Inconsistent(T) => \A c \in i \cup r : c # {} => OpenIn(c, T)
  BY <1>2, PropagatedFacts
<1> HIDE DEF T
<1>4. \A a : Total(a) /\ Satisfies(a, given) =>
         Satisfies(a, i \cup r) /\ units \cup L \subseteq a
  BY DEF Searchable, Meaning
<1>5. CASE Inconsistent(T)
  BY <1>5, <1>1, <1>3, <1>4 DEF Holds, NoModel, Unchanged
<1>6. CASE ~Inconsistent(T)
  <2>1. units' = T /\ status' = Fixed(T) /\ ~unsat'
    BY <1>6, <1>1 DEF Searchable
  <2>2. /\ status' \in [Vars -> {"active", "fixed", "eliminated", "pure", "substituted", "unused", "unmapped"}]
        /\ \A l \in Lits : Active(l)' => l \notin units'
        /\ \A c : c \subseteq Lits /\ Good(c) => Good(c)'
    BY <2>1, <1>3, FixedFacts DEF Searchable, Base
  <2>3. Types'
    BY <1>1, <1>3, <2>1, <2>2 DEF Types, Searchable, Unchanged
  <2>4. Base'
    <3>1. \A c \in irr' \cup red' : Good(c)'
      BY <1>1, <1>2, <2>2
    <3>2. \A c \in irr' : c # {}
      BY <1>1, <1>2, NotEmpty DEF Good
    <3>3. \A c \in irr' : OpenIn(c, units')
      BY <3>2, <1>1, <1>3, <1>6, <2>1
    <3> QED BY <3>1, <3>3, <2>1, <2>2, <1>6 DEF Base, Good
  <2>5. Equivalences' = {}
    BY DEF Searchable, Equivalences
  <2>6. Meaning'
    <3>1. ASSUME NEW a, Total(a), Satisfies(a, given')
          PROVE  /\ Satisfies(a, irr' \cup red') /\ units' \subseteq a /\ Satisfies(a, Equivalences')
                 /\ \A j \in 1 .. Len(extension') : extension'[j].clause \cap a # {}
      <4>1. Satisfies(a, i \cup r) /\ units \cup L \subseteq a
            /\ \A j \in 1 .. Len(extension) : extension[j].clause \cap a # {}
        BY <3>1, <1>4 DEF Searchable, Meaning, Unchanged
      <4>2. T \subseteq a
        BY <3>1, <4>1, <1>3
      <4>3. Satisfies(a, Equivalences')
        BY <2>5 DEF Satisfies
      <4>4. Satisfies(a, irr' \cup red') /\ units' \subseteq a
        BY <4>1, <4>2, <1>1, <2>1
      <4>5. \A j \in 1 .. Len(extension') : extension'[j].clause \cap a # {}
        BY <4>1 DEF Unchanged
      <4> QED BY <4>3, <4>4, <4>5
    <3>2. Harmless(extension)'
      BY DEF Searchable, Meaning, Unchanged, Harmless, Frozen
    <3>3. Reconstructs(Mod(irr', units'), extension', given')
      <4>1. Mod(irr', units') \subseteq Mod(irr, units)
        BY <1>1, <1>3, <2>1, ModLess
      <4>2. Reconstructs(Mod(irr, units), extension, given)
        BY DEF Searchable, Meaning
      <4>3. Reconstructs(Mod(irr', units'), extension, given)
        BY <4>1, <4>2, ReconstructsLess
      <4> QED BY <4>3 DEF Unchanged
    <3> QED BY <3>1, <3>2, <3>3 DEF Meaning
  <2> QED BY <2>1, <2>3, <2>4, <2>6 DEF Holds
<1> QED BY <1>5, <1>6

\* Propagation over the irredundant clauses only, in occurrence list mode.
LEMMA EagerStep ==
  ASSUME Searchable, Unchanged, NEW i, NEW L, BecomeEagerly(i, L), red' = red, Late', 
         i \subseteq SUBSET Lits, L \subseteq Lits,
         \A c \in i : Good(c),
         \A a : Total(a) /\ Satisfies(a, irr \cup red) /\ units \subseteq a =>
                Satisfies(a, i) /\ L \subseteq a,
         \A a : Total(a) /\ Satisfies(a, i) /\ units \cup L \subseteq a => Satisfies(a, irr)
  PROVE  /\ Holds'
         /\ ~unsat' => /\ \A c \in irr' : c \cap units' = {} /\ c \in i
                       /\ \A c \in i : c \in irr' \/ c \cap units' # {}
                       /\ units' = Propagation(i, units \cup L) /\ ~Inconsistent(units')
<1> DEFINE T == Propagation(i, units \cup L)
<1>1. irr' = {c \in i : c \cap T = {}}
      /\ IF Inconsistent(T) THEN unsat' = TRUE /\ UNCHANGED <<units, status>>
                            ELSE units' = T /\ status' = Fixed(T) /\ UNCHANGED unsat
  BY DEF BecomeEagerly
<1>2. units \subseteq Lits /\ units \cup L \subseteq Lits
  BY DEF Searchable, Types
<1>3. /\ T \subseteq Lits /\ units \cup L \subseteq T
      /\ \A a : Total(a) /\ Satisfies(a, i) /\ units \cup L \subseteq a => T \subseteq a
      /\ Inconsistent(T) => \A a : Total(a) /\ units \cup L \subseteq a => ~Satisfies(a, i)
      /\ ~Inconsistent(T) => \A c \in i : c # {} => OpenIn(c, T)
  BY <1>2, PropagatedFacts
<1> HIDE DEF T
<1>4. \A a : Total(a) /\ Satisfies(a, given) =>
         Satisfies(a, i) /\ Satisfies(a, red) /\ units \cup L \subseteq a
  BY SatisfiesParts DEF Searchable, Meaning
<1>5. CASE Inconsistent(T)
  BY <1>5, <1>1, <1>3, <1>4 DEF Holds, NoModel, Unchanged
<1>6. CASE ~Inconsistent(T)
  <2>1. units' = T /\ status' = Fixed(T) /\ ~unsat'
    BY <1>6, <1>1 DEF Searchable
  <2>2. /\ status' \in [Vars -> {"active", "fixed", "eliminated", "pure", "substituted", "unused", "unmapped"}]
        /\ \A l \in Lits : Active(l)' => l \notin units'
        /\ \A l \in Lits : Present(l) => Present(l)'
        /\ \A l \in Lits : status'[VarOf(l)] = "fixed" \/ status'[VarOf(l)] = status[VarOf(l)]
        /\ \A c : c \subseteq Lits /\ Good(c) => Good(c)'
    BY <2>1, <1>3, FixedFacts DEF Searchable, Base
  <2>3. Types'
    <3>1. irr' \subseteq SUBSET Lits
      BY <1>1
    <3> QED BY <3>1, <1>3, <2>1, <2>2 DEF Types, Searchable, Unchanged
  <2>4. Base'
    <3>1. \A c \in irr' : Good(c)'
      BY <1>1, <1>2, <2>2
    <3>2. \A c \in irr' : c # {} /\ c \in i
      BY <1>1, <1>2, NotEmpty DEF Good
    <3>3. \A c \in irr' : OpenIn(c, units')
      BY <3>2, <1>1, <1>3, <1>6, <2>1
    <3>4. ASSUME NEW c \in red'
          PROVE  /\ ~Tautology(c) /\ Cardinality(c) >= 2
                 /\ \A l \in c : Present(l)' \/ (Late' /\ status'[VarOf(l)] \in {"eliminated", "pure"})
      <4>1. c \in red /\ c \subseteq Lits
        BY DEF Searchable, Types
      <4>2. ~Tautology(c) /\ Cardinality(c) >= 2
        BY <4>1 DEF Searchable, Base
      <4>3. ASSUME NEW l \in c
            PROVE  Present(l)' \/ (Late' /\ status'[VarOf(l)] \in {"eliminated", "pure"})
        <5>1. l \in Lits /\ (Present(l) \/ status[VarOf(l)] \in {"eliminated", "pure"})
          BY <4>1, <4>3 DEF Searchable, Base
        <5> QED BY <5>1, <2>2 DEF Present
      <4> QED BY <4>2, <4>3
    <3> QED BY <3>1, <3>3, <3>4, <2>1, <2>2, <1>6 DEF Base
  <2>5. Equivalences' = {}
    BY DEF Searchable, Equivalences
  <2>6. Meaning'
    <3>1. ASSUME NEW a, Total(a), Satisfies(a, given')
          PROVE  /\ Satisfies(a, irr' \cup red') /\ units' \subseteq a /\ Satisfies(a, Equivalences')
                 /\ \A j \in 1 .. Len(extension') : extension'[j].clause \cap a # {}
      <4>1. Satisfies(a, i) /\ Satisfies(a, red) /\ units \cup L \subseteq a
            /\ \A j \in 1 .. Len(extension) : extension[j].clause \cap a # {}
        BY <3>1, <1>4 DEF Searchable, Meaning, Unchanged
      <4>2. T \subseteq a
        BY <3>1, <4>1, <1>3
      <4>3. Satisfies(a, Equivalences')
        BY <2>5 DEF Satisfies
      <4>4. Satisfies(a, irr' \cup red') /\ units' \subseteq a
        BY <4>1, <4>2, <1>1, <2>1 DEF Satisfies
      <4>5. \A j \in 1 .. Len(extension') : extension'[j].clause \cap a # {}
        BY <4>1 DEF Unchanged
      <4> QED BY <4>3, <4>4, <4>5
    <3>2. Harmless(extension)'
      BY DEF Searchable, Meaning, Unchanged, Harmless, Frozen
    <3>3. Reconstructs(Mod(irr', units'), extension', given')
      <4>1. Mod(irr', units') \subseteq Mod(irr, units)
        <5>1. ASSUME NEW a, Total(a), Satisfies(a, irr'), units' \subseteq a
              PROVE  Satisfies(a, irr) /\ units \subseteq a
          <6>1. Satisfies(a, i)
            <7>1. ASSUME NEW c \in i  PROVE c \cap a # {}
              <8>1. CASE c \cap T = {}
                BY <8>1, <5>1, <1>1 DEF Satisfies
              <8>2. CASE c \cap T # {}
                BY <8>2, <5>1, <2>1
              <8> QED BY <8>1, <8>2
            <7> QED BY <7>1 DEF Satisfies
          <6> QED BY <6>1, <5>1, <2>1, <1>3
        <5> QED BY <5>1, ModLess
      <4>2. Reconstructs(Mod(irr, units), extension, given)
        BY DEF Searchable, Meaning
      <4>3. Reconstructs(Mod(irr', units'), extension, given)
        BY <4>1, <4>2, ReconstructsLess
      <4> QED BY <4>3 DEF Unchanged
    <3> QED BY <3>1, <3>2, <3>3 DEF Meaning
  <2>7. /\ \A c \in irr' : c \cap units' = {} /\ c \in i
        /\ \A c \in i : c \in irr' \/ c \cap units' # {}
        /\ units' = T /\ ~Inconsistent(units')
    BY <2>1, <1>1, <1>6
  <2> QED BY <2>1, <2>3, <2>4, <2>6, <2>7 DEF Holds, T
<1>7. unsat' => Inconsistent(T)
  BY <1>1 DEF Searchable
<1> QED BY <1>5, <1>6, <1>7, <1>1

-----------------------------------------------------------------------------
(* Steps of procedures that are neither elimination nor blocked clauses.   *)

NoHurry == UNCHANGED <<extension, user, control>>

\* The parts of the invariant while the solver is not unsatisfiable.
LEMMA InvParts ==
  ASSUME Inv, ~unsat
  PROVE  Types /\ Base /\ Meaning /\ Planned /\ Working
BY DEF Inv

\* Between the steps of a procedure that does not work on occurrence lists.
LEMMA IdleProcedure ==
  ASSUME Inv, NEW proc, At(proc), proc \notin {"elim", "block"}, NoHurry
  PROVE  /\ Searchable /\ Unchanged /\ ~Late
         /\ \A c \in irr \cup red : c \subseteq Lits /\ Good(c)
         /\ Holds' => Inv'
<1>1. ~unsat /\ plan # <<>> /\ Head(plan) = proc /\ work = Idle
  BY DEF At
<1>2. Types /\ Base /\ Meaning /\ Planned
  BY <1>1, InvParts
<1>3. plan' = plan /\ work' = work /\ observed' = observed /\ given' = given /\ extension' = extension
  BY DEF NoHurry, user, control
<1>4. Idle.kind = "idle" /\ Idle' = Idle
  BY DEF Idle
<1>5. work.kind # "substitute" /\ work'.kind # "substitute"
  BY <1>1, <1>3, <1>4
<1>6. Searchable /\ Unchanged /\ ~Late
  BY <1>1, <1>2, <1>3, <1>5 DEF Searchable, Unchanged, Late
<1>7. \A c \in irr \cup red : c \subseteq Lits /\ Good(c)
  BY <1>2, <1>6 DEF Types, Base, Good
<1>8. ASSUME Holds'  PROVE Inv'
  <2>1. Planned'
    BY <1>1, <1>2, <1>3 DEF Planned, PlanOK
  <2>2. Working'
    BY <1>1, <1>3, <1>4 DEF Working
  <2> QED BY <2>1, <2>2, <1>8 DEF Holds, Inv, NoModel
<1> QED BY <1>6, <1>7, <1>8

\* Clauses go, or irredundant ones come from the others.
LEMMA RemovalStep ==
  ASSUME Inv, NEW proc, At(proc), proc \notin {"elim", "block"}, NoHurry,
         UNCHANGED <<units, unsat, status>>,
         irr' \subseteq irr \cup red, red' \subseteq red,
         \A c \in irr' : c \in irr \/ OpenIn(c, units),
         \A a : Total(a) /\ Satisfies(a, irr') /\ units \subseteq a => Satisfies(a, irr)
  PROVE  Inv'
<1>1. /\ Searchable /\ Unchanged /\ ~Late
      /\ \A c \in irr \cup red : c \subseteq Lits /\ Good(c)
      /\ Holds' => Inv'
  BY IdleProcedure
<1>2. irr' \subseteq SUBSET Lits /\ red' \subseteq SUBSET Lits
  BY <1>1
<1>3. \A a : Total(a) /\ Satisfies(a, irr \cup red) /\ units \subseteq a =>
                Satisfies(a, irr' \cup red')
  BY DEF Satisfies
<1>4. \A c \in irr' : c \in irr \/ (Good(c) /\ OpenIn(c, units))
  BY <1>1
<1>5. Holds'
  BY <1>1, <1>2, <1>3, <1>4, PlainStep
<1> QED BY <1>1, <1>5

\* A clause none of whose literals has a root value is open.
LEMMA UndecidedOpen ==
  ASSUME NEW c, c \subseteq Lits, units \subseteq Lits, Undecided(c)
  PROVE  /\ Residual(c) = c /\ c \cap units = {} /\ {l \in c : -l \notin units} = c
         /\ Cardinality(c) >= 2 => OpenIn(c, units)
<1>1. ASSUME NEW l \in c  PROVE l \notin units /\ -l \notin units
  <2>1. l \in Lits /\ VarOf(l) \in VarsOf(c)
    BY DEF VarsOf
  <2>2. VarOf(l) \notin VarsOf(units)
    BY <2>1 DEF Undecided
  <2> QED BY <2>1, <2>2, VarsOfFacts
<1>2. {l \in c : -l \notin units} = c
  BY <1>1
<1> QED BY <1>1, <1>2 DEF Residual, OpenIn

\* A clause of size two is the pair of its literals.
LEMMA PairOf ==
  ASSUME NEW c, c \subseteq Lits, Cardinality(c) = 2, NEW x \in c, NEW y \in c, x # y
  PROVE  c = {x, y}
<1>1. IsFiniteSet(c)
  BY Singletons
<1>2. Cardinality(c \ {x}) = 1
  BY <1>1, FS_RemoveElement
<1>3. PICK z \in c \ {x} : c \ {x} = {z}
  BY <1>2, Singletons
<1> QED BY <1>3

\* A subsumed clause may go: the one that subsumes it stays, irredundant if it was.
LEMMA SubsumeInv ==
  ASSUME Inv, Subsume
  PROVE  Inv'
<1>1. At("subsume")
  BY DEF Subsume
<1>2. PICK c \in Formula, d \in Connected :
        /\ Cardinality(c) > 2 /\ Undecided(c) /\ d \subseteq c /\ d # c
        /\ IF c \in irr /\ d \notin irr
           THEN irr' = (irr \ {c}) \cup {d} /\ red' = red \ {c, d}
           ELSE irr' = irr \ {c} /\ red' = red \ {c}
        /\ UNCHANGED <<units, unsat, status, extension, user, control>>
  BY DEF Subsume
<1>3. NoHurry /\ UNCHANGED <<units, unsat, status>>
  BY <1>2 DEF NoHurry
<1>4. \A e \in irr \cup red : e \subseteq Lits /\ Good(e)
  BY <1>1, <1>3, IdleProcedure
<1>5. units \subseteq Lits
  BY <1>1, InvParts DEF At, Types
<1>6. d \in irr \cup red /\ OpenIn(d, units)
  <2>1. d \in irr \cup red /\ Undecided(d)
    BY DEF Connected, Formula
  <2> QED BY <2>1, <1>4, <1>5, UndecidedOpen DEF Good
<1>7. irr' \subseteq irr \cup red /\ red' \subseteq red /\ \A e \in irr' : e \in irr \/ OpenIn(e, units)
  BY <1>2, <1>6
<1>8. c \in irr => d \in irr' /\ irr \ {c} \subseteq irr'
  BY <1>2
<1>9. c \notin irr => irr \subseteq irr'
  BY <1>2
<1>10. \A a : Total(a) /\ Satisfies(a, irr') /\ units \subseteq a => Satisfies(a, irr)
  BY <1>2, <1>8, <1>9 DEF Satisfies
<1> QED BY <1>1, <1>3, <1>7, <1>10, RemovalStep

\* Self-subsuming resolution removes a literal that the resolvent does not need.
LEMMA StrengthenInv ==
  ASSUME Inv, Strengthen
  PROVE  Inv'
<1>1. At("subsume")
  BY DEF Strengthen
<1> DEFINE short(F, c, s) == IF c \in F THEN (F \ {c}) \cup {s} ELSE F
<1>2. PICK c \in Formula, d \in Connected : \E l \in c :
        /\ Cardinality(c) > 2 /\ Undecided(c) /\ -l \in d /\ d \ {-l} \subseteq c \ {l}
        /\ irr' = short(irr, c, c \ {l}) /\ red' = short(red, c, c \ {l})
        /\ UNCHANGED <<units, unsat, status, extension, user, control>>
  BY DEF Strengthen
<1>3. PICK l \in c :
        /\ Cardinality(c) > 2 /\ Undecided(c) /\ -l \in d /\ d \ {-l} \subseteq c \ {l}
        /\ irr' = short(irr, c, c \ {l}) /\ red' = short(red, c, c \ {l})
        /\ UNCHANGED <<units, unsat, status, extension, user, control>>
  BY <1>2
<1>4. NoHurry /\ UNCHANGED <<units, unsat, status>>
  BY <1>3 DEF NoHurry
<1>5. /\ \A e \in irr \cup red : e \subseteq Lits /\ Good(e)
      /\ Searchable /\ Unchanged /\ ~Late /\ (Holds' => Inv')
  BY <1>1, <1>4, IdleProcedure
<1>6. units \subseteq Lits
  BY <1>5 DEF Searchable, Types
<1>7. c \in irr \cup red /\ d \in irr \cup red
  BY DEF Connected, Formula
<1> DEFINE s == c \ {l}
<1>8. Good(s) /\ s \subseteq Lits /\ OpenIn(s, units)
  <2>1. IsFiniteSet(c) /\ Cardinality(s) = Cardinality(c) - 1 /\ Cardinality(c) \in Nat
    BY <1>5, <1>7, Singletons, FS_RemoveElement
  <2>2. Cardinality(s) >= 2
    BY <2>1, <1>3
  <2>3. Good(s)
    BY <2>2, <1>5, <1>7 DEF Good, Tautology
  <2>4. Undecided(s)
    BY <1>3 DEF Undecided, VarsOf
  <2> QED BY <1>5, <1>6, <1>7, <2>2, <2>3, <2>4, UndecidedOpen
<1>9. ASSUME NEW a, Total(a), Satisfies(a, irr \cup red)  PROVE s \cap a # {}
  <2>1. c \cap a # {} /\ d \cap a # {}
    BY <1>7, <1>9 DEF Satisfies
  <2>2. l \in a => -l \notin a
    BY <1>5, <1>7, <1>9 DEF Total
  <2> QED BY <1>3, <2>1, <2>2
<1> HIDE DEF s
<1>10. \A e \in irr' \cup red' : e \in irr \cup red \/ e = s
  BY <1>3 DEF s
<1>11. irr' \subseteq SUBSET Lits /\ red' \subseteq SUBSET Lits
  BY <1>5, <1>8, <1>10
<1>12. \A e \in irr' : e \in irr \/ (Good(e) /\ OpenIn(e, units))
  BY <1>3, <1>8 DEF s
<1>13. \A e \in red' : e \in red \/ Good(e)
  BY <1>3, <1>8 DEF s
<1>14. \A a : Total(a) /\ Satisfies(a, irr \cup red) /\ units \subseteq a =>
                Satisfies(a, irr' \cup red')
  BY <1>9, <1>10 DEF Satisfies
<1>15. \A a : Total(a) /\ Satisfies(a, irr') /\ units \subseteq a => Satisfies(a, irr)
  <2>1. ASSUME NEW a, Satisfies(a, irr'), NEW e \in irr  PROVE e \cap a # {}
    <3>1. CASE e = c
      <4>1. s \in irr'
        BY <3>1, <1>3 DEF s
      <4> QED BY <4>1, <3>1, <2>1 DEF Satisfies, s
    <3>2. CASE e # c
      <4>1. e \in irr'
        BY <3>2, <1>3
      <4> QED BY <4>1, <2>1 DEF Satisfies
    <3> QED BY <3>1, <3>2
  <2> QED BY <2>1 DEF Satisfies
<1>16. Holds'
  BY <1>4, <1>5, <1>11, <1>12, <1>13, <1>14, <1>15, PlainStep
<1> QED BY <1>5, <1>16

-----------------------------------------------------------------------------
(* Vivification.                                                           *)

\* vivify propagates over clauses the solver keeps: for an irredundant clause, over
\* the other irredundant ones.
LEMMA VivifiedFacts ==
  ASSUME Inv, NEW c \in Vivified
  PROVE  /\ c \in irr \cup red /\ ~unsat /\ c \subseteq Lits /\ units \subseteq Lits
         /\ Rest(c) \subseteq SUBSET Lits
         /\ \E proc : At(proc) /\ proc \notin {"elim", "block"}
         /\ \A a : Satisfies(a, irr \cup red) => Satisfies(a, Rest(c))
         /\ c \in irr => Rest(c) = irr \ {c}
<1>1. (At("vivify") /\ c \in irr) \/ (At("vivify redundant") /\ c \in red \ irr)
  BY DEF Vivified
<1>2. ~unsat
  BY <1>1 DEF At
<1>3. irr \subseteq SUBSET Lits /\ red \subseteq SUBSET Lits /\ units \subseteq Lits
  BY <1>2, InvParts DEF Types
<1>4. Rest(c) \subseteq irr \cup red
  BY DEF Rest, Formula
<1>5. "vivify" \notin {"elim", "block"} /\ "vivify redundant" \notin {"elim", "block"}
  OBVIOUS
<1> QED BY <1>1, <1>2, <1>3, <1>4, <1>5 DEF Rest, Satisfies

\* Assuming literals false that an assignment makes false stays inside it.
LEMMA AssumingSound ==
  ASSUME Inv, NEW c \in Vivified, NEW D, D \subseteq c,
         NEW a, Total(a), Satisfies(a, Rest(c)), units \subseteq a, D \cap a = {}
  PROVE  Assuming(c, D) \subseteq a /\ Negated(D) \subseteq a /\ ~Inconsistent(Assuming(c, D))
<1>1. c \subseteq Lits /\ Rest(c) \subseteq SUBSET Lits /\ units \subseteq Lits
  BY VivifiedFacts
<1>2. Negated(D) \subseteq a
  <2>1. \A l \in D : -l \in a
    BY <1>1 DEF Total
  <2> QED BY <2>1 DEF Negated
<1>3. Assuming(c, D) \subseteq a
  BY <1>1, <1>2, PropagationSound DEF Assuming
<1> QED BY <1>2, <1>3, TotalConsistent

\* A clause that is true at the root may go.
LEMMA VivifySatisfiedInv ==
  ASSUME Inv, VivifySatisfied
  PROVE  Inv'
<1>1. PICK c \in Vivified :
        /\ True(c) /\ irr' = irr \ {c} /\ red' = red \ {c}
        /\ UNCHANGED <<units, unsat, status, extension, user, control>>
  BY DEF VivifySatisfied
<1>2. PICK proc : At(proc) /\ proc \notin {"elim", "block"}
  BY VivifiedFacts
<1>3. NoHurry /\ UNCHANGED <<units, unsat, status>>
  BY <1>1 DEF NoHurry
<1>4. \A a : Total(a) /\ Satisfies(a, irr') /\ units \subseteq a => Satisfies(a, irr)
  BY <1>1 DEF Satisfies, True
<1>5. irr' \subseteq irr /\ red' \subseteq red
  BY <1>1
<1> QED BY <1>2, <1>3, <1>4, <1>5, RemovalStep

\* A clause the clauses propagated over imply may go.
LEMMA VivifyImpliedInv ==
  ASSUME Inv, VivifyImplied
  PROVE  Inv'
<1>1p. PICK c \in Vivified : \E D \in SUBSET Residual(c) :
        /\ Inconsistent(Assuming(c, D)) \/ (c \ D) \cap Assuming(c, D) # {}
        /\ irr' = irr \ {c} /\ red' = red \ {c}
        /\ UNCHANGED <<units, unsat, status, extension, user, control>>
  BY DEF VivifyImplied
<1>1. PICK D \in SUBSET Residual(c) :
        /\ Inconsistent(Assuming(c, D)) \/ (c \ D) \cap Assuming(c, D) # {}
        /\ irr' = irr \ {c} /\ red' = red \ {c}
        /\ UNCHANGED <<units, unsat, status, extension, user, control>>
  BY <1>1p
<1>2. PICK proc : At(proc) /\ proc \notin {"elim", "block"}
  BY VivifiedFacts
<1>3. NoHurry /\ UNCHANGED <<units, unsat, status>>
  BY <1>1 DEF NoHurry
<1>4. ASSUME NEW a, Total(a), Satisfies(a, irr'), units \subseteq a  PROVE Satisfies(a, irr)
  <2>1. ASSUME c \in irr, c \cap a = {}  PROVE FALSE
    <3>1. Satisfies(a, Rest(c))
      BY <2>1, <1>1, <1>4, VivifiedFacts
    <3>2. D \subseteq c
      BY DEF Residual
    <3>3. Assuming(c, D) \subseteq a /\ ~Inconsistent(Assuming(c, D))
      BY <3>1, <3>2, <1>4, <2>1, AssumingSound
    <3> QED BY <3>3, <1>1, <2>1
  <2> QED BY <2>1, <1>1, <1>4 DEF Satisfies
<1>5. irr' \subseteq irr /\ red' \subseteq red
  BY <1>1
<1> QED BY <1>2, <1>3, <1>4, <1>5, RemovalStep

\* Replacing a clause by a part of it that all models satisfy.
LEMMA ShortenedStep ==
  ASSUME Inv, NEW proc, At(proc), proc \notin {"elim", "block"}, NoHurry,
         NEW c \in irr \cup red, NEW s, s \subseteq c, s # {}, Shortened(c, s),
         \A a : Total(a) /\ Satisfies(a, irr \cup red) /\ units \subseteq a => s \cap a # {}
  PROVE  Inv'
<1> DEFINE short(F) == IF c \notin F THEN F
                       ELSE IF Cardinality(s) = 1 THEN F \ {c} ELSE (F \ {c}) \cup {s}
           L == IF Cardinality(s) = 1 THEN s ELSE {}
<1>1. Become(short(irr), short(red), L)
  BY DEF Shortened
<1>2. /\ Searchable /\ Unchanged
      /\ \A e \in irr \cup red : e \subseteq Lits /\ Good(e)
      /\ Holds' => Inv'
  BY IdleProcedure
<1>3. Cardinality(s) # 1 => Good(s)
  <2>1. s \subseteq Lits /\ Cardinality(s) \in Nat /\ Cardinality(s) # 0
    BY <1>2, Singletons
  <2>2. Cardinality(s) # 1 => Cardinality(s) >= 2
    BY <2>1
  <2> QED BY <2>2, <1>2 DEF Good, Tautology
<1>4. \A e \in short(irr) \cup short(red) : e \in irr \cup red \/ (e = s /\ Cardinality(s) # 1)
  OBVIOUS
<1>5. \A e \in irr : e # c => e \in short(irr)
  OBVIOUS
<1>6. c \in irr => s \in short(irr) \/ L = s
  OBVIOUS
<1>7. L \subseteq s /\ \A a : s \cap a # {} => L \subseteq a
  <2>1. CASE Cardinality(s) = 1
    <3>1. PICK x \in s : s = {x}
      BY <2>1, <1>2, Singletons
    <3> QED BY <3>1
  <2>2. CASE Cardinality(s) # 1
    BY <2>2
  <2> QED BY <2>1, <2>2
<1> HIDE DEF short, L
<1>8. short(irr) \subseteq SUBSET Lits /\ short(red) \subseteq SUBSET Lits /\ L \subseteq Lits
  BY <1>2, <1>4, <1>7
<1>9. \A e \in short(irr) \cup short(red) : Good(e)
  BY <1>2, <1>3, <1>4
<1>10. \A a : Total(a) /\ Satisfies(a, irr \cup red) /\ units \subseteq a =>
                Satisfies(a, short(irr) \cup short(red)) /\ L \subseteq a
  BY <1>4, <1>7 DEF Satisfies
<1>11. ASSUME NEW a, Total(a), Satisfies(a, short(irr)), units \cup L \subseteq a
       PROVE  Satisfies(a, irr)
  <2>1. ASSUME c \in irr  PROVE c \cap a # {}
    <3>1. s \cap a # {}
      BY <2>1, <1>6, <1>11 DEF Satisfies
    <3> QED BY <3>1
  <2> QED BY <2>1, <1>5, <1>11 DEF Satisfies
<1> DEFINE i == short(irr)
           r == short(red)
<1> HIDE DEF i, r
<1>12. Holds'
  <2>1. /\ Searchable /\ Unchanged /\ Become(i, r, L)
        /\ i \subseteq SUBSET Lits /\ r \subseteq SUBSET Lits /\ L \subseteq Lits
        /\ \A e \in i \cup r : Good(e)
        /\ \A a : Total(a) /\ Satisfies(a, irr \cup red) /\ units \subseteq a =>
                 Satisfies(a, i \cup r) /\ L \subseteq a
        /\ \A a : Total(a) /\ Satisfies(a, i) /\ units \cup L \subseteq a => Satisfies(a, irr)
    BY <1>1, <1>2, <1>8, <1>9, <1>10, <1>11 DEF i, r
  <2> QED BY ONLY <2>1, BecomeStep, ZenonT(60)
<1> QED BY <1>2, <1>12

\* The decisions the conflict depends on, with the implied literal if that stopped
\* the loop, are such a part.
LEMMA VivifyAnalyzedInv ==
  ASSUME Inv, VivifyAnalyzed
  PROVE  Inv'
<1>1p. PICK c \in Vivified : \E D \in SUBSET Residual(c) : \E s \in SUBSET c :
        /\ s # {}
        /\ \/ s = D /\ Inconsistent(Assuming(c, D))
           \/ \E l \in (c \ D) \cap Assuming(c, D) : s = D \cup {l}
        /\ Shortened(c, s)
        /\ UNCHANGED <<extension, user, control>>
  BY DEF VivifyAnalyzed
<1>1q. PICK D \in SUBSET Residual(c) : \E s \in SUBSET c :
        /\ s # {}
        /\ \/ s = D /\ Inconsistent(Assuming(c, D))
           \/ \E l \in (c \ D) \cap Assuming(c, D) : s = D \cup {l}
        /\ Shortened(c, s)
        /\ UNCHANGED <<extension, user, control>>
  BY <1>1p
<1>1. PICK s \in SUBSET c :
        /\ s # {}
        /\ \/ s = D /\ Inconsistent(Assuming(c, D))
           \/ \E l \in (c \ D) \cap Assuming(c, D) : s = D \cup {l}
        /\ Shortened(c, s)
        /\ UNCHANGED <<extension, user, control>>
  BY <1>1q
<1>2. PICK proc : At(proc) /\ proc \notin {"elim", "block"}
  BY VivifiedFacts
<1>3. NoHurry /\ c \in irr \cup red /\ D \subseteq c
  BY <1>1, VivifiedFacts DEF NoHurry, Residual
<1>4. ASSUME NEW a, Total(a), Satisfies(a, irr \cup red), units \subseteq a, s \cap a = {}  PROVE FALSE
  <2>1. Satisfies(a, Rest(c)) /\ D \cap a = {}
    BY <1>1, <1>4, VivifiedFacts
  <2>2. Assuming(c, D) \subseteq a /\ ~Inconsistent(Assuming(c, D))
    BY <2>1, <1>3, <1>4, AssumingSound
  <2> QED BY <2>2, <1>1, <1>4
<1> QED BY <1>1, <1>2, <1>3, <1>4, ShortenedStep

\* So are the decisions when all other literals are implied false.
LEMMA VivifyRemoveInv ==
  ASSUME Inv, VivifyRemove
  PROVE  Inv'
<1>1p. PICK c \in Vivified : \E D \in SUBSET Residual(c) :
        /\ D # {} /\ Negated(Residual(c) \ D) \subseteq Assuming(c, D)
        /\ Shortened(c, D)
        /\ UNCHANGED <<extension, user, control>>
  BY DEF VivifyRemove
<1>1. PICK D \in SUBSET Residual(c) :
        /\ D # {} /\ Negated(Residual(c) \ D) \subseteq Assuming(c, D)
        /\ Shortened(c, D)
        /\ UNCHANGED <<extension, user, control>>
  BY <1>1p
<1>2. PICK proc : At(proc) /\ proc \notin {"elim", "block"}
  BY VivifiedFacts
<1>3. NoHurry /\ c \in irr \cup red /\ D \subseteq c /\ c \subseteq Lits
  BY <1>1, VivifiedFacts DEF NoHurry, Residual
<1>4. ASSUME NEW a, Total(a), Satisfies(a, irr \cup red), units \subseteq a, D \cap a = {}  PROVE FALSE
  <2>1. Satisfies(a, Rest(c))
    BY <1>4, VivifiedFacts
  <2>2. Assuming(c, D) \subseteq a
    BY <2>1, <1>3, <1>4, AssumingSound
  <2>3. Residual(c) \cap a # {}
    <3>1. c \cap a # {}
      BY <1>3, <1>4 DEF Satisfies
    <3> QED BY <3>1, <1>3, <1>4, ResidualLits
  <2>4. PICK l \in Residual(c) : l \in a
    BY <2>3
  <2>5. l \in Residual(c) \ D /\ l \in Lits
    BY <2>4, <1>4, <1>3 DEF Residual
  <2>6. -l \in a
    BY <2>5, <2>2, <1>1 DEF Negated
  <2> QED BY <2>4, <2>5, <2>6, <1>4 DEF Total
<1> QED BY <1>1, <1>2, <1>3, <1>4, ShortenedStep

\* So is the clause without a literal whose truth runs into a conflict.
LEMMA VivifyInstantiateInv ==
  ASSUME Inv, VivifyInstantiate
  PROVE  Inv'
<1>1p. PICK c \in Vivified : \E l \in Residual(c) :
        /\ Residual(c) \ {l} # {}
        /\ Refuted(Rest(c), units \cup Negated(Residual(c) \ {l}) \cup {l})
        /\ Shortened(c, Residual(c) \ {l})
        /\ UNCHANGED <<extension, user, control>>
  BY DEF VivifyInstantiate
<1>1. PICK l \in Residual(c) :
        /\ Residual(c) \ {l} # {}
        /\ Refuted(Rest(c), units \cup Negated(Residual(c) \ {l}) \cup {l})
        /\ Shortened(c, Residual(c) \ {l})
        /\ UNCHANGED <<extension, user, control>>
  BY <1>1p
<1> DEFINE D == Residual(c) \ {l}
<1>2. PICK proc : At(proc) /\ proc \notin {"elim", "block"}
  BY VivifiedFacts
<1>3. NoHurry /\ c \in irr \cup red /\ D \subseteq c /\ c \subseteq Lits /\ Rest(c) \subseteq SUBSET Lits
  BY <1>1, VivifiedFacts DEF NoHurry, Residual
<1>4. ASSUME NEW a, Total(a), Satisfies(a, irr \cup red), units \subseteq a, D \cap a = {}  PROVE FALSE
  <2>1. Satisfies(a, Rest(c))
    BY <1>4, VivifiedFacts
  <2>2. Negated(D) \subseteq a
    BY <2>1, <1>3, <1>4, AssumingSound
  <2>3. Residual(c) \cap a # {}
    <3>1. c \cap a # {}
      BY <1>3, <1>4 DEF Satisfies
    <3> QED BY <3>1, <1>3, <1>4, ResidualLits
  <2>4. l \in a
    BY <2>3, <1>4
  <2>5. units \cup Negated(D) \cup {l} \subseteq a
    BY <2>2, <2>4, <1>4
  <2>6. Refuted(Rest(c), units \cup Negated(D) \cup {l})
    BY <1>1
  <2> HIDE DEF D
  <2>7. PICK F, T : F = Rest(c) /\ T = units \cup Negated(D) \cup {l}
    OBVIOUS
  <2>8. F \subseteq SUBSET Lits /\ Refuted(F, T) /\ Satisfies(a, F) /\ T \subseteq a /\ Total(a)
    BY <2>1, <2>5, <2>6, <2>7, <1>3, <1>4
  <2> QED BY ONLY <2>8, RefutedSound
<1>5. D # {} /\ Shortened(c, D)
  BY <1>1
<1> HIDE DEF D
<1> QED BY <1>5, <1>2, <1>3, <1>4, ShortenedStep

-----------------------------------------------------------------------------
(* Transitive reduction and duplicates.                                    *)

\* What transred reaches from a literal is true where the literal is.
LEMMA ReachSound ==
  ASSUME irr \cup red \subseteq SUBSET Lits, NEW c, NEW l \in Lits, NEW a, Total(a), -l \in a,
         IF c \in irr THEN Satisfies(a, irr \ {c}) ELSE Satisfies(a, (irr \cup red) \ {c})
  PROVE  Reach(c, -l) \subseteq a /\ ~Inconsistent(Reach(c, -l))
<1> DEFINE F == Binaries(IF c \in irr THEN irr \ {c} ELSE Formula \ {c})
<1>1. F \subseteq SUBSET Lits /\ Satisfies(a, F)
  BY DEF Binaries, Formula, Satisfies
<1> HIDE DEF F
<1>2. Propagation(F, {-l}) \subseteq a
  BY <1>1, PropagationSound
<1> QED BY <1>2, TotalConsistent DEF Reach, F

\* A binary clause that others imply by a chain may go.
LEMMA TransitivelyReduceInv ==
  ASSUME Inv, TransitivelyReduce
  PROVE  Inv'
<1>1. At("transred")
  BY DEF TransitivelyReduce
<1>2p. PICK c \in Binaries(Formula) : \E l \in c :
        /\ (c \ {l}) \subseteq Reach(c, -l)
        /\ irr' = irr \ {c} /\ red' = red \ {c}
        /\ UNCHANGED <<units, unsat, status, extension, user, control>>
  BY DEF TransitivelyReduce
<1>2. PICK l \in c :
        /\ (c \ {l}) \subseteq Reach(c, -l)
        /\ irr' = irr \ {c} /\ red' = red \ {c}
        /\ UNCHANGED <<units, unsat, status, extension, user, control>>
  BY <1>2p
<1>3. NoHurry /\ UNCHANGED <<units, unsat, status>>
  BY <1>2 DEF NoHurry
<1>4. /\ \A e \in irr \cup red : e \subseteq Lits /\ Good(e)
  BY <1>1, <1>3, IdleProcedure
<1>5. c \in irr \cup red /\ l \in Lits /\ c \ {l} # {}
  <2>1. c \in irr \cup red /\ Cardinality(c) = 2
    BY DEF Binaries, Formula
  <2>2. c \subseteq Lits /\ Cardinality(c) >= 2
    BY <2>1, <1>4
  <2> QED BY <2>1, <2>2, NotEmpty
<1>6. ASSUME NEW a, Total(a), Satisfies(a, irr'), units \subseteq a  PROVE Satisfies(a, irr)
  <2>1. ASSUME c \in irr, c \cap a = {}  PROVE FALSE
    <3>1. -l \in a
      BY <2>1, <1>5, <1>6 DEF Total
    <3>2. Reach(c, -l) \subseteq a
      BY <3>1, <2>1, <1>2, <1>4, <1>5, <1>6, ReachSound
    <3> QED BY <3>2, <1>2, <1>5, <2>1
  <2> QED BY <2>1, <1>2, <1>6 DEF Satisfies
<1>7. irr' \subseteq irr /\ red' \subseteq red
  BY <1>2
<1> QED BY <1>1, <1>3, <1>6, <1>7, RemovalStep

\* A unit that follows from the clauses.
LEMMA UnitStep ==
  ASSUME Inv, NEW proc, At(proc), proc \notin {"elim", "block"}, NoHurry,
         NEW l \in Lits, Become(irr, red, {l}),
         \A a : Total(a) /\ Satisfies(a, irr \cup red) /\ units \subseteq a => l \in a
  PROVE  Inv'
<1>1. /\ Searchable /\ Unchanged
      /\ \A e \in irr \cup red : e \subseteq Lits /\ Good(e)
      /\ Holds' => Inv'
  BY IdleProcedure
<1>0. PICK L : L = {l}
  OBVIOUS
<1>2. Holds'
  <2>1. /\ irr \subseteq SUBSET Lits /\ red \subseteq SUBSET Lits /\ L \subseteq Lits
        /\ \A e \in irr \cup red : Good(e)
        /\ \A a : Total(a) /\ Satisfies(a, irr \cup red) /\ units \subseteq a =>
                 Satisfies(a, irr \cup red) /\ L \subseteq a
        /\ \A a : Total(a) /\ Satisfies(a, irr) /\ units \cup L \subseteq a => Satisfies(a, irr)
    BY <1>0, <1>1
  <2>2. Searchable /\ Unchanged /\ Become(irr, red, L)
    BY <1>0, <1>1
  <2> QED BY ONLY <2>1, <2>2, BecomeStep
<1> QED BY <1>1, <1>2

\* A literal that reaches its own negation is false.
LEMMA TransredUnitInv ==
  ASSUME Inv, TransredUnit
  PROVE  Inv'
<1>1. At("transred")
  BY DEF TransredUnit
<1>2p. PICK c \in Binaries(Formula) : \E l \in c :
        /\ Inconsistent(Reach(c, -l)) /\ Become(irr, red, {l})
        /\ UNCHANGED <<extension, user, control>>
  BY DEF TransredUnit
<1>2. PICK l \in c :
        /\ Inconsistent(Reach(c, -l)) /\ Become(irr, red, {l})
        /\ UNCHANGED <<extension, user, control>>
  BY <1>2p
<1>3. NoHurry
  BY <1>2 DEF NoHurry
<1>4. \A e \in irr \cup red : e \subseteq Lits /\ Good(e)
  BY <1>1, <1>3, IdleProcedure
<1>5. l \in Lits
  BY <1>4 DEF Binaries, Formula
<1>6. ASSUME NEW a, Total(a), Satisfies(a, irr \cup red), l \notin a  PROVE FALSE
  <2>1. -l \in a
    BY <1>5, <1>6 DEF Total
  <2>2. IF c \in irr THEN Satisfies(a, irr \ {c}) ELSE Satisfies(a, (irr \cup red) \ {c})
    BY <1>6 DEF Satisfies
  <2> QED BY <2>1, <2>2, <1>2, <1>4, <1>5, <1>6, ReachSound
<1> QED BY <1>1, <1>2, <1>3, <1>5, <1>6, UnitStep

\* Of two copies the redundant one goes.
LEMMA DeduplicateInv ==
  ASSUME Inv, Deduplicate
  PROVE  Inv'
<1>1. At("deduplicate")
  BY DEF Deduplicate
<1>2. irr' = irr /\ red' \subseteq red /\ NoHurry /\ UNCHANGED <<units, unsat, status>>
  BY DEF Deduplicate, NoHurry
<1> QED BY <1>1, <1>2, RemovalStep

\* Two binary clauses that differ in the sign of one literal give the other.
LEMMA DeduplicateUnitInv ==
  ASSUME Inv, DeduplicateUnit
  PROVE  Inv'
<1>1. At("deduplicate")
  BY DEF DeduplicateUnit
<1>2p. PICK c \in Binaries(Formula) : \E l \in c :
        /\ \E o \in c \ {l} : {l, -o} \in Formula
        /\ Become(irr, red, {l})
        /\ UNCHANGED <<extension, user, control>>
  BY DEF DeduplicateUnit
<1>2. PICK l \in c :
        /\ \E o \in c \ {l} : {l, -o} \in Formula
        /\ Become(irr, red, {l})
        /\ UNCHANGED <<extension, user, control>>
  BY <1>2p
<1>3. NoHurry
  BY <1>2 DEF NoHurry
<1>4. \A e \in irr \cup red : e \subseteq Lits /\ Good(e)
  BY <1>1, <1>3, IdleProcedure
<1>5. PICK o \in c \ {l} : {l, -o} \in Formula
  BY <1>2
<1>6. c \in irr \cup red /\ c \subseteq Lits /\ Cardinality(c) = 2
  BY <1>4 DEF Binaries, Formula
<1>7. c = {l, o} /\ l \in Lits /\ o \in Lits
  BY <1>6, <1>5, PairOf
<1>8. ASSUME NEW a, Total(a), Satisfies(a, irr \cup red), l \notin a  PROVE FALSE
  <2>1. c \cap a # {} /\ {l, -o} \cap a # {}
    BY <1>5, <1>6, <1>8 DEF Satisfies, Formula
  <2> QED BY <2>1, <1>7, <1>8 DEF Total
<1> QED BY <1>1, <1>2, <1>3, <1>7, <1>8, UnitStep

\* Every technique of Subsumption keeps the invariant.
LEMMA SubsumptionInv ==
  ASSUME Inv, SubsumptionNext
  PROVE  Inv'
BY SubsumeInv, StrengthenInv, VivifySatisfiedInv, VivifyImpliedInv, VivifyAnalyzedInv,
   VivifyRemoveInv, VivifyInstantiateInv, TransitivelyReduceInv, TransredUnitInv,
   DeduplicateInv, DeduplicateUnitInv DEF SubsumptionNext

-----------------------------------------------------------------------------
(* The search loop.                                                        *)

\* Steps that neither assign nor substitute.
LEMMA GeneralStep ==
  ASSUME Searchable, observed' = observed, given' = given, unsat' = unsat, units' = units,
         irr' \subseteq SUBSET Lits, red' \subseteq SUBSET Lits,
         status' \in [Vars -> {"active", "fixed", "eliminated", "pure", "substituted", "unused", "unmapped"}],
         \A l \in Lits : Active(l)' => Active(l),
         \A c \in irr' : Good(c)' /\ OpenIn(c, units),
         \A c \in red' : /\ ~Tautology(c) /\ Cardinality(c) >= 2
                         /\ \A l \in c : \/ Present(l)'
                                         \/ Late' /\ status'[VarOf(l)] \in {"eliminated", "pure"},
         extension' \in Seq(EntrySet), Harmless(extension)',
         \A a : Total(a) /\ Satisfies(a, irr \cup red) /\ units \subseteq a
                /\ (\A j \in 1 .. Len(extension) : extension[j].clause \cap a # {}) =>
                Satisfies(a, irr' \cup red')
                /\ \A j \in 1 .. Len(extension') : extension'[j].clause \cap a # {},
         Reconstructs(Mod(irr', units), extension', given)
  PROVE  Holds'
<1>1. Types'
  BY DEF Types, Searchable
<1>2. Base'
  BY DEF Base, Searchable
<1>3. Equivalences' = {}
  BY DEF Searchable, Equivalences
<1>4. Meaning'
  <2>1. ASSUME NEW a, Total(a), Satisfies(a, given')
        PROVE  /\ Satisfies(a, irr' \cup red') /\ units' \subseteq a /\ Satisfies(a, Equivalences')
               /\ \A j \in 1 .. Len(extension') : extension'[j].clause \cap a # {}
    <3>1. Satisfies(a, irr \cup red) /\ units \subseteq a
          /\ \A j \in 1 .. Len(extension) : extension[j].clause \cap a # {}
      BY <2>1 DEF Searchable, Meaning
    <3> QED BY <2>1, <3>1, <1>3 DEF Satisfies
  <2> QED BY <2>1 DEF Meaning
<1> QED BY <1>1, <1>2, <1>4 DEF Holds, Searchable

\* In the search loop no procedure has anything in progress.
LEMMA SearchLoop ==
  ASSUME Inv, Searching
  PROVE  /\ ~unsat /\ work = Idle /\ work.kind # "substitute" /\ ~Late
         /\ Types /\ Base /\ Meaning
         /\ \A c \in irr \cup red : c \subseteq Lits /\ Good(c)
         /\ Holds' /\ plan' = plan /\ work' = work => Inv'
<1>1. ~unsat /\ plan = <<>>
  BY DEF Searching
<1>2. Types /\ Base /\ Meaning /\ Planned /\ Working
  BY <1>1, InvParts
<1>3. work = Idle
  BY <1>1, <1>2 DEF Working, Resolving, InBackward, Covering, Conditioning, Substituting
<1>4. ~Late /\ Idle.kind = "idle" /\ Idle' = Idle
  BY <1>1 DEF Late, Idle
<1>5. \A c \in irr \cup red : c \subseteq Lits /\ Good(c)
  BY <1>2, <1>4 DEF Types, Base, Good
<1>6. ASSUME Holds', plan' = plan, work' = work  PROVE Inv'
  <2>1. Planned'
    BY <1>1, <1>2, <1>6 DEF Planned, PlanOK
  <2>2. Working'
    BY <1>3, <1>4, <1>6 DEF Working
  <2> QED BY <2>1, <2>2, <1>6 DEF Holds, Inv, NoModel
<1> QED BY <1>1, <1>2, <1>3, <1>4, <1>5, <1>6

\* A learned clause follows from the formula by propagation.
LEMMA LearnInv ==
  ASSUME Inv, Learn
  PROVE  Inv'
<1>1. Searching
  BY DEF Learn
<1>2. PICK c \in SUBSET Lits :
        /\ Cardinality(c) \in 1 .. 2 /\ c \notin Formula /\ ~Tautology(c)
        /\ \A l \in c : Active(l)
        /\ RUP(Formula, c \cup Negated(units))
        /\ IF Cardinality(c) = 1 THEN Become(irr, red, c) ELSE Become(irr, red \cup {c}, {})
        /\ UNCHANGED <<extension, user, plan, work, calls>>
  BY DEF Learn
<1>3. /\ ~unsat /\ work = Idle /\ work.kind # "substitute" /\ ~Late /\ Types /\ Base /\ Meaning
      /\ \A e \in irr \cup red : e \subseteq Lits /\ Good(e)
      /\ Holds' /\ plan' = plan /\ work' = work => Inv'
  BY <1>1, SearchLoop
<1>4. plan' = plan /\ work' = work /\ Unchanged
  BY <1>2 DEF Unchanged, user
<1>5. Searchable
  BY <1>3, <1>4 DEF Searchable
<1>6. ASSUME NEW a, Total(a), Satisfies(a, irr \cup red), units \subseteq a, c \cap a = {}  PROVE FALSE
  <2>1. Negated(c \cup Negated(units)) \subseteq a
    <3>1. units \subseteq Lits
      BY <1>3 DEF Types
    <3>2. ASSUME NEW l \in c \cup Negated(units)  PROVE -l \in a
      <4>1. CASE l \in c
        BY <4>1, <1>6 DEF Total
      <4>2. CASE l \in Negated(units)
        <5>1. l \in Lits /\ -l \in units
          BY <4>2, <3>1, NegatedFacts
        <5> QED BY <5>1, <1>6
      <4> QED BY <4>1, <4>2
    <3> QED BY <3>2 DEF Negated
  <2>2. Formula \subseteq SUBSET Lits /\ Satisfies(a, Formula)
    BY <1>3, <1>6 DEF Formula
  <2>3. Refuted(Formula, Negated(c \cup Negated(units)))
    BY <1>2 DEF RUP
  <2>4. PICK F, T : F = Formula /\ T = Negated(c \cup Negated(units))
    OBVIOUS
  <2>5. F \subseteq SUBSET Lits /\ Refuted(F, T) /\ Total(a) /\ Satisfies(a, F) /\ T \subseteq a
    BY <2>1, <2>2, <2>3, <2>4, <1>6
  <2> QED BY ONLY <2>5, RefutedSound
<1>7. PICK i, r, L : /\ i = irr /\ r = IF Cardinality(c) = 1 THEN red ELSE red \cup {c}
                     /\ L = IF Cardinality(c) = 1 THEN c ELSE {}
  OBVIOUS
<1>8. Become(i, r, L)
  BY <1>2, <1>7
<1>9. Cardinality(c) # 1 => Good(c)
  <2>1. Cardinality(c) # 1 => Cardinality(c) >= 2
    BY <1>2
  <2> QED BY <2>1, <1>2 DEF Good, Present, Active
<1>10. Cardinality(c) = 1 => \A a : c \cap a # {} => c \subseteq a
  BY Singletons, <1>2
<1>11. Holds'
  <2>1. /\ i \subseteq SUBSET Lits /\ r \subseteq SUBSET Lits /\ L \subseteq Lits
        /\ \A e \in i \cup r : Good(e)
    BY <1>3, <1>7, <1>9
  <2>2. ASSUME NEW a, Total(a), Satisfies(a, irr \cup red), units \subseteq a
        PROVE  Satisfies(a, i \cup r) /\ L \subseteq a
    <3>1. c \cap a # {}
      BY <1>6, <2>2
    <3>2. Satisfies(a, i \cup r)
      BY <3>1, <1>7, <2>2 DEF Satisfies
    <3>3. L \subseteq a
      BY <3>1, <1>7, <1>10
    <3> QED BY <3>2, <3>3
  <2>3. \A a : Total(a) /\ Satisfies(a, i) /\ units \cup L \subseteq a => Satisfies(a, irr)
    BY <1>7
  <2>4. Searchable /\ Unchanged /\ Become(i, r, L)
    BY <1>4, <1>5, <1>8
  <2> QED BY ONLY <2>1, <2>2, <2>3, <2>4, BecomeStep
<1> QED BY <1>3, <1>4, <1>11

\* A garbage collection keeps what the clauses say.
LEMMA CollectedFacts ==
  ASSUME Types, Base, work.kind # "substitute", NEW F, F \subseteq irr \cup red,
         \A c \in F : Good(c)
  PROVE  /\ Collected(F) \subseteq SUBSET Lits
         /\ \A c \in Collected(F) : Good(c) /\ (F \subseteq irr => OpenIn(c, units))
         /\ \A a : Total(a) /\ units \subseteq a => (Satisfies(a, Collected(F)) <=> Satisfies(a, F))
<1>1. \A c \in F : c \subseteq Lits
  BY DEF Types
<1>2. ASSUME NEW e \in Collected(F)
      PROVE  e \subseteq Lits /\ Good(e) /\ (F \subseteq irr => OpenIn(e, units))
  <2>1. PICK c \in F : /\ ~True(c)
                       /\ e = IF Cardinality(Residual(c)) >= 2 THEN Residual(c) ELSE c
    BY DEF Collected
  <2>2. c \subseteq Lits /\ Good(c)
    BY <1>1
  <2>3. CASE Cardinality(Residual(c)) >= 2
    <3>1. e = Residual(c) /\ e \subseteq c /\ {l \in e : -l \notin units} = e
      BY <2>1, <2>3 DEF Residual
    <3> QED BY <3>1, <2>2, <2>3 DEF Good, OpenIn, Tautology
  <2>4. CASE ~(Cardinality(Residual(c)) >= 2)
    BY <2>1, <2>2, <2>4 DEF Base
  <2> QED BY <2>3, <2>4
<1>3. ASSUME NEW a, Total(a), units \subseteq a
      PROVE  Satisfies(a, Collected(F)) <=> Satisfies(a, F)
  <2>1. \A c \in F : Residual(c) \cap a = c \cap a
    BY <1>1, <1>3, ResidualLits
  <2>2. ASSUME Satisfies(a, Collected(F)), NEW c \in F  PROVE c \cap a # {}
    <3>1. CASE True(c)
      BY <3>1, <1>3 DEF True
    <3>2. CASE ~True(c)
      <4>1. (IF Cardinality(Residual(c)) >= 2 THEN Residual(c) ELSE c) \in Collected(F)
        BY <3>2 DEF Collected
      <4> QED BY <4>1, <2>1, <2>2 DEF Satisfies
    <3> QED BY <3>1, <3>2
  <2>3. ASSUME Satisfies(a, F), NEW e \in Collected(F)  PROVE e \cap a # {}
    <3>1. PICK c \in F : /\ ~True(c)
                         /\ e = IF Cardinality(Residual(c)) >= 2 THEN Residual(c) ELSE c
      BY DEF Collected
    <3> QED BY <3>1, <2>1, <2>3 DEF Satisfies
  <2> QED BY <2>2, <2>3 DEF Satisfies
<1> QED BY <1>2, <1>3

\* Redundant clauses may go at any time; collecting garbage drops true clauses and
\* false literals.
LEMMA ReduceInv ==
  ASSUME Inv, Reduce
  PROVE  Inv'
<1>1. Searching
  BY DEF Reduce
<1>2. PICK r \in SUBSET red :
        /\ irr' = Collected(irr) /\ red' = Collected(r)
        /\ UNCHANGED <<units, unsat, status, extension, user, control>>
  BY DEF Reduce
<1>3. /\ ~unsat /\ work = Idle /\ work.kind # "substitute" /\ ~Late /\ Types /\ Base /\ Meaning
      /\ \A e \in irr \cup red : e \subseteq Lits /\ Good(e)
      /\ Holds' /\ plan' = plan /\ work' = work => Inv'
  BY <1>1, SearchLoop
<1>4. /\ plan' = plan /\ work' = work /\ Unchanged
      /\ units' = units /\ status' = status /\ unsat' = unsat
  BY <1>2 DEF Unchanged, user, control
<1>5. Searchable
  BY <1>3, <1>4 DEF Searchable
<1>6. /\ irr' \subseteq SUBSET Lits
      /\ \A c \in irr' : Good(c) /\ OpenIn(c, units)
      /\ \A a : Total(a) /\ units \subseteq a => (Satisfies(a, irr') <=> Satisfies(a, irr))
  BY <1>2, <1>3, CollectedFacts
<1>7. /\ red' \subseteq SUBSET Lits /\ \A c \in red' : Good(c)
      /\ \A a : Total(a) /\ units \subseteq a => (Satisfies(a, red') <=> Satisfies(a, r))
  BY <1>2, <1>3, CollectedFacts
<1>8. \A a : Total(a) /\ Satisfies(a, irr \cup red) /\ units \subseteq a => Satisfies(a, irr' \cup red')
  BY <1>6, <1>7 DEF Satisfies
<1>9. Holds'
  BY <1>3, <1>4, <1>5, <1>6, <1>7, <1>8, PlainStep
<1> QED BY <1>3, <1>4, <1>9

\* Compacting loses only variables that no clause has.
LEMMA CompactInv ==
  ASSUME Inv, Compact
  PROVE  Inv'
<1>1. Searching
  BY DEF Compact
<1>2. /\ irr' = Collected(irr) /\ red' = Collected(red)
      /\ status' = Mapped
      /\ units' = units /\ unsat' = unsat /\ extension' = extension
      /\ plan' = plan /\ work' = work /\ observed' = observed /\ given' = given
  BY DEF Compact, user, control
<1>3. /\ ~unsat /\ work = Idle /\ work.kind # "substitute" /\ ~Late /\ Types /\ Base /\ Meaning
      /\ \A e \in irr \cup red : e \subseteq Lits /\ Good(e)
      /\ Holds' /\ plan' = plan /\ work' = work => Inv'
  BY <1>1, SearchLoop
<1>4. Searchable
  BY <1>2, <1>3 DEF Searchable
<1>5. status' \in [Vars -> {"active", "fixed", "eliminated", "pure", "substituted", "unused", "unmapped"}]
  BY <1>2, <1>3 DEF Mapped, Types
<1>6. \A l \in Lits : (Active(l)' => Active(l)) /\ (Present(l) => Present(l)')
  <2>1. ASSUME NEW l \in Lits  PROVE (Active(l)' => Active(l)) /\ (Present(l) => Present(l)')
    <3>1. VarOf(l) \in Vars
      BY LitFacts
    <3>2. status'[VarOf(l)] = IF status[VarOf(l)] \in {"active", "fixed"} THEN status[VarOf(l)]
                              ELSE "unmapped"
      BY <1>2, <3>1 DEF Mapped
    <3> QED BY <3>2 DEF Active, Present
  <2> QED BY <2>1
<1>7. /\ irr' \subseteq SUBSET Lits
      /\ \A c \in irr' : Good(c) /\ OpenIn(c, units)
      /\ \A a : Total(a) /\ units \subseteq a => (Satisfies(a, irr') <=> Satisfies(a, irr))
  BY <1>2, <1>3, CollectedFacts
<1>8. /\ red' \subseteq SUBSET Lits /\ \A c \in red' : Good(c)
      /\ \A a : Total(a) /\ units \subseteq a => (Satisfies(a, red') <=> Satisfies(a, red))
  BY <1>2, <1>3, CollectedFacts
<1>9. \A c : c \subseteq Lits /\ Good(c) => Good(c)'
  BY <1>6 DEF Good
<1>10. \A c \in irr' \cup red' : Good(c)'
  BY <1>7, <1>8, <1>9
<1>11. \A a : Total(a) /\ Satisfies(a, irr \cup red) /\ units \subseteq a => Satisfies(a, irr' \cup red')
  BY <1>7, <1>8 DEF Satisfies
<1>12. Reconstructs(Mod(irr', units), extension', given)
  <2>1. Mod(irr', units) \subseteq Mod(irr, units)
    BY <1>7, ModLess
  <2>2. Reconstructs(Mod(irr, units), extension, given)
    BY <1>3 DEF Meaning
  <2> QED BY <2>1, <2>2, <1>2, ReconstructsLess
<1>13. extension' \in Seq(EntrySet) /\ Harmless(extension)'
  BY <1>2, <1>3 DEF Types, Meaning, Harmless, Frozen
<1>14. \A c \in red' : /\ ~Tautology(c) /\ Cardinality(c) >= 2 /\ \A l \in c : Present(l)'
  BY <1>10 DEF Good
<1>15. Holds'
  BY <1>2, <1>4, <1>5, <1>6, <1>7, <1>8, <1>10, <1>11, <1>12, <1>13, <1>14, GeneralStep
<1> QED BY <1>2, <1>3, <1>15

-----------------------------------------------------------------------------
(* The first state, and the schedule of procedures.                        *)

\* The invariant holds when the clauses have been read.
LEMMA InitInv ==
  ASSUME Init
  PROVE  Inv
<1>1. PICK p \in Problems :
        /\ given = p.clauses /\ observed = p.observed
        /\ irr = {c \in p.clauses : ~Tautology(c)}
        /\ \A c \in p.clauses : Cardinality(c) > 1
        /\ status = [v \in Vars |-> IF v \in VarsOf(UNION p.clauses) \cup p.observed
                                    THEN "active" ELSE "unused"]
  BY DEF Init
<1>2. red = {} /\ units = {} /\ unsat = FALSE /\ extension = <<>> /\ plan = <<>> /\ work = Idle
  BY DEF Init
<1>3. given \subseteq SUBSET Lits /\ observed \subseteq Vars
  BY <1>1, ProblemsAssumption
<1>4. extension \in Seq(EntrySet) /\ Len(extension) = 0 /\ plan \in Seq(Procedures) /\ Len(plan) = 0
  BY <1>2
<1>5. Types
  BY <1>1, <1>2, <1>3, <1>4 DEF Types
<1>6. work.kind # "substitute" /\ Equivalences = {}
  BY <1>2 DEF Idle, Equivalences
<1>7. \A c \in irr : c \subseteq Lits /\ Good(c) /\ OpenIn(c, units)
  <2>1. ASSUME NEW c \in irr  PROVE c \subseteq Lits /\ Good(c) /\ OpenIn(c, units)
    <3>1. c \in given /\ ~Tautology(c) /\ Cardinality(c) > 1 /\ c \subseteq Lits
      BY <1>1, <1>3
    <3>2. Cardinality(c) >= 2
      BY <3>1, Singletons
    <3>3. \A l \in c : Present(l)
      <4>1. ASSUME NEW l \in c  PROVE status[VarOf(l)] = "active"
        <5>1. VarOf(l) \in Vars
          BY <3>1, LitFacts
        <5>2. VarOf(l) \in VarsOf(UNION given)
          BY <3>1 DEF VarsOf
        <5> QED BY <5>1, <5>2, <1>1
      <4> QED BY <4>1 DEF Present
    <3>4. {l \in c : -l \notin units} = c
      BY <1>2
    <3> QED BY <3>1, <3>2, <3>3, <3>4 DEF Good, OpenIn
  <2> QED BY <2>1
<1>8. Base
  BY <1>2, <1>7 DEF Base, Inconsistent
<1>9. Meaning
  <2>1. Reconstructs(Mod(irr, units), extension, given)
    <3>1. ASSUME NEW R, NEW v, Chain(extension, R, v), v[0] \in Mod(irr, units)
          PROVE  Satisfies(v[0], given)
      <4>1. Total(v[0]) /\ Satisfies(v[0], irr)
        BY <3>1 DEF Mod
      <4>2. ASSUME NEW c \in given  PROVE c \cap v[0] # {}
        <5>1. CASE Tautology(c)
          BY <5>1, <4>1, <1>3, TautologyHolds
        <5>2. CASE ~Tautology(c)
          BY <5>2, <4>1, <1>1 DEF Satisfies
        <5> QED BY <5>1, <5>2
      <4> QED BY <4>2 DEF Satisfies
    <3> QED BY <3>1, <1>4 DEF Reconstructs
  <2>2. Harmless(extension)
    BY <1>4 DEF Harmless
  <2>3. \A a : Satisfies(a, given) => Satisfies(a, irr \cup red)
    BY <1>1, <1>2 DEF Satisfies
  <2> QED BY <1>2, <1>4, <1>6, <2>1, <2>2, <2>3 DEF Meaning, Satisfies
<1>10. Planned /\ Working
  BY <1>2, <1>4 DEF Planned, PlanOK, Working
<1> QED BY <1>2, <1>5, <1>8, <1>9, <1>10 DEF Inv

\* The schedule moves on, and all else stays.
LEMMA PlanStep ==
  ASSUME Inv, ~unsat, work = Idle, work' = work, UNCHANGED <<database, extension, user>>,
         Late => Late' \/ \A c \in red : \A l \in c : Present(l),
         PlanOK(plan'), plan' # <<>> /\ Head(plan') = "elim" => \A c \in irr : ~True(c)
  PROVE  Inv'
<1>1. /\ irr' = irr /\ red' = red /\ units' = units /\ unsat' = unsat /\ status' = status
      /\ extension' = extension /\ observed' = observed /\ given' = given
  BY DEF database, user
<1>2. Types /\ Base /\ Meaning
  BY InvParts
<1>3. Idle.kind = "idle" /\ Idle' = Idle
  BY DEF Idle
<1>4. Searchable /\ Unchanged
  BY <1>1, <1>2, <1>3 DEF Searchable, Unchanged
<1>5. irr' \subseteq SUBSET Lits /\ red' \subseteq SUBSET Lits
  BY <1>1, <1>2 DEF Types
<1>6. Holds'
  BY <1>1, <1>4, <1>5, PlainStep
<1>7. Planned' /\ Working'
  BY <1>1, <1>3 DEF Planned, PlanOK, True, Working
<1> QED BY <1>6, <1>7 DEF Holds, Inv, NoModel

\* The rest of a plan is a plan, and elim comes right after connect.
LEMMA PlanOkTail ==
  ASSUME NEW q, PlanOK(q), q # <<>>
  PROVE  /\ PlanOK(Tail(q)) /\ q \in Seq(Procedures) /\ Tail(q) \in Seq(Procedures)
         /\ Tail(q) # <<>> /\ Head(Tail(q)) = "elim" => Head(q) = "connect"
<1>1. q \in Seq(Procedures) /\ \A i \in 2 .. Len(q) : q[i] = "elim" => q[i - 1] = "connect"
  BY DEF PlanOK
<1>2. /\ Tail(q) \in Seq(Procedures) /\ Len(Tail(q)) = Len(q) - 1 /\ Len(q) \in Nat
      /\ \A i \in 1 .. Len(Tail(q)) : Tail(q)[i] = q[i + 1]
  BY <1>1
<1>3. ASSUME NEW i \in 2 .. Len(Tail(q)), Tail(q)[i] = "elim"  PROVE Tail(q)[i - 1] = "connect"
  <2>1. i \in 1 .. Len(Tail(q)) /\ i - 1 \in 1 .. Len(Tail(q)) /\ i + 1 \in 2 .. Len(q) /\ (i - 1) + 1 = i /\ (i + 1) - 1 = i
    BY <1>2
  <2> QED BY <2>1, <1>1, <1>2, <1>3
<1>4. ASSUME Tail(q) # <<>>, Head(Tail(q)) = "elim"  PROVE Head(q) = "connect"
  <2>1. Len(Tail(q)) >= 1 /\ Head(Tail(q)) = Tail(q)[1] /\ Head(q) = q[1]
    BY <1>1, <1>2, <1>4
  <2>2. 1 \in 1 .. Len(Tail(q)) /\ 2 \in 2 .. Len(q)
    BY <1>2, <2>1
  <2> QED BY <2>1, <2>2, <1>1, <1>2, <1>4
<1> QED BY <1>1, <1>2, <1>3, <1>4 DEF PlanOK

\* Plans may follow each other if the second does not start with elim.
LEMMA PlanOkConcat ==
  ASSUME NEW s, PlanOK(s), NEW t, PlanOK(t), t # <<>> => Head(t) # "elim"
  PROVE  PlanOK(s \o t)
<1>1. s \in Seq(Procedures) /\ \A i \in 2 .. Len(s) : s[i] = "elim" => s[i - 1] = "connect"
  BY DEF PlanOK
<1>2. t \in Seq(Procedures) /\ \A i \in 2 .. Len(t) : t[i] = "elim" => t[i - 1] = "connect"
  BY DEF PlanOK
<1>3. /\ s \o t \in Seq(Procedures) /\ Len(s \o t) = Len(s) + Len(t) /\ Len(s) \in Nat /\ Len(t) \in Nat
      /\ \A i \in 1 .. Len(s) + Len(t) : (s \o t)[i] = IF i <= Len(s) THEN s[i] ELSE t[i - Len(s)]
  BY <1>1, <1>2
<1> DEFINE u == s \o t
<1> HIDE DEF u
<1>4. ASSUME NEW i \in 2 .. Len(u), u[i] = "elim"  PROVE u[i - 1] = "connect"
  <2>1. i \in 1 .. Len(s) + Len(t) /\ i - 1 \in 1 .. Len(s) + Len(t)
    BY <1>3 DEF u
  <2>2. CASE i <= Len(s)
    <3>1. u[i] = s[i] /\ u[i - 1] = s[i - 1] /\ i \in 2 .. Len(s)
      BY <2>1, <2>2, <1>3 DEF u
    <3> QED BY <3>1, <1>1, <1>4
  <2>3. CASE i = Len(s) + 1
    <3>1. u[i] = t[1] /\ t # <<>> /\ Head(t) = t[1]
      BY <2>1, <2>3, <1>2, <1>3 DEF u
    <3> QED BY <3>1, <1>4
  <2>4. CASE i > Len(s) + 1
    <3>1. i - Len(s) \in 2 .. Len(t) /\ u[i] = t[i - Len(s)] /\ u[i - 1] = t[(i - Len(s)) - 1]
      BY <2>1, <2>4, <1>3 DEF u
    <3> QED BY <3>1, <1>2, <1>4
  <2> QED BY <2>1, <2>2, <2>3, <2>4, <1>3
<1> QED BY <1>3, <1>4 DEF PlanOK, u

\* Lists of up to three members are sequences over the set.
LEMMA ShortSchedules ==
  ASSUME NEW S, NEW a \in S, NEW b \in S, NEW c \in S
  PROVE  <<a>> \in Seq(S) /\ <<a, b>> \in Seq(S) /\ <<a, b, c>> \in Seq(S)
OBVIOUS

\* So are those of four.
LEMMA FourProcedures ==
  ASSUME NEW S, NEW a \in S, NEW b \in S, NEW c \in S, NEW d \in S
  PROVE  <<a, b, c, d>> \in Seq(S) /\ <<a, b, c, d>> # <<>> /\ Head(<<a, b, c, d>>) = a
OBVIOUS

\* So are those of seven.
LEMMA LongSchedules ==
  ASSUME NEW S, NEW a \in S, NEW b \in S, NEW c \in S, NEW d \in S, NEW e \in S, NEW f \in S, NEW g \in S
  PROVE  <<a, b, c, d, e, f, g>> \in Seq(S)
OBVIOUS

\* A plan without elim needs no connect.
LEMMA NoElimination ==
  ASSUME NEW q \in Seq(Procedures), \A i \in 2 .. Len(q) : q[i] # "elim"
  PROVE  PlanOK(q)
BY DEF PlanOK

\* Every plan of Inprocessing is one, and does not start with elim.
LEMMA PlansOk ==
  /\ \A p \in Plans : PlanOK(p) /\ p # <<>> /\ Head(p) # "elim"
  /\ PlanOK(<<"decompose", "decompose">>)
<1>1. /\ "decompose" \in Procedures /\ "ternary" \in Procedures /\ "deduplicate" \in Procedures
      /\ "probe" \in Procedures /\ "subsume" \in Procedures /\ "vivify" \in Procedures
      /\ "vivify redundant" \in Procedures /\ "transred" \in Procedures /\ "connect" \in Procedures
      /\ "elim" \in Procedures /\ "instantiate" \in Procedures /\ "block" \in Procedures
      /\ "cover" \in Procedures /\ "condition" \in Procedures
  BY DEF Procedures
<1>2. PlanOK(<<"decompose", "decompose", "ternary", "deduplicate", "probe", "decompose", "decompose">>)
  <2> DEFINE q == <<"decompose", "decompose", "ternary", "deduplicate", "probe", "decompose", "decompose">>
  <2>1. q \in Seq(Procedures)
    BY ONLY <1>1, LongSchedules
  <2>2. \A i \in 2 .. Len(q) : q[i] # "elim"
    OBVIOUS
  <2> HIDE DEF q
  <2>3. PlanOK(q)
    BY ONLY <2>1, <2>2, NoElimination
  <2> QED BY <2>3 DEF q
<1>3. PlanOK(<<"subsume", "vivify", "vivify redundant", "transred">>)
  <2> DEFINE q == <<"subsume", "vivify", "vivify redundant", "transred">>
  <2>1. q \in Seq(Procedures)
    BY ONLY <1>1, FourProcedures
  <2>4. Len(q) = 4 /\ q[2] = "vivify" /\ q[3] = "vivify redundant" /\ q[4] = "transred"
    OBVIOUS
  <2> HIDE DEF q
  <2>6. Len(q) = 4
    BY <2>4
  <2>5. \A i \in 2 .. Len(q) : i = 2 \/ i = 3 \/ i = 4
    BY ONLY <2>6
  <2>2. \A i \in 2 .. Len(q) : q[i] # "elim"
    BY <2>4, <2>5
  <2>3. PlanOK(q)
    BY ONLY <2>1, <2>2, NoElimination
  <2> QED BY <2>3 DEF q
<1>4. PlanOK(<<"subsume", "block", "cover">>)
  <2> DEFINE q == <<"subsume", "block", "cover">>
  <2>1. q \in Seq(Procedures)
    BY ONLY <1>1, ShortSchedules
  <2>2. \A i \in 2 .. Len(q) : q[i] # "elim"
    OBVIOUS
  <2> HIDE DEF q
  <2>3. PlanOK(q)
    BY ONLY <2>1, <2>2, NoElimination
  <2> QED BY <2>3 DEF q
<1>5. PlanOK(<<"condition">>) /\ PlanOK(<<"decompose", "decompose">>)
  <2>1. <<"condition">> \in Seq(Procedures) /\ <<"decompose", "decompose">> \in Seq(Procedures)
    BY ONLY <1>1, ShortSchedules
  <2> QED BY <2>1 DEF PlanOK
<1>6. PlanOK(ElimRound)
  <2> DEFINE q == <<"connect", "elim", "instantiate">>
  <2>1. q \in Seq(Procedures)
    BY ONLY <1>1, ShortSchedules
  <2>2. Len(q) = 3 /\ q[1] = "connect" /\ q[2] = "elim" /\ q[3] = "instantiate"
    OBVIOUS
  <2> HIDE DEF q
  <2>3. \A i \in 2 .. Len(q) : i = 2 \/ i = 3
    BY <2>2
  <2>4. PlanOK(q)
    BY <2>1, <2>2, <2>3 DEF PlanOK
  <2> QED BY <2>4 DEF ElimRound, q
<1>7. PlanOK(<<"subsume", "block", "cover">> \o ElimRound)
  <2>1. Head(ElimRound) # "elim"
    BY DEF ElimRound
  <2> QED BY <2>1, <1>4, <1>6, PlanOkConcat
<1>8. PlanOK(ElimRound \o (<<"subsume", "block", "cover">> \o ElimRound))
  <2>1. Head(<<"subsume", "block", "cover">> \o ElimRound) # "elim"
    BY DEF ElimRound
  <2> QED BY <2>1, <1>6, <1>7, PlanOkConcat
<1>9. /\ ElimRound \o (<<"subsume", "block", "cover">> \o ElimRound)
           = ElimRound \o <<"subsume", "block", "cover">> \o ElimRound
      /\ Head(ElimRound \o <<"subsume", "block", "cover">> \o ElimRound) # "elim"
      /\ ElimRound \o <<"subsume", "block", "cover">> \o ElimRound # <<>>
  BY DEF ElimRound
<1>10. PlanOK(ElimRound \o <<"subsume", "block", "cover">> \o ElimRound)
  BY <1>8, <1>9
<1>11. ASSUME NEW p \in Plans  PROVE PlanOK(p) /\ p # <<>> /\ Head(p) # "elim"
  <2>1. CASE p = <<"decompose", "decompose", "ternary", "deduplicate", "probe", "decompose", "decompose">>
    BY <2>1, <1>2
  <2>2. CASE p = <<"subsume", "vivify", "vivify redundant", "transred">>
    <3>0. PICK b, c, d : b = "vivify" /\ c = "vivify redundant" /\ d = "transred"
      OBVIOUS
    <3>1. p # <<>> /\ Head(p) = "subsume"
      <4>1. p = <<"subsume", b, c, d>>
        BY <2>2, <3>0
      <4>2. b \in Procedures /\ c \in Procedures /\ d \in Procedures /\ "subsume" \in Procedures
        BY <3>0, <1>1
      <4> QED BY ONLY <4>1, <4>2, FourProcedures
    <3>2. PlanOK(p)
      BY <2>2, <1>3
    <3> QED BY <3>1, <3>2
  <2>3. CASE p = ElimRound \o <<"subsume", "block", "cover">> \o ElimRound
    BY <2>3, <1>9, <1>10
  <2>4. CASE p = <<"condition">>
    BY <2>4, <1>5
  <2> QED BY <2>1, <2>2, <2>3, <2>4 DEF Plans
<1> QED BY <1>5, <1>11

\* A procedure starts with the database as the search loop left it.
LEMMA StartInv ==
  ASSUME Inv, Start
  PROVE  Inv'
<1>1. Searching /\ plan' \in Plans /\ UNCHANGED <<database, extension, user, work>>
  BY DEF Start
<1>2. ~unsat /\ work = Idle /\ ~Late
  BY <1>1, SearchLoop
<1>3. PlanOK(plan') /\ plan' # <<>> /\ Head(plan') # "elim"
  BY <1>1, PlansOk
<1> QED BY <1>1, <1>2, <1>3, PlanStep

\* A procedure that ends leaves the database to the next.
LEMMA EndProcedureInv ==
  ASSUME Inv, EndProcedure
  PROVE  Inv'
<1>1. /\ plan # <<>> /\ Head(plan) \in Simple /\ At(Head(plan))
      /\ \/ plan' = Tail(plan)
         \/ plan' = <<"decompose", "decompose">> \o Tail(plan)
      /\ UNCHANGED <<database, extension, user, work>>
  BY DEF EndProcedure
<1>2. ~unsat /\ work = Idle
  BY <1>1 DEF At
<1>3. ~Late /\ Head(plan) # "connect"
  BY <1>1 DEF Late, Simple
<1>4. PlanOK(plan)
  BY <1>2, InvParts DEF Planned
<1>5. PlanOK(Tail(plan)) /\ Tail(plan) \in Seq(Procedures) /\ (Tail(plan) # <<>> => Head(Tail(plan)) # "elim")
  BY <1>1, <1>3, <1>4, PlanOkTail
<1>6. PlanOK(plan') /\ (plan' # <<>> => Head(plan') # "elim")
  <2>1. CASE plan' = Tail(plan)
    BY <2>1, <1>5
  <2>2. CASE plan' = <<"decompose", "decompose">> \o Tail(plan)
    <3>1. PlanOK(<<"decompose", "decompose">>)
      BY PlansOk
    <3>2. PlanOK(plan')
      BY <2>2, <3>1, <1>5, PlanOkConcat
    <3>3. Head(plan') = "decompose"
      BY <2>2, <1>5
    <3> QED BY <3>2, <3>3
  <2> QED BY <2>1, <2>2, <1>1
<1> QED BY <1>1, <1>2, <1>3, <1>6, PlanStep

-----------------------------------------------------------------------------
(* Clauses added between two calls.                                        *)

\* A new original clause is as true as the clause given, under the root literals.
LEMMA OriginalFacts ==
  ASSUME units \subseteq Lits, NEW G, G \subseteq SUBSET Lits
  PROVE  /\ Original(G) \subseteq SUBSET Lits
         /\ \A e \in Original(G) : \E d \in G : e = Residual(d) /\ e \subseteq d /\ ~Tautology(e)
         /\ \A a : Total(a) /\ units \subseteq a => (Satisfies(a, Original(G)) <=> Satisfies(a, G))
<1>1. ASSUME NEW e \in Original(G)
      PROVE  e \subseteq Lits /\ \E d \in G : e = Residual(d) /\ e \subseteq d /\ ~Tautology(e)
  <2>1. PICK d \in G : e = Residual(d) /\ ~True(d) /\ ~Tautology(d)
    BY DEF Original
  <2>2. e \subseteq d /\ ~Tautology(e)
    BY <2>1 DEF Residual, Tautology
  <2> QED BY <2>1, <2>2
<1>2. ASSUME NEW a, Total(a), units \subseteq a
      PROVE  Satisfies(a, Original(G)) <=> Satisfies(a, G)
  <2>1. \A d \in G : Residual(d) \cap a = d \cap a
    BY <1>2, ResidualLits
  <2>2. ASSUME Satisfies(a, Original(G)), NEW d \in G  PROVE d \cap a # {}
    <3>1. CASE True(d)
      BY <3>1, <1>2 DEF True
    <3>2. CASE Tautology(d)
      BY <3>2, <1>2, TautologyHolds
    <3>3. CASE ~True(d) /\ ~Tautology(d)
      <4>1. Residual(d) \in Original(G)
        BY <3>3 DEF Original
      <4> QED BY <4>1, <2>1, <2>2 DEF Satisfies
    <3> QED BY <3>1, <3>2, <3>3
  <2>3. ASSUME Satisfies(a, G), NEW e \in Original(G)  PROVE e \cap a # {}
    BY <1>1, <2>1, <2>3 DEF Satisfies
  <2> QED BY <2>2, <2>3 DEF Satisfies
<1> QED BY <1>1, <1>2

\* Adding clauses: what the stack holds against the new literals is restored with
\* them, and the entries that stay still reconstruct from what is then held.
LEMMA AddClausesInv ==
  ASSUME Inv, AddClauses
  PROVE  Inv'
<1>1. Searching
  BY DEF AddClauses
<1>2. PICK F \in Additions :
        LET r == Restoring(F)
            new == Original(F \cup r.restored)
            used == VarsOf(UNION (F \cup r.restored))
            T == Propagation(new \cup Formula, units)
        IN
        /\ given' = given \cup F
        /\ extension' = r.kept
        /\ irr' = irr \cup {c \in new : Cardinality(c) > 1}
        /\ IF {} \in new \/ Inconsistent(T)
           THEN unsat' = TRUE /\ UNCHANGED <<units, status>>
           ELSE /\ units' = T
                /\ status' = [v \in Vars |-> IF v \in VarsOf(T) THEN "fixed" ELSE Reactivated(used)[v]]
                /\ UNCHANGED unsat
        /\ UNCHANGED <<red, observed, control>>
  BY DEF AddClauses
<1> DEFINE kept == Restoring(F).kept
           G == F \cup Restoring(F).restored
           new == Original(G)
           used == VarsOf(UNION G)
           T == Propagation(new \cup Formula, units)
<1>3. /\ ~unsat /\ work = Idle /\ work.kind # "substitute" /\ ~Late /\ Types /\ Base /\ Meaning
      /\ \A e \in irr \cup red : e \subseteq Lits /\ Good(e)
      /\ Holds' /\ plan' = plan /\ work' = work => Inv'
  BY <1>1, SearchLoop
<1>4. /\ given' = given \cup F /\ extension' = kept /\ red' = red /\ observed' = observed
      /\ irr' = irr \cup {c \in new : Cardinality(c) > 1}
      /\ plan' = plan /\ work' = work
  BY <1>2 DEF control
<1>5. \/ ({} \in new \/ Inconsistent(T)) /\ unsat' = TRUE
      \/ /\ {} \notin new /\ ~Inconsistent(T)
         /\ units' = T /\ unsat' = unsat
         /\ status' = [v \in Vars |-> IF v \in VarsOf(T) THEN "fixed" ELSE Reactivated(used)[v]]
  BY <1>2
<1>6. F \subseteq SUBSET Lits
  BY AdditionsAssumption
<1>7. units \subseteq Lits /\ extension \in Seq(EntrySet) /\ irr \subseteq SUBSET Lits /\ red \subseteq SUBSET Lits
      /\ given \subseteq SUBSET Lits /\ observed \subseteq Vars
      /\ status \in [Vars -> {"active", "fixed", "eliminated", "pure", "substituted", "unused", "unmapped"}]
  BY <1>3 DEF Types
<1>8. /\ kept \in Seq(EntrySet) /\ G \subseteq SUBSET Lits
      /\ \A k \in 1 .. Len(kept) : \E j \in 1 .. Len(extension) : kept[k] = extension[j]
      /\ \A c \in Restoring(F).restored : \E j \in 1 .. Len(extension) : c = extension[j].clause
  BY <1>6, <1>7, RestoringSubset
<1>9. \A A, B : Reconstructs(A, extension, given) /\ B \subseteq A /\ (\A a \in B : Satisfies(a, G))
        => Reconstructs(B, kept, given \cup F)
  BY <1>6, <1>7, RestoringReconstructs
<1> HIDE DEF kept, G
<1>10. /\ new \subseteq SUBSET Lits
       /\ \A e \in new : \E d \in G : e = Residual(d) /\ e \subseteq d /\ ~Tautology(e)
       /\ \A a : Total(a) /\ units \subseteq a => (Satisfies(a, new) <=> Satisfies(a, G))
  BY <1>7, <1>8, OriginalFacts
<1> HIDE DEF new
<1>11. Formula \subseteq SUBSET Lits /\ new \cup Formula \subseteq SUBSET Lits
  BY <1>7, <1>10 DEF Formula
<1>12. /\ T \subseteq Lits /\ units \subseteq T
       /\ \A a : Total(a) /\ Satisfies(a, new \cup Formula) /\ units \subseteq a => T \subseteq a
       /\ Inconsistent(T) => \A a : Total(a) /\ units \subseteq a => ~Satisfies(a, new \cup Formula)
       /\ ~Inconsistent(T) => \A c \in new \cup Formula : c # {} => OpenIn(c, T)
  BY <1>7, <1>11, PropagatedFacts
<1> HIDE DEF T
<1>13. ASSUME NEW a, Total(a), Satisfies(a, given')
       PROVE  /\ Satisfies(a, irr \cup red) /\ units \subseteq a /\ Satisfies(a, new)
              /\ Satisfies(a, new \cup Formula)
              /\ \A j \in 1 .. Len(extension) : extension[j].clause \cap a # {}
  <2>1. Satisfies(a, given) /\ Satisfies(a, F)
    BY <1>4, <1>13 DEF Satisfies
  <2>2. Satisfies(a, irr \cup red) /\ units \subseteq a
        /\ \A j \in 1 .. Len(extension) : extension[j].clause \cap a # {}
    BY <2>1, <1>3, <1>13 DEF Meaning
  <2>3. Satisfies(a, G)
    <3>1. \A c \in Restoring(F).restored : c \cap a # {}
      BY <2>2, <1>8
    <3> QED BY <3>1, <2>1 DEF G, Satisfies
  <2>4. Satisfies(a, new)
    BY <2>2, <2>3, <1>10, <1>13
  <2> QED BY <2>2, <2>4 DEF Satisfies, Formula
<1>14. CASE ({} \in new \/ Inconsistent(T)) /\ unsat' = TRUE
  <2>1. NoModel'
    BY <1>12, <1>13, <1>14 DEF NoModel, Satisfies
  <2> QED BY <2>1, <1>14 DEF Inv
<1>15. CASE /\ {} \notin new /\ ~Inconsistent(T)
            /\ units' = T /\ unsat' = unsat
            /\ status' = [v \in Vars |-> IF v \in VarsOf(T) THEN "fixed" ELSE Reactivated(used)[v]]
  <2>1. \A v \in Vars : status'[v] = IF v \in VarsOf(T) THEN "fixed"
                                     ELSE IF v \in used THEN "active" ELSE status[v]
    BY <1>15 DEF Reactivated
  <2>2. status' \in [Vars -> {"active", "fixed", "eliminated", "pure", "substituted", "unused", "unmapped"}]
    BY <1>7, <1>15, <2>1
  <2>3. irr' \subseteq SUBSET Lits
    BY <1>4, <1>7, <1>10
  <2>4. Types'
    BY <1>4, <1>6, <1>7, <1>8, <1>12, <1>15, <2>2, <2>3 DEF Types
  <2>5. \A l \in Lits : (Present(l) \/ VarOf(l) \in used => Present(l)') /\ (Active(l)' => l \notin T)
    <3>1. ASSUME NEW l \in Lits
          PROVE (Present(l) \/ VarOf(l) \in used => Present(l)') /\ (Active(l)' => l \notin T)
      <4>1. VarOf(l) \in Vars /\ (l \in T => VarOf(l) \in VarsOf(T))
        BY LitFacts DEF VarsOf
      <4> QED BY <4>1, <2>1 DEF Present, Active
    <3> QED BY <3>1
  <2>6. \A c \in irr \cup red : Good(c)'
    BY <1>3, <2>5 DEF Good
  <2>7. \A c \in new : Cardinality(c) > 1 => Good(c)'
    <3>1. ASSUME NEW c \in new, Cardinality(c) > 1  PROVE Good(c)'
      <4>1. PICK d \in G : c \subseteq d /\ ~Tautology(c)
        BY <1>10
      <4>2. Cardinality(c) >= 2 /\ c \subseteq Lits
        BY <1>10, <3>1, Singletons
      <4>3. \A l \in c : VarOf(l) \in used
        BY <4>1 DEF VarsOf
      <4> QED BY <4>1, <4>2, <4>3, <2>5 DEF Good
    <3> QED BY <3>1
  <2>8. \A c \in irr' : Good(c)' /\ OpenIn(c, T)
    <3>1. ASSUME NEW c \in irr'  PROVE Good(c)' /\ OpenIn(c, T)
      <4>1. Good(c)' /\ c \in new \cup Formula /\ c \subseteq Lits
        BY <1>4, <1>7, <1>10, <2>6, <2>7 DEF Formula
      <4>2. c # {}
        BY <4>1, NotEmpty DEF Good
      <4> QED BY <4>1, <4>2, <1>12, <1>15
    <3> QED BY <3>1
  <2>9. Base'
    BY <1>4, <1>15, <2>5, <2>6, <2>8 DEF Base, Good
  <2>10. Equivalences' = {}
    BY <1>3, <1>4 DEF Equivalences
  <2>11. Meaning'
    <3>1. ASSUME NEW a, Total(a), Satisfies(a, given')
          PROVE  /\ Satisfies(a, irr' \cup red') /\ units' \subseteq a /\ Satisfies(a, Equivalences')
                 /\ \A j \in 1 .. Len(extension') : extension'[j].clause \cap a # {}
      <4>1. /\ Satisfies(a, irr \cup red) /\ units \subseteq a /\ Satisfies(a, new)
            /\ Satisfies(a, new \cup Formula)
            /\ \A j \in 1 .. Len(extension) : extension[j].clause \cap a # {}
        BY <3>1, <1>13
      <4>2. T \subseteq a
        BY <4>1, <3>1, <1>12
      <4>3. Satisfies(a, irr' \cup red') /\ Satisfies(a, Equivalences')
        BY <4>1, <2>10, <1>4 DEF Satisfies
      <4>4. \A j \in 1 .. Len(extension') : extension'[j].clause \cap a # {}
        BY <4>1, <1>4, <1>8
      <4> QED BY <4>2, <4>3, <4>4, <1>15
    <3>2. Harmless(extension)'
      <4>1. \A j \in 1 .. Len(extension) : /\ ~Inconsistent(extension[j].witness)
                                           /\ \A l \in extension[j].witness : ~Frozen(l)
        BY <1>3 DEF Meaning, Harmless
      <4>2. \A k \in 1 .. Len(kept) : /\ ~Inconsistent(kept[k].witness)
                                      /\ \A l \in kept[k].witness : ~Frozen(l)
        BY <4>1, <1>8
      <4> QED BY <4>2, <1>4 DEF Harmless, Frozen
    <3>3. Reconstructs(Mod(irr', units'), extension', given')
      <4>1. Mod(irr', T) \subseteq Mod(irr, units)
        <5>1. ASSUME NEW a, Total(a), Satisfies(a, irr'), T \subseteq a
              PROVE  Satisfies(a, irr) /\ units \subseteq a
          BY <5>1, <1>4, <1>12 DEF Satisfies
        <5> QED BY <5>1, ModLess
      <4>2. ASSUME NEW a \in Mod(irr', T)  PROVE Satisfies(a, G)
        <5>1. Total(a) /\ Satisfies(a, irr') /\ T \subseteq a
          BY <4>2 DEF Mod
        <5>2. ASSUME NEW c \in new  PROVE c \cap a # {}
          <6>1. c \subseteq Lits /\ c # {} /\ Cardinality(c) \in Nat
            BY <1>10, <1>15, Singletons
          <6>2. CASE Cardinality(c) > 1
            BY <6>2, <5>1, <1>4 DEF Satisfies
          <6>3. CASE ~(Cardinality(c) > 1)
            <7>1. PICK x \in c : c = {x}
              BY <6>1, <6>3, Singletons
            <7>2. ~(Cardinality({l \in c : -l \notin T}) >= 2)
              <8>1. {l \in c : -l \notin T} \subseteq Lits /\ \A x1, x2 \in {l \in c : -l \notin T} : x1 = x2
                BY <7>1, <6>1
              <8> QED BY <8>1, TwoOrMore
            <7>3. c \cap T # {}
              BY <7>2, <6>1, <1>12, <1>15 DEF OpenIn
            <7> QED BY <7>3, <5>1
          <6> QED BY <6>2, <6>3
        <5>3. Satisfies(a, new) /\ units \subseteq a
          BY <5>1, <5>2, <1>12 DEF Satisfies
        <5> QED BY <5>1, <5>3, <1>10
      <4>3. Reconstructs(Mod(irr, units), extension, given)
        BY <1>3 DEF Meaning
      <4>4. Reconstructs(Mod(irr', T), kept, given \cup F)
        BY <4>1, <4>2, <4>3, <1>9
      <4> QED BY <4>4, <1>4, <1>15
    <3> QED BY <3>1, <3>2, <3>3 DEF Meaning
  <2>12. Holds'
    BY <2>4, <2>9, <2>11, <1>3, <1>15 DEF Holds
  <2> QED BY <2>12, <1>3, <1>4
<1> QED BY <1>5, <1>14, <1>15

-----------------------------------------------------------------------------
(* Probing and hyper resolution.                                           *)

\* A literal whose propagation runs into a conflict is false.
LEMMA FailedLiteralInv ==
  ASSUME Inv, FailedLiteral
  PROVE  Inv'
<1>1. At("probe")
  BY DEF FailedLiteral
<1>2. PICK probe \in Roots : \E uip \in Propagation(Formula, units \cup {probe}) :
        /\ Fails(uip) /\ Become(irr, red, {-uip})
        /\ UNCHANGED <<extension, user, control>>
  BY DEF FailedLiteral
<1>3. PICK uip \in Propagation(Formula, units \cup {probe}) :
        /\ Fails(uip) /\ Become(irr, red, {-uip})
        /\ UNCHANGED <<extension, user, control>>
  BY <1>2
<1>4. NoHurry
  BY <1>3 DEF NoHurry
<1>5. \A e \in irr \cup red : e \subseteq Lits /\ Good(e)
  BY <1>1, <1>4, IdleProcedure
<1>6. units \subseteq Lits /\ Formula \subseteq SUBSET Lits
  BY <1>1, InvParts DEF At, Types, Formula
<1>7. uip \in Lits /\ -uip \in Lits
  <2>1. probe \in Lits
    BY DEF Roots
  <2>2. Propagation(Formula, units \cup {probe}) \subseteq Lits
    BY <1>6, <2>1, PropagationFacts
  <2> QED BY <2>2, LitFacts
<1>8. ASSUME NEW a, Total(a), Satisfies(a, irr \cup red), units \subseteq a, -uip \notin a  PROVE FALSE
  <2>1. uip \in a
    BY <1>7, <1>8 DEF Total
  <2>2. PICK F, T : F = Formula /\ T = units \cup {uip}
    OBVIOUS
  <2>3. F \subseteq SUBSET Lits /\ Refuted(F, T) /\ Total(a) /\ Satisfies(a, F) /\ T \subseteq a
    BY <2>1, <2>2, <1>3, <1>6, <1>8 DEF Fails, Formula
  <2> QED BY ONLY <2>3, RefutedSound
<1>9. PICK m : m = -uip
  OBVIOUS
<1>10. /\ m \in Lits /\ Become(irr, red, {m})
       /\ \A a : Total(a) /\ Satisfies(a, irr \cup red) /\ units \subseteq a => m \in a
  BY <1>3, <1>7, <1>8, <1>9
<1>11. "probe" \notin {"elim", "block"}
  OBVIOUS
<1> QED BY ONLY <1>1, <1>4, <1>10, <1>11, Inv, UnitStep

\* Active literals are open.
LEMMA ActiveOpen ==
  ASSUME \A l \in Lits : Active(l) => l \notin units, NEW l \in Lits, Active(l)
  PROVE  l \notin units /\ -l \notin units /\ Present(l)
<1>1. -l \in Lits /\ VarOf(-l) = VarOf(l)
  BY LitFacts
<1> QED BY <1>1 DEF Active, Present

\* A hyper binary resolvent follows from the clauses propagated over.
LEMMA HyperBinaryInv ==
  ASSUME Inv, HyperBinary
  PROVE  Inv'
<1>1. At("probe")
  BY DEF HyperBinary
<1>2. PICK reason \in Formula, dom \in Lits : \E l \in reason :
    LET new == {-dom, l}
        below == Below(dom)
        contained == -dom \in reason
        late == contained /\ reason \in irr
    IN
    /\ Active(dom) /\ Active(l) /\ VarOf(l) # VarOf(dom)
    /\ Negated(reason \ {l}) \subseteq below
    /\ irr' = (IF contained THEN irr \ {reason} ELSE irr) \cup (IF late THEN {new} ELSE {})
    /\ red' = (IF contained THEN red \ {reason} ELSE red) \cup (IF late THEN {} ELSE {new})
    /\ UNCHANGED <<units, unsat, status, extension, user, control>>
  BY ZenonT(60) DEF HyperBinary
<1>3. PICK l \in reason :
    LET new == {-dom, l}
        below == Below(dom)
        contained == -dom \in reason
        late == contained /\ reason \in irr
    IN
    /\ Active(dom) /\ Active(l) /\ VarOf(l) # VarOf(dom)
    /\ Negated(reason \ {l}) \subseteq below
    /\ irr' = (IF contained THEN irr \ {reason} ELSE irr) \cup (IF late THEN {new} ELSE {})
    /\ red' = (IF contained THEN red \ {reason} ELSE red) \cup (IF late THEN {} ELSE {new})
    /\ UNCHANGED <<units, unsat, status, extension, user, control>>
  BY <1>2
<1> DEFINE new == {-dom, l}
<1>4. NoHurry /\ units' = units /\ status' = status /\ unsat' = unsat
  BY <1>3 DEF NoHurry
<1>5. /\ Searchable /\ Unchanged /\ ~Late
      /\ \A e \in irr \cup red : e \subseteq Lits /\ Good(e)
      /\ Holds' => Inv'
  BY <1>1, <1>4, IdleProcedure
<1>6. reason \in irr \cup red /\ reason \subseteq Lits /\ l \in Lits /\ -dom \in Lits /\ units \subseteq Lits
  BY <1>5, LitFacts DEF Formula, Searchable, Types
<1>7. new \subseteq Lits /\ Good(new) /\ OpenIn(new, units)
  <2>1. -dom # l /\ VarOf(-dom) = VarOf(dom) /\ Active(-dom)
    BY <1>3, LitFacts DEF Active
  <2>2. Cardinality(new) >= 2
    BY <2>1, <1>6, TwoOrMore
  <2>3. l \notin units /\ -l \notin units /\ Present(l)
    BY <1>3, <1>5, <1>6, ActiveOpen DEF Searchable, Base
  <2>4. -dom \notin units /\ -(-dom) \notin units /\ Present(-dom)
    BY <2>1, <1>5, <1>6, ActiveOpen DEF Searchable, Base
  <2>5. ~Tautology(new)
    <3>1. -l # l /\ -(-dom) # -dom /\ VarOf(-l) = VarOf(l) /\ VarOf(-(-dom)) = VarOf(dom)
      BY <1>6, LitFacts
    <3>2. -l # -dom /\ -(-dom) # l
      BY <3>1, <2>1, <1>3
    <3> QED BY <3>1, <3>2 DEF Tautology
  <2>6. {o \in new : -o \notin units} = new
    BY <2>3, <2>4
  <2> QED BY <1>6, <2>2, <2>3, <2>4, <2>5, <2>6 DEF Good, OpenIn
<1>8. ASSUME NEW a, Total(a), Satisfies(a, irr \cup red), units \subseteq a  PROVE new \cap a # {}
  <2>1. ASSUME dom \in a  PROVE l \in a
    <3>1. PICK F, T : F = Binaries(Formula) /\ T = units \cup {dom}
      OBVIOUS
    <3>2. F \subseteq SUBSET Lits /\ Satisfies(a, F) /\ T \subseteq a /\ Total(a)
      BY <3>1, <2>1, <1>5, <1>8 DEF Binaries, Formula, Satisfies
    <3>3. Propagation(F, T) \subseteq a
      BY ONLY <3>2, PropagationSound
    <3>4. Negated(reason \ {l}) \subseteq a
      BY <3>1, <3>3, <1>3 DEF Below
    <3>5. \A o \in reason : o # l => o \notin a
      BY <3>4, <1>6, <1>8 DEF Negated, Total
    <3>6. reason \cap a # {}
      BY <1>6, <1>8 DEF Satisfies
    <3> QED BY <3>5, <3>6
  <2>2. dom \in a \/ -dom \in a
    BY <1>8 DEF Total
  <2> QED BY <2>1, <2>2
<1>9. -dom \in reason => new \subseteq reason
  OBVIOUS
<1> HIDE DEF new
<1>10. /\ irr' \subseteq irr \cup {new} /\ red' \subseteq red \cup {new}
       /\ \A e \in irr : e \in irr' \/ (e = reason /\ -dom \in reason /\ new \in irr')
  BY <1>3 DEF new
<1>11. irr' \subseteq SUBSET Lits /\ red' \subseteq SUBSET Lits
  BY <1>5, <1>7, <1>10
<1>12. \A a : Total(a) /\ Satisfies(a, irr \cup red) /\ units \subseteq a => Satisfies(a, irr' \cup red')
  BY <1>8, <1>10 DEF Satisfies
<1>13. ASSUME NEW a, Satisfies(a, irr'), NEW e \in irr  PROVE e \cap a # {}
  BY <1>9, <1>10, <1>13 DEF Satisfies
<1>14. \A a : Total(a) /\ Satisfies(a, irr') /\ units \subseteq a => Satisfies(a, irr)
  BY <1>13 DEF Satisfies
<1>15. Holds'
  BY <1>4, <1>5, <1>7, <1>10, <1>11, <1>12, <1>14, PlainStep
<1> QED BY <1>5, <1>15

\* A model of two clauses satisfies their resolvent.
LEMMA ResolventFacts ==
  ASSUME NEW c, c \subseteq Lits, NEW d, d \subseteq Lits, NEW l \in Lits
  PROVE  /\ Resolvent(c, l, d) \subseteq Lits
         /\ \A a : Total(a) /\ c \cap a # {} /\ d \cap a # {} => Resolvent(c, l, d) \cap a # {}
<1>1. ASSUME NEW a, Total(a), c \cap a # {}, d \cap a # {}
      PROVE  Resolvent(c, l, d) \cap a # {}
  <2>1. l \notin a \/ -l \notin a
    BY <1>1 DEF Total
  <2> QED BY <2>1, <1>1 DEF Resolvent
<1> QED BY <1>1 DEF Resolvent

\* A ternary resolvent follows from its clauses; one of size two replaces them.
LEMMA HyperTernaryInv ==
  ASSUME Inv, HyperTernary
  PROVE  Inv'
<1>1. At("ternary")
  BY DEF HyperTernary
<1>2. PICK c \in Ternaries, d \in Ternaries : \E l \in c :
    LET r == Resolvent(c, l, d)
        late == Cardinality(r) = 2 /\ (c \in irr \/ d \in irr)
        gone == IF Cardinality(r) = 2 THEN {c, d} ELSE {}
    IN
    /\ -l \in d /\ ~Tautology(r)
    /\ irr' = (irr \ gone) \cup (IF late THEN {r} ELSE {})
    /\ red' = (red \ gone) \cup (IF late THEN {} ELSE {r})
    /\ UNCHANGED <<units, unsat, status, extension, user, control>>
  BY DEF HyperTernary
<1>3. PICK l \in c :
    LET r == Resolvent(c, l, d)
        late == Cardinality(r) = 2 /\ (c \in irr \/ d \in irr)
        gone == IF Cardinality(r) = 2 THEN {c, d} ELSE {}
    IN
    /\ -l \in d /\ ~Tautology(r)
    /\ irr' = (irr \ gone) \cup (IF late THEN {r} ELSE {})
    /\ red' = (red \ gone) \cup (IF late THEN {} ELSE {r})
    /\ UNCHANGED <<units, unsat, status, extension, user, control>>
  BY <1>2
<1> DEFINE r == Resolvent(c, l, d)
<1>4. NoHurry /\ units' = units /\ status' = status /\ unsat' = unsat
  BY <1>3 DEF NoHurry
<1>5. /\ Searchable /\ Unchanged /\ ~Late
      /\ \A e \in irr \cup red : e \subseteq Lits /\ Good(e)
      /\ Holds' => Inv'
  BY <1>1, <1>4, IdleProcedure
<1>6. /\ c \in irr \cup red /\ c \subseteq Lits /\ Good(c) /\ Cardinality(c) = 3 /\ Undecided(c)
      /\ d \in irr \cup red /\ d \subseteq Lits /\ Good(d) /\ Cardinality(d) = 3 /\ Undecided(d)
      /\ l \in Lits /\ units \subseteq Lits
  BY <1>5 DEF Ternaries, Formula, Undecided, Searchable, Types
<1>7. c \ {l} \subseteq r /\ d \ {-l} \subseteq r /\ r \subseteq Lits /\ IsFiniteSet(r)
      /\ Cardinality(c \ {l}) = 2 /\ Cardinality(d \ {-l}) = 2
  <2>1. IsFiniteSet(c) /\ IsFiniteSet(d) /\ -l \in d
    BY <1>3, <1>6, Singletons
  <2>4. PICK m : m = -l
    OBVIOUS
  <2>5. Cardinality(c \ {l}) = Cardinality(c) - 1
    BY <2>1, FS_RemoveElement
  <2>6. Cardinality(d \ {m}) = Cardinality(d) - 1
    BY <2>1, <2>4, FS_RemoveElement
  <2>2. Cardinality(c \ {l}) = 2 /\ Cardinality(d \ {-l}) = 2
    BY <2>4, <2>5, <2>6, <1>6
  <2>3. c \ {l} \subseteq r /\ d \ {-l} \subseteq r /\ r \subseteq Lits
    BY <1>6 DEF Resolvent
  <2> QED BY <2>2, <2>3, Singletons
<1>8. Good(r) /\ OpenIn(r, units)
  <2>1. Cardinality(r) >= 2
    BY <1>7, TwoInside
  <2>2. ~Tautology(r) /\ \A o \in r : Present(o)
    BY <1>3, <1>6 DEF Good, Resolvent
  <2>3. Undecided(r)
    BY <1>6 DEF Undecided, VarsOf, Resolvent
  <2> QED BY <2>1, <2>2, <2>3, <1>6, <1>7, UndecidedOpen DEF Good
<1>9. Cardinality(r) = 2 => r \subseteq c /\ r \subseteq d
  <2>1. ASSUME Cardinality(r) = 2  PROVE c \ {l} = r /\ d \ {-l} = r
    BY <2>1, <1>7, FS_Subset
  <2> QED BY <2>1
<1>10. \A a : Total(a) /\ Satisfies(a, irr \cup red) => r \cap a # {}
  BY <1>6, ResolventFacts DEF Satisfies
<1> HIDE DEF r
<1>11. /\ irr' \subseteq irr \cup {r} /\ red' \subseteq red \cup {r}
       /\ \A e \in irr : e \in irr' \/ (Cardinality(r) = 2 /\ e \in {c, d} /\ r \in irr')
  BY <1>3 DEF r
<1>12. irr' \subseteq SUBSET Lits /\ red' \subseteq SUBSET Lits
  BY <1>5, <1>7, <1>11
<1>13. \A a : Total(a) /\ Satisfies(a, irr \cup red) /\ units \subseteq a => Satisfies(a, irr' \cup red')
  BY <1>10, <1>11 DEF Satisfies
<1>14. ASSUME NEW a, Satisfies(a, irr'), NEW e \in irr  PROVE e \cap a # {}
  BY <1>9, <1>11, <1>14 DEF Satisfies
<1>15. \A a : Total(a) /\ Satisfies(a, irr') /\ units \subseteq a => Satisfies(a, irr)
  BY <1>14 DEF Satisfies
<1>16. Holds'
  BY <1>4, <1>5, <1>8, <1>11, <1>12, <1>13, <1>15, PlainStep
<1> QED BY <1>5, <1>16

-----------------------------------------------------------------------------
(* Equivalent literals: the implication graph and its components.          *)

Implications == {c \in Binaries(Formula) : \A o \in c : Active(o)}
EquivalentIn(a, repr) == \A l \in Lits : l \in a <=> repr[l] \in a

\* Closed sets follow the edges of the implication graph.
LEMMA ClosedEdges ==
  ASSUME NEW F, \A c \in F : c \subseteq Lits /\ Cardinality(c) = 2, NEW U, U \subseteq Lits
  PROVE  Closed(F, U) <=> \A c \in F : \A p \in c, q \in c : p # q /\ -p \in U => q \in U
<1>1. ASSUME Closed(F, U), NEW c \in F, NEW p \in c, NEW q \in c, p # q, -p \in U  PROVE q \in U
  <2>1. c = {p, q}
    BY <1>1, PairOf
  <2>2. ForcedBy(c, U) \subseteq U
    BY <1>1 DEF Closed, Forced
  <2>3. CASE -q \in U
    <3>1. {l \in c : -l \notin U} = {}
      BY <2>1, <2>3, <1>1
    <3> QED BY <3>1, <2>2 DEF ForcedBy
  <2>4. CASE -q \notin U
    <3>1. {l \in c : -l \notin U} = {q}
      BY <2>1, <2>4, <1>1
    <3>2. Cardinality({q}) = 1
      BY FS_Singleton
    <3> QED BY <3>1, <3>2, <2>2 DEF ForcedBy
  <2> QED BY <2>3, <2>4
<1>2. ASSUME \A c \in F : \A p \in c, q \in c : p # q /\ -p \in U => q \in U,
             NEW c \in F, NEW x \in ForcedBy(c, U)
      PROVE  x \in U
  <2> DEFINE open == {l \in c : -l \notin U}
  <2>1. c \subseteq Lits /\ Cardinality(c) >= 2 /\ open \subseteq Lits
    OBVIOUS
  <2>2. PICK p \in c, q \in c : p # q
    BY <2>1, TwoOrMore
  <2>3. c = {p, q}
    BY <2>2, PairOf
  <2>4. CASE open = {}
    <3>1. x \in c /\ -p \in U /\ -q \in U
      BY <2>4, <1>2, <2>3 DEF ForcedBy
    <3> QED BY <3>1, <2>2, <2>3, <1>2
  <2>5. CASE open # {}
    <3>1. Cardinality(open) = 1 /\ x \in open
      BY <2>5, <1>2 DEF ForcedBy
    <3>2. PICK y \in open : open = {y}
      BY <2>1, <3>1, Singletons
    <3>3. x \in c /\ \A o \in c : o # x => -o \in U
      BY <3>1, <3>2
    <3> QED BY <3>3, <2>2, <2>3, <1>2
  <2> QED BY <2>4, <2>5
<1> QED BY <1>1, <1>2 DEF Closed, Forced

\* Reachability in the implication graph: reflexive, transitive, the same for
\* negations in the other direction, and sound in every model.
LEMMA ReachableFacts ==
  ASSUME Formula \subseteq SUBSET Lits
  PROVE  /\ \A l \in Lits : Reachable(l) \subseteq Lits /\ l \in Reachable(l)
         /\ \A l \in Lits : \A o \in Reachable(l) : Reachable(o) \subseteq Reachable(l)
         /\ \A l \in Lits : \A o \in Reachable(l) : -l \in Reachable(-o)
         /\ \A l \in Lits : \A o \in Reachable(l) : o = l \/ Active(o)
         /\ \A l \in Lits : \A a : Total(a) /\ Satisfies(a, Formula) /\ l \in a => Reachable(l) \subseteq a
<1> DEFINE F == Implications
<1>0. F \subseteq Formula /\ F \subseteq SUBSET Lits
      /\ \A c \in F : c \subseteq Lits /\ Cardinality(c) = 2 /\ \A o \in c : Active(o)
  BY DEF Implications, Binaries
<1>1. ASSUME NEW l \in Lits
      PROVE  /\ Reachable(l) = Propagation(F, {l})
             /\ Reachable(l) \subseteq Lits /\ l \in Reachable(l) /\ Closed(F, Reachable(l))
             /\ \A U \in SUBSET Lits : l \in U /\ Closed(F, U) => Reachable(l) \subseteq U
  <2>1. Reachable(l) = Propagation(F, {l})
    BY DEF Reachable, Implications
  <2>2. {l} \subseteq Lits
    OBVIOUS
  <2> HIDE DEF F
  <2>3. PICK T : T = {l}
    OBVIOUS
  <2>4. /\ Propagation(F, T) \subseteq Lits /\ T \subseteq Propagation(F, T)
        /\ Closed(F, Propagation(F, T))
        /\ \A U \in SUBSET Lits : T \subseteq U /\ Closed(F, U) => Propagation(F, T) \subseteq U
    BY <1>0, <2>2, <2>3, PropagationFacts
  <2> QED BY <2>1, <2>3, <2>4
<1> HIDE DEF F
<1>2. \A U : U \subseteq Lits => (Closed(F, U) <=> \A c \in F : \A p \in c, q \in c : p # q /\ -p \in U => q \in U)
  BY <1>0, ClosedEdges
<1>3. ASSUME NEW l \in Lits, NEW o \in Reachable(l)  PROVE Reachable(o) \subseteq Reachable(l)
  <2>1. o \in Lits
    BY <1>1, <1>3
  <2> QED BY <2>1, <1>1, <1>3
<1>4. ASSUME NEW l \in Lits, NEW o \in Reachable(l)  PROVE -l \in Reachable(-o)
  <2> DEFINE U == {x \in Lits : -l \in Reachable(-x)}
  <2>1. -l \in Lits /\ l \in U
    <3>1. -l \in Lits
      BY LitFacts
    <3> QED BY <3>1, <1>1
  <2>2. ASSUME NEW c \in F, NEW p \in c, NEW q \in c, p # q, -p \in U  PROVE q \in U
    <3>1. p \in Lits /\ q \in Lits /\ -q \in Lits /\ -p \in Lits /\ -(-p) = p /\ -(-q) = q
      BY <1>0, LitFacts
    <3>2. -l \in Reachable(p)
      BY <2>2, <3>1
    <3>3. -q \in Reachable(-q) /\ Reachable(-q) \subseteq Lits /\ Closed(F, Reachable(-q))
      BY <3>1, <1>1
    <3>4. p \in Reachable(-q)
      BY <3>1, <3>3, <1>2, <2>2
    <3>5. Reachable(p) \subseteq Reachable(-q)
      BY <3>1, <3>4, <1>3
    <3> QED BY <3>1, <3>2, <3>5
  <2>3. Closed(F, U)
    <3>1. U \subseteq Lits
      OBVIOUS
    <3> HIDE DEF U
    <3> QED BY <3>1, <2>2, <1>2
  <2>4. Reachable(l) \subseteq U
    <3>1. U \in SUBSET Lits
      OBVIOUS
    <3> HIDE DEF U
    <3> QED BY <3>1, <2>1, <2>3, <1>1
  <2> QED BY <2>4, <1>4
<1>5. ASSUME NEW l \in Lits, NEW o \in Reachable(l)  PROVE o = l \/ Active(o)
  <2> DEFINE U == {x \in Lits : x = l \/ Active(x)}
  <2>1. U \subseteq Lits /\ l \in U /\ \A c \in F : c \subseteq U
    BY <1>0
  <2> HIDE DEF U
  <2>2. Closed(F, U)
    BY <2>1, <1>2
  <2>3. o \in U
    BY <2>1, <2>2, <1>1, <1>5
  <2> QED BY <2>3 DEF U
<1>6. ASSUME NEW l \in Lits, NEW a, Total(a), Satisfies(a, Formula), l \in a  PROVE Reachable(l) \subseteq a
  <2>1. PICK T : T = {l}
    OBVIOUS
  <2>2. T \subseteq a /\ Satisfies(a, F) /\ Total(a) /\ F \subseteq SUBSET Lits
    BY <2>1, <1>0, <1>6 DEF Satisfies
  <2>3. Propagation(F, T) \subseteq a
    BY ONLY <2>2, PropagationSound
  <2> QED BY <2>1, <2>3, <1>1
<1> QED BY <1>1, <1>3, <1>4, <1>5, <1>6

\* Strongly connected components are classes, and their literals are equivalent.
LEMMA ComponentFacts ==
  ASSUME Formula \subseteq SUBSET Lits
  PROVE  /\ \A l \in Lits : Component(l) \subseteq Lits /\ l \in Component(l)
         /\ \A l \in Lits : \A o \in Component(l) : Component(o) = Component(l)
         /\ \A l \in Lits : \A o \in Component(l) : -o \in Component(-l)
         /\ \A l \in Lits : \A o \in Component(l) : o = l \/ Active(o)
         /\ \A l \in Lits : \A a : \A o \in Component(l) :
              Total(a) /\ Satisfies(a, Formula) => (l \in a <=> o \in a)
<1>1. \A l \in Lits : Component(l) \subseteq Lits /\ l \in Component(l)
  BY ReachableFacts DEF Component
<1>2. ASSUME NEW l \in Lits, NEW o \in Component(l)  PROVE Component(o) = Component(l)
  <2>1. o \in Lits /\ o \in Reachable(l) /\ l \in Reachable(o)
    BY <1>1, <1>2 DEF Component
  <2>5. Reachable(o) \subseteq Reachable(l)
    BY <2>1, ReachableFacts
  <2>6. Reachable(l) \subseteq Reachable(o)
    BY <2>1, ReachableFacts
  <2>2. Reachable(o) = Reachable(l)
    BY <2>5, <2>6
  <2>3. ASSUME NEW x \in Lits  PROVE l \in Reachable(x) <=> o \in Reachable(x)
    BY <2>1, <2>3, ReachableFacts
  <2>4. \A x \in Reachable(l) : x \in Lits
    BY ReachableFacts
  <2> QED BY <2>2, <2>3, <2>4 DEF Component
<1>3. ASSUME NEW l \in Lits, NEW o \in Component(l)  PROVE -o \in Component(-l)
  <2>1. o \in Lits /\ o \in Reachable(l) /\ l \in Reachable(o)
    BY <1>1, <1>3 DEF Component
  <2> QED BY <2>1, ReachableFacts DEF Component
<1>4. \A l \in Lits : \A o \in Component(l) : o = l \/ Active(o)
  BY ReachableFacts DEF Component
<1>5. ASSUME NEW l \in Lits, NEW a, NEW o \in Component(l), Total(a), Satisfies(a, Formula)
      PROVE  l \in a <=> o \in a
  <2>1. o \in Lits /\ o \in Reachable(l) /\ l \in Reachable(o)
    BY <1>1, <1>5 DEF Component
  <2> QED BY <2>1, <1>5, ReachableFacts
<1> QED BY <1>1, <1>2, <1>3, <1>4, <1>5

\* Every component has a member with the smallest variable.
LEMMA SmallestMember ==
  ASSUME NEW S, S \subseteq Lits, S # {}
  PROVE  \E o \in S : \A m \in S : VarOf(o) <= VarOf(m)
<1> DEFINE V == {VarOf(l) : l \in S}
<1>1. V \subseteq Nat /\ V # {}
  <2>1. \A l \in S : VarOf(l) \in Nat
    BY LitFacts DEF Vars
  <2> QED BY <2>1
<1>2. PICK n \in V : \A m \in V : n <= m
  <2> HIDE DEF V
  <2> QED BY <1>1, LeastNat
<1> QED BY <1>2

\* The representative of a component is opposite to that of its negations; frozen
\* and inactive literals represent themselves.
LEMMA RepresentativeFacts ==
  ASSUME Formula \subseteq SUBSET Lits, \A l \in Lits : Active(l) => -l \notin Component(l), NEW l \in Lits
  PROVE  /\ Representative(l) \in Component(l) /\ Representative(l) \in Lits
         /\ Representative(-l) = -Representative(l)
         /\ Representative(Representative(l)) = Representative(l)
         /\ ~Active(l) \/ Frozen(l) => Representative(l) = l
<1>1. ASSUME NEW x \in Lits
      PROVE  /\ Representative(x) \in Component(x) /\ Representative(x) \in Lits
             /\ Active(x) /\ ~Frozen(x) =>
                  \A m \in Component(x) : VarOf(Representative(x)) <= VarOf(m)
             /\ ~Active(x) \/ Frozen(x) => Representative(x) = x
  <2>1. Component(x) \subseteq Lits /\ x \in Component(x)
    BY ComponentFacts
  <2>2. \E o \in Component(x) : \A m \in Component(x) : VarOf(o) <= VarOf(m)
    BY <2>1, SmallestMember
  <2> QED BY <2>1, <2>2 DEF Representative
<1>2. -l \in Lits /\ -(-l) = l /\ VarOf(-l) = VarOf(l)
  BY LitFacts
<1> DEFINE m == Representative(l)
           n == Representative(-l)
<1>3. m \in Component(l) /\ m \in Lits /\ n \in Component(-l) /\ n \in Lits
  BY <1>1, <1>2
<1>4. -m \in Component(-l) /\ -n \in Component(l)
  BY <1>2, <1>3, ComponentFacts
<1>5. n = -m
  <2>1. CASE ~Active(l) \/ Frozen(l)
    <3>1. m = l /\ n = -l
      BY <2>1, <1>1, <1>2 DEF Active, Frozen
    <3> QED BY <3>1
  <2>2. CASE Active(l) /\ ~Frozen(l)
    <3>1. Active(-l) /\ ~Frozen(-l)
      BY <2>2, <1>2 DEF Active, Frozen
    <3>2. VarOf(m) <= VarOf(-n) /\ VarOf(n) <= VarOf(-m)
      BY <1>1, <1>2, <1>4, <2>2, <3>1
    <3>3. VarOf(-n) = VarOf(n) /\ VarOf(-m) = VarOf(m) /\ VarOf(n) \in Nat /\ VarOf(m) \in Nat
      BY <1>3, LitFacts DEF Vars
    <3> HIDE DEF m, n
    <3>4. VarOf(m) = VarOf(n)
      BY <3>2, <3>3
    <3>5. n # m
      <4>1. ASSUME n = m  PROVE FALSE
        <5>1. Component(m) = Component(l) /\ Component(m) = Component(-l)
          BY <4>1, <1>2, <1>3, ComponentFacts
        <5>2. -l \in Component(l)
          BY <5>1, <1>2, ComponentFacts
        <5> QED BY <5>2, <2>2
      <4> QED BY <4>1
    <3> QED BY <3>4, <3>5, <1>3, SameVar
  <2> QED BY <2>1, <2>2
<1>6. Representative(m) = m
  <2>1. CASE ~Active(m) \/ Frozen(m)
    BY <2>1, <1>1, <1>3
  <2>2. CASE Active(m) /\ ~Frozen(m)
    <3>1. CASE ~Active(l) \/ Frozen(l)
      BY <3>1, <1>1
    <3>2. CASE Active(l) /\ ~Frozen(l)
      <4>1. Component(m) = Component(l)
        BY <1>3, ComponentFacts
      <4>2. Representative(m) = CHOOSE o \in Component(m) : \A k \in Component(m) : VarOf(o) <= VarOf(k)
        BY <2>2 DEF Representative
      <4>3. m = CHOOSE o \in Component(l) : \A k \in Component(l) : VarOf(o) <= VarOf(k)
        BY <3>2 DEF Representative
      <4> HIDE DEF m
      <4> QED BY <4>1, <4>2, <4>3
    <3> QED BY <3>1, <3>2
  <2> QED BY <2>1, <2>2
<1> QED BY <1>1, <1>3, <1>5, <1>6

-----------------------------------------------------------------------------
(* Substitution of equivalent literals.                                    *)

DefinedBy(repr) == UNION {{{-v, repr[v]}, {v, -repr[v]}} : v \in SubstitutedBy(repr)}
Symmetric(repr) == \A l \in Lits : repr[-l] = -repr[l] /\ repr[repr[l]] = repr[l]

\* What satisfies the equivalences tells no literal from its representative.
LEMMA EquivalentLits ==
  ASSUME NEW repr, repr \in [Lits -> Lits], Symmetric(repr), NEW a, Total(a)
  PROVE  Satisfies(a, DefinedBy(repr)) <=> EquivalentIn(a, repr)
<1>1. \A v \in Vars : v \in Lits /\ repr[v] \in Lits /\ -v \in Lits /\ -repr[v] \in Lits
  BY VarsAreLits, LitFacts
<1>2. ASSUME Satisfies(a, DefinedBy(repr)), NEW v \in Vars  PROVE v \in a <=> repr[v] \in a
  <2>1. CASE repr[v] = v
    BY <2>1
  <2>2. CASE repr[v] # v
    <3>1. {-v, repr[v]} \in DefinedBy(repr) /\ {v, -repr[v]} \in DefinedBy(repr)
      BY <2>2 DEF DefinedBy, SubstitutedBy
    <3>2. {-v, repr[v]} \cap a # {} /\ {v, -repr[v]} \cap a # {}
      BY <3>1, <1>2 DEF Satisfies
    <3>3. (-v \in a <=> v \notin a) /\ (-repr[v] \in a <=> repr[v] \notin a)
      BY <1>1 DEF Total
    <3> QED BY <3>2, <3>3
  <2> QED BY <2>1, <2>2
<1>3. ASSUME Satisfies(a, DefinedBy(repr)), NEW l \in Lits  PROVE l \in a <=> repr[l] \in a
  <2>1. VarOf(l) \in Vars /\ (l = VarOf(l) \/ l = -VarOf(l))
    BY LitFacts
  <2>2. PICK v \in Vars : l = v \/ l = -v
    BY <2>1
  <2>3. CASE l = v
    BY <2>3, <1>2, <1>3
  <2>4. CASE l = -v
    <3>1. repr[l] = -repr[v]
      BY <2>4, <1>1 DEF Symmetric
    <3>2. (-v \in a <=> v \notin a) /\ (-repr[v] \in a <=> repr[v] \notin a)
      BY <1>1 DEF Total
    <3> QED BY <3>1, <3>2, <2>4, <1>2, <1>3
  <2> QED BY <2>2, <2>3, <2>4
<1>4. ASSUME EquivalentIn(a, repr), NEW c \in DefinedBy(repr)  PROVE c \cap a # {}
  <2>1. PICK v \in Vars : c = {-v, repr[v]} \/ c = {v, -repr[v]}
    BY DEF DefinedBy, SubstitutedBy
  <2>2. (-v \in a <=> v \notin a) /\ (-repr[v] \in a <=> repr[v] \notin a)
    BY <1>1 DEF Total
  <2>3. v \in a <=> repr[v] \in a
    BY <1>1, <1>4 DEF EquivalentIn
  <2> QED BY <2>1, <2>2, <2>3
<1> QED BY <1>3, <1>4 DEF EquivalentIn, Satisfies

\* Finding the equivalences and pushing their entries: the stack below them still
\* reconstructs from the clauses together with the equivalences.
LEMMA DecomposeInv ==
  ASSUME Inv, Decompose
  PROVE  Inv'
<1> DEFINE repr == [l \in Lits |-> Representative(l)]
<1>1. /\ At("decompose")
      /\ \/ (\E l \in Lits : Active(l) /\ -l \in Component(l)) /\ unsat' = TRUE
         \/ /\ ~ \E l \in Lits : Active(l) /\ -l \in Component(l)
            /\ extension' = extension \o EquivalenceEntries(repr)
            /\ work' = [kind |-> "substitute", repr |-> repr, todo |-> Formula, late |-> {}]
            /\ plan' = plan /\ unsat' = unsat
      /\ irr' = irr /\ red' = red /\ units' = units /\ status' = status
      /\ observed' = observed /\ given' = given
  BY DEF Decompose, user
<1>2. ~unsat /\ plan # <<>> /\ Head(plan) = "decompose" /\ work = Idle
  BY <1>1 DEF At
<1>3. Types /\ Base /\ Meaning /\ Planned
  BY <1>2, InvParts
<1>4. Idle.kind = "idle"
  BY DEF Idle
<1>5. ~Late /\ Formula \subseteq SUBSET Lits /\ Formula = irr \cup red /\ extension \in Seq(EntrySet)
  BY <1>2, <1>3 DEF Late, Types, Formula
<1>6. \A a : Total(a) /\ Satisfies(a, given) =>
        /\ Satisfies(a, Formula) /\ units \subseteq a
        /\ \A j \in 1 .. Len(extension) : extension[j].clause \cap a # {}
  BY <1>3, <1>5 DEF Meaning
<1>7. CASE (\E l \in Lits : Active(l) /\ -l \in Component(l)) /\ unsat' = TRUE
  <2>1. PICK l \in Lits : -l \in Component(l)
    BY <1>7
  <2>2. ASSUME NEW a, Total(a), Satisfies(a, given)  PROVE FALSE
    <3>1. l \in a <=> -l \in a
      BY <2>1, <2>2, <1>5, <1>6, ComponentFacts
    <3> QED BY <3>1, <2>2 DEF Total
  <2> QED BY <2>2, <1>1, <1>7 DEF Inv, NoModel
<1>8. CASE /\ ~ \E l \in Lits : Active(l) /\ -l \in Component(l)
           /\ extension' = extension \o EquivalenceEntries(repr)
           /\ work' = [kind |-> "substitute", repr |-> repr, todo |-> Formula, late |-> {}]
           /\ plan' = plan /\ unsat' = unsat
  <2>1. \A l \in Lits :
          /\ Representative(l) \in Component(l) /\ Representative(l) \in Lits
          /\ Representative(-l) = -Representative(l)
          /\ Representative(Representative(l)) = Representative(l)
          /\ ~Active(l) \/ Frozen(l) => Representative(l) = l
    BY <1>5, <1>8, RepresentativeFacts
  <2>2. repr \in [Lits -> Lits] /\ \A l \in Lits : repr[l] = Representative(l)
    BY <2>1
  <2>3. /\ work'.kind = "substitute" /\ work'.repr = repr /\ work'.todo = Formula /\ work'.late = {}
        /\ work' = [kind |-> "substitute", repr |-> repr, todo |-> Formula, late |-> {}]
    BY <1>8
  <2> HIDE DEF repr
  <2>4. Symmetric(repr)
    <3>1. \A l \in Lits : -l \in Lits
      BY LitFacts
    <3> QED BY <3>1, <2>1, <2>2 DEF Symmetric
  <2>5. \A l \in Lits : Replaces(repr, l)
    <3>1. ASSUME NEW l \in Lits  PROVE Replaces(repr, l)
      <4>1. repr[l] \in Component(l) /\ (~Active(l) \/ Frozen(l) => repr[l] = l)
        BY <2>1, <2>2
      <4>2. repr[l] = l \/ Present(repr[l])
        BY <4>1, <1>5, ComponentFacts DEF Present, Active
      <4>3. l \in units => ~Active(l)
        BY <1>3 DEF Base
      <4> QED BY <4>1, <4>2, <4>3, <2>4 DEF Replaces, Symmetric
    <3> QED BY <3>1
  <2>6. Equivalences' = DefinedBy(repr)
    BY <2>3 DEF Equivalences, DefinedBy
  <2>7. /\ EquivalenceEntries(repr) \in Seq(EntrySet)
        /\ \A j \in 1 .. Len(EquivalenceEntries(repr)) : \E v \in SubstitutedBy(repr) :
              \/ EquivalenceEntries(repr)[j] = Entry({-v}, {repr[v], -v})
              \/ EquivalenceEntries(repr)[j] = Entry({v}, {v, -repr[v]})
    BY <2>2, EquivalenceEntriesFacts
  <2> DEFINE es == EquivalenceEntries(repr)
  <2> HIDE DEF es
  <2>8. /\ extension' \in Seq(EntrySet) /\ extension' = extension \o es
        /\ \A j \in 1 .. Len(extension') :
             \/ j \in 1 .. Len(extension) /\ extension'[j] = extension[j]
             \/ \E v \in SubstitutedBy(repr) :
                  extension'[j] = Entry({-v}, {repr[v], -v}) \/ extension'[j] = Entry({v}, {v, -repr[v]})
    <3>1. /\ extension' \in Seq(EntrySet) /\ extension' = extension \o es
          /\ Len(extension') = Len(extension) + Len(es) /\ Len(extension) \in Nat /\ Len(es) \in Nat
          /\ \A j \in 1 .. Len(extension) + Len(es) :
               extension'[j] = IF j <= Len(extension) THEN extension[j] ELSE es[j - Len(extension)]
      BY <2>7, <1>5, <1>8 DEF es
    <3>2. ASSUME NEW j \in 1 .. Len(extension')
          PROVE  \/ j \in 1 .. Len(extension) /\ extension'[j] = extension[j]
                 \/ j - Len(extension) \in 1 .. Len(es) /\ extension'[j] = es[j - Len(extension)]
      BY <3>1
    <3>3. \A j \in 1 .. Len(es) : \E v \in SubstitutedBy(repr) :
              es[j] = Entry({-v}, {repr[v], -v}) \/ es[j] = Entry({v}, {v, -repr[v]})
      BY <2>7 DEF es
    <3>4. ASSUME NEW j \in 1 .. Len(extension'),
                 j - Len(extension) \in 1 .. Len(es) /\ extension'[j] = es[j - Len(extension)]
          PROVE  \E v \in SubstitutedBy(repr) :
                   extension'[j] = Entry({-v}, {repr[v], -v}) \/ extension'[j] = Entry({v}, {v, -repr[v]})
      <4>1. PICK k \in 1 .. Len(es) : extension'[j] = es[k]
        BY <3>4
      <4> QED BY <4>1, <3>3
    <3> QED BY <3>1, <3>2, <3>4
  <2>9. ASSUME NEW a, Total(a), Satisfies(a, given)
        PROVE  EquivalentIn(a, repr) /\ Satisfies(a, DefinedBy(repr))
    <3>1. \A l \in Lits : l \in a <=> repr[l] \in a
      BY <2>1, <2>2, <2>9, <1>5, <1>6, ComponentFacts
    <3> QED BY <3>1, <2>2, <2>4, <2>9, EquivalentLits DEF EquivalentIn
  <2>10. Types'
    BY <1>1, <1>3, <2>8 DEF Types
  <2>11. Base'
    <3>1. work'.kind = "substitute"
      BY <2>3
    <3> QED BY <3>1, <1>1, <1>3, <1>5 DEF Base, Good, Present, Active
  <2>12. Meaning'
    <3>1. ASSUME NEW a, Total(a), Satisfies(a, given')
          PROVE  /\ Satisfies(a, irr' \cup red') /\ units' \subseteq a /\ Satisfies(a, Equivalences')
                 /\ \A j \in 1 .. Len(extension') : extension'[j].clause \cap a # {}
      <4>1. /\ Satisfies(a, Formula) /\ units \subseteq a /\ Satisfies(a, DefinedBy(repr))
            /\ \A j \in 1 .. Len(extension) : extension[j].clause \cap a # {}
        BY <3>1, <1>1, <1>6, <2>9
      <4>2. ASSUME NEW j \in 1 .. Len(extension')  PROVE extension'[j].clause \cap a # {}
        <5>1. CASE j \in 1 .. Len(extension) /\ extension'[j] = extension[j]
          BY <5>1, <4>1
        <5>2. ASSUME NEW v \in SubstitutedBy(repr),
                     extension'[j] = Entry({-v}, {repr[v], -v}) \/ extension'[j] = Entry({v}, {v, -repr[v]})
              PROVE  extension'[j].clause \cap a # {}
          <6>1. {-v, repr[v]} \in DefinedBy(repr) /\ {v, -repr[v]} \in DefinedBy(repr)
            BY DEF DefinedBy
          <6>2. {-v, repr[v]} \cap a # {} /\ {v, -repr[v]} \cap a # {}
            BY <6>1, <4>1 DEF Satisfies
          <6>3. extension'[j].clause = {repr[v], -v} \/ extension'[j].clause = {v, -repr[v]}
            BY <5>2 DEF Entry
          <6> QED BY <6>2, <6>3
        <5> QED BY <5>1, <5>2, <2>8
      <4> QED BY <4>1, <4>2, <1>1, <1>5, <2>6
    <3>2. Harmless(extension)'
      <4>1. ASSUME NEW j \in 1 .. Len(extension')
            PROVE  ~Inconsistent(extension'[j].witness) /\ \A l \in extension'[j].witness : ~Frozen(l)
        <5>1. CASE j \in 1 .. Len(extension) /\ extension'[j] = extension[j]
          BY <5>1, <1>3 DEF Meaning, Harmless
        <5>2. ASSUME NEW v \in SubstitutedBy(repr),
                     extension'[j] = Entry({-v}, {repr[v], -v}) \/ extension'[j] = Entry({v}, {v, -repr[v]})
              PROVE  ~Inconsistent(extension'[j].witness) /\ \A l \in extension'[j].witness : ~Frozen(l)
          <6>1. v \in Vars /\ repr[v] # v
            BY DEF SubstitutedBy
          <6>2. v \in Lits /\ -v \in Lits /\ v # -v /\ -(-v) = v /\ VarOf(-v) = VarOf(v)
            BY <6>1, VarsAreLits, LitFacts
          <6>3. ~Frozen(v) /\ ~Frozen(-v)
            BY <6>1, <6>2, <2>5 DEF Replaces, Frozen
          <6>4. extension'[j].witness = {-v} \/ extension'[j].witness = {v}
            BY <5>2 DEF Entry
          <6>5. ~Inconsistent({v}) /\ ~Inconsistent({-v})
            BY <6>2 DEF Inconsistent
          <6>6. CASE extension'[j].witness = {v}
            BY <6>6, <6>3, <6>5
          <6>7. CASE extension'[j].witness = {-v}
            BY <6>7, <6>3, <6>5
          <6> QED BY <6>4, <6>6, <6>7
        <5> QED BY <5>1, <5>2, <2>8
      <4> QED BY <4>1, <1>1 DEF Harmless, Frozen
    <3>3. work'.kind = "substitute"
      BY <2>3
    <3> QED BY <3>1, <3>2, <3>3 DEF Meaning
  <2>13. Planned'
    BY <1>2, <1>3, <1>8 DEF Planned, PlanOK
  <2>14. Substituting'
    <3>1. Reconstructs(Mod(irr' \cup Equivalences', units'), extension, given')
      <4>1. Mod(irr \cup DefinedBy(repr), units) \subseteq Mod(irr, units)
        BY DEF Mod, Satisfies
      <4>2. Reconstructs(Mod(irr, units), extension, given)
        BY <1>2, <1>3, <1>4 DEF Meaning
      <4>3. Reconstructs(Mod(irr \cup DefinedBy(repr), units), extension, given)
        BY <4>1, <4>2, ReconstructsLess
      <4> QED BY <4>3, <2>6, <1>1
    <3>2. \E st \in Seq(EntrySet) :
             /\ extension' = st \o EquivalenceEntries(work'.repr)
             /\ Reconstructs(Mod(irr' \cup Equivalences', units'), st, given')
      BY <3>1, <2>3, <2>8, <1>5 DEF es
    <3>3. \A l \in Lits : Replaces(work.repr, l)'
      BY <2>3, <2>5, <1>1 DEF Replaces, Present, Frozen
    <3>4. /\ work'.todo \subseteq irr' \cup red' /\ work'.late \subseteq SUBSET Lits
          /\ \A c \in work'.late : FALSE
          /\ \A c \in irr' \cup red' : c \in work'.todo
      BY <2>3, <1>1, <1>5
    <3>5. plan' # <<>> /\ Head(plan') = "decompose"
      BY <1>2, <1>8
    <3> QED BY <2>2, <2>3, <3>2, <3>3, <3>4, <3>5 DEF Substituting
  <2> QED BY <2>10, <2>11, <2>12, <2>13, <2>14, <1>2, <1>8 DEF Inv, Working
<1> QED BY <1>1, <1>7, <1>8

\* What holds while the clauses are rewritten.
LEMMA SubstitutingFacts ==
  ASSUME Inv, Doing("substitute")
  PROVE  /\ ~unsat /\ Types /\ Base /\ Meaning /\ Planned /\ Substituting /\ ~Late
         /\ work.repr \in [Lits -> Lits] /\ Symmetric(work.repr)
         /\ Equivalences = DefinedBy(work.repr)
         /\ \A l \in Lits : Replaces(work.repr, l)
         /\ plan # <<>> /\ Head(plan) = "decompose"
         /\ \A c \in irr \cup red : c \subseteq Lits /\ Good(c)
<1>1. ~unsat /\ work.kind = "substitute"
  BY DEF Doing
<1>2. Types /\ Base /\ Meaning /\ Planned /\ Working
  BY <1>1, InvParts
<1>3. Idle.kind # "substitute"
  BY DEF Idle
<1>4. Substituting
  BY <1>1, <1>2, <1>3 DEF Working, Resolving, InBackward, Covering, Conditioning
<1>5. /\ work.repr \in [Lits -> Lits] /\ plan # <<>> /\ Head(plan) = "decompose"
      /\ \A l \in Lits : Replaces(work.repr, l)
  BY <1>4 DEF Substituting
<1>6. Symmetric(work.repr)
  BY <1>5 DEF Symmetric, Replaces
<1>7. Equivalences = DefinedBy(work.repr)
  BY <1>1 DEF Equivalences, DefinedBy
<1>8. ~Late
  BY <1>5 DEF Late
<1>9. \A c \in irr \cup red : c \subseteq Lits /\ Good(c)
  BY <1>2, <1>8 DEF Types, Base, Good
<1> QED BY <1>1, <1>2, <1>4, <1>5, <1>6, <1>7, <1>8, <1>9

\* Clause c has been dealt with: its image new may have taken its place, and the
\* literals in L are assigned.
Rewriting(c, new, L) ==
  /\ c \in irr \cup red
  /\ UNCHANGED <<extension, user, plan>> /\ unsat' = unsat
  /\ work'.repr = work.repr
  /\ work' = [kind |-> "substitute", repr |-> work'.repr, todo |-> work'.todo, late |-> work'.late]
  /\ work'.todo = work.todo \ {c}
  /\ new \subseteq Lits
  /\ \A l \in new : work.repr[l] = l
  /\ irr' \subseteq irr \cup {new} /\ red' \subseteq red \cup {new}
  /\ \A e \in irr : e = c \/ e \in irr'
  /\ \A e \in red : e = c \/ e \in red'
  /\ c \in irr' \cup red' => \/ work'.late = work.late \cup {c}
                             \/ \A l \in c : work.repr[l] = l
  /\ \/ work'.late = work.late
     \/ /\ work'.late = work.late \cup {c}
        /\ \E l \in c : work.repr[l] # l
        /\ \A a \in Mod(Equivalences, units) : c \cap a # {}
  /\ new \in irr' \cup red' => Good(new)
  /\ L \subseteq Lits /\ units' = units \cup L /\ ~Inconsistent(units \cup L)
  /\ status' = status \/ status' = Fixed(units \cup L)
  /\ L = {} \/ status' = Fixed(units \cup L)
  /\ \A l \in L : work.repr[l] = l
  /\ \A a : Total(a) /\ units \subseteq a /\ EquivalentIn(a, work.repr) /\ c \cap a # {} =>
            L \subseteq a /\ (new \in irr' \cup red' => new \cap a # {})
  /\ \A a : Total(a) /\ units \cup L \subseteq a /\ EquivalentIn(a, work.repr) /\ Satisfies(a, irr')
            /\ c \in irr => c \cap a # {}

\* One clause is rewritten: its image follows from it and the equivalences, and it
\* from its image.
LEMMA SubstitutedStep ==
  ASSUME Inv, Doing("substitute"), NEW c, NEW new, NEW L, Rewriting(c, new, L)
  PROVE  Inv'
<1>0. /\ c \in irr \cup red
      /\ UNCHANGED <<extension, user, plan>> /\ unsat' = unsat
      /\ work'.repr = work.repr
      /\ work' = [kind |-> "substitute", repr |-> work'.repr, todo |-> work'.todo, late |-> work'.late]
      /\ work'.todo = work.todo \ {c}
      /\ new \subseteq Lits
      /\ \A l \in new : work.repr[l] = l
      /\ irr' \subseteq irr \cup {new} /\ red' \subseteq red \cup {new}
      /\ \A e \in irr : e = c \/ e \in irr'
      /\ \A e \in red : e = c \/ e \in red'
      /\ c \in irr' \cup red' => \/ work'.late = work.late \cup {c}
                                 \/ \A l \in c : work.repr[l] = l
      /\ \/ work'.late = work.late
         \/ /\ work'.late = work.late \cup {c}
            /\ \E l \in c : work.repr[l] # l
            /\ \A a \in Mod(Equivalences, units) : c \cap a # {}
      /\ new \in irr' \cup red' => Good(new)
      /\ L \subseteq Lits /\ units' = units \cup L /\ ~Inconsistent(units \cup L)
      /\ status' = status \/ status' = Fixed(units \cup L)
      /\ L = {} \/ status' = Fixed(units \cup L)
      /\ \A l \in L : work.repr[l] = l
      /\ \A a : Total(a) /\ units \subseteq a /\ EquivalentIn(a, work.repr) /\ c \cap a # {} =>
                L \subseteq a /\ (new \in irr' \cup red' => new \cap a # {})
      /\ \A a : Total(a) /\ units \cup L \subseteq a /\ EquivalentIn(a, work.repr) /\ Satisfies(a, irr')
                /\ c \in irr => c \cap a # {}
  BY DEF Rewriting
<1> USE <1>0
<1>1. /\ ~unsat /\ Types /\ Base /\ Meaning /\ Planned /\ Substituting /\ ~Late
      /\ work.repr \in [Lits -> Lits] /\ Symmetric(work.repr)
      /\ Equivalences = DefinedBy(work.repr)
      /\ \A l \in Lits : Replaces(work.repr, l)
      /\ plan # <<>> /\ Head(plan) = "decompose"
      /\ \A e \in irr \cup red : e \subseteq Lits /\ Good(e)
  BY SubstitutingFacts
<1>2. extension' = extension /\ observed' = observed /\ given' = given /\ plan' = plan /\ ~unsat'
  BY <1>1 DEF user
<1>3. work'.kind = "substitute"
  OBVIOUS
<1>4. Equivalences' = DefinedBy(work.repr)
  BY <1>3 DEF Equivalences, DefinedBy
<1>5. /\ status' \in [Vars -> {"active", "fixed", "eliminated", "pure", "substituted", "unused", "unmapped"}]
      /\ \A l \in Lits : Active(l)' => l \notin units'
      /\ \A l \in Lits : Present(l) => Present(l)'
      /\ \A e : e \subseteq Lits /\ Good(e) => Good(e)'
  <2>1. \A l \in Lits : Active(l) => l \notin units
    BY <1>1 DEF Base
  <2>2. CASE status' = Fixed(units \cup L)
    <3>1. units \cup L \subseteq Lits
      BY <1>1 DEF Types
    <3>2. PICK T : T = units \cup L
      OBVIOUS
    <3>3. T \subseteq Lits /\ units' = T /\ status' = Fixed(T)
      BY <2>2, <3>1, <3>2
    <3> QED BY <1>1, <2>1, <3>3, FixedFacts
  <2>3. CASE status' = status /\ L = {}
    <3>1. units' = units
      BY <2>3
    <3> QED BY <2>1, <2>3, <3>1, <1>1 DEF Types, Active, Present, Good
  <2> QED BY <2>2, <2>3
<1>6. \A e \in irr' \cup red' : e \in irr \cup red \/ e = new
  OBVIOUS
<1>7. Types'
  <2>1. irr' \subseteq SUBSET Lits /\ red' \subseteq SUBSET Lits /\ units' \subseteq Lits
    BY <1>1, <1>6 DEF Types
  <2> QED BY <2>1, <1>1, <1>2, <1>5 DEF Types
<1>8. \A e \in irr' \cup red' : Good(e)'
  <2>1. ASSUME NEW e \in irr' \cup red'  PROVE e \subseteq Lits /\ Good(e)
    BY <2>1, <1>1, <1>6
  <2> QED BY <2>1, <1>5
<1>9. Base'
  <2>1. ~Inconsistent(units')
    OBVIOUS
  <2> QED BY <2>1, <1>3, <1>5, <1>8 DEF Base, Good
<1>10. ASSUME NEW a, Total(a), Satisfies(a, given)
       PROVE  /\ Satisfies(a, irr' \cup red') /\ units' \subseteq a /\ EquivalentIn(a, work.repr)
              /\ Satisfies(a, DefinedBy(work.repr))
  <2>1. Satisfies(a, irr \cup red) /\ units \subseteq a /\ Satisfies(a, DefinedBy(work.repr))
    BY <1>1, <1>10 DEF Meaning
  <2>2. EquivalentIn(a, work.repr)
    BY <2>1, <1>1, <1>10, EquivalentLits
  <2>3. c \cap a # {}
    BY <2>1 DEF Satisfies
  <2>4. L \subseteq a /\ (new \in irr' \cup red' => new \cap a # {})
    BY <2>1, <2>2, <2>3, <1>10
  <2>5. Satisfies(a, irr' \cup red')
    BY <2>1, <2>4, <1>6 DEF Satisfies
  <2> QED BY <2>1, <2>2, <2>4, <2>5
<1>11. Meaning'
  <2>1. ASSUME NEW a, Total(a), Satisfies(a, given')
        PROVE  /\ Satisfies(a, irr' \cup red') /\ units' \subseteq a /\ Satisfies(a, Equivalences')
               /\ \A j \in 1 .. Len(extension') : extension'[j].clause \cap a # {}
    BY <2>1, <1>1, <1>2, <1>4, <1>10 DEF Meaning
  <2>2. Harmless(extension)'
    BY <1>1, <1>2 DEF Meaning, Harmless, Frozen
  <2> QED BY <2>1, <2>2, <1>3 DEF Meaning
<1>12. Planned'
  BY <1>1, <1>2 DEF Planned, PlanOK
<1>13. Substituting'
  <2>1. \A l \in Lits : Replaces(work.repr, l)'
    <3>1. ASSUME NEW l \in Lits  PROVE Replaces(work.repr, l)'
      <4>1. Replaces(work.repr, l) /\ work.repr[l] \in Lits
        BY <1>1
      <4>2. l \in units' => l \in units \/ l \in L
        OBVIOUS
      <4> QED BY <4>1, <4>2, <1>2, <1>5 DEF Replaces, Frozen
    <3> QED BY <3>1
  <2>2. /\ work.todo \subseteq irr \cup red /\ work.late \subseteq SUBSET Lits
        /\ \A e \in work.late : /\ \E l \in e : work.repr[l] # l
                                /\ \A a \in Mod(Equivalences, units) : e \cap a # {}
        /\ \A e \in irr \cup red : e \in work.todo \/ e \in work.late \/ \A l \in e : work.repr[l] = l
        /\ \E st \in Seq(EntrySet) :
             /\ extension = st \o EquivalenceEntries(work.repr)
             /\ Reconstructs(Mod(irr \cup Equivalences, units), st, given)
    BY <1>1 DEF Substituting
  <2>3. work'.todo \subseteq irr' \cup red'
    BY <2>2
  <2>4. work'.late \subseteq SUBSET Lits
    BY <2>2, <1>1
  <2>5. Mod(Equivalences', units') \subseteq Mod(Equivalences, units)
    <3>1. Equivalences' = Equivalences
      BY <1>1, <1>4
    <3> QED BY <3>1 DEF Mod
  <2>6. \A e \in work'.late : /\ \E l \in e : work'.repr[l] # l
                              /\ \A a \in Mod(Equivalences', units') : e \cap a # {}
    <3>1. ASSUME NEW e \in work'.late
          PROVE  (\E l \in e : work.repr[l] # l) /\ \A a \in Mod(Equivalences, units) : e \cap a # {}
      <4>1. CASE e \in work.late
        BY <4>1, <2>2
      <4>2. CASE e \notin work.late
        <5>1. e = c /\ (\E l \in c : work.repr[l] # l) /\ \A a \in Mod(Equivalences, units) : c \cap a # {}
          BY <4>2, <3>1
        <5> QED BY <5>1
      <4> QED BY <4>1, <4>2
    <3>2. work'.repr = work.repr
      OBVIOUS
    <3> QED BY ONLY <3>1, <3>2, <2>5
  <2>7. \A e \in irr' \cup red' :
          e \in work'.todo \/ e \in work'.late \/ \A l \in e : work'.repr[l] = l
    <3>1. ASSUME NEW e \in irr' \cup red'
          PROVE  e \in work'.todo \/ e \in work'.late \/ \A l \in e : work.repr[l] = l
      <4>1. CASE e = new
        BY <4>1
      <4>2. CASE e = c
        BY <4>2, <3>1
      <4>3. CASE e # new /\ e # c
        <5>1. e \in irr \cup red
          BY <4>3, <1>6
        <5>2. work.late \subseteq work'.late
          OBVIOUS
        <5> QED BY <5>1, <5>2, <4>3, <2>2
      <4> QED BY <4>1, <4>2, <4>3
    <3> QED BY <3>1
  <2>8. Mod(irr' \cup Equivalences', units') \subseteq Mod(irr \cup Equivalences, units)
    <3>1. ASSUME NEW a, Total(a), Satisfies(a, irr' \cup Equivalences'), units' \subseteq a
          PROVE  Satisfies(a, irr \cup Equivalences) /\ units \subseteq a
      <4>1. Satisfies(a, irr') /\ Satisfies(a, DefinedBy(work.repr)) /\ units \cup L \subseteq a
        BY <3>1, <1>4 DEF Satisfies
      <4>2. EquivalentIn(a, work.repr)
        BY <4>1, <3>1, <1>1, EquivalentLits
      <4>3. c \in irr => c \cap a # {}
        BY <4>1, <4>2, <3>1
      <4>4. Satisfies(a, irr)
        BY <4>1, <4>3 DEF Satisfies
      <4> QED BY <4>1, <4>4, <1>1 DEF Satisfies
    <3> QED BY <3>1, ModLess
  <2>9. \E st \in Seq(EntrySet) :
             /\ extension' = st \o EquivalenceEntries(work'.repr)
             /\ Reconstructs(Mod(irr' \cup Equivalences', units'), st, given')
    <3>1. PICK st \in Seq(EntrySet) :
            /\ extension = st \o EquivalenceEntries(work.repr)
            /\ Reconstructs(Mod(irr \cup Equivalences, units), st, given)
      BY <2>2
    <3>2. PICK A, B : A = Mod(irr \cup Equivalences, units) /\ B = Mod(irr' \cup Equivalences', units')
      OBVIOUS
    <3>3. Reconstructs(B, st, given)
      BY <3>1, <3>2, <2>8, ReconstructsLess
    <3> QED BY <3>1, <3>2, <3>3, <1>2
  <2>10. work'.repr \in [Lits -> Lits] /\ plan' # <<>> /\ Head(plan') = "decompose"
    BY <1>1, <1>2
  <2>11. work' = [kind |-> "substitute", repr |-> work'.repr, todo |-> work'.todo, late |-> work'.late]
    OBVIOUS
  <2> QED BY ONLY <1>3, <2>1, <2>3, <2>4, <2>6, <2>7, <2>9, <2>10, <2>11 DEF Substituting
<1> QED BY <1>2, <1>7, <1>9, <1>11, <1>12, <1>13 DEF Inv, Working

Image(F) == {work.repr[l] : l \in F}

\* A clause and its image without false literals are equally true in every model
\* of the equivalences.
LEMMA ImageFacts ==
  ASSUME work.repr \in [Lits -> Lits], Symmetric(work.repr), NEW c, c \subseteq Lits
  PROVE  /\ Image(Residual(c)) \subseteq Lits /\ Residual(Image(Residual(c))) \subseteq Lits
         /\ \A l \in Residual(Image(Residual(c))) : work.repr[l] = l
         /\ \A l \in Residual(Image(Residual(c))) : \E m \in c : l = work.repr[m]
         /\ \A l \in Image(Residual(c)) : \E m \in c : l = work.repr[m]
         /\ c = Image(c) => \A l \in c : work.repr[l] = l
         /\ c # Image(c) => \E l \in c : work.repr[l] # l
         /\ \A a : Total(a) /\ units \subseteq a /\ EquivalentIn(a, work.repr) =>
              (c \cap a # {} <=> Residual(Image(Residual(c))) \cap a # {})
<1>1. Residual(c) \subseteq c /\ Residual(c) \subseteq Lits
  BY DEF Residual
<1>2. Image(Residual(c)) \subseteq Lits
  BY <1>1 DEF Image
<1>3. Residual(Image(Residual(c))) \subseteq Image(Residual(c)) /\ Residual(Image(Residual(c))) \subseteq Lits
  BY <1>2 DEF Residual
<1>4. \A l \in Image(Residual(c)) : work.repr[l] = l /\ \E m \in c : l = work.repr[m]
  BY <1>1 DEF Image, Symmetric
<1>5. ASSUME c = Image(c), NEW l \in c  PROVE work.repr[l] = l
  <2>1. PICK m \in c : l = work.repr[m]
    BY <1>5 DEF Image
  <2> QED BY <2>1 DEF Symmetric
<1>6. ASSUME \A l \in c : work.repr[l] = l  PROVE c = Image(c)
  BY <1>6 DEF Image
<1>7. ASSUME NEW a, Total(a), units \subseteq a, EquivalentIn(a, work.repr)
      PROVE  c \cap a # {} <=> Residual(Image(Residual(c))) \cap a # {}
  <2>1. Residual(c) \cap a = c \cap a
    BY <1>7, ResidualLits
  <2>2. Residual(c) \cap a # {} <=> Image(Residual(c)) \cap a # {}
    BY <1>1, <1>7 DEF Image, EquivalentIn
  <2>3. PICK e : e = Image(Residual(c))
    OBVIOUS
  <2>4. Residual(e) \cap a = e \cap a
    BY <2>3, <1>2, <1>7, ResidualLits
  <2> QED BY <2>1, <2>2, <2>3, <2>4
<1> QED BY <1>2, <1>3, <1>4, <1>5, <1>6, <1>7

\* Changing todo and late leaves a record of the same form.
LEMMA TwoFields ==
  ASSUME NEW r, NEW t, NEW l, NEW t2, NEW l2, NEW v, NEW w, v = [w EXCEPT !.todo = t2, !.late = l2],
         w = [kind |-> "substitute", repr |-> r, todo |-> t, late |-> l]
  PROVE  v = [kind |-> "substitute", repr |-> r, todo |-> t2, late |-> l2]
OBVIOUS

\* Every outcome of rewriting a clause keeps the invariant: dropped, unit, shorter,
\* merged with one that is there, or empty.
LEMMA SubstituteInv ==
  ASSUME Inv, Substitute
  PROVE  Inv'
<1>1. Doing("substitute") /\ work.todo # {} /\ UNCHANGED <<extension, user, plan, calls, learns>>
  BY DEF Substitute
<1>2. PICK c : c = CHOOSE d \in work.todo : TRUE
  OBVIOUS
<1>3. /\ ~unsat /\ Types /\ Base /\ Meaning /\ Planned /\ Substituting /\ ~Late
      /\ work.repr \in [Lits -> Lits] /\ Symmetric(work.repr)
      /\ Equivalences = DefinedBy(work.repr)
      /\ \A l \in Lits : Replaces(work.repr, l)
      /\ plan # <<>> /\ Head(plan) = "decompose"
      /\ \A e \in irr \cup red : e \subseteq Lits /\ Good(e)
  BY <1>1, SubstitutingFacts
<1>4. work = [kind |-> "substitute", repr |-> work.repr, todo |-> work.todo, late |-> work.late]
      /\ work.todo \subseteq irr \cup red
  BY <1>3 DEF Substituting
<1>5. c \in work.todo /\ c \in irr \cup red /\ c \subseteq Lits /\ Good(c)
  BY <1>1, <1>2, <1>3, <1>4
<1>6. PICK im, new : im = Image(Residual(c)) /\ new = Residual(im)
  OBVIOUS
<1>7. /\ im \subseteq Lits /\ new \subseteq Lits
      /\ \A l \in new : work.repr[l] = l
      /\ \A l \in new : \E m \in c : l = work.repr[m]
      /\ \A l \in im : \E m \in c : l = work.repr[m]
      /\ c = Image(c) => \A l \in c : work.repr[l] = l
      /\ c # Image(c) => \E l \in c : work.repr[l] # l
      /\ \A a : Total(a) /\ units \subseteq a /\ EquivalentIn(a, work.repr) =>
           (c \cap a # {} <=> new \cap a # {})
  BY <1>3, <1>5, <1>6, ImageFacts
<1> DEFINE put(F) == IF c \in F THEN (F \ {c}) \cup {new} ELSE F
<1>8. \/ /\ c = Image(c)
         /\ UNCHANGED <<irr, red, units, unsat, status>> /\ work' = [work EXCEPT !.todo = @ \ {c}]
      \/ /\ c # Image(c) /\ (True(c) \/ True(im) \/ Tautology(new))
         /\ work' = [work EXCEPT !.todo = @ \ {c}, !.late = @ \cup {c}]
         /\ UNCHANGED <<irr, red, units, unsat, status>>
      \/ /\ ~Tautology(new)
         /\ work' = [work EXCEPT !.todo = @ \ {c}]
         /\ IF Cardinality(new) <= 1
            THEN irr' = irr \ {c} /\ red' = red \ {c}
            ELSE irr' = put(irr) /\ red' = put(red)
         /\ IF new = {} THEN unsat' = TRUE /\ UNCHANGED <<units, status>>
            ELSE IF Cardinality(new) = 1 THEN Assign(new)
            ELSE UNCHANGED <<units, unsat, status>>
  BY <1>2, <1>6 DEF Substitute, Image
<1>9. given' = given
  BY <1>1 DEF user
<1>10. ASSUME NEW a, Total(a), Satisfies(a, given)
       PROVE  EquivalentIn(a, work.repr) /\ units \subseteq a /\ c \cap a # {} /\ new \cap a # {}
  <2>1. Satisfies(a, irr \cup red) /\ units \subseteq a /\ Satisfies(a, DefinedBy(work.repr))
    BY <1>3, <1>10 DEF Meaning
  <2>2. EquivalentIn(a, work.repr)
    BY <2>1, <1>3, <1>10, EquivalentLits
  <2>3. c \cap a # {}
    BY <2>1, <1>5 DEF Satisfies
  <2> QED BY <2>1, <2>2, <2>3, <1>7, <1>10
<1>11. ~Inconsistent(units) /\ units \subseteq Lits /\ Doing("substitute")
  BY <1>1, <1>3 DEF Base, Types
<1>12. UNCHANGED <<extension, user, plan>>
  BY <1>1
<1>13. ASSUME NEW U, U = {}
       PROVE  U \subseteq Lits /\ units \cup U = units /\ ~Inconsistent(units \cup U)
              /\ (\A l \in U : work.repr[l] = l) /\ \A a : U \subseteq a
  BY <1>11, <1>13
<1>14. CASE /\ c = Image(c)
            /\ UNCHANGED <<irr, red, units, unsat, status>> /\ work' = [work EXCEPT !.todo = @ \ {c}]
  <2>1. PICK L : L = {}
    OBVIOUS
  <2>2. /\ work'.repr = work.repr /\ work'.todo = work.todo \ {c} /\ work'.late = work.late
        /\ work' = [kind |-> "substitute", repr |-> work'.repr, todo |-> work'.todo, late |-> work'.late]
    BY <1>4, <1>14
  <2>3. /\ irr' = irr /\ red' = red /\ units' = units /\ status' = status /\ unsat' = unsat
        /\ \A l \in c : work.repr[l] = l
    BY <1>7, <1>14
  <2>4. /\ irr' \subseteq irr \cup {new} /\ red' \subseteq red \cup {new}
        /\ \A e \in irr : e = c \/ e \in irr'
        /\ \A e \in red : e = c \/ e \in red'
        /\ new \in irr' \cup red' => Good(new)
    BY <2>3, <1>3
  <2>5. /\ L \subseteq Lits /\ units' = units \cup L /\ ~Inconsistent(units \cup L) /\ L = {}
        /\ \A l \in L : work.repr[l] = l
    BY <2>1, <2>3, <1>11, <1>13
  <2>6. \A a : Total(a) /\ units \subseteq a /\ EquivalentIn(a, work.repr) /\ c \cap a # {} =>
                L \subseteq a /\ (new \in irr' \cup red' => new \cap a # {})
    BY <2>1, <1>7
  <2>7. \A a : Total(a) /\ units \cup L \subseteq a /\ EquivalentIn(a, work.repr) /\ Satisfies(a, irr')
                /\ c \in irr => c \cap a # {}
    BY <2>3 DEF Satisfies
  <2>8. c \in irr \cup red /\ new \subseteq Lits /\ \A l \in new : work.repr[l] = l
    BY <1>5, <1>7
  <2>20. Rewriting(c, new, L)
    BY ONLY <1>12, <2>2, <2>3, <2>4, <2>5, <2>6, <2>7, <2>8, <1>11 DEF Rewriting
  <2> QED BY <2>20, <1>11, SubstitutedStep
<1>15. CASE /\ c # Image(c) /\ (True(c) \/ True(im) \/ Tautology(new))
            /\ work' = [work EXCEPT !.todo = @ \ {c}, !.late = @ \cup {c}]
            /\ UNCHANGED <<irr, red, units, unsat, status>>
  <2>1. PICK L : L = {}
    OBVIOUS
  <2>2. /\ work'.repr = work.repr /\ work'.todo = work.todo \ {c} /\ work'.late = work.late \cup {c}
        /\ work' = [kind |-> "substitute", repr |-> work'.repr, todo |-> work'.todo, late |-> work'.late]
    <3>1. PICK w, r, t, l, t2, l2 :
            /\ w = work /\ r = work.repr /\ t = work.todo /\ l = work.late
            /\ t2 = work.todo \ {c} /\ l2 = work.late \cup {c}
      OBVIOUS
    <3>2. work' = [w EXCEPT !.todo = t2, !.late = l2]
      BY <3>1, <1>15
    <3>3. w = [kind |-> "substitute", repr |-> r, todo |-> t, late |-> l]
      BY <3>1, <1>4
    <3>5. PICK v : v = work'
      OBVIOUS
    <3>6. v = [w EXCEPT !.todo = t2, !.late = l2]
      BY ONLY <3>2, <3>5
    <3>4. work' = [kind |-> "substitute", repr |-> r, todo |-> t2, late |-> l2]
      BY ONLY <3>3, <3>5, <3>6, TwoFields
    <3> QED BY <3>1, <3>4
  <2>3. /\ irr' = irr /\ red' = red /\ units' = units /\ status' = status /\ unsat' = unsat
        /\ \E l \in c : work.repr[l] # l
    BY <1>7, <1>15
  <2>4. /\ irr' \subseteq irr \cup {new} /\ red' \subseteq red \cup {new}
        /\ \A e \in irr : e = c \/ e \in irr'
        /\ \A e \in red : e = c \/ e \in red'
        /\ new \in irr' \cup red' => Good(new)
    BY <2>3, <1>3
  <2>5. /\ L \subseteq Lits /\ units' = units \cup L /\ ~Inconsistent(units \cup L) /\ L = {}
        /\ \A l \in L : work.repr[l] = l
    BY <2>1, <2>3, <1>11, <1>13
  <2>6. \A a : Total(a) /\ units \subseteq a /\ EquivalentIn(a, work.repr) /\ c \cap a # {} =>
                L \subseteq a /\ (new \in irr' \cup red' => new \cap a # {})
    BY <2>1, <1>7
  <2>7. \A a : Total(a) /\ units \cup L \subseteq a /\ EquivalentIn(a, work.repr) /\ Satisfies(a, irr')
                /\ c \in irr => c \cap a # {}
    BY <2>3 DEF Satisfies
  <2>8. c \in irr \cup red /\ new \subseteq Lits /\ \A l \in new : work.repr[l] = l
    BY <1>5, <1>7
  <2>9. ASSUME NEW a \in Mod(Equivalences, units)  PROVE c \cap a # {}
    <3>1. Total(a) /\ units \subseteq a /\ Satisfies(a, DefinedBy(work.repr))
      BY <2>9, <1>3 DEF Mod
    <3>2. EquivalentIn(a, work.repr)
      BY <3>1, <1>3, EquivalentLits
    <3>3. CASE True(c)
      BY <3>1, <3>3 DEF True
    <3>4. CASE True(im)
      <4>1. PICK l \in im : l \in a
        BY <3>1, <3>4 DEF True
      <4>2. PICK m \in c : l = work.repr[m]
        BY <1>7
      <4> QED BY <4>1, <4>2, <3>2, <1>5 DEF EquivalentIn
    <3>5. CASE Tautology(new)
      <4>1. new \cap a # {}
        BY <3>1, <3>5, <1>7, TautologyHolds
      <4> QED BY <4>1, <3>1, <3>2, <1>7
    <3> QED BY <3>3, <3>4, <3>5, <1>15
  <2>20. Rewriting(c, new, L)
    BY ONLY <1>12, <2>2, <2>3, <2>4, <2>5, <2>6, <2>7, <2>8, <2>9, <1>11 DEF Rewriting
  <2> QED BY <2>20, <1>11, SubstitutedStep
<1>16. CASE /\ ~Tautology(new)
            /\ work' = [work EXCEPT !.todo = @ \ {c}]
            /\ IF Cardinality(new) <= 1
               THEN irr' = irr \ {c} /\ red' = red \ {c}
               ELSE irr' = put(irr) /\ red' = put(red)
            /\ IF new = {} THEN unsat' = TRUE /\ UNCHANGED <<units, status>>
               ELSE IF Cardinality(new) = 1 THEN Assign(new)
               ELSE UNCHANGED <<units, unsat, status>>
  <2>1. Cardinality(new) \in Nat /\ (Cardinality(new) = 0 <=> new = {}) /\ (Cardinality(new) = 1 <=> \E x \in new : new = {x})
    BY <1>7, Singletons
  <2>2. /\ work'.repr = work.repr /\ work'.todo = work.todo \ {c} /\ work'.late = work.late
        /\ work' = [kind |-> "substitute", repr |-> work'.repr, todo |-> work'.todo, late |-> work'.late]
    BY <1>4, <1>16
  <2>3. c \in irr \cup red /\ new \subseteq Lits /\ \A l \in new : work.repr[l] = l
    BY <1>5, <1>7
  <2>4. CASE new = {}
    BY <2>4, <1>9, <1>10, <1>16 DEF Inv, NoModel
  <2>5. CASE Cardinality(new) = 1 /\ Inconsistent(units \cup new)
    <3>1. unsat' = TRUE
      BY <2>1, <2>5, <1>16 DEF Assign
    <3>2. ASSUME NEW a, Total(a), Satisfies(a, given)  PROVE FALSE
      <4>1. units \cup new \subseteq a
        BY <2>1, <2>5, <3>2, <1>10
      <4> QED BY <4>1, <2>5, <3>2, TotalConsistent
    <3> QED BY <3>1, <3>2, <1>9 DEF Inv, NoModel
  <2>6. CASE Cardinality(new) = 1 /\ ~Inconsistent(units \cup new)
    <3>1. PICK L : L = new
      OBVIOUS
    <3>2. /\ irr' = irr \ {c} /\ red' = red \ {c} /\ units' = units \cup L /\ unsat' = unsat
          /\ status' = Fixed(units \cup L) /\ ~Inconsistent(units \cup L)
          /\ \A l \in L : work.repr[l] = l
          /\ L \subseteq Lits
      BY <2>1, <2>3, <2>6, <3>1, <1>16 DEF Assign
    <3>3. /\ irr' \subseteq irr \cup {new} /\ red' \subseteq red \cup {new}
          /\ \A e \in irr : e = c \/ e \in irr'
          /\ \A e \in red : e = c \/ e \in red'
          /\ new \in irr' \cup red' => Good(new)
          /\ c \notin irr' \cup red'
      BY <3>2, <1>3
    <3>4. \A a : Total(a) /\ units \subseteq a /\ EquivalentIn(a, work.repr) /\ c \cap a # {} =>
                  L \subseteq a /\ (new \in irr' \cup red' => new \cap a # {})
      BY <2>1, <2>6, <3>1, <1>7
    <3>5. \A a : Total(a) /\ units \cup L \subseteq a /\ EquivalentIn(a, work.repr) /\ Satisfies(a, irr')
                  /\ c \in irr => c \cap a # {}
      BY <2>1, <2>6, <3>1, <1>7
    <3>20. Rewriting(c, new, L)
      BY ONLY <1>12, <2>2, <2>3, <3>2, <3>3, <3>4, <3>5, <1>11 DEF Rewriting
    <3> QED BY <3>20, <1>11, SubstitutedStep
  <2>7. CASE Cardinality(new) >= 2
    <3>1. PICK L : L = {}
      OBVIOUS
    <3>2. /\ irr' = put(irr) /\ red' = put(red) /\ units' = units /\ status' = status /\ unsat' = unsat
      BY <2>1, <2>7, <1>16
    <3>3. Good(new)
      <4>1. ASSUME NEW l \in new  PROVE Present(l)
        <5>1. PICK m \in c : l = work.repr[m]
          BY <1>7
        <5>2. Present(m) /\ m \in Lits /\ Replaces(work.repr, m)
          BY <1>3, <1>5 DEF Good
        <5> QED BY <5>1, <5>2 DEF Replaces
      <4> QED BY <4>1, <2>7, <1>16 DEF Good
    <3>4. /\ irr' \subseteq irr \cup {new} /\ red' \subseteq red \cup {new}
          /\ \A e \in irr : e = c \/ e \in irr'
          /\ \A e \in red : e = c \/ e \in red'
          /\ new \in irr' \cup red' => Good(new)
          /\ c \in irr' \cup red' => c = new
          /\ c \in irr => new \in irr'
      BY <3>2, <3>3
    <3>5. /\ L \subseteq Lits /\ units' = units \cup L /\ ~Inconsistent(units \cup L) /\ L = {}
          /\ \A l \in L : work.repr[l] = l
      BY <3>1, <3>2, <1>11, <1>13
    <3>6. \A a : Total(a) /\ units \subseteq a /\ EquivalentIn(a, work.repr) /\ c \cap a # {} =>
                  L \subseteq a /\ (new \in irr' \cup red' => new \cap a # {})
      BY <3>1, <1>7
    <3>7. \A a : Total(a) /\ units \cup L \subseteq a /\ EquivalentIn(a, work.repr) /\ Satisfies(a, irr')
                  /\ c \in irr => c \cap a # {}
      BY <3>4, <1>7 DEF Satisfies
    <3>8. c \in irr' \cup red' => \A l \in c : work.repr[l] = l
      BY <3>4, <2>3
    <3>9. status' = status /\ unsat' = unsat
      BY <3>2
    <3>20. Rewriting(c, new, L)
      BY ONLY <1>12, <2>2, <2>3, <3>4, <3>5, <3>6, <3>7, <3>8, <3>9, <1>11 DEF Rewriting
    <3> QED BY <3>20, <1>11, SubstitutedStep
  <2>8. new = {} \/ Cardinality(new) = 1 \/ Cardinality(new) >= 2
    BY <2>1
  <2> QED BY <2>4, <2>5, <2>6, <2>7, <2>8
<1> QED BY <1>8, <1>14, <1>15, <1>16

\* What the rewritten clauses propagate is over literals that stay.
LEMMA StayingLits ==
  ASSUME NEW repr, NEW F, F \subseteq SUBSET Lits, \A c \in F : \A l \in c : repr[l] = l,
         NEW U, U \subseteq Lits, \A l \in U : repr[l] = l
  PROVE  \A l \in Propagation(F, U) : repr[l] = l
<1> DEFINE S == {l \in Lits : repr[l] = l}
<1>1. S \in SUBSET Lits /\ U \subseteq S
  OBVIOUS
<1>2. Closed(F, S)
  <2>1. ASSUME NEW l \in Forced(F, S)  PROVE l \in S
    <3>1. PICK c \in F : l \in ForcedBy(c, S)
      BY <2>1 DEF Forced
    <3>2. l \in c
      BY <3>1 DEF ForcedBy
    <3> QED BY <3>1, <3>2
  <2> QED BY <2>1 DEF Closed
<1> HIDE DEF S
<1>3. Propagation(F, U) \subseteq S
  BY <1>1, <1>2, PropagationFacts
<1> QED BY <1>3 DEF S

\* With all clauses rewritten the equivalences need not be held any longer: their
\* entries are on the stack.
LEMMA SubstituteEndInv ==
  ASSUME Inv, SubstituteEnd
  PROVE  Inv'
<1>1. /\ Doing("substitute") /\ work.todo = {} /\ work' = Idle /\ plan' = Tail(plan)
      /\ UNCHANGED <<extension, user, calls, learns>>
  BY DEF SubstituteEnd
<1>2. PICK i, r, F, T : i = irr \ work.late /\ r = red \ work.late /\ F = i \cup r /\ T = Propagation(F, units)
  OBVIOUS
<1>3. /\ irr' = i /\ red' = r
      /\ IF Inconsistent(T) THEN unsat' = TRUE /\ UNCHANGED <<units, status>>
         ELSE /\ units' = T
              /\ status' = [v \in Vars |->
                   IF v \in VarsOf(T) THEN "fixed"
                   ELSE IF v \in SubstitutedBy(work.repr) /\ VarOf(work.repr[v]) \notin VarsOf(T)
                   THEN "substituted" ELSE status[v]]
              /\ UNCHANGED unsat
  BY <1>2 DEF SubstituteEnd
<1>4. /\ ~unsat /\ Types /\ Base /\ Meaning /\ Planned /\ Substituting /\ ~Late
      /\ work.repr \in [Lits -> Lits] /\ Symmetric(work.repr)
      /\ Equivalences = DefinedBy(work.repr)
      /\ \A l \in Lits : Replaces(work.repr, l)
      /\ plan # <<>> /\ Head(plan) = "decompose"
      /\ \A c \in irr \cup red : c \subseteq Lits /\ Good(c)
  BY <1>1, SubstitutingFacts
<1>5. PICK repr : repr = work.repr
  OBVIOUS
<1>6. /\ \A c \in F : c \in irr \cup red /\ c \subseteq Lits /\ Good(c) /\ \A l \in c : repr[l] = l
      /\ F \subseteq SUBSET Lits /\ units \subseteq Lits /\ \A l \in units : repr[l] = l
  BY <1>1, <1>2, <1>4, <1>5 DEF Substituting, Replaces, Types
<1>7. /\ T \subseteq Lits /\ units \subseteq T
      /\ \A a : Total(a) /\ Satisfies(a, F) /\ units \subseteq a => T \subseteq a
      /\ Inconsistent(T) => \A a : Total(a) /\ units \subseteq a => ~Satisfies(a, F)
      /\ ~Inconsistent(T) => \A c \in F : c # {} => OpenIn(c, T)
  <2>1. F \subseteq SUBSET Lits /\ units \subseteq Lits
    BY <1>6
  <2>2. LET Q == Propagation(F, units) IN
        /\ Q \subseteq Lits /\ units \subseteq Q
        /\ \A a : Total(a) /\ Satisfies(a, F) /\ units \subseteq a => Q \subseteq a
        /\ Inconsistent(Q) => \A a : Total(a) /\ units \subseteq a => ~Satisfies(a, F)
        /\ ~Inconsistent(Q) => \A c \in F : c # {} => OpenIn(c, Q)
    BY ONLY <2>1, PropagatedFacts
  <2>3. T = Propagation(F, units)
    BY <1>2
  <2> QED BY ONLY <2>2, <2>3
<1>8. \A l \in T : repr[l] = l
  <2>1. \A c \in F : \A l \in c : repr[l] = l
    BY <1>6
  <2> QED BY <1>2, <1>6, <2>1, StayingLits
<1>9. extension' = extension /\ observed' = observed /\ given' = given
  BY <1>1 DEF user
<1>10. ASSUME NEW a, Total(a), Satisfies(a, given)
       PROVE  /\ Satisfies(a, F) /\ units \subseteq a /\ T \subseteq a
              /\ \A j \in 1 .. Len(extension) : extension[j].clause \cap a # {}
  <2>1. /\ Satisfies(a, irr \cup red) /\ units \subseteq a
        /\ \A j \in 1 .. Len(extension) : extension[j].clause \cap a # {}
    BY <1>4, <1>10 DEF Meaning
  <2>2. Satisfies(a, F)
    BY <2>1, <1>6 DEF Satisfies
  <2> QED BY <2>1, <2>2, <1>7, <1>10
<1>11. CASE Inconsistent(T)
  BY <1>3, <1>7, <1>9, <1>10, <1>11 DEF Inv, NoModel
<1>12. CASE ~Inconsistent(T)
  <2>1. /\ units' = T /\ ~unsat'
        /\ status' = [v \in Vars |->
             IF v \in VarsOf(T) THEN "fixed"
             ELSE IF v \in SubstitutedBy(repr) /\ VarOf(repr[v]) \notin VarsOf(T)
             THEN "substituted" ELSE status[v]]
    BY <1>3, <1>4, <1>5, <1>12
  <2>2. status \in [Vars -> {"active", "fixed", "eliminated", "pure", "substituted", "unused", "unmapped"}]
    BY <1>4 DEF Types
  <2>3. status' \in [Vars -> {"active", "fixed", "eliminated", "pure", "substituted", "unused", "unmapped"}]
    BY <2>1, <2>2
  <2>4. Types'
    BY <1>2, <1>3, <1>4, <1>7, <1>9, <2>1, <2>3 DEF Types
  <2>5. ASSUME NEW l \in Lits, Active(l)'  PROVE l \notin units'
    <3>1. VarOf(l) \in Vars
      BY LitFacts
    <3>2. VarOf(l) \notin VarsOf(T)
      BY <2>1, <2>5, <3>1 DEF Active
    <3> QED BY <1>7, <2>1, <3>2, VarsOfFacts
  <2>6. ASSUME NEW c \in F  PROVE Good(c)' /\ OpenIn(c, T)
    <3>1. c # {}
      <4>1. c \subseteq Lits /\ Cardinality(c) >= 2
        BY <1>6 DEF Good
      <4> QED BY <4>1, NotEmpty
    <3>2. ASSUME NEW l \in c  PROVE Present(l)'
      <4>1. l \in Lits /\ Present(l) /\ repr[l] = l
        BY <1>6 DEF Good
      <4>2. VarOf(l) \in Vars /\ (l = VarOf(l) \/ l = -VarOf(l)) /\ VarOf(l) \in Lits /\ -VarOf(l) \in Lits
        BY <4>1, LitFacts, VarsAreLits
      <4>3. repr[VarOf(l)] = VarOf(l)
        <5>1. PICK v \in Vars : v = VarOf(l) /\ v \in Lits
          BY <4>2
        <5>2. l = v \/ l = -v
          BY <4>2, <5>1
        <5>3. repr[-v] = -repr[v] /\ repr[v] \in Lits
          BY <1>4, <1>5, <5>1 DEF Symmetric
        <5>4. -(-v) = v /\ -(-repr[v]) = repr[v]
          BY <5>1, <5>3, LitFacts
        <5> QED BY <4>1, <5>1, <5>2, <5>3, <5>4
      <4>4. VarOf(l) \notin SubstitutedBy(repr)
        BY <4>3 DEF SubstitutedBy
      <4>5. status'[VarOf(l)] = "fixed" \/ status'[VarOf(l)] = status[VarOf(l)]
        BY <2>1, <4>2, <4>4
      <4> QED BY <4>1, <4>5 DEF Present
    <3>3. ~Tautology(c) /\ Cardinality(c) >= 2
      BY <1>6 DEF Good
    <3> QED BY <3>1, <3>2, <3>3, <1>7, <1>12 DEF Good
  <2>7. work'.kind # "substitute"
    BY <1>1 DEF Idle
  <2>8. Base'
    <3>1. \A c \in irr' : Good(c)' /\ OpenIn(c, units')
      BY <1>2, <1>3, <2>1, <2>6
    <3>2. \A c \in red' : ~Tautology(c) /\ Cardinality(c) >= 2 /\ \A l \in c : Present(l)'
      BY <1>2, <1>3, <2>6 DEF Good
    <3>3. ~Inconsistent(units')
      BY <1>12, <2>1
    <3> QED BY <2>5, <3>1, <3>2, <3>3 DEF Base
  <2>9. Equivalences' = {}
    BY <2>7 DEF Equivalences
  <2>10. PICK st \in Seq(EntrySet) : /\ extension = st \o EquivalenceEntries(repr)
                                     /\ Reconstructs(Mod(irr \cup Equivalences, units), st, given)
    BY <1>4, <1>5 DEF Substituting
  <2> DEFINE D == Mod(i, T)
             B == Mod(irr \cup Equivalences, units)
  <2>11. ASSUME NEW a \in D, NEW l \in Lits, repr[l] # l
         PROVE  Flip(a, {l}) \in D
    <3>1. Total(a) /\ Satisfies(a, i) /\ T \subseteq a
      BY DEF Mod
    <3>2. {l} \subseteq Lits /\ ~Inconsistent({l})
      BY LitFacts DEF Inconsistent
    <3>3. Total(Flip(a, {l}))
      BY <3>1, <3>2, FlipTotal
    <3>4. repr[-l] # -l /\ -(-l) = l
      <4>1. repr[-l] = -repr[l] /\ repr[l] \in Lits
        BY <1>4, <1>5 DEF Symmetric
      <4>2. -(-l) = l /\ -(-repr[l]) = repr[l]
        BY <4>1, LitFacts
      <4> QED BY <4>1, <4>2, <2>11
    <3>5. \A x \in a : x = -l \/ x \in Flip(a, {l})
      BY DEF Flip, Negated
    <3>6. Satisfies(Flip(a, {l}), i)
      <4>1. ASSUME NEW c \in i  PROVE c \cap Flip(a, {l}) # {}
        <5>1. PICK x \in c : x \in a
          BY <3>1, <4>1 DEF Satisfies
        <5>2. repr[x] = x
          BY <1>2, <1>6
        <5> QED BY <5>1, <5>2, <3>4, <3>5
      <4> QED BY <4>1 DEF Satisfies
    <3>7. T \subseteq Flip(a, {l})
      BY <3>1, <3>4, <3>5, <1>8
    <3> QED BY <3>3, <3>6, <3>7, <3>3 DEF Mod, Total
  <2>12. ASSUME NEW a \in D, \A v \in Vars : v \in a <=> repr[v] \in a
         PROVE  a \in B
    <3>1. Total(a) /\ a \in SUBSET Lits /\ Satisfies(a, i) /\ T \subseteq a
      BY DEF Mod
    <3>2. units \subseteq a
      BY <3>1, <1>7
    <3>3. Satisfies(a, Equivalences)
      <4>1. ASSUME NEW c \in DefinedBy(repr)  PROVE c \cap a # {}
        <5>1. PICK v \in Vars : c = {-v, repr[v]} \/ c = {v, -repr[v]}
          BY DEF DefinedBy, SubstitutedBy
        <5>2. v \in Lits /\ repr[v] \in Lits
          BY <1>4, <1>5, VarsAreLits
        <5>3. (-v \in a <=> v \notin a) /\ (-repr[v] \in a <=> repr[v] \notin a)
          BY <5>2, <3>1 DEF Total
        <5> QED BY <5>1, <5>3, <2>12
      <4> QED BY <4>1, <1>4, <1>5 DEF Satisfies
    <3>4. a \in Mod(Equivalences, units)
      BY <3>1, <3>2, <3>3 DEF Mod
    <3>5. \A c \in work.late : c \cap a # {}
      BY <3>4, <1>4 DEF Substituting
    <3>6. Satisfies(a, irr \cup Equivalences)
      BY <3>1, <3>3, <3>5, <1>2 DEF Satisfies
    <3> QED BY <3>1, <3>2, <3>6 DEF Mod
  <2>13. \A a \in D : Total(a)
    BY DEF Mod
  <2>14. \A l \in Lits : repr[-l] = -repr[l] /\ repr[repr[l]] = repr[l]
    BY <1>4, <1>5 DEF Symmetric
  <2>15. repr \in [Lits -> Lits]
    BY <1>4, <1>5
  <2> HIDE DEF D, B
  <2>16. Reconstructs(D, st \o EquivalenceEntries(repr), given)
    <3>1. Reconstructs(B, st, given)
      BY <2>10 DEF B
    <3> QED BY ONLY <2>11, <2>12, <2>13, <2>14, <2>15, <3>1, EquivalencesReconstruct
  <2>17. Reconstructs(Mod(irr', units'), extension', given')
    BY <2>16, <2>10, <1>3, <1>9, <2>1 DEF D
  <2>18. Meaning'
    <3>1. ASSUME NEW a, Total(a), Satisfies(a, given')
          PROVE  /\ Satisfies(a, irr' \cup red') /\ units' \subseteq a /\ Satisfies(a, Equivalences')
                 /\ \A j \in 1 .. Len(extension') : extension'[j].clause \cap a # {}
      BY <3>1, <1>2, <1>3, <1>9, <1>10, <2>1, <2>9 DEF Satisfies
    <3>2. Harmless(extension)'
      BY <1>4, <1>9 DEF Meaning, Harmless, Frozen
    <3> QED BY <3>1, <3>2, <2>17 DEF Meaning
  <2>19. Planned'
    <3>1. PlanOK(Tail(plan)) /\ (Tail(plan) # <<>> /\ Head(Tail(plan)) = "elim" => Head(plan) = "connect")
      BY <1>4, PlanOkTail DEF Planned
    <3>2. ~(Tail(plan) # <<>> /\ Head(Tail(plan)) = "elim")
      BY <3>1, <1>4
    <3> QED BY <1>1, <3>1, <3>2 DEF Planned, PlanOK
  <2> QED BY <2>1, <2>4, <2>8, <2>18, <2>19, <1>1 DEF Inv, Working, Idle
<1> QED BY <1>11, <1>12

\* Every technique of Probing keeps the invariant.
LEMMA ProbingInv ==
  ASSUME Inv, ProbingNext
  PROVE  Inv'
BY FailedLiteralInv, HyperBinaryInv, HyperTernaryInv, DecomposeInv, SubstituteInv, SubstituteEndInv
   DEF ProbingNext

\* A step that changes nothing the invariant reads keeps it.
LEMMA StutterInv ==
  ASSUME Inv, UNCHANGED vars
  PROVE  Inv'
<1>1. UNCHANGED <<irr, red, units, unsat, status, extension, observed, given, plan, work>>
  BY DEF vars, database, user, control
<1>2. CASE unsat
  BY <1>1, <1>2 DEF Inv, NoModel
<1>3. CASE ~unsat
  <2>1. Types'
    BY <1>1, <1>3 DEF Inv, Types
  <2>2. Base'
    BY <1>1, <1>3 DEF Inv, Base, Active, Good, Present, Late
  <2>3. Meaning'
    BY <1>1, <1>3 DEF Inv, Meaning, Harmless, Frozen, Equivalences
  <2>4. Planned'
    BY <1>1, <1>3 DEF Inv, Planned, PlanOK, True
  <2>5. Working'
    <3>1. CASE work = Idle
      BY <1>1, <3>1 DEF Working, Idle
    <3>2. CASE Resolving
      <4>1. Others(work.pivot)' = Others(work.pivot)
        BY <1>1 DEF Others
      <4>2. GateKept(work.pivot, work.gate) => GateKept(work.pivot, work.gate)'
        BY <1>1, <4>1 DEF GateKept
      <4>3. Resolved(work.pivot, work.gate, work.todo) => Resolved(work.pivot, work.gate, work.todo)'
        BY <1>1, <4>1 DEF Resolved, May
      <4>4. \A c : Residual(c)' = Residual(c)
        BY <1>1 DEF Residual
      <4>5. ASSUME NEW todo, NoUnits(work.pivot, work.gate, todo)
            PROVE  NoUnits(work.pivot, work.gate, todo)'
        BY <1>1, <4>4, <4>5 DEF NoUnits, May
      <4>6. Defines(work.pivot, work.gate) => Defines(work.pivot, work.gate)'
        BY <1>1 DEF Defines
      <4>7. Resolving'
        BY <1>1, <3>2, <4>2, <4>3, <4>5, <4>6 DEF Resolving, Open, Frozen, May
      <4> QED BY <4>7 DEF Working
    <3>3. CASE InBackward
      BY <1>1, <3>3 DEF Working, InBackward
    <3>4. CASE Covering
      BY <1>1, <3>4 DEF Working, Covering, Harmless, Frozen
    <3>5. CASE Conditioning
      BY <1>1, <3>5 DEF Working, Conditioning, Frozen
    <3>6. CASE Substituting
      <4>1. Equivalences' = Equivalences
        BY <1>1 DEF Equivalences
      <4>2. (\A l \in Lits : Replaces(work.repr, l)) => \A l \in Lits : Replaces(work.repr, l)'
        BY <1>1 DEF Replaces, Present, Frozen
      <4> QED BY <1>1, <3>6, <4>1, <4>2 DEF Working, Substituting
    <3> QED BY <1>3, <3>1, <3>2, <3>3, <3>4, <3>5, <3>6 DEF Inv, Working
  <2> QED BY <1>1, <1>3, <2>1, <2>2, <2>3, <2>4, <2>5 DEF Inv
<1> QED BY <1>2, <1>3
=============================================================================
