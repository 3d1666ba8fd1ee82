-------------------------- MODULE ProofModuleProofs --------------------------
(***************************************************************************)
(* A proof that drat-trim accepts certifies what it is taken to certify,   *)
(* and so a proof module that ends without an error message lists every    *)
(* canonical solution.                                                     *)
(*                                                                         *)
(* The certificate.  Going forward, some model of what has been added so   *)
(* far is kept as long as there is a model of the formula and the trusted  *)
(* clauses.  Going back, the clauses marked among those still available,   *)
(* with the trusted ones, have no model.  For that every literal on the    *)
(* trail is given the clause it follows from: the code forgets it when a   *)
(* RAT check takes the reason away, or when the deletion of a clause is    *)
(* not carried out.                                                        *)
(*                                                                         *)
(* The module.  drat-trim's answer says that every solution falsifies a    *)
(* trusted clause, check-perm.py that such a clause holds in every         *)
(* canonical graph or excludes one graph, and so the permutation file      *)
(* lists all canonical solutions.                                          *)
(***************************************************************************)
EXTENDS ProofModule, DratTrimProofs

-----------------------------------------------------------------------------
(* The invariant.                                                          *)

Holds(d, a, c) == d[c].lits \cap a # {}
Lone(d, c) == Cardinality(d[c].lits) = 1

\* The literals that made the entry's clause g propagate it.
Others(d, t, g, q) == d[g[q]].lits \ {t[q].lit}

\* g names a clause of A for every entry that was not assumed: its reason, or what
\* was its reason until a RAT check took it away.
Supported(d, t, g, A) ==
  /\ g \in [DOMAIN t -> Nat]
  /\ \A q \in DOMAIN t : t[q].reason \in {0, g[q]}
  /\ \A q \in DOMAIN t : g[q] # 0 =>
       /\ g[q] \in A /\ t[q].lit \in d[g[q]].lits
       /\ \A l \in Others(d, t, g, q) : \E j \in 1 .. (q - 1) : t[j].lit = -l

\* K are entries that are not followed any more, since what they follow from is
\* marked.
Closed(d, t, g, K, mk) ==
  /\ K \subseteq DOMAIN t
  /\ \A q \in DOMAIN t : t[q].reason = 0 => q \in K
  /\ \A q \in K : g[q] # 0 =>
       /\ g[q] \in mk
       /\ \A l \in Others(d, t, g, q) : \E j \in K : j < q /\ t[j].lit = -l

\* What was assumed is true in a, and the clauses S hold.
Assumed(t, g, a) == \A q \in DOMAIN t : g[q] = 0 => t[q].lit \in a

AllHold(d, a, S) == \A c \in S : Holds(d, a, c)
InLits(d, A) == \A c \in A : d[c].lits \subseteq Lits
AllTrue(t, K, a) == \A q \in K : t[q].lit \in a

\* The entries up to here follow from clauses and were not assumed.
Base == IF Starting THEN Len(trail) ELSE IF InRat THEN rat.base ELSE forced

Available == live \cup {u \in Pending(Reach) : Lone(db, u)}
Gate == /\ \A c \in Trusted : Cardinality(c) > 1
        /\ Trusted # {} => ~(usedRat \/ InRat)

AllIn(t, a, n) == \A k \in DOMAIN t : k <= n => t[k].lit \in a
OnTrail(a, n) == AllIn(trail, a, n)
Elsewhere(a, c) == (db[c].lits \ {-rat.pivot}) \cap a # {}

\* Going forward: there is still a model of what has been added.
ModelOf(a) ==
  /\ Satisfies(a, Trusted) /\ \A c \in live : Holds(db, a, c)
  /\ OnTrail(a, IF Joining THEN Len(trail) ELSE Base)
  /\ pc = "insert" => Holds(db, a, Id)
  /\ Checking => Holds(db, a, Id) \/ OnTrail(a, Len(trail))
  /\ InRat =>
       \/ Holds(db, a, Id)
       \/ /\ OnTrail(a, forced)
          /\ \A c \in live : -rat.pivot \in db[c].lits =>
               \/ c \in rat.todo
               \/ Elsewhere(a, c)
               \/ Trying /\ OnTrail(a, Len(trail))

ForwardBody ==
  Models(Formula \cup Trusted) = {} \/ \E a \in Assignments(Vars) : ModelOf(a)

\* Going back.  What has no clause behind it was assumed.
Grounded(g) ==
  \A q \in DOMAIN trail : g[q] = 0 =>
    /\ q > Base /\ (Checking \/ InRat)
    /\ InRat /\ q <= forced => -trail[q].lit \in db[Id].lits

\* Only a RAT check takes reasons away.
Resets(g) == \A q \in DOMAIN trail : trail[q].reason = 0 /\ g[q] # 0 => usedRat \/ InRat

\* A literal of u is among the first b, before anything that follows from a later lemma.
Early(t, g, b, u) ==
  \E q \in DOMAIN t : q <= b /\ t[q].lit \in db[u].lits
                     /\ \A j \in 1 .. q : g[j] \in FormulaIds \/ g[j] <= u

UnitsOn(g) == \A u \in Pending(at - 1) : Lone(db, u) => Early(trail, g, Base, u)
UnitJoins(g) == Joining /\ Lone(db, Id) => Early(trail, g, Len(trail), Id)

\* The literal of a unit lemma comes from nothing else.
UnitsOwn(g) ==
  \A u \in Pending(Reach) \ FormulaIds : Lone(db, u) =>
    \A q \in DOMAIN trail : trail[q].lit \in db[u].lits => g[q] = u

Linked(g, K) ==
  /\ Supported(db, trail, g, Available) /\ Closed(db, trail, g, K, marked)
  /\ Grounded(g) /\ Resets(g) /\ UnitsOn(g) /\ UnitJoins(g) /\ UnitsOwn(g)

Links == \E g \in [DOMAIN trail -> Nat], K \in SUBSET DOMAIN trail : Linked(g, K)

\* Whoever satisfies the trusted clauses and S falsifies the lemma.
Needs(a, S) == Satisfies(a, Trusted) /\ \A e \in Available \cap S : Holds(db, a, e)

Refutes(S) == \A a \in Assignments(Vars) : ~Needs(a, S)
RefutesLemma(S) == \A a \in Assignments(Vars) : Needs(a, S) => ~Holds(db, a, Id)
Settled(c) == \A a \in Assignments(Vars) : Needs(a, marked) /\ ~Holds(db, a, Id) => Elsewhere(a, c)
Current(c) == \A q \in DOMAIN trail : q > forced /\ trail[q].reason = 0 =>
                -trail[q].lit \in db[c].lits \ {-rat.pivot}

\* What the RAT check has done or will do with each clause that it must look at.
Pursued(M) == \A c \in live \cap M : -rat.pivot \in db[c].lits =>
                c \in rat.todo \/ Settled(c) \/ (Trying /\ Current(c))

Refutation ==
  /\ pc = "backward" => Refutes(marked)
  /\ Checking => RefutesLemma(marked)
  /\ InRat => \E M \in SUBSET marked : RefutesLemma(M) /\ Pursued(M)

BackwardBody ==
  Links /\ Refutation

Body ==
  Running /\ Gate => IF input.forward THEN ForwardBody ELSE BackwardBody

-----------------------------------------------------------------------------
(* Assignments.                                                            *)

\* An assignment makes one of a literal and its negation true.
LEMMA AssignmentIs ==
  ASSUME NEW a \in Assignments(Vars)
  PROVE  a \subseteq Lits /\ \A l \in Lits : l \in a <=> -l \notin a
<1>1. PICK S \in SUBSET Vars : a = S \cup Negated(Vars \ S)
  BY DEF Assignments
<1>2. a \subseteq Lits
  BY <1>1 DEF Lits, Negated
<1>3. \A v \in Vars : v \in Int /\ v > 0
  BY MaxVarAssumption DEF Vars
<1>4. \A v \in Vars : v \in a <=> v \in S
  BY <1>1, <1>3 DEF Negated
<1>5. ASSUME NEW v \in Vars  PROVE -v \in a <=> v \notin S
  BY <1>1, <1>3 DEF Negated
<1>6. ASSUME NEW l \in Lits  PROVE l \in a <=> -l \notin a
  <2>1. CASE l \in Vars
    BY <2>1, <1>4, <1>5
  <2>2. CASE l \notin Vars
    <3>1. PICK v \in Vars : l = -v
      BY <2>2 DEF Lits
    <3>2. -l = v
      BY <3>1, <1>3
    <3> QED BY <3>1, <3>2, <1>4, <1>5
  <2> QED BY <2>1, <2>2
<1> QED BY <1>2, <1>6

\* A set of literals with one of each pair is an assignment.
LEMMA IsAssignment ==
  ASSUME NEW a \in SUBSET Lits, \A l \in Lits : l \in a <=> -l \notin a
  PROVE  a \in Assignments(Vars)
<1> DEFINE S == Vars \cap a
<1>1. \A v \in Vars : v \in Int /\ v > 0 /\ v \in Lits
  BY MaxVarAssumption DEF Vars, Lits
<1>2. a = S \cup Negated(Vars \ S)
  <2>1. ASSUME NEW l \in a  PROVE l \in S \cup Negated(Vars \ S)
    <3>1. CASE l \in Vars
      BY <3>1
    <3>2. CASE l \notin Vars
      <4>1. PICK v \in Vars : l = -v
        BY <3>2 DEF Lits
      <4>2. -l = v /\ l \in Lits
        BY <4>1, <1>1
      <4>3. v \notin a
        BY <4>2
      <4> QED BY <4>1, <4>3 DEF Negated
    <3> QED BY <3>1, <3>2
  <2>2. ASSUME NEW l \in S \cup Negated(Vars \ S)  PROVE l \in a
    <3>1. CASE l \in Negated(Vars \ S)
      <4>1. PICK v \in Vars \ S : l = -v
        BY <3>1 DEF Negated
      <4>2. v \in Lits /\ v \notin a
        BY <4>1, <1>1
      <4> QED BY <4>1, <4>2
    <3> QED BY <3>1, <2>2
  <2> QED BY <2>1, <2>2
<1> QED BY <1>2 DEF Assignments

Flip(a, p) == (a \ {-p}) \cup {p}

LEMMA FlipIs ==
  ASSUME NEW a \in Assignments(Vars), NEW p \in Lits
  PROVE  Flip(a, p) \in Assignments(Vars)
<1>1. a \subseteq Lits /\ \A l \in Lits : l \in a <=> -l \notin a
  BY AssignmentIs
<1>2. \A l \in Lits : l \in Flip(a, p) <=> -l \notin Flip(a, p)
  BY <1>1, LitsAre DEF Flip
<1>3. Flip(a, p) \subseteq Lits
  BY <1>1 DEF Flip
<1> QED BY <1>2, <1>3, IsAssignment

-----------------------------------------------------------------------------
(* What an analysis marks.                                                 *)

\* The literals met at first.
First(c) == IF Unit(c) /\ c \notin marked THEN {} ELSE db[c].lits

Met(w, k) ==
  IF ~Followed(k + 1, w.lits) THEN w
  ELSE [lits |-> w.lits \cup (db[trail[k + 1].reason].lits \ {trail[k + 1].lit}),
        ids |-> w.ids \cup {trail[k + 1].reason}]

\* The recursion over the trail has a solution.
LEMMA AnalysisIs ==
  ASSUME trail \in Seq(Entries), NEW c
  PROVE  LET B == Analysis(c) IN
         /\ B[Len(trail)] = [lits |-> First(c), ids |-> {c}]
         /\ \A k \in 0 .. (Len(trail) - 1) : B[k] = Met(B[k + 1], k)
<1> DEFINE n == Len(trail)
           base == [lits |-> First(c), ids |-> {c}]
           F(f, m) == [k \in m .. n |-> IF k = n THEN base ELSE Met(f[k + 1], k)]
           T == {m \in 0 .. n : \E f : f = F(f, m)}
<1>1. n \in Nat
  OBVIOUS
<1>2. n \in T
  <2> DEFINE f == [k \in n .. n |-> base]
  <2>1. f = F(f, n)
    OBVIOUS
  <2> HIDE DEF f
  <2>2. \E f2 : f2 = F(f2, n)
    BY <2>1
  <2>3. n \in 0 .. n
    BY <1>1
  <2> QED BY <2>2, <2>3
<1>3. ASSUME NEW m \in T, m > 0  PROVE m - 1 \in T
  <2>1. PICK f : f = F(f, m)
    OBVIOUS
  <2> DEFINE h == [k \in (m - 1) .. n |-> IF k = m - 1 THEN Met(f[k + 1], k) ELSE f[k]]
  <2>2. m \in Nat /\ m <= n /\ m - 1 \in 0 .. n /\ m - 1 < n /\ (m - 1) + 1 = m
    BY <1>1, <1>3
  <2>3. \A k \in m .. n : h[k] = f[k]
    BY <1>1, <2>2
  <2>4. ASSUME NEW k \in (m - 1) .. n
        PROVE  h[k] = IF k = n THEN base ELSE Met(h[k + 1], k)
    <3>1. CASE k = m - 1
      <4>1. h[k] = Met(f[m], k) /\ h[k + 1] = f[m] /\ k # n
        BY <3>1, <2>2, <2>3, <1>1
      <4> QED BY <4>1, <3>1, <2>2
    <3>2. CASE k # m - 1
      <4>1. k \in m .. n /\ (k # n => k + 1 \in m .. n)
        BY <3>2, <2>2, <1>1
      <4>2. f[k] = IF k = n THEN base ELSE Met(f[k + 1], k)
        BY <4>1, <2>1
      <4>3. h[k] = f[k] /\ (k # n => h[k + 1] = f[k + 1])
        BY <4>1, <2>3
      <4> QED BY <4>2, <4>3
    <3> QED BY <3>1, <3>2
  <2>5. h = F(h, m - 1)
    BY <2>4
  <2> HIDE DEF h
  <2>6. \E f2 : f2 = F(f2, m - 1)
    BY <2>5
  <2> QED BY <2>6, <2>2
<1>4. 0 \in T
  <2>1. PICK m \in T : \A i \in T : m <= i
    <3>1. T \subseteq 0 .. n
      BY Zenon
    <3> HIDE DEF T
    <3>2. T \subseteq Nat /\ T # {}
      BY <1>1, <1>2, <3>1
    <3> QED BY <3>2, LeastNat
  <2>2. m = 0
    <3>1. m \in Nat
      BY <1>1
    <3>2. m > 0 => m - 1 \in T
      BY <1>3
    <3>3. m > 0 => m <= m - 1
      BY <2>1, <3>2
    <3> QED BY <3>1, <3>3
  <2> QED BY <2>2
<1>5. PICK f0 : f0 = F(f0, 0)
  BY <1>4
<1>6. Analysis(c) = CHOOSE f : f = [k \in 0 .. Len(trail) |->
        IF k = Len(trail)
        THEN [lits |-> IF Unit(c) /\ c \notin marked THEN {} ELSE db[c].lits, ids |-> {c}]
        ELSE IF ~Followed(k + 1, f[k + 1].lits) THEN f[k + 1]
             ELSE [lits |-> f[k + 1].lits \cup (db[trail[k + 1].reason].lits \ {trail[k + 1].lit}),
                   ids |-> f[k + 1].ids \cup {trail[k + 1].reason}]]
  BY Zenon DEF Analysis
<1>7. Analysis(c) = CHOOSE f : f = F(f, 0)
  BY <1>6, Zenon DEF First, Met
<1> DEFINE B == Analysis(c)
<1>8. B = F(B, 0)
  BY <1>5, <1>7, Zenon
<1> HIDE DEF B
<1>9. B[n] = base /\ \A k \in 0 .. (n - 1) : B[k] = Met(B[k + 1], k)
  <2>1. \A k \in 0 .. n : B[k] = IF k = n THEN base ELSE Met(B[k + 1], k)
    BY <1>8
  <2>2. n \in 0 .. n /\ \A k \in 0 .. (n - 1) : k \in 0 .. n /\ k # n
    BY <1>1
  <2> QED BY <2>1, <2>2
<1> QED BY <1>9 DEF B

\* What is met grows on the way back, and so does what is marked.
LEMMA MetGrows ==
  ASSUME trail \in Seq(Entries), NEW c,
         NEW k \in 0 .. Len(trail), NEW m \in 0 .. Len(trail), k <= m
  PROVE  /\ Analysis(c)[m].lits \subseteq Analysis(c)[k].lits
         /\ Analysis(c)[m].ids \subseteq Analysis(c)[k].ids
<1> DEFINE B == Analysis(c)
           n == Len(trail)
           D == {d \in 0 .. m : ~(B[m].lits \subseteq B[m - d].lits /\ B[m].ids \subseteq B[m - d].ids)}
<1>1. n \in Nat /\ m \in Nat /\ k \in Nat /\ m <= n
  OBVIOUS
<1>2. \A i \in 0 .. (n - 1) : B[i] = Met(B[i + 1], i)
  BY AnalysisIs
<1> HIDE DEF B, n
<1>3. ASSUME NEW i \in 0 .. (n - 1)
      PROVE  B[i + 1].lits \subseteq B[i].lits /\ B[i + 1].ids \subseteq B[i].ids
  <2>1. CASE ~Followed(i + 1, B[i + 1].lits)
    BY <1>2, <2>1 DEF Met
  <2>2. CASE Followed(i + 1, B[i + 1].lits)
    <3>1. B[i] = [lits |-> B[i + 1].lits \cup (db[trail[i + 1].reason].lits \ {trail[i + 1].lit}),
                  ids |-> B[i + 1].ids \cup {trail[i + 1].reason}]
      BY <1>2, <2>2 DEF Met
    <3> QED BY <3>1
  <2> QED BY <2>1, <2>2
<1>4. D = {}
  <2>1. SUFFICES ASSUME D # {}  PROVE FALSE
    OBVIOUS
  <2>2. D \subseteq Nat
    BY <1>1
  <2>3. PICK d \in D : \A e \in D : d <= e
    <3> HIDE DEF D
    <3> QED BY <2>1, <2>2, LeastNat
  <2>4. d \in 0 .. m /\ d # 0
    BY <1>1
  <2>5. d - 1 \in 0 .. m /\ d - 1 \notin D
    <3>1. d - 1 \in 0 .. m /\ ~(d <= d - 1)
      BY <2>4, <1>1
    <3> HIDE DEF D
    <3> QED BY <3>1, <2>3
  <2>6. m - d \in 0 .. (n - 1) /\ m - (d - 1) = (m - d) + 1
    BY <2>4, <1>1
  <2> QED BY <2>3, <2>5, <2>6, <1>3
<1>5. m - k \in 0 .. m /\ m - (m - k) = k
  BY <1>1
<1> QED BY <1>4, <1>5 DEF B

LEMMA ConeIs ==
  ASSUME trail \in Seq(Entries), NEW c
  PROVE  /\ c \in Cone(c)
         /\ \A k \in 1 .. Len(trail) : First(c) \subseteq Analysis(c)[k].lits
         /\ \A k \in 1 .. Len(trail) : trail[k].reason # 0 /\ -trail[k].lit \in Analysis(c)[k].lits =>
              /\ trail[k].reason \in Cone(c)
              /\ \A j \in 1 .. (k - 1) :
                   db[trail[k].reason].lits \ {trail[k].lit} \subseteq Analysis(c)[j].lits
<1> DEFINE B == Analysis(c)
           n == Len(trail)
<1>1. n \in Nat
  OBVIOUS
<1>2. B[n] = [lits |-> First(c), ids |-> {c}] /\ \A i \in 0 .. (n - 1) : B[i] = Met(B[i + 1], i)
  BY AnalysisIs
<1>3. \A i, j \in 0 .. n : i <= j => B[j].lits \subseteq B[i].lits /\ B[j].ids \subseteq B[i].ids
  BY MetGrows
<1>4. Cone(c) = B[0].ids
  BY DEF Cone
<1> HIDE DEF B
<1>5. c \in Cone(c) /\ \A k \in 1 .. n : First(c) \subseteq B[k].lits
  <2>1. 0 \in 0 .. n /\ n \in 0 .. n /\ 0 <= n /\ \A k \in 1 .. n : k \in 0 .. n /\ k <= n
    BY <1>1
  <2>2. B[n].ids = {c} /\ B[n].lits = First(c)
    BY <1>2
  <2> HIDE DEF n
  <2> QED BY <1>3, <1>4, <2>1, <2>2
<1>6. ASSUME NEW k \in 1 .. n, trail[k].reason # 0, -trail[k].lit \in B[k].lits
      PROVE  /\ trail[k].reason \in Cone(c)
             /\ \A j \in 1 .. (k - 1) : db[trail[k].reason].lits \ {trail[k].lit} \subseteq B[j].lits
  <2>1. k - 1 \in 0 .. (n - 1) /\ (k - 1) + 1 = k /\ k - 1 \in 0 .. n
    BY <1>1
  <2>2. Followed(k, B[k].lits)
    BY <1>6 DEF Followed
  <2>3. B[k - 1] = [lits |-> B[k].lits \cup (db[trail[k].reason].lits \ {trail[k].lit}),
                    ids |-> B[k].ids \cup {trail[k].reason}]
    BY <1>2, <2>1, <2>2 DEF Met
  <2>4. B[k - 1].ids \subseteq B[0].ids
    BY <1>3, <2>1, <1>1
  <2>5. \A j \in 1 .. (k - 1) : B[k - 1].lits \subseteq B[j].lits
    BY <1>3, <2>1, <1>1
  <2> QED BY <2>3, <2>4, <2>5, <1>4
<1> QED BY <1>5, <1>6 DEF B

-----------------------------------------------------------------------------
(* The clauses marked and the literals on the trail.                       *)

LEMMA ClosedTrue ==
  ASSUME NEW d, NEW t \in Seq(Entries), NEW g, NEW K, NEW A, NEW mk,
         Supported(d, t, g, A), Closed(d, t, g, K, mk), InLits(d, A),
         NEW a \in Assignments(Vars),
         Assumed(t, g, a),
         AllHold(d, a, A \cap mk)
  PROVE  AllTrue(t, K, a)
<1> DEFINE T == {q \in K : t[q].lit \notin a}
<1>1. SUFFICES ASSUME T # {}  PROVE FALSE
  BY DEF AllTrue
<1>2. T \subseteq Nat
  BY TrailDomain DEF Closed
<1>3. PICK q \in T : \A i \in T : q <= i
  <2> HIDE DEF T
  <2> QED BY <1>1, <1>2, LeastNat
<1>4. q \in K /\ q \in DOMAIN t /\ g[q] # 0 /\ q \in Nat
  BY <1>2 DEF Closed, Assumed
<1>5. g[q] \in A \cap mk /\ t[q].lit \in d[g[q]].lits
  BY <1>4 DEF Supported, Closed
<1>6. PICK l \in d[g[q]].lits : l \in a
  BY <1>5 DEF Holds, AllHold
<1>7. l \in Others(d, t, g, q) /\ l \in Lits
  BY <1>5, <1>6 DEF Others, InLits
<1>8. PICK j \in K : j < q /\ t[j].lit = -l
  BY <1>4, <1>7 DEF Closed
<1>9. t[j].lit \notin a
  BY <1>6, <1>7, <1>8, AssignmentIs
<1>10. j \in T /\ j \in Nat
  BY <1>8, <1>9, <1>2
<1> QED BY <1>3, <1>4, <1>8, <1>10

(***************************************************************************)
(* If the clauses that an analysis of c marks hold, with those marked      *)
(* before, so do the literals it has met.                                  *)
(***************************************************************************)
LEMMA ConeTrue ==
  ASSUME trail \in Seq(Entries), NEW c, NEW g, NEW K, NEW A,
         Supported(db, trail, g, A), Closed(db, trail, g, K, marked),
         InLits(db, A),
         NEW a \in Assignments(Vars),
         Assumed(trail, g, a),
         AllHold(db, a, A \cap (marked \cup Cone(c)))
  PROVE  \A k \in DOMAIN trail : -trail[k].lit \in Analysis(c)[k].lits => trail[k].lit \in a
<1> DEFINE T == {k \in DOMAIN trail : -trail[k].lit \in Analysis(c)[k].lits /\ trail[k].lit \notin a}
<1>1. SUFFICES ASSUME T # {}  PROVE FALSE
  OBVIOUS
<1>2. T \subseteq Nat
  BY TrailDomain
<1>3. PICK q \in T : \A i \in T : q <= i
  <2> HIDE DEF T
  <2> QED BY <1>1, <1>2, LeastNat
<1>4. q \in DOMAIN trail /\ q \in 1 .. Len(trail) /\ trail[q].lit \notin a
      /\ -trail[q].lit \in Analysis(c)[q].lits
  BY TrailDomain
<1>5. trail[q].reason # 0
  <2>1. AllHold(db, a, A \cap marked)
    BY DEF AllHold
  <2>2. AllTrue(trail, K, a)
    BY <2>1, ClosedTrue
  <2> QED BY <1>4, <2>2 DEF Closed, AllTrue
<1>6. g[q] = trail[q].reason /\ g[q] # 0
  BY <1>4, <1>5 DEF Supported
<1>7. /\ trail[q].reason \in Cone(c)
      /\ \A j \in 1 .. (q - 1) : Others(db, trail, g, q) \subseteq Analysis(c)[j].lits
  BY <1>4, <1>5, <1>6, ConeIs DEF Others
<1>8. g[q] \in A /\ trail[q].lit \in db[g[q]].lits
  BY <1>4, <1>6 DEF Supported
<1>9. PICK l \in db[g[q]].lits : l \in a
  BY <1>6, <1>7, <1>8 DEF Holds, AllHold
<1>10. l \in Others(db, trail, g, q) /\ l \in Lits
  BY <1>4, <1>8, <1>9 DEF Others, InLits
<1>11. PICK j \in 1 .. (q - 1) : trail[j].lit = -l
  BY <1>4, <1>6, <1>10 DEF Supported
<1>12. j \in DOMAIN trail /\ j < q
  BY <1>4, TrailDomain
<1>13. -trail[j].lit = l /\ l \in Analysis(c)[j].lits
  BY <1>7, <1>10, <1>11, LitsAre
<1>14. trail[j].lit \notin a
  BY <1>9, <1>10, <1>11, AssignmentIs
<1>15. j \in T
  BY <1>12, <1>13, <1>14
<1> QED BY <1>3, <1>12, <1>15, <1>2

\* So a clause that is false on the trail cannot hold with what its conflict marks.
LEMMA ConflictRefutes ==
  ASSUME trail \in Seq(Entries), NEW c, NEW g, NEW K, NEW A,
         Supported(db, trail, g, A), Closed(db, trail, g, K, marked),
         InLits(db, A),
         NEW a \in Assignments(Vars),
         Assumed(trail, g, a),
         AllHold(db, a, A \cap (marked \cup Cone(c))),
         ~Unit(c), Open(c) = {}, db[c].lits \subseteq Lits
  PROVE  ~Holds(db, a, c)
<1> SUFFICES ASSUME Holds(db, a, c)  PROVE FALSE
  OBVIOUS
<1>1. PICK l \in db[c].lits : l \in a
  BY DEF Holds
<1>2. -l \in TrueLits
  BY <1>1 DEF Open
<1>3. PICK k \in DOMAIN trail : trail[k].lit = -l
  BY <1>2 DEF TrueLits
<1>4. l \in Lits /\ -trail[k].lit = l /\ trail[k].lit \notin a
  BY <1>1, <1>3, LitsAre, AssignmentIs
<1>5. l \in Analysis(c)[k].lits
  <2>1. First(c) = db[c].lits
    BY DEF First
  <2>2. k \in 1 .. Len(trail)
    BY TrailDomain
  <2> QED BY <1>1, <2>1, <2>2, ConeIs
<1>6. \A i \in DOMAIN trail : -trail[i].lit \in Analysis(c)[i].lits => trail[i].lit \in a
  BY ConeTrue
<1> QED BY <1>4, <1>5, <1>6

-----------------------------------------------------------------------------
(* Cutting a trail back and adding to it.                                  *)

Cut(g, n) == [q \in 1 .. n |-> g[q]]

Ext(g, n, m, c) == [q \in 1 .. (n + m) |-> IF q <= n THEN g[q] ELSE c]

LEMMA CutLinks ==
  ASSUME NEW d, NEW t \in Seq(Entries), NEW g, NEW K, NEW A, NEW B, NEW mk, NEW mk2,
         NEW n \in 0 .. Len(t),
         Supported(d, t, g, A), Closed(d, t, g, K, mk), mk \subseteq mk2,
         \A q \in 1 .. n : g[q] # 0 => g[q] \in B
  PROVE  /\ Supported(d, SubSeq(t, 1, n), Cut(g, n), B)
         /\ Closed(d, SubSeq(t, 1, n), Cut(g, n), K \cap (1 .. n), mk2)
<1> DEFINE s == SubSeq(t, 1, n)
           h == Cut(g, n)
           L == K \cap (1 .. n)
<1>1. /\ DOMAIN s = 1 .. n /\ n \in Nat
      /\ \A q \in 1 .. n : q \in DOMAIN t /\ s[q] = t[q] /\ h[q] = g[q]
  BY CutIs, TrailDomain DEF Cut
<1> HIDE DEF s
<1>2. h \in [DOMAIN s -> Nat]
  BY <1>1 DEF Cut, Supported
<1> HIDE DEF h
<1>3. ASSUME NEW q \in DOMAIN s  PROVE s[q].reason \in {0, h[q]}
  BY <1>1 DEF Supported
<1>4. ASSUME NEW q \in DOMAIN s, h[q] # 0
      PROVE  /\ h[q] \in B /\ s[q].lit \in d[h[q]].lits
             /\ Others(d, s, h, q) = Others(d, t, g, q)
             /\ \A l \in Others(d, s, h, q) : \E j \in 1 .. (q - 1) : s[j].lit = -l
  <2>1. h[q] \in B /\ s[q].lit \in d[h[q]].lits /\ Others(d, s, h, q) = Others(d, t, g, q)
    BY <1>1, <1>4 DEF Supported, Others
  <2>2. ASSUME NEW l \in Others(d, t, g, q)  PROVE \E j \in 1 .. (q - 1) : s[j].lit = -l
    <3>1. PICK j \in 1 .. (q - 1) : t[j].lit = -l
      BY <1>1, <1>4 DEF Supported
    <3>2. j \in 1 .. n
      BY <1>1
    <3> QED BY <3>1, <3>2, <1>1
  <2> QED BY <2>1, <2>2
<1>5. Supported(d, s, h, B)
  BY <1>2, <1>3, <1>4 DEF Supported
<1>6. Closed(d, s, h, L, mk2)
  <2>1. L \subseteq DOMAIN s /\ \A q \in DOMAIN s : s[q].reason = 0 => q \in L
    BY <1>1 DEF Closed
  <2>2. ASSUME NEW q \in L, h[q] # 0
        PROVE  /\ h[q] \in mk2
               /\ \A l \in Others(d, s, h, q) : \E j \in L : j < q /\ s[j].lit = -l
    <3>1. q \in K /\ q \in DOMAIN s /\ g[q] # 0 /\ h[q] = g[q]
      BY <1>1, <2>2
    <3>2. h[q] \in mk2 /\ Others(d, s, h, q) = Others(d, t, g, q)
      BY <3>1, <1>4 DEF Closed
    <3>3. ASSUME NEW l \in Others(d, t, g, q)  PROVE \E j \in L : j < q /\ s[j].lit = -l
      <4>1. PICK j \in K : j < q /\ t[j].lit = -l
        BY <3>1 DEF Closed
      <4>2. j \in 1 .. n
        <5>1. j \in DOMAIN t /\ DOMAIN t = 1 .. Len(t)
          BY TrailDomain DEF Closed
        <5> QED BY <5>1, <4>1, <1>1, <3>1
      <4> QED BY <4>1, <4>2, <1>1
    <3> QED BY <3>2, <3>3
  <2> HIDE DEF L
  <2> QED BY <2>1, <2>2 DEF Closed
<1> QED BY <1>5, <1>6 DEF s, h

LEMMA MoreLinks ==
  ASSUME NEW d, NEW t, NEW g, NEW K, NEW A, NEW B, NEW mk, NEW mk2,
         Supported(d, t, g, A), Closed(d, t, g, K, mk), A \subseteq B, mk \subseteq mk2
  PROVE  Supported(d, t, g, B) /\ Closed(d, t, g, K, mk2)
<1>1. Supported(d, t, g, B)
  BY DEF Supported
<1>2. Closed(d, t, g, K, mk2)
  BY DEF Closed
<1> QED BY <1>1, <1>2

LEMMA AppendLinks ==
  ASSUME NEW d, NEW t \in Seq(Entries), NEW g, NEW K, NEW A, NEW mk,
         Supported(d, t, g, A), Closed(d, t, g, K, mk),
         NEW c \in A, c \in Nat \ {0}, NEW l \in d[c].lits, l \in Lits,
         \A x \in d[c].lits \ {l} : \E j \in DOMAIN t : t[j].lit = -x
  PROVE  /\ Supported(d, Append(t, [lit |-> l, reason |-> c]), Ext(g, Len(t), 1, c), A)
         /\ Closed(d, Append(t, [lit |-> l, reason |-> c]), Ext(g, Len(t), 1, c), K, mk)
<1> DEFINE n == Len(t)
           e == [lit |-> l, reason |-> c]
           s == Append(t, e)
           h == Ext(g, n, 1, c)
<1>1. n \in Nat /\ DOMAIN t = 1 .. n /\ g \in [1 .. n -> Nat]
  BY TrailDomain DEF Supported
<1>2. e \in Entries /\ e.lit = l /\ e.reason = c
  BY DEF Entries
<1>3. /\ DOMAIN s = 1 .. (n + 1) /\ s[n + 1] = e
      /\ \A q \in 1 .. n : s[q] = t[q]
  <2> HIDE DEF e
  <2> QED BY <1>1, <1>2, ExtendIs
<1>4. h \in [DOMAIN s -> Nat] /\ h[n + 1] = c /\ \A q \in 1 .. n : h[q] = g[q]
  BY <1>1, <1>3 DEF Ext
<1>5. \A q \in DOMAIN s : q \in 1 .. n \/ q = n + 1
  BY <1>1, <1>3
<1> HIDE DEF n, s, h, e
<1>6. \A q \in 1 .. n : Others(d, s, h, q) = Others(d, t, g, q)
  BY <1>3, <1>4 DEF Others
<1>7. Others(d, s, h, n + 1) = d[c].lits \ {l}
  BY <1>2, <1>3, <1>4 DEF Others
<1>8. ASSUME NEW q \in DOMAIN s  PROVE s[q].reason \in {0, h[q]}
  <2>1. CASE q \in 1 .. n
    BY <2>1, <1>1, <1>3, <1>4 DEF Supported
  <2>2. CASE q = n + 1
    BY <2>2, <1>2, <1>3, <1>4
  <2> QED BY <2>1, <2>2, <1>5
<1>9. ASSUME NEW q \in DOMAIN s, h[q] # 0
      PROVE  /\ h[q] \in A /\ s[q].lit \in d[h[q]].lits
             /\ \A x \in Others(d, s, h, q) : \E j \in 1 .. (q - 1) : s[j].lit = -x
  <2>1. CASE q \in 1 .. n
    <3>1. h[q] \in A /\ s[q].lit \in d[h[q]].lits
      BY <2>1, <1>1, <1>3, <1>4, <1>9 DEF Supported
    <3>2. ASSUME NEW x \in Others(d, s, h, q)  PROVE \E j \in 1 .. (q - 1) : s[j].lit = -x
      <4>1. PICK j \in 1 .. (q - 1) : t[j].lit = -x
        BY <2>1, <1>1, <1>4, <1>6, <1>9 DEF Supported
      <4>2. j \in 1 .. n
        BY <2>1, <1>1
      <4> QED BY <4>1, <4>2, <1>3
    <3> QED BY <3>1, <3>2
  <2>2. CASE q = n + 1
    <3>1. h[q] \in A /\ s[q].lit \in d[h[q]].lits
      BY <2>2, <1>2, <1>3, <1>4
    <3>2. ASSUME NEW x \in Others(d, s, h, q)  PROVE \E j \in 1 .. (q - 1) : s[j].lit = -x
      <4>1. PICK j \in 1 .. n : t[j].lit = -x
        BY <2>2, <1>1, <1>7
      <4>2. j \in 1 .. (q - 1)
        BY <2>2, <1>1
      <4> QED BY <4>1, <4>2, <1>3
    <3> QED BY <3>1, <3>2
  <2> QED BY <2>1, <2>2, <1>5
<1>10. Supported(d, s, h, A)
  BY <1>4, <1>8, <1>9 DEF Supported
<1>11. Closed(d, s, h, K, mk)
  <2>1. K \subseteq 1 .. n /\ \A q \in 1 .. n : q \in DOMAIN s
    BY <1>1, <1>3 DEF Closed
  <2>2. ASSUME NEW q \in DOMAIN s, s[q].reason = 0  PROVE q \in K
    <3>1. q # n + 1
      BY <2>2, <1>2, <1>3
    <3> QED BY <3>1, <2>2, <1>1, <1>3, <1>5 DEF Closed
  <2>3. ASSUME NEW q \in K, h[q] # 0
        PROVE  h[q] \in mk /\ \A x \in Others(d, s, h, q) : \E j \in K : j < q /\ s[j].lit = -x
    <3>1. q \in 1 .. n /\ h[q] = g[q]
      BY <2>1, <1>4
    <3>2. g[q] \in mk /\ \A x \in Others(d, t, g, q) : \E j \in K : j < q /\ t[j].lit = -x
      BY <2>3, <3>1 DEF Closed
    <3>3. \A j \in K : s[j] = t[j]
      BY <2>1, <1>3
    <3> QED BY <3>1, <3>2, <3>3, <1>6
  <2>4. K \subseteq DOMAIN s
    BY <2>1
  <2> QED BY <2>2, <2>3, <2>4 DEF Closed
<1> QED BY <1>10, <1>11 DEF s, h, n, e

LEMMA ConcatLinks ==
  ASSUME NEW d, NEW t \in Seq(Entries), NEW g, NEW K, NEW A, NEW mk, NEW s \in Seq(Entries),
         Supported(d, t, g, A), Closed(d, t, g, K, mk),
         \A q \in DOMAIN s : s[q].reason = 0
  PROVE  /\ Supported(d, t \o s, Ext(g, Len(t), Len(s), 0), A)
         /\ Closed(d, t \o s, Ext(g, Len(t), Len(s), 0), K \cup ((Len(t) + 1) .. (Len(t) + Len(s))), mk)
<1> DEFINE n == Len(t)
           m == Len(s)
           u == t \o s
           h == Ext(g, n, m, 0)
           L == K \cup ((n + 1) .. (n + m))
<1>1. n \in Nat /\ m \in Nat /\ DOMAIN t = 1 .. n /\ g \in [1 .. n -> Nat]
  BY TrailDomain DEF Supported
<1>2. /\ DOMAIN u = 1 .. (n + m)
      /\ \A q \in 1 .. n : u[q] = t[q]
      /\ \A q \in DOMAIN u : q > n => u[q].reason = 0
  BY <1>1, ConcatIs
<1>3. /\ h \in [DOMAIN u -> Nat] /\ \A q \in 1 .. n : h[q] = g[q]
      /\ \A q \in DOMAIN u : q > n => h[q] = 0
  BY <1>1, <1>2 DEF Ext
<1>4. \A q \in DOMAIN u : q \in 1 .. n \/ q > n
  BY <1>1, <1>2
<1>5. L \subseteq DOMAIN u /\ K \subseteq L /\ \A q \in DOMAIN u : q > n => q \in L
  BY <1>1, <1>2 DEF Closed
<1>6. \A q \in L : q \in K \/ q > n
  BY <1>1
<1> HIDE DEF n, m, u, h, L
<1>7. \A q \in 1 .. n : Others(d, u, h, q) = Others(d, t, g, q)
  BY <1>2, <1>3 DEF Others
<1>8. ASSUME NEW q \in DOMAIN u  PROVE u[q].reason \in {0, h[q]}
  <2>1. CASE q \in 1 .. n
    BY <2>1, <1>1, <1>2, <1>3 DEF Supported
  <2>2. CASE q > n
    BY <2>2, <1>2
  <2> QED BY <2>1, <2>2, <1>4
<1>9. ASSUME NEW q \in DOMAIN u, h[q] # 0
      PROVE  /\ h[q] \in A /\ u[q].lit \in d[h[q]].lits
             /\ \A x \in Others(d, u, h, q) : \E j \in 1 .. (q - 1) : u[j].lit = -x
  <2>1. q \in 1 .. n
    BY <1>3, <1>4, <1>9
  <2>2. h[q] \in A /\ u[q].lit \in d[h[q]].lits
    BY <2>1, <1>1, <1>2, <1>3, <1>9 DEF Supported
  <2>3. ASSUME NEW x \in Others(d, u, h, q)  PROVE \E j \in 1 .. (q - 1) : u[j].lit = -x
    <3>1. PICK j \in 1 .. (q - 1) : t[j].lit = -x
      BY <2>1, <1>1, <1>3, <1>7, <1>9 DEF Supported
    <3>2. j \in 1 .. n
      BY <2>1, <1>1
    <3> QED BY <3>1, <3>2, <1>2
  <2> QED BY <2>2, <2>3
<1>10. Supported(d, u, h, A)
  BY <1>3, <1>8, <1>9 DEF Supported
<1>11. Closed(d, u, h, L, mk)
  <2>1. ASSUME NEW q \in DOMAIN u, u[q].reason = 0  PROVE q \in L
    BY <2>1, <1>1, <1>2, <1>4, <1>5 DEF Closed
  <2>2. ASSUME NEW q \in L, h[q] # 0
        PROVE  h[q] \in mk /\ \A x \in Others(d, u, h, q) : \E j \in L : j < q /\ u[j].lit = -x
    <3>1. q \in K /\ q \in 1 .. n /\ h[q] = g[q]
      BY <2>2, <1>1, <1>3, <1>5, <1>6 DEF Closed
    <3>2. g[q] \in mk /\ \A x \in Others(d, t, g, q) : \E j \in K : j < q /\ t[j].lit = -x
      BY <2>2, <3>1 DEF Closed
    <3>3. \A j \in K : u[j] = t[j] /\ j \in L
      BY <1>1, <1>2, <1>5 DEF Closed
    <3> QED BY <3>1, <3>2, <3>3, <1>7
  <2> QED BY <2>1, <2>2, <1>5 DEF Closed
<1> QED BY <1>10, <1>11 DEF u, h, n, m, L

-----------------------------------------------------------------------------
(* Taking reasons away.                                                    *)

\* A set with one element has no other.
LEMMA Single ==
  ASSUME NEW S, Cardinality(S) = 1, IsFiniteSet(S), NEW x \in S, NEW y \in S
  PROVE  x = y
BY FS_Singleton

(***************************************************************************)
(* With the clauses that the analysis of its reason marks, an entry is     *)
(* true.                                                                   *)
(***************************************************************************)
LEMMA ReasonTrue ==
  ASSUME trail \in Seq(Entries), NEW k \in DOMAIN trail, NEW g, NEW K, NEW A,
         trail[k].reason # 0,
         Supported(db, trail, g, A), Closed(db, trail, g, K, marked),
         InLits(db, A),
         NEW a \in Assignments(Vars),
         Assumed(trail, g, a),
         AllHold(db, a, A \cap (marked \cup Cone(trail[k].reason)))
  PROVE  trail[k].lit \in a
<1> DEFINE r == trail[k].reason
<1>1. g[k] = r /\ r \in A /\ trail[k].lit \in db[r].lits
  BY DEF Supported
<1>2. r \in Cone(r)
  BY ConeIs
<1>3. PICK l \in db[r].lits : l \in a
  BY <1>1, <1>2 DEF AllHold, Holds
<1>4. SUFFICES ASSUME l # trail[k].lit  PROVE FALSE
  BY <1>3
<1>5. l \in Others(db, trail, g, k) /\ l \in Lits /\ db[r].lits \subseteq Lits
  BY <1>1, <1>3, <1>4 DEF Others, InLits
<1>6. PICK j \in 1 .. (k - 1) : trail[j].lit = -l
  BY <1>1, <1>5 DEF Supported
<1>7. j \in 1 .. Len(trail) /\ j \in DOMAIN trail
  BY TrailDomain
<1>8. ~Unit(r)
  BY <1>1, <1>3, <1>4, <1>5, LitsFinite, Single DEF Unit
<1>9. l \in Analysis(r)[j].lits
  <2>1. First(r) = db[r].lits
    BY <1>8 DEF First
  <2> QED BY <1>3, <1>7, <2>1, ConeIs
<1>10. trail[j].lit \in a
  <2>1. -trail[j].lit = l
    BY <1>5, <1>6, LitsAre
  <2> QED BY <1>7, <1>9, <2>1, ConeTrue
<1> QED BY <1>3, <1>5, <1>6, <1>10, AssignmentIs

(***************************************************************************)
(* Reasons may be taken away from entries when what they follow from is    *)
(* marked.                                                                 *)
(***************************************************************************)
Follows(K, r) ==
  K \cup {k \in DOMAIN trail : trail[k].reason # 0 /\ -trail[k].lit \in Analysis(r)[k].lits}

LEMMA ResetLinks ==
  ASSUME trail \in Seq(Entries), NEW g, NEW K, NEW A, NEW r, r # 0,
         Supported(db, trail, g, A), Closed(db, trail, g, K, marked),
         InLits(db, A),
         NEW S, \A k \in S : k \in DOMAIN trail /\ trail[k].reason = r
  PROVE  /\ Supported(db, Unreasoned(trail, S), g, A)
         /\ Closed(db, Unreasoned(trail, S), g, Follows(K, r) \cup S, marked \cup Cone(r))
<1> DEFINE t == Unreasoned(trail, S)
           L == Follows(K, r) \cup S
           mk == marked \cup Cone(r)
<1>1. /\ DOMAIN t = DOMAIN trail
      /\ \A k \in DOMAIN trail : t[k].lit = trail[k].lit
                                 /\ t[k].reason = IF k \in S THEN 0 ELSE trail[k].reason
  BY UnreasonedIs
<1>2. DOMAIN trail = 1 .. Len(trail) /\ Len(trail) \in Nat
  BY TrailDomain
<1>3. \A k \in DOMAIN trail : trail[k].reason # 0 /\ -trail[k].lit \in Analysis(r)[k].lits => k \in L
  BY DEF Follows
<1>4. \A q \in DOMAIN trail : trail[q].reason = 0 => q \in L
  BY DEF Follows, Closed
<1>5. L \subseteq DOMAIN trail /\ S \subseteq L /\ K \subseteq L
  BY DEF Follows, Closed
<1>6. \A q \in L : q \in K \/ q \in S \/ (trail[q].reason # 0 /\ -trail[q].lit \in Analysis(r)[q].lits)
  BY DEF Follows
<1> HIDE DEF t, L
<1>7. \A q \in DOMAIN trail : Others(db, t, g, q) = Others(db, trail, g, q)
  BY <1>1 DEF Others
<1>8. Supported(db, t, g, A)
  <2>1. ASSUME NEW q \in DOMAIN t  PROVE t[q].reason \in {0, g[q]}
    BY <1>1 DEF Supported
  <2>2. ASSUME NEW q \in DOMAIN t, g[q] # 0
        PROVE  /\ g[q] \in A /\ t[q].lit \in db[g[q]].lits
               /\ \A l \in Others(db, t, g, q) : \E j \in 1 .. (q - 1) : t[j].lit = -l
    <3>1. g[q] \in A /\ t[q].lit \in db[g[q]].lits
      BY <1>1, <2>2 DEF Supported
    <3>2. ASSUME NEW l \in Others(db, t, g, q)  PROVE \E j \in 1 .. (q - 1) : t[j].lit = -l
      <4>1. PICK j \in 1 .. (q - 1) : trail[j].lit = -l
        BY <1>1, <1>7, <2>2 DEF Supported
      <4>2. j \in DOMAIN trail
        BY <1>1, <1>2
      <4> QED BY <4>1, <4>2, <1>1
    <3> QED BY <3>1, <3>2
  <2>3. g \in [DOMAIN t -> Nat]
    BY <1>1 DEF Supported
  <2> QED BY <2>1, <2>2, <2>3 DEF Supported
<1>9. Closed(db, t, g, L, mk)
  <2>1. ASSUME NEW q \in DOMAIN t, t[q].reason = 0  PROVE q \in L
    BY <2>1, <1>1, <1>4, <1>5
  <2>2. ASSUME NEW q \in L, g[q] # 0
        PROVE  g[q] \in mk /\ \A l \in Others(db, t, g, q) : \E j \in L : j < q /\ t[j].lit = -l
    <3>0. q \in DOMAIN trail /\ q \in 1 .. Len(trail)
      BY <1>2, <1>5
    \* The literals it follows from were met.
    <3>1. ASSUME g[q] \in Cone(r), Others(db, trail, g, q) # {} =>
                   \A j \in 1 .. (q - 1) : Others(db, trail, g, q) \subseteq Analysis(r)[j].lits
          PROVE  g[q] \in mk /\ \A l \in Others(db, t, g, q) : \E j \in L : j < q /\ t[j].lit = -l
      <4>1. ASSUME NEW l \in Others(db, trail, g, q)  PROVE \E j \in L : j < q /\ t[j].lit = -l
        <5>1. PICK j \in 1 .. (q - 1) : trail[j].lit = -l
          BY <2>2, <3>0 DEF Supported
        <5>2. j \in DOMAIN trail /\ j < q
          BY <1>2, <3>0
        <5>3. l \in Lits /\ -trail[j].lit = l
          BY <2>2, <3>0, <5>1, LitsAre DEF Supported, InLits, Others
        <5>4. j \in L
          BY <3>1, <5>2, <5>3, <1>3, <1>4
        <5> QED BY <5>1, <5>2, <5>4, <1>1
      <4> QED BY <3>1, <4>1, <3>0, <1>7
    <3>2. CASE q \in K
      <4>1. g[q] \in marked /\ \A l \in Others(db, trail, g, q) : \E j \in K : j < q /\ trail[j].lit = -l
        BY <2>2, <3>2 DEF Closed
      <4>2. \A j \in K : j \in L /\ t[j].lit = trail[j].lit
        BY <1>1, <1>5
      <4> QED BY <4>1, <4>2, <3>0, <1>7
    <3>3. CASE q \in S
      <4>1. g[q] = r /\ r \in A /\ trail[q].lit \in db[r].lits /\ r \in Cone(r)
        BY <3>3, ConeIs DEF Supported
      <4>2. ASSUME Others(db, trail, g, q) # {}  PROVE First(r) = db[r].lits
        <5>1. PICK l \in db[r].lits : l # trail[q].lit
          BY <4>1, <4>2 DEF Others
        <5>2. ~Unit(r)
          BY <4>1, <5>1, LitsFinite, Single DEF Unit, InLits
        <5> QED BY <5>2 DEF First
      <4>3. Others(db, trail, g, q) \subseteq db[r].lits
        BY <4>1 DEF Others
      <4>4. Others(db, trail, g, q) # {} =>
              \A j \in 1 .. (q - 1) : Others(db, trail, g, q) \subseteq Analysis(r)[j].lits
        <5>1. \A j \in 1 .. (q - 1) : j \in 1 .. Len(trail)
          BY <1>2, <3>0
        <5>2. \A j \in 1 .. Len(trail) : First(r) \subseteq Analysis(r)[j].lits
          BY ConeIs
        <5> QED BY <4>2, <4>3, <5>1, <5>2
      <4> QED BY <4>1, <4>4, <3>1
    <3>4. CASE trail[q].reason # 0 /\ -trail[q].lit \in Analysis(r)[q].lits
      <4>1. g[q] = trail[q].reason
        BY <3>0, <3>4 DEF Supported
      <4>2. /\ trail[q].reason \in Cone(r)
            /\ \A j \in 1 .. (q - 1) : db[trail[q].reason].lits \ {trail[q].lit} \subseteq Analysis(r)[j].lits
        BY <3>0, <3>4, ConeIs
      <4> QED BY <4>1, <4>2, <3>1 DEF Others
    <3> QED BY <3>2, <3>3, <3>4, <1>6, <2>2
  <2>3. L \subseteq DOMAIN t
    BY <1>1, <1>5
  <2> QED BY <2>1, <2>2, <2>3 DEF Closed
<1> QED BY <1>8, <1>9 DEF t, L

-----------------------------------------------------------------------------
(* Going forward.                                                          *)

\* If everything on the trail is true, a clause that holds has an open literal
\* that is.
LEMMA ForcedTrue ==
  ASSUME DratTypeOK, NEW a \in Assignments(Vars), OnTrail(a, Len(trail)),
         NEW c \in DOMAIN db, Holds(db, a, c)
  PROVE  \E l \in Open(c) : l \in a
<1>1. PICK l \in db[c].lits : l \in a
  BY DEF Holds
<1>2. l \in Lits /\ a \subseteq Lits
  BY <1>1, AssignmentIs
<1>3. -l \notin TrueLits
  <2>1. ASSUME NEW k \in DOMAIN trail, trail[k].lit = -l  PROVE FALSE
    <3>1. -l \in a
      BY <2>1, TrailFacts DEF OnTrail, AllIn
    <3> QED BY <1>1, <1>2, <3>1, AssignmentIs
  <2> QED BY <2>1 DEF TrueLits
<1> QED BY <1>1, <1>3 DEF Open

\* What is true stays so when the trail is extended or cut back.
LEMMA AppendIn ==
  ASSUME NEW t \in Seq(Entries), NEW e \in Entries, NEW a, NEW n, AllIn(t, a, n)
  PROVE  /\ n \in Nat /\ n <= Len(t) => AllIn(Append(t, e), a, n)
         /\ n = Len(t) /\ e.lit \in a => \A m : AllIn(Append(t, e), a, m)
<1>1. Len(t) \in Nat /\ DOMAIN t = 1 .. Len(t)
  BY TrailDomain
<1>2. /\ DOMAIN Append(t, e) = 1 .. (Len(t) + 1) /\ Append(t, e)[Len(t) + 1] = e
      /\ \A q \in DOMAIN t : Append(t, e)[q] = t[q]
  BY ExtendIs
<1>3. ASSUME n \in Nat, n <= Len(t)  PROVE AllIn(Append(t, e), a, n)
  <2>1. ASSUME NEW k \in DOMAIN Append(t, e), k <= n  PROVE k \in DOMAIN t
    BY <1>1, <1>2, <1>3, <2>1
  <2> QED BY <1>2, <2>1 DEF AllIn
<1>4. ASSUME n = Len(t), e.lit \in a  PROVE \A k \in DOMAIN Append(t, e) : Append(t, e)[k].lit \in a
  <2>1. \A k \in DOMAIN Append(t, e) : (k \in DOMAIN t /\ k <= n) \/ k = Len(t) + 1
    BY <1>1, <1>2, <1>4
  <2> QED BY <1>2, <1>4, <2>1 DEF AllIn
<1> QED BY <1>3, <1>4 DEF AllIn

LEMMA ConcatIn ==
  ASSUME NEW t \in Seq(Entries), NEW s \in Seq(Entries), NEW a, NEW n, AllIn(t, a, n)
  PROVE  /\ n \in Nat /\ n <= Len(t) => AllIn(t \o s, a, n)
         /\ n = Len(t) /\ (\A k \in DOMAIN s : s[k].lit \in a) => \A m : AllIn(t \o s, a, m)
<1>1. Len(t) \in Nat /\ DOMAIN t = 1 .. Len(t) /\ Len(s) \in Nat
  BY TrailDomain
<1> DEFINE u == t \o s
<1>2. /\ DOMAIN u = 1 .. (Len(t) + Len(s))
      /\ \A q \in DOMAIN t : u[q] = t[q]
      /\ \A q \in DOMAIN u : q > Len(t) => q - Len(t) \in DOMAIN s /\ u[q] = s[q - Len(t)]
  BY ConcatIs
<1> HIDE DEF u
<1>3. ASSUME n \in Nat, n <= Len(t)  PROVE AllIn(u, a, n)
  <2>1. ASSUME NEW k \in DOMAIN u, k <= n  PROVE k \in DOMAIN t
    BY <1>1, <1>2, <1>3, <2>1
  <2> QED BY <1>2, <2>1 DEF AllIn
<1>4. ASSUME n = Len(t), \A k \in DOMAIN s : s[k].lit \in a  PROVE \A k \in DOMAIN u : u[k].lit \in a
  <2>1. \A k \in DOMAIN u : (k \in DOMAIN t /\ k <= n) \/ k > Len(t)
    BY <1>1, <1>2, <1>4
  <2> QED BY <1>2, <1>4, <2>1 DEF AllIn
<1>5. AllIn(t \o s, a, n) = AllIn(u, a, n) /\ \A m : AllIn(t \o s, a, m) = AllIn(u, a, m)
  BY DEF u
<1> QED BY <1>3, <1>4, <1>5 DEF AllIn

LEMMA CutIn ==
  ASSUME NEW t \in Seq(Entries), NEW n \in 0 .. Len(t), NEW a, NEW m, AllIn(t, a, m)
  PROVE  /\ AllIn(SubSeq(t, 1, n), a, m)
         /\ m = n => \A k : AllIn(SubSeq(t, 1, n), a, k)
<1> DEFINE u == SubSeq(t, 1, n)
<1>1. DOMAIN u = 1 .. n /\ \A q \in 1 .. n : q \in DOMAIN t /\ u[q] = t[q]
  BY CutIs
<1>2. u = SubSeq(t, 1, n)
  OBVIOUS
<1> HIDE DEF u
<1>3. AllIn(u, a, m)
  BY <1>1 DEF AllIn
<1>4. ASSUME m = n  PROVE \A k \in DOMAIN u : u[k].lit \in a
  <2>1. n \in Nat
    BY TrailDomain
  <2>2. \A k \in DOMAIN u : k <= n
    BY <1>1, <2>1
  <2> QED BY <1>1, <1>4, <2>2 DEF AllIn
<1> QED BY <1>2, <1>3, <1>4 DEF AllIn

LEMMA UnreasonedIn ==
  ASSUME NEW t \in Seq(Entries), NEW S, NEW a, NEW m, AllIn(t, a, m)
  PROVE  AllIn(Unreasoned(t, S), a, m)
BY UnreasonedIs DEF AllIn

\* Literals of a clause that does not hold are assumed false: what is assumed is true.
LEMMA AssumedTrue ==
  ASSUME NEW a \in Assignments(Vars), NEW S \in SUBSET Lits, S \cap a = {}
  PROVE  \A k \in DOMAIN Assume(S) : Assume(S)[k].lit \in a
<1> DEFINE s == Assume(S)
<1>1. s \in Seq(Entries) /\ \A k \in DOMAIN s : -s[k].lit \in S
  BY AssumeIs
<1> HIDE DEF s
<1>2. ASSUME NEW k \in DOMAIN s  PROVE s[k].lit \in a
  <2>1. s[k].lit \in Lits
    BY <1>1, TrailDomain
  <2>2. -s[k].lit \notin a
    BY <1>1
  <2> QED BY <2>1, <2>2, AssignmentIs
<1> QED BY <1>2 DEF s

LEMMA GateBack ==
  ASSUME DratTypeOK, Shape, DratStep, Running, Running', Gate'
  PROVE  Gate
<1>1. Trusted' = Trusted
  BY SameNames
<1>2. usedRat => usedRat'
  <2>1. usedRat' = usedRat \/ usedRat' = TRUE
    BY ConflictIs, InsertIs, CheckForwardIs, BackIs, CheckBackwardIs, StartRatIs, RatCandidateIs,
       RatHoldsIs, RatFailsIs, PropagateIs, InitialiseIs, ReadDeletionIs, DeletingIs, SkippingIs
       DEF DratStep, ReadAddition, EndOfUnits, EndOfProof, AllChecked
  <2> QED BY <2>1
<1>3. CASE InRat
  <2>1. InRat' \/ usedRat'
    <3>1. pc = "rat" \/ pc = "propagate"
      BY <1>3 DEF InRat, Trying
    <3>2. CASE PropagateUnit
      BY <1>3, <3>2, PropagateIs DEF InRat, Trying
    <3>3. CASE Conflict
      BY <1>3, <3>3, ConflictIs DEF InRat, Trying, Starting, Joining, Checking, Running
    <3>4. CASE RatCandidate
      BY <3>4, RatCandidateIs DEF InRat, Trying
    <3>5. CASE RatHolds
      BY <3>5, RatHoldsIs
    <3>6. CASE RatFails
      BY <3>6, RatFailsIs DEF InRat, Running
    <3>7. CASE EndOfUnits \/ StartRat
      <4>1. goal \in {"init", "lemma", "check"} /\ pc = "propagate"
        BY <3>7 DEF EndOfUnits, StartRat, Fixpoint
      <4> QED BY <1>3, <4>1 DEF InRat, Trying
    <3> QED BY <3>1, <3>2, <3>3, <3>4, <3>5, <3>6, <3>7, InsertIs
            DEF DratStep, ReadAddition, ReadDeletion, Initialise, DeleteStep, SkipSatisfied, Adding, Deleting,
                CheckForward, EndOfProof, Back, CheckBackward, AllChecked
  <2> QED BY <1>1, <2>1 DEF Gate
<1>4. CASE ~InRat
  BY <1>1, <1>2, <1>4 DEF Gate
<1> QED BY <1>3, <1>4

LEMMA InitialiseModel ==
  ASSUME DratTypeOK, Shape, StepsOK, Initialise, DratStep, Running',
         NEW a \in Models(Formula \cup Trusted)
  PROVE  ModelOf(a)'
<1>0. a \in Assignments(Vars) /\ a \subseteq Lits /\ Satisfies(a, Formula) /\ Satisfies(a, Trusted)
  BY AssignmentIs DEF Models, Satisfies
<1>1. /\ db' = db /\ pc' = "propagate" /\ goal' = "init" /\ live' \subseteq FormulaIds
      /\ trail' = Assigned(FormulaUnits)
  BY InitialiseIs DEF Running
<1>2. Trusted' = Trusted /\ FormulaIds \subseteq DOMAIN db
  BY SameNames DEF DratTypeOK, TypeDb
<1>3. \A c \in FormulaIds : Holds(db, a, c)
  <2>1. ASSUME NEW c \in FormulaIds  PROVE Holds(db, a, c)
    <3>1. db[c].lits = ToSet(input.formula[c])
      BY DEF StepsOK, FormulaKept
    <3>2. c \in DOMAIN input.formula
      BY LenProperties DEF FormulaIds, DratTypeOK, TypeInput
    <3>3. ToSet(input.formula[c]) \in Formula
      BY <3>2 DEF Formula
    <3> QED BY <1>0, <3>1, <3>3 DEF Satisfies, Holds
  <2> QED BY <2>1
<1>4. \A k \in DOMAIN trail' : trail'[k].lit \in a
  <2>1. ASSUME NEW k \in DOMAIN trail'  PROVE trail'[k].lit \in a
    <3> DEFINE c == trail'[k].reason
    <3>1. FormulaUnits \in SUBSET DOMAIN db
      BY <1>2 DEF FormulaUnits
    <3>2. c \in FormulaUnits /\ trail'[k].lit \in db[c].lits
      BY <1>1, <3>1, AssignedIs DEF DratTypeOK
    <3> HIDE DEF c
    <3>3. c \in FormulaIds /\ Cardinality(db[c].lits) = 1
      BY <3>2 DEF FormulaUnits, Unit
    <3>4. IsFiniteSet(db[c].lits)
      BY <1>2, <3>3, DbIs, LitsFinite DEF DratTypeOK
    <3>5. PICK x \in db[c].lits : x \in a
      BY <1>3, <3>3 DEF Holds
    <3>6. x = trail'[k].lit
      BY <3>2, <3>3, <3>4, <3>5, Single
    <3> QED BY <3>5, <3>6
  <2> QED BY <2>1
<1>5. \A n : OnTrail(a, n)'
  BY <1>4 DEF OnTrail, AllIn
<1>6. \A c \in live' : Holds(db, a, c)'
  BY <1>1, <1>3 DEF Holds
<1> QED BY <1>0, <1>1, <1>2, <1>5, <1>6 DEF ModelOf, Joining, Starting, Base, Checking, InRat, Trying

LEMMA SameHolds ==
  ASSUME db' = db, NEW a, NEW c, Holds(db, a, c)
  PROVE  Holds(db, a, c)'
BY DEF Holds

\* The true open literal of a clause joins the trail.
LEMMA PropagateTrue ==
  ASSUME DratTypeOK, NEW a \in Assignments(Vars), NEW c \in DOMAIN db, NEW l \in Lits,
         Holds(db, a, c), Open(c) = {l}, trail' = Append(trail, [lit |-> l, reason |-> c])
  PROVE  /\ \A n \in Nat : n <= Len(trail) /\ OnTrail(a, n) => OnTrail(a, n)'
         /\ OnTrail(a, Len(trail)) => \A m : OnTrail(a, m)'
<1>0. trail \in Seq(Entries) /\ c \in Nat
  BY TrailFacts, DbIs DEF DratTypeOK
<1> DEFINE e == [lit |-> l, reason |-> c]
<1>1. e \in Entries /\ e.lit = l
  BY <1>0 DEF Entries
<1>2. trail' = Append(trail, e)
  OBVIOUS
<1> HIDE DEF e
<1>3. ASSUME NEW n \in Nat, n <= Len(trail), OnTrail(a, n)  PROVE OnTrail(a, n)'
  BY <1>0, <1>1, <1>2, <1>3, AppendIn DEF OnTrail
<1>4. ASSUME OnTrail(a, Len(trail))  PROVE \A m : OnTrail(a, m)'
  <2>1. l \in a
    BY <1>4, ForcedTrue
  <2>2. \A m : AllIn(Append(trail, e), a, m)
    BY <1>0, <1>1, <1>4, <2>1, AppendIn DEF OnTrail
  <2> QED BY <1>2, <2>2 DEF OnTrail
<1> QED BY <1>3, <1>4

LEMMA PropagateModel ==
  ASSUME DratTypeOK, Shape, TrailOK, PropagateUnit, DratStep, NEW a \in Assignments(Vars), ModelOf(a)
  PROVE  ModelOf(a)'
<1>0. /\ trail \in Seq(Entries) /\ Len(trail) \in Nat /\ forced \in Nat /\ forced <= Len(trail)
      /\ rat.base \in Nat /\ (InRat => rat.base <= Len(trail))
  BY TrailFacts DEF DratTypeOK, TypeRat, TrailOK
<1>1. /\ db' = db /\ steps' = steps /\ at' = at /\ live' = live
      /\ forced' = forced /\ pc' = pc /\ goal' = goal /\ rat' = rat /\ pc = "propagate"
  BY PropagateIs
<1>2. PICK c \in live, l \in Lits : Open(c) = {l} /\ trail' = Append(trail, [lit |-> l, reason |-> c])
  BY PropagateIs
<1>3. c \in DOMAIN db /\ Holds(db, a, c)
  BY DEF DratTypeOK, TypeDb, ModelOf
<1>4. /\ \A n \in Nat : n <= Len(trail) /\ OnTrail(a, n) => OnTrail(a, n)'
      /\ OnTrail(a, Len(trail)) => \A m : OnTrail(a, m)'
  BY <1>2, <1>3, PropagateTrue
<1>5. Trusted' = Trusted /\ Id' = Id
  BY <1>1, SameNames DEF Id
<1>6. Satisfies(a, Trusted)' /\ \A d \in live' : Holds(db, a, d)'
  BY <1>1, <1>5, SameHolds DEF ModelOf
<1>7. OnTrail(a, IF Joining THEN Len(trail) ELSE Base)'
  <2>1. CASE Joining \/ Starting
    <3>1. OnTrail(a, Len(trail))
      BY <2>1 DEF ModelOf, Base
    <3> QED BY <1>4, <3>1
  <2>2. CASE ~Joining /\ ~Starting
    <3>1. OnTrail(a, Base) /\ Base = (IF InRat THEN rat.base ELSE forced)
      BY <2>2 DEF ModelOf, Base
    <3>2. Base \in Nat /\ Base <= Len(trail)
      BY <1>0, <3>1
    <3>3. Base' = Base /\ ~Joining'
      BY <1>1, <2>2 DEF Base, Starting, Joining, InRat, Trying
    <3> QED BY <1>4, <3>1, <3>2, <3>3
  <2> QED BY <2>1, <2>2
<1>8. ASSUME Checking'  PROVE Holds(db, a, Id)' \/ OnTrail(a, Len(trail))'
  <2>1. Checking
    BY <1>1, <1>8 DEF Checking
  <2> QED BY <1>1, <1>4, <1>5, <2>1, SameHolds DEF ModelOf
<1>9. ASSUME InRat'
      PROVE  \/ Holds(db, a, Id)'
             \/ /\ OnTrail(a, forced)'
                /\ \A d \in live' : -rat'.pivot \in db'[d].lits =>
                     \/ d \in rat'.todo
                     \/ Elsewhere(a, d)'
                     \/ Trying' /\ OnTrail(a, Len(trail))'
  <2>1. InRat /\ (Trying => Trying')
    BY <1>1, <1>9 DEF InRat, Trying
  <2>2. CASE Holds(db, a, Id)
    BY <1>1, <1>5, <2>2, SameHolds
  <2>3. CASE /\ OnTrail(a, forced)
             /\ \A d \in live : -rat.pivot \in db[d].lits =>
                     \/ d \in rat.todo
                     \/ Elsewhere(a, d)
                     \/ Trying /\ OnTrail(a, Len(trail))
    <3>1. OnTrail(a, forced)'
      BY <1>0, <1>1, <1>4, <2>3
    <3>2. \A d : Elsewhere(a, d) => Elsewhere(a, d)'
      BY <1>1 DEF Elsewhere
    <3> QED BY <1>1, <1>4, <2>1, <2>3, <3>1, <3>2
  <2> QED BY <2>1, <2>2, <2>3 DEF ModelOf
<1>10. pc' # "insert"
  BY <1>1
<1> QED BY <1>6, <1>7, <1>8, <1>9, <1>10 DEF ModelOf

\* A conflict, with everything on the trail true, cannot be.
LEMMA NoConflict ==
  ASSUME DratTypeOK, NEW a \in Assignments(Vars), \A c \in live : Holds(db, a, c),
         OnTrail(a, Len(trail)), Conflict, Shape
  PROVE  FALSE
<1>1. PICK c \in live : Open(c) = {}
  BY ConflictIs
<1>2. c \in DOMAIN db
  BY DEF DratTypeOK, TypeDb
<1> QED BY <1>1, <1>2, ForcedTrue

LEMMA KeptTrue ==
  ASSUME DratTypeOK, NEW a, OnTrail(a, forced), trail' = Kept, forced' = forced
  PROVE  \A n : OnTrail(a, n)'
<1>1. trail \in Seq(Entries) /\ forced \in 0 .. Len(trail)
  BY TrailFacts
<1> QED BY <1>1, CutIn DEF OnTrail, Kept

LEMMA ConflictModel ==
  ASSUME DratTypeOK, Shape, TrailOK, Conflict, DratStep, Running', input.forward,
         NEW a \in Assignments(Vars), ModelOf(a)
  PROVE  ModelOf(a)'
<1>0. \A c \in live : Holds(db, a, c)
  BY DEF ModelOf
<1>1. /\ db' = db /\ steps' = steps /\ live' = live
      /\ forced' = forced /\ rat' = rat /\ goal' = goal /\ at' = at /\ trail' = Kept
      /\ \/ Checking /\ pc' = "insert"
         \/ Trying /\ pc' = "rat"
  BY ConflictIs DEF Running
<1>2. Trusted' = Trusted /\ Id' = Id
  BY <1>1, SameNames DEF Id
<1>3. Satisfies(a, Trusted)' /\ \A d \in live' : Holds(db, a, d)'
  BY <1>1, <1>2, SameHolds DEF ModelOf
<1>4. CASE Checking /\ pc' = "insert"
  <2>1. Holds(db, a, Id) /\ OnTrail(a, forced)
    <3>1. Base = forced /\ ~Joining
      BY <1>4 DEF Base, Starting, Checking, InRat, Trying, Joining
    <3> QED BY <1>0, <1>4, <3>1, NoConflict DEF ModelOf
  <2>2. ~Joining' /\ ~Checking' /\ ~InRat'
    BY <1>4 DEF Joining, Checking, InRat, Trying
  <2>3. OnTrail(a, IF Joining THEN Len(trail) ELSE Base)' /\ Holds(db, a, Id)'
    BY <1>1, <1>2, <2>1, KeptTrue, SameHolds
  <2> QED BY <1>3, <2>2, <2>3 DEF ModelOf
<1>5. CASE Trying /\ pc' = "rat"
  <2>1. OnTrail(a, Base) /\ Base = rat.base /\ InRat
    BY <1>5 DEF ModelOf, Base, Starting, Trying, InRat, Joining
  <2>2. OnTrail(a, rat.base)'
    <3>1. trail \in Seq(Entries) /\ forced \in 0 .. Len(trail)
      BY TrailFacts
    <3> QED BY <1>1, <2>1, <3>1, CutIn DEF OnTrail, Kept
  <2>3. ~Joining' /\ Base' = rat'.base /\ ~Checking' /\ InRat'
    BY <1>5 DEF Joining, Base, Starting, Checking, Trying, InRat
  <2>4. OnTrail(a, IF Joining THEN Len(trail) ELSE Base)'
    BY <1>1, <2>2, <2>3
  <2>5. \/ Holds(db, a, Id)'
        \/ /\ OnTrail(a, forced)'
           /\ \A d \in live' : -rat'.pivot \in db'[d].lits => d \in rat'.todo \/ Elsewhere(a, d)'
    <3>1. CASE Holds(db, a, Id)
      BY <1>1, <1>2, <3>1, SameHolds
    <3>2. CASE /\ OnTrail(a, forced)
               /\ \A d \in live : -rat.pivot \in db[d].lits =>
                     \/ d \in rat.todo
                     \/ Elsewhere(a, d)
                     \/ Trying /\ OnTrail(a, Len(trail))
      <4>1. OnTrail(a, forced)'
        BY <1>1, <3>2, KeptTrue
      <4>2. \A d : Elsewhere(a, d) => Elsewhere(a, d)'
        BY <1>1 DEF Elsewhere
      <4>3. ~OnTrail(a, Len(trail))
        BY <1>0, NoConflict
      <4> QED BY <1>1, <3>2, <4>1, <4>2, <4>3
    <3> QED BY <2>1, <3>1, <3>2 DEF ModelOf
  <2>6. pc' # "insert"
    BY <1>5
  <2> QED BY <1>3, <2>3, <2>4, <2>5, <2>6 DEF ModelOf
<1> QED BY <1>1, <1>4, <1>5

\* Between two lemmas only the clauses and what is not undone matter.
LEMMA RestModel ==
  ASSUME NEW a, pc' \in {"forward", "insert"}, Satisfies(a, Trusted)',
         \A c \in live' : Holds(db, a, c)', OnTrail(a, forced)', pc' = "insert" => Holds(db, a, Id)'
  PROVE  ModelOf(a)'
<1>1. ~Joining' /\ ~Checking' /\ ~InRat' /\ ~Starting'
  BY DEF Joining, Checking, InRat, Trying, Starting
<1>2. Base' = forced'
  BY <1>1 DEF Base
<1> QED BY <1>1, <1>2 DEF ModelOf

LEMMA SameTrue ==
  ASSUME trail' = trail, NEW a, NEW n, OnTrail(a, n)
  PROVE  OnTrail(a, n)'
BY DEF OnTrail

LEMMA TrustedSame ==
  ASSUME DratStep, NEW a, Satisfies(a, Trusted)
  PROVE  Satisfies(a, Trusted)'
BY SameNames

LEMMA PassModel ==
  ASSUME DratTypeOK, Shape, EndOfUnits \/ DeleteStep \/ SkipSatisfied, DratStep, NEW a, ModelOf(a)
  PROVE  ModelOf(a)'
<1>1. Satisfies(a, Trusted)'
  BY TrustedSame DEF ModelOf
<1>2. CASE EndOfUnits
  <2>1. /\ pc = "propagate" /\ goal \in {"init", "lemma"} /\ forced' = Len(trail) /\ trail' = trail
        /\ pc' = "forward" /\ db' = db /\ live' = live
    BY <1>2, Zenon DEF EndOfUnits, Fixpoint, GoTo
  <2>2. Joining \/ Starting
    BY <2>1 DEF Joining, Starting
  <2>3. OnTrail(a, Len(trail))
    BY <2>2 DEF ModelOf, Base
  <2>4. OnTrail(a, forced)'
    BY <2>1, <2>3 DEF OnTrail
  <2> QED BY <1>1, <2>1, <2>4, RestModel, SameHolds DEF ModelOf
<1>3. CASE DeleteStep \/ SkipSatisfied
  <2>1. /\ pc = "forward" /\ pc' = pc /\ forced' = forced /\ trail' = trail /\ db' = db
        /\ live' \subseteq live
    BY <1>3, DeletingIs, SkippingIs
  <2>2. Base = forced /\ ~Joining
    BY <2>1 DEF Base, Starting, InRat, Trying, Joining
  <2>3. OnTrail(a, forced)
    BY <2>2 DEF ModelOf
  <2>4. OnTrail(a, forced)'
    BY <2>1, <2>3, SameTrue
  <2> QED BY <1>1, <2>1, <2>4, RestModel, SameHolds DEF ModelOf
<1> QED BY <1>2, <1>3

LEMMA CheckForwardModel ==
  ASSUME DratTypeOK, Shape, StepsOK, CheckForward, DratStep, Running', NEW a \in Assignments(Vars), ModelOf(a)
  PROVE  ModelOf(a)'
<1>1. /\ pc = "forward" /\ at \in DOMAIN steps /\ steps[at].op = "add" /\ forced = Len(trail)
      /\ db' = db /\ steps' = steps /\ live' = live /\ at' = at /\ forced' = forced
  BY CheckForwardIs
<1>2. Satisfies(a, Trusted)' /\ Satisfies(a, Trusted) /\ Id' = Id /\ db[Id].lits \subseteq Lits
      /\ Id \in DOMAIN db
  BY <1>1, TrustedSame, StepIs DEF ModelOf, Id, DratTypeOK
<1>3. OnTrail(a, forced) /\ \A c \in live' : Holds(db, a, c)'
  <2>1. Base = forced /\ ~Joining
    BY <1>1 DEF Base, Starting, InRat, Trying, Joining
  <2> QED BY <1>1, <2>1, SameHolds DEF ModelOf
<1>4. CASE pc' = "insert" /\ trail' = trail /\ (steps[at].skip \/ Inconsistent(db[Id].lits))
  <2>1. Holds(db, a, Id)
    <3>1. CASE steps[at].skip
      <4>1. db[Id].lits \in Trusted
        BY <1>1, <3>1 DEF StepsOK, AddsOK, Id
      <4> QED BY <1>2, <4>1 DEF Satisfies, Holds
    <3>2. CASE Inconsistent(db[Id].lits)
      <4>1. PICK l \in db[Id].lits : -l \in db[Id].lits
        BY <3>2 DEF Inconsistent
      <4>2. l \in a \/ -l \in a
        BY <1>2, <4>1, AssignmentIs
      <4> QED BY <4>1, <4>2 DEF Holds
    <3> QED BY <1>4, <3>1, <3>2
  <2> QED BY <1>1, <1>2, <1>3, <1>4, <2>1, RestModel, SameHolds, SameTrue
<1>5. CASE pc' = "propagate" /\ goal' = "check" /\ trail' = trail \o Assume(Open(Id))
  <2>1. ~Joining' /\ Checking' /\ ~InRat' /\ ~Starting' /\ Base' = forced'
    BY <1>5 DEF Joining, Checking, InRat, Trying, Starting, Base
  <2>2. Open(Id) \in SUBSET Lits /\ Open(Id) \subseteq db[Id].lits
    BY <1>2, OpenIs DEF DratTypeOK
  <2>3. trail \in Seq(Entries) /\ Assume(Open(Id)) \in Seq(Entries) /\ forced \in Nat
    BY <2>2, TrailFacts, AssumeIs
  <2>4. OnTrail(a, forced)'
    BY <1>1, <1>3, <1>5, <2>3, ConcatIn DEF OnTrail
  <2>5. ASSUME ~Holds(db, a, Id)  PROVE \A n : OnTrail(a, n)'
    <3>1. Open(Id) \cap a = {}
      BY <2>2, <2>5 DEF Holds
    <3>2. \A k \in DOMAIN Assume(Open(Id)) : Assume(Open(Id))[k].lit \in a
      BY <2>2, <3>1, AssumedTrue
    <3> QED BY <1>1, <1>3, <1>5, <2>3, <3>2, ConcatIn DEF OnTrail
  <2>6. Holds(db, a, Id)' \/ OnTrail(a, Len(trail))'
    BY <1>1, <1>2, <2>5, SameHolds
  <2> QED BY <1>1, <1>2, <1>3, <1>5, <2>1, <2>4, <2>6 DEF ModelOf
<1>6. pc' # "done"
  BY DEF Running
<1> QED BY <1>4, <1>5, <1>6, CheckForwardIs

LEMMA InsertModel ==
  ASSUME DratTypeOK, Shape, Insert, DratStep, Running', input.forward, NEW a \in Assignments(Vars), ModelOf(a)
  PROVE  ModelOf(a)'
<1>1. /\ pc = "insert" /\ at \in DOMAIN steps /\ forced = Len(trail)
      /\ db' = db /\ steps' = steps /\ live' \subseteq live \cup {Id} /\ forced' = forced
  BY InsertIs
<1>2. Satisfies(a, Trusted)' /\ Id \in DOMAIN db /\ Holds(db, a, Id)
  BY <1>1, TrustedSame, StepIs DEF ModelOf, Id, DratTypeOK
<1>3. OnTrail(a, forced) /\ \A c \in live' : Holds(db, a, c)'
  <2>1. Base = forced /\ ~Joining
    BY <1>1 DEF Base, Starting, InRat, Trying, Joining
  <2> QED BY <1>1, <1>2, <2>1, SameHolds DEF ModelOf
<1>4. CASE pc' = "forward" /\ trail' = trail
  BY <1>1, <1>2, <1>3, <1>4, RestModel, SameTrue
<1>5. CASE /\ pc' = "propagate" /\ goal' = "lemma"
           /\ \E l \in Lits : Open(Id) = {l} /\ trail' = Append(trail, [lit |-> l, reason |-> Id])
  <2>1. Joining' /\ ~Checking' /\ ~InRat' /\ ~Starting' /\ pc' # "insert"
    BY <1>5 DEF Joining, Checking, InRat, Trying, Starting
  <2>2. PICK l \in Lits : Open(Id) = {l} /\ trail' = Append(trail, [lit |-> l, reason |-> Id])
    BY <1>5
  <2>3. \A m : OnTrail(a, m)'
    BY <1>1, <1>2, <1>3, <2>2, PropagateTrue
  <2> QED BY <1>2, <1>3, <2>1, <2>3 DEF ModelOf
<1>6. pc' # "done"
  BY DEF Running
<1> QED BY <1>4, <1>5, <1>6, InsertIs

LEMMA StartRatModel ==
  ASSUME DratTypeOK, Shape, StartRat, DratStep, Running', input.forward, NEW a, ModelOf(a)
  PROVE  ModelOf(a)'
<1>1. /\ Checking /\ db' = db /\ steps' = steps /\ at' = at /\ live' = live /\ trail' = trail
      /\ pc' = "rat" /\ forced' = Len(trail) /\ input' = input
  BY StartRatIs, InputSame DEF Running
<1>2. rat'.pivot = db[Id].pivot /\ rat'.todo = Candidates(db[Id].pivot) /\ rat'.base = forced
  <2>1. \E A : rat' = [pivot |-> db[Id].pivot, todo |-> Candidates(db[Id].pivot), untried |-> A, base |-> forced]
    BY <1>1, StartRatIs
  <2>2. PICK A : rat' = [pivot |-> db[Id].pivot, todo |-> Candidates(db[Id].pivot), untried |-> A, base |-> forced]
    BY <2>1
  <2> QED BY <2>2
<1>3. Satisfies(a, Trusted)' /\ Id' = Id
  BY <1>1, TrustedSame DEF ModelOf, Id
<1>4. ~Joining' /\ ~Checking' /\ InRat' /\ Base' = rat'.base /\ pc' # "insert"
  BY <1>1 DEF Joining, Checking, InRat, Base, Starting
<1>5. Base = forced /\ ~Joining
  BY <1>1 DEF Base, Checking, Starting, InRat, Trying, Joining
<1>6. OnTrail(a, forced) /\ \A c \in live' : Holds(db, a, c)'
  BY <1>1, <1>5, SameHolds DEF ModelOf
<1>7. OnTrail(a, IF Joining THEN Len(trail) ELSE Base)'
  <2>1. \A n : OnTrail(a, n) => OnTrail(a, n)'
    BY <1>1, SameTrue
  <2> QED BY <1>2, <1>4, <1>6, <2>1
<1>8. Holds(db, a, Id)' \/ OnTrail(a, forced)'
  <2>1. Holds(db, a, Id) \/ OnTrail(a, Len(trail))
    BY <1>1 DEF ModelOf
  <2>2. OnTrail(a, Len(trail)) => OnTrail(a, forced)'
    BY <1>1 DEF OnTrail
  <2> QED BY <1>1, <1>3, <2>1, <2>2, SameHolds
<1>9. \A c \in live' : -rat'.pivot \in db'[c].lits => c \in rat'.todo
  BY <1>1, <1>2 DEF Candidates
<1> QED BY <1>3, <1>4, <1>6, <1>7, <1>8, <1>9 DEF ModelOf

LEMMA RatFailsModel ==
  ASSUME DratTypeOK, Shape, TrailOK, RatFails, DratStep, Running', input.forward, NEW a, ModelOf(a)
  PROVE  ModelOf(a)'
<1>1. /\ Trying /\ db' = db /\ steps' = steps /\ at' = at /\ live' = live /\ trail' = Kept
      /\ pc' = "rat" /\ forced' = forced
  BY RatFailsIs DEF Running
<1>2. PICK p \in rat.untried :
                    rat' = [rat EXCEPT !.pivot = p, !.todo = Candidates(p), !.untried = rat.untried \ {p}]
  BY RatFailsIs DEF Running
<1>3. rat'.pivot = p /\ rat'.todo = Candidates(p) /\ rat'.base = rat.base
  BY <1>2 DEF DratTypeOK, TypeRat
<1>4. Satisfies(a, Trusted)' /\ Id' = Id
  BY <1>1, TrustedSame DEF ModelOf, Id
<1>5. ~Joining' /\ ~Checking' /\ InRat' /\ Base' = rat'.base /\ pc' # "insert"
  BY <1>1 DEF Joining, Checking, InRat, Base, Starting
<1>6. OnTrail(a, Base) /\ Base = rat.base /\ InRat
  BY <1>1 DEF ModelOf, Base, Starting, Trying, InRat, Joining
<1>7. OnTrail(a, IF Joining THEN Len(trail) ELSE Base)'
  <2>1. trail \in Seq(Entries) /\ forced \in 0 .. Len(trail)
    BY TrailFacts
  <2>2. OnTrail(a, rat.base)
    BY <1>6
  <2>3. AllIn(SubSeq(trail, 1, forced), a, rat.base)
    BY <2>1, <2>2, CutIn DEF OnTrail
  <2>4. OnTrail(a, rat.base)'
    BY <1>1, <1>3, <2>3 DEF OnTrail, Kept
  <2> QED BY <1>3, <1>5, <2>4
<1>8. Holds(db, a, Id)' \/ OnTrail(a, forced)'
  <2>1. Holds(db, a, Id) \/ OnTrail(a, forced)
    BY <1>6 DEF ModelOf
  <2>2. OnTrail(a, forced) => OnTrail(a, forced)'
    BY <1>1, KeptTrue
  <2> QED BY <1>1, <1>4, <2>1, <2>2, SameHolds
<1>9. \A c \in live' : Holds(db, a, c)' /\ (-rat'.pivot \in db'[c].lits => c \in rat'.todo)
  BY <1>1, <1>3, SameHolds DEF Candidates, ModelOf
<1> QED BY <1>4, <1>5, <1>7, <1>8, <1>9 DEF ModelOf

LEMMA RatCandidateModel ==
  ASSUME DratTypeOK, Shape, TrailOK, RatCandidate, DratStep, input.forward,
         NEW a \in Assignments(Vars), ModelOf(a)
  PROVE  ModelOf(a)'
<1>1. /\ pc = "rat" /\ db' = db /\ steps' = steps /\ at' = at /\ live' = live
      /\ forced' = forced /\ forced = Len(trail) /\ at \in DOMAIN steps
  BY RatCandidateIs DEF Shape, InRat
<1>2. PICK c \in rat.todo :
              /\ rat' = [rat EXCEPT !.todo = rat.todo \ {c}]
              /\ \/ /\ \A k \in DOMAIN trail : trail[k].lit \notin db[c].lits \ {-rat.pivot}
                    /\ pc' = "propagate" /\ goal' = "rat" /\ marked' = marked
                    /\ trail' = trail \o Assume(Open(c) \ {-rat.pivot})
                 \/ /\ pc' = "rat" /\ goal' = goal
                    /\ \E k \in DOMAIN trail, S \in SUBSET DOMAIN trail :
                         /\ trail[k].lit \in db[c].lits \ {-rat.pivot}
                         /\ trail' = Unreasoned(trail, S)
  BY RatCandidateIs
<1>3. rat'.pivot = rat.pivot /\ rat'.todo = rat.todo \ {c} /\ rat'.base = rat.base
  BY <1>2 DEF DratTypeOK, TypeRat
<1>4. Satisfies(a, Trusted)' /\ Id' = Id /\ c \in DOMAIN db
  BY <1>1, TrustedSame DEF ModelOf, Id, DratTypeOK, TypeRat
<1>5. ~Joining' /\ ~Checking' /\ InRat' /\ Base' = rat'.base /\ pc' # "insert"
  BY <1>2 DEF Joining, Checking, InRat, Trying, Base, Starting
<1>6. OnTrail(a, rat.base) /\ InRat /\ ~Trying
  BY <1>1 DEF ModelOf, Base, Starting, Trying, InRat, Joining
<1>7. /\ trail \in Seq(Entries) /\ rat.base \in Nat /\ rat.base <= Len(trail) /\ Len(trail) \in Nat
      /\ DOMAIN trail = 1 .. Len(trail)
  BY <1>1, <1>6, TrailFacts DEF TrailOK, DratTypeOK, TypeRat
<1>8. Open(c) \ {-rat.pivot} \in SUBSET Lits /\ Open(c) \subseteq db[c].lits
  BY <1>4, OpenIs DEF DratTypeOK
<1>9. Assume(Open(c) \ {-rat.pivot}) \in Seq(Entries)
  BY <1>8, AssumeIs
<1>10. \A n \in Nat : n <= Len(trail) /\ OnTrail(a, n) => OnTrail(a, n)'
  <2>1. ASSUME NEW n \in Nat, n <= Len(trail), OnTrail(a, n)  PROVE OnTrail(a, n)'
    <3>1. CASE trail' = trail \o Assume(Open(c) \ {-rat.pivot})
      BY <1>7, <1>9, <2>1, <3>1, ConcatIn DEF OnTrail
    <3>2. CASE \E S : trail' = Unreasoned(trail, S)
      BY <1>7, <2>1, <3>2, UnreasonedIn DEF OnTrail
    <3> QED BY <1>2, <3>1, <3>2
  <2> QED BY <2>1
<1>11. OnTrail(a, IF Joining THEN Len(trail) ELSE Base)'
  BY <1>3, <1>5, <1>6, <1>7, <1>10
<1>12. \A d \in live' : Holds(db, a, d)'
  BY <1>1, SameHolds DEF ModelOf
<1>13. \A d : Elsewhere(a, d) => Elsewhere(a, d)'
  BY <1>1, <1>3 DEF Elsewhere
<1>14. ASSUME OnTrail(a, forced)
       PROVE  Elsewhere(a, c) \/ (Trying' /\ OnTrail(a, Len(trail))')
  <2>1. CASE \E k \in DOMAIN trail : trail[k].lit \in db[c].lits \ {-rat.pivot}
    <3>1. PICK k \in DOMAIN trail : trail[k].lit \in db[c].lits \ {-rat.pivot}
      BY <2>1
    <3>2. trail[k].lit \in a
      BY <1>1, <1>7, <1>14, <3>1 DEF OnTrail, AllIn
    <3> QED BY <3>1, <3>2 DEF Elsewhere
  <2>2. CASE pc' = "propagate" /\ goal' = "rat" /\ trail' = trail \o Assume(Open(c) \ {-rat.pivot})
    <3>1. CASE Elsewhere(a, c)
      BY <3>1
    <3>2. CASE ~Elsewhere(a, c)
      <4>1. (Open(c) \ {-rat.pivot}) \cap a = {}
        BY <1>8, <3>2 DEF Elsewhere
      <4> DEFINE s == Assume(Open(c) \ {-rat.pivot})
      <4>2. \A k \in DOMAIN s : s[k].lit \in a
        BY <1>8, <4>1, AssumedTrue
      <4>3. s \in Seq(Entries) /\ trail' = trail \o s
        BY <1>9, <2>2
      <4> HIDE DEF s
      <4>4. \A m : AllIn(trail \o s, a, m)
        BY <1>1, <1>7, <1>14, <4>2, <4>3, ConcatIn DEF OnTrail
      <4>5. OnTrail(a, Len(trail))'
        BY <4>3, <4>4 DEF OnTrail
      <4> QED BY <2>2, <4>5 DEF Trying
    <3> QED BY <3>1, <3>2
  <2> QED BY <1>2, <2>1, <2>2
<1>15. \/ Holds(db, a, Id)'
       \/ /\ OnTrail(a, forced)'
          /\ \A d \in live' : -rat'.pivot \in db'[d].lits =>
               \/ d \in rat'.todo
               \/ Elsewhere(a, d)'
               \/ Trying' /\ OnTrail(a, Len(trail))'
  <2>1. CASE Holds(db, a, Id)
    BY <1>1, <1>4, <2>1, SameHolds
  <2>2. CASE /\ OnTrail(a, forced)
             /\ \A d \in live : -rat.pivot \in db[d].lits => d \in rat.todo \/ Elsewhere(a, d)
    <3>1. OnTrail(a, forced)'
      BY <1>1, <1>7, <1>10, <2>2
    <3> QED BY <1>1, <1>3, <1>13, <1>14, <2>2, <3>1
  <2> QED BY <1>6, <2>1, <2>2 DEF ModelOf
<1> QED BY <1>4, <1>5, <1>11, <1>12, <1>15 DEF ModelOf

\* After a RAT check the model may have to be another one: with the pivot turned.
LEMMA RatHoldsModel ==
  ASSUME DratTypeOK, Shape, TrailOK, RatHolds, DratStep, input.forward, Gate',
         NEW a \in Assignments(Vars), ModelOf(a)
  PROVE  \E b \in Assignments(Vars) : ModelOf(b)'
<1>1. /\ pc = "rat" /\ rat.todo = {} /\ db' = db /\ steps' = steps /\ live' = live
      /\ usedRat' = TRUE /\ forced' = rat.base /\ trail' = SubSeq(trail, 1, rat.base)
      /\ pc' = "insert" /\ at' = at
  BY RatHoldsIs
<1>2. Trusted = {} /\ Trusted' = {} /\ Id' = Id
  BY <1>1, SameNames DEF Gate, Id
<1>3. OnTrail(a, rat.base) /\ InRat /\ ~Trying /\ \A d \in live : Holds(db, a, d)
  BY <1>1 DEF ModelOf, Base, Starting, Trying, InRat, Joining
<1>4. trail \in Seq(Entries) /\ rat.base \in 0 .. Len(trail)
  BY <1>3, TrailFacts DEF TrailOK, DratTypeOK, TypeRat
<1>5. ASSUME NEW b \in Assignments(Vars), \A d \in live : Holds(db, b, d), Holds(db, b, Id),
             OnTrail(b, rat.base)
      PROVE  ModelOf(b)'
  <2>1. OnTrail(b, forced)'
    BY <1>1, <1>4, <1>5, CutIn DEF OnTrail
  <2>2. Satisfies(b, Trusted)'
    BY <1>2 DEF Satisfies
  <2> QED BY <1>1, <1>2, <1>5, <2>1, <2>2, RestModel, SameHolds
<1>6. CASE Holds(db, a, Id)
  BY <1>3, <1>5, <1>6
<1>7. CASE ~Holds(db, a, Id)
  <2>0. PICK p, b : p = rat.pivot /\ b = Flip(a, p)
    OBVIOUS
  <2>1. p \in db[Id].lits /\ \A j \in 1 .. rat.base : trail[j].lit # -p
    BY <1>3, <2>0 DEF TrailOK
  <2>2. p \in Lits /\ a \subseteq Lits
    <3>1. at \in DOMAIN steps
      BY <1>3 DEF Shape
    <3>2. db[Id].lits \subseteq Lits
      BY <3>1, StepIs DEF Id, DratTypeOK
    <3> QED BY <2>1, <3>2, AssignmentIs
  <2>3. b \in Assignments(Vars)
    BY <2>0, <2>2, FlipIs
  <2>4. p \in b /\ \A x \in a : x # -p => x \in b
    BY <2>0 DEF Flip
  <2>5. ASSUME NEW d \in live  PROVE Holds(db, b, d)
    <3>1. CASE -p \in db[d].lits
      <4>1. Elsewhere(a, d)
        BY <1>1, <1>3, <1>7, <2>0, <3>1 DEF ModelOf
      <4> QED BY <2>0, <2>4, <4>1 DEF Elsewhere, Holds
    <3>2. CASE -p \notin db[d].lits
      <4>1. PICK x \in db[d].lits : x \in a
        BY <1>3 DEF Holds
      <4> QED BY <2>4, <3>2, <4>1 DEF Holds
    <3> QED BY <3>1, <3>2
  <2>6. OnTrail(b, rat.base)
    <3>1. \A k \in DOMAIN trail : k <= rat.base => k \in 1 .. rat.base
      BY <1>4, TrailDomain
    <3> QED BY <1>3, <2>1, <2>4, <3>1 DEF OnTrail, AllIn
  <2>7. Holds(db, b, Id)
    BY <2>1, <2>4 DEF Holds
  <2>8. ModelOf(b)'
    BY <1>5, <2>3, <2>5, <2>6, <2>7
  <2> QED BY <2>3, <2>8
<1> QED BY <1>6, <1>7

LEMMA ForwardStep ==
  ASSUME DratTypeOK, Shape, TrailOK, StepsOK, Body, DratStep, input.forward, Running', Gate'
  PROVE  ForwardBody'
<1>0. Formula' = Formula /\ Trusted' = Trusted
  BY SameNames
<1>1. SUFFICES ASSUME Models(Formula \cup Trusted) # {}
               PROVE  \E a \in Assignments(Vars) : ModelOf(a)'
  BY <1>0 DEF ForwardBody
<1>2. CASE Initialise
  <2>1. PICK a \in Models(Formula \cup Trusted) : TRUE
    BY <1>1
  <2>2. a \in Assignments(Vars)
    BY DEF Models
  <2> QED BY <1>2, <2>2, InitialiseModel
<1>3. CASE ReadAddition \/ ReadDeletion
  BY <1>3, ReadIs, ReadDeletionIs DEF Running
<1>4. CASE ~(Initialise \/ ReadAddition \/ ReadDeletion)
  <2>1. Running
    BY <1>4 DEF Running, DratStep, PropagateUnit, Conflict, EndOfUnits, Fixpoint, DeleteStep, Deleting,
                SkipSatisfied, Adding, CheckForward, Insert, EndOfProof, Back, CheckBackward, AllChecked,
                StartRat, RatCandidate, RatHolds, RatFails
  <2>2. Gate
    BY <2>1, GateBack
  <2>3. PICK a \in Assignments(Vars) : ModelOf(a)
    BY <1>1, <2>1, <2>2 DEF Body, ForwardBody
  <2>4. ~(Back \/ CheckBackward \/ AllChecked)
    BY DEF Shape, Back, CheckBackward, AllChecked
  <2>5. ~EndOfProof
    BY DEF EndOfProof, Stop, Running
  <2> QED BY <1>4, <2>3, <2>4, <2>5, PropagateModel, ConflictModel, PassModel, CheckForwardModel, InsertModel,
             StartRatModel, RatCandidateModel, RatHoldsModel, RatFailsModel
          DEF DratStep
<1> QED BY <1>2, <1>3, <1>4

-----------------------------------------------------------------------------
(* Going back: what the literals follow from.                              *)

LEMMA LinksFrom ==
  ASSUME NEW h, NEW L, Linked(h, L)'
  PROVE  Links'
<1>1. h \in [DOMAIN trail' -> Nat] /\ L \in SUBSET DOMAIN trail'
  BY DEF Linked, Supported, Closed
<1> QED BY <1>1 DEF Links

\* What is pending once the next state is known.
LEMMA PendingAfter ==
  ASSUME steps' = steps, input' = input, NEW n
  PROVE  /\ n = Reach' => Pending(Reach)' = Pending(n)
         /\ n = at' - 1 => Pending(at - 1)' = Pending(n)
<1>0. FormulaIds' = FormulaIds
  BY DEF FormulaIds
<1>1. ASSUME n = Reach'  PROVE Pending(Reach)' = Pending(n)
  BY <1>0, <1>1, Zenon DEF Pending, AddsBefore
<1>2. ASSUME n = at' - 1  PROVE Pending(at - 1)' = Pending(n)
  BY <1>0, <1>2, Zenon DEF Pending, AddsBefore
<1> QED BY <1>1, <1>2

LEMMA BaseNat ==
  ASSUME DratTypeOK, Shape, TrailOK, DratStep
  PROVE  Base' \in Nat /\ Base \in Nat /\ Base <= Len(trail) /\ (~Starting => Base <= forced)
<1>1. TypeTrail' /\ TypeRat' /\ TypeTrail /\ TypeRat
  BY TypeTrailStep, TypeRatStep DEF DratTypeOK
<1>2. Len(trail') \in Nat /\ Len(trail) \in Nat
  BY <1>1, LenProperties DEF TypeTrail
<1>3. forced' \in Nat /\ forced \in Nat /\ forced <= Len(trail) /\ rat'.base \in Nat /\ rat.base \in Nat
  BY <1>1, <1>2 DEF TypeTrail, TypeRat
<1>4. InRat => rat.base <= forced
  BY DEF TrailOK
<1> QED BY <1>2, <1>3, <1>4 DEF Base

\* The trail is cut back to n, or stays.
LEMMA CutLinked ==
  ASSUME DratTypeOK, NEW g, NEW K, Linked(g, K), NEW n \in 0 .. Len(trail),
         trail' = SubSeq(trail, 1, n), db' = db, marked \subseteq marked', FormulaIds' = FormulaIds,
         ~Joining', InRat' => Id' = Id,
         \A q \in 1 .. n : g[q] # 0 => g[q] \in Available',
         \A q \in 1 .. n : g[q] = 0 =>
            /\ q > Base' /\ (Checking' \/ InRat')
            /\ InRat' /\ q <= forced' => -trail[q].lit \in db[Id].lits,
         \A q \in 1 .. n : trail[q].reason = 0 /\ g[q] # 0 => usedRat' \/ InRat',
         NEW b \in Nat, b <= n, b <= Base', Base' \in Int, NEW W, W = Pending(at - 1)',
         \A u \in W : Lone(db, u) => Early(trail, g, b, u),
         NEW R, R = Pending(Reach)',
         \A u \in R \ FormulaIds : Lone(db, u) => u \in Pending(Reach)
  PROVE  Links'
<1>0. trail \in Seq(Entries) /\ DOMAIN trail = 1 .. Len(trail) /\ Len(trail) \in Nat
  BY TrailFacts
<1>1. PICK h, L, A : h = Cut(g, n) /\ L = K \cap (1 .. n) /\ A = Available'
  OBVIOUS
<1>2. /\ DOMAIN trail' = 1 .. n
      /\ \A q \in 1 .. n : q \in DOMAIN trail /\ trail'[q] = trail[q] /\ h[q] = g[q]
  BY <1>0, <1>1, CutIs DEF Cut
<1>3. Supported(db, trail', h, A) /\ Closed(db, trail', h, L, marked')
  <2>1. \A q \in 1 .. n : g[q] # 0 => g[q] \in A
    BY <1>1
  <2>2. Supported(db, trail, g, Available) /\ Closed(db, trail, g, K, marked)
    BY DEF Linked
  <2> QED BY <1>0, <1>1, <2>1, <2>2, CutLinks
<1>4. Grounded(h)'
  BY <1>2 DEF Grounded, Id
<1>5. Resets(h)'
  BY <1>2 DEF Resets
<1>6. UnitsOn(h)'
  <2>1. ASSUME NEW u \in W, Lone(db, u)  PROVE Early(trail', h, Base', u)
    <3>1. PICK q \in DOMAIN trail : q <= b /\ trail[q].lit \in db[u].lits
                     /\ \A j \in 1 .. q : g[j] \in FormulaIds \/ g[j] <= u
      BY <2>1 DEF Early
    <3>2. q \in 1 .. n /\ q <= Base' /\ 1 .. q \subseteq 1 .. n
      <4>1. q \in Int /\ q >= 1 /\ n \in Int
        BY <1>0
      <4> QED BY <3>1, <4>1
    <3> QED BY <1>2, <3>1, <3>2 DEF Early
  <2> QED BY <2>1 DEF UnitsOn, Early
<1>7. UnitsOwn(h)'
  BY <1>2 DEF UnitsOwn, Linked
<1>8. UnitJoins(h)'
  BY DEF UnitJoins
<1>9. Linked(h, L)'
  BY <1>1, <1>3, <1>4, <1>5, <1>6, <1>7, <1>8 DEF Linked
<1> QED BY <1>9, LinksFrom

\* A literal joins the trail, with the clause that has it left.
LEMMA AppendLinked ==
  ASSUME DratTypeOK, NEW g, NEW K, Linked(g, K), NEW A, A = Available', Available \subseteq A,
         NEW c \in A, c \in Nat \ {0}, NEW l \in db[c].lits, l \in Lits,
         \A x \in db[c].lits \ {l} : \E j \in DOMAIN trail : trail[j].lit = -x,
         trail' = Append(trail, [lit |-> l, reason |-> c]),
         db' = db, marked' = marked, FormulaIds' = FormulaIds, Id' = Id,
         \A q \in DOMAIN trail : g[q] = 0 =>
            /\ q > Base' /\ (Checking' \/ InRat')
            /\ InRat' /\ q <= forced' => -trail[q].lit \in db[Id].lits,
         \A q \in DOMAIN trail : trail[q].reason = 0 /\ g[q] # 0 => usedRat' \/ InRat',
         NEW b \in Nat, b <= Len(trail), b <= Base', Base' \in Int, NEW W, W = Pending(at - 1)',
         \A u \in W : Lone(db, u) => Early(trail, g, b, u),
         Joining' /\ Lone(db, Id) => \/ Early(trail, g, Len(trail), Id)
                                     \/ (c = Id /\ \A j \in DOMAIN trail : g[j] \in FormulaIds \/ g[j] <= Id),
         NEW R, R = Pending(Reach)',
         \A u \in R \ FormulaIds : Lone(db, u) =>
           /\ l \in db[u].lits => u = c
           /\ \A q \in DOMAIN trail : trail[q].lit \in db[u].lits => g[q] = u
  PROVE  Links'
<1>0. trail \in Seq(Entries) /\ DOMAIN trail = 1 .. Len(trail) /\ Len(trail) \in Nat
  BY TrailFacts
<1>1. PICK h, m, e : h = Ext(g, Len(trail), 1, c) /\ m = Len(trail) + 1 /\ e = [lit |-> l, reason |-> c]
  OBVIOUS
<1>1a. e \in Entries /\ e.lit = l /\ e.reason = c
  BY <1>1 DEF Entries
<1>2. /\ DOMAIN trail' = 1 .. m /\ m \in DOMAIN trail' /\ trail'[m] = e /\ Len(trail') = m
      /\ \A q \in DOMAIN trail : q \in DOMAIN trail' /\ trail'[q] = trail[q]
      /\ \A q \in DOMAIN trail' : q \in DOMAIN trail \/ q = m
  <2>1. trail' = Append(trail, e)
    BY <1>1
  <2>2. /\ Len(Append(trail, e)) = Len(trail) + 1
        /\ DOMAIN Append(trail, e) = 1 .. (Len(trail) + 1)
        /\ \A q \in DOMAIN trail : Append(trail, e)[q] = trail[q]
        /\ Append(trail, e)[Len(trail) + 1] = e
    BY <1>0, <1>1a, ExtendIs
  <2> QED BY <1>0, <1>1, <2>1, <2>2
<1>3. h[m] = c /\ \A q \in DOMAIN trail : h[q] = g[q]
  BY <1>0, <1>1 DEF Ext
<1>4. Supported(db, trail', h, A) /\ Closed(db, trail', h, K, marked)
  <2>1. Supported(db, trail, g, A) /\ Closed(db, trail, g, K, marked)
    BY MoreLinks DEF Linked
  <2> QED BY <1>0, <1>1, <2>1, AppendLinks
<1>5. Grounded(h)'
  <2>1. \A q \in DOMAIN trail' : h[q] = 0 => q \in DOMAIN trail
    BY <1>2, <1>3
  <2> QED BY <1>2, <1>3, <2>1 DEF Grounded
<1>6. Resets(h)'
  <2>1. \A q \in DOMAIN trail' : trail'[q].reason = 0 => q \in DOMAIN trail
    BY <1>1a, <1>2
  <2> QED BY <1>2, <1>3, <2>1 DEF Resets
<1>7. ASSUME NEW u, NEW n, Early(trail, g, n, u)
      PROVE  \E q \in DOMAIN trail' : q \in DOMAIN trail /\ q <= n /\ trail'[q].lit \in db[u].lits
                     /\ \A j \in 1 .. q : h[j] \in FormulaIds \/ h[j] <= u
  <2>1. PICK q \in DOMAIN trail : q <= n /\ trail[q].lit \in db[u].lits
                     /\ \A j \in 1 .. q : g[j] \in FormulaIds \/ g[j] <= u
    BY <1>7 DEF Early
  <2>2. \A j \in 1 .. q : j \in DOMAIN trail
    BY <1>0
  <2> QED BY <1>2, <1>3, <2>1, <2>2
<1>8. UnitsOn(h)'
  <2>1. ASSUME NEW u \in W, Lone(db, u)  PROVE Early(trail', h, Base', u)
    <3>1. PICK q \in DOMAIN trail' : q \in DOMAIN trail /\ q <= b /\ trail'[q].lit \in db[u].lits
                     /\ \A j \in 1 .. q : h[j] \in FormulaIds \/ h[j] <= u
      BY <1>7, <2>1
    <3>2. q <= Base'
      BY <1>0, <3>1
    <3> QED BY <3>1, <3>2 DEF Early
  <2> QED BY <2>1 DEF UnitsOn, Early
<1>9. UnitsOwn(h)'
  <2>1. ASSUME NEW u \in R \ FormulaIds, Lone(db, u), NEW q \in DOMAIN trail', trail'[q].lit \in db[u].lits
        PROVE  h[q] = u
    BY <1>1a, <1>2, <1>3, <2>1
  <2> QED BY <2>1 DEF UnitsOwn
<1>10. UnitJoins(h)'
  <2>1. ASSUME Joining', Lone(db, Id)  PROVE Early(trail', h, Len(trail'), Id)
    <3>1. CASE Early(trail, g, Len(trail), Id)
      <4>1. PICK q \in DOMAIN trail' : q \in DOMAIN trail /\ trail'[q].lit \in db[Id].lits
                     /\ \A j \in 1 .. q : h[j] \in FormulaIds \/ h[j] <= Id
        BY <1>7, <3>1
      <4>2. q <= Len(trail')
        BY <1>2, <4>1
      <4> QED BY <4>1, <4>2 DEF Early
    <3>2. CASE c = Id /\ \A j \in DOMAIN trail : g[j] \in FormulaIds \/ g[j] <= Id
      <4>1. \A j \in 1 .. m : h[j] \in FormulaIds \/ h[j] <= Id
        BY <1>2, <1>3, <3>2
      <4>2. m <= Len(trail') /\ trail'[m].lit \in db[Id].lits
        BY <1>0, <1>1, <1>1a, <1>2, <3>2
      <4> QED BY <1>2, <4>1, <4>2 DEF Early
    <3> QED BY <2>1, <3>1, <3>2
  <2> QED BY <2>1 DEF UnitJoins, Early
<1>11. Linked(h, K)'
  BY <1>4, <1>5, <1>6, <1>8, <1>9, <1>10 DEF Linked
<1> QED BY <1>11, LinksFrom

\* The trail is cut back to n, and literals are assumed.
LEMMA ConcatLinked ==
  ASSUME DratTypeOK, NEW g, NEW K, Linked(g, K), NEW n \in 0 .. Len(trail), NEW s \in Seq(Entries),
         trail' = SubSeq(trail, 1, n) \o s, \A k \in DOMAIN s : s[k].reason = 0,
         db' = db, marked' = marked, FormulaIds' = FormulaIds, ~Joining', Id' = Id,
         Checking' \/ InRat', n >= Base', InRat' => n >= forced',
         \A q \in 1 .. n : g[q] # 0 => g[q] \in Available',
         \A q \in 1 .. n : g[q] = 0 =>
            /\ q > Base'
            /\ InRat' /\ q <= forced' => -trail[q].lit \in db[Id].lits,
         \A q \in 1 .. n : trail[q].reason = 0 /\ g[q] # 0 => usedRat' \/ InRat',
         NEW b \in Nat, b <= n, b <= Base', Base' \in Int, forced' \in Int, NEW W, W = Pending(at - 1)',
         \A u \in W : Lone(db, u) => Early(trail, g, b, u),
         NEW R, R = Pending(Reach)',
         \A u \in R \ FormulaIds : Lone(db, u) =>
           u \in Pending(Reach) /\ \A k \in DOMAIN s : s[k].lit \notin db[u].lits
  PROVE  Links'
<1>0. trail \in Seq(Entries) /\ DOMAIN trail = 1 .. Len(trail) /\ Len(trail) \in Nat /\ n \in Nat
  BY TrailFacts
<1>1. PICK t, f, J, A : t = SubSeq(trail, 1, n) /\ f = Cut(g, n) /\ J = K \cap (1 .. n) /\ A = Available'
  OBVIOUS
<1>2. PICK h, L : h = Ext(f, n, Len(s), 0) /\ L = J \cup ((n + 1) .. (n + Len(s)))
  OBVIOUS
<1>3. /\ t \in Seq(Entries) /\ Len(t) = n /\ DOMAIN t = 1 .. n
      /\ \A q \in 1 .. n : q \in DOMAIN trail /\ t[q] = trail[q]
  BY <1>0, <1>1, CutIs
<1>4. Supported(db, t, f, A) /\ Closed(db, t, f, J, marked)
  <2>1. \A q \in 1 .. n : g[q] # 0 => g[q] \in A
    BY <1>1
  <2>2. Supported(db, trail, g, Available) /\ Closed(db, trail, g, K, marked)
    BY DEF Linked
  <2> QED BY <1>0, <1>1, <2>1, <2>2, CutLinks
<1>5. Supported(db, trail', h, A) /\ Closed(db, trail', h, L, marked')
  <2>1. trail' = t \o s
    BY <1>1
  <2>2. /\ Supported(db, t \o s, Ext(f, Len(t), Len(s), 0), A)
        /\ Closed(db, t \o s, Ext(f, Len(t), Len(s), 0), J \cup ((Len(t) + 1) .. (Len(t) + Len(s))), marked)
    BY <1>3, <1>4, ConcatLinks
  <2> QED BY <1>2, <1>3, <2>1, <2>2
<1>6. /\ \A q \in 1 .. n : q \in DOMAIN trail' /\ trail'[q] = trail[q] /\ h[q] = g[q]
      /\ \A q \in DOMAIN trail' : \/ q \in 1 .. n
                                  \/ q > n /\ h[q] = 0 /\ q - n \in DOMAIN s /\ trail'[q] = s[q - n]
  <2>1. /\ DOMAIN trail' = 1 .. (n + Len(s))
        /\ \A q \in DOMAIN t : trail'[q] = t[q]
        /\ \A q \in DOMAIN trail' : q > n => q - n \in DOMAIN s /\ trail'[q] = s[q - n]
    BY <1>1, <1>3, ConcatIs
  <2>2. Len(s) \in Nat
    BY TrailDomain
  <2>3. \A q \in 1 .. (n + Len(s)) : h[q] = IF q <= n THEN g[q] ELSE 0
    BY <1>0, <1>1, <1>2, <2>2 DEF Ext, Cut
  <2> QED BY <1>0, <1>3, <2>1, <2>2, <2>3
<1>7. Grounded(h)'
  <2>1. ASSUME NEW q \in DOMAIN trail', h[q] = 0
        PROVE  q > Base' /\ (InRat' /\ q <= forced' => -trail'[q].lit \in db[Id].lits)
    <3>1. CASE q \in 1 .. n
      BY <1>6, <2>1, <3>1
    <3>2. CASE q > n /\ q \in Int
      BY <1>0, <3>2
    <3>3. q \in Int
      BY <1>6, <1>5 DEF Supported, Closed
    <3> QED BY <1>6, <3>1, <3>2, <3>3
  <2> QED BY <2>1 DEF Grounded
<1>8. Resets(h)'
  BY <1>6 DEF Resets
<1>9. UnitsOn(h)'
  <2>1. ASSUME NEW u \in W, Lone(db, u)  PROVE Early(trail', h, Base', u)
    <3>1. PICK q \in DOMAIN trail : q <= b /\ trail[q].lit \in db[u].lits
                     /\ \A j \in 1 .. q : g[j] \in FormulaIds \/ g[j] <= u
      BY <2>1 DEF Early
    <3>2. q \in 1 .. n /\ q <= Base' /\ 1 .. q \subseteq 1 .. n
      BY <1>0, <3>1
    <3> QED BY <1>6, <3>1, <3>2 DEF Early
  <2> QED BY <2>1 DEF UnitsOn, Early
<1>10. UnitsOwn(h)'
  <2>1. ASSUME NEW u \in R \ FormulaIds, Lone(db, u), NEW q \in DOMAIN trail', trail'[q].lit \in db[u].lits
        PROVE  h[q] = u
    <3>1. q \in 1 .. n
      BY <1>6, <2>1
    <3> QED BY <1>3, <1>6, <2>1, <3>1 DEF Linked, UnitsOwn
  <2> QED BY <2>1 DEF UnitsOwn
<1>11. UnitJoins(h)'
  BY DEF UnitJoins
<1>12. Linked(h, L)'
  BY <1>1, <1>5, <1>7, <1>8, <1>9, <1>10, <1>11 DEF Linked
<1> QED BY <1>12, LinksFrom

LEMMA AvailableAfter ==
  ASSUME steps' = steps, input' = input, db' = db, NEW n, n = Reach'
  PROVE  Available' = live' \cup {u \in Pending(n) : Lone(db, u)}
<1>1. Pending(Reach)' = Pending(n)
  BY PendingAfter
<1> QED BY <1>1 DEF Available, Lone

LEMMA PendingIn ==
  ASSUME DratTypeOK, NEW n, NEW c \in Pending(n)
  PROVE  /\ c \in DOMAIN db /\ c \in Nat \ {0} /\ db[c].lits \subseteq Lits /\ IsFiniteSet(db[c].lits)
         /\ c \in FormulaIds \/ \E i \in AddsBefore(n) : c = steps[i].clause
<1>1. c \in DOMAIN db
  BY DEF DratTypeOK, TypeDb, TypeSteps, Pending, AddsBefore
<1>2. c \in Nat \ {0} /\ db[c].lits \subseteq Lits
  BY <1>1, DbIs DEF DratTypeOK
<1> QED BY <1>1, <1>2, LitsFinite DEF Pending

LEMMA LinkFacts ==
  ASSUME DratTypeOK, StepsOK, ~input.forward, Running, NEW g, NEW K, Linked(g, K)
  PROVE  /\ \A c \in Available : /\ c \in DOMAIN db /\ c \in Nat \ {0} /\ db[c].lits \subseteq Lits
                                 /\ c \in Pending(Reach)
         /\ InLits(db, Available)
         /\ \A q \in DOMAIN trail : /\ g[q] \in Nat /\ trail[q].reason \in {0, g[q]}
                                    /\ g[q] # 0 => g[q] \in Available /\ trail[q].lit \in db[g[q]].lits
         /\ Grounded(g) /\ Resets(g) /\ UnitsOn(g) /\ UnitJoins(g) /\ UnitsOwn(g)
         /\ Supported(db, trail, g, Available) /\ Closed(db, trail, g, K, marked)
<1>1. \A c \in Available : c \in Pending(Reach)
  BY DEF Available, StepsOK, LiveOK
<1>2. \A c \in Available : c \in DOMAIN db /\ c \in Nat \ {0} /\ db[c].lits \subseteq Lits
  BY <1>1, PendingIn
<1>3. InLits(db, Available)
  BY <1>2 DEF InLits
<1> QED BY <1>1, <1>2, <1>3 DEF Linked, Supported

\* The literal of a unit lemma is on the trail.
LEMMA UnitTrue ==
  ASSUME DratTypeOK, StepsOK, Shape, ~input.forward, pc \in {"propagate", "rat"}, NEW g, NEW K, Linked(g, K),
         NEW u \in Pending(Reach) \ FormulaIds, Lone(db, u)
  PROVE  db[u].lits \subseteq TrueLits
<1>1. IsFiniteSet(db[u].lits) /\ Cardinality(db[u].lits) = 1
  BY PendingIn DEF Lone
<1>2. \E q \in DOMAIN trail : trail[q].lit \in db[u].lits
  <2>1. CASE Starting
    <3>1. AddsBefore(0) = {}
      BY StepIs DEF AddsBefore, DratTypeOK
    <3>2. Reach = 0
      BY <2>1, ReachIs
    <3> QED BY <3>1, <3>2 DEF Pending
  <2>2. CASE Joining
    <3>1. at \in DOMAIN steps /\ Reach = at
      BY <2>2, ReachIs DEF Shape
    <3>2. u \in Pending(at - 1) \/ u = Id
      BY <3>1, PendingAt
    <3>3. CASE u \in Pending(at - 1)
      BY <3>3 DEF Linked, UnitsOn, Early
    <3>4. CASE u = Id
      BY <2>2, <3>4 DEF Linked, UnitJoins, Early
    <3> QED BY <3>2, <3>3, <3>4
  <2>3. CASE ~Starting /\ ~Joining
    <3>1. Reach = at - 1
      BY <2>3 DEF Reach
    <3> QED BY <3>1 DEF Linked, UnitsOn, Early
  <2> QED BY <2>1, <2>2, <2>3
<1>3. PICK q \in DOMAIN trail : trail[q].lit \in db[u].lits
  BY <1>2
<1>4. \A y \in db[u].lits : y = trail[q].lit
  BY <1>1, <1>3, Single
<1> QED BY <1>4 DEF TrueLits

LEMMA PropagateLinks ==
  ASSUME DratTypeOK, Shape, TrailOK, StepsOK, PropagateUnit, DratStep, ~input.forward,
         NEW g, NEW K, Linked(g, K)
  PROVE  Links'
<1>1. /\ db' = db /\ steps' = steps /\ at' = at /\ live' = live /\ marked' = marked
      /\ forced' = forced /\ pc' = pc /\ goal' = goal /\ rat' = rat /\ pc = "propagate"
      /\ usedRat' = usedRat /\ input' = input /\ FormulaIds' = FormulaIds /\ Id' = Id
  BY PropagateIs, InputSame, SameNames DEF Id
<1>2. PICK c \in live, l \in Lits : /\ ~Satisfied(c) /\ Open(c) = {l}
                                    /\ trail' = Append(trail, [lit |-> l, reason |-> c])
  BY PropagateIs
<1>3. Running /\ Checking' = Checking /\ InRat' = InRat /\ Joining' = Joining /\ Starting' = Starting
      /\ Reach' = Reach
  BY <1>1 DEF Running, Checking, InRat, Joining, Starting, Trying, Reach
<1>4. /\ \A e \in Available : e \in DOMAIN db /\ e \in Nat \ {0}
      /\ Grounded(g) /\ Resets(g) /\ UnitsOn(g) /\ UnitJoins(g) /\ UnitsOwn(g)
  BY <1>3, LinkFacts
<1>5. PICK A, W, R, m, k : /\ A = Available' /\ W = Pending(at - 1)' /\ R = Pending(Reach)'
                           /\ m = Reach /\ k = at - 1
  OBVIOUS
<1>6. W = Pending(at - 1) /\ R = Pending(Reach) /\ A = Available
  <2>1. W = Pending(k) /\ R = Pending(m) /\ A = live' \cup {u \in Pending(m) : Lone(db, u)}
    BY <1>1, <1>3, <1>5, PendingAfter, AvailableAfter
  <2> QED BY <1>1, <1>5, <2>1 DEF Available
<1>7. c \in A /\ c \in Nat \ {0} /\ c \in DOMAIN db
  BY <1>4, <1>6 DEF Available
<1>8. l \in db[c].lits /\ l \notin TrueLits /\ \A x \in db[c].lits \ {l} : \E j \in DOMAIN trail : trail[j].lit = -x
  <2>1. l \in Open(c) /\ \A x \in db[c].lits \ {l} : x \notin Open(c)
    BY <1>2
  <2> QED BY <1>2, <2>1 DEF Open, TrueLits, Satisfied
<1>9. Base' \in Nat /\ Base \in Nat /\ Base <= Len(trail) /\ Base <= Base'
  <2>1. Base' \in Nat /\ Base \in Nat /\ Base <= Len(trail)
    BY BaseNat
  <2>2. Base <= Base'
    <3>1. CASE Starting
      <4>1. [lit |-> l, reason |-> c] \in Entries
        BY <1>7 DEF Entries
      <4>2. Len(trail') = Len(trail) + 1 /\ Len(trail) \in Nat
        BY <1>2, <4>1, TrailFacts, ExtendIs
      <4> QED BY <1>3, <3>1, <4>2 DEF Base
    <3>2. CASE ~Starting
      <4>1. Base' = Base
        BY <1>1, <1>3, <3>2 DEF Base
      <4> QED BY <2>1, <4>1
    <3> QED BY <3>1, <3>2
  <2> QED BY <2>1, <2>2
<1>10. ASSUME NEW q \in DOMAIN trail, g[q] = 0
       PROVE /\ q > Base' /\ (Checking' \/ InRat')
             /\ InRat' /\ q <= forced' => -trail[q].lit \in db[Id].lits
  <2>1. ~Starting
    BY <1>4, <1>10 DEF Grounded, Starting, Checking, InRat, Trying
  <2>2. Base' = Base
    BY <1>1, <1>3, <2>1 DEF Base
  <2> QED BY <1>1, <1>3, <1>4, <1>10, <2>2 DEF Grounded
<1>11. \A q \in DOMAIN trail : trail[q].reason = 0 /\ g[q] # 0 => usedRat' \/ InRat'
  BY <1>1, <1>3, <1>4 DEF Resets
<1>12. \A u \in W : Lone(db, u) => Early(trail, g, Base, u)
  BY <1>4, <1>6 DEF UnitsOn
<1>13. Joining' /\ Lone(db, Id) => Early(trail, g, Len(trail), Id)
  BY <1>3, <1>4 DEF UnitJoins
<1>14. ASSUME NEW u \in R \ FormulaIds, Lone(db, u)
       PROVE  /\ l \in db[u].lits => u = c
              /\ \A q \in DOMAIN trail : trail[q].lit \in db[u].lits => g[q] = u
  BY <1>1, <1>4, <1>6, <1>8, <1>14, UnitTrue DEF UnitsOwn
<1>15. PICK b : b = Base
  OBVIOUS
<1> QED BY <1>1, <1>2, <1>5, <1>6, <1>7, <1>8, <1>9, <1>10, <1>11, <1>12, <1>13, <1>14, <1>15, AppendLinked

LEMMA InitialiseLinks ==
  ASSUME DratTypeOK, Shape, StepsOK, Initialise, DratStep, Running'
  PROVE  Links'
<1>1. /\ pc = "parse" /\ db' = db /\ steps' = steps /\ at' = 1 /\ usedRat' = usedRat
      /\ live' = {c \in FormulaIds : Cardinality(db[c].lits) > 1}
      /\ pc' = "propagate" /\ goal' = "init" /\ trail' = Assigned(FormulaUnits)
      /\ input' = input /\ FormulaIds' = FormulaIds
  BY InitialiseIs, InputSame, SameNames DEF Running
<1>2. Starting' /\ ~Joining' /\ ~Checking' /\ ~InRat' /\ Reach' = 0 /\ Base' = Len(trail')
  BY <1>1 DEF Starting, Joining, Checking, InRat, Trying, Reach, Base
<1>3. FormulaUnits \in SUBSET DOMAIN db /\ TypeDb /\ FormulaUnits \subseteq FormulaIds /\ FormulaIds \subseteq Nat \ {0}
  BY DbIs DEF DratTypeOK, TypeDb, FormulaUnits, FormulaIds
<1>4. Pending(0) = FormulaIds
  <2>1. AddsBefore(0) = {}
    BY StepIs DEF AddsBefore, DratTypeOK
  <2> QED BY <2>1 DEF Pending
<1>5. PICK z, t, A, F, g : /\ z = 0 /\ t = trail' /\ A = Available' /\ F = FormulaIds
                           /\ g = [q \in DOMAIN t |-> t[q].reason]
  OBVIOUS
<1>6. A = live' \cup {u \in F : Lone(db, u)} /\ Pending(at - 1)' = F /\ Pending(Reach)' = F
  BY <1>1, <1>2, <1>4, <1>5, AvailableAfter, PendingAfter
<1>7. /\ t \in Seq(Entries)
      /\ \A k \in DOMAIN t : t[k].reason \in FormulaUnits /\ t[k].lit \in db[t[k].reason].lits
      /\ \A u \in FormulaUnits : \A l \in db[u].lits : \E k \in DOMAIN t : t[k].lit = l
  BY <1>1, <1>3, <1>5, AssignedIs
<1>8. Len(t) \in Nat /\ DOMAIN t = 1 .. Len(t)
  BY <1>7, TrailDomain
<1>9. ASSUME NEW q \in DOMAIN t
      PROVE  /\ g[q] = t[q].reason /\ g[q] \in Nat /\ g[q] # 0 /\ g[q] \in A /\ g[q] \in F
             /\ t[q].lit \in db[g[q]].lits /\ Others(db, t, g, q) = {}
  <2>1. g[q] = t[q].reason /\ t[q].reason \in FormulaUnits
    BY <1>5, <1>7
  <2>2. t[q].reason \in Nat \ {0} /\ t[q].reason \in F /\ Lone(db, t[q].reason)
    BY <1>3, <1>5, <2>1 DEF FormulaUnits, Unit, Lone
  <2>3. t[q].reason \in A
    BY <1>6, <2>2
  <2>4. IsFiniteSet(db[t[q].reason].lits) /\ t[q].lit \in db[t[q].reason].lits
    BY <1>3, <1>7, <2>1, DbIs, LitsFinite
  <2>5. \A l \in db[t[q].reason].lits : l = t[q].lit
    BY <2>2, <2>4, Single DEF Lone
  <2> QED BY <2>1, <2>2, <2>3, <2>4, <2>5 DEF Others
<1>10. Supported(db, t, g, A)
  <2>1. g \in [DOMAIN t -> Nat]
    BY <1>5, <1>9
  <2> QED BY <1>9, <2>1 DEF Supported
<1>11. PICK K : K = {}
  OBVIOUS
<1>12. Closed(db, t, g, K, marked')
  BY <1>9, <1>11 DEF Closed
<1>13. Grounded(g)' /\ Resets(g)' /\ UnitJoins(g)'
  <2>1. Grounded(g)' BY <1>5, <1>9 DEF Grounded
  <2>2. Resets(g)' BY <1>5, <1>9 DEF Resets
  <2>3. UnitJoins(g)' BY <1>2 DEF UnitJoins
  <2> QED BY <2>1, <2>2, <2>3
<1>14. UnitsOn(g)'
  <2>1. ASSUME NEW u \in F, Lone(db, u)  PROVE Early(t, g, Base', u)
    <3>1. u \in FormulaUnits /\ IsFiniteSet(db[u].lits)
      BY <1>3, <1>5, <2>1, DbIs, LitsFinite DEF FormulaUnits, Unit, Lone
    <3>2. db[u].lits # {}
      <4>1. db[u].lits = {} => Cardinality(db[u].lits) = 0
        BY FS_EmptySet
      <4> QED BY <2>1, <4>1 DEF Lone
    <3>3. PICK k \in DOMAIN t : t[k].lit \in db[u].lits
      BY <1>7, <3>1, <3>2
    <3>4. k <= Len(t) /\ \A j \in 1 .. k : g[j] \in F
      BY <1>8, <1>9
    <3> QED BY <1>2, <1>5, <3>3, <3>4 DEF Early
  <2> QED BY <1>1, <1>5, <1>6, <2>1 DEF UnitsOn, Early
<1>15. UnitsOwn(g)'
  BY <1>1, <1>5, <1>6 DEF UnitsOwn
<1>16. Linked(g, K)'
  BY <1>1, <1>5, <1>10, <1>12, <1>13, <1>14, <1>15 DEF Linked
<1> QED BY <1>16, LinksFrom

\* Steps after which the same clauses are available, and the trail is cut back to n.
LEMMA KeepLinks ==
  ASSUME DratTypeOK, Shape, TrailOK, StepsOK, DratStep, ~input.forward, Running,
         NEW g, NEW K, Linked(g, K), NEW n \in 0 .. Len(trail), trail' = SubSeq(trail, 1, n),
         db' = db, steps' = steps, live' = live, marked \subseteq marked',
         at' = at \/ at' = at - 1, InRat' => at' = at, Reach' = Reach, ~Joining',
         Base <= n, Base <= Base',
         \A q \in 1 .. n : g[q] = 0 =>
            /\ q > Base' /\ (Checking' \/ InRat')
            /\ InRat' /\ q <= forced' => -trail[q].lit \in db[Id].lits,
         usedRat \/ InRat => usedRat' \/ InRat'
  PROVE  Links'
<1>1. input' = input /\ FormulaIds' = FormulaIds
  BY InputSame, SameNames
<1>2. InRat' => Id' = Id
  BY DEF Id
<1>3. PICK A, W, R, m, k, i : /\ A = Available' /\ W = Pending(at - 1)' /\ R = Pending(Reach)'
                              /\ m = Reach' /\ k = at' - 1 /\ i = at - 1
  OBVIOUS
<1>4. W = Pending(k) /\ R = Pending(m) /\ A = live' \cup {u \in Pending(m) : Lone(db, u)}
  BY <1>1, <1>3, PendingAfter, AvailableAfter
<1>5. R = Pending(Reach) /\ A = Available
  BY <1>3, <1>4 DEF Available
<1>6. W \subseteq Pending(i)
  <2>1. at \in Nat
    BY TrailFacts
  <2>2. k \in Int /\ i \in Int /\ k <= i
    BY <1>3, <2>1
  <2> QED BY <1>4, <2>2, PendingGrows
<1>7. /\ \A q \in DOMAIN trail : g[q] # 0 => g[q] \in Available
      /\ Resets(g) /\ UnitsOn(g)
  BY LinkFacts
<1>8. /\ 1 .. n \subseteq DOMAIN trail
      /\ Base \in Nat /\ Base' \in Nat
  BY TrailFacts, BaseNat
<1>9. \A q \in 1 .. n : trail[q].reason = 0 /\ g[q] # 0 => usedRat' \/ InRat'
  BY <1>7, <1>8 DEF Resets
<1>10. PICK b : b = Base
  OBVIOUS
<1>11. \A u \in W : Lone(db, u) => Early(trail, g, b, u)
  BY <1>3, <1>6, <1>7, <1>10 DEF UnitsOn
<1>12. \A q \in 1 .. n : g[q] # 0 => g[q] \in Available'
  BY <1>3, <1>5, <1>7, <1>8
<1>13. b \in Nat /\ b <= n /\ b <= Base' /\ Base' \in Int
  BY <1>8, <1>10
<1> QED BY <1>1, <1>2, <1>3, <1>5, <1>9, <1>11, <1>12, <1>13, CutLinked

LEMMA ConflictLinks ==
  ASSUME DratTypeOK, Shape, TrailOK, StepsOK, Conflict, DratStep, ~input.forward, Running',
         NEW g, NEW K, Linked(g, K)
  PROVE  Links'
<1>1. /\ pc = "propagate" /\ trail' = SubSeq(trail, 1, forced) /\ marked \subseteq marked'
      /\ db' = db /\ steps' = steps /\ live' = live /\ forced' = forced /\ rat' = rat
      /\ usedRat' = usedRat /\ goal' = goal
      /\ \/ Joining /\ pc' = "backward" /\ at' = at
         \/ Checking /\ pc' = "backward" /\ at' = at - 1
         \/ Trying /\ pc' = "rat" /\ at' = at
  BY ConflictIs DEF Kept, Running
<1>2. Running /\ ~Joining' /\ ~Starting' /\ ~Checking' /\ ~Starting
  BY <1>1 DEF Running, Joining, Starting, Checking, Trying
<1>3. Reach' = Reach /\ (InRat' <=> InRat) /\ Base' = Base
  <2>1. CASE Joining
    BY <1>1, <2>1 DEF Joining, Checking, Trying, Reach, InRat, Base, Starting
  <2>2. CASE Checking
    BY <1>1, <2>2 DEF Joining, Checking, Trying, Reach, InRat, Base, Starting
  <2>3. CASE Trying
    BY <1>1, <2>3 DEF Joining, Checking, Trying, Reach, InRat, Base, Starting
  <2> QED BY <1>1, <2>1, <2>2, <2>3
<1>4. InRat' => at' = at
  BY <1>1 DEF InRat, Trying
<1>5. Base <= forced /\ Base' \in Nat /\ Base \in Nat /\ forced \in 0 .. Len(trail)
  BY <1>2, BaseNat, TrailFacts
<1>6. ASSUME NEW q \in 1 .. forced, g[q] = 0
      PROVE  /\ q > Base' /\ (Checking' \/ InRat')
             /\ InRat' /\ q <= forced' => -trail[q].lit \in db[Id].lits
  <2>1. q \in DOMAIN trail /\ q <= forced
    BY <1>5, TrailFacts
  <2>2. /\ q > Base /\ (Checking \/ InRat)
        /\ InRat /\ q <= forced => -trail[q].lit \in db[Id].lits
    BY <1>2, <1>6, <2>1, LinkFacts DEF Grounded
  <2>3. InRat
    <3>1. Base = forced \/ InRat
      BY <1>2 DEF Base
    <3> QED BY <1>5, <2>1, <2>2, <3>1
  <2> QED BY <1>3, <2>1, <2>2, <2>3
<1>7. Base <= Base'
  BY <1>3, <1>5
<1>8. at' = at \/ at' = at - 1
  BY <1>1
<1> QED BY <1>1, <1>2, <1>3, <1>4, <1>5, <1>6, <1>7, <1>8, KeepLinks

LEMMA StartRatLinks ==
  ASSUME DratTypeOK, Shape, TrailOK, StepsOK, StartRat, DratStep, ~input.forward, Running',
         NEW g, NEW K, Linked(g, K)
  PROVE  Links'
<1>1. /\ Checking /\ db' = db /\ steps' = steps /\ at' = at /\ live' = live
      /\ trail' = trail /\ marked' = marked /\ usedRat' = usedRat /\ goal' = goal
      /\ pc' = "rat" /\ forced' = Len(trail) /\ rat'.base = forced
  <2>1. pc' # "done"
    BY DEF Running
  <2>2. PICK A \in SUBSET Lits :
          rat' = [pivot |-> db[Id].pivot, todo |-> Candidates(db[Id].pivot),
                  untried |-> A \ {db[Id].pivot}, base |-> forced]
    BY <2>1, StartRatIs
  <2>3. rat'.base = forced
    BY <2>2
  <2> QED BY <2>1, <2>3, StartRatIs
<1>2. /\ Running /\ ~Joining' /\ ~InRat /\ InRat' /\ ~Starting /\ ~Starting' /\ ~Joining
      /\ Base = forced /\ Base' = forced /\ Reach' = Reach
  BY <1>1 DEF Running, Joining, Starting, Checking, Trying, InRat, Base, Reach
<1>3. trail \in Seq(Entries) /\ forced \in Nat /\ forced <= Len(trail) /\ Len(trail) \in Nat
      /\ DOMAIN trail = 1 .. Len(trail)
  BY TrailFacts
<1>4. trail' = SubSeq(trail, 1, Len(trail))
  BY <1>1, <1>3, WholeTrail
<1>5. ASSUME NEW q \in 1 .. Len(trail), g[q] = 0
      PROVE  q > Base' /\ -trail[q].lit \in db[Id].lits
  <2>1. q > forced /\ trail[q].reason \in {0, g[q]}
    BY <1>2, <1>3, <1>5, LinkFacts DEF Grounded
  <2> QED BY <1>1, <1>2, <1>3, <1>5, <2>1 DEF TrailOK
<1>6. Len(trail) \in 0 .. Len(trail) /\ Base <= Len(trail) /\ Base <= Base'
  BY <1>2, <1>3
<1> QED BY <1>1, <1>2, <1>4, <1>5, <1>6, KeepLinks

LEMMA RatHoldsLinks ==
  ASSUME DratTypeOK, Shape, TrailOK, StepsOK, RatHolds, DratStep, ~input.forward, Running',
         NEW g, NEW K, Linked(g, K)
  PROVE  Links'
<1>1. /\ pc = "rat" /\ db' = db /\ steps' = steps /\ live' = live /\ marked' = marked
      /\ usedRat' = TRUE /\ forced' = rat.base /\ trail' = SubSeq(trail, 1, rat.base)
      /\ pc' = "backward" /\ at' = at - 1
  BY RatHoldsIs
<1>2. /\ Running /\ ~Joining' /\ InRat /\ ~InRat' /\ ~Starting /\ ~Starting' /\ ~Joining
      /\ Base = rat.base /\ Base' = rat.base /\ Reach' = Reach
  BY <1>1 DEF Running, Joining, Starting, Checking, Trying, InRat, Base, Reach
<1>3. rat.base \in Nat /\ rat.base <= forced /\ forced <= Len(trail) /\ Len(trail) \in Nat /\ forced \in Nat
      /\ DOMAIN trail = 1 .. Len(trail)
  BY <1>2, TrailFacts DEF DratTypeOK, TypeRat, TrailOK
<1>4. ASSUME NEW q \in 1 .. rat.base  PROVE g[q] # 0
  <2>1. q \in DOMAIN trail /\ ~(q > Base)
    BY <1>2, <1>3
  <2> QED BY <1>2, <2>1, LinkFacts DEF Grounded
<1>5. rat.base \in 0 .. Len(trail) /\ Base <= rat.base /\ Base <= Base'
  BY <1>2, <1>3
<1>6. PICK n \in 0 .. Len(trail) : n = rat.base
  BY <1>5
<1> QED BY <1>1, <1>2, <1>4, <1>5, <1>6, KeepLinks

LEMMA RatFailsLinks ==
  ASSUME DratTypeOK, Shape, TrailOK, StepsOK, RatFails, DratStep, ~input.forward, Running',
         NEW g, NEW K, Linked(g, K)
  PROVE  Links'
<1>1. /\ Trying /\ db' = db /\ steps' = steps /\ at' = at /\ live' = live
      /\ forced' = forced /\ marked' = marked /\ usedRat' = usedRat /\ goal' = goal
      /\ trail' = SubSeq(trail, 1, forced) /\ pc' = "rat"
      /\ \E p \in rat.untried :
           rat' = [rat EXCEPT !.pivot = p, !.todo = Candidates(p), !.untried = rat.untried \ {p}]
  BY RatFailsIs DEF Kept, Running
<1>2. rat'.base = rat.base
  BY <1>1 DEF DratTypeOK, TypeRat
<1>3. /\ Running /\ ~Joining' /\ InRat /\ InRat' /\ ~Starting /\ ~Starting' /\ ~Joining
      /\ Base = rat.base /\ Base' = rat.base /\ Reach' = Reach
  BY <1>1, <1>2 DEF Running, Joining, Starting, Checking, Trying, InRat, Base, Reach
<1>4. rat.base \in Nat /\ rat.base <= forced /\ forced <= Len(trail) /\ Len(trail) \in Nat /\ forced \in Nat
      /\ DOMAIN trail = 1 .. Len(trail)
  BY <1>3, TrailFacts DEF DratTypeOK, TypeRat, TrailOK
<1>5. ASSUME NEW q \in 1 .. forced, g[q] = 0
      PROVE  q > Base' /\ -trail[q].lit \in db[Id].lits
  <2>1. q \in DOMAIN trail /\ q <= forced
    BY <1>4
  <2> QED BY <1>3, <1>5, <2>1, LinkFacts DEF Grounded
<1>6. forced \in 0 .. Len(trail) /\ Base <= forced /\ Base <= Base'
  BY <1>3, <1>4
<1> QED BY <1>1, <1>3, <1>5, <1>6, KeepLinks

LEMMA EarlyWider ==
  ASSUME DratTypeOK, NEW g, NEW u, NEW b \in Int, NEW c \in Int, b <= c, Early(trail, g, b, u)
  PROVE  Early(trail, g, c, u)
<1>1. \A q \in DOMAIN trail : q \in Int /\ (q <= b => q <= c)
  BY TrailFacts
<1> QED BY <1>1 DEF Early

LEMMA EndOfUnitsLinks ==
  ASSUME DratTypeOK, Shape, TrailOK, StepsOK, EndOfUnits, DratStep, ~input.forward,
         NEW g, NEW K, Linked(g, K)
  PROVE  Links'
<1>1. /\ pc = "propagate" /\ goal \in {"init", "lemma"} /\ forced' = Len(trail)
      /\ goal = "init" => at' = 1
      /\ goal = "lemma" => at' = at + 1
      /\ pc' = "forward" /\ goal' = goal /\ db' = db /\ steps' = steps /\ live' = live
      /\ trail' = trail /\ marked' = marked /\ rat' = rat /\ usedRat' = usedRat
  BY DEF EndOfUnits, Fixpoint, GoTo
<1>2. trail \in Seq(Entries) /\ Len(trail) \in Nat /\ DOMAIN trail = 1 .. Len(trail) /\ at \in Nat
  BY TrailFacts
<1>3. trail' = SubSeq(trail, 1, Len(trail)) /\ Len(trail) \in 0 .. Len(trail)
  BY <1>1, <1>2, WholeTrail
<1>4. /\ Running /\ ~Joining' /\ ~Starting' /\ ~Checking' /\ ~InRat' /\ ~Checking /\ ~InRat
      /\ Starting \/ (Joining /\ at' = at + 1)
      /\ Base' = Len(trail) /\ Reach' = at' - 1
  BY <1>1 DEF Running, Joining, Starting, Checking, Trying, InRat, Base, Reach
<1>5. ASSUME NEW q \in 1 .. Len(trail)  PROVE g[q] # 0
  <2>1. q \in DOMAIN trail
    BY <1>2
  <2> QED BY <1>4, <2>1, LinkFacts DEF Grounded
<1>6. CASE Starting
  <2>1. at' = 1 /\ at = 1 /\ Reach = 0 /\ Base = Len(trail)
    <3>1. at = 1
      BY <1>6 DEF Shape
    <3>2. at' = 1
      BY <1>1, <1>6 DEF Starting
    <3> QED BY <1>6, <3>1, <3>2 DEF Reach, Base
  <2>2. Reach' = Reach
    BY <1>4, <2>1
  <2>3. Base <= Len(trail) /\ Base <= Base'
    BY <1>2, <1>4, <2>1
  <2> QED BY <1>1, <1>3, <1>4, <1>5, <2>1, <2>2, <2>3, KeepLinks
<1>7. CASE Joining /\ at' = at + 1
  <2>1. Base = forced /\ Reach = at /\ at \in DOMAIN steps
    BY <1>1, <1>4, <1>7 DEF Base, Joining, Starting, Reach, Shape
  <2>2. input' = input /\ FormulaIds' = FormulaIds
    BY InputSame, SameNames
  <2>3. PICK A, W, R, m, k : /\ A = Available' /\ W = Pending(at - 1)' /\ R = Pending(Reach)'
                             /\ m = Reach' /\ k = at' - 1
    OBVIOUS
  <2>4. W = Pending(k) /\ R = Pending(m) /\ A = live' \cup {u \in Pending(m) : Lone(db, u)}
    BY <1>1, <2>2, <2>3, PendingAfter, AvailableAfter
  <2>5. k = at /\ m = at
    BY <1>2, <1>4, <1>7, <2>3
  <2>6. R = Pending(Reach) /\ A = Available /\ W = Pending(at)
    BY <1>1, <2>1, <2>4, <2>5 DEF Available
  <2>7. \A q \in 1 .. Len(trail) : g[q] \in Available
    BY <1>2, <1>4, <1>5, LinkFacts
  <2>8. Resets(g) /\ UnitsOn(g) /\ UnitJoins(g)
    BY <1>4, LinkFacts
  <2>9. PICK b : b = Len(trail)
    OBVIOUS
  <2>10. ASSUME NEW u \in W, Lone(db, u)  PROVE Early(trail, g, b, u)
    <3>1. CASE u \in Pending(at - 1)
      <4>1. Early(trail, g, forced, u)
        BY <2>1, <2>8, <2>10, <3>1 DEF UnitsOn
      <4> QED BY <2>9, <4>1, TrailFacts, EarlyWider
    <3>2. CASE u = Id
      BY <1>7, <2>8, <2>9, <2>10, <3>2 DEF UnitJoins
    <3> QED BY <2>1, <2>6, <2>10, <3>1, <3>2, PendingAt
  <2>11. \A q \in 1 .. Len(trail) : trail[q].reason = 0 /\ g[q] # 0 => usedRat' \/ InRat'
    BY <1>1, <1>2, <1>4, <2>8 DEF Resets
  <2>12. b \in Nat /\ b <= Len(trail) /\ b <= Base' /\ Base' \in Int
    BY <1>2, <1>4, <2>9
  <2> QED BY <1>1, <1>3, <1>4, <1>5, <2>2, <2>3, <2>6, <2>7, <2>10, <2>11, <2>12, CutLinked
<1> QED BY <1>4, <1>6, <1>7

\* What is pending when a step that adds nothing is passed over.
LEMMA PassedOver ==
  ASSUME DratTypeOK, at \in DOMAIN steps, input' = input,
         steps' = steps \/ steps' = [steps EXCEPT ![at].op = "none"],
         steps'[at].op # "add", NEW n, n = at
  PROVE  FormulaIds' \cup {steps'[i].clause : i \in {j \in DOMAIN steps' : j <= n /\ steps'[j].op = "add"}}
           = Pending(at - 1)
<1>1. /\ steps \in Seq(Step) /\ DOMAIN steps = 1 .. Len(steps) /\ Len(steps) \in Nat
      /\ at \in Nat
  BY StepIs, TrailFacts DEF DratTypeOK, TypeSteps
<1>2. /\ DOMAIN steps' = DOMAIN steps
      /\ \A j \in DOMAIN steps : steps'[j].clause = steps[j].clause /\ (j # at => steps'[j] = steps[j])
  <2>1. CASE steps' = steps
    BY <2>1
  <2>2. CASE steps' = [steps EXCEPT ![at].op = "none"]
    BY <1>1, <2>2, OpExcept
  <2> QED BY <2>1, <2>2
<1>3. FormulaIds' = FormulaIds
  BY DEF FormulaIds
<1>4. {j \in DOMAIN steps' : j <= n /\ steps'[j].op = "add"} = AddsBefore(at - 1)
  <2>1. \A j \in DOMAIN steps : (j <= at /\ j # at) <=> j <= at - 1
    BY <1>1
  <2> QED BY <1>2, <2>1 DEF AddsBefore
<1>5. \A i \in AddsBefore(at - 1) : steps'[i].clause = steps[i].clause
  BY <1>2 DEF AddsBefore
<1> QED BY <1>3, <1>4, <1>5 DEF Pending

LEMMA PassLinks ==
  ASSUME DratTypeOK, Shape, TrailOK, StepsOK, DeleteStep \/ SkipSatisfied, DratStep, ~input.forward,
         NEW g, NEW K, Linked(g, K)
  PROVE  Links'
<1>1. /\ pc = "forward" /\ at \in DOMAIN steps /\ forced = Len(trail)
      /\ db' = db /\ trail' = trail /\ forced' = forced /\ marked' = marked
      /\ pc' = pc /\ goal' = goal /\ rat' = rat /\ usedRat' = usedRat /\ at' = at + 1
      /\ \/ live' = live
         \/ live' = live \ {Id} /\ \A k \in DOMAIN trail : trail[k].reason # Id
      /\ steps' = steps \/ steps' = [steps EXCEPT ![at].op = "none"]
      /\ steps'[at].op # "add"
  <2>1. steps \in Seq(Step)
    BY DEF DratTypeOK, TypeSteps
  <2>2. CASE DeleteStep
    BY <2>1, <2>2, DeletingIs, OpExcept
  <2>3. CASE SkipSatisfied
    BY <2>1, <2>3, SkippingIs, OpExcept
  <2> QED BY <2>2, <2>3
<1>2. trail \in Seq(Entries) /\ Len(trail) \in Nat /\ DOMAIN trail = 1 .. Len(trail) /\ at \in Nat
  BY TrailFacts
<1>3. trail' = SubSeq(trail, 1, Len(trail)) /\ Len(trail) \in 0 .. Len(trail)
  BY <1>1, <1>2, WholeTrail
<1>4. /\ Running /\ ~Joining' /\ ~Starting' /\ ~Checking' /\ ~InRat' /\ ~Checking /\ ~InRat
      /\ Base' = Len(trail) /\ Reach' = at' - 1 /\ Base = Len(trail) /\ Reach = at - 1 /\ ~usedRat
  BY <1>1 DEF Running, Joining, Starting, Checking, Trying, InRat, Base, Reach, Shape
<1>5. input' = input /\ FormulaIds' = FormulaIds
  BY InputSame, SameNames
<1>6. PICK A, W, R, n : A = Available' /\ W = Pending(at - 1)' /\ R = Pending(Reach)' /\ n = at
  OBVIOUS
<1>7. n = at' - 1 /\ n = Reach'
  BY <1>1, <1>2, <1>4, <1>6
<1>8. W = Pending(at - 1) /\ R = Pending(at - 1)
  <2>1. FormulaIds' \cup {steps'[i].clause : i \in {j \in DOMAIN steps' : j <= n /\ steps'[j].op = "add"}}
           = Pending(at - 1)
    BY <1>1, <1>5, <1>6, PassedOver
  <2> HIDE <1>1
  <2>2. W = Pending(at - 1)
    BY <1>6, <1>7, <2>1 DEF Pending, AddsBefore
  <2>3. R = Pending(at - 1)
    BY <1>6, <1>7, <2>1 DEF Pending, AddsBefore
  <2> QED BY <2>2, <2>3
<1>9. A = live' \cup {u \in R : Lone(db, u)}
  BY <1>1, <1>6 DEF Available, Lone
<1>10. /\ \A q \in DOMAIN trail : /\ g[q] # 0 => g[q] \in Available
                                  /\ trail[q].reason \in {0, g[q]}
       /\ Grounded(g) /\ Resets(g) /\ UnitsOn(g)
  BY <1>4, LinkFacts
<1>11. \A q \in 1 .. Len(trail) : g[q] # 0 /\ trail[q].reason # 0 /\ trail[q].reason = g[q]
  BY <1>2, <1>4, <1>10 DEF Grounded, Resets
<1>12. \A q \in 1 .. Len(trail) : g[q] \in A
  BY <1>1, <1>2, <1>4, <1>8, <1>9, <1>10, <1>11 DEF Available
<1>13. PICK b : b = Base
  OBVIOUS
<1>14. \A u \in W : Lone(db, u) => Early(trail, g, b, u)
  BY <1>8, <1>10, <1>13 DEF UnitsOn
<1>15. R = Pending(Reach)
  BY <1>4, <1>8
<1>16. b \in Nat /\ b <= Len(trail) /\ b <= Base' /\ Base' \in Int
  BY <1>2, <1>4, <1>13
<1> QED BY <1>1, <1>3, <1>4, <1>5, <1>6, <1>11, <1>12, <1>14, <1>15, <1>16, CutLinked

LEMMA InsertLinks ==
  ASSUME DratTypeOK, Shape, TrailOK, StepsOK, Insert, DratStep, ~input.forward, Running', Gate,
         NEW g, NEW K, Linked(g, K)
  PROVE  Links'
<1>1. /\ pc = "forward" /\ ~(Satisfied(Id) /\ Unit(Id))
      /\ at \in DOMAIN steps /\ steps[at].op = "add" /\ forced = Len(trail)
      /\ live' = IF Cardinality(db[Id].lits) > 1 THEN live \cup {Id} ELSE live
      /\ db' = db /\ steps' = steps /\ forced' = forced /\ rat' = rat /\ usedRat' = usedRat
      /\ \/ /\ Satisfied(Id) \/ Cardinality(Open(Id)) > 1
            /\ pc' = "forward" /\ at' = at + 1 /\ trail' = trail /\ marked' = marked
         \/ /\ ~Satisfied(Id) /\ pc' = "propagate" /\ goal' = "lemma" /\ at' = at
            /\ marked' = marked
            /\ \E l \in Lits : Open(Id) = {l} /\ trail' = Append(trail, [lit |-> l, reason |-> Id])
         \/ /\ Open(Id) = {} /\ steps[at].skip
            /\ pc' = "backward" /\ at' = at /\ trail' = trail /\ marked' = marked \cup Cone(Id)
  <2>1. pc # "insert"
    BY DEF Shape
  <2> QED BY <2>1, InsertIs DEF Running
<1>2. trail \in Seq(Entries) /\ Len(trail) \in Nat /\ DOMAIN trail = 1 .. Len(trail) /\ at \in Nat
  BY TrailFacts
<1>3. /\ Running /\ ~Starting' /\ ~Checking' /\ ~InRat' /\ ~Checking /\ ~InRat
      /\ Base' = Len(trail) /\ Base = Len(trail) /\ Reach = at - 1 /\ ~usedRat
      /\ pc' = "forward" => ~Joining' /\ Reach' = at
      /\ pc' = "backward" => ~Joining' /\ Reach' = at
      /\ pc' = "propagate" => Joining' /\ Reach' = at
  BY <1>1, <1>2 DEF Running, Joining, Starting, Checking, Trying, InRat, Base, Reach, Shape
<1>4. input' = input /\ FormulaIds' = FormulaIds
  BY InputSame, SameNames
<1>5. PICK A, W, R, m, k : /\ A = Available' /\ W = Pending(at - 1)' /\ R = Pending(Reach)'
                           /\ m = Reach' /\ k = at' - 1
  OBVIOUS
<1>6. /\ W = Pending(k) /\ R = Pending(m) /\ A = live' \cup {u \in Pending(m) : Lone(db, u)}
      /\ m = at
  BY <1>1, <1>3, <1>4, <1>5, PendingAfter, AvailableAfter
<1>7. /\ \A u \in R : u \in Pending(at - 1) \/ u = Id
      /\ Id \in R /\ Pending(at - 1) \subseteq R
  BY <1>1, <1>6, PendingAt
<1>8. /\ \A q \in DOMAIN trail : /\ g[q] # 0 => g[q] \in Available
                                 /\ trail[q].reason \in {0, g[q]}
      /\ Grounded(g) /\ Resets(g) /\ UnitsOn(g) /\ UnitsOwn(g)
      /\ \A e \in Available : e \in Pending(Reach) /\ e \in Nat \ {0}
  BY <1>3, LinkFacts
<1>9. \A q \in 1 .. Len(trail) : /\ g[q] # 0 /\ g[q] \in Available
                                 /\ ~(trail[q].reason = 0 /\ g[q] # 0)
  BY <1>2, <1>3, <1>8 DEF Grounded, Resets
<1>10. live \subseteq live' /\ Available \subseteq A
  BY <1>1, <1>3, <1>6, <1>7 DEF Available
<1>11. PICK b : b = Len(trail)
  OBVIOUS
<1>12. \A u \in Pending(at - 1) : Lone(db, u) => Early(trail, g, b, u)
  BY <1>3, <1>8, <1>11 DEF UnitsOn
<1>13. Id \in DOMAIN db /\ Id \in Nat \ {0} /\ IsFiniteSet(db[Id].lits)
  BY <1>6, <1>7, PendingIn
<1>14. trail = SubSeq(trail, 1, Len(trail)) /\ Len(trail) \in 0 .. Len(trail)
  BY <1>2, WholeTrail
<1>15. \A q \in 1 .. Len(trail) : g[q] \in Available'
  BY <1>5, <1>9, <1>10
<1>16. b \in Nat /\ b <= Len(trail) /\ b <= Base' /\ Base' \in Int
  BY <1>2, <1>3, <1>11
<1>17. CASE pc' = "forward"
  <2>1. (Satisfied(Id) \/ Cardinality(Open(Id)) > 1) /\ at' = at + 1 /\ trail' = trail /\ marked' = marked
    BY <1>1, <1>17
  <2>2. ~Lone(db, Id)
    <3>1. CASE Satisfied(Id)
      BY <1>1, <3>1 DEF Unit, Lone
    <3>2. CASE Cardinality(Open(Id)) > 1
      <4>1. Cardinality(Open(Id)) <= Cardinality(db[Id].lits)
        BY <1>13, FS_Subset DEF Open
      <4>2. Cardinality(db[Id].lits) \in Nat /\ Cardinality(Open(Id)) \in Nat
        BY <1>13, FS_Subset, FS_CardinalityType DEF Open
      <4> QED BY <3>2, <4>1, <4>2 DEF Lone
    <3> QED BY <2>1, <3>1, <3>2
  <2>3. k = at
    BY <1>2, <1>5, <2>1
  <2>4. \A u \in W : Lone(db, u) => Early(trail, g, b, u)
    BY <1>6, <1>7, <1>12, <2>2, <2>3
  <2>5. \A u \in R \ FormulaIds : Lone(db, u) => u \in Pending(Reach)
    BY <1>3, <1>7, <2>2
  <2> QED BY <1>1, <1>3, <1>4, <1>5, <1>9, <1>14, <1>15, <1>16, <1>17, <2>1, <2>4, <2>5, CutLinked
<1>18. CASE pc' = "backward"
  <2>1. steps[at].skip /\ at' = at /\ trail' = trail /\ marked' = marked \cup Cone(Id)
    BY <1>1, <1>18
  <2>2. ~Lone(db, Id)
    <3>1. db[Id].lits \in Trusted
      BY <1>1, <2>1 DEF StepsOK, AddsOK, Id
    <3> QED BY <3>1 DEF Gate, Lone
  <2>3. k = at - 1
    BY <1>5, <2>1
  <2>4. \A u \in W : Lone(db, u) => Early(trail, g, b, u)
    BY <1>6, <1>12, <2>3
  <2>5. \A u \in R \ FormulaIds : Lone(db, u) => u \in Pending(Reach)
    BY <1>3, <1>7, <2>2
  <2> QED BY <1>1, <1>3, <1>4, <1>5, <1>9, <1>14, <1>15, <1>16, <1>18, <2>1, <2>4, <2>5, CutLinked
<1>19. CASE pc' = "propagate"
  <2>1. /\ ~Satisfied(Id) /\ at' = at /\ marked' = marked
        /\ \E l \in Lits : Open(Id) = {l} /\ trail' = Append(trail, [lit |-> l, reason |-> Id])
    BY <1>1, <1>19
  <2>2. PICK l \in Lits : Open(Id) = {l} /\ trail' = Append(trail, [lit |-> l, reason |-> Id])
    BY <2>1
  <2>3. PICK c : c = Id
    OBVIOUS
  <2>4. l \in db[c].lits /\ \A x \in db[c].lits \ {l} : \E j \in DOMAIN trail : trail[j].lit = -x
    BY <2>2, <2>3 DEF Open, TrueLits
  <2>5. \A q \in DOMAIN trail : trail[q].lit \notin db[Id].lits
    BY <2>1 DEF Satisfied, TrueLits
  <2>6. c \in A /\ c \in Nat \ {0}
    <3>1. Cardinality(db[Id].lits) \in Nat /\ Cardinality(db[Id].lits) # 0
      <4>1. db[Id].lits # {}
        BY <2>3, <2>4
      <4> QED BY <1>13, <4>1, FS_EmptySet, FS_CardinalityType
    <3>2. CASE Cardinality(db[Id].lits) > 1
      BY <1>1, <1>6, <1>13, <2>3, <3>2
    <3>3. CASE ~(Cardinality(db[Id].lits) > 1)
      <4>1. Lone(db, Id)
        BY <3>1, <3>3 DEF Lone
      <4> QED BY <1>6, <1>7, <1>13, <2>3, <4>1
    <3> QED BY <3>2, <3>3
  <2>7. ASSUME NEW j \in DOMAIN trail  PROVE g[j] \in FormulaIds \/ g[j] <= Id
    <3>1. g[j] \in Pending(at - 1)
      BY <1>2, <1>3, <1>8, <1>9
    <3>2. CASE g[j] \notin FormulaIds
      <4>1. PICK i \in AddsBefore(at - 1) : g[j] = steps[i].clause
        BY <3>1, <3>2 DEF Pending
      <4>2. i \in DOMAIN steps /\ i < at /\ steps[i].op = "add"
        <5>1. i \in DOMAIN steps /\ i <= at - 1 /\ steps[i].op = "add" /\ i \in Nat
          BY <4>1, StepIs DEF AddsBefore, DratTypeOK
        <5> QED BY <1>2, <5>1
      <4>3. g[j] < Id
        BY <1>1, <4>1, <4>2 DEF StepsOK, AddsOK, Id
      <4>4. g[j] \in Nat
        BY <1>8, <1>9, <1>2
      <4> QED BY <1>13, <4>3, <4>4
    <3> QED BY <3>2
  <2>8. ASSUME NEW u \in R \ FormulaIds, Lone(db, u)
        PROVE  /\ l \in db[u].lits => u = c
               /\ \A q \in DOMAIN trail : trail[q].lit \in db[u].lits => g[q] = u
    <3>1. CASE u = Id
      BY <2>3, <2>5, <3>1
    <3>2. CASE u \in Pending(at - 1)
      <4>1. PICK q \in DOMAIN trail : trail[q].lit \in db[u].lits
        BY <1>12, <2>8, <3>2 DEF Early
      <4>2. IsFiniteSet(db[u].lits)
        BY <3>2, PendingIn
      <4>3. l \in db[u].lits => l = trail[q].lit
        BY <2>8, <4>1, <4>2, Single DEF Lone
      <4>4. l \notin db[u].lits
        BY <2>3, <2>4, <2>5, <4>3
      <4>5. \A p \in DOMAIN trail : trail[p].lit \in db[u].lits => g[p] = u
        BY <1>3, <1>8, <2>8, <3>2 DEF UnitsOwn
      <4> QED BY <4>4, <4>5
    <3> QED BY <1>7, <2>8, <3>1, <3>2
  <2>9. Id' = Id
    BY <1>1, <2>1 DEF Id
  <2>10. \A u \in W : Lone(db, u) => Early(trail, g, b, u)
    BY <1>5, <1>6, <1>12, <2>1
  <2>11. \A q \in DOMAIN trail : g[q] # 0 /\ ~(trail[q].reason = 0 /\ g[q] # 0)
    BY <1>2, <1>9
  <2>12. trail' = Append(trail, [lit |-> l, reason |-> c])
    BY <2>2, <2>3
  <2> QED BY <1>1, <1>4, <1>5, <1>10, <1>16, <2>1, <2>3, <2>4, <2>6, <2>7, <2>8, <2>9, <2>10,
             <2>11, <2>12, AppendLinked
<1> QED BY <1>1, <1>17, <1>18, <1>19

\* Going back there is a clause behind every entry.
LEMMA BackwardFacts ==
  ASSUME DratTypeOK, Shape, StepsOK, pc = "backward", NEW g, NEW K, Linked(g, K)
  PROVE  /\ ~input.forward /\ Running /\ ~Starting /\ ~Joining /\ ~Checking /\ ~InRat
         /\ forced = Len(trail) /\ Base = Len(trail) /\ Reach = at
         /\ \A q \in DOMAIN trail : g[q] # 0 /\ g[q] \in Available
<1>1. /\ ~input.forward /\ Running /\ ~Starting /\ ~Joining /\ ~Checking /\ ~InRat
      /\ forced = Len(trail) /\ Base = forced /\ Reach = at
  BY DEF Shape, Running, Starting, Joining, Checking, InRat, Trying, Base, Reach
<1>2. \A q \in DOMAIN trail : g[q] # 0 /\ g[q] \in Available
  BY <1>1, LinkFacts DEF Grounded
<1> QED BY <1>1, <1>2

Removing == pc = "backward" /\ at \in DOMAIN steps /\ steps[at].op = "add"

CutAt(n) == (\A k \in 1 .. n : k \notin Gone(Id)) /\ (n = Len(trail) \/ n + 1 \in Gone(Id))

Leaves(n) == Id \notin marked \/ (steps[at].skip /\ Gate) \/ NoneTrue(n)

\* What is left when a lemma and all that follows from it are taken away.
LEMMA Removed ==
  ASSUME DratTypeOK, Shape, StepsOK, Removing,
         NEW g, NEW K, Linked(g, K), NEW n \in 0 .. Len(trail), CutAt(n), Leaves(n)
  PROVE  /\ \A u \in Pending(at - 1) : Lone(db, u) => Early(trail, g, n, u)
         /\ \A q \in 1 .. n : g[q] # Id /\ g[q] \in (live \ {Id}) \cup {u \in Pending(at - 1) : Lone(db, u)}
<1>1. /\ ~input.forward /\ Running /\ ~InRat /\ Base = Len(trail) /\ Reach = at
      /\ \A q \in DOMAIN trail : g[q] # 0 /\ g[q] \in Available
  BY BackwardFacts DEF Removing
<1>2. /\ trail \in Seq(Entries) /\ Len(trail) \in Nat /\ DOMAIN trail = 1 .. Len(trail) /\ at \in Nat
      /\ 1 .. n \subseteq DOMAIN trail /\ n \in Nat /\ n <= Len(trail)
  <2>1. trail \in Seq(Entries) /\ Len(trail) \in Nat /\ DOMAIN trail = 1 .. Len(trail) /\ at \in Nat
    BY TrailFacts
  <2>2. \A i \in 1 .. n : i \in 1 .. Len(trail)
    BY <2>1
  <2> QED BY <2>1, <2>2
<1>3. /\ \A q \in DOMAIN trail : /\ trail[q].reason \in {0, g[q]}
                                 /\ trail[q].lit \in db[g[q]].lits
      /\ Resets(g) /\ UnitsOn(g) /\ UnitsOwn(g) /\ Closed(db, trail, g, K, marked)
  BY <1>1, LinkFacts
<1>4. Id \in Pending(at) /\ Id \notin FormulaIds /\ Id \in Nat \ {0}
  BY PendingAt, PendingIn DEF Removing, StepsOK, AddsOK, Id
<1>5. ASSUME NEW q \in Gone(Id)  PROVE q \in DOMAIN trail /\ g[q] = Id
  <2>1. CASE Unit(Id)
    <3>1. q \in DOMAIN trail /\ trail[q].lit \in db[Id].lits /\ Lone(db, Id)
      BY <1>5, <2>1 DEF Gone, Unit, Lone
    <3> QED BY <1>1, <1>3, <1>4, <3>1 DEF UnitsOwn
  <2>2. CASE ~Unit(Id)
    <3>1. q \in DOMAIN trail /\ trail[q].reason = Id
      BY <1>5, <2>2 DEF Gone, ReasonFor
    <3> QED BY <1>3, <1>4, <3>1
  <2> QED BY <2>1, <2>2
<1>6. ASSUME NEW u \in Pending(at - 1)  PROVE u \in Nat /\ ~(Id <= u)
  <2>1. u \in Nat \ {0}
    BY PendingIn
  <2>2. CASE u \in FormulaIds
    <3>1. Len(input.formula) \in Nat
      BY LenProperties DEF DratTypeOK, TypeInput
    <3> QED BY <1>4, <2>1, <2>2, <3>1 DEF FormulaIds
  <2>3. CASE u \notin FormulaIds
    <3>1. PICK i \in AddsBefore(at - 1) : u = steps[i].clause
      BY <2>3 DEF Pending
    <3>2. i \in DOMAIN steps /\ i < at /\ steps[i].op = "add"
      <4>1. i \in DOMAIN steps /\ i <= at - 1 /\ steps[i].op = "add" /\ i \in Nat
        BY <3>1, StepIs DEF AddsBefore, DratTypeOK
      <4>2. i <= at - 1 /\ i \in Nat
        BY <4>1
      <4>3. i < at
        BY <1>2, <4>2
      <4> QED BY <4>1, <4>3
    <3>3. u < Id
      BY <3>1, <3>2 DEF Removing, StepsOK, AddsOK, Id
    <3> QED BY <1>4, <2>1, <3>3
  <2> QED BY <2>2, <2>3
<1>7. ASSUME NEW u \in Pending(at - 1), Lone(db, u)  PROVE Early(trail, g, n, u)
  <2>1. PICK q \in DOMAIN trail : trail[q].lit \in db[u].lits
                                  /\ \A j \in 1 .. q : g[j] \in FormulaIds \/ g[j] <= u
    BY <1>3, <1>7 DEF UnitsOn, Early
  <2>2. q <= n
    <3>1. SUFFICES ASSUME ~(q <= n)  PROVE FALSE
      OBVIOUS
    <3>2. n + 1 \in 1 .. q /\ n # Len(trail)
      <4>1. q \in 1 .. Len(trail) /\ q \in Nat /\ n \in Nat
        BY <1>2
      <4>2. q > n /\ q <= Len(trail)
        BY <3>1, <4>1
      <4>3. Len(trail) \in Nat
        BY <1>2
      <4>4. n # Len(trail)
        BY <4>1, <4>2, <4>3
      <4> QED BY <4>1, <4>2, <4>4
    <3>3. g[n + 1] = Id
      BY <1>5, <3>2 DEF CutAt
    <3> QED BY <1>4, <1>6, <2>1, <3>2, <3>3
  <2> QED BY <2>1, <2>2 DEF Early
<1>8. ASSUME NEW q \in 1 .. n, g[q] = Id  PROVE FALSE
  <2>1. q \in DOMAIN trail /\ q \notin Gone(Id) /\ trail[q].lit \in db[Id].lits
    BY <1>2, <1>3, <1>8 DEF CutAt
  <2>2. trail[q].reason # Id /\ trail[q].reason = 0
    <3>1. trail[q].reason # Id
      BY <2>1 DEF Gone, ReasonFor
    <3> QED BY <1>3, <1>8, <2>1, <3>1
  <2>3. CASE Id \notin marked
    <3>1. q \in K /\ g[q] # 0
      BY <1>3, <1>4, <1>8, <2>1, <2>2 DEF Closed
    <3> QED BY <1>3, <1>8, <2>3, <3>1 DEF Closed
  <2>4. CASE steps[at].skip /\ Gate
    <3>1. db[Id].lits \in Trusted
      BY <2>4 DEF Removing, StepsOK, AddsOK, Id
    <3>2. ~(usedRat \/ InRat)
      BY <2>4, <3>1 DEF Gate
    <3> QED BY <1>3, <1>4, <1>8, <2>1, <2>2, <3>2 DEF Resets
  <2>5. CASE NoneTrue(n)
    BY <2>1, <2>5 DEF NoneTrue
  <2> QED BY <2>3, <2>4, <2>5 DEF Leaves
<1>9. ASSUME NEW q \in 1 .. n
      PROVE  g[q] \in (live \ {Id}) \cup {u \in Pending(at - 1) : Lone(db, u)}
  <2>1. g[q] \in live \cup {u \in Pending(at) : Lone(db, u)} /\ g[q] # Id
    BY <1>1, <1>2, <1>8 DEF Available
  <2> QED BY <2>1, PendingAt DEF Removing
<1> QED BY <1>7, <1>8, <1>9

LEMMA StepBack ==
  ASSUME DratTypeOK, Shape, StepsOK, DratStep, pc = "backward", at \in DOMAIN steps,
         NEW g, NEW K, Linked(g, K), NEW n \in 0 .. Len(trail), trail' = SubSeq(trail, 1, n),
         forced' = n, pc' = "backward", at' = at - 1, db' = db, steps' = steps, marked' = marked,
         usedRat' = usedRat,
         \A q \in 1 .. n : g[q] \in live' \cup {u \in Pending(at - 1) : Lone(db, u)},
         \A u \in Pending(at - 1) : Lone(db, u) => Early(trail, g, n, u)
  PROVE  Links'
<1>1. /\ ~input.forward /\ Running /\ ~InRat /\ Reach = at
      /\ \A q \in DOMAIN trail : g[q] # 0
  BY BackwardFacts
<1>2. /\ Len(trail) \in Nat /\ DOMAIN trail = 1 .. Len(trail) /\ at \in Nat
      /\ 1 .. n \subseteq DOMAIN trail /\ n \in Nat
  BY TrailFacts
<1>3. input' = input /\ FormulaIds' = FormulaIds
  BY InputSame, SameNames
<1>4. ~Joining' /\ ~InRat' /\ Base' = n /\ Reach' = at - 1
  BY DEF Joining, InRat, Trying, Starting, Base, Reach
<1>5. PICK A, W, R, m, k, i : /\ A = Available' /\ W = Pending(at - 1)' /\ R = Pending(Reach)'
                              /\ m = Reach' /\ k = at' - 1 /\ i = at - 1
  OBVIOUS
<1>6. W = Pending(k) /\ R = Pending(m) /\ A = live' \cup {u \in Pending(m) : Lone(db, u)}
  BY <1>3, <1>5, PendingAfter, AvailableAfter
<1>7. m = i /\ i \in Int /\ k \in Int /\ k <= i
  BY <1>2, <1>4, <1>5
<1>8. W \subseteq Pending(i) /\ R \subseteq Pending(at)
  BY <1>6, <1>7, PendingGrows, PendingAt, <1>5
<1>9. \A q \in 1 .. n : g[q] \in Available'
  BY <1>5, <1>6, <1>7
<1>10. \A u \in W : Lone(db, u) => Early(trail, g, n, u)
  BY <1>5, <1>8
<1>11. \A u \in R \ FormulaIds : Lone(db, u) => u \in Pending(Reach)
  BY <1>1, <1>8
<1>12. \A q \in 1 .. n : trail[q].reason = 0 /\ g[q] # 0 => usedRat' \/ InRat'
  <2>1. Resets(g)
    BY <1>1, LinkFacts
  <2> QED BY <1>1, <1>2, <2>1 DEF Resets
<1>13. \A q \in 1 .. n : g[q] # 0
  BY <1>1, <1>2
<1>14. n \in Nat /\ n <= n /\ n <= Base' /\ Base' \in Int
  BY <1>2, <1>4
<1> QED BY <1>3, <1>4, <1>5, <1>9, <1>10, <1>11, <1>12, <1>13, <1>14, CutLinked

LEMMA BackLinks ==
  ASSUME DratTypeOK, Shape, StepsOK, Back, DratStep, Gate, NEW g, NEW K, Linked(g, K)
  PROVE  Links'
<1>1. /\ pc = "backward" /\ at \in DOMAIN steps /\ forced = Len(trail)
      /\ db' = db /\ steps' = steps /\ marked' = marked /\ pc' = pc
      /\ usedRat' = usedRat /\ at' = at - 1
      /\ \/ steps[at].op # "add" /\ live \subseteq live' /\ trail' = trail /\ forced' = forced
         \/ /\ steps[at].op = "add" /\ (Id \notin marked \/ steps[at].skip)
            /\ live' = live \ {Id}
            /\ \E n \in 0 .. Len(trail) :
                 /\ trail' = SubSeq(trail, 1, n) /\ forced' = n
                 /\ \A k \in 1 .. n : k \notin Gone(Id)
                 /\ n = Len(trail) \/ n + 1 \in Gone(Id)
  BY BackIs
<1>2. /\ ~input.forward /\ Running /\ Base = Len(trail) /\ Reach = at
      /\ \A q \in DOMAIN trail : g[q] \in Available
  BY <1>1, BackwardFacts
<1>3. trail \in Seq(Entries) /\ Len(trail) \in Nat /\ DOMAIN trail = 1 .. Len(trail)
  BY TrailFacts
<1>4. CASE steps[at].op # "add"
  <2>1. trail' = SubSeq(trail, 1, Len(trail)) /\ forced' = Len(trail) /\ live \subseteq live'
        /\ Len(trail) \in 0 .. Len(trail)
    BY <1>1, <1>3, <1>4, WholeTrail
  <2>2. \A q \in 1 .. Len(trail) : g[q] \in live' \cup {u \in Pending(at - 1) : Lone(db, u)}
    BY <1>1, <1>2, <1>3, <1>4, <2>1, PendingAt DEF Available
  <2>3. \A u \in Pending(at - 1) : Lone(db, u) => Early(trail, g, Len(trail), u)
    BY <1>2, LinkFacts DEF UnitsOn
  <2> QED BY <1>1, <2>1, <2>2, <2>3, StepBack
<1>5. CASE steps[at].op = "add"
  <2>1. PICK n \in 0 .. Len(trail) :
                 /\ trail' = SubSeq(trail, 1, n) /\ forced' = n
                 /\ \A k \in 1 .. n : k \notin Gone(Id)
                 /\ n = Len(trail) \/ n + 1 \in Gone(Id)
    BY <1>1, <1>5
  <2>2. live' = live \ {Id} /\ (Id \notin marked \/ steps[at].skip)
    BY <1>1, <1>5
  <2>3. /\ \A u \in Pending(at - 1) : Lone(db, u) => Early(trail, g, n, u)
        /\ \A q \in 1 .. n : g[q] \in (live \ {Id}) \cup {u \in Pending(at - 1) : Lone(db, u)}
    BY <1>1, <1>5, <2>1, <2>2, Removed DEF Removing, CutAt, Leaves
  <2> QED BY <1>1, <2>1, <2>2, <2>3, StepBack
<1> QED BY <1>4, <1>5

LEMMA CheckBackwardLinks ==
  ASSUME DratTypeOK, Shape, TrailOK, StepsOK, CheckBackward, DratStep, Running', NEW g, NEW K, Linked(g, K)
  PROVE  Links'
<1>1. /\ pc = "backward" /\ at \in DOMAIN steps /\ forced = Len(trail)
      /\ steps[at].op = "add" /\ live' = live \ {Id}
      /\ db' = db /\ steps' = steps /\ marked' = marked /\ usedRat' = usedRat
  BY CheckBackwardIs
<1>2. PICK n \in 0 .. Len(trail) :
         /\ forced' = n
         /\ \A k \in 1 .. n : k \notin Gone(Id)
         /\ n = Len(trail) \/ n + 1 \in Gone(Id)
         /\ NoneTrue(n)
         /\ \/ pc' = "backward" /\ at' = at - 1 /\ trail' = SubSeq(trail, 1, n)
            \/ /\ pc' = "propagate" /\ goal' = "check" /\ at' = at
               /\ trail' = SubSeq(trail, 1, n) \o Assume(StillOpen(n))
  BY CheckBackwardIs DEF Running
<1>3. /\ \A u \in Pending(at - 1) : Lone(db, u) => Early(trail, g, n, u)
      /\ \A q \in 1 .. n : g[q] \in (live \ {Id}) \cup {u \in Pending(at - 1) : Lone(db, u)}
  BY <1>1, <1>2, Removed DEF Removing, CutAt, Leaves
<1>4. CASE pc' = "backward"
  BY <1>1, <1>2, <1>3, <1>4, StepBack
<1>5. CASE pc' = "propagate"
  <2>1. goal' = "check" /\ at' = at /\ trail' = SubSeq(trail, 1, n) \o Assume(StillOpen(n))
    BY <1>2, <1>5
  <2>2. /\ ~input.forward /\ Running /\ ~InRat /\ Base = Len(trail) /\ Reach = at
        /\ \A q \in DOMAIN trail : g[q] # 0
    BY <1>1, BackwardFacts
  <2>3. /\ Len(trail) \in Nat /\ DOMAIN trail = 1 .. Len(trail) /\ at \in Nat
        /\ 1 .. n \subseteq DOMAIN trail /\ n \in Nat
    BY TrailFacts
  <2>4. input' = input /\ FormulaIds' = FormulaIds /\ Id' = Id
    BY <1>1, <2>1, InputSame, SameNames DEF Id
  <2>5. ~Joining' /\ ~InRat' /\ Checking' /\ Base' = n /\ Reach' = at - 1
    BY <1>2, <1>5, <2>1 DEF Joining, InRat, Checking, Trying, Starting, Base, Reach
  <2>6. PICK s : s = Assume(StillOpen(n))
    OBVIOUS
  <2>7. StillOpen(n) \in SUBSET Lits
    BY <1>1, StepIs DEF StillOpen, Id, DratTypeOK
  <2>8. s \in Seq(Entries) /\ \A k \in DOMAIN s : s[k].reason = 0 /\ -s[k].lit \in StillOpen(n)
    BY <2>6, <2>7, AssumeIs
  <2>9. PICK A, W, R, m, k : /\ A = Available' /\ W = Pending(at - 1)' /\ R = Pending(Reach)'
                             /\ m = Reach' /\ k = at' - 1
    OBVIOUS
  <2>10. W = Pending(k) /\ R = Pending(m) /\ A = live' \cup {u \in Pending(m) : Lone(db, u)}
    BY <1>1, <2>4, <2>9, PendingAfter, AvailableAfter
  <2>11. W = Pending(at - 1) /\ R = Pending(at - 1)
    BY <2>1, <2>5, <2>9, <2>10
  <2>12. \A q \in 1 .. n : g[q] \in Available'
    BY <1>1, <1>3, <2>5, <2>9, <2>10
  <2>13. ASSUME NEW u \in R \ FormulaIds, Lone(db, u)
         PROVE  u \in Pending(Reach) /\ \A j \in DOMAIN s : s[j].lit \notin db[u].lits
    <3>1. u \in Pending(at - 1) /\ u \in Pending(Reach)
      BY <1>1, <2>2, <2>11, PendingAt
    <3>2. PICK q \in DOMAIN trail : q <= n /\ trail[q].lit \in db[u].lits
      BY <1>3, <2>13, <3>1 DEF Early
    <3>3. IsFiniteSet(db[u].lits)
      BY <3>1, PendingIn
    <3>4. ASSUME NEW j \in DOMAIN s, s[j].lit \in db[u].lits  PROVE FALSE
      <4>1. s[j].lit = trail[q].lit
        BY <2>13, <3>2, <3>3, <3>4, Single DEF Lone
      <4>2. -s[j].lit \in StillOpen(n) /\ q \in 1 .. n
        BY <2>3, <2>8, <3>2
      <4>3. trail[q].lit # -(-s[j].lit)
        BY <4>2 DEF StillOpen
      <4>4. s[j].lit \in Lits
        BY <2>8, TrailDomain
      <4> QED BY <4>1, <4>3, <4>4, LitsAre
    <3> QED BY <3>1, <3>4
  <2>14. \A q \in 1 .. n : trail[q].reason = 0 /\ g[q] # 0 => usedRat' \/ InRat'
    <3>1. Resets(g)
      BY <2>2, LinkFacts
    <3> QED BY <1>1, <2>2, <2>3, <3>1 DEF Resets
  <2>15. \A q \in 1 .. n : g[q] # 0
    BY <2>2, <2>3
  <2>16. n \in Nat /\ n <= n /\ n <= Base' /\ Base' \in Int /\ n >= Base' /\ forced' \in Int
    <3>1. forced' = n
      BY <1>2
    <3> QED BY <2>3, <2>5, <3>1
  <2>17. \A u \in W : Lone(db, u) => Early(trail, g, n, u)
    BY <1>3, <2>11
  <2>18. trail' = SubSeq(trail, 1, n) \o s
    BY <2>1, <2>6
  <2>19. \A j \in DOMAIN s : s[j].reason = 0
    BY <2>8
  <2> QED BY <1>1, <2>4, <2>5, <2>8, <2>9, <2>12, <2>13, <2>14, <2>15, <2>16, <2>17, <2>18, <2>19, ConcatLinked
<1> QED BY <1>2, <1>4, <1>5

LEMMA ResetLinked ==
  ASSUME DratTypeOK, StepsOK, ~input.forward, Running,
         NEW g, NEW K, Linked(g, K), NEW k \in DOMAIN trail,
         NEW S \in SUBSET DOMAIN trail, \A j \in S : trail[j].reason = trail[k].reason,
         trail' = Unreasoned(trail, S)
  PROVE  /\ Supported(db, trail', g, Available)
         /\ \E L : Closed(db, trail', g, L, IF trail[k].reason = 0 THEN marked
                                            ELSE marked \cup Cone(trail[k].reason))
<1>0. trail \in Seq(Entries)
  BY TrailFacts
<1>1. InLits(db, Available) /\ Supported(db, trail, g, Available) /\ Closed(db, trail, g, K, marked)
  BY LinkFacts
<1>2. CASE trail[k].reason # 0
  <2>1. PICK r : r = trail[k].reason
    OBVIOUS
  <2>2. \A j \in S : j \in DOMAIN trail /\ trail[j].reason = r
    BY <2>1
  <2>3. /\ Supported(db, trail', g, Available)
        /\ Closed(db, trail', g, Follows(K, r) \cup S, marked \cup Cone(r))
    BY <1>0, <1>1, <1>2, <2>1, <2>2, ResetLinks
  <2> QED BY <1>2, <2>1, <2>3
<1>3. CASE trail[k].reason = 0
  <2>1. /\ DOMAIN trail' = DOMAIN trail
        /\ \A q \in DOMAIN trail : trail'[q].lit = trail[q].lit /\ trail'[q].reason = trail[q].reason
    BY <1>0, <1>3, UnreasonedIs
  <2>2. \A j \in 1 .. Len(trail) : trail'[j].lit = trail[j].lit
    BY <1>0, <2>1, TrailDomain
  <2>3. \A q \in DOMAIN trail : Others(db, trail', g, q) = Others(db, trail, g, q)
    BY <2>1 DEF Others
  <2>4. \A q \in DOMAIN trail : \A j \in 1 .. (q - 1) : j \in 1 .. Len(trail)
    BY <1>0, TrailDomain
  <2>5. Supported(db, trail', g, Available)
    BY <1>1, <2>1, <2>2, <2>3, <2>4 DEF Supported
  <2>6. Closed(db, trail', g, K, marked)
    BY <1>1, <2>1, <2>3 DEF Closed
  <2> QED BY <1>3, <2>5, <2>6
<1> QED BY <1>2, <1>3

LEMMA RatCandidateLinks ==
  ASSUME DratTypeOK, Shape, TrailOK, StepsOK, RatCandidate, DratStep, ~input.forward,
         NEW g, NEW K, Linked(g, K)
  PROVE  Links'
<1>1. /\ pc = "rat" /\ forced = Len(trail)
      /\ db' = db /\ steps' = steps /\ live' = live /\ at' = at
      /\ forced' = forced /\ usedRat' = usedRat
  BY RatCandidateIs
<1>2. PICK c \in rat.todo :
        /\ rat' = [rat EXCEPT !.todo = rat.todo \ {c}]
        /\ \/ /\ pc' = "propagate" /\ goal' = "rat" /\ marked' = marked
              /\ trail' = trail \o Assume(Open(c) \ {-rat.pivot})
           \/ /\ pc' = "rat"
              /\ \E k \in DOMAIN trail, S \in SUBSET DOMAIN trail :
                   /\ \A j \in S : trail[j].reason = trail[k].reason
                   /\ marked' = IF trail[k].reason = 0 THEN marked
                                ELSE marked \cup Cone(trail[k].reason)
                   /\ trail' = Unreasoned(trail, S)
  BY RatCandidateIs
<1>3. rat'.base = rat.base /\ rat.base \in Nat /\ c \in DOMAIN db
  BY <1>2 DEF DratTypeOK, TypeRat
<1>4. /\ Running /\ ~Joining' /\ InRat /\ InRat' /\ ~Starting /\ ~Starting' /\ ~Joining
      /\ Base = rat.base /\ Base' = rat.base /\ Reach' = at - 1 /\ Reach = at - 1
  BY <1>1, <1>2, <1>3 DEF Running, Joining, Starting, Checking, Trying, InRat, Base, Reach
<1>5. /\ trail \in Seq(Entries) /\ Len(trail) \in Nat /\ DOMAIN trail = 1 .. Len(trail)
      /\ rat.base <= forced
  BY <1>4, TrailFacts DEF TrailOK
<1>6. input' = input /\ FormulaIds' = FormulaIds /\ Id' = Id
  BY <1>1, InputSame, SameNames DEF Id
<1>7. PICK A, W, R, m, k : /\ A = Available' /\ W = Pending(at - 1)' /\ R = Pending(Reach)'
                           /\ m = Reach' /\ k = at' - 1
  OBVIOUS
<1>8. W = Pending(at - 1) /\ R = Pending(at - 1) /\ A = Available
  <2>1. W = Pending(k) /\ R = Pending(m) /\ A = live' \cup {u \in Pending(m) : Lone(db, u)}
    BY <1>1, <1>6, <1>7, PendingAfter, AvailableAfter
  <2>2. k = at - 1 /\ m = at - 1
    BY <1>1, <1>4, <1>7
  <2> QED BY <1>1, <1>4, <2>1, <2>2 DEF Available
<1>9. /\ \A q \in DOMAIN trail : g[q] # 0 => g[q] \in Available
      /\ Grounded(g) /\ UnitsOn(g) /\ UnitsOwn(g)
  BY <1>4, LinkFacts
<1>10. CASE pc' = "propagate"
  <2>1. marked' = marked /\ trail' = trail \o Assume(Open(c) \ {-rat.pivot})
    BY <1>2, <1>10
  <2>2. PICK s : s = Assume(Open(c) \ {-rat.pivot})
    OBVIOUS
  <2>3. Open(c) \in SUBSET Lits
    BY <1>3, OpenIs DEF DratTypeOK
  <2>4. s \in Seq(Entries) /\ \A j \in DOMAIN s : s[j].reason = 0 /\ -s[j].lit \in Open(c)
    BY <2>2, <2>3, AssumeIs
  <2>5. ASSUME NEW u \in R \ FormulaIds, Lone(db, u)
        PROVE  u \in Pending(Reach) /\ \A j \in DOMAIN s : s[j].lit \notin db[u].lits
    <3>1. u \in Pending(Reach) \ FormulaIds
      BY <1>4, <1>8, <2>5
    <3>2. db[u].lits \subseteq TrueLits
      BY <1>1, <2>5, <3>1, UnitTrue
    <3>3. ASSUME NEW j \in DOMAIN s, s[j].lit \in db[u].lits  PROVE FALSE
      <4>1. s[j].lit \in TrueLits /\ -(-s[j].lit) \notin TrueLits
        BY <2>4, <3>2, <3>3 DEF Open
      <4>2. s[j].lit \in Lits
        BY <2>4, TrailDomain
      <4> QED BY <4>1, <4>2, LitsAre
    <3> QED BY <3>1, <3>3
  <2>6. trail' = SubSeq(trail, 1, Len(trail)) \o s /\ Len(trail) \in 0 .. Len(trail)
    BY <1>5, <2>1, <2>2, WholeTrail
  <2>7. PICK b : b = Base
    OBVIOUS
  <2>8. \A u \in W : Lone(db, u) => Early(trail, g, b, u)
    BY <1>8, <1>9, <2>7 DEF UnitsOn
  <2>9. /\ b \in Nat /\ b <= Len(trail) /\ b <= Base' /\ Base' \in Int /\ Len(trail) >= Base'
        /\ forced' \in Int /\ Len(trail) >= forced'
    BY <1>1, <1>3, <1>4, <1>5, <2>7
  <2>10. ASSUME NEW q \in 1 .. Len(trail), g[q] = 0
         PROVE  q > Base' /\ -trail[q].lit \in db[Id].lits
    <3>1. q \in DOMAIN trail /\ q <= forced
      BY <1>1, <1>5
    <3> QED BY <1>4, <1>9, <2>10, <3>1 DEF Grounded
  <2>11. \A q \in 1 .. Len(trail) : g[q] # 0 => g[q] \in Available'
    BY <1>5, <1>7, <1>8, <1>9
  <2>12. \A j \in DOMAIN s : s[j].reason = 0
    BY <2>4
  <2> QED BY <1>1, <1>4, <1>6, <1>7, <2>1, <2>4, <2>5, <2>6, <2>8, <2>9, <2>10, <2>11, <2>12, ConcatLinked
<1>11. CASE pc' = "rat"
  <2>1. PICK i \in DOMAIN trail, S \in SUBSET DOMAIN trail :
                   /\ \A j \in S : trail[j].reason = trail[i].reason
                   /\ marked' = IF trail[i].reason = 0 THEN marked
                                ELSE marked \cup Cone(trail[i].reason)
                   /\ trail' = Unreasoned(trail, S)
    BY <1>2, <1>11
  <2>2. PICK L : Supported(db, trail', g, A) /\ Closed(db, trail', g, L, marked')
    BY <1>4, <1>8, <2>1, ResetLinked
  <2>3. /\ DOMAIN trail' = DOMAIN trail
        /\ \A q \in DOMAIN trail : trail'[q].lit = trail[q].lit
    BY <1>5, <2>1, UnreasonedIs
  <2>4. Grounded(g)'
    BY <1>1, <1>4, <1>6, <1>9, <2>3 DEF Grounded
  <2>5. Resets(g)'
    BY <1>4 DEF Resets
  <2>6. UnitsOn(g)'
    <3>1. ASSUME NEW u \in W, Lone(db, u)  PROVE Early(trail', g, Base', u)
      <4>1. Early(trail, g, Base', u)
        BY <1>4, <1>8, <1>9, <3>1 DEF UnitsOn
      <4> QED BY <2>3, <4>1 DEF Early
    <3> QED BY <1>1, <1>6, <1>7, <3>1 DEF UnitsOn, Early
  <2>7. UnitJoins(g)'
    BY <1>4 DEF UnitJoins
  <2>8. UnitsOwn(g)'
    BY <1>1, <1>4, <1>6, <1>7, <1>8, <1>9, <2>3 DEF UnitsOwn
  <2>9. Linked(g, L)'
    BY <1>1, <1>7, <2>2, <2>4, <2>5, <2>6, <2>7, <2>8 DEF Linked
  <2> QED BY <2>9, LinksFrom
<1> QED BY <1>2, <1>10, <1>11

\* Nothing but the end of the reading starts the run.
LEMMA Begins ==
  ASSUME DratStep, ~Running, Running'
  PROVE  Initialise
<1>1. pc = "parse" \/ pc = "done"
  BY DEF Running
<1>2. ReadAddition => pc' = "parse"
  BY <1>1 DEF ReadAddition
<1>3. ReadDeletion => pc' = "parse"
  BY <1>1 DEF ReadDeletion
<1>4. ~(EndOfUnits \/ StartRat \/ RatFails \/ PropagateUnit \/ Conflict)
  BY <1>1 DEF EndOfUnits, StartRat, RatFails, PropagateUnit, Conflict, Fixpoint
<1>5. ~(DeleteStep \/ SkipSatisfied \/ CheckForward \/ Insert \/ EndOfProof)
  BY <1>1 DEF DeleteStep, SkipSatisfied, CheckForward, Insert, EndOfProof, Adding, Deleting
<1>6. ~(Back \/ CheckBackward \/ AllChecked \/ RatCandidate \/ RatHolds)
  BY <1>1 DEF Back, CheckBackward, AllChecked, RatCandidate, RatHolds
<1> QED BY <1>2, <1>3, <1>4, <1>5, <1>6 DEF DratStep, Running

\* What a backward run can do while it goes on.
LEMMA BackwardSteps ==
  ASSUME DratStep, Running, Running', ~input.forward
  PROVE  \/ PropagateUnit \/ Conflict \/ EndOfUnits \/ DeleteStep \/ SkipSatisfied \/ Insert
         \/ Back \/ CheckBackward \/ StartRat \/ RatCandidate \/ RatHolds \/ RatFails
<1>1. ~ReadAddition /\ ~ReadDeletion /\ ~Initialise
  BY DEF ReadAddition, ReadDeletion, Initialise, Running
<1>2. ~CheckForward
  BY DEF CheckForward
<1>3. ~EndOfProof /\ ~AllChecked
  BY DEF EndOfProof, AllChecked, Stop, Running
<1> QED BY <1>1, <1>2, <1>3 DEF DratStep

LEMMA LinksStep ==
  ASSUME DratTypeOK, Shape, TrailOK, StepsOK, DratStep, ~input.forward, Running',
         Running => Gate /\ Links
  PROVE  Links'
<1>1. CASE ~Running
  BY <1>1, Begins, InitialiseLinks
<1>2. CASE Running
  <2>1. PICK g, K : Linked(g, K)
    BY <1>2 DEF Links
  <2>2. CASE PropagateUnit \/ Conflict
    BY <2>1, <2>2, PropagateLinks, ConflictLinks
  <2>3. CASE EndOfUnits \/ DeleteStep \/ SkipSatisfied
    BY <2>1, <2>3, EndOfUnitsLinks, PassLinks
  <2>4. CASE Insert \/ Back \/ CheckBackward
    BY <1>2, <2>1, <2>4, InsertLinks, BackLinks, CheckBackwardLinks
  <2>5. CASE StartRat \/ RatCandidate \/ RatHolds \/ RatFails
    BY <2>1, <2>5, StartRatLinks, RatCandidateLinks, RatHoldsLinks, RatFailsLinks
  <2> QED BY <1>2, <2>2, <2>3, <2>4, <2>5, BackwardSteps
<1> QED BY <1>1, <1>2

-----------------------------------------------------------------------------
(* Going back: what has been refuted stays refuted.                        *)

LEMMA AvailableKept ==
  ASSUME DratStep, steps' = steps, db' = db, live' = live, Reach' = Reach
  PROVE  Available' = Available
<1>1. input' = input
  BY InputSame
<1>2. PICK n : n = Reach'
  OBVIOUS
<1>3. Available' = live' \cup {u \in Pending(n) : Lone(db, u)}
  BY <1>1, <1>2, AvailableAfter
<1> QED BY <1>2, <1>3 DEF Available

LEMMA NeedsBack ==
  ASSUME DratStep, db' = db, NEW a, NEW S, NEW T, Needs(a, T)', NEW A, A = Available',
         \A e \in Available \cap S : e \in A \cap T \/ Holds(db, a, e)
  PROVE  Needs(a, S)
<1>1. Satisfies(a, Trusted)
  BY SameNames DEF Needs
<1>2. \A e \in A \cap T : Holds(db, a, e)
  BY DEF Needs
<1> QED BY <1>1, <1>2 DEF Needs

LEMMA LemmaStays ==
  ASSUME DratStep, db' = db, steps' = steps, at' = at, NEW S, NEW T, RefutesLemma(S), NEW A, A = Available',
         \A e \in Available \cap S : e \in A \cap T
  PROVE  RefutesLemma(T)'
<1>0. Id' = Id
  BY DEF Id
<1>1. ASSUME NEW a \in Assignments(Vars), Needs(a, T)'  PROVE ~Holds(db, a, Id)'
  <2>1. Needs(a, S)
    BY <1>1, NeedsBack
  <2> QED BY <1>0, <2>1 DEF RefutesLemma, Holds
<1> QED BY <1>1 DEF RefutesLemma

LEMMA SettledStays ==
  ASSUME DratStep, db' = db, steps' = steps, at' = at, Available' = Available, marked \subseteq marked',
         rat'.pivot = rat.pivot, NEW c, Settled(c)
  PROVE  Settled(c)'
<1>0. Id' = Id
  BY DEF Id
<1>1. PICK T, A : T = marked' /\ A = Available'
  OBVIOUS
<1>2. ASSUME NEW a \in Assignments(Vars), Needs(a, T)', ~Holds(db, a, Id)'  PROVE Elsewhere(a, c)'
  <2>1. Needs(a, marked)
    BY <1>1, <1>2, NeedsBack
  <2>2. ~Holds(db, a, Id)
    BY <1>0, <1>2 DEF Holds
  <2> QED BY <2>1, <2>2 DEF Settled, Elsewhere
<1> QED BY <1>1, <1>2 DEF Settled, Needs

\* What is assumed true on the trail is so for whoever falsifies the lemma.
LEMMA LemmaFalse ==
  ASSUME DratTypeOK, NEW a \in Assignments(Vars), ~Holds(db, a, Id), NEW q \in DOMAIN trail,
         -trail[q].lit \in db[Id].lits
  PROVE  trail[q].lit \in a
<1>1. trail[q].lit \in Lits /\ -trail[q].lit \in Lits
  BY TrailFacts, LitsAre
<1>2. -trail[q].lit \notin a
  BY DEF Holds
<1> QED BY <1>1, <1>2, AssignmentIs

LEMMA PropagateRefutation ==
  ASSUME DratTypeOK, StepsOK, PropagateUnit, DratStep, Refutation
  PROVE  Refutation'
<1>1. /\ db' = db /\ steps' = steps /\ at' = at /\ live' = live /\ marked' = marked
      /\ forced' = forced /\ pc' = pc /\ goal' = goal /\ rat' = rat /\ pc = "propagate"
  BY PropagateIs
<1>2. PICK d \in live, l \in Lits : trail' = Append(trail, [lit |-> l, reason |-> d])
  BY PropagateIs
<1>3. Checking' = Checking /\ InRat' = InRat /\ Trying' = Trying /\ Joining' = Joining /\ Starting' = Starting
  BY <1>1 DEF Checking, InRat, Trying, Joining, Starting
<1>4. Available' = Available
  <2>1. Reach' = Reach
    BY <1>1, <1>3 DEF Reach
  <2> QED BY <1>1, <2>1, AvailableKept
<1>5. d \in Nat \ {0}
  BY DbIs DEF DratTypeOK, TypeDb
<1>6. PICK e : e = [lit |-> l, reason |-> d]
  OBVIOUS
<1>7. e \in Entries /\ e.reason # 0
  BY <1>5, <1>6 DEF Entries
<1>8. /\ trail \in Seq(Entries) /\ DOMAIN trail' = 1 .. (Len(trail) + 1)
      /\ \A q \in DOMAIN trail : trail'[q] = trail[q]
      /\ trail'[Len(trail) + 1] = e
      /\ DOMAIN trail = 1 .. Len(trail) /\ Len(trail) \in Nat
  BY <1>2, <1>6, <1>7, TrailFacts, ExtendIs
<1>9. ASSUME Checking'  PROVE RefutesLemma(marked)'
  <2>1. PICK T, A : T = marked' /\ A = Available'
    OBVIOUS
  <2>2. RefutesLemma(T)
    BY <1>1, <1>3, <1>9, <2>1 DEF Refutation
  <2>3. RefutesLemma(T)'
    BY <1>1, <1>4, <2>1, <2>2, LemmaStays
  <2> QED BY <2>1, <2>3 DEF RefutesLemma, Needs
<1>10. ASSUME InRat'  PROVE \E M \in SUBSET marked' : RefutesLemma(M)' /\ Pursued(M)'
  <2>1. PICK M \in SUBSET marked : RefutesLemma(M) /\ Pursued(M)
    BY <1>3, <1>10 DEF Refutation
  <2>2. PICK A : A = Available'
    OBVIOUS
  <2>3. RefutesLemma(M)'
    BY <1>1, <1>4, <2>1, <2>2, LemmaStays
  <2>4. ASSUME NEW c \in live \cap M, -rat.pivot \in db[c].lits
        PROVE  c \in rat.todo \/ Settled(c)' \/ (Trying' /\ Current(c)')
    <3>1. CASE Settled(c)
      BY <1>1, <1>4, <3>1, SettledStays
    <3>2. CASE Trying /\ Current(c)
      <4>1. ASSUME NEW q \in DOMAIN trail', q > forced, trail'[q].reason = 0
            PROVE  -trail'[q].lit \in db[c].lits \ {-rat.pivot}
        <5>1. q \in DOMAIN trail
          BY <1>7, <1>8, <4>1
        <5> QED BY <1>8, <3>2, <4>1, <5>1 DEF Current
      <4>2. Current(c)'
        BY <1>1, <4>1 DEF Current
      <4> QED BY <1>3, <3>2, <4>2
    <3> QED BY <2>1, <2>4, <3>1, <3>2 DEF Pursued
  <2>5. Pursued(M)'
    BY <1>1, <2>4 DEF Pursued
  <2> QED BY <1>1, <2>1, <2>3, <2>5
<1>11. pc' # "backward"
  BY <1>1
<1> QED BY <1>9, <1>10, <1>11 DEF Refutation

\* A conflict shows that what its clause follows from cannot hold.
LEMMA ConflictFalse ==
  ASSUME DratTypeOK, StepsOK, ~input.forward, Running, NEW g, NEW K, Linked(g, K),
         NEW c \in live, Open(c) = {}, NEW a \in Assignments(Vars), Assumed(trail, g, a),
         NEW T, marked \cup Cone(c) \subseteq T, Needs(a, T)
  PROVE  FALSE
<1>1. InLits(db, Available) /\ Supported(db, trail, g, Available) /\ Closed(db, trail, g, K, marked)
  BY LinkFacts
<1>2. trail \in Seq(Entries) /\ c \in Available /\ c \in Cone(c) /\ db[c].lits \subseteq Lits /\ ~Unit(c)
  BY <1>1, TrailFacts, ConeIs DEF Available, InLits, StepsOK, LiveOK, Unit
<1>3. AllHold(db, a, Available \cap (marked \cup Cone(c))) /\ Holds(db, a, c)
  BY <1>2 DEF Needs, AllHold
<1> QED BY <1>1, <1>2, <1>3, ConflictRefutes

LEMMA ConflictRefutation ==
  ASSUME DratTypeOK, Shape, TrailOK, StepsOK, Conflict, DratStep, ~input.forward, Running',
         Links, Refutation
  PROVE  Refutation'
<1>1. /\ pc = "propagate"
      /\ db' = db /\ steps' = steps /\ live' = live /\ forced' = forced /\ rat' = rat
      /\ goal' = goal
      /\ \/ Joining /\ pc' = "backward"
         \/ Checking /\ pc' = "backward" /\ at' = at - 1
         \/ Trying /\ pc' = "rat" /\ at' = at
      /\ Joining => at' = at
  BY ConflictIs DEF Running, Joining, Checking, Trying
<1>2. PICK c \in live : Open(c) = {} /\ marked' = marked \cup Cone(c)
  BY ConflictIs
<1>3. PICK g, K : Linked(g, K)
  BY DEF Links
<1>4. Running /\ ~Joining' /\ ~Starting' /\ ~Checking' /\ ~Trying' /\ ~Starting
  BY <1>1 DEF Running, Joining, Starting, Checking, Trying
<1>5. Reach' = Reach
  <2>1. CASE Joining
    BY <1>1, <2>1 DEF Joining, Checking, Trying, Reach, Starting
  <2>2. CASE Checking
    BY <1>1, <2>2 DEF Joining, Checking, Trying, Reach, Starting
  <2>3. CASE Trying
    BY <1>1, <2>3 DEF Joining, Checking, Trying, Reach, Starting
  <2> QED BY <1>1, <2>1, <2>2, <2>3
<1>6. Available' = Available
  BY <1>1, <1>5, AvailableKept
<1>7. PICK T, A : T = marked' /\ A = Available'
  OBVIOUS
<1>8. marked \cup Cone(c) \subseteq T /\ marked \subseteq T
  BY <1>2, <1>7
<1>9. \A q \in DOMAIN trail : trail[q].reason \in {0, g[q]}
  BY <1>3, <1>4, LinkFacts
<1>10. Grounded(g)
  BY <1>3, <1>4, LinkFacts
<1>11. ASSUME NEW a \in Assignments(Vars), Needs(a, T)'  PROVE Needs(a, T) /\ Needs(a, marked)
  <2>1. Needs(a, T)
    BY <1>1, <1>6, <1>7, <1>11, NeedsBack
  <2>2. Needs(a, marked)
    BY <1>8, <2>1 DEF Needs
  <2> QED BY <2>1, <2>2
<1>12. CASE Joining
  <2>1. ~Checking /\ ~InRat /\ ~InRat'
    BY <1>1, <1>4, <1>12 DEF Joining, Checking, InRat, Trying
  <2>2. ASSUME NEW a \in Assignments(Vars), Needs(a, T)'  PROVE FALSE
    <3>1. Assumed(trail, g, a)
      BY <1>10, <2>1 DEF Assumed, Grounded
    <3> QED BY <1>2, <1>3, <1>4, <1>8, <1>11, <2>2, <3>1, ConflictFalse
  <2>3. Refutes(marked)'
    BY <1>7, <2>2 DEF Refutes, Needs
  <2> QED BY <1>4, <2>1, <2>3 DEF Refutation
<1>13. CASE Checking
  <2>1. ~InRat /\ ~InRat' /\ Base = forced
    BY <1>1, <1>4, <1>13 DEF Checking, InRat, Trying, Base
  <2>2. ASSUME NEW a \in Assignments(Vars), Needs(a, T)'  PROVE FALSE
    <3>1. ~Holds(db, a, Id)
      BY <1>11, <1>13, <2>2 DEF Refutation, RefutesLemma
    <3>2. Assumed(trail, g, a)
      <4>1. ASSUME NEW q \in DOMAIN trail, g[q] = 0  PROVE trail[q].lit \in a
        <5>1. q > forced /\ trail[q].reason = 0
          BY <1>9, <1>10, <2>1, <4>1 DEF Grounded
        <5>2. -trail[q].lit \in db[Id].lits
          BY <1>13, <5>1 DEF TrailOK
        <5> QED BY <3>1, <5>2, LemmaFalse
      <4> QED BY <4>1 DEF Assumed
    <3> QED BY <1>2, <1>3, <1>4, <1>8, <1>11, <2>2, <3>2, ConflictFalse
  <2>3. Refutes(marked)'
    BY <1>7, <2>2 DEF Refutes, Needs
  <2> QED BY <1>4, <2>1, <2>3 DEF Refutation
<1>14. CASE Trying
  <2>0. InRat /\ pc' = "rat" /\ at' = at /\ Id' = Id
    BY <1>1, <1>14 DEF InRat, Trying, Joining, Checking, Id
  <2>1. PICK M \in SUBSET marked : RefutesLemma(M) /\ Pursued(M)
    BY <2>0 DEF Refutation
  <2>2. RefutesLemma(M)'
    BY <1>1, <1>6, <1>7, <2>0, <2>1, LemmaStays
  <2>3. ASSUME NEW d \in live \cap M, -rat.pivot \in db[d].lits
        PROVE  d \in rat.todo \/ Settled(d)'
    <3>1. CASE Settled(d)
      BY <1>1, <1>6, <1>7, <1>8, <2>0, <3>1, SettledStays
    <3>2. CASE Current(d)
      <4>1. ASSUME NEW a \in Assignments(Vars), Needs(a, T)', ~Holds(db, a, Id), ~Elsewhere(a, d)
            PROVE  FALSE
        <5>1. ASSUME NEW q \in DOMAIN trail, g[q] = 0  PROVE trail[q].lit \in a
          <6>1. CASE q <= forced
            <7>1. -trail[q].lit \in db[Id].lits
              BY <1>10, <2>0, <5>1, <6>1 DEF Grounded
            <7> QED BY <4>1, <7>1, LemmaFalse
          <6>2. CASE q > forced
            <7>1. trail[q].reason = 0
              BY <1>9, <5>1
            <7>2. -trail[q].lit \in db[d].lits \ {-rat.pivot}
              BY <3>2, <6>2, <7>1 DEF Current
            <7>3. -trail[q].lit \notin a
              BY <4>1, <7>2 DEF Elsewhere
            <7> QED BY <7>3, TrailFacts, LitsAre, AssignmentIs
          <6>3. q \in Nat /\ forced \in Nat
            BY TrailFacts
          <6> QED BY <6>1, <6>2, <6>3
        <5>2. Assumed(trail, g, a)
          BY <5>1 DEF Assumed
        <5> QED BY <1>2, <1>3, <1>4, <1>8, <1>11, <4>1, <5>2, ConflictFalse
      <4>2. Settled(d)'
        BY <1>1, <1>7, <2>0, <4>1 DEF Settled, Needs, Holds, Elsewhere
      <4> QED BY <4>2
    <3> QED BY <2>1, <2>3, <3>1, <3>2 DEF Pursued
  <2>4. Pursued(M)'
    BY <1>1, <2>3 DEF Pursued
  <2>5. M \in SUBSET marked'
    BY <1>7, <1>8
  <2> QED BY <1>4, <2>0, <2>2, <2>4, <2>5 DEF Refutation
<1> QED BY <1>1, <1>12, <1>13, <1>14

\* A step that is skipped is one of a trusted clause.
LEMMA SkipTrusted ==
  ASSUME StepsOK, at \in DOMAIN steps, steps[at].op = "add", steps[at].skip
  PROVE  /\ db[Id].lits \in Trusted
         /\ \A a : Satisfies(a, Trusted) => Holds(db, a, Id)
<1>1. db[Id].lits \in Trusted
  BY DEF StepsOK, AddsOK, Id
<1> QED BY <1>1 DEF Satisfies, Holds

LEMMA InsertRefutation ==
  ASSUME DratTypeOK, Shape, StepsOK, Insert, DratStep, ~input.forward, Running', Gate, Links
  PROVE  Refutation'
<1>1. /\ pc = "forward" /\ at \in DOMAIN steps /\ steps[at].op = "add"
      /\ live \subseteq live' /\ db' = db /\ steps' = steps
      /\ \/ pc' = "forward"
         \/ pc' = "propagate" /\ goal' = "lemma"
         \/ /\ pc' = "backward" /\ Open(Id) = {} /\ steps[at].skip
            /\ at' = at /\ marked' = marked \cup Cone(Id)
  <2>1. pc # "insert"
    BY DEF Shape
  <2>2. live \subseteq live'
    BY InsertIs
  <2> QED BY <2>1, <2>2, InsertIs DEF Running
<1>2. ~Checking' /\ ~InRat'
  BY <1>1 DEF Checking, InRat, Trying
<1>3. ASSUME pc' = "backward"  PROVE Refutes(marked)'
  <2>1. Open(Id) = {} /\ steps[at].skip /\ at' = at /\ marked' = marked \cup Cone(Id)
    BY <1>1, <1>3
  <2>2. PICK g, K : Linked(g, K)
    BY DEF Links
  <2>3. Running /\ ~Checking /\ ~InRat /\ Reach = at - 1
    BY <1>1 DEF Running, Checking, InRat, Trying, Reach, Joining, Starting
  <2>4. /\ InLits(db, Available) /\ Supported(db, trail, g, Available) /\ Closed(db, trail, g, K, marked)
        /\ Grounded(g)
    BY <2>2, <2>3, LinkFacts
  <2>5. PICK T, A, m : T = marked' /\ A = Available' /\ m = Reach'
    OBVIOUS
  <2>6. Available \subseteq A
    <3>1. m = at
      BY <1>3, <2>1, <2>5 DEF Reach, Starting
    <3>2. A = live' \cup {u \in Pending(m) : Lone(db, u)}
      BY <1>1, <2>5, AvailableAfter, InputSame
    <3> QED BY <1>1, <2>3, <3>1, <3>2, PendingAt DEF Available
  <2>7. ~Unit(Id) /\ db[Id].lits \subseteq Lits
    <3>1. db[Id].lits \in Trusted
      BY <1>1, <2>1, SkipTrusted
    <3>2. Cardinality(db[Id].lits) > 1
      BY <3>1 DEF Gate
    <3>3. db[Id].lits \subseteq Lits
      BY <1>1, StepIs DEF DratTypeOK, Id
    <3> QED BY <3>2, <3>3 DEF Unit
  <2>8. ASSUME NEW a \in Assignments(Vars), Needs(a, T)'  PROVE FALSE
    <3>1. Needs(a, T)
      BY <1>1, <2>5, <2>6, <2>8, NeedsBack
    <3>2. AllHold(db, a, Available \cap (marked \cup Cone(Id)))
      BY <2>1, <2>5, <3>1 DEF AllHold, Needs
    <3>3. Assumed(trail, g, a)
      BY <2>3, <2>4 DEF Assumed, Grounded
    <3>4. ~Holds(db, a, Id)
      BY <2>1, <2>4, <2>7, <3>2, <3>3, TrailFacts, ConflictRefutes
    <3>5. Satisfies(a, Trusted)
      BY <3>1 DEF Needs
    <3> QED BY <1>1, <2>1, <3>4, <3>5, SkipTrusted
  <2> QED BY <2>5, <2>8 DEF Refutes, Needs
<1> QED BY <1>2, <1>3 DEF Refutation

LEMMA BackRefutation ==
  ASSUME DratTypeOK, Shape, StepsOK, Back, DratStep, Refutation
  PROVE  Refutation'
<1>1. /\ pc = "backward" /\ at \in DOMAIN steps
      /\ db' = db /\ steps' = steps /\ marked' = marked /\ pc' = pc /\ at' = at - 1
      /\ \/ steps[at].op # "add" /\ live \subseteq live'
         \/ steps[at].op = "add" /\ (Id \notin marked \/ steps[at].skip) /\ live' = live \ {Id}
  BY BackIs
<1>2. ~Checking' /\ ~InRat'
  BY <1>1 DEF Checking, InRat, Trying
<1>3. PICK T, A, m : T = marked' /\ A = Available' /\ m = Reach'
  OBVIOUS
<1>4. A = live' \cup {u \in Pending(at - 1) : Lone(db, u)} /\ Reach = at
  <2>1. m = at - 1 /\ Reach = at
    BY <1>1, <1>3 DEF Reach, Starting
  <2> QED BY <1>1, <1>3, <2>1, AvailableAfter, InputSame
<1>5. \A e \in Available : e \in A \/ (steps[at].op = "add" /\ e = Id)
  BY <1>1, <1>4, PendingAt DEF Available
<1>6. ASSUME NEW a \in Assignments(Vars), Needs(a, T)'  PROVE FALSE
  <2>1. \A e \in Available \cap marked : e \in A \cap T \/ Holds(db, a, e)
    <3>1. Satisfies(a, Trusted)
      BY <1>6, SameNames DEF Needs
    <3>2. steps[at].op = "add" => Id \notin marked \/ Holds(db, a, Id)
      BY <1>1, <3>1, SkipTrusted
    <3> QED BY <1>1, <1>3, <1>5, <3>2
  <2>2. Needs(a, marked)
    BY <1>1, <1>3, <1>6, <2>1, NeedsBack
  <2> QED BY <1>1, <2>2 DEF Refutation, Refutes
<1>7. Refutes(marked)'
  BY <1>3, <1>6 DEF Refutes, Needs
<1> QED BY <1>2, <1>7 DEF Refutation

LEMMA CheckBackwardRefutation ==
  ASSUME DratTypeOK, Shape, StepsOK, CheckBackward, DratStep, Running', Refutation
  PROVE  Refutation'
<1>1. /\ pc = "backward" /\ at \in DOMAIN steps /\ steps[at].op = "add" /\ live' = live \ {Id}
      /\ db' = db /\ steps' = steps /\ marked' = marked
      /\ \/ Inconsistent(db[Id].lits) /\ pc' = "backward" /\ at' = at - 1
         \/ pc' = "propagate" /\ goal' = "check" /\ at' = at
  BY CheckBackwardIs DEF Running
<1>2. ~InRat' /\ Reach = at /\ Reach' = at - 1
  BY <1>1 DEF InRat, Trying, Reach, Joining, Starting
<1>3. PICK T, A, m : T = marked' /\ A = Available' /\ m = Reach'
  OBVIOUS
<1>4. A = live' \cup {u \in Pending(at - 1) : Lone(db, u)}
  BY <1>1, <1>2, <1>3, AvailableAfter, InputSame
<1>5. \A e \in Available : e \in A \/ e = Id
  BY <1>1, <1>2, <1>4, PendingAt DEF Available
\* Whoever satisfies what is left falsifies the lemma.
<1>6. ASSUME NEW a \in Assignments(Vars), Needs(a, T)', Holds(db, a, Id)  PROVE FALSE
  <2>1. Needs(a, marked)
    BY <1>1, <1>3, <1>5, <1>6, NeedsBack
  <2> QED BY <1>1, <2>1 DEF Refutation, Refutes
<1>7. ASSUME pc' = "backward"  PROVE Refutes(marked)'
  <2>1. PICK l \in db[Id].lits : -l \in db[Id].lits
    BY <1>1, <1>7 DEF Inconsistent
  <2>2. l \in Lits
    BY <1>1, StepIs DEF DratTypeOK, Id
  <2>3. ASSUME NEW a \in Assignments(Vars)  PROVE Holds(db, a, Id)
    BY <2>1, <2>2, AssignmentIs DEF Holds
  <2> QED BY <1>3, <1>6, <2>3 DEF Refutes, Needs
<1>8. ASSUME Checking'  PROVE RefutesLemma(marked)'
  <2>1. Id' = Id
    BY <1>1, <1>8 DEF Checking, Id
  <2> QED BY <1>1, <1>3, <1>6, <2>1 DEF RefutesLemma, Needs, Holds
<1> QED BY <1>2, <1>7, <1>8 DEF Refutation

LEMMA StartRatRefutation ==
  ASSUME DratTypeOK, Shape, StartRat, DratStep, ~input.forward, Running', Refutation
  PROVE  Refutation'
<1>1. /\ Checking /\ db' = db /\ steps' = steps /\ at' = at /\ live' = live
      /\ marked' = marked /\ pc' = "rat" /\ rat'.todo = Candidates(rat'.pivot)
  <2>1. pc' # "done"
    BY DEF Running
  <2>2. PICK U, p : rat' = [pivot |-> p, todo |-> Candidates(p), untried |-> U, base |-> forced]
    BY <2>1, StartRatIs
  <2>3. rat'.todo = Candidates(rat'.pivot)
    BY <2>2
  <2> QED BY <2>1, <2>3, StartRatIs
<1>2. Reach' = Reach /\ ~Checking'
  BY <1>1 DEF Checking, Reach, Starting, Joining
<1>3. PICK T, A : T = marked' /\ A = Available'
  OBVIOUS
<1>4. A = Available /\ T = marked
  BY <1>1, <1>2, <1>3, AvailableKept
<1>5. RefutesLemma(T)'
  BY <1>1, <1>3, <1>4, LemmaStays DEF Refutation
<1>6. \A c \in live' \cap T : -rat'.pivot \in db[c].lits => c \in rat'.todo
  BY <1>1, <1>4 DEF Candidates
<1>7. Pursued(T)'
  BY <1>1, <1>6 DEF Pursued
<1> QED BY <1>1, <1>2, <1>3, <1>5, <1>7 DEF Refutation

LEMMA RatFailsRefutation ==
  ASSUME DratTypeOK, RatFails, DratStep, ~input.forward, Running', Refutation
  PROVE  Refutation'
<1>1. /\ Trying /\ db' = db /\ steps' = steps /\ at' = at /\ live' = live
      /\ marked' = marked /\ pc' = "rat" /\ rat'.todo = Candidates(rat'.pivot)
  <2>1. pc' # "done"
    BY DEF Running
  <2>2. PICK p, U : rat' = [rat EXCEPT !.pivot = p, !.todo = Candidates(p), !.untried = U]
    BY <2>1, RatFailsIs
  <2>3. rat'.todo = Candidates(rat'.pivot)
    BY <2>2 DEF DratTypeOK, TypeRat
  <2> QED BY <2>1, <2>3, RatFailsIs
<1>2. Reach' = Reach /\ ~Checking' /\ InRat
  BY <1>1 DEF Checking, Trying, InRat, Reach, Starting, Joining
<1>3. PICK T, A : T = marked' /\ A = Available'
  OBVIOUS
<1>4. A = Available /\ T = marked
  BY <1>1, <1>2, <1>3, AvailableKept
<1>5. PICK M \in SUBSET marked : RefutesLemma(M)
  BY <1>2 DEF Refutation
<1>6. RefutesLemma(T)'
  BY <1>1, <1>3, <1>4, <1>5, LemmaStays
<1>7. \A c \in live' \cap T : -rat'.pivot \in db[c].lits => c \in rat'.todo
  BY <1>1, <1>4 DEF Candidates
<1>8. Pursued(T)'
  BY <1>1, <1>7 DEF Pursued
<1> QED BY <1>1, <1>2, <1>3, <1>6, <1>8 DEF Refutation

\* A literal that a RAT candidate shares with the trail is true for whoever has to
\* be refuted, once its reason is marked with all that it follows from.
LEMMA BlockingTrue ==
  ASSUME DratTypeOK, StepsOK, ~input.forward, Running, NEW g, NEW K, Linked(g, K),
         NEW k \in DOMAIN trail, NEW a \in Assignments(Vars), Assumed(trail, g, a),
         NEW T, Needs(a, T),
         T = IF trail[k].reason = 0 THEN marked ELSE marked \cup Cone(trail[k].reason)
  PROVE  trail[k].lit \in a
<1>1. /\ InLits(db, Available) /\ Supported(db, trail, g, Available) /\ Closed(db, trail, g, K, marked)
      /\ trail \in Seq(Entries)
  BY LinkFacts, TrailFacts
<1>2. CASE trail[k].reason = 0
  <2>1. AllHold(db, a, Available \cap marked)
    BY <1>2 DEF AllHold, Needs
  <2>2. AllTrue(trail, K, a)
    BY <1>1, <2>1, ClosedTrue
  <2> QED BY <1>1, <1>2, <2>2 DEF Closed, AllTrue
<1>3. CASE trail[k].reason # 0
  <2>1. AllHold(db, a, Available \cap (marked \cup Cone(trail[k].reason)))
    BY <1>3 DEF AllHold, Needs
  <2> QED BY <1>1, <1>3, <2>1, ReasonTrue
<1> QED BY <1>2, <1>3

LEMMA RatCandidateRefutation ==
  ASSUME DratTypeOK, Shape, TrailOK, StepsOK, RatCandidate, DratStep, ~input.forward, Links, Refutation
  PROVE  Refutation'
<1>1. /\ pc = "rat" /\ forced = Len(trail)
      /\ db' = db /\ steps' = steps /\ live' = live /\ at' = at /\ forced' = forced
  BY RatCandidateIs
<1>2. PICK d \in rat.todo :
        /\ rat' = [rat EXCEPT !.todo = rat.todo \ {d}]
        /\ \/ /\ pc' = "propagate" /\ goal' = "rat" /\ marked' = marked
              /\ trail' = trail \o Assume(Open(d) \ {-rat.pivot})
           \/ /\ pc' = "rat"
              /\ \E k \in DOMAIN trail :
                   /\ trail[k].lit \in db[d].lits \ {-rat.pivot}
                   /\ marked' = IF trail[k].reason = 0 THEN marked
                                ELSE marked \cup Cone(trail[k].reason)
  BY RatCandidateIs
<1>3. rat'.pivot = rat.pivot /\ rat'.todo = rat.todo \ {d} /\ d \in DOMAIN db
  BY <1>2 DEF DratTypeOK, TypeRat
<1>4. Running /\ InRat /\ InRat' /\ ~Checking' /\ ~Trying /\ Reach' = Reach
  BY <1>1, <1>2 DEF Running, InRat, Checking, Trying, Reach, Starting, Joining
<1>5. Available' = Available /\ Id' = Id /\ marked \subseteq marked'
  BY <1>1, <1>2, <1>4, AvailableKept DEF Id
<1>6. PICK T, A : T = marked' /\ A = Available'
  OBVIOUS
<1>7. PICK M \in SUBSET marked : RefutesLemma(M) /\ Pursued(M)
  BY <1>4 DEF Refutation
<1>8. RefutesLemma(M)'
  BY <1>1, <1>5, <1>6, <1>7, LemmaStays
<1>9. ASSUME NEW c, Settled(c)  PROVE Settled(c)'
  BY <1>1, <1>3, <1>5, <1>9, SettledStays
\* The candidate taken up is pursued or settled.
<1>10. (Trying' /\ Current(d)') \/ Settled(d)'
  <2>1. CASE pc' = "propagate"
    <3>1. goal' = "rat" /\ trail' = trail \o Assume(Open(d) \ {-rat.pivot})
      BY <1>2, <2>1
    <3>2. PICK s : s = Assume(Open(d) \ {-rat.pivot})
      OBVIOUS
    <3>3. Open(d) \ {-rat.pivot} \in SUBSET Lits /\ Open(d) \subseteq db[d].lits
      BY <1>3, OpenIs DEF DratTypeOK
    <3>4. s \in Seq(Entries) /\ \A j \in DOMAIN s : -s[j].lit \in Open(d) \ {-rat.pivot}
      BY <3>2, <3>3, AssumeIs
    <3>5. \A q \in DOMAIN trail' : q > Len(trail) => q - Len(trail) \in DOMAIN s /\ trail'[q] = s[q - Len(trail)]
      BY <3>1, <3>2, <3>4, TrailFacts, ConcatIs
    <3>6. \A q \in DOMAIN trail' : q > forced => -trail'[q].lit \in db[d].lits \ {-rat.pivot}
      BY <1>1, <3>3, <3>4, <3>5
    <3>7. Current(d)'
      BY <1>1, <1>3, <3>6 DEF Current
    <3> QED BY <2>1, <3>1, <3>7 DEF Trying
  <2>2. CASE pc' = "rat"
    <3>1. PICK k \in DOMAIN trail :
                   /\ trail[k].lit \in db[d].lits \ {-rat.pivot}
                   /\ marked' = IF trail[k].reason = 0 THEN marked
                                ELSE marked \cup Cone(trail[k].reason)
      BY <1>2, <2>2
    <3>2. PICK g, K : Linked(g, K)
      BY DEF Links
    <3>3. Grounded(g)
      BY <1>4, <3>2, LinkFacts
    <3>4. ASSUME NEW a \in Assignments(Vars), Needs(a, T)', ~Holds(db, a, Id)  PROVE Elsewhere(a, d)
      <4>1. Needs(a, T)
        BY <1>1, <1>5, <1>6, <3>4, NeedsBack
      <4>2. ASSUME NEW q \in DOMAIN trail, g[q] = 0  PROVE trail[q].lit \in a
        <5>1. q <= forced
          BY <1>1, TrailFacts
        <5>2. -trail[q].lit \in db[Id].lits
          BY <1>4, <3>3, <4>2, <5>1 DEF Grounded
        <5> QED BY <3>4, <5>2, LemmaFalse
      <4>3. Assumed(trail, g, a)
        BY <4>2 DEF Assumed
      <4>4. T = IF trail[k].reason = 0 THEN marked ELSE marked \cup Cone(trail[k].reason)
        BY <1>6, <3>1
      <4>5. trail[k].lit \in a
        BY <1>4, <3>2, <4>1, <4>3, <4>4, BlockingTrue
      <4> QED BY <3>1, <4>5 DEF Elsewhere
    <3>5. Settled(d)'
      BY <1>1, <1>3, <1>5, <1>6, <3>4 DEF Settled, Needs, Holds, Elsewhere
    <3> QED BY <3>5
  <2> QED BY <1>2, <2>1, <2>2
<1>11. Pursued(M)'
  <2>1. ASSUME NEW c \in live \cap M, -rat.pivot \in db[c].lits
        PROVE  c \in rat.todo \ {d} \/ Settled(c)' \/ (Trying' /\ Current(c)')
    BY <1>4, <1>7, <1>9, <1>10, <2>1 DEF Pursued
  <2> QED BY <1>1, <1>3, <2>1 DEF Pursued
<1>12. pc' # "backward"
  BY <1>2
<1> QED BY <1>4, <1>5, <1>7, <1>8, <1>11, <1>12 DEF Refutation

LEMMA RatHoldsRefutation ==
  ASSUME DratTypeOK, Shape, TrailOK, StepsOK, RatHolds, DratStep, ~input.forward, Gate', Links, Refutation
  PROVE  Refutation'
<1>1. /\ pc = "rat" /\ rat.todo = {} /\ db' = db /\ steps' = steps /\ live' = live
      /\ marked' = marked /\ usedRat' = TRUE /\ pc' = "backward" /\ at' = at - 1
  BY RatHoldsIs
<1>2. Running /\ InRat /\ ~InRat' /\ ~Checking' /\ ~Trying /\ Reach' = Reach /\ Reach = at - 1 /\ Base = rat.base
  BY <1>1 DEF Running, InRat, Checking, Trying, Reach, Starting, Joining, Base
<1>3. Available' = Available
  BY <1>1, <1>2, AvailableKept
<1>4. PICK T, A : T = marked' /\ A = Available'
  OBVIOUS
<1>5. PICK M \in SUBSET marked : RefutesLemma(M) /\ Pursued(M)
  BY <1>2 DEF Refutation
<1>6. Trusted = {}
  BY <1>1, SameNames DEF Gate
<1>7. PICK g, K : Linked(g, K)
  BY DEF Links
<1>8. PICK p : p = rat.pivot
  OBVIOUS
<1>9. /\ p \in db[Id].lits /\ p \in Lits /\ -p \in Lits /\ -p # p
      /\ \A j \in 1 .. rat.base : trail[j].lit # -p
  <2>1. p \in db[Id].lits /\ \A j \in 1 .. rat.base : trail[j].lit # -p
    BY <1>2, <1>8 DEF TrailOK
  <2>2. at \in DOMAIN steps
    BY <1>2 DEF Shape
  <2>3. p \in Lits
    BY <2>1, <2>2, StepIs DEF DratTypeOK, Id
  <2> QED BY <2>1, <2>3, LitsAre
\* A clause with the negated pivot is satisfied by another literal.
<1>10. ASSUME NEW a \in Assignments(Vars), Needs(a, marked), ~Holds(db, a, Id)
       PROVE  Needs(Flip(a, p), M)
  <2>1. ASSUME NEW e \in Available \cap M  PROVE Holds(db, Flip(a, p), e)
    <3>1. ASSUME NEW l \in db[e].lits, l \in a, l # -p  PROVE Holds(db, Flip(a, p), e)
      BY <3>1 DEF Holds, Flip
    <3>2. CASE -p \notin db[e].lits
      <4>1. PICK l \in db[e].lits : l \in a
        BY <1>10 DEF Needs, Holds
      <4> QED BY <3>1, <3>2, <4>1
    <3>3. CASE -p \in db[e].lits /\ e \in live
      <4>1. Settled(e)
        BY <1>1, <1>2, <1>5, <1>8, <3>3 DEF Pursued
      <4>2. Elsewhere(a, e)
        BY <1>10, <4>1 DEF Settled
      <4>3. PICK l \in db[e].lits : l \in a /\ l # -p
        BY <1>8, <4>2 DEF Elsewhere
      <4> QED BY <3>1, <4>3
    <3>4. CASE -p \in db[e].lits /\ e \notin live
      <4>1. e \in Pending(at - 1) /\ Lone(db, e)
        BY <1>2, <3>4 DEF Available
      <4>2. PICK q \in DOMAIN trail : q <= rat.base /\ trail[q].lit \in db[e].lits
        BY <1>2, <1>7, <4>1 DEF Linked, UnitsOn, Early
      <4>3. IsFiniteSet(db[e].lits)
        BY <4>1, PendingIn
      <4>4. trail[q].lit = -p
        BY <3>4, <4>1, <4>2, <4>3, Single DEF Lone
      <4>5. q \in 1 .. rat.base
        <5>1. rat.base \in Nat
          BY DEF DratTypeOK, TypeRat
        <5> QED BY <4>2, <5>1, TrailFacts
      <4> QED BY <1>9, <4>4, <4>5
    <3> QED BY <3>2, <3>3, <3>4
  <2> QED BY <1>6, <2>1 DEF Needs, Satisfies
<1>11. ASSUME NEW a \in Assignments(Vars), Needs(a, T)'  PROVE FALSE
  <2>1. Needs(a, marked)
    BY <1>1, <1>3, <1>4, <1>11, NeedsBack
  <2>2. Needs(a, M)
    BY <2>1, <1>5 DEF Needs
  <2>3. ~Holds(db, a, Id)
    BY <1>5, <2>2 DEF RefutesLemma
  <2>4. Needs(Flip(a, p), M) /\ Flip(a, p) \in Assignments(Vars)
    BY <1>9, <1>10, <2>1, <2>3, FlipIs
  <2>5. Holds(db, Flip(a, p), Id)
    BY <1>9 DEF Holds, Flip
  <2> QED BY <1>5, <2>4, <2>5 DEF RefutesLemma
<1>12. Refutes(marked)'
  BY <1>4, <1>11 DEF Refutes, Needs
<1> QED BY <1>2, <1>12 DEF Refutation

LEMMA RefutationStep ==
  ASSUME DratTypeOK, Shape, TrailOK, StepsOK, DratStep, ~input.forward, Running', Gate',
         Running => Gate /\ Links /\ Refutation
  PROVE  Refutation'
<1>1. CASE ~Running
  <2>1. pc' = "propagate" /\ goal' = "init"
    BY <1>1, Begins, InitialiseIs DEF Running
  <2> QED BY <2>1 DEF Refutation, Checking, InRat, Trying
<1>2. CASE Running
  <2>1. CASE PropagateUnit \/ Conflict
    BY <1>2, <2>1, PropagateRefutation, ConflictRefutation
  <2>2. CASE EndOfUnits \/ DeleteStep \/ SkipSatisfied
    <3>1. pc' = "forward"
      <4>1. CASE EndOfUnits
        BY <4>1 DEF EndOfUnits, GoTo
      <4>2. CASE DeleteStep \/ SkipSatisfied
        BY <4>2, DeletingIs, SkippingIs
      <4> QED BY <2>2, <4>1, <4>2
    <3> QED BY <3>1 DEF Refutation, Checking, InRat, Trying
  <2>3. CASE Insert \/ Back \/ CheckBackward
    BY <1>2, <2>3, InsertRefutation, BackRefutation, CheckBackwardRefutation
  <2>4. CASE StartRat \/ RatCandidate
    BY <1>2, <2>4, StartRatRefutation, RatCandidateRefutation
  <2>5. CASE RatHolds \/ RatFails
    BY <1>2, <2>5, RatHoldsRefutation, RatFailsRefutation
  <2> QED BY <1>2, <2>1, <2>2, <2>3, <2>4, <2>5, BackwardSteps
<1> QED BY <1>1, <1>2

LEMMA BodyStep ==
  ASSUME DratTypeOK, Shape, TrailOK, StepsOK, Body, DratStep
  PROVE  Body'
<1>1. SUFFICES ASSUME Running', Gate'
               PROVE  IF input.forward THEN ForwardBody' ELSE BackwardBody'
  BY InputSame DEF Body
<1>2. CASE input.forward
  BY <1>1, <1>2, ForwardStep
<1>3. CASE ~input.forward
  <2>1. Running => Gate /\ Links /\ Refutation
    BY <1>1, <1>3, GateBack DEF Body, BackwardBody
  <2> QED BY <1>1, <1>3, <2>1, LinksStep, RefutationStep DEF BackwardBody
<1> QED BY <1>2, <1>3

-----------------------------------------------------------------------------
(* The verdict.                                                            *)

LEMMA FormulaHolds ==
  ASSUME DratTypeOK, FormulaKept, NEW a \in Models(Formula \cup Trusted)
  PROVE  /\ a \in Assignments(Vars) /\ Satisfies(a, Trusted)
         /\ \A c \in FormulaIds : Holds(db, a, c)
<1>1. a \in Assignments(Vars) /\ Satisfies(a, Formula \cup Trusted)
  BY DEF Models
<1>2. FormulaIds = DOMAIN input.formula
  BY LenProperties DEF DratTypeOK, TypeInput, FormulaIds
<1>3. \A c \in FormulaIds : ToSet(input.formula[c]) \in Formula
  BY <1>2 DEF Formula
<1> QED BY <1>1, <1>3 DEF Satisfies, Holds, FormulaKept

Condition == Trusted = {} \/ (~usedRat /\ \A c \in Trusted : Cardinality(c) > 1)

LEMMA ConditionGate ==
  ASSUME Condition, ~InRat
  PROVE  Gate
BY DEF Condition, Gate

\* Only the formula is available before the first step.
LEMMA FirstAvailable ==
  ASSUME DratTypeOK, StepsOK, ~input.forward, Running, Reach = 0
  PROVE  Available \subseteq FormulaIds
<1>1. AddsBefore(0) = {}
  BY StepIs DEF AddsBefore, DratTypeOK
<1>2. Pending(Reach) = FormulaIds
  BY <1>1 DEF Pending
<1> QED BY <1>2 DEF Available, StepsOK, LiveOK

LEMMA InitialiseVerified ==
  ASSUME DratTypeOK, Shape, StepsOK, Initialise, verdict' = "VERIFIED",
         NEW a \in Models(Formula \cup Trusted)
  PROVE  FALSE
<1>1. Inconsistent(FormulaForced) \/ \E c \in FormulaIds : db[c].lits = {}
  <2>1. pc = "parse" /\ verdict # "VERIFIED"
    BY InitialiseIs DEF Shape, DratTypeOK, TypePhase
  <2> QED BY <2>1, InitialiseIs
<1>2. a \in Assignments(Vars) /\ \A c \in FormulaIds : Holds(db, a, c)
  BY FormulaHolds DEF StepsOK
<1>3. CASE \E c \in FormulaIds : db[c].lits = {}
  BY <1>2, <1>3 DEF Holds
<1>4. \A l \in FormulaForced : l \in a /\ l \in Lits
  <2>1. ASSUME NEW c \in FormulaUnits, NEW l \in db[c].lits  PROVE l \in a /\ l \in Lits
    <3>1. c \in FormulaIds /\ Unit(c) /\ c \in DOMAIN db
      BY DEF FormulaUnits, DratTypeOK, TypeDb
    <3>2. db[c].lits \subseteq Lits /\ IsFiniteSet(db[c].lits)
      BY <3>1, DbIs, LitsFinite DEF DratTypeOK
    <3>3. PICK x \in db[c].lits : x \in a
      BY <1>2, <3>1 DEF Holds
    <3>4. x = l
      BY <3>1, <3>2, <3>3, Single DEF Unit
    <3> QED BY <3>2, <3>3, <3>4
  <2> QED BY <2>1 DEF FormulaForced
<1>5. CASE Inconsistent(FormulaForced)
  BY <1>2, <1>4, <1>5, AssignmentIs DEF Inconsistent
<1> QED BY <1>1, <1>3, <1>5

LEMMA ConflictVerified ==
  ASSUME DratTypeOK, Shape, TrailOK, StepsOK, Body, Conflict, verdict' = "VERIFIED", Condition,
         NEW a \in Models(Formula \cup Trusted)
  PROVE  FALSE
<1>1. pc = "propagate" /\ (Starting \/ (Joining /\ input.forward))
  <2>1. pc = "propagate" /\ verdict # "VERIFIED"
    BY ConflictIs DEF Shape, DratTypeOK, TypePhase
  <2> QED BY <2>1, ConflictIs
<1>2. Running /\ ~InRat /\ ~Checking
  BY <1>1 DEF Running, InRat, Checking, Trying, Starting, Joining
<1>3. IF input.forward THEN ForwardBody ELSE BackwardBody
  BY <1>2, ConditionGate DEF Body
<1>4. CASE input.forward
  <2>1. PICK b \in Assignments(Vars) : ModelOf(b)
    BY <1>3, <1>4 DEF ForwardBody
  <2>2. OnTrail(b, Len(trail))
    BY <1>1, <2>1 DEF ModelOf, Base
  <2> QED BY <2>1, <2>2, NoConflict DEF ModelOf
<1>5. CASE ~input.forward
  <2>1. Starting /\ Reach = 0
    BY <1>1, <1>5, ReachIs
  <2>2. PICK g, K : Linked(g, K)
    BY <1>3, <1>5 DEF BackwardBody, Links
  <2>3. Available \subseteq FormulaIds
    BY <1>2, <1>5, <2>1, FirstAvailable
  <2>4. PICK c \in live : Open(c) = {}
    BY ConflictIs
  <2>5. PICK T : T = marked \cup Cone(c)
    OBVIOUS
  <2>6. a \in Assignments(Vars) /\ Needs(a, T)
    BY <2>3, FormulaHolds DEF Needs, StepsOK
  <2>7. Assumed(trail, g, a)
    BY <1>2, <1>5, <2>2, LinkFacts DEF Assumed, Grounded
  <2> QED BY <1>2, <1>5, <2>2, <2>4, <2>5, <2>6, <2>7, ConflictFalse
<1> QED BY <1>4, <1>5

LEMMA CheckForwardVerified ==
  ASSUME DratTypeOK, Shape, StepsOK, Body, CheckForward, verdict' = "VERIFIED", Condition
  PROVE  Models(Formula \cup Trusted) = {}
<1>1. /\ pc = "forward" /\ input.forward /\ at \in DOMAIN steps /\ steps[at].op = "add"
      /\ forced = Len(trail) /\ steps[at].skip /\ Open(Id) = {}
  <2>1. pc = "forward" /\ verdict # "VERIFIED"
    BY CheckForwardIs DEF Shape, DratTypeOK, TypePhase
  <2> QED BY <2>1, CheckForwardIs
<1>2. Running /\ ~InRat /\ ~Joining /\ ~Starting /\ Base = Len(trail)
  BY <1>1 DEF Running, InRat, Trying, Starting, Joining, Base
<1>3. ForwardBody
  BY <1>1, <1>2, ConditionGate DEF Body
<1>4. ASSUME NEW b \in Assignments(Vars), ModelOf(b)  PROVE FALSE
  <2>1. OnTrail(b, Len(trail)) /\ Satisfies(b, Trusted)
    BY <1>2, <1>4 DEF ModelOf
  <2>2. Holds(db, b, Id) /\ Id \in DOMAIN db
    BY <1>1, <2>1, SkipTrusted, StepIs DEF DratTypeOK, Id
  <2> QED BY <1>1, <2>1, <2>2, ForcedTrue
<1> QED BY <1>3, <1>4 DEF ForwardBody

LEMMA AllCheckedVerified ==
  ASSUME DratTypeOK, Shape, StepsOK, Body, AllChecked, Condition,
         NEW a \in Models(Formula \cup Trusted)
  PROVE  FALSE
<1>1. pc = "backward" /\ at = 0 /\ ~input.forward
  BY DEF AllChecked, Shape
<1>2. Running /\ ~InRat /\ Reach = 0
  BY <1>1, ReachIs DEF Running, InRat, Trying
<1>3. Refutes(marked)
  BY <1>1, <1>2, ConditionGate DEF Body, BackwardBody, Refutation
<1>4. Available \subseteq FormulaIds
  BY <1>1, <1>2, FirstAvailable
<1>5. a \in Assignments(Vars) /\ Needs(a, marked)
  BY <1>4, FormulaHolds DEF Needs, StepsOK
<1> QED BY <1>3, <1>5 DEF Refutes

\* Four steps accept a proof, and none of them is the end of a RAT check.
LEMMA Accepts ==
  ASSUME DratTypeOK, Shape, DratStep, verdict' = "VERIFIED"
  PROVE  (Initialise \/ Conflict \/ CheckForward \/ AllChecked) /\ usedRat' = usedRat
<1>0. pc = "done" \/ verdict = "none"
  BY DEF Shape, DratTypeOK, TypePhase
<1>1. CASE ReadAddition \/ ReadDeletion \/ PropagateUnit \/ DeleteStep \/ SkipSatisfied \/ Back
  <2>1. pc # "done" /\ verdict' = verdict
    BY <1>1 DEF ReadAddition, ReadDeletion, PropagateUnit, DeleteStep, SkipSatisfied, Back,
                Adding, Deleting
  <2> QED BY <1>0, <2>1
<1>2. CASE EndOfUnits \/ RatHolds
  <2>1. pc # "done" /\ verdict' = verdict
    BY <1>2 DEF EndOfUnits, RatHolds, Fixpoint, GoTo, Checked
  <2> QED BY <1>0, <2>1
<1>3. CASE Insert
  <2>1. pc # "done" /\ (verdict' = verdict \/ verdict' = "NOT VERIFIED")
    BY <1>3, InsertIs
  <2> QED BY <1>0, <2>1
<1>4. CASE CheckBackward
  <2>1. pc # "done" /\ (verdict' = verdict \/ verdict' = "ABORTED")
    BY <1>4 DEF CheckBackward, Stop, GoTo, For
  <2> QED BY <1>0, <2>1
<1>5. CASE StartRat \/ RatFails
  <2>1. pc # "done" /\ (verdict' = verdict \/ verdict' = "NOT VERIFIED")
    BY <1>5 DEF StartRat, RatFails, Fixpoint, Stop, GoTo
  <2> QED BY <1>0, <2>1
<1>6. CASE RatCandidate
  <2>1. pc # "done" /\ verdict' = verdict
    BY <1>6 DEF RatCandidate, GoTo, For
  <2> QED BY <1>0, <2>1
<1>7. CASE EndOfProof
  <2>1. verdict' \in {"DERIVATION", "NOT VERIFIED"}
    BY <1>7 DEF EndOfProof, Stop
  <2> QED BY <2>1
<1>8. Initialise \/ Conflict \/ CheckForward \/ AllChecked => usedRat' = usedRat
  BY DEF Initialise, Conflict, CheckForward, AllChecked
<1> QED BY <1>1, <1>2, <1>3, <1>4, <1>5, <1>6, <1>7, <1>8 DEF DratStep

LEMMA CertificateStep ==
  ASSUME DratTypeOK, Shape, TrailOK, StepsOK, Body, DratStep
  PROVE  CertificateUnlessTrustedUnit'
<1>1. SUFFICES ASSUME verdict' = "VERIFIED", Condition'
               PROVE  Models(Formula' \cup Trusted') = {}
  BY DEF CertificateUnlessTrustedUnit, Condition, Models, Vars, Satisfies
<1>2. /\ Initialise \/ Conflict \/ CheckForward \/ AllChecked
      /\ Formula' = Formula /\ Trusted' = Trusted /\ Condition
  BY <1>1, Accepts, SameNames DEF Condition
<1>3. Models(Formula \cup Trusted) = {}
  <2>1. CASE Initialise
    BY <1>1, <2>1, InitialiseVerified
  <2>2. CASE Conflict
    BY <1>1, <1>2, <2>2, ConflictVerified
  <2>3. CASE CheckForward
    BY <1>1, <1>2, <2>3, CheckForwardVerified
  <2>4. CASE AllChecked
    BY <1>2, <2>4, AllCheckedVerified
  <2> QED BY <1>2, <2>1, <2>2, <2>3, <2>4
<1> QED BY <1>2, <1>3

LEMMA BodyUnchanged ==
  ASSUME UNCHANGED vars
  PROVE  Body' = Body
<1>1. Gate' = Gate /\ Base' = Base
  BY Unchanged DEF Gate, Base
<1>2. Available' = Available
  BY Unchanged DEF Available, Lone
<1>3. ForwardBody' = ForwardBody
  <2>1. ASSUME NEW a \in Assignments(Vars)  PROVE ModelOf(a)' = ModelOf(a)
    BY <1>1, Unchanged DEF ModelOf, Holds, OnTrail, AllIn, Elsewhere
  <2> QED BY <2>1, Unchanged DEF ForwardBody
<1>4. Links' = Links
  <2>1. ASSUME NEW g \in [DOMAIN trail -> Nat], NEW K \in SUBSET DOMAIN trail
        PROVE  Linked(g, K)' = Linked(g, K)
    <3>1. Grounded(g)' = Grounded(g) /\ Resets(g)' = Resets(g)
      BY <1>1, Unchanged DEF Grounded, Resets
    <3>2. UnitsOn(g)' = UnitsOn(g)
      BY <1>1, Unchanged DEF UnitsOn, Early, Lone, Pending, AddsBefore
    <3>3. UnitJoins(g)' = UnitJoins(g)
      BY Unchanged DEF UnitJoins, Early, Lone
    <3>4. UnitsOwn(g)' = UnitsOwn(g)
      BY Unchanged DEF UnitsOwn, Lone
    <3>5. /\ Supported(db, trail, g, Available)' = Supported(db, trail, g, Available)
          /\ Closed(db, trail, g, K, marked)' = Closed(db, trail, g, K, marked)
      BY <1>2, Unchanged
    <3> QED BY <3>1, <3>2, <3>3, <3>4, <3>5 DEF Linked
  <2> QED BY <2>1, Unchanged DEF Links
<1>5. Refutation' = Refutation
  <2>1. Refutes(marked)' = Refutes(marked)
    BY <1>2, Unchanged DEF Refutes, Holds, Needs
  <2>2. ASSUME NEW S  PROVE RefutesLemma(S)' = RefutesLemma(S)
    BY <1>2, Unchanged DEF RefutesLemma, Holds, Needs
  <2>3. ASSUME NEW c  PROVE Settled(c)' = Settled(c) /\ Current(c)' = Current(c)
    BY <1>2, Unchanged DEF Settled, Current, Elsewhere, Needs, Holds
  <2>4. ASSUME NEW M  PROVE Pursued(M)' = Pursued(M)
    BY <2>3, Unchanged DEF Pursued
  <2>5. RefutesLemma(marked)' = RefutesLemma(marked)
    BY <1>2, Unchanged DEF RefutesLemma, Holds, Needs
  <2> QED BY <2>1, <2>2, <2>4, <2>5, Unchanged DEF Refutation
<1> QED BY <1>1, <1>3, <1>4, <1>5, Unchanged DEF Body, BackwardBody

DratInv == SafeInv /\ Body /\ CertificateUnlessTrustedUnit

LEMMA InitDrat ==
  ASSUME Init
  PROVE  DratInv
<1>1. Body
  BY DEF Init, Body, Running
<1>2. CertificateUnlessTrustedUnit
  BY DEF Init, CertificateUnlessTrustedUnit
<1> QED BY <1>1, <1>2, InitSafe DEF DratInv

LEMMA DratInvStep ==
  ASSUME DratInv, [Next]_vars
  PROVE  DratInv'
<1>1. SafeInv'
  BY SafeStep DEF DratInv
<1>2. CASE DratStep
  BY <1>1, <1>2, BodyStep, CertificateStep DEF DratInv, SafeInv
<1>3. CASE UNCHANGED vars
  <2>1. CertificateUnlessTrustedUnit' = CertificateUnlessTrustedUnit
    BY <1>3, Unchanged DEF CertificateUnlessTrustedUnit
  <2> QED BY <1>1, <1>3, <2>1, BodyUnchanged DEF DratInv
<1> QED BY <1>2, <1>3 DEF Next, Finished

\* Whatever formula and proof drat-trim is given, forward or backward, with deletions,
\* trusted clauses and RAT lemmas in any order: when it accepts the proof, the formula has
\* no solution that satisfies the trusted clauses, unless there is a trusted clause of at
\* most one literal or a RAT check was made beside trusted clauses (drat-trim.c, verify).
THEOREM CertificateIsSound == Spec => []CertificateUnlessTrustedUnit
<1> QED BY InitDrat, DratInvStep, PTL DEF Spec, DratInv

-----------------------------------------------------------------------------
(* The module: the variables and the entries of the matrix.                *)

Q == INSTANCE CanonicityProofs

LEMMA PairsAre ==
  ASSUME NEW e
  PROVE  /\ e \in P!Pairs(Order) <=> /\ e \in (0 .. (Order - 1)) \X (0 .. (Order - 1))
                                     /\ e[2] < e[1]
         /\ e \in P!Pairs(Order) => /\ e = <<e[1], e[2]>> /\ e[1] \in Nat /\ e[2] \in Nat
                                    /\ e[2] < e[1] /\ e[1] < Order
BY ModuleAssumption DEF P!Pairs, P!Vertices

\* The number of entries in the first i rows.
Below(i) == (i * (i - 1)) \div 2

LEMMA BelowNext ==
  ASSUME NEW i \in Nat
  PROVE  Below(i) \in Nat /\ Below(i + 1) = Below(i) + i
<1>1. (i + 1) * ((i + 1) - 1) = i * (i - 1) + 2 * i
  OBVIOUS
<1>2. i * (i - 1) \in Nat
  OBVIOUS
<1>3. ASSUME NEW x \in Nat  PROVE (x + 2 * i) \div 2 = x \div 2 + i /\ x \div 2 \in Nat
  OBVIOUS
<1> QED BY <1>1, <1>2, <1>3 DEF Below

\* Each edge variable has one entry, which tells the variable.
LEMMA EntryIs ==
  ASSUME NEW v \in EdgeVars
  PROVE  /\ Entry(v) \in P!Pairs(Order)
         /\ Below(Entry(v)[1]) + Entry(v)[2] + 1 = v
<1>1. v \in Nat /\ v >= 1 /\ v <= Below(Order) /\ Order \in Nat /\ Order >= 1
  BY ModuleAssumption DEF EdgeVars, Below
<1> DEFINE S == {i \in Nat : v <= Below(i + 1)}
<1>2. Order - 1 \in S
  <2>1. (Order - 1) + 1 = Order /\ Order - 1 \in Nat
    BY <1>1
  <2> QED BY <1>1, <2>1
<1>3. PICK i \in S : \A j \in S : i <= j
  <2>1. S \subseteq Nat
    OBVIOUS
  <2> HIDE DEF S
  <2> QED BY <1>2, <2>1, LeastNat
<1>4. i \in Nat /\ v <= Below(i + 1) /\ i <= Order - 1
  BY <1>2, <1>3
<1>5. Below(i) \in Nat /\ Below(i + 1) = Below(i) + i
  BY <1>4, BelowNext
<1>6. Below(i) < v
  <2>1. CASE i = 0
    BY <1>1, <2>1 DEF Below
  <2>2. CASE i # 0
    <3>1. i - 1 \in Nat /\ ~(i <= i - 1) /\ (i - 1) + 1 = i
      BY <1>4, <2>2
    <3>2. i - 1 \notin S
      BY <1>3, <3>1
    <3>3. ~(v <= Below(i))
      BY <3>1, <3>2
    <3> QED BY <1>1, <1>5, <3>3
  <2> QED BY <2>1, <2>2
<1>7. PICK j : j = v - Below(i) - 1
  OBVIOUS
<1>8. j \in Nat /\ j < i /\ Below(i) + j + 1 = v
  BY <1>1, <1>4, <1>5, <1>6, <1>7
<1>9. PICK e : e = <<i, j>>
  OBVIOUS
<1>10. e \in (0 .. (Order - 1)) \X (0 .. (Order - 1)) /\ e[1] = i /\ e[2] = j
  BY <1>1, <1>4, <1>8, <1>9
<1>11. e \in P!Pairs(Order)
  BY <1>8, <1>10, PairsAre
<1>12. \E f \in P!Pairs(Order) : (f[1] * (f[1] - 1)) \div 2 + f[2] + 1 = v
  BY <1>8, <1>10, <1>11 DEF Below
<1> QED BY <1>12 DEF Entry, Below

LEMMA EntryOnce ==
  ASSUME NEW v \in EdgeVars, NEW w \in EdgeVars, Entry(v) = Entry(w)
  PROVE  v = w
BY EntryIs

-----------------------------------------------------------------------------
(* The trusted clauses in the order of the proof.                          *)

LEMMA TrustedAtIs ==
  ASSUME DratTypeOK
  PROVE  /\ TrustedAt \subseteq Nat /\ IsFiniteSet(TrustedAt)
         /\ Cardinality(TrustedAt) \in Nat /\ TrustedAt \subseteq DOMAIN input.lines
         /\ \A i \in TrustedAt : /\ input.lines[i].lits \in Seq(Lits)
                                  /\ ToSet(input.lines[i].lits) \subseteq Lits
         /\ Trusted = {ToSet(input.lines[i].lits) : i \in TrustedAt}
<1>1. /\ input.lines \in Seq([op : {"add", "trust", "delete"}, lits : Seq(Lits)])
      /\ DOMAIN input.lines = 1 .. Len(input.lines) /\ Len(input.lines) \in Nat
  BY DEF DratTypeOK, TypeInput
<1>2. TrustedAt \subseteq DOMAIN input.lines
  BY DEF TrustedAt
<1>3. TrustedAt \subseteq Nat /\ IsFiniteSet(TrustedAt) /\ Cardinality(TrustedAt) \in Nat
  <2>1. IsFiniteSet(1 .. Len(input.lines))
    <3>1. PICK n \in Nat : n = Len(input.lines)
      BY <1>1
    <3>2. IsFiniteSet(1 .. n)
      BY FS_Interval
    <3> QED BY <3>1, <3>2
  <2>2. TrustedAt \subseteq 1 .. Len(input.lines)
    BY <1>1, <1>2
  <2>3. IsFiniteSet(TrustedAt)
    BY <2>1, <2>2, FS_Subset
  <2> QED BY <2>2, <2>3, FS_CardinalityType
<1>4. ASSUME NEW i \in TrustedAt
      PROVE  input.lines[i].lits \in Seq(Lits) /\ ToSet(input.lines[i].lits) \subseteq Lits
  <2>1. PICK e : e = input.lines[i]
    OBVIOUS
  <2>2. e \in [op : {"add", "trust", "delete"}, lits : Seq(Lits)]
    BY <1>1, <1>2, <2>1, ElementOfSeq
  <2>3. e.lits \in Seq(Lits)
    BY <2>2
  <2> QED BY <2>1, <2>3, ToSetIs
<1>5. Trusted = {ToSet(input.lines[i].lits) : i \in TrustedAt}
  <2>1. PICK s : s = input.lines
    OBVIOUS
  <2>2. Trusted = {ToSet(z.lits) : z \in {x \in {s[i] : i \in DOMAIN s} : x.op = "trust"}}
    BY <2>1 DEF Trusted, ToSet
  <2>3. TrustedAt = {i \in DOMAIN s : s[i].op = "trust"}
    BY <2>1 DEF TrustedAt
  <2>4. ASSUME NEW c \in Trusted  PROVE c \in {ToSet(s[i].lits) : i \in TrustedAt}
    <3>1. PICK x \in {s[i] : i \in DOMAIN s} : x.op = "trust" /\ c = ToSet(x.lits)
      BY <2>2
    <3> QED BY <2>3, <3>1
  <2>5. ASSUME NEW i \in TrustedAt  PROVE ToSet(s[i].lits) \in Trusted
    <3>1. s[i] \in {x \in {s[j] : j \in DOMAIN s} : x.op = "trust"}
      BY <2>3
    <3> QED BY <2>2, <3>1
  <2> QED BY <2>1, <2>4, <2>5
<1> QED BY <1>2, <1>3, <1>4, <1>5

\* Two trusted lines have different numbers.
LEMMA RankOnly ==
  ASSUME NEW T, T \subseteq Nat, IsFiniteSet(T), NEW i \in T, NEW j \in T, i < j
  PROVE  /\ Cardinality({k \in T : k < i}) \in Nat
         /\ Cardinality({k \in T : k < j}) \in Nat
         /\ Cardinality({k \in T : k < i}) < Cardinality({k \in T : k < j})
         /\ Cardinality({k \in T : k < j}) < Cardinality(T)
<1> DEFINE A == {k \in T : k < i}
           B == {k \in T : k < j}
<1>1. i \in Nat /\ j \in Nat
  OBVIOUS
<1>2. ASSUME NEW k \in T, k < i  PROVE k < j
  <2>1. k \in Nat
    OBVIOUS
  <2> QED BY <1>1, <1>2, <2>1
<1>3. ~(i < i) /\ ~(j < j)
  BY <1>1
<1>4. A \in SUBSET B /\ i \in B /\ i \notin A /\ B \in SUBSET T /\ j \in T /\ j \notin B
  BY <1>2, <1>3
<1> HIDE DEF A, B
<1>5. /\ IsFiniteSet(B) /\ Cardinality(B) <= Cardinality(T) /\ Cardinality(B) # Cardinality(T)
  BY <1>4, FS_Subset
<1>6. IsFiniteSet(A) /\ Cardinality(A) <= Cardinality(B) /\ Cardinality(A) # Cardinality(B)
  BY <1>4, <1>5, FS_Subset
<1>7. Cardinality(A) \in Nat /\ Cardinality(B) \in Nat /\ Cardinality(T) \in Nat
  BY <1>5, <1>6, FS_CardinalityType
<1>8. Cardinality(A) < Cardinality(B) /\ Cardinality(B) < Cardinality(T)
  BY <1>5, <1>6, <1>7
<1> QED BY <1>7, <1>8 DEF A, B

LEMMA TrustedLinesAre ==
  ASSUME DratTypeOK
  PROVE  /\ DOMAIN TrustedLines = 1 .. Cardinality(TrustedAt)
         /\ Len(TrustedLines) = Cardinality(TrustedAt)
         /\ \A c \in Trusted : \E k \in DOMAIN TrustedLines :
              TrustedLines[k] \in Seq(Lits) /\ ToSet(TrustedLines[k]) = c
<1>1. DOMAIN TrustedLines = 1 .. Cardinality(TrustedAt)
  BY DEF TrustedLines
<1>2. Cardinality(TrustedAt) \in Nat
  BY TrustedAtIs
<1>3. Len(TrustedLines) = Cardinality(TrustedAt)
  <2>1. PICK n : n = Cardinality(TrustedAt)
    OBVIOUS
  <2>2. n \in Nat /\ DOMAIN TrustedLines = 1 .. n
    BY <1>1, <1>2, <2>1
  <2>3. PICK S : S = {TrustedLines[k] : k \in 1 .. n}
    OBVIOUS
  <2>4. TrustedLines \in [1 .. n -> S]
    BY <2>1, <2>3 DEF TrustedLines
  <2>5. TrustedLines \in Seq(S)
    BY <2>2, <2>4
  <2>6. DOMAIN TrustedLines = 1 .. Len(TrustedLines) /\ Len(TrustedLines) \in Nat
    BY <2>5, LenProperties
  <2>7. Len(TrustedLines) = n
    BY <2>2, <2>6
  <2> QED BY <2>1, <2>7
<1>4. ASSUME NEW c \in Trusted
      PROVE  \E k \in DOMAIN TrustedLines :
               TrustedLines[k] \in Seq(Lits) /\ ToSet(TrustedLines[k]) = c
  <2>1. PICK i \in TrustedAt : c = ToSet(input.lines[i].lits) /\ input.lines[i].lits \in Seq(Lits)
    BY TrustedAtIs
  <2> DEFINE R(j) == Cardinality({k \in TrustedAt : k < j})
  <2>2. TrustedAt \subseteq Nat /\ IsFiniteSet(TrustedAt)
    BY TrustedAtIs
  <2>3. ASSUME NEW j \in TrustedAt, R(j) = R(i)  PROVE j = i
    <3>1. i \in Nat /\ j \in Nat
      BY <2>2
    <3>2. ASSUME i < j  PROVE R(i) \in Nat /\ R(j) \in Nat /\ R(i) < R(j)
      BY <2>2, <3>2, RankOnly
    <3>3. ASSUME j < i  PROVE R(i) \in Nat /\ R(j) \in Nat /\ R(j) < R(i)
      BY <2>2, <3>3, RankOnly
    <3> HIDE DEF R
    <3> QED BY <2>3, <3>1, <3>2, <3>3
  <2>4. R(i) \in 0 .. (Cardinality(TrustedAt) - 1)
    <3> DEFINE A == {k \in TrustedAt : k < i}
    <3>1. i \in Nat /\ ~(i < i)
      BY <2>2
    <3>2. A \in SUBSET TrustedAt /\ i \notin A
      BY <3>1
    <3> HIDE DEF A
    <3>3. IsFiniteSet(A) /\ Cardinality(A) <= Cardinality(TrustedAt)
          /\ Cardinality(A) # Cardinality(TrustedAt)
      BY <2>2, <3>2, FS_Subset
    <3>4. Cardinality(A) \in Nat
      BY <3>3, FS_CardinalityType
    <3>5. Cardinality(A) \in 0 .. (Cardinality(TrustedAt) - 1)
      BY <1>2, <3>3, <3>4
    <3> QED BY <3>5 DEF A
  <2> HIDE DEF R
  <2>5. PICK k : k = R(i) + 1
    OBVIOUS
  <2>6. k \in 1 .. Cardinality(TrustedAt) /\ k - 1 = R(i)
    BY <1>2, <2>4, <2>5
  <2>7. \A j \in TrustedAt : R(j) = k - 1 => j = i
    BY <2>3, <2>6
  <2>8. (CHOOSE j \in TrustedAt : R(j) = k - 1) = i
    BY <2>6, <2>7
  <2>9. TrustedLines[k] = input.lines[i].lits
    BY <2>6, <2>8 DEF TrustedLines, R
  <2> QED BY <1>1, <2>1, <2>6, <2>9
<1> QED BY <1>1, <1>3, <1>4

-----------------------------------------------------------------------------
(* The graph of an assignment, and what an accepted line says about it.    *)

LEMMA SameOrder ==
  /\ \A k : P!Pairs(k) = Q!Pairs(k) /\ P!Graphs(k) = Q!Graphs(k)
  /\ \A m, k : P!Relabellings(m, k) = Q!Relabellings(m, k)
  /\ \A p, e : P!Image(p, e) = Q!Image(p, e)
  /\ \A e, f : P!Before(e, f) <=> Q!Before(e, f)
<1>1. \A k : P!Pairs(k) = Q!Pairs(k)
  BY DEF P!Pairs, Q!Pairs, P!Vertices, Q!Vertices
<1>2. \A k : P!Graphs(k) = Q!Graphs(k)
  BY <1>1 DEF P!Graphs, Q!Graphs
<1>3. \A m, k : P!Relabellings(m, k) = Q!Relabellings(m, k)
  BY DEF P!Relabellings, Q!Relabellings, P!Vertices, Q!Vertices
<1>4. \A p, e : P!Image(p, e) = Q!Image(p, e)
  BY DEF P!Image, Q!Image, P!Unordered, Q!Unordered
<1>5. \A e, f : P!Before(e, f) <=> Q!Before(e, f)
  BY DEF P!Before, Q!Before
<1> QED BY <1>1, <1>2, <1>3, <1>4, <1>5

LEMMA SameCanonical ==
  ASSUME NEW k, NEW G
  PROVE  P!Canonical(k, G) <=> Q!Canonical(k, G)
<1>1. ASSUME NEW p, NEW e  PROVE P!SmallerAt(G, p, e) <=> Q!SmallerAt(G, p, e)
  BY SameOrder DEF P!SmallerAt, Q!SmallerAt
<1> QED BY <1>1, SameOrder DEF P!Canonical, Q!Canonical

LEMMA SameCount ==
  ASSUME NEW S
  PROVE  P!Cardinality(S) = Cardinality(S)
BY DEF P!Cardinality, Cardinality

LEMMA GraphIs ==
  ASSUME NEW A \in SUBSET Vars
  PROVE  /\ GraphOf(A) \in P!Graphs(Order)
         /\ \A v \in EdgeVars : GraphOf(A)[Entry(v)] <=> v \in A
<1>1. GraphOf(A) \in P!Graphs(Order)
  BY DEF GraphOf, P!Graphs
<1>2. ASSUME NEW v \in EdgeVars  PROVE GraphOf(A)[Entry(v)] <=> v \in A
  <2>1. GraphOf(A)[Entry(v)] = (\E w \in A \cap EdgeVars : Entry(v) = Entry(w))
    BY EntryIs DEF GraphOf
  <2> QED BY <2>1, EntryOnce
<1> QED BY <1>1, <1>2

\* The literals that A makes true.
Makes(A) == A \cup Negated(Vars \ A)

\* A clause that is false for A speaks of each entry as the graph of A has it.
LEMMA FalseLiteral ==
  ASSUME NEW A \in SUBSET Vars, NEW c \in SUBSET Lits, c \cap Makes(A) = {}, NEW l \in c
  PROVE  /\ VarOf(l) \in Vars
         /\ (l > 0) => l = VarOf(l) /\ VarOf(l) \notin A
         /\ ~(l > 0) => l = -VarOf(l) /\ VarOf(l) \in A /\ l < 0
<1>1. l \in Lits /\ l \notin A /\ l \notin Negated(Vars \ A)
  BY DEF Makes
<1>2. CASE l \in Vars
  <2>1. l \in Nat /\ l > 0
    BY <1>2, MaxVarAssumption DEF Vars
  <2>2. VarOf(l) = l
    BY <2>1 DEF VarOf
  <2> QED BY <1>1, <1>2, <2>1, <2>2
<1>3. CASE \E v \in Vars : l = -v
  <2>1. PICK v \in Vars : l = -v
    BY <1>3
  <2>2. v \in Nat /\ v > 0
    BY MaxVarAssumption DEF Vars
  <2>3. l < 0 /\ ~(l > 0) /\ VarOf(l) = v
    BY <2>1, <2>2 DEF VarOf
  <2>4. v \in A
    BY <1>1, <2>1 DEF Negated
  <2> QED BY <2>1, <2>3, <2>4
<1> QED BY <1>1, <1>2, <1>3 DEF Lits

LEMMA EntryOfLiteral ==
  ASSUME NEW A \in SUBSET Vars, NEW c \in SUBSET Lits, c \cap Makes(A) = {},
         VarsOf(c) \subseteq EdgeVars,
         NEW e \in P!Pairs(Order), NEW b \in BOOLEAN, <<e, b>> \in OfLits(c)
  PROVE  b <=> ~GraphOf(A)[e]
<1>1. PICK l \in c : <<e, b>> = <<Entry(VarOf(l)), l > 0>>
  BY DEF OfLits
<1>2. e = Entry(VarOf(l)) /\ b = (l > 0)
  BY <1>1
<1>3. VarOf(l) \in EdgeVars
  BY DEF VarsOf
<1>4. GraphOf(A)[e] <=> VarOf(l) \in A
  BY <1>2, <1>3, GraphIs
<1>5. CASE l > 0
  BY <1>2, <1>4, <1>5, FalseLiteral
<1>6. CASE ~(l > 0)
  BY <1>2, <1>4, <1>6, FalseLiteral
<1> QED BY <1>5, <1>6

\* check-perm.py accepts rows only beside a clause that holds in every canonical graph.
LEMMA RowsHold ==
  ASSUME NEW A \in SUBSET Vars, P!Canonical(Order, GraphOf(A)),
         NEW c \in SUBSET Lits, c \cap Makes(A) = {}, VarsOf(c) \subseteq EdgeVars,
         NEW p, P!Accepts(Order, OfLits(c), p)
  PROVE  FALSE
<1>1. PICK q \in P!Relabellings(Order - 1, Order) : P!Blocks(Order, OfLits(c), q)
  BY DEF P!Accepts
<1>2. PICK G : G = GraphOf(A)
  OBVIOUS
<1>3. G \in Q!Graphs(Order) /\ Q!Canonical(Order, G)
  BY <1>2, GraphIs, SameOrder, SameCanonical
<1>4. ASSUME NEW e \in P!Pairs(Order), <<e, FALSE>> \in OfLits(c)  PROVE G[e]
  BY <1>2, <1>4, EntryOfLiteral
<1>5. ASSUME NEW e \in P!Pairs(Order), <<e, TRUE>> \in OfLits(c)  PROVE ~G[e]
  BY <1>2, <1>5, EntryOfLiteral
<1>6. PICK e \in P!Pairs(Order) :
        /\ <<e, FALSE>> \in OfLits(c)
        /\ P!Image(q, e) \in P!Pairs(Order) /\ <<P!Image(q, e), TRUE>> \in OfLits(c)
        /\ \A f \in P!Pairs(Order) : P!Before(f, e) =>
             \/ <<f, FALSE>> \in OfLits(c)
             \/ P!Image(q, f) \in P!Pairs(Order) /\ <<P!Image(q, f), TRUE>> \in OfLits(c)
             \/ P!Image(q, f) = f
  BY <1>1 DEF P!Blocks
<1>7. G[e] /\ ~G[P!Image(q, e)]
  BY <1>4, <1>5, <1>6
<1>8. ASSUME NEW f \in P!Pairs(Order), P!Before(f, e), G[P!Image(q, f)]  PROVE G[f]
  <2>1. CASE <<f, FALSE>> \in OfLits(c)
    BY <1>4, <2>1
  <2>2. CASE P!Image(q, f) \in P!Pairs(Order) /\ <<P!Image(q, f), TRUE>> \in OfLits(c)
    BY <1>5, <1>8, <2>2
  <2>3. CASE P!Image(q, f) = f
    BY <1>8, <2>3
  <2> QED BY <1>6, <1>8, <2>1, <2>2, <2>3
<1>9. /\ Order \in Nat /\ q \in Q!Relabellings(Order - 1, Order) /\ e \in Q!Pairs(Order)
      /\ ~G[Q!Image(q, e)]
      /\ \A f \in Q!Pairs(Order) : Q!Before(f, e) => (G[Q!Image(q, f)] => G[f])
  BY <1>7, <1>8, SameOrder, ModuleAssumption
<1> QED BY <1>3, <1>7, <1>9, Q!NoLargerEntry

\* A clause over all entries and nothing else is false for one graph only.
LEMMA CompleteClause ==
  ASSUME NEW A \in SUBSET Vars, NEW s \in Seq(Lits), ToSet(s) \cap Makes(A) = {},
         OverEdges(s), P!CompleteSolution(Order, s)
  PROVE  A \cap EdgeVars = {-l : l \in {x \in ToSet(s) : x < 0}}
<1>0. PICK c \in SUBSET Lits : c = ToSet(s)
  BY ToSetIs
<1>a. /\ c \cap Makes(A) = {} /\ VarsOf(c) \subseteq EdgeVars
      /\ Cardinality(c) = Cardinality(P!Pairs(Order))
  BY <1>0, SameCount DEF OverEdges, P!CompleteSolution
<1>1. PICK E : E = P!Pairs(Order)
  OBVIOUS
<1>2. PICK G : G = GraphOf(A)
  OBVIOUS
<1> DEFINE D == {<<e, ~G[e]>> : e \in E}
<1>3. OfLits(c) \subseteq D
  <2>1. ASSUME NEW l \in c  PROVE <<Entry(VarOf(l)), l > 0>> \in D
    <3>1. VarOf(l) \in EdgeVars /\ Entry(VarOf(l)) \in E
      BY <1>1, <1>a, EntryIs DEF VarsOf
    <3>2. PICK e \in E : e = Entry(VarOf(l))
      BY <3>1
    <3>3. PICK b \in BOOLEAN : b = (l > 0)
      <4>1. (l > 0) \in BOOLEAN
        OBVIOUS
      <4> QED BY <4>1
    <3>4. <<e, b>> \in OfLits(c)
      BY <3>2, <3>3 DEF OfLits
    <3>5. b = ~G[e]
      BY <1>1, <1>2, <1>a, <3>2, <3>4, EntryOfLiteral
    <3> QED BY <3>2, <3>3, <3>5
  <2> QED BY <2>1 DEF OfLits
<1>4. IsFiniteSet(E)
  <2>1. PICK n : n = Order - 1
    OBVIOUS
  <2>2. n \in Nat /\ IsFiniteSet(0 .. n)
    BY <2>1, ModuleAssumption, FS_Interval
  <2>3. IsFiniteSet((0 .. n) \X (0 .. n))
    BY <2>2, FS_Product
  <2>4. E \subseteq (0 .. n) \X (0 .. n)
    BY <1>1, <2>1, PairsAre
  <2> QED BY <2>3, <2>4, FS_Subset
<1>5. IsFiniteSet(D) /\ Cardinality(D) <= Cardinality(E)
  <2>1. PICK h : h = [e \in E |-> <<e, ~G[e]>>]
    OBVIOUS
  <2>2. h \in Surjection(E, D)
    BY <2>1 DEF Surjection
  <2> HIDE DEF D
  <2> QED BY <1>4, <2>2, FS_Surjection
<1>6. Cardinality(OfLits(c)) = Cardinality(E)
  <2>1. PICK h : h = [l \in c |-> <<Entry(VarOf(l)), l > 0>>]
    OBVIOUS
  <2>2. h \in Surjection(c, OfLits(c))
    BY <2>1 DEF Surjection, OfLits
  <2>3. ASSUME NEW l \in c, NEW m \in c, h[l] = h[m]  PROVE l = m
    <3>1. Entry(VarOf(l)) = Entry(VarOf(m)) /\ (l > 0) = (m > 0)
      BY <2>1, <2>3
    <3>2. VarOf(l) \in EdgeVars /\ VarOf(m) \in EdgeVars
      BY <1>a DEF VarsOf
    <3>3. VarOf(l) = VarOf(m)
      BY <3>1, <3>2, EntryOnce
    <3> QED BY <1>a, <3>1, <3>3, FalseLiteral
  <2>4. h \in Bijection(c, OfLits(c))
    <3>1. h \in [c -> OfLits(c)] /\ DOMAIN h = c
      BY <2>2 DEF Surjection
    <3>2. IsInjective(h)
      BY <2>3, <3>1 DEF IsInjective
    <3> QED BY <2>2, <3>1, <3>2 DEF Bijection, Injection
  <2>5. IsFiniteSet(c)
    BY LitsFinite
  <2> QED BY <1>1, <1>a, <2>4, <2>5, FS_Bijection DEF ExistsBijection
<1>7. OfLits(c) = D
  <2> HIDE DEF D
  <2>1. IsFiniteSet(OfLits(c)) /\ Cardinality(OfLits(c)) <= Cardinality(D)
    BY <1>3, <1>5, FS_Subset
  <2>2. Cardinality(D) \in Nat /\ Cardinality(E) \in Nat
    BY <1>4, <1>5, FS_CardinalityType
  <2>3. Cardinality(OfLits(c)) = Cardinality(D)
    BY <1>5, <1>6, <2>1, <2>2
  <2> QED BY <1>3, <1>5, <2>3, FS_Subset
<1>8. ASSUME NEW v \in A \cap EdgeVars  PROVE v \in {-l : l \in {x \in c : x < 0}}
  <2>1. v \in EdgeVars /\ Entry(v) \in E
    BY <1>1, EntryIs
  <2>2. G[Entry(v)] = TRUE
    <3>1. G \in [E -> BOOLEAN]
      BY <1>1, <1>2, GraphIs DEF P!Graphs
    <3>2. G[Entry(v)] \in BOOLEAN /\ G[Entry(v)]
      BY <1>2, <2>1, <3>1, GraphIs
    <3> QED BY <3>2
  <2>3. <<Entry(v), FALSE>> \in OfLits(c)
    BY <1>7, <2>1, <2>2
  <2>4. PICK l \in c : <<Entry(v), FALSE>> = <<Entry(VarOf(l)), l > 0>>
    BY <2>3 DEF OfLits
  <2>5. Entry(VarOf(l)) = Entry(v) /\ ~(l > 0)
    BY <2>4
  <2>6. VarOf(l) = v /\ l = -VarOf(l) /\ l < 0
    <3>1. VarOf(l) \in EdgeVars
      BY <1>a DEF VarsOf
    <3> QED BY <1>a, <2>1, <2>5, <3>1, FalseLiteral, EntryOnce
  <2>7. v = -l
    <3>1. v \in Int
      BY <2>1, ModuleAssumption DEF EdgeVars
    <3> QED BY <2>6, <3>1
  <2> QED BY <2>6, <2>7
<1>9. ASSUME NEW l \in c, l < 0  PROVE -l \in A \cap EdgeVars
  <2>1. VarOf(l) = -l
    BY <1>9 DEF VarOf
  <2>2. l \in Int
    BY MaxVarAssumption DEF Lits, Vars
  <2>3. ~(l > 0)
    BY <1>9, <2>2
  <2>4. VarOf(l) \in EdgeVars
    BY <1>a DEF VarsOf
  <2> QED BY <1>a, <2>1, <2>3, <2>4, FalseLiteral
<1> QED BY <1>0, <1>8, <1>9

-----------------------------------------------------------------------------
(* proof-module.sh, step by step.                                          *)

Compared(n) ==
  \A j \in 1 .. n : j <= Len(TrustedLines) /\ Agree(TrustedLines[j], perms.lines[j])

PermsOK ==
  /\ line \in Nat /\ perms.lines \in Seq(Seq(Nat)) /\ line <= Len(perms.lines)
  /\ permcheck \in {"none", "reading", "not run", "ended"}
  /\ permcheck = "not run" => ~perms.there
EndOK ==
  permcheck = "ended" /\ errors = {} => line = Len(perms.lines) /\ line = Len(TrustedLines)

PMInv == DratInv /\ PermsOK /\ Compared(line) /\ EndOK

LEMMA InitModule ==
  ASSUME PMInit
  PROVE  PMInv
<1>1. DratInv
  BY InitDrat DEF PMInit
<1>2. PermsOK
  <2>1. PICK i \in Inputs : input.lines = i[2]
    BY DEF PMInit, Init
  <2>2. perms \in PermFiles(i[2])
    BY <2>1 DEF PMInit
  <2>3. perms.lines \in Seq(Seq(Nat))
    BY <2>2, ModuleAssumption
  <2>4. Len(perms.lines) \in Nat
    BY <2>3, LenProperties
  <2> QED BY <2>3, <2>4 DEF PMInit, PermsOK
<1>3. Compared(line) /\ EndOK
  BY DEF PMInit, Compared, EndOK
<1> QED BY <1>1, <1>2, <1>3 DEF PMInv

LEMMA SameLines ==
  ASSUME input' = input
  PROVE  TrustedLines' = TrustedLines
<1>1. TrustedAt' = TrustedAt
  BY DEF TrustedAt
<1> QED BY <1>1 DEF TrustedLines

LEMMA InputKept ==
  ASSUME PMInv, [PMNext]_moduleVars
  PROVE  input' = input
<1>1. CASE RunDratTrim
  BY <1>1, InputSame DEF RunDratTrim
<1>2. CASE UNCHANGED vars
  BY <1>2 DEF vars
<1> QED BY <1>1, <1>2 DEF PMNext, AfterDratTrim, CompareLine, AllCompared, PMFinished, moduleVars

LEMMA DratKept ==
  ASSUME PMInv, [PMNext]_moduleVars
  PROVE  DratInv'
<1>1. CASE RunDratTrim
  <2>1. [Next]_vars
    BY <1>1 DEF RunDratTrim, Next
  <2> QED BY <2>1, DratInvStep DEF PMInv
<1>2. CASE UNCHANGED vars
  BY <1>2, DratInvStep DEF PMInv
<1> QED BY <1>1, <1>2 DEF PMNext, AfterDratTrim, CompareLine, AllCompared, PMFinished, moduleVars

LEMMA ComparedNext ==
  ASSUME PMInv, line < Len(TrustedLines), Agree(TrustedLines[line + 1], perms.lines[line + 1])
  PROVE  Compared(line + 1)
<1>1. line \in Nat /\ Len(TrustedLines) \in Nat
  BY TrustedLinesAre, TrustedAtIs DEF PMInv, PermsOK, DratInv, SafeInv
<1>2. ASSUME NEW j \in 1 .. (line + 1)
      PROVE  j <= Len(TrustedLines) /\ Agree(TrustedLines[j], perms.lines[j])
  <2>1. CASE j = line + 1
    BY <1>1, <2>1
  <2>2. CASE j # line + 1
    <3>1. j \in 1 .. line
      BY <1>1, <2>2
    <3> QED BY <3>1 DEF PMInv, Compared
  <2> QED BY <2>1, <2>2
<1> QED BY <1>2 DEF Compared

LEMMA PermsStep ==
  ASSUME PMInv, [PMNext]_moduleVars
  PROVE  PermsOK' /\ Compared(line)' /\ EndOK'
<1>1. TrustedLines' = TrustedLines
  BY InputKept, SameLines
<1>2. ASSUME perms' = perms, line' = line  PROVE Compared(line)'
  BY <1>1, <1>2 DEF PMInv, Compared
<1>3. PermsOK /\ EndOK
  BY DEF PMInv
<1>4. CASE UNCHANGED permVars
  <2>1. perms' = perms /\ line' = line /\ permcheck' = permcheck /\ errors' = errors
    BY <1>4 DEF permVars
  <2> QED BY <1>1, <1>2, <1>3, <2>1 DEF PermsOK, EndOK
<1>5. CASE AfterDratTrim
  <2>1. /\ perms' = perms /\ line' = line
        /\ permcheck' = IF ~perms.there THEN "not run" ELSE "reading"
    BY <1>5 DEF AfterDratTrim
  <2>2. PermsOK' /\ EndOK'
    BY <1>3, <2>1 DEF PermsOK, EndOK
  <2> QED BY <1>2, <2>1, <2>2
<1>6. CASE CompareLine
  <2>0. perms' = perms /\ line < Len(perms.lines) /\ permcheck = "reading"
    BY <1>6 DEF CompareLine
  <2>1. CASE line < Len(TrustedLines) /\ Agree(TrustedLines[line + 1], perms.lines[line + 1])
    <3>1. line' = line + 1 /\ permcheck' = permcheck /\ errors' = errors
      BY <1>6, <2>1 DEF CompareLine
    <3>2. Compared(line + 1)
      BY <2>1, ComparedNext
    <3>3. Compared(line)'
      BY <1>1, <2>0, <3>1, <3>2 DEF Compared
    <3>4. line + 1 \in Nat /\ line + 1 <= Len(perms.lines)
      <4>1. line \in Nat /\ Len(perms.lines) \in Nat
        BY <1>3, LenProperties DEF PermsOK
      <4> QED BY <2>0, <4>1
    <3>5. PermsOK' /\ EndOK'
      BY <1>3, <2>0, <3>1, <3>4 DEF PermsOK, EndOK
    <3> QED BY <3>3, <3>5
  <2>2. CASE ~(line < Len(TrustedLines) /\ Agree(TrustedLines[line + 1], perms.lines[line + 1]))
    <3>1. /\ line' = line /\ permcheck' = "ended"
          /\ errors' = errors \cup {"Trusted clauses not verified"}
      BY <1>6, <2>2 DEF CompareLine
    <3>2. PermsOK' /\ EndOK'
      BY <1>3, <2>0, <3>1 DEF PermsOK, EndOK
    <3> QED BY <1>2, <2>0, <3>1, <3>2
  <2> QED BY <2>1, <2>2
<1>7. CASE AllCompared
  <2>1. /\ perms' = perms /\ line' = line /\ permcheck' = "ended" /\ line = Len(perms.lines)
        /\ line = Len(TrustedLines) \/ errors' = errors \cup {"Trusted clauses not verified"}
    BY <1>7 DEF AllCompared
  <2>2. PermsOK' /\ EndOK'
    BY <1>1, <1>3, <2>1 DEF PermsOK, EndOK
  <2> QED BY <1>2, <2>1, <2>2
<1> QED BY <1>4, <1>5, <1>6, <1>7 DEF PMNext, RunDratTrim, PMFinished, moduleVars

LEMMA ModuleStep ==
  ASSUME PMInv, [PMNext]_moduleVars
  PROVE  PMInv'
BY DratKept, PermsStep DEF PMInv

\* Without an error message every trusted clause has a line that agrees with it.
LEMMA AllShown ==
  ASSUME PMInv, Ended, errors = {}, perms.there, NEW k \in DOMAIN TrustedLines
  PROVE  k \in DOMAIN perms.lines /\ Agree(TrustedLines[k], perms.lines[k])
<1>1. permcheck = "ended"
  BY DEF Ended, PMInv, PermsOK
<1>2. line = Len(perms.lines) /\ line = Len(TrustedLines)
  BY <1>1 DEF PMInv, EndOK
<1>3. k \in 1 .. line
  BY <1>2, TrustedLinesAre DEF PMInv, DratInv, SafeInv
<1>4. DOMAIN perms.lines = 1 .. line
  BY <1>2, LenProperties DEF PMInv, PermsOK
<1> QED BY <1>3, <1>4 DEF PMInv, Compared

\* A canonical solution falsifies a trusted clause, and its line can only be the one that
\* lists it.
LEMMA SolutionListed ==
  ASSUME PMInv, Ended, errors = {}, verdict = "VERIFIED", perms.there, ~usedRat,
         \A c \in Trusted : Cardinality(c) > 1, \A lits \in Solutions : OverEdges(lits),
         NEW S \in CanonicalSolutions
  PROVE  S \in Listed
<1>1. Models(Formula \cup Trusted) = {}
  BY DEF PMInv, DratInv, CertificateUnlessTrustedUnit
<1>2. PICK A \in SUBSET Vars :
        /\ S = A \cap EdgeVars /\ P!Canonical(Order, GraphOf(A))
        /\ \A c \in Formula : \E l \in c : l \in A \/ (l < 0 /\ -l \notin A)
  BY DEF CanonicalSolutions
<1>3. DratTypeOK
  BY DEF PMInv, DratInv, SafeInv
<1>4. ASSUME NEW c \in Formula  PROVE c \cap Makes(A) # {}
  <2>1. PICK l \in c : l \in A \/ (l < 0 /\ -l \notin A)
    BY <1>2
  <2>2. l \in Lits
    <3>1. PICK i \in DOMAIN input.formula : c = ToSet(input.formula[i])
      BY DEF Formula
    <3>2. input.formula \in Seq(Seq(Lits))
      BY <1>3 DEF DratTypeOK, TypeInput
    <3>3. input.formula[i] \in Seq(Lits)
      BY <3>1, <3>2, LenProperties, ElementOfSeq
    <3> QED BY <3>1, <3>3, ToSetIs
  <2>3. CASE l \in A
    BY <2>3 DEF Makes
  <2>4. CASE l < 0 /\ -l \notin A
    <3>1. PICK v \in Vars : l = -v
      <4>1. \A v \in Vars : ~(v < 0)
        BY MaxVarAssumption DEF Vars
      <4> QED BY <2>2, <2>4, <4>1 DEF Lits
    <3>2. v \in Int
      BY MaxVarAssumption DEF Vars
    <3>3. -l = v
      BY <3>1, <3>2
    <3>4. v \in Vars \ A
      BY <2>4, <3>3
    <3> QED BY <3>1, <3>4 DEF Makes, Negated
  <2> QED BY <2>1, <2>3, <2>4
<1>5. Makes(A) \in Assignments(Vars)
  BY <1>2 DEF Makes, Assignments
<1>6. PICK c \in Trusted : c \cap Makes(A) = {}
  BY <1>1, <1>4, <1>5 DEF Models, Satisfies
<1>7. PICK k \in DOMAIN TrustedLines : TrustedLines[k] \in Seq(Lits) /\ ToSet(TrustedLines[k]) = c
  BY <1>3, TrustedLinesAre
<1>8. PICK lits : lits = TrustedLines[k]
  OBVIOUS
<1>9. k \in DOMAIN perms.lines /\ Agree(lits, perms.lines[k])
  BY <1>7, <1>8, AllShown
<1>10. lits \in Seq(Lits) /\ c = ToSet(lits)
  BY <1>7, <1>8
<1>11. c \in SUBSET Lits
  BY <1>10, ToSetIs
<1>12. perms.lines[k] = <<>> /\ P!CompleteSolution(Order, lits)
  BY <1>2, <1>6, <1>9, <1>10, <1>11, RowsHold DEF Agree
<1>13. lits \in Solutions
  BY <1>7, <1>8, <1>9, <1>12 DEF Solutions
<1>14. S = {-l : l \in {x \in ToSet(lits) : x < 0}}
  BY <1>2, <1>6, <1>10, <1>12, <1>13, CompleteClause
<1> QED BY <1>13, <1>14 DEF Listed

\* Whatever instance and proof proof-module.sh is given, with whatever permutation file:
\* when it ends without an error message, after a backward check by drat-trim without RAT
\* lemmas and with no trusted clause of fewer than two literals, every graph that solves
\* the instance and is canonical is one of those the file lists as complete solutions.
THEOREM ExhaustedWithoutErrors == PMSpec => []NoErrorMeansExhausted
<1>1. PMInit => PMInv
  BY InitModule
<1>2. PMInv /\ [PMNext]_moduleVars => PMInv'
  BY ModuleStep
<1>3. PMInv => NoErrorMeansExhausted
  BY SolutionListed DEF NoErrorMeansExhausted
<1> QED BY <1>1, <1>2, <1>3, PTL DEF PMSpec
==============================================================================
