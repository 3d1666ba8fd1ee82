--------------------------- MODULE DratTrimProofs ---------------------------
(***************************************************************************)
(* What each step of drat-trim does, and what holds between its steps: the *)
(* types, the shape of a run, what the trail has been given by assumption, *)
(* and how clauses, steps and watched clauses belong together.             *)
(***************************************************************************)
EXTENDS DratTrim, FiniteSetTheorems, SequenceTheorems, WellFoundedInduction, TLAPS

-----------------------------------------------------------------------------
(* The state.                                                              *)

Entries == [lit : Lits, reason : Nat]
Clause == [lits : SUBSET Lits, pivot : Int]
Step == [op : {"add", "delete", "none"}, clause : Nat, skip : BOOLEAN]

\* The phases, by what a propagation is for.
Starting == pc = "propagate" /\ goal = "init"
Joining == pc = "propagate" /\ goal = "lemma"
Checking == pc = "propagate" /\ goal = "check"
Trying == pc = "propagate" /\ goal = "rat"
InRat == pc = "rat" \/ Trying
Running == pc \notin {"parse", "done"}

\* The steps up to here have added their clauses.
Reach == IF Starting THEN 0 ELSE IF pc = "backward" \/ Joining THEN at ELSE at - 1
AddsBefore(n) == {j \in DOMAIN steps : j <= n /\ steps[j].op = "add"}
Pending(n) == FormulaIds \cup {steps[i].clause : i \in AddsBefore(n)}

TypeInput ==
  input \in [formula : Seq(Seq(Lits)),
             lines : Seq([op : {"add", "trust", "delete"}, lits : Seq(Lits)]),
             forward : BOOLEAN]
TypeDb ==
  /\ db \in Seq(Clause) /\ FormulaIds \subseteq DOMAIN db
  /\ hashed \subseteq DOMAIN db /\ live \subseteq DOMAIN db
TypeSteps == steps \in Seq(Step) /\ \A i \in DOMAIN steps : steps[i].clause \in DOMAIN db
TypeTrail == trail \in Seq(Entries) /\ forced \in 0 .. Len(trail) /\ at \in Nat
TypePhase ==
  /\ pc \in {"parse", "forward", "insert", "propagate", "rat", "backward", "done"}
  /\ goal \in {"none", "init", "lemma", "check", "rat"}
  /\ verdict \in {"none", "VERIFIED", "NOT VERIFIED", "DERIVATION", "ABORTED"}
  /\ usedRat \in BOOLEAN
TypeRat == rat \in [pivot : Int, todo : SUBSET DOMAIN db, untried : SUBSET Lits, base : Nat]

DratTypeOK == TypeInput /\ TypeDb /\ TypeSteps /\ TypeTrail /\ TypePhase /\ TypeRat

\* Which phases there are in which mode, and where they stand.
Shape ==
  /\ pc = "propagate" => goal # "none"
  /\ pc = "parse" => /\ at <= Len(input.lines) + 1 /\ at >= 1 /\ usedRat = FALSE
                     /\ live = {} /\ trail = <<>> /\ forced = 0
  /\ Starting => at = 1 /\ forced = 0 /\ ~usedRat
  /\ pc = "forward" => at \in 1 .. Len(steps) + 1
  /\ pc = "insert" \/ Joining \/ Checking \/ InRat =>
       at \in DOMAIN steps /\ steps[at].op = "add"
  /\ Checking \/ InRat => ~steps[at].skip
  /\ pc = "insert" => input.forward /\ (steps[at].skip => Open(Id) # {})
  /\ pc = "backward" => ~input.forward /\ at \in 0 .. Len(steps)
  /\ pc \in {"forward", "insert", "backward"} => forced = Len(trail)
  /\ pc = "rat" => forced = Len(trail)
  /\ (pc = "forward" \/ Joining) /\ ~input.forward => ~usedRat
  /\ verdict # "none" => pc = "done"

\* Clauses, and what a line of the proof has become.
FormulaKept == \A c \in FormulaIds : db[c].lits = ToSet(input.formula[c])
AddsOK ==
  \A i \in DOMAIN steps : steps[i].op = "add" =>
    /\ steps[i].clause \notin FormulaIds
    /\ steps[i].skip => db[steps[i].clause].lits \in Trusted
    /\ \A j \in DOMAIN steps : j < i /\ steps[j].op = "add" => steps[j].clause < steps[i].clause
DeletesOK ==
  ~input.forward => \A i \in DOMAIN steps : steps[i].op = "delete" =>
    /\ Cardinality(db[steps[i].clause].lits) > 1
    /\ steps[i].clause \in Pending(i)
HashedOK == ~input.forward /\ pc = "parse" => \A c \in hashed : c \in Pending(Len(steps))
LiveOK ==
  /\ \A c \in live : Cardinality(db[c].lits) > 1
  /\ ~input.forward /\ Running => live \subseteq Pending(Reach)
StepsOK == FormulaKept /\ AddsOK /\ DeletesOK /\ HashedOK /\ LiveOK

\* What has been assumed is new, and the negation of a literal of the lemma.
TrailOK ==
  /\ Checking => \A k \in DOMAIN trail : k > forced /\ trail[k].reason = 0 =>
       /\ -trail[k].lit \in db[Id].lits
       /\ \A j \in 1 .. forced : trail[j].lit # trail[k].lit
  /\ InRat => /\ rat.base <= forced
              /\ \A p \in {rat.pivot} \cup rat.untried :
                   p \in db[Id].lits /\ \A j \in 1 .. rat.base : trail[j].lit # -p

SafeInv == DratTypeOK /\ Shape /\ TrailOK /\ StepsOK

-----------------------------------------------------------------------------
(* Literals, sets and sequences.                                           *)

\* A set of naturals that is not empty has a least element.
LEMMA LeastNat ==
  ASSUME NEW T, T \subseteq Nat, T # {}
  PROVE  \E n \in T : \A m \in T : n <= m
<1>1. PICK n \in T : \A m \in T : ~(<<m, n>> \in OpToRel(<, Nat))
  BY NatLessThanWellFounded, WFMin
<1>2. ASSUME NEW m \in T, ~(n <= m)  PROVE FALSE
  <2>1. m < n
    BY <1>2
  <2>2. <<m, n>> \in {ss \in Nat \X Nat : ss[1] < ss[2]}
    BY <2>1
  <2>3. <<m, n>> \in OpToRel(<, Nat)
    BY <2>2, Zenon DEF OpToRel
  <2> QED BY <1>1, <2>3
<1> QED BY <1>2

LEMMA LitsAre ==
  /\ Lits \subseteq Int
  /\ \A l \in Lits : l # 0 /\ -l \in Lits /\ -(-l) = l /\ -l # l
BY MaxVarAssumption DEF Lits, Vars

LEMMA SetToSeqIs ==
  ASSUME NEW S, IsFiniteSet(S)
  PROVE  /\ SetToSeq(S) \in Seq(S)
         /\ \A a, b \in DOMAIN SetToSeq(S) : SetToSeq(S)[a] = SetToSeq(S)[b] => a = b
         /\ \A x \in S : \E a \in DOMAIN SetToSeq(S) : SetToSeq(S)[a] = x
<1> DEFINE n == Cardinality(S)
           s == SetToSeq(S)
<1>1. n \in Nat /\ Bijection(1 .. n, S) # {}
  BY FS_CardinalityType DEF ExistsBijection
<1>2. \E f \in [1 .. n -> S] : IsInjective(f)
  BY <1>1 DEF Bijection, Injection
<1>3. s \in [1 .. n -> S] /\ IsInjective(s)
  BY <1>2 DEF SetToSeq
<1>4. s \in Injection(1 .. n, S)
  BY <1>3 DEF Injection
<1>5. Cardinality(1 .. n) = n
  BY <1>1, FS_Interval
<1> HIDE DEF n, s
<1>6. s \in Surjection(1 .. n, S)
  BY <1>4, <1>5, FS_Injection DEF n
<1>7. \A x \in S : \E a \in 1 .. n : s[a] = x
  BY <1>6 DEF Surjection
<1>8. s \in Seq(S) /\ DOMAIN s = 1 .. n
  BY <1>1, <1>3
<1> QED BY <1>3, <1>7, <1>8 DEF IsInjective, s

LEMMA LitsFinite ==
  ASSUME NEW S \in SUBSET Lits
  PROVE  IsFiniteSet(S)
<1> DEFINE m == MaxVar
<1>1. m \in Nat
  BY MaxVarAssumption
<1>2. IsFiniteSet((-m) .. m)
  <2> HIDE DEF m
  <2> QED BY <1>1, FS_Interval
<1>3. S \subseteq (-m) .. m
  BY MaxVarAssumption DEF Lits, Vars
<1> HIDE DEF m
<1> QED BY <1>2, <1>3, FS_Subset

LEMMA MinIs ==
  ASSUME NEW S \in SUBSET Nat, S # {}
  PROVE  Min(S) \in S /\ \A x \in S : Min(S) <= x
<1>1. \E n \in S : \A m \in S : n <= m
  BY LeastNat
<1> QED BY <1>1 DEF Min

LEMMA MaxIs ==
  ASSUME NEW S \in SUBSET Nat, S # {}, NEW b \in Nat, \A x \in S : x <= b
  PROVE  Max(S) \in S
<1> DEFINE D == {b - x : x \in S}
<1>1. D \in SUBSET Nat /\ D # {}
  <2>1. \A x \in S : b - x \in Nat
    OBVIOUS
  <2>2. \E x \in S : b - x \in D
    OBVIOUS
  <2> QED BY <2>1, <2>2
<1>2. PICK d \in D : \A e \in D : d <= e
  BY <1>1, LeastNat
<1>3. PICK n \in S : d = b - n
  BY <1>2
<1>4. \A m \in S : n >= m
  <2> TAKE m \in S
  <2>1. b - m \in D
    OBVIOUS
  <2>2. d <= b - m
    BY <1>2, <2>1
  <2>3. m \in Nat /\ n \in Nat
    OBVIOUS
  <2> QED BY <1>3, <2>2, <2>3
<1> QED BY <1>4 DEF Max

LEMMA TrailDomain ==
  ASSUME NEW t \in Seq(Entries)
  PROVE  /\ Len(t) \in Nat /\ DOMAIN t = 1 .. Len(t)
         /\ \A q \in DOMAIN t : t[q].lit \in Lits /\ t[q].reason \in Nat
<1>1. Len(t) \in Nat /\ DOMAIN t = 1 .. Len(t)
  BY LenProperties
<1>2. \A q \in DOMAIN t : t[q] \in Entries
  BY <1>1, ElementOfSeq
<1> QED BY <1>1, <1>2 DEF Entries

-----------------------------------------------------------------------------
(* Trails.                                                                 *)

LEMMA CutIs ==
  ASSUME NEW t \in Seq(Entries), NEW n \in 0 .. Len(t)
  PROVE  /\ SubSeq(t, 1, n) \in Seq(Entries) /\ Len(SubSeq(t, 1, n)) = n
         /\ DOMAIN SubSeq(t, 1, n) = 1 .. n
         /\ \A q \in 1 .. n : q \in DOMAIN t /\ SubSeq(t, 1, n)[q] = t[q]
<1>1. n \in Int /\ 1 \in Int /\ \A i \in 1 .. n : i \in DOMAIN t /\ t[i] \in Entries
  BY TrailDomain, ElementOfSeq
<1> DEFINE s == SubSeq(t, 1, n)
<1>2. s \in Seq(Entries) /\ Len(s) = (IF 1 <= n THEN n - 1 + 1 ELSE 0)
      /\ \A i \in 1 .. (n - 1 + 1) : s[i] = t[1 + i - 1]
  BY <1>1, SubSeqProperties
<1>3. Len(s) = n
  BY <1>1, <1>2, TrailDomain
<1>4. \A i \in 1 .. n : s[i] = t[i]
  BY <1>1, <1>2
<1> HIDE DEF s
<1>5. DOMAIN s = 1 .. n
  BY <1>2, <1>3, LenProperties
<1> QED BY <1>1, <1>2, <1>3, <1>4, <1>5 DEF s

LEMMA ExtendIs ==
  ASSUME NEW t \in Seq(Entries), NEW e \in Entries
  PROVE  /\ Append(t, e) \in Seq(Entries) /\ Len(Append(t, e)) = Len(t) + 1
         /\ DOMAIN Append(t, e) = 1 .. (Len(t) + 1)
         /\ \A q \in DOMAIN t : Append(t, e)[q] = t[q]
         /\ Append(t, e)[Len(t) + 1] = e
<1>1. /\ Append(t, e) \in Seq(Entries) /\ Len(Append(t, e)) = Len(t) + 1
      /\ \A i \in 1 .. Len(t) : Append(t, e)[i] = t[i]
      /\ Append(t, e)[Len(t) + 1] = e
  BY AppendProperties
<1>2. DOMAIN Append(t, e) = 1 .. Len(Append(t, e))
  BY <1>1, LenProperties
<1> QED BY <1>1, <1>2, TrailDomain

LEMMA ConcatIs ==
  ASSUME NEW t \in Seq(Entries), NEW s \in Seq(Entries)
  PROVE  /\ t \o s \in Seq(Entries) /\ Len(t \o s) = Len(t) + Len(s)
         /\ DOMAIN (t \o s) = 1 .. (Len(t) + Len(s))
         /\ \A q \in DOMAIN t : (t \o s)[q] = t[q]
         /\ \A q \in DOMAIN (t \o s) : q > Len(t) =>
              q - Len(t) \in DOMAIN s /\ (t \o s)[q] = s[q - Len(t)]
<1> DEFINE u == t \o s
<1>1. /\ u \in Seq(Entries) /\ Len(u) = Len(t) + Len(s)
      /\ \A i \in 1 .. (Len(t) + Len(s)) : u[i] = IF i <= Len(t) THEN t[i] ELSE s[i - Len(t)]
  BY ConcatProperties
<1>2. Len(t) \in Nat /\ Len(s) \in Nat /\ DOMAIN t = 1 .. Len(t) /\ DOMAIN s = 1 .. Len(s)
  BY TrailDomain
<1> HIDE DEF u
<1>3. DOMAIN u = 1 .. Len(u)
  BY <1>1, LenProperties
<1>4. ASSUME NEW q \in DOMAIN t  PROVE u[q] = t[q]
  BY <1>1, <1>2
<1>5. ASSUME NEW q \in DOMAIN u, q > Len(t)
      PROVE  q - Len(t) \in DOMAIN s /\ u[q] = s[q - Len(t)]
  BY <1>1, <1>2, <1>3, <1>5
<1> QED BY <1>1, <1>3, <1>4, <1>5 DEF u

Unreasoned(t, S) ==
  [k \in DOMAIN t |-> IF k \in S THEN [t[k] EXCEPT !.reason = 0] ELSE t[k]]

LEMMA UnreasonedIs ==
  ASSUME NEW t \in Seq(Entries), NEW S
  PROVE  /\ Unreasoned(t, S) \in Seq(Entries) /\ Len(Unreasoned(t, S)) = Len(t)
         /\ DOMAIN Unreasoned(t, S) = DOMAIN t
         /\ \A k \in DOMAIN t :
              /\ Unreasoned(t, S)[k].lit = t[k].lit
              /\ Unreasoned(t, S)[k].reason = IF k \in S THEN 0 ELSE t[k].reason
<1> DEFINE u == Unreasoned(t, S)
<1>1. Len(t) \in Nat /\ DOMAIN t = 1 .. Len(t) /\ \A k \in DOMAIN t : t[k] \in Entries
  BY TrailDomain, ElementOfSeq
<1>2. DOMAIN u = DOMAIN t
  BY DEF Unreasoned
<1>3. ASSUME NEW k \in DOMAIN t
      PROVE  /\ u[k] \in Entries /\ u[k].lit = t[k].lit
             /\ u[k].reason = IF k \in S THEN 0 ELSE t[k].reason
  <2>1. t[k] \in Entries
    BY <1>1
  <2>2. CASE k \in S
    <3>1. u[k] = [t[k] EXCEPT !.reason = 0]
      BY <2>2 DEF Unreasoned
    <3> QED BY <2>1, <2>2, <3>1 DEF Entries
  <2>3. CASE k \notin S
    <3>1. u[k] = t[k]
      BY <2>3 DEF Unreasoned
    <3> QED BY <2>1, <2>3, <3>1
  <2> QED BY <2>2, <2>3
<1>4. u \in [1 .. Len(t) -> Entries]
  <2>1. u = [k \in 1 .. Len(t) |-> u[k]]
    BY <1>1 DEF Unreasoned
  <2> HIDE DEF u
  <2> QED BY <1>1, <1>3, <2>1
<1> HIDE DEF u
<1>5. u \in Seq(Entries) /\ Len(u) = Len(t)
  BY <1>1, <1>4
<1> QED BY <1>2, <1>3, <1>5 DEF u

LEMMA ToSetIs ==
  ASSUME NEW S, NEW s \in Seq(S)
  PROVE  ToSet(s) \subseteq S
<1>1. \A i \in DOMAIN s : s[i] \in S
  BY LenProperties, ElementOfSeq
<1> QED BY <1>1 DEF ToSet

LEMMA LemmaIs ==
  ASSUME NEW s \in Seq(Lits)
  PROVE  Lemma(s) \in Clause /\ Lemma(s).lits = ToSet(s) /\ ToSet(s) \subseteq Lits
<1>1. ToSet(s) \subseteq Lits
  BY ToSetIs
<1>2. (IF s = <<>> THEN 0 ELSE Head(s)) \in Int
  <2>1. CASE s = <<>>
    BY <2>1
  <2>2. CASE s # <<>>
    <3>1. Head(s) \in Lits
      BY <2>2
    <3> QED BY <2>2, <3>1, LitsAre
  <2> QED BY <2>1, <2>2
<1> QED BY <1>1, <1>2 DEF Lemma, Clause

LEMMA FiniteRange ==
  ASSUME NEW S, IsFiniteSet(S), NEW T, NEW f \in [S -> T], \A y \in T : \E x \in S : f[x] = y
  PROVE  IsFiniteSet(T)
<1>1. f \in Surjection(S, T)
  BY DEF Surjection
<1> QED BY <1>1, FS_Surjection

LEMMA AssumeIs ==
  ASSUME NEW S \in SUBSET Lits
  PROVE  /\ Assume(S) \in Seq(Entries)
         /\ \A k \in DOMAIN Assume(S) : Assume(S)[k].reason = 0 /\ -Assume(S)[k].lit \in S
         /\ \A l \in S : \E k \in DOMAIN Assume(S) : Assume(S)[k].lit = -l
<1> DEFINE E == {[lit |-> -l, reason |-> 0] : l \in S}
           s == SetToSeq(E)
<1>1. IsFiniteSet(E)
  <2> DEFINE f == [l \in S |-> [lit |-> -l, reason |-> 0]]
  <2>1. IsFiniteSet(S)
    BY LitsFinite
  <2>2. f \in [S -> E] /\ \A y \in E : \E x \in S : f[x] = y
    OBVIOUS
  <2> HIDE DEF f, E
  <2> QED BY <2>1, <2>2, FiniteRange
<1>2. \A l \in S : -l \in Lits /\ -(-l) = l
  BY LitsAre
<1>3. \A e \in E : e \in Entries /\ e.reason = 0 /\ -e.lit \in S
  BY <1>2 DEF Entries
<1>4. ASSUME NEW l \in S  PROVE \E e \in E : e.lit = -l
  <2>1. [lit |-> -l, reason |-> 0] \in E
    OBVIOUS
  <2> QED BY <2>1
<1> HIDE DEF E
<1>5. s \in Seq(E) /\ \A x \in E : \E k \in DOMAIN s : s[k] = x
  BY <1>1, SetToSeqIs
<1> HIDE DEF s
<1>6. \A k \in DOMAIN s : s[k] \in E
  BY <1>5, ElementOfSeq, LenProperties
<1>7. s \in Seq(Entries)
  BY <1>3, <1>5
<1>8. \A l \in S : \E k \in DOMAIN s : s[k].lit = -l
  BY <1>4, <1>5
<1>9. Assume(S) = s
  BY DEF Assume, s, E
<1> QED BY <1>3, <1>6, <1>7, <1>8, <1>9

LEMMA DbIs ==
  ASSUME TypeDb
  PROVE  /\ Len(db) \in Nat /\ DOMAIN db = 1 .. Len(db) /\ DOMAIN db \subseteq Nat \ {0}
         /\ \A c \in DOMAIN db : db[c].lits \subseteq Lits
<1>1. \A c \in DOMAIN db : db[c] \in Clause
  BY LenProperties, ElementOfSeq DEF TypeDb
<1>2. Len(db) \in Nat /\ DOMAIN db = 1 .. Len(db)
  BY LenProperties DEF TypeDb
<1> QED BY <1>1, <1>2 DEF Clause

\* A literal's unit clauses, and the trail that they give.
LEMMA AssignedIs ==
  ASSUME TypeDb, NEW U \in SUBSET DOMAIN db
  PROVE  /\ Assigned(U) \in Seq(Entries)
         /\ \A k \in DOMAIN Assigned(U) :
              Assigned(U)[k].reason \in U /\ Assigned(U)[k].lit \in db[Assigned(U)[k].reason].lits
         /\ \A u \in U : \A l \in db[u].lits : \E k \in DOMAIN Assigned(U) : Assigned(U)[k].lit = l
<1> DEFINE W == UNION {db[c].lits : c \in U}
           R(l) == Min({c \in U : l \in db[c].lits})
           E == {[lit |-> l, reason |-> R(l)] : l \in W}
           s == SetToSeq(E)
<1>1. DOMAIN db \subseteq Nat /\ \A c \in DOMAIN db : db[c].lits \subseteq Lits
  BY DbIs
<1>2. W \subseteq Lits
  BY <1>1
<1>3. ASSUME NEW l \in W  PROVE R(l) \in U /\ R(l) \in Nat /\ l \in db[R(l)].lits
  <2> DEFINE T == {c \in U : l \in db[c].lits}
  <2>1. T \in SUBSET Nat /\ T # {}
    BY <1>1
  <2>2. Min(T) \in T
    <3> HIDE DEF T
    <3> QED BY <2>1, MinIs
  <2> QED BY <1>1, <2>2
<1>4. IsFiniteSet(E)
  <2>1. IsFiniteSet(W)
    BY <1>2, LitsFinite
  <2> DEFINE f == [l \in W |-> [lit |-> l, reason |-> R(l)]]
  <2> HIDE DEF W, R
  <2>2. f \in [W -> E] /\ \A y \in E : \E x \in W : f[x] = y
    OBVIOUS
  <2> HIDE DEF f, E
  <2> QED BY <2>1, <2>2, FiniteRange
<1>5. \A e \in E : e \in Entries /\ e.reason \in U /\ e.lit \in db[e.reason].lits
  <2> HIDE DEF R, W
  <2> QED BY <1>2, <1>3 DEF Entries
<1>6. ASSUME NEW l \in W  PROVE \E e \in E : e.lit = l
  <2> HIDE DEF R, W
  <2>1. [lit |-> l, reason |-> R(l)] \in E
    OBVIOUS
  <2>2. [lit |-> l, reason |-> R(l)].lit = l
    OBVIOUS
  <2> HIDE DEF E
  <2> QED BY <2>1, <2>2
<1>7. \A u \in U : \A l \in db[u].lits : l \in W
  OBVIOUS
<1>8. Assigned(U) = s
  BY DEF Assigned
<1> HIDE DEF E, W
<1>9. s \in Seq(E) /\ \A x \in E : \E k \in DOMAIN s : s[k] = x
  BY <1>4, SetToSeqIs
<1> HIDE DEF s
<1>10. \A k \in DOMAIN s : s[k] \in E
  BY <1>9, ElementOfSeq, LenProperties
<1>11. s \in Seq(Entries)
  BY <1>5, <1>9
<1> QED BY <1>5, <1>6, <1>7, <1>8, <1>9, <1>10, <1>11

-----------------------------------------------------------------------------
(* What each step does.                                                    *)

LEMMA WholeTrail ==
  ASSUME NEW t \in Seq(Entries)
  PROVE  SubSeq(t, 1, Len(t)) = t
<1>1. Len(t) \in 0 .. Len(t) /\ Len(t) \in Nat
  BY TrailDomain
<1> DEFINE s == SubSeq(t, 1, Len(t))
<1>2. s \in Seq(Entries) /\ Len(s) = Len(t) /\ \A q \in 1 .. Len(t) : s[q] = t[q]
  BY <1>1, CutIs
<1> HIDE DEF s
<1>3. s \in [1 .. Len(t) -> Entries] /\ t \in [1 .. Len(t) -> Entries]
  BY <1>2, LenProperties
<1>4. s = t
  BY <1>2, <1>3
<1> QED BY <1>4 DEF s

\* What the removal of a lemma takes off the trail.
Gone(c) == IF Unit(c) THEN {k \in DOMAIN trail : trail[k].lit \in db[c].lits} ELSE ReasonFor(c)

LEMMA WithoutIs ==
  ASSUME trail \in Seq(Entries), NEW c
  PROVE  \E n \in 0 .. Len(trail) :
           /\ Without(c) = SubSeq(trail, 1, n)
           /\ \A k \in 1 .. n : k \notin Gone(c)
           /\ n = Len(trail) \/ n + 1 \in Gone(c)
<1>1. Len(trail) \in Nat /\ DOMAIN trail = 1 .. Len(trail) /\ Gone(c) \subseteq DOMAIN trail
  BY TrailDomain DEF Gone, ReasonFor
<1>2. Without(c) = IF Gone(c) = {} THEN trail ELSE SubSeq(trail, 1, Min(Gone(c)) - 1)
  BY DEF Without, Gone
<1>3. CASE Gone(c) = {}
  <2>1. Without(c) = SubSeq(trail, 1, Len(trail))
    BY <1>2, <1>3, WholeTrail
  <2>2. Len(trail) \in 0 .. Len(trail)
    BY <1>1
  <2> QED BY <2>1, <2>2, <1>3
<1>4. CASE Gone(c) # {}
  <2> DEFINE m == Min(Gone(c))
  <2>1. m \in Gone(c) /\ \A k \in Gone(c) : m <= k
    BY <1>1, <1>4, MinIs
  <2>2. Without(c) = SubSeq(trail, 1, m - 1)
    BY <1>2, <1>4
  <2> HIDE DEF m
  <2>3. m - 1 \in 0 .. Len(trail) /\ (m - 1) + 1 = m
    BY <1>1, <2>1
  <2>4. \A k \in 1 .. (m - 1) : k \notin Gone(c)
    BY <1>1, <2>1
  <2> QED BY <2>1, <2>2, <2>3, <2>4
<1> QED BY <1>3, <1>4

LEMMA InputSame ==
  ASSUME DratStep
  PROVE  input' = input
BY DEF DratStep, ReadAddition, ReadDeletion, Initialise, PropagateUnit, Conflict, EndOfUnits,
       DeleteStep, SkipSatisfied, CheckForward, Insert, EndOfProof, Back, CheckBackward,
       AllChecked, StartRat, RatCandidate, RatHolds, RatFails, vars

LEMMA LineIs ==
  ASSUME TypeInput, at \in Nat, at >= 1, at <= Len(input.lines)
  PROVE  /\ input.lines[at].lits \in Seq(Lits)
         /\ input.lines[at].op \in {"add", "trust", "delete"}
         /\ at \in DOMAIN input.lines
<1> DEFINE Line == [op : {"add", "trust", "delete"}, lits : Seq(Lits)]
           s == input.lines
<1>1. s \in Seq(Line)
  BY DEF TypeInput
<1> HIDE DEF Line, s
<1>2. Len(s) \in Nat /\ DOMAIN s = 1 .. Len(s)
  BY <1>1, LenProperties
<1>3. at \in 1 .. Len(s)
  BY <1>2 DEF s
<1>4. s[at] \in Line
  BY <1>1, <1>3, ElementOfSeq
<1> QED BY <1>2, <1>3, <1>4 DEF Line, s

LEMMA StepIs ==
  ASSUME TypeSteps, TypeDb
  PROVE  /\ Len(steps) \in Nat /\ DOMAIN steps = 1 .. Len(steps)
         /\ \A i \in DOMAIN steps : /\ steps[i].op \in {"add", "delete", "none"}
                                    /\ steps[i].clause \in DOMAIN db /\ steps[i].skip \in BOOLEAN
                                    /\ steps[i].clause \in Nat \ {0}
                                    /\ db[steps[i].clause].lits \subseteq Lits
                                    /\ steps[i] \in Step
<1>1. Len(steps) \in Nat /\ DOMAIN steps = 1 .. Len(steps) /\ \A i \in DOMAIN steps : steps[i] \in Step
  BY LenProperties, ElementOfSeq DEF TypeSteps
<1>2. \A i \in DOMAIN steps : steps[i].clause \in DOMAIN db
  BY DEF TypeSteps
<1> QED BY <1>1, <1>2, DbIs DEF Step

LEMMA ConflictIs ==
  ASSUME DratTypeOK, Shape, Conflict
  PROVE  /\ pc = "propagate" /\ (\E c \in live : Open(c) = {} /\ marked' = marked \cup Cone(c))
         /\ trail' = Kept
         /\ db' = db /\ hashed' = hashed /\ steps' = steps /\ live' = live
         /\ forced' = forced /\ rat' = rat /\ usedRat' = usedRat /\ goal' = goal
         /\ \/ (Starting \/ (Joining /\ input.forward)) /\ pc' = "done" /\ verdict' = "VERIFIED" /\ at' = at
            \/ Joining /\ ~input.forward /\ pc' = "backward" /\ verdict' = verdict /\ at' = at
            \/ Checking /\ input.forward /\ pc' = "insert" /\ verdict' = verdict /\ at' = at
            \/ Checking /\ ~input.forward /\ pc' = "backward" /\ verdict' = verdict /\ at' = at - 1
            \/ Trying /\ pc' = "rat" /\ verdict' = verdict /\ at' = at
<1>1. goal \in {"init", "lemma", "check", "rat"}
  BY DEF Conflict, Shape, DratTypeOK, TypePhase
<1>2. input.forward \in BOOLEAN
  BY DEF DratTypeOK, TypeInput
<1> QED BY <1>1, <1>2 DEF Conflict, Stop, GoTo, Checked, Starting, Joining, Checking, Trying

LEMMA OpenIs ==
  ASSUME TypeDb, NEW c \in DOMAIN db
  PROVE  /\ Open(c) \subseteq db[c].lits /\ Open(c) \subseteq Lits
         /\ \/ Open(c) = {} /\ Cardinality(Open(c)) = 0
            \/ \E l \in Lits : Open(c) = {l} /\ Cardinality(Open(c)) = 1
            \/ Cardinality(Open(c)) > 1 /\ Cardinality(Open(c)) # 1 /\ Open(c) # {}
<1>1. Open(c) \subseteq db[c].lits /\ Open(c) \subseteq Lits
  BY DbIs DEF Open
<1>2. IsFiniteSet(Open(c))
  BY <1>1, LitsFinite
<1>3. Cardinality(Open(c)) \in Nat /\ (Cardinality(Open(c)) = 0 <=> Open(c) = {})
  BY <1>2, FS_CardinalityType, FS_EmptySet
<1>4. Cardinality(Open(c)) = 1 => \E l : Open(c) = {l}
  BY <1>2, FS_Singleton
<1>5. Cardinality(Open(c)) = 0 \/ Cardinality(Open(c)) = 1 \/ Cardinality(Open(c)) > 1
  BY <1>3
<1>6. ASSUME Cardinality(Open(c)) = 1  PROVE \E l \in Lits : Open(c) = {l}
  <2>1. PICK l : Open(c) = {l}
    BY <1>4, <1>6
  <2>2. l \in Lits
    BY <1>1, <2>1
  <2> QED BY <2>1, <2>2
<1> QED BY <1>1, <1>3, <1>5, <1>6

LEMMA InsertIs ==
  ASSUME DratTypeOK, Shape, Insert
  PROVE  /\ pc = "insert" \/ (pc = "forward" /\ ~input.forward /\ ~(Satisfied(Id) /\ Unit(Id)))
         /\ at \in DOMAIN steps /\ steps[at].op = "add" /\ forced = Len(trail)
         /\ live' = IF Cardinality(db[Id].lits) > 1 THEN live \cup {Id} ELSE live
         /\ db' = db /\ hashed' = hashed /\ steps' = steps
         /\ forced' = forced /\ rat' = rat /\ usedRat' = usedRat
         /\ \/ /\ Satisfied(Id) \/ Cardinality(Open(Id)) > 1
               /\ pc' = "forward" /\ at' = at + 1 /\ goal' = goal /\ verdict' = verdict
               /\ trail' = trail /\ marked' = marked
            \/ /\ ~Satisfied(Id) /\ pc' = "propagate" /\ goal' = "lemma" /\ at' = at
               /\ verdict' = verdict /\ marked' = marked
               /\ \E l \in Lits : Open(Id) = {l} /\ trail' = Append(trail, [lit |-> l, reason |-> Id])
            \/ /\ Open(Id) = {} /\ steps[at].skip /\ ~input.forward
               /\ pc' = "backward" /\ goal' = goal /\ at' = at /\ verdict' = verdict
               /\ trail' = trail /\ marked' = marked \cup Cone(Id)
            \/ /\ pc' = "done" /\ verdict' = "NOT VERIFIED" /\ goal' = goal /\ at' = at
               /\ trail' = trail /\ marked' = marked
<1>1. /\ at \in DOMAIN steps /\ steps[at].op = "add" /\ forced = Len(trail)
  <2>1. CASE pc = "insert"
    BY <2>1 DEF Shape
  <2>2. CASE Adding /\ ~input.forward
    <3>1. at \in 1 .. Len(steps) /\ steps[at].op = "add"
      BY <2>2, StepIs DEF Adding, Shape, DratTypeOK
    <3>2. forced = Len(trail)
      BY <2>2 DEF Adding, Shape
    <3> QED BY <3>1, <3>2, StepIs DEF DratTypeOK
  <2> QED BY <2>1, <2>2 DEF Insert
<1>2. Id \in DOMAIN db /\ steps[at].skip \in BOOLEAN
  BY <1>1, StepIs DEF Id, DratTypeOK
<1>3. \/ Open(Id) = {} /\ Cardinality(Open(Id)) = 0
      \/ \E l \in Lits : Open(Id) = {l} /\ Cardinality(Open(Id)) = 1
      \/ Cardinality(Open(Id)) > 1 /\ Cardinality(Open(Id)) # 1 /\ Open(Id) # {}
  BY <1>2, OpenIs DEF DratTypeOK
<1>4. /\ pc = "insert" \/ (pc = "forward" /\ ~input.forward /\ ~(Satisfied(Id) /\ Unit(Id)))
      /\ live' = IF Cardinality(db[Id].lits) > 1 THEN live \cup {Id} ELSE live
      /\ db' = db /\ hashed' = hashed /\ steps' = steps
      /\ forced' = forced /\ rat' = rat /\ usedRat' = usedRat
  BY DEF Insert, Adding
<1>5. CASE Satisfied(Id) \/ Cardinality(Open(Id)) > 1
  <2>1. /\ at' = at + 1 /\ pc' = "forward" /\ goal' = goal /\ verdict' = verdict
        /\ trail' = trail /\ marked' = marked
    <3>1. CASE Satisfied(Id)
      BY <3>1, Zenon DEF Insert, GoTo, For, Stop
    <3>2. CASE Cardinality(Open(Id)) > 1
      <4>1. ~(Cardinality(Open(Id)) = 1) /\ ~(Open(Id) = {})
        BY <1>3, <3>2
      <4> QED BY <3>2, <4>1, Zenon DEF Insert, GoTo, For, Stop
    <3> QED BY <1>5, <3>1, <3>2
  <2> QED BY <1>1, <1>4, <1>5, <2>1
<1>6. CASE ~Satisfied(Id) /\ \E l \in Lits : Open(Id) = {l} /\ Cardinality(Open(Id)) = 1
  <2>1. PICK l \in Lits : Open(Id) = {l} /\ Cardinality(Open(Id)) = 1
    BY <1>6
  <2>2. (CHOOSE x \in Open(Id) : TRUE) = l
    BY <2>1
  <2>3. /\ trail' = Append(trail, [lit |-> CHOOSE x \in Open(Id) : TRUE, reason |-> Id])
        /\ pc' = "propagate" /\ goal' = "lemma" /\ verdict' = verdict /\ at' = at /\ marked' = marked
    <3>1. ~(Cardinality(Open(Id)) > 1) /\ ~(Open(Id) = {})
      BY <2>1
    <3> QED BY <1>6, <2>1, <3>1, Zenon DEF Insert, GoTo, For, Stop
  <2>4. trail' = Append(trail, [lit |-> l, reason |-> Id])
    BY <2>2, <2>3
  <2> QED BY <1>1, <1>4, <1>6, <2>1, <2>3, <2>4
<1>7. CASE ~Satisfied(Id) /\ Open(Id) = {}
  <2>1. ~(Cardinality(Open(Id)) > 1) /\ ~(Cardinality(Open(Id)) = 1)
    <3>1. Cardinality(Open(Id)) = 0
      BY <1>7, FS_EmptySet
    <3> QED BY <3>1
  <2>2. CASE steps[at].skip
    <3>1. /\ marked' = marked \cup Cone(Id) /\ pc' = "backward" /\ goal' = goal /\ verdict' = verdict
          /\ at' = at /\ trail' = trail
      BY <1>7, <2>1, <2>2, Zenon DEF Insert, GoTo, For, Stop
    <3>2. ~input.forward
      BY <1>4, <1>7, <2>2 DEF Shape
    <3> QED BY <1>1, <1>4, <1>7, <2>2, <3>1, <3>2
  <2>3. CASE ~steps[at].skip
    <3>1. /\ pc' = "done" /\ verdict' = "NOT VERIFIED" /\ goal' = goal
          /\ at' = at /\ trail' = trail /\ marked' = marked
      BY <1>7, <2>1, <2>3, Zenon DEF Insert, GoTo, For, Stop
    <3> QED BY <1>1, <1>4, <3>1
  <2> QED BY <1>2, <2>2, <2>3
<1> QED BY <1>3, <1>5, <1>6, <1>7

LEMMA TypePhaseStep ==
  ASSUME DratTypeOK, Shape, DratStep
  PROVE  TypePhase'
<1>0. TypePhase
  BY DEF DratTypeOK
<1>1. ASSUME ReadAddition \/ ReadDeletion \/ PropagateUnit \/ DeleteStep \/ SkipSatisfied \/ Back
      PROVE  TypePhase'
  BY <1>0, <1>1 DEF ReadAddition, ReadDeletion, PropagateUnit, DeleteStep, SkipSatisfied, Back, TypePhase
<1>2. ASSUME Initialise  PROVE TypePhase'
  BY <1>0, <1>2 DEF Initialise, TypePhase, Stop, For
<1>3. ASSUME Conflict  PROVE TypePhase'
  BY <1>3, <1>0, ConflictIs DEF TypePhase
<1>4. ASSUME EndOfUnits  PROVE TypePhase'
  BY <1>0, <1>4 DEF EndOfUnits, TypePhase, GoTo
<1>5. ASSUME CheckForward  PROVE TypePhase'
  BY <1>0, <1>5 DEF CheckForward, TypePhase, Stop, GoTo, StartCheck, Checked, For
<1>6. ASSUME Insert  PROVE TypePhase'
  BY <1>6, <1>0, InsertIs DEF TypePhase
<1>7. ASSUME EndOfProof  PROVE TypePhase'
  BY <1>0, <1>7 DEF EndOfProof, TypePhase, Stop
<1>8. ASSUME CheckBackward  PROVE TypePhase'
  BY <1>0, <1>8 DEF CheckBackward, TypePhase, Stop, GoTo, For
<1>9. ASSUME AllChecked  PROVE TypePhase'
  BY <1>0, <1>9 DEF AllChecked, TypePhase, Stop
<1>10. ASSUME StartRat  PROVE TypePhase'
  BY <1>0, <1>10 DEF StartRat, TypePhase, Stop, GoTo
<1>11. ASSUME RatCandidate  PROVE TypePhase'
  BY <1>0, <1>11 DEF RatCandidate, TypePhase, GoTo, For
<1>12. ASSUME RatHolds  PROVE TypePhase'
  BY <1>0, <1>12 DEF RatHolds, TypePhase, Checked, GoTo
<1>13. ASSUME RatFails  PROVE TypePhase'
  BY <1>0, <1>13 DEF RatFails, TypePhase, GoTo, Stop
<1> QED BY <1>1, <1>2, <1>3, <1>4, <1>5, <1>6, <1>7, <1>8, <1>9, <1>10, <1>11, <1>12, <1>13
        DEF DratStep

LEMMA AddingIs ==
  ASSUME DratTypeOK, Shape, pc \in {"forward", "backward"}, at >= 1, at <= Len(steps)
  PROVE  /\ at \in DOMAIN steps /\ Id \in DOMAIN db /\ forced = Len(trail) /\ db[Id].lits \subseteq Lits
         /\ steps[at].op \in {"add", "delete", "none"} /\ steps[at].skip \in BOOLEAN
         /\ Id = steps[at].clause
<1>1. at \in 1 .. Len(steps)
  BY StepIs DEF DratTypeOK, TypeTrail
<1>2. at \in DOMAIN steps
  BY <1>1, StepIs DEF DratTypeOK
<1>3. forced = Len(trail)
  BY DEF Shape
<1> QED BY <1>2, <1>3, StepIs DEF DratTypeOK, Id

LEMMA CheckForwardIs ==
  ASSUME DratTypeOK, Shape, CheckForward
  PROVE  /\ pc = "forward" /\ input.forward /\ ~Satisfied(Id)
         /\ at \in DOMAIN steps /\ steps[at].op = "add" /\ forced = Len(trail)
         /\ db' = db /\ hashed' = hashed /\ steps' = steps /\ live' = live /\ at' = at
         /\ forced' = forced /\ marked' = marked /\ rat' = rat /\ usedRat' = usedRat
         /\ \/ /\ steps[at].skip /\ Open(Id) = {}
               /\ pc' = "done" /\ verdict' = "VERIFIED" /\ goal' = goal /\ trail' = trail
            \/ /\ steps[at].skip /\ Open(Id) # {}
               /\ pc' = "insert" /\ verdict' = verdict /\ goal' = goal /\ trail' = trail
            \/ /\ ~steps[at].skip /\ Inconsistent(db[Id].lits)
               /\ pc' = "insert" /\ verdict' = verdict /\ goal' = goal /\ trail' = trail
            \/ /\ ~steps[at].skip
               /\ pc' = "propagate" /\ verdict' = verdict /\ goal' = "check"
               /\ trail' = trail \o Assume(Open(Id))
<1>1. /\ pc = "forward" /\ input.forward /\ ~Satisfied(Id) /\ steps[at].op = "add" /\ at <= Len(steps)
      /\ db' = db /\ hashed' = hashed /\ steps' = steps /\ live' = live
      /\ forced' = forced /\ marked' = marked /\ rat' = rat /\ usedRat' = usedRat
  BY DEF CheckForward, Adding
<1>2. at \in DOMAIN steps /\ forced = Len(trail) /\ steps[at].skip \in BOOLEAN
  <2>1. at >= 1
    BY <1>1 DEF Shape, DratTypeOK
  <2> QED BY <1>1, <2>1, AddingIs
<1>3. CASE steps[at].skip /\ Open(Id) = {}
  <2>1. pc' = "done" /\ verdict' = "VERIFIED" /\ goal' = goal /\ trail' = trail /\ at' = at
    BY <1>3, Zenon DEF CheckForward, Stop
  <2> QED BY <1>1, <1>2, <1>3, <2>1
<1>4. CASE steps[at].skip /\ Open(Id) # {}
  <2>1. pc' = "insert" /\ verdict' = verdict /\ goal' = goal /\ trail' = trail /\ at' = at
    BY <1>4, Zenon DEF CheckForward, GoTo
  <2> QED BY <1>1, <1>2, <1>4, <2>1
<1>5. CASE ~steps[at].skip
  <2>1. StartCheck(Id)
    BY <1>5, Zenon DEF CheckForward
  <2>2. CASE Inconsistent(db[Id].lits)
    <3>1. pc' = "insert" /\ verdict' = verdict /\ goal' = goal /\ trail' = Kept /\ at' = at
      BY <1>1, <2>1, <2>2 DEF StartCheck, Checked, GoTo
    <3>2. Kept = trail
      BY <1>2, WholeTrail DEF Kept, DratTypeOK, TypeTrail
    <3> QED BY <1>1, <1>2, <1>5, <2>2, <3>1, <3>2
  <2>3. CASE ~Inconsistent(db[Id].lits)
    <3>1. /\ pc' = "propagate" /\ verdict' = verdict /\ goal' = "check" /\ at' = at
          /\ trail' = trail \o Assume(Open(Id))
      BY <2>1, <2>3 DEF StartCheck, For
    <3> QED BY <1>1, <1>2, <1>5, <3>1
  <2> QED BY <2>2, <2>3
<1> QED BY <1>2, <1>3, <1>4, <1>5

LEMMA BackIs ==
  ASSUME DratTypeOK, Shape, Back
  PROVE  /\ pc = "backward" /\ ~input.forward /\ at \in DOMAIN steps /\ forced = Len(trail)
         /\ db' = db /\ hashed' = hashed /\ steps' = steps /\ marked' = marked /\ pc' = pc
         /\ goal' = goal /\ rat' = rat /\ usedRat' = usedRat /\ verdict' = verdict /\ at' = at - 1
         /\ \/ /\ steps[at].op = "none"
               /\ live' = live /\ trail' = trail /\ forced' = forced
            \/ /\ steps[at].op = "delete"
               /\ live' = live \cup {Id} /\ trail' = trail /\ forced' = forced
            \/ /\ steps[at].op = "add" /\ (Id \notin marked \/ steps[at].skip)
               /\ live' = live \ {Id}
               /\ \E n \in 0 .. Len(trail) :
                    /\ trail' = SubSeq(trail, 1, n) /\ forced' = n
                    /\ \A k \in 1 .. n : k \notin Gone(Id)
                    /\ n = Len(trail) \/ n + 1 \in Gone(Id)
<1>1. /\ pc = "backward" /\ at > 0 /\ ~input.forward /\ at <= Len(steps)
      /\ db' = db /\ hashed' = hashed /\ steps' = steps /\ marked' = marked /\ pc' = pc
      /\ goal' = goal /\ rat' = rat /\ usedRat' = usedRat /\ verdict' = verdict /\ at' = at - 1
  <2>1. /\ pc = "backward" /\ at > 0
        /\ db' = db /\ hashed' = hashed /\ steps' = steps /\ marked' = marked /\ pc' = pc
        /\ goal' = goal /\ rat' = rat /\ usedRat' = usedRat /\ verdict' = verdict /\ at' = at - 1
    BY DEF Back
  <2>2. ~input.forward /\ at \in 0 .. Len(steps)
    BY <2>1 DEF Shape
  <2> QED BY <2>1, <2>2
<1>2. /\ at \in DOMAIN steps /\ forced = Len(trail) /\ steps[at].op \in {"add", "delete", "none"}
  <2>1. at >= 1
    BY <1>1 DEF DratTypeOK, TypeTrail
  <2> QED BY <1>1, <2>1, AddingIs
<1>3. CASE steps[at].op = "none"
  <2>1. live' = live /\ trail' = trail /\ forced' = forced
    BY <1>3 DEF Back
  <2> QED BY <1>1, <1>2, <1>3, <2>1
<1>4. CASE steps[at].op = "delete"
  <2>1. live' = live \cup {Id} /\ trail' = trail /\ forced' = forced
    BY <1>4 DEF Back, Revived
  <2> QED BY <1>1, <1>2, <1>4, <2>1
<1>5. CASE steps[at].op = "add"
  <2>1. /\ Id \notin marked \/ steps[at].skip
        /\ live' = live \ {Id} /\ trail' = Without(Id) /\ forced' = Len(trail')
    BY <1>5 DEF Back
  <2>2. PICK n \in 0 .. Len(trail) :
          /\ Without(Id) = SubSeq(trail, 1, n)
          /\ \A k \in 1 .. n : k \notin Gone(Id)
          /\ n = Len(trail) \/ n + 1 \in Gone(Id)
    BY WithoutIs DEF DratTypeOK, TypeTrail
  <2>3. forced' = n
    BY <2>1, <2>2, CutIs DEF DratTypeOK, TypeTrail
  <2> QED BY <1>1, <1>2, <1>5, <2>1, <2>2, <2>3
<1> QED BY <1>2, <1>3, <1>4, <1>5

NoneTrue(n) == \A k \in 1 .. n : trail[k].lit \notin db[Id].lits

StillOpen(n) == {l \in db[Id].lits : \A k \in 1 .. n : trail[k].lit # -l}

LEMMA CheckBackwardIs ==
  ASSUME DratTypeOK, Shape, CheckBackward
  PROVE  /\ pc = "backward" /\ ~input.forward /\ at \in DOMAIN steps /\ forced = Len(trail)
         /\ steps[at].op = "add" /\ Id \in marked /\ ~steps[at].skip
         /\ live' = live \ {Id}
         /\ db' = db /\ hashed' = hashed /\ steps' = steps /\ marked' = marked
         /\ rat' = rat /\ usedRat' = usedRat
         /\ \E n \in 0 .. Len(trail) :
              /\ forced' = n
              /\ \A k \in 1 .. n : k \notin Gone(Id)
              /\ n = Len(trail) \/ n + 1 \in Gone(Id)
              /\ \/ /\ pc' = "done" /\ verdict' = "ABORTED" /\ goal' = goal /\ at' = at
                    /\ trail' = SubSeq(trail, 1, n)
                 \/ /\ NoneTrue(n) /\ Inconsistent(db[Id].lits)
                    /\ pc' = "backward" /\ verdict' = verdict /\ goal' = goal /\ at' = at - 1
                    /\ trail' = SubSeq(trail, 1, n)
                 \/ /\ NoneTrue(n)
                    /\ pc' = "propagate" /\ verdict' = verdict /\ goal' = "check" /\ at' = at
                    /\ trail' = SubSeq(trail, 1, n) \o Assume(StillOpen(n))
<1> DEFINE before == Without(Id)
           true == {before[k].lit : k \in DOMAIN before}
           open == {l \in db[Id].lits : -l \notin true}
<1>1. /\ pc = "backward" /\ at > 0 /\ ~input.forward /\ at <= Len(steps)
      /\ steps[at].op = "add" /\ Id \in marked /\ ~steps[at].skip /\ live' = live \ {Id}
      /\ db' = db /\ hashed' = hashed /\ steps' = steps /\ marked' = marked
      /\ rat' = rat /\ usedRat' = usedRat
  <2>1. /\ pc = "backward" /\ at > 0 /\ steps[at].op = "add" /\ Id \in marked /\ ~steps[at].skip
        /\ live' = live \ {Id}
        /\ db' = db /\ hashed' = hashed /\ steps' = steps /\ marked' = marked
        /\ rat' = rat /\ usedRat' = usedRat
    BY DEF CheckBackward
  <2>2. ~input.forward /\ at \in 0 .. Len(steps)
    BY <2>1 DEF Shape
  <2> QED BY <2>1, <2>2
<1>2. /\ at \in DOMAIN steps /\ forced = Len(trail) /\ db[Id].lits \subseteq Lits
  <2>1. at >= 1
    BY <1>1 DEF DratTypeOK, TypeTrail
  <2> QED BY <1>1, <2>1, AddingIs
<1>3. PICK n \in 0 .. Len(trail) :
        /\ before = SubSeq(trail, 1, n)
        /\ \A k \in 1 .. n : k \notin Gone(Id)
        /\ n = Len(trail) \/ n + 1 \in Gone(Id)
  BY WithoutIs DEF DratTypeOK, TypeTrail
<1>4. /\ forced' = Len(before)
      /\ \/ /\ trail' = before /\ pc' = "done" /\ verdict' = "ABORTED" /\ goal' = goal /\ at' = at
         \/ /\ db[Id].lits \cap true = {} /\ Inconsistent(open) /\ trail' = before
            /\ at' = at - 1 /\ pc' = "backward" /\ verdict' = verdict /\ goal' = goal
         \/ /\ db[Id].lits \cap true = {} /\ trail' = before \o Assume(open)
            /\ pc' = "propagate" /\ verdict' = verdict /\ goal' = "check" /\ at' = at
  BY Zenon DEF CheckBackward, Stop, GoTo, For
<1>5. /\ DOMAIN before = 1 .. n /\ Len(before) = n /\ \A k \in 1 .. n : before[k] = trail[k]
  BY <1>3, CutIs DEF DratTypeOK, TypeTrail
<1>6. true = {trail[k].lit : k \in 1 .. n}
  <2> HIDE DEF before
  <2> QED BY <1>5
<1> HIDE DEF before, true
<1>7. db[Id].lits \cap true = {} => NoneTrue(n)
  BY <1>6 DEF NoneTrue
<1>8. open = StillOpen(n)
  BY <1>6 DEF StillOpen
<1>9. Inconsistent(open) => Inconsistent(db[Id].lits)
  BY DEF Inconsistent
<1> HIDE DEF open
<1>10. /\ forced' = n
       /\ \/ /\ trail' = SubSeq(trail, 1, n) /\ pc' = "done" /\ verdict' = "ABORTED" /\ goal' = goal /\ at' = at
          \/ /\ NoneTrue(n) /\ Inconsistent(db[Id].lits) /\ trail' = SubSeq(trail, 1, n)
             /\ at' = at - 1 /\ pc' = "backward" /\ verdict' = verdict /\ goal' = goal
          \/ /\ NoneTrue(n) /\ trail' = SubSeq(trail, 1, n) \o Assume(StillOpen(n))
             /\ pc' = "propagate" /\ verdict' = verdict /\ goal' = "check" /\ at' = at
  BY <1>3, <1>4, <1>5, <1>7, <1>8, <1>9
<1> QED BY <1>1, <1>2, <1>3, <1>10

LEMMA RatCandidateIs ==
  ASSUME DratTypeOK, Shape, RatCandidate
  PROVE  /\ pc = "rat" /\ forced = Len(trail)
         /\ db' = db /\ hashed' = hashed /\ steps' = steps /\ live' = live /\ at' = at
         /\ forced' = forced /\ usedRat' = usedRat /\ verdict' = verdict
         /\ \E c \in rat.todo :
              /\ rat' = [rat EXCEPT !.todo = rat.todo \ {c}]
              /\ \/ /\ \A k \in DOMAIN trail : trail[k].lit \notin db[c].lits \ {-rat.pivot}
                    /\ pc' = "propagate" /\ goal' = "rat" /\ marked' = marked
                    /\ trail' = trail \o Assume(Open(c) \ {-rat.pivot})
                 \/ /\ pc' = "rat" /\ goal' = goal
                    /\ \E k \in DOMAIN trail, S \in SUBSET DOMAIN trail :
                         /\ trail[k].lit \in db[c].lits \ {-rat.pivot}
                         /\ \A j \in S : trail[j].reason = trail[k].reason
                         /\ marked' = IF trail[k].reason = 0 THEN marked
                                      ELSE marked \cup Cone(trail[k].reason)
                         /\ trail' = Unreasoned(trail, S)
<1> DEFINE c == Max(rat.todo)
           rest == db[c].lits \ {-rat.pivot}
           blocking == {k \in DOMAIN trail : trail[k].lit \in rest}
           reasons == {trail[k].reason : k \in blocking}
           reason == Min(reasons)
<1>1. /\ pc = "rat" /\ forced = Len(trail)
      /\ db' = db /\ hashed' = hashed /\ steps' = steps /\ live' = live /\ at' = at
      /\ forced' = forced /\ usedRat' = usedRat
  BY DEF RatCandidate, Shape
<1>2. c \in rat.todo
  <2>1. rat.todo # {} /\ rat.todo \subseteq DOMAIN db
    BY DEF RatCandidate, DratTypeOK, TypeRat
  <2>2. rat.todo \in SUBSET Nat /\ Len(db) \in Nat /\ \A x \in rat.todo : x <= Len(db)
    BY <2>1, DbIs DEF DratTypeOK
  <2> QED BY <2>1, <2>2, MaxIs
<1>3. /\ rat' = [rat EXCEPT !.todo = @ \ {c}]
      /\ IF blocking = {}
         THEN /\ trail' = trail \o Assume(Open(c) \ {-rat.pivot})
              /\ pc' = "propagate" /\ goal' = "rat" /\ verdict' = verdict /\ marked' = marked
         ELSE /\ marked' = IF reason = 0 THEN marked ELSE marked \cup Cone(reason)
              /\ trail' = [k \in DOMAIN trail |->
                               IF k \in blocking /\ trail[k].reason = reason
                               THEN [trail[k] EXCEPT !.reason = 0] ELSE trail[k]]
              /\ pc' = "rat" /\ goal' = goal /\ verdict' = verdict
  BY Zenon DEF RatCandidate, GoTo, For
<1>4. rat' = [rat EXCEPT !.todo = rat.todo \ {c}]
  BY <1>3
<1>5. CASE blocking = {}
  <2>1. \A k \in DOMAIN trail : trail[k].lit \notin rest
    BY <1>5
  <2> HIDE DEF c
  <2> QED BY <1>1, <1>2, <1>3, <1>4, <1>5, <2>1
<1>6. CASE blocking # {}
  <2>1. \A k \in DOMAIN trail : trail[k].reason \in Nat
    BY TrailDomain DEF DratTypeOK, TypeTrail
  <2>2. reasons \in SUBSET Nat /\ reasons # {}
    <3> HIDE DEF c
    <3> QED BY <1>6, <2>1
  <2>3. reason \in reasons
    <3> HIDE DEF reasons
    <3> QED BY <2>2, MinIs
  <2>4. PICK k \in blocking : reason = trail[k].reason
    <3> HIDE DEF reason, blocking
    <3> QED BY <2>3
  <2> DEFINE S == {j \in blocking : trail[j].reason = reason}
  <2>5. trail' = Unreasoned(trail, S)
    <3>1. trail' = [i \in DOMAIN trail |-> IF i \in blocking /\ trail[i].reason = reason
                                 THEN [trail[i] EXCEPT !.reason = 0] ELSE trail[i]]
      BY <1>3, <1>6
    <3> HIDE DEF blocking, reason, c
    <3>2. trail' = Unreasoned(trail, {j \in blocking : trail[j].reason = reason})
      BY <3>1 DEF Unreasoned
    <3> QED BY <3>2
  <2>6. S \in SUBSET DOMAIN trail /\ k \in DOMAIN trail /\ trail[k].lit \in rest
        /\ \A j \in S : trail[j].reason = trail[k].reason
    <3> HIDE DEF reason, c
    <3> QED BY <2>4
  <2>7. marked' = IF trail[k].reason = 0 THEN marked ELSE marked \cup Cone(trail[k].reason)
    <3>1. marked' = IF reason = 0 THEN marked ELSE marked \cup Cone(reason)
      BY <1>3, <1>6
    <3> HIDE DEF reason, c
    <3> QED BY <3>1, <2>4
  <2>8. pc' = "rat" /\ goal' = goal /\ verdict' = verdict
    BY <1>3, <1>6
  <2>9. \E i \in DOMAIN trail, T \in SUBSET DOMAIN trail :
                         /\ trail[i].lit \in db[c].lits \ {-rat.pivot}
                         /\ \A j \in T : trail[j].reason = trail[i].reason
                         /\ marked' = IF trail[i].reason = 0 THEN marked
                                      ELSE marked \cup Cone(trail[i].reason)
                         /\ trail' = Unreasoned(trail, T)
    <3> HIDE DEF c, S
    <3> QED BY <2>5, <2>6, <2>7
  <2> HIDE DEF c
  <2> QED BY <1>1, <1>2, <1>4, <2>8, <2>9
<1> QED BY <1>5, <1>6

LEMMA RatHoldsIs ==
  ASSUME DratTypeOK, Shape, RatHolds
  PROVE  /\ pc = "rat" /\ rat.todo = {} /\ forced = Len(trail)
         /\ db' = db /\ hashed' = hashed /\ steps' = steps /\ live' = live
         /\ marked' = marked /\ goal' = goal /\ verdict' = verdict
         /\ usedRat' = TRUE /\ rat' = NoRat /\ forced' = rat.base
         /\ trail' = SubSeq(trail, 1, rat.base)
         /\ \/ input.forward /\ pc' = "insert" /\ at' = at
            \/ ~input.forward /\ pc' = "backward" /\ at' = at - 1
BY DEF RatHolds, Checked, GoTo, Shape

LEMMA TypeDbStep ==
  ASSUME DratTypeOK, Shape, DratStep
  PROVE  TypeDb' /\ DOMAIN db \subseteq DOMAIN db'
<1>0. input' = input /\ FormulaIds' = FormulaIds
  BY InputSame DEF FormulaIds
<1>1. TypeDb
  BY DEF DratTypeOK
<1>2. CASE ReadAddition
  <2>1. Lemma(input.lines[at].lits) \in Clause
    <3>1. at >= 1
      BY <1>2 DEF ReadAddition, Shape
    <3> QED BY <1>2, <3>1, LineIs, LemmaIs DEF ReadAddition, DratTypeOK, TypeTrail
  <2>2. db \in Seq(Clause) /\ Len(db) \in Nat
    BY <1>1, DbIs DEF TypeDb
  <2>3. db' \in Seq(Clause) /\ Len(db') = Len(db) + 1
    BY <1>2, <2>1, <2>2, AppendProperties DEF ReadAddition
  <2>4. DOMAIN db' = 1 .. (Len(db) + 1) /\ DOMAIN db = 1 .. Len(db)
    BY <1>1, <2>3, LenProperties, DbIs
  <2>5. live' = live /\ hashed' = hashed \cup {Len(db) + 1}
    BY <1>2 DEF ReadAddition, search
  <2>6. Len(db) + 1 \in DOMAIN db' /\ DOMAIN db \subseteq DOMAIN db'
    BY <2>2, <2>4
  <2> QED BY <1>0, <1>1, <2>3, <2>5, <2>6 DEF TypeDb
<1>3. CASE ReadDeletion
  <2>1. db' = db /\ live' = live
    BY <1>3 DEF ReadDeletion, search
  <2>2. hashed' \subseteq hashed
    <3>1. CASE hashed' = hashed
      BY <3>1
    <3>2. CASE \E c : hashed' = hashed \ {c}
      BY <3>2
    <3> QED BY <1>3, <3>1, <3>2 DEF ReadDeletion
  <2> QED BY <1>0, <1>1, <2>1, <2>2 DEF TypeDb
<1>4. CASE Initialise
  BY <1>0, <1>1, <1>4 DEF Initialise, TypeDb
<1>5. CASE DeleteStep
  <2>1. db' = db /\ hashed' = hashed /\ (live' = live \/ live' = live \ {Id})
    BY <1>5 DEF DeleteStep
  <2> QED BY <1>0, <1>1, <2>1 DEF TypeDb
<1>6. CASE Insert
  <2>1. Id \in DOMAIN db
    BY <1>6, InsertIs, StepIs DEF DratTypeOK, Id
  <2> QED BY <1>0, <1>1, <1>6, <2>1, InsertIs DEF TypeDb
<1>7. CASE Back
  <2>1. Id \in DOMAIN db
    BY <1>7, BackIs, StepIs DEF DratTypeOK, Id
  <2>2. db' = db /\ hashed' = hashed /\ (live' = live \/ live' = live \ {Id} \/ live' = live \cup {Id})
    BY <1>7, BackIs
  <2> QED BY <1>0, <1>1, <2>1, <2>2 DEF TypeDb
<1>8. CASE CheckBackward
  BY <1>0, <1>1, <1>8, CheckBackwardIs DEF TypeDb
<1>9. CASE UNCHANGED <<db, hashed, live>>
  BY <1>0, <1>1, <1>9 DEF TypeDb
<1> QED BY <1>2, <1>3, <1>4, <1>5, <1>6, <1>7, <1>8, <1>9
        DEF DratStep, PropagateUnit, Conflict, EndOfUnits, SkipSatisfied, CheckForward, EndOfProof,
            AllChecked, StartRat, RatCandidate, RatHolds, RatFails, search

LEMMA OpExcept ==
  ASSUME NEW s \in Seq(Step), NEW i \in DOMAIN s
  PROVE  /\ [s EXCEPT ![i].op = "none"] \in Seq(Step)
         /\ DOMAIN [s EXCEPT ![i].op = "none"] = DOMAIN s
         /\ Len([s EXCEPT ![i].op = "none"]) = Len(s)
         /\ [s EXCEPT ![i].op = "none"][i].op = "none"
         /\ \A j \in DOMAIN s : /\ [s EXCEPT ![i].op = "none"][j].clause = s[j].clause
                                /\ [s EXCEPT ![i].op = "none"][j].skip = s[j].skip
                                /\ j # i => [s EXCEPT ![i].op = "none"][j] = s[j]
<1> DEFINE e == [s[i] EXCEPT !.op = "none"]
           u == [s EXCEPT ![i] = e]
<1>1. Len(s) \in Nat /\ DOMAIN s = 1 .. Len(s) /\ s[i] \in Step
  BY LenProperties, ElementOfSeq
<1>2. e \in Step /\ e.op = "none" /\ e.clause = s[i].clause /\ e.skip = s[i].skip
  BY <1>1 DEF Step
<1>3. u = [s EXCEPT ![i].op = "none"]
  BY <1>1
<1> HIDE DEF e
<1>4. DOMAIN u = DOMAIN s /\ u[i] = e /\ \A j \in DOMAIN s : j # i => u[j] = s[j]
  OBVIOUS
<1>5. u \in Seq(Step) /\ Len(u) = Len(s)
  BY <1>1, <1>2
<1> HIDE DEF u
<1>6. \A j \in DOMAIN s : u[j].clause = s[j].clause /\ u[j].skip = s[j].skip
  BY <1>2, <1>4
<1> QED BY <1>2, <1>3, <1>4, <1>5, <1>6

LEMMA StepAppend ==
  ASSUME NEW s \in Seq(Step), NEW e \in Step
  PROVE  /\ Append(s, e) \in Seq(Step) /\ Len(Append(s, e)) = Len(s) + 1 /\ Len(s) \in Nat
         /\ DOMAIN s = 1 .. Len(s) /\ DOMAIN Append(s, e) = 1 .. (Len(s) + 1)
         /\ \A j \in DOMAIN s : j \in DOMAIN Append(s, e) /\ Append(s, e)[j] = s[j]
         /\ Append(s, e)[Len(s) + 1] = e
<1> DEFINE u == Append(s, e)
<1>1. /\ u \in Seq(Step) /\ Len(u) = Len(s) + 1
      /\ \A i \in 1 .. Len(s) : u[i] = s[i]
      /\ u[Len(s) + 1] = e
  BY AppendProperties
<1>2. Len(s) \in Nat /\ DOMAIN s = 1 .. Len(s)
  BY LenProperties
<1> HIDE DEF u
<1>3. DOMAIN u = 1 .. Len(u)
  BY <1>1, LenProperties
<1> QED BY <1>1, <1>2, <1>3 DEF u

\* What a deletion in the proof does.
LEMMA ReadDeletionIs ==
  ASSUME DratTypeOK, ReadDeletion
  PROVE  /\ pc = "parse" /\ at <= Len(input.lines)
         /\ db' = db /\ live' = live /\ trail' = trail /\ forced' = forced /\ marked' = marked
         /\ pc' = pc /\ goal' = goal /\ rat' = rat /\ usedRat' = usedRat /\ verdict' = verdict
         /\ at' = at + 1
         /\ \/ hashed' = hashed /\ steps' = steps
            \/ \E c \in hashed : /\ hashed' = hashed \ {c}
                                 /\ input.forward \/ Cardinality(db[c].lits) > 1
                                 /\ steps' = Append(steps, [op |-> "delete", clause |-> c, skip |-> FALSE])
<1> DEFINE lits == ToSet(input.lines[at].lits)
           equal == {c \in hashed : db[c].lits = lits}
<1>1. /\ pc = "parse" /\ at <= Len(input.lines)
      /\ db' = db /\ live' = live /\ trail' = trail /\ forced' = forced /\ marked' = marked
      /\ pc' = pc /\ goal' = goal /\ rat' = rat /\ usedRat' = usedRat /\ verdict' = verdict
      /\ at' = at + 1
  BY DEF ReadDeletion, search
<1>2. IF equal = {} \/ (Cardinality(lits) <= 1 /\ ~input.forward)
      THEN UNCHANGED <<hashed, steps>>
      ELSE \E c \in equal :
             /\ hashed' = hashed \ {c}
             /\ steps' = Append(steps, [op |-> "delete", clause |-> c, skip |-> FALSE])
  BY Zenon DEF ReadDeletion
<1>3. CASE equal = {} \/ (Cardinality(lits) <= 1 /\ ~input.forward)
  BY <1>1, <1>2, <1>3
<1>4. CASE ~(equal = {} \/ (Cardinality(lits) <= 1 /\ ~input.forward))
  <2>1. PICK c \in equal : /\ hashed' = hashed \ {c}
                           /\ steps' = Append(steps, [op |-> "delete", clause |-> c, skip |-> FALSE])
    BY <1>2, <1>4
  <2>2. c \in hashed /\ db[c].lits = lits
    OBVIOUS
  <2>3. Cardinality(lits) \in Nat
    <3>1. c \in DOMAIN db
      BY <2>2 DEF DratTypeOK, TypeDb
    <3>2. db[c].lits \in SUBSET Lits
      BY <3>1, DbIs DEF DratTypeOK
    <3> HIDE DEF lits
    <3> QED BY <2>2, <3>2, LitsFinite, FS_CardinalityType
  <2>4. input.forward \/ Cardinality(db[c].lits) > 1
    BY <1>4, <2>2, <2>3
  <2> QED BY <1>1, <2>1, <2>2, <2>4
<1> QED BY <1>3, <1>4

LEMMA DeletingIs ==
  ASSUME DratTypeOK, Shape, DeleteStep
  PROVE  /\ pc = "forward" /\ at \in DOMAIN steps /\ steps[at].op = "delete" /\ forced = Len(trail)
         /\ db' = db /\ hashed' = hashed /\ trail' = trail /\ forced' = forced /\ marked' = marked
         /\ pc' = pc /\ goal' = goal /\ rat' = rat /\ usedRat' = usedRat /\ verdict' = verdict
         /\ at' = at + 1
         /\ \/ live' = live /\ steps' = [steps EXCEPT ![at].op = "none"]
            \/ /\ live' = live \ {Id} /\ steps' = steps
               /\ \A k \in DOMAIN trail : trail[k].reason # Id
<1>1. /\ pc = "forward" /\ at <= Len(steps) /\ steps[at].op = "delete"
      /\ db' = db /\ hashed' = hashed /\ trail' = trail /\ forced' = forced /\ marked' = marked
      /\ pc' = pc /\ goal' = goal /\ rat' = rat /\ usedRat' = usedRat /\ verdict' = verdict
      /\ at' = at + 1
  BY DEF DeleteStep, Deleting
<1>2. at >= 1
  BY <1>1 DEF Shape
<1>3. at \in DOMAIN steps /\ forced = Len(trail)
  BY <1>1, <1>2, AddingIs
<1>4. CASE Unit(Id) \/ ReasonFor(Id) # {}
  BY <1>1, <1>3, <1>4 DEF DeleteStep
<1>5. CASE ~(Unit(Id) \/ ReasonFor(Id) # {})
  <2>1. live' = live \ {Id} /\ steps' = steps
    BY <1>5 DEF DeleteStep
  <2>2. \A k \in DOMAIN trail : trail[k].reason # Id
    BY <1>5 DEF ReasonFor
  <2> QED BY <1>1, <1>3, <2>1, <2>2
<1> QED BY <1>4, <1>5

LEMMA SkippingIs ==
  ASSUME DratTypeOK, Shape, SkipSatisfied
  PROVE  /\ pc = "forward" /\ at \in DOMAIN steps /\ steps[at].op = "add" /\ forced = Len(trail)
         /\ Satisfied(Id)
         /\ db' = db /\ hashed' = hashed /\ trail' = trail /\ forced' = forced /\ marked' = marked
         /\ pc' = pc /\ goal' = goal /\ rat' = rat /\ usedRat' = usedRat /\ verdict' = verdict
         /\ at' = at + 1 /\ live' = live
         /\ \/ input.forward /\ steps' = steps
            \/ ~input.forward /\ Unit(Id) /\ steps' = [steps EXCEPT ![at].op = "none"]
<1>1. /\ pc = "forward" /\ at <= Len(steps) /\ steps[at].op = "add" /\ Satisfied(Id)
      /\ db' = db /\ hashed' = hashed /\ trail' = trail /\ forced' = forced /\ marked' = marked
      /\ pc' = pc /\ goal' = goal /\ rat' = rat /\ usedRat' = usedRat /\ verdict' = verdict
      /\ at' = at + 1 /\ live' = live
      /\ \/ input.forward /\ steps' = steps
         \/ ~input.forward /\ Unit(Id) /\ steps' = [steps EXCEPT ![at].op = "none"]
  BY DEF SkipSatisfied, Adding, search
<1>2. at >= 1
  BY <1>1 DEF Shape
<1> QED BY <1>1, <1>2, AddingIs

LEMMA TypeStepsStep ==
  ASSUME DratTypeOK, Shape, DratStep
  PROVE  TypeSteps'
<1>0. TypeSteps /\ TypeDb /\ DOMAIN db \subseteq DOMAIN db'
  BY TypeDbStep DEF DratTypeOK
<1>1. Len(db) \in Nat /\ DOMAIN db = 1 .. Len(db) /\ DOMAIN db \subseteq Nat
  BY <1>0, DbIs
<1>2. CASE ReadAddition
  <2> DEFINE e == [op |-> "add", clause |-> Len(db) + 1, skip |-> input.lines[at].op = "trust"]
  <2>1. e \in Step /\ e.clause = Len(db) + 1
    BY <1>1 DEF Step
  <2>2. steps' = Append(steps, e)
    BY <1>2 DEF ReadAddition
  <2> HIDE DEF e
  <2>3. /\ steps' \in Seq(Step) /\ DOMAIN steps' = 1 .. (Len(steps) + 1) /\ Len(steps) \in Nat
        /\ DOMAIN steps = 1 .. Len(steps) /\ \A j \in DOMAIN steps : steps'[j] = steps[j]
        /\ steps'[Len(steps) + 1] = e
    BY <1>0, <2>1, <2>2, StepAppend DEF TypeSteps
  <2>4. Len(db) + 1 \in DOMAIN db'
    <3>1. Lemma(input.lines[at].lits) \in Clause
      <4>1. at >= 1
        BY <1>2 DEF ReadAddition, Shape
      <4> QED BY <1>2, <4>1, LineIs, LemmaIs DEF ReadAddition, DratTypeOK, TypeTrail
    <3>2. db' \in Seq(Clause) /\ Len(db') = Len(db) + 1
      BY <1>0, <1>2, <3>1, AppendProperties DEF ReadAddition, TypeDb
    <3>3. DOMAIN db' = 1 .. (Len(db) + 1)
      BY <3>2, LenProperties
    <3> QED BY <1>1, <3>3
  <2>5. ASSUME NEW i \in DOMAIN steps'  PROVE steps'[i].clause \in DOMAIN db'
    <3>1. CASE i \in DOMAIN steps
      BY <1>0, <2>3, <3>1 DEF TypeSteps
    <3>2. CASE i = Len(steps) + 1
      BY <2>1, <2>3, <2>4, <3>2
    <3> QED BY <2>3, <3>1, <3>2
  <2> QED BY <2>3, <2>5 DEF TypeSteps
<1>3. CASE ReadDeletion
  <2>1. CASE steps' = steps
    BY <1>0, <2>1 DEF TypeSteps
  <2>2. CASE \E c \in hashed : steps' = Append(steps, [op |-> "delete", clause |-> c, skip |-> FALSE])
    <3>1. PICK c \in hashed : steps' = Append(steps, [op |-> "delete", clause |-> c, skip |-> FALSE])
      BY <2>2
    <3> DEFINE e == [op |-> "delete", clause |-> c, skip |-> FALSE]
    <3>2. e \in Step /\ e.clause = c /\ c \in DOMAIN db
      BY <1>0, <1>1 DEF Step, TypeDb
    <3> HIDE DEF e
    <3>3. /\ steps' \in Seq(Step) /\ DOMAIN steps' = 1 .. (Len(steps) + 1) /\ Len(steps) \in Nat
          /\ DOMAIN steps = 1 .. Len(steps) /\ \A j \in DOMAIN steps : steps'[j] = steps[j]
          /\ steps'[Len(steps) + 1] = e
      BY <1>0, <3>1, <3>2, StepAppend DEF TypeSteps, e
    <3>4. ASSUME NEW i \in DOMAIN steps'  PROVE steps'[i].clause \in DOMAIN db'
      <4>1. CASE i \in DOMAIN steps
        BY <1>0, <3>3, <4>1 DEF TypeSteps
      <4>2. CASE i = Len(steps) + 1
        BY <1>0, <3>2, <3>3, <4>2
      <4> QED BY <3>3, <4>1, <4>2
    <3> QED BY <3>3, <3>4 DEF TypeSteps
  <2> QED BY <1>3, <2>1, <2>2, ReadDeletionIs
<1>4. ASSUME at \in DOMAIN steps, steps' = [steps EXCEPT ![at].op = "none"]  PROVE TypeSteps'
  <2>1. steps' \in Seq(Step) /\ DOMAIN steps' = DOMAIN steps
        /\ \A j \in DOMAIN steps : steps'[j].clause = steps[j].clause
    BY <1>0, <1>4, OpExcept DEF TypeSteps
  <2> QED BY <1>0, <2>1 DEF TypeSteps
<1>5. CASE steps' = steps
  BY <1>0, <1>5 DEF TypeSteps
<1>6. CASE DeleteStep
  BY <1>4, <1>5, <1>6, DeletingIs
<1>7. CASE SkipSatisfied
  BY <1>4, <1>5, <1>7, SkippingIs
<1> QED BY <1>2, <1>3, <1>5, <1>6, <1>7
        DEF DratStep, Initialise, PropagateUnit, Conflict, EndOfUnits, CheckForward, Insert,
            EndOfProof, Back, CheckBackward, AllChecked, StartRat, RatCandidate, RatHolds, RatFails

LEMMA TrailFacts ==
  ASSUME DratTypeOK
  PROVE  /\ trail \in Seq(Entries) /\ Len(trail) \in Nat /\ DOMAIN trail = 1 .. Len(trail)
         /\ forced \in Nat /\ forced <= Len(trail) /\ at \in Nat
         /\ \A q \in DOMAIN trail : trail[q].lit \in Lits /\ trail[q].reason \in Nat /\ q \in Nat
<1>1. trail \in Seq(Entries) /\ forced \in 0 .. Len(trail) /\ at \in Nat
  BY DEF DratTypeOK, TypeTrail
<1>2. Len(trail) \in Nat /\ DOMAIN trail = 1 .. Len(trail)
      /\ \A q \in DOMAIN trail : trail[q].lit \in Lits /\ trail[q].reason \in Nat
  BY <1>1, TrailDomain
<1> QED BY <1>1, <1>2

FormulaUnits == {c \in FormulaIds : Unit(c)}

FormulaForced == UNION {db[c].lits : c \in FormulaUnits}

LEMMA InitialiseIs ==
  ASSUME DratTypeOK, Shape, Initialise
  PROVE  /\ pc = "parse" /\ trail = <<>> /\ forced = 0 /\ usedRat = FALSE
         /\ db' = db /\ hashed' = hashed /\ steps' = steps /\ forced' = forced
         /\ rat' = rat /\ usedRat' = usedRat /\ at' = 1
         /\ live' = {c \in FormulaIds : Cardinality(db[c].lits) > 1}
         /\ \/ /\ Inconsistent(FormulaForced) \/ \E c \in FormulaIds : db[c].lits = {}
               /\ pc' = "done" /\ verdict' = "VERIFIED" /\ goal' = goal
               /\ trail' = <<>> \/ trail' = Assigned(FormulaUnits)
            \/ pc' = "propagate" /\ goal' = "init" /\ verdict' = verdict /\ trail' = Assigned(FormulaUnits)
<1>1. /\ pc = "parse"
      /\ db' = db /\ hashed' = hashed /\ steps' = steps /\ forced' = forced
      /\ rat' = rat /\ usedRat' = usedRat /\ at' = 1
      /\ live' = {c \in FormulaIds : Cardinality(db[c].lits) > 1}
      /\ trail' = IF Inconsistent(FormulaForced) THEN trail ELSE Assigned(FormulaUnits)
      /\ IF Inconsistent(FormulaForced) \/ \E c \in FormulaIds : db[c].lits = {}
         THEN pc' = "done" /\ verdict' = "VERIFIED" /\ goal' = goal
         ELSE pc' = "propagate" /\ goal' = "init" /\ verdict' = verdict
  BY Zenon DEF Initialise, FormulaForced, FormulaUnits, Stop, For
<1>2. trail = <<>> /\ forced = 0 /\ usedRat = FALSE
  BY <1>1 DEF Shape
<1> QED BY <1>1, <1>2

LEMMA PropagateIs ==
  ASSUME DratTypeOK, PropagateUnit
  PROVE  /\ pc = "propagate"
         /\ db' = db /\ hashed' = hashed /\ steps' = steps /\ at' = at /\ live' = live
         /\ forced' = forced /\ marked' = marked /\ pc' = pc /\ goal' = goal /\ rat' = rat
         /\ usedRat' = usedRat /\ verdict' = verdict
         /\ \E c \in live, l \in Lits :
              /\ ~Satisfied(c) /\ Open(c) = {l}
              /\ trail' = Append(trail, [lit |-> l, reason |-> c])
<1>1. PICK c \in live : /\ ~Satisfied(c) /\ Cardinality(Open(c)) = 1
                        /\ \E l \in Open(c) : trail' = Append(trail, [lit |-> l, reason |-> c])
  BY DEF PropagateUnit
<1>2. PICK l \in Open(c) : trail' = Append(trail, [lit |-> l, reason |-> c])
  BY <1>1
<1>3. TypeDb /\ c \in DOMAIN db
  BY DEF DratTypeOK, TypeDb
<1>4. PICK x \in Lits : Open(c) = {x}
  BY <1>1, <1>3, OpenIs
<1>5. x = l
  BY <1>4
<1> QED BY <1>1, <1>2, <1>4, <1>5 DEF PropagateUnit

LEMMA StartRatIs ==
  ASSUME DratTypeOK, Shape, StartRat
  PROVE  /\ Checking /\ \A c \in live : Satisfied(c) \/ Cardinality(Open(c)) > 1
         /\ db' = db /\ hashed' = hashed /\ steps' = steps /\ at' = at /\ live' = live
         /\ trail' = trail /\ marked' = marked /\ usedRat' = usedRat /\ goal' = goal
         /\ \/ pc' = "done" /\ verdict' = "NOT VERIFIED" /\ rat' = rat /\ forced' = forced
            \/ /\ pc' = "rat" /\ verdict' = verdict /\ forced' = Len(trail)
               /\ \E A \in SUBSET Lits :
                    /\ \A p \in A : \E k \in DOMAIN trail :
                         k > forced /\ trail[k].reason = 0 /\ p = -trail[k].lit
                    /\ db[Id].pivot \in A
                    /\ rat' = [pivot |-> db[Id].pivot, todo |-> Candidates(db[Id].pivot),
                               untried |-> A \ {db[Id].pivot}, base |-> forced]
<1> DEFINE p == db[Id].pivot
           A == {-trail[k].lit : k \in (forced + 1 .. Len(trail)) \cap ReasonFor(0)}
<1>1. /\ Checking /\ \A c \in live : Satisfied(c) \/ Cardinality(Open(c)) > 1
      /\ db' = db /\ hashed' = hashed /\ steps' = steps /\ at' = at /\ live' = live
      /\ trail' = trail /\ marked' = marked /\ usedRat' = usedRat /\ goal' = goal
  BY DEF StartRat, Fixpoint, Checking, Stop, GoTo
<1>2. \/ pc' = "done" /\ verdict' = "NOT VERIFIED" /\ rat' = rat /\ forced' = forced
      \/ /\ pc' = "rat" /\ verdict' = verdict /\ forced' = Len(trail)
         /\ p \in A
         /\ rat' = [pivot |-> p, todo |-> Candidates(p), untried |-> A \ {p}, base |-> forced]
  BY Zenon DEF StartRat, Stop, GoTo
<1>3. /\ \A k \in (forced + 1 .. Len(trail)) \cap ReasonFor(0) :
           k \in DOMAIN trail /\ k > forced /\ trail[k].reason = 0 /\ -trail[k].lit \in Lits
  <2>1. forced \in Nat /\ \A k \in DOMAIN trail : -trail[k].lit \in Lits
    BY TrailFacts, LitsAre
  <2> QED BY <2>1 DEF ReasonFor
<1>4. A \in SUBSET Lits /\ \A x \in A : \E k \in DOMAIN trail :
        k > forced /\ trail[k].reason = 0 /\ x = -trail[k].lit
  BY <1>3
<1> HIDE DEF A
<1> QED BY <1>1, <1>2, <1>4

LEMMA RatFailsIs ==
  ASSUME RatFails
  PROVE  /\ Trying
         /\ db' = db /\ hashed' = hashed /\ steps' = steps /\ at' = at /\ live' = live
         /\ forced' = forced /\ marked' = marked /\ usedRat' = usedRat /\ goal' = goal
         /\ trail' = Kept
         /\ \/ pc' = "done" /\ verdict' = "NOT VERIFIED" /\ rat' = rat
            \/ /\ pc' = "rat" /\ verdict' = verdict
               /\ \E p \in rat.untried :
                    rat' = [rat EXCEPT !.pivot = p, !.todo = Candidates(p), !.untried = rat.untried \ {p}]
BY DEF RatFails, Fixpoint, Trying, Stop, GoTo

LEMMA KeptIs ==
  ASSUME DratTypeOK
  PROVE  /\ Kept \in Seq(Entries) /\ Len(Kept) = forced /\ DOMAIN Kept = 1 .. forced
         /\ \A q \in 1 .. forced : q \in DOMAIN trail /\ Kept[q] = trail[q]
BY CutIs DEF Kept, DratTypeOK, TypeTrail

LEMMA TypeTrailStep ==
  ASSUME DratTypeOK, Shape, TrailOK, DratStep
  PROVE  TypeTrail'
<1>0. /\ TypeTrail /\ TypeDb /\ TypeSteps /\ Len(trail) \in Nat /\ DOMAIN trail = 1 .. Len(trail)
      /\ forced \in Nat /\ forced <= Len(trail) /\ at \in Nat /\ trail \in Seq(Entries)
  BY TrailFacts DEF DratTypeOK
<1>1. /\ Kept \in Seq(Entries) /\ Len(Kept) = forced
  BY KeptIs
<1>2. CASE ReadAddition \/ ReadDeletion \/ EndOfUnits
  <2>1. trail' = trail /\ (forced' = forced \/ forced' = Len(trail)) /\ at' \in Nat
    BY <1>0, <1>2 DEF ReadAddition, ReadDeletion, EndOfUnits, search
  <2> QED BY <1>0, <2>1 DEF TypeTrail
<1>3. CASE Initialise
  <2>1. trail' = <<>> \/ trail' = Assigned(FormulaUnits)
    BY <1>3, InitialiseIs
  <2>2. FormulaUnits \in SUBSET DOMAIN db
    BY <1>0 DEF FormulaUnits, TypeDb
  <2>3. trail' \in Seq(Entries)
    <3>1. <<>> \in Seq(Entries)
      OBVIOUS
    <3> QED BY <1>0, <2>1, <2>2, <3>1, AssignedIs
  <2>4. forced' = 0 /\ at' = 1
    BY <1>3, InitialiseIs
  <2>5. Len(trail') \in Nat
    BY <2>3, LenProperties
  <2> QED BY <2>3, <2>4, <2>5 DEF TypeTrail
<1>4. CASE PropagateUnit
  <2>1. PICK c \in live, l \in Lits : trail' = Append(trail, [lit |-> l, reason |-> c])
    BY <1>4, PropagateIs
  <2>2. [lit |-> l, reason |-> c] \in Entries
    BY <1>0, DbIs DEF Entries, TypeDb
  <2>3. trail' \in Seq(Entries) /\ Len(trail') = Len(trail) + 1 /\ forced' = forced /\ at' = at
    BY <1>0, <1>4, <2>1, <2>2, ExtendIs, PropagateIs
  <2> QED BY <1>0, <2>3 DEF TypeTrail
<1>5. CASE Conflict
  <2>1. trail' = Kept /\ forced' = forced /\ (at' = at \/ (at' = at - 1 /\ at \in DOMAIN steps))
    BY <1>5, ConflictIs DEF Shape
  <2>2. at' \in Nat
    BY <1>0, <2>1, StepIs
  <2> QED BY <1>0, <1>1, <2>1, <2>2 DEF TypeTrail
<1>6. CASE DeleteStep \/ SkipSatisfied
  <2>1. trail' = trail /\ forced' = forced /\ at' = at + 1
    BY <1>6, DeletingIs, SkippingIs
  <2> QED BY <1>0, <2>1 DEF TypeTrail
<1>7. CASE CheckForward
  <2>1. forced' = forced /\ at' = at /\ (trail' = trail \/ trail' = trail \o Assume(Open(Id)))
        /\ at \in DOMAIN steps
    BY <1>7, CheckForwardIs
  <2>2. Assume(Open(Id)) \in Seq(Entries)
    <3>1. Id \in DOMAIN db
      BY <1>0, <2>1, StepIs DEF Id
    <3>2. Open(Id) \in SUBSET Lits
      BY <1>0, <3>1, OpenIs
    <3> QED BY <3>2, AssumeIs
  <2>3. trail' \in Seq(Entries) /\ Len(trail') >= Len(trail) /\ Len(trail') \in Nat
    <3>1. CASE trail' = trail
      BY <1>0, <3>1
    <3>2. CASE trail' = trail \o Assume(Open(Id))
      BY <1>0, <2>2, <3>2, ConcatIs, TrailDomain
    <3> QED BY <2>1, <3>1, <3>2
  <2> QED BY <1>0, <2>1, <2>3 DEF TypeTrail
<1>8. CASE Insert
  <2>1. at \in DOMAIN steps /\ forced' = forced /\ (at' = at \/ at' = at + 1)
        /\ (trail' = trail \/ \E l \in Lits : trail' = Append(trail, [lit |-> l, reason |-> Id]))
    BY <1>8, InsertIs
  <2>2. trail' \in Seq(Entries) /\ Len(trail') >= Len(trail) /\ Len(trail') \in Nat
    <3>1. CASE trail' = trail
      BY <1>0, <3>1
    <3>2. CASE \E l \in Lits : trail' = Append(trail, [lit |-> l, reason |-> Id])
      <4>1. PICK l \in Lits : trail' = Append(trail, [lit |-> l, reason |-> Id])
        BY <3>2
      <4>2. [lit |-> l, reason |-> Id] \in Entries
        BY <1>0, <2>1, StepIs DEF Entries, Id
      <4> QED BY <1>0, <4>1, <4>2, ExtendIs
    <3> QED BY <2>1, <3>1, <3>2
  <2> QED BY <1>0, <2>1, <2>2 DEF TypeTrail
<1>9. CASE Back
  <2>1. at \in DOMAIN steps /\ at' = at - 1
    BY <1>9, BackIs
  <2>2. at' \in Nat
    BY <1>0, <2>1, StepIs
  <2>3. CASE trail' = trail /\ forced' = forced
    BY <1>0, <2>2, <2>3 DEF TypeTrail
  <2>4. CASE \E n \in 0 .. Len(trail) : trail' = SubSeq(trail, 1, n) /\ forced' = n
    <3>1. PICK n \in 0 .. Len(trail) : trail' = SubSeq(trail, 1, n) /\ forced' = n
      BY <2>4
    <3>2. trail' \in Seq(Entries) /\ Len(trail') = n
      BY <1>0, <3>1, CutIs
    <3> QED BY <2>2, <3>1, <3>2 DEF TypeTrail
  <2> QED BY <1>9, <2>3, <2>4, BackIs
<1>10. CASE CheckBackward
  <2>1. PICK n \in 0 .. Len(trail) :
          /\ forced' = n /\ (at' = at \/ at' = at - 1)
          /\ trail' = SubSeq(trail, 1, n) \/ trail' = SubSeq(trail, 1, n) \o Assume(StillOpen(n))
    BY <1>10, CheckBackwardIs
  <2>2. at \in DOMAIN steps
    BY <1>10, CheckBackwardIs
  <2>3. at' \in Nat
    BY <1>0, <2>1, <2>2, StepIs
  <2>4. SubSeq(trail, 1, n) \in Seq(Entries) /\ Len(SubSeq(trail, 1, n)) = n
    BY <1>0, CutIs
  <2>5. Assume(StillOpen(n)) \in Seq(Entries)
    <3>1. StillOpen(n) \in SUBSET Lits
      BY <1>0, <2>2, StepIs DEF StillOpen, Id
    <3> QED BY <3>1, AssumeIs
  <2>6. trail' \in Seq(Entries) /\ Len(trail') >= n /\ Len(trail') \in Nat
    <3>1. CASE trail' = SubSeq(trail, 1, n)
      BY <2>4, <3>1
    <3>2. CASE trail' = SubSeq(trail, 1, n) \o Assume(StillOpen(n))
      BY <2>4, <2>5, <3>2, ConcatIs, TrailDomain
    <3> QED BY <2>1, <3>1, <3>2
  <2> QED BY <2>1, <2>3, <2>6 DEF TypeTrail
<1>11. CASE StartRat
  <2>1. trail' = trail /\ at' = at /\ (forced' = forced \/ forced' = Len(trail))
    BY <1>11, StartRatIs
  <2> QED BY <1>0, <2>1 DEF TypeTrail
<1>12. CASE RatCandidate
  <2>1. forced' = forced /\ at' = at
    BY <1>12, RatCandidateIs
  <2>2. PICK c \in rat.todo : \/ trail' = trail \o Assume(Open(c) \ {-rat.pivot})
                              \/ \E S : trail' = Unreasoned(trail, S)
    BY <1>12, RatCandidateIs
  <2>3. trail' \in Seq(Entries) /\ Len(trail') >= Len(trail) /\ Len(trail') \in Nat
    <3>1. CASE \E S : trail' = Unreasoned(trail, S)
      BY <1>0, <3>1, UnreasonedIs
    <3>2. CASE trail' = trail \o Assume(Open(c) \ {-rat.pivot})
      <4>1. c \in DOMAIN db
        BY DEF DratTypeOK, TypeRat
      <4>2. Open(c) \ {-rat.pivot} \in SUBSET Lits
        BY <1>0, <4>1, OpenIs
      <4>3. Assume(Open(c) \ {-rat.pivot}) \in Seq(Entries)
        BY <4>2, AssumeIs
      <4> HIDE DEF DratTypeOK
      <4> QED BY <1>0, <3>2, <4>3, ConcatIs, TrailDomain
    <3> QED BY <2>2, <3>1, <3>2
  <2> QED BY <1>0, <2>1, <2>3 DEF TypeTrail
<1>13. CASE RatHolds
  <2>1. /\ trail' = SubSeq(trail, 1, rat.base) /\ forced' = rat.base
        /\ (at' = at \/ at' = at - 1) /\ pc = "rat"
    BY <1>13, RatHoldsIs
  <2>2. at \in DOMAIN steps /\ rat.base <= forced
    BY <2>1 DEF Shape, TrailOK, InRat
  <2>3. at' \in Nat
    BY <1>0, <2>1, <2>2, StepIs
  <2>4. rat.base \in 0 .. Len(trail)
    BY <1>0, <2>2 DEF DratTypeOK, TypeRat
  <2>5. trail' \in Seq(Entries) /\ Len(trail') = rat.base
    BY <1>0, <2>1, <2>4, CutIs
  <2> QED BY <2>1, <2>3, <2>4, <2>5 DEF TypeTrail
<1>14. CASE RatFails
  <2>1. trail' = Kept /\ forced' = forced /\ at' = at
    BY <1>14, RatFailsIs
  <2> QED BY <1>0, <1>1, <2>1 DEF TypeTrail
<1>15. CASE UNCHANGED <<trail, forced, at>>
  BY <1>0, <1>15 DEF TypeTrail
<1> QED BY <1>2, <1>3, <1>4, <1>5, <1>6, <1>7, <1>8, <1>9, <1>10, <1>11, <1>12, <1>13, <1>14, <1>15
        DEF DratStep, EndOfProof, AllChecked, search

LEMMA TypeRatStep ==
  ASSUME DratTypeOK, Shape, DratStep
  PROVE  TypeRat'
<1>0. TypeRat /\ TypeDb /\ DOMAIN db \subseteq DOMAIN db'
  BY TypeDbStep DEF DratTypeOK
<1>1. \A p : Candidates(p) \in SUBSET DOMAIN db'
  BY <1>0 DEF Candidates, TypeDb
<1>2. CASE rat' = rat
  BY <1>0, <1>2 DEF TypeRat
<1>3. CASE StartRat
  <2>1. Checking /\ forced \in Nat
    BY <1>3, StartRatIs, TrailFacts
  <2>2. CASE \E A \in SUBSET Lits :
               /\ db[Id].pivot \in A
               /\ rat' = [pivot |-> db[Id].pivot, todo |-> Candidates(db[Id].pivot),
                          untried |-> A \ {db[Id].pivot}, base |-> forced]
    <3>1. PICK A \in SUBSET Lits :
               /\ db[Id].pivot \in A
               /\ rat' = [pivot |-> db[Id].pivot, todo |-> Candidates(db[Id].pivot),
                          untried |-> A \ {db[Id].pivot}, base |-> forced]
      BY <2>2
    <3> DEFINE p == db[Id].pivot
    <3>2. p \in Int /\ A \ {p} \in SUBSET Lits /\ Candidates(p) \in SUBSET DOMAIN db'
      BY <1>1, <3>1, LitsAre
    <3>3. rat' = [pivot |-> p, todo |-> Candidates(p), untried |-> A \ {p}, base |-> forced]
      BY <3>1
    <3> HIDE DEF p
    <3> QED BY <2>1, <3>2, <3>3 DEF TypeRat
  <2> QED BY <1>2, <1>3, <2>2, StartRatIs
<1>4. CASE RatCandidate
  <2>1. PICK c \in rat.todo : rat' = [rat EXCEPT !.todo = rat.todo \ {c}]
    BY <1>4, RatCandidateIs
  <2> QED BY <1>0, <2>1 DEF TypeRat
<1>5. CASE RatHolds
  <2>1. rat' = NoRat
    BY <1>5, RatHoldsIs
  <2> QED BY <2>1 DEF NoRat, TypeRat
<1>6. CASE RatFails
  <2>1. CASE \E p \in rat.untried :
               rat' = [rat EXCEPT !.pivot = p, !.todo = Candidates(p), !.untried = rat.untried \ {p}]
    <3>1. PICK p \in rat.untried :
               rat' = [rat EXCEPT !.pivot = p, !.todo = Candidates(p), !.untried = rat.untried \ {p}]
      BY <2>1
    <3>2. p \in Int /\ rat.untried \ {p} \in SUBSET Lits /\ Candidates(p) \in SUBSET DOMAIN db'
          /\ rat.base \in Nat
      BY <1>0, <1>1, LitsAre DEF TypeRat
    <3>3. rat' = [pivot |-> p, todo |-> Candidates(p), untried |-> rat.untried \ {p}, base |-> rat.base]
      BY <1>0, <3>1 DEF TypeRat
    <3> QED BY <3>2, <3>3 DEF TypeRat
  <2> QED BY <1>2, <1>6, <2>1, RatFailsIs
<1> QED BY <1>2, <1>3, <1>4, <1>5, <1>6
        DEF DratStep, ReadAddition, ReadDeletion, Initialise, PropagateUnit, Conflict, EndOfUnits,
            DeleteStep, SkipSatisfied, CheckForward, Insert, EndOfProof, Back, CheckBackward, AllChecked

LEMMA TypeStep ==
  ASSUME DratTypeOK, Shape, TrailOK, DratStep
  PROVE  DratTypeOK'
<1>1. TypeInput'
  BY InputSame DEF DratTypeOK, TypeInput
<1> QED BY <1>1, TypeDbStep, TypeStepsStep, TypeTrailStep, TypePhaseStep, TypeRatStep DEF DratTypeOK

-----------------------------------------------------------------------------
(* The shape of a run.                                                     *)

LEMMA ShapeStep ==
  ASSUME DratTypeOK, Shape, TrailOK, DratStep
  PROVE  Shape'
<1>0. /\ input' = input /\ at \in Nat /\ forced \in Nat /\ Len(trail) \in Nat
      /\ Len(steps) \in Nat /\ DOMAIN steps = 1 .. Len(steps)
      /\ goal # "none" \/ pc # "propagate"
      /\ goal \in {"none", "init", "lemma", "check", "rat"}
      /\ verdict # "none" => pc = "done"
  BY InputSame, TrailFacts, StepIs DEF DratTypeOK, TypePhase, Shape
<1>1. CASE ReadAddition \/ ReadDeletion
  <2>1. /\ pc = "parse" /\ pc' = "parse" /\ at' = at + 1 /\ usedRat' = usedRat /\ live' = live
        /\ trail' = trail /\ forced' = forced /\ verdict' = verdict /\ at <= Len(input.lines)
    BY <1>1, ReadDeletionIs DEF ReadAddition, search
  <2>2. Len(input.lines) \in Nat
    BY LenProperties DEF DratTypeOK, TypeInput
  <2>3. at' <= Len(input'.lines) + 1 /\ at' >= 1
    BY <1>0, <2>1, <2>2
  <2>4. usedRat = FALSE /\ live = {} /\ trail = <<>> /\ forced = 0 /\ verdict = "none"
    BY <2>1, <1>0 DEF Shape
  <2> QED BY <1>0, <2>1, <2>3, <2>4 DEF Shape, Starting, Joining, Checking, Trying, InRat
<1>2. CASE Initialise
  <2>1. /\ pc = "parse" /\ at' = 1 /\ forced' = 0 /\ usedRat' = FALSE
        /\ \/ pc' = "done"
           \/ pc' = "propagate" /\ goal' = "init" /\ verdict' = verdict
    BY <1>2, InitialiseIs
  <2> QED BY <1>0, <2>1 DEF Shape, Starting, Joining, Checking, Trying, InRat
<1>3. CASE PropagateUnit
  <2>1. /\ pc = "propagate" /\ pc' = pc /\ goal' = goal /\ at' = at /\ steps' = steps
        /\ forced' = forced /\ usedRat' = usedRat /\ verdict' = verdict
    BY <1>3, PropagateIs
  <2> QED BY <1>0, <2>1 DEF Shape, Starting, Joining, Checking, Trying, InRat
<1>4. CASE Conflict
  <2>1. /\ pc = "propagate" /\ trail' = Kept /\ steps' = steps /\ forced' = forced
        /\ usedRat' = usedRat /\ goal' = goal
        /\ \/ pc' = "done"
           \/ Joining /\ ~input.forward /\ pc' = "backward" /\ verdict' = verdict /\ at' = at
           \/ Checking /\ input.forward /\ pc' = "insert" /\ verdict' = verdict /\ at' = at
           \/ Checking /\ ~input.forward /\ pc' = "backward" /\ verdict' = verdict /\ at' = at - 1
           \/ Trying /\ pc' = "rat" /\ verdict' = verdict /\ at' = at
    BY <1>4, ConflictIs
  <2>2. Len(trail') = forced'
    BY <2>1, KeptIs
  <2>3. CASE pc' = "done"
    BY <2>3 DEF Shape, Starting, Joining, Checking, Trying, InRat
  <2>4. CASE Joining /\ ~input.forward /\ pc' = "backward" /\ verdict' = verdict /\ at' = at
    <3>1. at' \in 0 .. Len(steps')
      BY <1>0, <2>1, <2>4 DEF Shape
    <3> QED BY <1>0, <2>1, <2>2, <2>4, <3>1 DEF Shape, Starting, Joining, Checking, Trying, InRat
  <2>5. CASE Checking /\ input.forward /\ pc' = "insert" /\ verdict' = verdict /\ at' = at
    BY <1>0, <2>1, <2>2, <2>5 DEF Shape, Starting, Joining, Checking, Trying, InRat
  <2>6. CASE Checking /\ ~input.forward /\ pc' = "backward" /\ verdict' = verdict /\ at' = at - 1
    <3>0. at \in DOMAIN steps
      BY <2>6 DEF Shape
    <3>1. at' \in 0 .. Len(steps')
      BY <1>0, <2>1, <2>6, <3>0
    <3> QED BY <1>0, <2>1, <2>2, <2>6, <3>1 DEF Shape, Starting, Joining, Checking, Trying, InRat
  <2>7. CASE Trying /\ pc' = "rat" /\ verdict' = verdict /\ at' = at
    BY <1>0, <2>1, <2>2, <2>7 DEF Shape, Starting, Joining, Checking, Trying, InRat
  <2> QED BY <2>1, <2>3, <2>4, <2>5, <2>6, <2>7
<1>5. CASE EndOfUnits
  <2>1. /\ pc = "propagate" /\ forced' = Len(trail) /\ trail' = trail /\ pc' = "forward" /\ goal' = goal
        /\ verdict' = verdict /\ usedRat' = usedRat /\ steps' = steps
        /\ \/ goal = "init" /\ at' = 1
           \/ goal = "lemma" /\ at' = at + 1
    BY <1>5, Zenon DEF EndOfUnits, Fixpoint, GoTo
  <2>2. at' \in 1 .. Len(steps') + 1
    <3>1. CASE goal = "init" /\ at' = 1
      BY <1>0, <2>1, <3>1
    <3>2. CASE goal = "lemma" /\ at' = at + 1
      <4>1. at \in DOMAIN steps
        BY <2>1, <3>2 DEF Shape, Joining
      <4> QED BY <1>0, <2>1, <3>2, <4>1
    <3> QED BY <2>1, <3>1, <3>2
  <2>3. ~input.forward => ~usedRat
    BY <2>1 DEF Shape, Joining, Starting
  <2> QED BY <1>0, <2>1, <2>2, <2>3 DEF Shape, Starting, Joining, Checking, Trying, InRat
<1>6. CASE DeleteStep \/ SkipSatisfied
  <2>1. /\ pc = "forward" /\ pc' = pc /\ at \in DOMAIN steps /\ at' = at + 1 /\ forced' = forced
        /\ trail' = trail /\ usedRat' = usedRat /\ verdict' = verdict
        /\ steps' = steps \/ steps' = [steps EXCEPT ![at].op = "none"]
    BY <1>6, DeletingIs, SkippingIs
  <2>2. Len(steps') = Len(steps)
    BY <2>1, OpExcept DEF DratTypeOK, TypeSteps
  <2>3. at' \in 1 .. Len(steps') + 1
    BY <1>0, <2>1, <2>2
  <2> QED BY <1>0, <2>1, <2>3 DEF Shape, Starting, Joining, Checking, Trying, InRat
<1>7. CASE CheckForward
  <2>1. /\ pc = "forward" /\ input.forward /\ at \in DOMAIN steps /\ steps[at].op = "add"
        /\ db' = db /\ steps' = steps /\ at' = at /\ forced' = forced /\ usedRat' = usedRat
        /\ forced = Len(trail)
        /\ \/ pc' = "done"
           \/ /\ ~steps[at].skip \/ Open(Id) # {}
              /\ pc' = "insert" /\ verdict' = verdict /\ trail' = trail
           \/ /\ ~steps[at].skip
              /\ pc' = "propagate" /\ verdict' = verdict /\ goal' = "check"
    BY <1>7, CheckForwardIs
  <2>2. CASE /\ ~steps[at].skip \/ Open(Id) # {}
             /\ pc' = "insert" /\ verdict' = verdict /\ trail' = trail
    <3>1. Open(Id)' = Open(Id)
      BY <2>1, <2>2 DEF Open, Id, TrueLits
    <3> QED BY <1>0, <2>1, <2>2, <3>1 DEF Shape, Starting, Joining, Checking, Trying, InRat
  <2>3. CASE /\ ~steps[at].skip
             /\ pc' = "propagate" /\ verdict' = verdict /\ goal' = "check"
    BY <1>0, <2>1, <2>3 DEF Shape, Starting, Joining, Checking, Trying, InRat
  <2>4. CASE pc' = "done"
    BY <2>4 DEF Shape, Starting, Joining, Checking, Trying, InRat
  <2> QED BY <2>1, <2>2, <2>3, <2>4
<1>8. CASE Insert
  <2>1. /\ pc = "insert" \/ (pc = "forward" /\ ~input.forward)
        /\ at \in DOMAIN steps /\ steps[at].op = "add" /\ forced = Len(trail)
        /\ steps' = steps /\ forced' = forced /\ usedRat' = usedRat
        /\ \/ /\ pc' = "forward" /\ at' = at + 1 /\ verdict' = verdict /\ trail' = trail
           \/ /\ pc' = "propagate" /\ goal' = "lemma" /\ at' = at /\ verdict' = verdict
           \/ /\ ~input.forward
              /\ pc' = "backward" /\ at' = at /\ verdict' = verdict /\ trail' = trail
           \/ /\ pc' = "done"
    BY <1>8, InsertIs
  <2>2. ~input.forward => ~usedRat
    BY <2>1 DEF Shape
  <2>3. CASE pc' = "forward" /\ at' = at + 1 /\ verdict' = verdict /\ trail' = trail
    <3>1. at' \in 1 .. Len(steps') + 1
      BY <1>0, <2>1, <2>3
    <3> QED BY <1>0, <2>1, <2>2, <2>3, <3>1 DEF Shape, Starting, Joining, Checking, Trying, InRat
  <2>4. CASE pc' = "propagate" /\ goal' = "lemma" /\ at' = at /\ verdict' = verdict
    BY <1>0, <2>1, <2>2, <2>4 DEF Shape, Starting, Joining, Checking, Trying, InRat
  <2>5. CASE /\ ~input.forward
             /\ pc' = "backward" /\ at' = at /\ verdict' = verdict /\ trail' = trail
    <3>1. at' \in 0 .. Len(steps')
      BY <1>0, <2>1, <2>5
    <3> QED BY <1>0, <2>1, <2>2, <2>5, <3>1 DEF Shape, Starting, Joining, Checking, Trying, InRat
  <2>6. CASE pc' = "done"
    BY <2>6 DEF Shape, Starting, Joining, Checking, Trying, InRat
  <2> QED BY <2>1, <2>3, <2>4, <2>5, <2>6
<1>9. CASE Back
  <2>1. /\ pc = "backward" /\ ~input.forward /\ at \in DOMAIN steps /\ steps' = steps /\ pc' = pc
        /\ verdict' = verdict /\ at' = at - 1
    BY <1>9, BackIs
  <2>2. forced' = Len(trail')
    <3>1. CASE trail' = trail /\ forced' = forced
      BY <1>9, <3>1, BackIs
    <3>2. CASE \E n \in 0 .. Len(trail) : trail' = SubSeq(trail, 1, n) /\ forced' = n
      BY <3>2, CutIs, TrailFacts
    <3> QED BY <1>9, <3>1, <3>2, BackIs
  <2>3. at' \in 0 .. Len(steps')
    BY <1>0, <2>1
  <2> QED BY <1>0, <2>1, <2>2, <2>3 DEF Shape, Starting, Joining, Checking, Trying, InRat
<1>10. CASE CheckBackward
  <2>1. /\ pc = "backward" /\ ~input.forward /\ at \in DOMAIN steps /\ steps' = steps
        /\ steps[at].op = "add" /\ ~steps[at].skip
    BY <1>10, CheckBackwardIs
  <2>2. CASE pc' = "done"
    BY <2>2 DEF Shape, Starting, Joining, Checking, Trying, InRat
  <2>3. CASE \E n \in 0 .. Len(trail) : /\ trail' = SubSeq(trail, 1, n) /\ forced' = n
                                        /\ pc' = "backward" /\ verdict' = verdict /\ at' = at - 1
    <3>1. forced' = Len(trail')
      BY <2>3, CutIs, TrailFacts
    <3>2. at' \in 0 .. Len(steps')
      BY <1>0, <2>1, <2>3
    <3> QED BY <1>0, <2>1, <2>3, <3>1, <3>2 DEF Shape, Starting, Joining, Checking, Trying, InRat
  <2>4. CASE pc' = "propagate" /\ verdict' = verdict /\ goal' = "check" /\ at' = at
    BY <1>0, <2>1, <2>4 DEF Shape, Starting, Joining, Checking, Trying, InRat
  <2> QED BY <1>10, <2>2, <2>3, <2>4, CheckBackwardIs
<1>11. CASE StartRat
  <2>1. /\ Checking /\ steps' = steps /\ at' = at /\ trail' = trail
        /\ \/ pc' = "done"
           \/ pc' = "rat" /\ verdict' = verdict /\ forced' = Len(trail)
    BY <1>11, StartRatIs
  <2>2. CASE pc' = "done"
    BY <2>2 DEF Shape, Starting, Joining, Checking, Trying, InRat
  <2>3. CASE pc' = "rat" /\ verdict' = verdict /\ forced' = Len(trail)
    BY <1>0, <2>1, <2>3 DEF Shape, Starting, Joining, Checking, Trying, InRat
  <2> QED BY <2>1, <2>2, <2>3
<1>12. CASE RatCandidate
  <2>1. /\ pc = "rat" /\ forced = Len(trail) /\ steps' = steps /\ at' = at /\ forced' = forced
        /\ verdict' = verdict
    BY <1>12, RatCandidateIs
  <2>2. CASE pc' = "propagate" /\ goal' = "rat"
    BY <1>0, <2>1, <2>2 DEF Shape, Starting, Joining, Checking, Trying, InRat
  <2>3. CASE pc' = "rat" /\ \E S : trail' = Unreasoned(trail, S)
    <3>1. Len(trail') = Len(trail)
      BY <2>3, UnreasonedIs, TrailFacts
    <3> QED BY <1>0, <2>1, <2>3, <3>1 DEF Shape, Starting, Joining, Checking, Trying, InRat
  <2> QED BY <1>12, <2>2, <2>3, RatCandidateIs
<1>13. CASE RatHolds
  <2>1. /\ pc = "rat" /\ steps' = steps /\ verdict' = verdict /\ forced' = rat.base
        /\ trail' = SubSeq(trail, 1, rat.base) /\ forced = Len(trail)
        /\ \/ input.forward /\ pc' = "insert" /\ at' = at
           \/ ~input.forward /\ pc' = "backward" /\ at' = at - 1
    BY <1>13, RatHoldsIs
  <2>2. at \in DOMAIN steps /\ ~steps[at].skip /\ steps[at].op = "add"
    BY <2>1 DEF Shape, InRat
  <2>3. Len(trail') = forced'
    <3>1. rat.base <= forced /\ rat.base \in Nat
      BY <2>1 DEF TrailOK, InRat, DratTypeOK, TypeRat
    <3>2. rat.base \in 0 .. Len(trail)
      BY <1>0, <2>1, <3>1
    <3> QED BY <2>1, <3>2, CutIs, TrailFacts
  <2>4. CASE input.forward /\ pc' = "insert" /\ at' = at
    BY <1>0, <2>1, <2>2, <2>3, <2>4 DEF Shape, Starting, Joining, Checking, Trying, InRat
  <2>5. CASE ~input.forward /\ pc' = "backward" /\ at' = at - 1
    <3>1. at' \in 0 .. Len(steps')
      BY <1>0, <2>1, <2>2, <2>5
    <3> QED BY <1>0, <2>1, <2>2, <2>3, <2>5, <3>1 DEF Shape, Starting, Joining, Checking, Trying, InRat
  <2> QED BY <2>1, <2>4, <2>5
<1>14. CASE RatFails
  <2>1. /\ Trying /\ steps' = steps /\ at' = at /\ forced' = forced /\ trail' = Kept
        /\ \/ pc' = "done"
           \/ pc' = "rat" /\ verdict' = verdict
    BY <1>14, RatFailsIs
  <2>2. Len(trail') = forced'
    BY <2>1, KeptIs
  <2>3. CASE pc' = "done"
    BY <2>3 DEF Shape, Starting, Joining, Checking, Trying, InRat
  <2>4. CASE pc' = "rat" /\ verdict' = verdict
    BY <1>0, <2>1, <2>2, <2>4 DEF Shape, Starting, Joining, Checking, Trying, InRat
  <2> QED BY <2>1, <2>3, <2>4
<1>15. CASE EndOfProof \/ AllChecked
  <2>1. pc' = "done"
    BY <1>15 DEF EndOfProof, AllChecked, Stop
  <2> QED BY <2>1 DEF Shape, Starting, Joining, Checking, Trying, InRat
<1> QED BY <1>1, <1>2, <1>3, <1>4, <1>5, <1>6, <1>7, <1>8, <1>9, <1>10, <1>11, <1>12, <1>13, <1>14, <1>15
        DEF DratStep

-----------------------------------------------------------------------------
(* What has been assumed.                                                  *)

\* A trail that keeps the literals up to the base.
LEMMA BaseKept ==
  ASSUME InRat, InRat', TrailOK, steps' = steps, at' = at, db' = db, rat'.base = rat.base,
         rat.base <= forced', {rat'.pivot} \cup rat'.untried \subseteq {rat.pivot} \cup rat.untried,
         \A j \in 1 .. rat.base : trail'[j].lit = trail[j].lit,
         ~Checking'
  PROVE  TrailOK'
<1>1. \A p \in {rat'.pivot} \cup rat'.untried :
        p \in db[Id].lits /\ \A j \in 1 .. rat.base : trail'[j].lit # -p
  BY DEF TrailOK
<1> QED BY <1>1 DEF TrailOK, Id

LEMMA TrailOKStep ==
  ASSUME DratTypeOK, Shape, TrailOK, DratStep
  PROVE  TrailOK'
<1>0. /\ trail \in Seq(Entries) /\ Len(trail) \in Nat /\ DOMAIN trail = 1 .. Len(trail)
      /\ forced \in Nat /\ forced <= Len(trail) /\ at \in Nat
      /\ \A q \in DOMAIN trail : trail[q].lit \in Lits /\ q \in Nat
  BY TrailFacts
<1>00. rat.base \in Nat /\ (InRat => rat.base <= forced)
  BY DEF TrailOK, DratTypeOK, TypeRat
<1>1. CASE ~Checking' /\ ~InRat'
  BY <1>1 DEF TrailOK
<1>2. CASE PropagateUnit
  <2>1. /\ pc' = pc /\ goal' = goal /\ at' = at /\ steps' = steps /\ db' = db
        /\ forced' = forced /\ rat' = rat /\ pc = "propagate"
    BY <1>2, PropagateIs
  <2>2. PICK c \in live, l \in Lits : trail' = Append(trail, [lit |-> l, reason |-> c])
    BY <1>2, PropagateIs
  <2>3. c \in Nat \ {0}
    BY DbIs DEF DratTypeOK, TypeDb
  <2> DEFINE e == [lit |-> l, reason |-> c]
  <2>4. e \in Entries /\ e.reason # 0
    BY <2>3 DEF Entries
  <2> HIDE DEF e
  <2>5. /\ DOMAIN trail' = 1 .. (Len(trail) + 1) /\ trail'[Len(trail) + 1] = e
        /\ \A q \in DOMAIN trail : trail'[q] = trail[q]
    BY <1>0, <2>2, <2>4, ExtendIs DEF e
  <2>6. CASE Checking
    <3>1. ASSUME NEW k \in DOMAIN trail', k > forced', trail'[k].reason = 0
          PROVE  /\ -trail'[k].lit \in db'[Id'].lits
                 /\ \A j \in 1 .. forced' : trail'[j].lit # trail'[k].lit
      <4>1. k \in DOMAIN trail /\ trail'[k] = trail[k]
        BY <1>0, <2>4, <2>5, <3>1
      <4>2. Id' = Id
        BY <2>1 DEF Id
      <4>3. \A j \in 1 .. forced : trail'[j] = trail[j]
        BY <1>0, <2>5
      <4> QED BY <2>1, <2>6, <3>1, <4>1, <4>2, <4>3 DEF TrailOK
    <3>2. ~InRat'
      BY <2>1, <2>6 DEF Checking, InRat, Trying
    <3> QED BY <3>1, <3>2 DEF TrailOK
  <2>7. CASE InRat
    <3>1. InRat' /\ ~Checking'
      BY <2>1, <2>7 DEF Checking, InRat, Trying
    <3>2. \A j \in 1 .. rat.base : trail'[j].lit = trail[j].lit
      BY <1>0, <1>00, <2>5, <2>7
    <3> QED BY <1>00, <2>1, <2>7, <3>1, <3>2, BaseKept
  <2>8. CASE ~Checking /\ ~InRat
    <3>1. ~Checking' /\ ~InRat'
      BY <2>1, <2>8 DEF Checking, InRat, Trying
    <3> QED BY <3>1, <1>1
  <2> QED BY <2>6, <2>7, <2>8
<1>3. CASE Conflict
  <2>1. /\ pc = "propagate" /\ trail' = Kept /\ db' = db /\ steps' = steps
        /\ forced' = forced /\ rat' = rat /\ goal' = goal
        /\ pc' # "propagate" /\ (pc' = "rat" => Trying /\ at' = at)
    BY <1>3, ConflictIs
  <2>2. CASE pc' = "rat"
    <3>1. InRat' /\ ~Checking' /\ InRat /\ at' = at
      BY <2>1, <2>2 DEF Checking, InRat
    <3>2. \A j \in 1 .. rat.base : trail'[j].lit = trail[j].lit
      BY <1>0, <1>00, <2>1, <3>1, KeptIs
    <3> QED BY <1>00, <2>1, <3>1, <3>2, BaseKept
  <2>3. CASE pc' # "rat"
    <3>1. ~Checking' /\ ~InRat'
      BY <2>1, <2>3 DEF Checking, InRat, Trying
    <3> QED BY <3>1, <1>1
  <2> QED BY <2>2, <2>3
<1>4. CASE CheckForward
  <2>1. /\ pc = "forward" /\ at \in DOMAIN steps /\ forced = Len(trail)
        /\ db' = db /\ steps' = steps /\ at' = at /\ forced' = forced
        /\ \/ pc' # "propagate" /\ pc' # "rat"
           \/ pc' = "propagate" /\ goal' = "check" /\ trail' = trail \o Assume(Open(Id))
    BY <1>4, CheckForwardIs
  <2>2. CASE pc' # "propagate" /\ pc' # "rat"
    <3>1. ~Checking' /\ ~InRat'
      BY <2>2 DEF Checking, InRat, Trying
    <3> QED BY <3>1, <1>1
  <2>3. CASE pc' = "propagate" /\ goal' = "check" /\ trail' = trail \o Assume(Open(Id))
    <3>1. Open(Id) \subseteq db[Id].lits /\ Open(Id) \subseteq Lits
      BY <2>1, StepIs, OpenIs DEF Id, DratTypeOK
    <3> DEFINE s == Assume(Open(Id))
    <3>2. s \in Seq(Entries) /\ \A k \in DOMAIN s : -s[k].lit \in Open(Id)
      BY <3>1, AssumeIs
    <3> HIDE DEF s
    <3>3. /\ \A q \in DOMAIN trail : trail'[q] = trail[q]
          /\ \A q \in DOMAIN trail' : q > Len(trail) =>
               q - Len(trail) \in DOMAIN s /\ trail'[q] = s[q - Len(trail)]
      BY <1>0, <2>3, <3>2, ConcatIs DEF s
    <3>4. ASSUME NEW k \in DOMAIN trail', k > forced'
          PROVE  /\ -trail'[k].lit \in db[Id].lits
                 /\ \A j \in 1 .. forced : trail'[j].lit # trail'[k].lit
      <4>1. -trail'[k].lit \in Open(Id) /\ trail'[k].lit \in Lits
        <5>1. k - Len(trail) \in DOMAIN s /\ trail'[k] = s[k - Len(trail)]
          BY <2>1, <3>3, <3>4
        <5> QED BY <3>2, <5>1, TrailDomain
      <4>2. -(-trail'[k].lit) = trail'[k].lit
        BY <4>1, LitsAre
      <4>3. trail'[k].lit \notin TrueLits
        BY <4>1, <4>2 DEF Open
      <4>4. \A j \in 1 .. forced : trail'[j].lit \in TrueLits
        BY <1>0, <2>1, <3>3 DEF TrueLits
      <4> QED BY <3>1, <4>1, <4>3, <4>4
    <3>5. Id' = Id /\ ~InRat'
      BY <2>1, <2>3 DEF Id, InRat, Trying
    <3> QED BY <2>1, <3>4, <3>5 DEF TrailOK
  <2> QED BY <2>1, <2>2, <2>3
<1>5. CASE CheckBackward
  <2>1. /\ at \in DOMAIN steps /\ db' = db /\ steps' = steps
    BY <1>5, CheckBackwardIs
  <2>2. CASE pc' # "propagate" /\ pc' # "rat"
    <3>1. ~Checking' /\ ~InRat'
      BY <2>2 DEF Checking, InRat, Trying
    <3> QED BY <3>1, <1>1
  <2>3. CASE \E n \in 0 .. Len(trail) :
               /\ forced' = n /\ pc' = "propagate" /\ goal' = "check" /\ at' = at
               /\ trail' = SubSeq(trail, 1, n) \o Assume(StillOpen(n))
    <3>0. PICK n \in 0 .. Len(trail) :
               /\ forced' = n /\ pc' = "propagate" /\ goal' = "check" /\ at' = at
               /\ trail' = SubSeq(trail, 1, n) \o Assume(StillOpen(n))
      BY <2>3
    <3>1. StillOpen(n) \subseteq db[Id].lits /\ StillOpen(n) \subseteq Lits
      BY <2>1, StepIs DEF Id, DratTypeOK, StillOpen
    <3> DEFINE s == Assume(StillOpen(n))
               t == SubSeq(trail, 1, n)
    <3>2. s \in Seq(Entries) /\ \A k \in DOMAIN s : -s[k].lit \in StillOpen(n)
      BY <3>1, AssumeIs
    <3>2a. /\ t \in Seq(Entries) /\ Len(t) = n /\ DOMAIN t = 1 .. n
           /\ \A q \in 1 .. n : q \in DOMAIN trail /\ t[q] = trail[q]
      BY <1>0, CutIs
    <3> HIDE DEF s, t
    <3>3. /\ \A q \in DOMAIN t : trail'[q] = t[q]
          /\ \A q \in DOMAIN trail' : q > n => q - n \in DOMAIN s /\ trail'[q] = s[q - n]
      BY <3>0, <3>2, <3>2a, ConcatIs DEF s, t
    <3>4. ASSUME NEW k \in DOMAIN trail', k > n
          PROVE  /\ -trail'[k].lit \in db[Id].lits
                 /\ \A j \in 1 .. n : trail'[j].lit # trail'[k].lit
      <4>1. -trail'[k].lit \in StillOpen(n) /\ trail'[k].lit \in Lits
        <5>1. k - n \in DOMAIN s /\ trail'[k] = s[k - n]
          BY <3>3, <3>4
        <5> QED BY <3>2, <5>1, TrailDomain
      <4>2. -(-trail'[k].lit) = trail'[k].lit
        BY <4>1, LitsAre
      <4>3. \A j \in 1 .. n : trail[j].lit # trail'[k].lit
        BY <4>1, <4>2 DEF StillOpen
      <4>4. \A j \in 1 .. n : trail'[j] = trail[j]
        BY <3>2a, <3>3
      <4> QED BY <3>1, <4>1, <4>3, <4>4
    <3>5. Id' = Id /\ ~InRat'
      BY <2>1, <3>0 DEF Id, InRat, Trying
    <3> QED BY <2>1, <3>0, <3>4, <3>5 DEF TrailOK
  <2> QED BY <1>5, <2>2, <2>3, CheckBackwardIs
<1>6. CASE StartRat
  <2>1. /\ Checking /\ db' = db /\ steps' = steps /\ at' = at /\ trail' = trail
        /\ pc' = "done" \/ pc' = "rat"
    BY <1>6, StartRatIs
  <2>2. CASE pc' = "done"
    <3>1. ~Checking' /\ ~InRat'
      BY <2>2 DEF Checking, InRat, Trying
    <3> QED BY <3>1, <1>1
  <2>3. CASE pc' = "rat"
    <3>1. PICK A \in SUBSET Lits :
                    /\ \A p \in A : \E k \in DOMAIN trail :
                         k > forced /\ trail[k].reason = 0 /\ p = -trail[k].lit
                    /\ db[Id].pivot \in A
                    /\ rat' = [pivot |-> db[Id].pivot, todo |-> Candidates(db[Id].pivot),
                               untried |-> A \ {db[Id].pivot}, base |-> forced]
      BY <1>6, <2>3, StartRatIs
    <3>2. forced' = Len(trail)
      BY <1>6, <2>3, StartRatIs
    <3>3. rat'.base = forced /\ {rat'.pivot} \cup rat'.untried = A
      BY <3>1
    <3>4. ASSUME NEW p \in A
          PROVE  p \in db[Id].lits /\ \A j \in 1 .. forced : trail[j].lit # -p
      <4>1. PICK k \in DOMAIN trail : k > forced /\ trail[k].reason = 0 /\ p = -trail[k].lit
        BY <3>1
      <4>2. -p = trail[k].lit
        BY <1>0, <4>1, LitsAre
      <4> QED BY <2>1, <4>1, <4>2 DEF TrailOK
    <3>5. Id' = Id /\ ~Checking'
      BY <2>1, <2>3 DEF Id, Checking
    <3> QED BY <1>0, <2>1, <3>2, <3>3, <3>4, <3>5 DEF TrailOK
  <2> QED BY <2>1, <2>2, <2>3
<1>7. CASE RatCandidate
  <2>1. /\ pc = "rat" /\ db' = db /\ steps' = steps /\ at' = at /\ forced' = forced
        /\ pc' = "rat" \/ (pc' = "propagate" /\ goal' = "rat")
    BY <1>7, RatCandidateIs
  <2>2. PICK c \in rat.todo : /\ rat' = [rat EXCEPT !.todo = rat.todo \ {c}]
                              /\ \/ trail' = trail \o Assume(Open(c) \ {-rat.pivot})
                                 \/ \E S : trail' = Unreasoned(trail, S)
    BY <1>7, RatCandidateIs
  <2>3. rat'.base = rat.base /\ rat'.pivot = rat.pivot /\ rat'.untried = rat.untried
    BY <2>2 DEF DratTypeOK, TypeRat
  <2>4. InRat /\ InRat' /\ ~Checking'
    BY <2>1 DEF InRat, Trying, Checking
  <2>5. \A q \in DOMAIN trail : trail'[q].lit = trail[q].lit
    <3>1. CASE \E S : trail' = Unreasoned(trail, S)
      BY <1>0, <3>1, UnreasonedIs
    <3>2. CASE trail' = trail \o Assume(Open(c) \ {-rat.pivot})
      <4>1. c \in DOMAIN db
        BY DEF DratTypeOK, TypeRat
      <4>2. Open(c) \ {-rat.pivot} \in SUBSET Lits
        BY <4>1, OpenIs DEF DratTypeOK
      <4>3. Assume(Open(c) \ {-rat.pivot}) \in Seq(Entries)
        BY <4>2, AssumeIs
      <4> QED BY <1>0, <3>2, <4>3, ConcatIs
    <3> QED BY <2>2, <3>1, <3>2
  <2>6. \A j \in 1 .. rat.base : trail'[j].lit = trail[j].lit
    BY <1>0, <1>00, <2>4, <2>5
  <2> QED BY <1>00, <2>1, <2>3, <2>4, <2>6, BaseKept
<1>8. CASE RatFails
  <2>1. /\ Trying /\ db' = db /\ steps' = steps /\ at' = at /\ forced' = forced /\ trail' = Kept
    BY <1>8, RatFailsIs
  <2>2. CASE pc' = "done"
    <3>1. ~Checking' /\ ~InRat'
      BY <2>2 DEF Checking, InRat, Trying
    <3> QED BY <3>1, <1>1
  <2>3. CASE pc' = "rat" /\ \E p \in rat.untried :
               rat' = [rat EXCEPT !.pivot = p, !.todo = Candidates(p), !.untried = rat.untried \ {p}]
    <3>1. PICK p \in rat.untried :
               rat' = [rat EXCEPT !.pivot = p, !.todo = Candidates(p), !.untried = rat.untried \ {p}]
      BY <2>3
    <3>2. rat'.base = rat.base /\ rat'.pivot = p /\ rat'.untried = rat.untried \ {p}
      BY <3>1 DEF DratTypeOK, TypeRat
    <3>3. InRat /\ InRat' /\ ~Checking'
      BY <2>1, <2>3 DEF InRat, Checking
    <3>4. \A j \in 1 .. rat.base : trail'[j].lit = trail[j].lit
      BY <1>00, <1>0, <2>1, <3>3, KeptIs
    <3> QED BY <1>00, <2>1, <3>2, <3>3, <3>4, BaseKept
  <2> QED BY <1>8, <2>2, <2>3, RatFailsIs
<1>9. CASE RatHolds \/ Initialise \/ EndOfUnits \/ Insert \/ Back
  <2>1. ~Checking' /\ ~InRat'
    <3>1. CASE RatHolds
      <4>1. pc' # "propagate" /\ pc' # "rat"
        BY <3>1, RatHoldsIs
      <4> QED BY <4>1 DEF Checking, InRat, Trying
    <3>2. CASE Initialise
      BY <3>2, InitialiseIs DEF Checking, InRat, Trying
    <3>3. CASE EndOfUnits
      BY <3>3 DEF EndOfUnits, GoTo, Checking, InRat, Trying
    <3>4. CASE Insert
      BY <3>4, InsertIs DEF Checking, InRat, Trying
    <3>5. CASE Back
      BY <3>5, BackIs DEF Checking, InRat, Trying
    <3> QED BY <1>9, <3>1, <3>2, <3>3, <3>4, <3>5
  <2> QED BY <2>1, <1>1
<1>10. CASE ReadAddition \/ ReadDeletion \/ DeleteStep \/ SkipSatisfied
  <2>1. pc' # "propagate" /\ pc' # "rat"
    BY <1>10, ReadDeletionIs, DeletingIs, SkippingIs DEF ReadAddition
  <2>2. ~Checking' /\ ~InRat'
    BY <2>1 DEF Checking, InRat, Trying
  <2> QED BY <2>2, <1>1
<1>11. CASE EndOfProof \/ AllChecked
  <2>1. ~Checking' /\ ~InRat'
    BY <1>11 DEF EndOfProof, AllChecked, Stop, Checking, InRat, Trying
  <2> QED BY <2>1, <1>1
<1> QED BY <1>2, <1>3, <1>4, <1>5, <1>6, <1>7, <1>8, <1>9, <1>10, <1>11 DEF DratStep

-----------------------------------------------------------------------------
(* The steps made of the lines.                                            *)

LEMMA DbKept ==
  ASSUME DratTypeOK, Shape, DratStep
  PROVE  \A c \in DOMAIN db : c \in DOMAIN db' /\ db'[c] = db[c]
<1>0. db \in Seq(Clause) /\ Len(db) \in Nat /\ DOMAIN db = 1 .. Len(db)
  BY DbIs DEF DratTypeOK, TypeDb
<1>1. CASE ReadAddition
  <2>1. Lemma(input.lines[at].lits) \in Clause
    <3>1. at >= 1
      BY <1>1 DEF ReadAddition, Shape
    <3> QED BY <1>1, <3>1, LineIs, LemmaIs DEF ReadAddition, DratTypeOK, TypeTrail
  <2> DEFINE L == Lemma(input.lines[at].lits)
  <2>2. db' = Append(db, L)
    BY <1>1 DEF ReadAddition
  <2> HIDE DEF L
  <2>3. \A i \in 1 .. Len(db) : Append(db, L)[i] = db[i]
    BY <1>0, <2>1, AppendProperties DEF L
  <2> QED BY <1>0, <2>2, <2>3, TypeDbStep
<1>2. CASE db' = db
  BY <1>2
<1> QED BY <1>1, <1>2, ReadDeletionIs
        DEF DratStep, Initialise, PropagateUnit, Conflict, EndOfUnits,
            DeleteStep, SkipSatisfied, CheckForward, Insert, EndOfProof, Back, CheckBackward, AllChecked,
            StartRat, RatCandidate, RatHolds, RatFails

\* The line that is read becomes a clause and a step.
LEMMA ReadIs ==
  ASSUME DratTypeOK, Shape, ReadAddition
  PROVE  /\ pc = "parse" /\ pc' = "parse" /\ at \in DOMAIN input.lines /\ input.lines[at].op # "delete"
         /\ hashed' = hashed \cup {Len(db) + 1} /\ live' = live
         /\ Len(db) + 1 \in DOMAIN db' /\ db'[Len(db) + 1].lits = ToSet(input.lines[at].lits)
         /\ Len(db) + 1 \notin DOMAIN db
         /\ DOMAIN steps' = 1 .. (Len(steps) + 1) /\ Len(steps') = Len(steps) + 1 /\ Len(steps) \in Nat
         /\ DOMAIN steps = 1 .. Len(steps)
         /\ \A i \in DOMAIN steps : steps'[i] = steps[i]
         /\ steps'[Len(steps) + 1] = [op |-> "add", clause |-> Len(db) + 1,
                                      skip |-> input.lines[at].op = "trust"]
<1>0. db \in Seq(Clause) /\ Len(db) \in Nat /\ DOMAIN db = 1 .. Len(db)
  BY DbIs DEF DratTypeOK, TypeDb
<1>1. /\ input.lines[at].lits \in Seq(Lits) /\ at \in DOMAIN input.lines
      /\ input.lines[at].op \in {"add", "trust", "delete"}
  <2>1. at >= 1 /\ at <= Len(input.lines) /\ at \in Nat
    BY DEF ReadAddition, Shape, DratTypeOK, TypeTrail
  <2> QED BY <2>1, LineIs DEF DratTypeOK
<1> DEFINE L == Lemma(input.lines[at].lits)
           e == [op |-> "add", clause |-> Len(db) + 1, skip |-> input.lines[at].op = "trust"]
<1>2. L \in Clause /\ L.lits = ToSet(input.lines[at].lits)
  BY <1>1, LemmaIs
<1>3. e \in Step
  BY <1>0 DEF Step
<1>4. db' = Append(db, L) /\ steps' = Append(steps, e)
  BY DEF ReadAddition
<1>5. e = [op |-> "add", clause |-> Len(db) + 1, skip |-> input.lines[at].op = "trust"]
  OBVIOUS
<1> HIDE DEF L, e
<1>6. Len(db') = Len(db) + 1 /\ db'[Len(db) + 1] = L /\ db' \in Seq(Clause)
  BY <1>0, <1>2, <1>4, AppendProperties
<1>7. Len(db) + 1 \in DOMAIN db' /\ Len(db) + 1 \notin DOMAIN db
  BY <1>0, <1>6, LenProperties
<1>8. /\ DOMAIN steps' = 1 .. (Len(steps) + 1) /\ Len(steps') = Len(steps) + 1 /\ Len(steps) \in Nat
      /\ DOMAIN steps = 1 .. Len(steps) /\ steps'[Len(steps) + 1] = e
      /\ \A i \in DOMAIN steps : steps'[i] = steps[i]
  BY <1>3, <1>4, StepAppend DEF DratTypeOK, TypeSteps
<1>9. pc = "parse" /\ pc' = "parse" /\ input.lines[at].op # "delete" /\ live' = live
      /\ hashed' = hashed \cup {Len(db) + 1}
  BY DEF ReadAddition, search
<1> QED BY <1>1, <1>2, <1>5, <1>6, <1>7, <1>8, <1>9

\* What the actions do to the steps.
AddsDeletion ==
  \E c \in hashed : \E e \in Step :
    /\ input.forward \/ Cardinality(db[c].lits) > 1
    /\ e.op = "delete" /\ e.clause = c
    /\ DOMAIN steps = 1 .. Len(steps) /\ DOMAIN steps' = 1 .. (Len(steps) + 1)
    /\ \A i \in DOMAIN steps : steps'[i] = steps[i]
    /\ steps'[Len(steps) + 1] = e

DropsStep ==
  /\ at \in DOMAIN steps
  /\ steps[at].op = "delete" \/ (~input.forward /\ Unit(Id))
  /\ pc = "forward" /\ pc' = "forward"
  /\ DOMAIN steps' = DOMAIN steps /\ steps'[at].op = "none"
  /\ \A i \in DOMAIN steps : i # at => steps'[i] = steps[i]

LEMMA StepsChange ==
  ASSUME DratTypeOK, Shape, DratStep
  PROVE  \/ ReadAddition
         \/ ReadDeletion /\ db' = db /\ AddsDeletion
         \/ ReadDeletion /\ db' = db /\ steps' = steps
         \/ db' = db /\ DropsStep
         \/ db' = db /\ steps' = steps /\ (pc' = "parse" => pc = "parse" /\ hashed' = hashed)
<1>0. steps \in Seq(Step) /\ Len(steps) \in Nat
  BY StepIs DEF DratTypeOK, TypeSteps
<1>1. CASE ReadDeletion
  <2>1. CASE steps' = steps
    BY <1>1, <2>1, ReadDeletionIs
  <2>2. CASE \E c \in hashed : /\ input.forward \/ Cardinality(db[c].lits) > 1
                               /\ steps' = Append(steps, [op |-> "delete", clause |-> c, skip |-> FALSE])
    <3>1. PICK c \in hashed : /\ input.forward \/ Cardinality(db[c].lits) > 1
                              /\ steps' = Append(steps, [op |-> "delete", clause |-> c, skip |-> FALSE])
      BY <2>2
    <3> DEFINE e == [op |-> "delete", clause |-> c, skip |-> FALSE]
    <3>2. e \in Step /\ e.op = "delete" /\ e.clause = c
      <4>1. c \in Nat
        BY DbIs DEF DratTypeOK, TypeDb
      <4> QED BY <4>1 DEF Step
    <3> HIDE DEF e
    <3>3. steps' = Append(steps, e)
      BY <3>1 DEF e
    <3> QED BY <1>0, <1>1, <3>1, <3>2, <3>3, StepAppend, ReadDeletionIs DEF AddsDeletion
  <2> QED BY <1>1, <2>1, <2>2, ReadDeletionIs
<1>2. CASE DeleteStep
  <2>1. /\ pc = "forward" /\ at \in DOMAIN steps /\ steps[at].op = "delete" /\ db' = db /\ pc' = pc
        /\ steps' = steps \/ steps' = [steps EXCEPT ![at].op = "none"]
    BY <1>2, DeletingIs
  <2> QED BY <1>0, <2>1, OpExcept DEF DropsStep
<1>3. CASE SkipSatisfied
  <2>1. /\ pc = "forward" /\ at \in DOMAIN steps /\ db' = db /\ pc' = pc
        /\ steps' = steps \/ (steps' = [steps EXCEPT ![at].op = "none"] /\ ~input.forward /\ Unit(Id))
    BY <1>3, SkippingIs
  <2> QED BY <1>0, <2>1, OpExcept DEF DropsStep
<1>4. CASE db' = db /\ steps' = steps /\ pc' # "parse"
  BY <1>4
<1>5. CASE Initialise \/ PropagateUnit \/ Conflict \/ CheckForward \/ Insert
  BY <1>4, <1>5, InitialiseIs, PropagateIs, ConflictIs, CheckForwardIs, InsertIs
<1>6. CASE Back \/ CheckBackward \/ StartRat \/ RatCandidate \/ RatHolds \/ RatFails
  BY <1>4, <1>6, BackIs, CheckBackwardIs, StartRatIs, RatCandidateIs, RatHoldsIs, RatFailsIs
<1>7. CASE EndOfUnits \/ EndOfProof \/ AllChecked
  BY <1>4, <1>7 DEF EndOfUnits, EndOfProof, AllChecked, Stop, GoTo
<1> QED BY <1>1, <1>2, <1>3, <1>5, <1>6, <1>7 DEF DratStep

LEMMA SameNames ==
  ASSUME DratStep
  PROVE  FormulaIds' = FormulaIds /\ Trusted' = Trusted /\ Formula' = Formula
BY InputSame DEF FormulaIds, Trusted, Formula

LEMMA FormulaKeptStep ==
  ASSUME DratTypeOK, Shape, FormulaKept, DratStep
  PROVE  FormulaKept'
<1>1. input' = input /\ FormulaIds' = FormulaIds /\ FormulaIds \subseteq DOMAIN db
  BY InputSame, SameNames DEF DratTypeOK, TypeDb
<1> QED BY <1>1, DbKept DEF FormulaKept

LEMMA AddsOKStep ==
  ASSUME DratTypeOK, Shape, AddsOK, DratStep
  PROVE  AddsOK'
<1>0. /\ input' = input /\ FormulaIds' = FormulaIds /\ Trusted' = Trusted
      /\ FormulaIds \subseteq DOMAIN db
  BY InputSame, SameNames DEF DratTypeOK, TypeDb
<1>00. \A i \in DOMAIN steps : steps[i].clause \in DOMAIN db
  BY DEF DratTypeOK, TypeSteps
<1>1. \A i \in DOMAIN steps : db'[steps[i].clause] = db[steps[i].clause]
  BY <1>00, DbKept
\* The old additions that are left stay as they are.
<1>2. ASSUME \A i \in DOMAIN steps' : steps'[i].op = "add" => i \in DOMAIN steps /\ steps'[i] = steps[i]
      PROVE  AddsOK'
  BY <1>0, <1>1, <1>2 DEF AddsOK
<1>3. CASE ReadAddition
  <2> DEFINE m == Len(steps) + 1
  <2>1. DOMAIN steps' = 1 .. m /\ DOMAIN steps = 1 .. (m - 1) /\ m \in Nat
    BY <1>3, ReadIs
  <2>2. /\ \A i \in DOMAIN steps : steps'[i] = steps[i]
        /\ steps'[m] = [op |-> "add", clause |-> Len(db) + 1, skip |-> input.lines[at].op = "trust"]
        /\ Len(db) + 1 \notin DOMAIN db /\ db'[Len(db) + 1].lits = ToSet(input.lines[at].lits)
        /\ at \in DOMAIN input.lines
    BY <1>3, ReadIs
  <2> HIDE DEF m
  <2>3. DOMAIN db = 1 .. Len(db) /\ Len(db) \in Nat
    BY DbIs DEF DratTypeOK
  <2>4. ASSUME NEW i \in DOMAIN steps', steps'[i].op = "add"
        PROVE /\ steps'[i].clause \notin FormulaIds
              /\ steps'[i].skip => db'[steps'[i].clause].lits \in Trusted
              /\ \A j \in DOMAIN steps' : j < i /\ steps'[j].op = "add" => steps'[j].clause < steps'[i].clause
    <3>1. CASE i # m
      <4>1. i \in DOMAIN steps /\ \A j \in DOMAIN steps' : j < i => j \in DOMAIN steps
        BY <2>1, <3>1
      <4> QED BY <1>1, <2>2, <2>4, <4>1 DEF AddsOK
    <3>2. CASE i = m
      <4>1. steps'[i].clause = Len(db) + 1 /\ steps'[i].skip = (input.lines[at].op = "trust")
        BY <2>2, <3>2
      <4>2. steps'[i].clause \notin FormulaIds
        BY <1>0, <2>2, <4>1
      <4>3. ASSUME input.lines[at].op = "trust"  PROVE ToSet(input.lines[at].lits) \in Trusted
        <5>1. input.lines[at] \in ToSet(input.lines)
          BY <2>2 DEF ToSet
        <5>2. input.lines[at] \in {x \in ToSet(input.lines) : x.op = "trust"}
          BY <4>3, <5>1
        <5> QED BY <5>2 DEF Trusted
      <4>4. ASSUME NEW j \in DOMAIN steps', j < i  PROVE steps'[j].clause < steps'[i].clause
        <5>1. j \in DOMAIN steps
          BY <2>1, <3>2, <4>4
        <5>2. steps'[j].clause \in DOMAIN db
          BY <1>00, <2>2, <5>1
        <5> QED BY <2>3, <4>1, <5>2
      <4> QED BY <2>2, <4>1, <4>2, <4>3, <4>4
    <3> QED BY <3>1, <3>2
  <2> QED BY <1>0, <2>4 DEF AddsOK
<1>4. CASE steps' = steps
  BY <1>2, <1>4
<1>5. CASE DropsStep
  BY <1>2, <1>5 DEF DropsStep
<1>6. CASE AddsDeletion
  <2>1. Len(steps) \in Nat
    BY StepIs DEF DratTypeOK
  <2>2. \A i \in DOMAIN steps' : (i \in DOMAIN steps /\ steps'[i] = steps[i]) \/ steps'[i].op = "delete"
    BY <1>6, <2>1 DEF AddsDeletion
  <2> QED BY <1>2, <2>2
<1> QED BY <1>3, <1>4, <1>5, <1>6, StepsChange

\* Additions stay pending.
LEMMA PendingStays ==
  ASSUME DratTypeOK, Shape, DratStep, NEW n, NEW c \in Pending(n),
         c \in FormulaIds \/ ReadAddition \/ ReadDeletion \/ input.forward \/ Cardinality(db[c].lits) > 1
           \/ steps' = steps \/ steps[at].op # "add"
  PROVE  input.forward \/ c \in Pending(n)'
<1>1. FormulaIds' = FormulaIds /\ input' = input
  BY SameNames, InputSame
<1>2. CASE c \in FormulaIds
  BY <1>1, <1>2 DEF Pending
<1>3. CASE \E i \in AddsBefore(n) : c = steps[i].clause
  <2>1. PICK i \in AddsBefore(n) : c = steps[i].clause
    BY <1>3
  <2>2. i \in DOMAIN steps /\ steps[i].op = "add"
    BY <2>1 DEF AddsBefore
  <2>3. CASE i \in DOMAIN steps' /\ steps'[i] = steps[i]
    BY <2>1, <2>3 DEF Pending, AddsBefore
  <2>4. CASE ReadAddition
    <3>1. i \in DOMAIN steps' /\ steps'[i] = steps[i]
      BY <2>2, <2>4, ReadIs
    <3> QED BY <2>3, <3>1
  <2>5. CASE AddsDeletion
    <3>1. Len(steps) \in Nat
      BY StepIs DEF DratTypeOK
    <3>2. i \in DOMAIN steps' /\ steps'[i] = steps[i]
      BY <2>2, <2>5, <3>1 DEF AddsDeletion
    <3> QED BY <2>3, <3>2
  <2>6. CASE DropsStep
    <3>1. CASE i # at
      BY <2>2, <2>3, <2>6, <3>1 DEF DropsStep
    <3>2. CASE i = at
      <4>1. Unit(Id) /\ c = Id
        BY <2>1, <2>2, <2>6, <3>2 DEF Id, DropsStep
      <4>2. ~(Cardinality(db[c].lits) > 1)
        BY <4>1 DEF Unit
      <4>3. ~ReadAddition /\ ~ReadDeletion
        BY <2>6 DEF ReadAddition, ReadDeletion, DropsStep
      <4>4. steps' # steps
        BY <2>2, <2>6, <3>2 DEF DropsStep
      <4> QED BY <1>2, <2>2, <3>2, <4>2, <4>3, <4>4
    <3> QED BY <3>1, <3>2
  <2>7. CASE steps' = steps
    BY <2>2, <2>3, <2>7
  <2> QED BY <2>4, <2>5, <2>6, <2>7, StepsChange
<1> QED BY <1>2, <1>3 DEF Pending

LEMMA DeletesOKStep ==
  ASSUME DratTypeOK, Shape, DeletesOK, HashedOK, DratStep
  PROVE  DeletesOK'
<1>0. input' = input
  BY InputSame
<1>00. \A i \in DOMAIN steps : steps[i].clause \in DOMAIN db
  BY DEF DratTypeOK, TypeSteps
<1>1. \A i \in DOMAIN steps : db'[steps[i].clause] = db[steps[i].clause]
  BY <1>00, DbKept
<1> SUFFICES ASSUME ~input.forward, NEW i \in DOMAIN steps', steps'[i].op = "delete"
             PROVE  Cardinality(db'[steps'[i].clause].lits) > 1 /\ steps'[i].clause \in Pending(i)'
  BY <1>0 DEF DeletesOK
<1>2. ASSUME i \in DOMAIN steps, steps'[i] = steps[i]
      PROVE  Cardinality(db'[steps'[i].clause].lits) > 1 /\ steps'[i].clause \in Pending(i)'
  <2>1. Cardinality(db[steps[i].clause].lits) > 1 /\ steps[i].clause \in Pending(i)
    BY <1>2 DEF DeletesOK
  <2>2. steps[i].clause \in Pending(i)'
    BY <2>1, PendingStays
  <2> QED BY <1>1, <1>2, <2>1, <2>2
<1>3. CASE ReadAddition
  <2>1. i \in DOMAIN steps /\ steps'[i] = steps[i]
    <3>1. CASE i # Len(steps) + 1
      BY <1>3, <3>1, ReadIs
    <3>2. CASE i = Len(steps) + 1
      BY <1>3, <3>2, ReadIs
    <3> QED BY <3>1, <3>2
  <2> QED BY <1>2, <2>1
<1>4. CASE steps' = steps
  BY <1>2, <1>4
<1>5. CASE DropsStep
  BY <1>2, <1>5 DEF DropsStep
<1>6. CASE ReadDeletion /\ AddsDeletion
  <2>0. PICK c \in hashed : \E e \in Step :
                    /\ input.forward \/ Cardinality(db[c].lits) > 1
                    /\ e.op = "delete" /\ e.clause = c
                    /\ DOMAIN steps = 1 .. Len(steps) /\ DOMAIN steps' = 1 .. (Len(steps) + 1)
                    /\ \A k \in DOMAIN steps : steps'[k] = steps[k]
                    /\ steps'[Len(steps) + 1] = e
    BY <1>6 DEF AddsDeletion
  <2>1. Len(steps) \in Nat
    BY StepIs DEF DratTypeOK
  <2>2. i \in DOMAIN steps \/ i = Len(steps) + 1
    BY <2>0, <2>1
  <2>3. CASE i \in DOMAIN steps
    BY <1>2, <2>0, <2>3
  <2>4. CASE i = Len(steps) + 1
    <3>1. steps'[i].clause = c /\ Cardinality(db[c].lits) > 1 /\ db'[c] = db[c]
      BY <1>6, <2>0, <2>4, ReadDeletionIs
    <3>2. c \in Pending(Len(steps))
      BY <1>6 DEF HashedOK, ReadDeletion
    <3>3. c \in Pending(i)
      BY <2>0, <2>1, <2>4, <3>2 DEF Pending, AddsBefore
    <3>4. c \in Pending(i)'
      BY <1>6, <3>3, PendingStays
    <3> QED BY <3>1, <3>4
  <2> QED BY <2>2, <2>3, <2>4
<1> QED BY <1>3, <1>4, <1>5, <1>6, StepsChange

LEMMA PendingGrows ==
  ASSUME DratTypeOK, NEW n \in Int, NEW m \in Int, n <= m
  PROVE  Pending(n) \subseteq Pending(m)
<1>1. DOMAIN steps \subseteq Int
  BY StepIs DEF DratTypeOK
<1>2. AddsBefore(n) \subseteq AddsBefore(m)
  BY <1>1 DEF AddsBefore
<1> QED BY <1>2 DEF Pending

\* What the step at hand adds to the clauses pending.
LEMMA PendingAt ==
  ASSUME DratTypeOK, at \in DOMAIN steps
  PROVE  /\ \A c \in Pending(at) : c \in Pending(at - 1) \/ (c = Id /\ steps[at].op = "add")
         /\ steps[at].op = "add" => Id \in Pending(at)
         /\ Pending(at - 1) \subseteq Pending(at)
<1>1. DOMAIN steps \subseteq Int /\ at \in Int
  BY StepIs, TrailFacts DEF DratTypeOK
<1>2. ASSUME NEW c \in Pending(at)  PROVE c \in Pending(at - 1) \/ (c = Id /\ steps[at].op = "add")
  <2>1. CASE c \in FormulaIds
    BY <2>1 DEF Pending
  <2>2. CASE \E i \in AddsBefore(at) : c = steps[i].clause
    <3>1. PICK i \in AddsBefore(at) : c = steps[i].clause
      BY <2>2
    <3>2. i \in DOMAIN steps /\ i <= at /\ steps[i].op = "add"
      BY <3>1 DEF AddsBefore
    <3>3. CASE i = at
      BY <3>1, <3>2, <3>3 DEF Id
    <3>4. CASE i # at
      <4>1. i <= at - 1
        BY <1>1, <3>2, <3>4
      <4>2. i \in AddsBefore(at - 1)
        BY <3>2, <4>1 DEF AddsBefore
      <4> QED BY <3>1, <4>2 DEF Pending
    <3> QED BY <3>3, <3>4
  <2> QED BY <1>2, <2>1, <2>2 DEF Pending
<1>3. ASSUME steps[at].op = "add"  PROVE Id \in Pending(at)
  <2>1. at \in AddsBefore(at)
    BY <1>1, <1>3 DEF AddsBefore
  <2> QED BY <2>1 DEF Pending, Id
<1>4. Pending(at - 1) \subseteq Pending(at)
  BY <1>1, PendingGrows
<1> QED BY <1>2, <1>3, <1>4

LEMMA HashedOKStep ==
  ASSUME DratTypeOK, Shape, HashedOK, DratStep
  PROVE  HashedOK'
<1>0. input' = input /\ FormulaIds' = FormulaIds
  BY InputSame, SameNames
<1> SUFFICES ASSUME ~input.forward, pc' = "parse"
             PROVE  \A c \in hashed' : c \in Pending(Len(steps))'
  BY <1>0 DEF HashedOK
<1>1. Len(steps) \in Nat /\ DOMAIN steps = 1 .. Len(steps)
  BY StepIs DEF DratTypeOK
<1>2. CASE ReadAddition
  <2>1. /\ Len(steps') = Len(steps) + 1 /\ hashed' = hashed \cup {Len(db) + 1} /\ pc = "parse"
        /\ \A i \in DOMAIN steps : i \in DOMAIN steps' /\ steps'[i] = steps[i]
    BY <1>2, ReadIs
  <2>2. Len(steps) + 1 \in DOMAIN steps' /\ steps'[Len(steps) + 1].op = "add"
        /\ steps'[Len(steps) + 1].clause = Len(db) + 1
    BY <1>2, ReadIs
  <2>3. ASSUME NEW c \in hashed  PROVE c \in Pending(Len(steps))'
    <3>1. c \in Pending(Len(steps))
      BY <2>1 DEF HashedOK
    <3> QED BY <1>0, <1>1, <2>1, <3>1 DEF Pending, AddsBefore
  <2>4. Len(db) + 1 \in Pending(Len(steps))'
    <3>1. Len(steps) + 1 \in AddsBefore(Len(steps))'
      BY <1>1, <2>1, <2>2 DEF AddsBefore
    <3> QED BY <2>2, <3>1 DEF Pending
  <2> QED BY <2>1, <2>3, <2>4
<1>3. CASE ReadDeletion
  <2>1. pc = "parse" /\ hashed' \subseteq hashed
    BY <1>3, ReadDeletionIs
  <2>2. \A i \in DOMAIN steps : i \in DOMAIN steps' /\ steps'[i] = steps[i]
    <3>1. CASE steps' = steps
      BY <3>1
    <3>2. CASE AddsDeletion
      BY <1>1, <3>2 DEF AddsDeletion
    <3>3. CASE DropsStep
      BY <2>1, <3>3 DEF DropsStep
    <3>4. ~ReadAddition
      BY <1>3 DEF ReadAddition, ReadDeletion
    <3> QED BY <3>1, <3>2, <3>3, <3>4, StepsChange
  <2>3. Len(steps') >= Len(steps) /\ Len(steps') \in Nat
    <3>0. steps' \in Seq(Step)
      BY TypeStepsStep DEF TypeSteps
    <3>1. Len(steps') \in Nat /\ DOMAIN steps' = 1 .. Len(steps')
      BY <3>0, LenProperties
    <3>2. CASE Len(steps) = 0
      BY <3>1, <3>2
    <3>3. CASE Len(steps) # 0
      <4>1. Len(steps) \in DOMAIN steps'
        BY <1>1, <2>2, <3>3
      <4> QED BY <1>1, <3>1, <4>1
    <3> QED BY <3>2, <3>3
  <2>4. ASSUME NEW c \in hashed  PROVE c \in Pending(Len(steps))'
    <3>1. c \in Pending(Len(steps))
      BY <2>1 DEF HashedOK
    <3> QED BY <1>0, <1>1, <2>2, <2>3, <3>1 DEF Pending, AddsBefore
  <2> QED BY <2>1, <2>4
<1>4. CASE steps' = steps /\ pc = "parse" /\ hashed' = hashed
  BY <1>0, <1>4 DEF HashedOK, Pending, AddsBefore
<1>5. CASE DropsStep
  BY <1>5 DEF DropsStep
<1> QED BY <1>2, <1>3, <1>4, <1>5, StepsChange

\* How far the clauses reach.
LEMMA ReachIs ==
  /\ pc = "backward" \/ Joining => Reach = at
  /\ pc \in {"forward", "insert", "rat"} \/ Checking \/ Trying => Reach = at - 1
  /\ Starting => Reach = 0
BY DEF Reach, Starting, Joining, Checking, Trying

LEMMA LiveWide ==
  ASSUME DratTypeOK, Shape, StepsOK, DratStep
  PROVE  \A c \in live' : Cardinality(db'[c].lits) > 1
<1>0. \A c \in live : c \in DOMAIN db /\ Cardinality(db[c].lits) > 1
  BY DEF DratTypeOK, TypeDb, StepsOK, LiveOK
<1>1. CASE live' \subseteq live
  BY <1>0, <1>1, DbKept
<1>2. CASE Initialise
  BY <1>2, InitialiseIs
<1>3. CASE Insert
  BY <1>0, <1>3, InsertIs
<1>4. CASE Back
  <2>1. CASE steps[at].op = "delete" /\ live' = live \cup {Id}
    <3>1. ~input.forward /\ at \in DOMAIN steps /\ db' = db
      BY <1>4, BackIs
    <3>2. Cardinality(db[Id].lits) > 1
      BY <2>1, <3>1 DEF StepsOK, DeletesOK, Id
    <3> QED BY <1>0, <2>1, <3>1, <3>2
  <2> QED BY <1>1, <1>4, <2>1, BackIs
<1>5. CASE DeleteStep \/ CheckBackward
  BY <1>1, <1>5, DeletingIs, CheckBackwardIs
<1>6. CASE UNCHANGED live
  BY <1>1, <1>6
<1>7. CASE StartRat \/ RatCandidate \/ RatHolds \/ RatFails \/ PropagateUnit
  BY <1>6, <1>7, StartRatIs, RatCandidateIs, RatHoldsIs, RatFailsIs, PropagateIs
<1>8. CASE ReadAddition \/ ReadDeletion \/ SkipSatisfied
  BY <1>6, <1>8, ReadIs, ReadDeletionIs, SkippingIs
<1> QED BY <1>2, <1>3, <1>4, <1>5, <1>6, <1>7, <1>8
        DEF DratStep, Conflict, EndOfUnits, CheckForward, EndOfProof, AllChecked, search

LEMMA LivePending ==
  ASSUME DratTypeOK, Shape, TrailOK, StepsOK, DratStep, ~input.forward, Running'
  PROVE  live' \subseteq Pending(Reach)'
<1>0. FormulaIds' = FormulaIds /\ input' = input /\ at \in Nat /\ Len(steps) \in Nat
      /\ DOMAIN steps = 1 .. Len(steps)
  BY SameNames, InputSame, TrailFacts, StepIs DEF DratTypeOK
<1>1. Running => live \subseteq Pending(Reach)
  BY DEF StepsOK, LiveOK
<1>2. ASSUME NEW n, NEW m, Reach' = m, steps' = steps, n = m
      PROVE  Pending(n) = Pending(Reach)'
  <2>1. \A c : c \in Pending(n) <=> c \in Pending(Reach)'
    BY <1>0, <1>2, Zenon DEF Pending, AddsBefore
  <2> QED BY <2>1
<1>3. CASE Initialise
  <2>1. live' \subseteq FormulaIds
    BY <1>3, InitialiseIs
  <2> QED BY <1>0, <2>1 DEF Pending
<1>4. CASE PropagateUnit
  <2>1. pc' = pc /\ goal' = goal /\ at' = at /\ steps' = steps /\ live' = live /\ pc = "propagate"
    BY <1>4, PropagateIs
  <2>2. Reach' = Reach
    BY <2>1 DEF Reach, Starting, Joining
  <2>3. Running
    BY <2>1 DEF Running
  <2> QED BY <1>1, <1>2, <2>1, <2>2, <2>3
<1>5. CASE Conflict
  <2>1. live' = live /\ steps' = steps /\ pc = "propagate" /\ Running
    BY <1>5, ConflictIs DEF Running
  <2>2. CASE Joining /\ pc' = "backward" /\ at' = at
    <3>1. Reach = at /\ Reach' = at
      BY <2>2, ReachIs DEF Reach, Starting
    <3> QED BY <1>1, <1>2, <2>1, <3>1
  <2>3. CASE Checking /\ pc' = "backward" /\ at' = at - 1
    <3>1. Reach = at - 1 /\ Reach' = at - 1
      BY <2>3, ReachIs DEF Reach, Starting
    <3> QED BY <1>1, <1>2, <2>1, <3>1
  <2>4. CASE Trying /\ pc' = "rat" /\ at' = at
    <3>1. Reach = at - 1 /\ Reach' = at - 1
      BY <2>4, ReachIs DEF Reach, Starting, Joining
    <3> QED BY <1>1, <1>2, <2>1, <3>1
  <2>5. pc' # "done"
    BY DEF Running
  <2> QED BY <1>5, <2>2, <2>3, <2>4, <2>5, ConflictIs
<1>6. CASE EndOfUnits
  <2>1. /\ pc = "propagate" /\ goal \in {"init", "lemma"} /\ at' = IF goal = "init" THEN 1 ELSE at + 1
        /\ pc' = "forward" /\ steps' = steps /\ live' = live
    BY <1>6, Zenon DEF EndOfUnits, Fixpoint, GoTo
  <2>2. Running
    BY <2>1 DEF Running
  <2>3. CASE goal = "init"
    <3>1. Reach = 0 /\ Reach' = at' - 1 /\ at' = 1
      BY <2>1, <2>3, ReachIs DEF Reach, Starting, Joining
    <3> QED BY <1>1, <1>2, <2>1, <2>2, <3>1
  <2>4. CASE goal = "lemma"
    <3>1. Reach = at /\ Reach' = at' - 1 /\ at' = at + 1
      BY <2>1, <2>4, ReachIs DEF Reach, Starting, Joining
    <3>2. Reach' = at
      BY <1>0, <3>1
    <3> QED BY <1>1, <1>2, <2>1, <2>2, <3>1, <3>2
  <2> QED BY <2>1, <2>3, <2>4
<1>7. CASE DeleteStep \/ SkipSatisfied
  <2>1. /\ pc = "forward" /\ pc' = pc /\ at \in DOMAIN steps /\ at' = at + 1 /\ live' \subseteq live
    BY <1>7, DeletingIs, SkippingIs
  <2>2. Reach = at - 1 /\ Reach' = at' - 1 /\ Running
    BY <2>1, ReachIs DEF Reach, Starting, Joining, Running
  <2>3. Reach' = at
    BY <1>0, <2>1, <2>2
  <2>4. ASSUME NEW c \in live'  PROVE c \in Pending(Reach)'
    <3>1. c \in Pending(at)
      BY <1>1, <2>1, <2>2, <2>4, PendingAt
    <3>2. Cardinality(db[c].lits) > 1
      BY <2>1, <2>4 DEF StepsOK, LiveOK
    <3>3. c \in Pending(Reach)'
      <4>1. PICK n : n = at
        OBVIOUS
      <4>2. c \in Pending(n)'
        BY <3>1, <3>2, <4>1, PendingStays
      <4>3. n = Reach'
        BY <2>3, <4>1
      <4>4. c \in Pending(Reach)'
        BY <4>2, <4>3, Zenon DEF Pending, AddsBefore
      <4> QED BY <4>4
    <3> QED BY <3>3
  <2> QED BY <2>4
<1>8. CASE Insert
  <2>1. /\ pc = "forward" /\ at \in DOMAIN steps /\ steps[at].op = "add" /\ steps' = steps
        /\ live' \subseteq live \cup {Id}
        /\ \/ pc' = "forward" /\ at' = at + 1
           \/ pc' = "propagate" /\ goal' = "lemma" /\ at' = at
           \/ pc' = "backward" /\ at' = at
    <3>1. pc # "insert"
      BY DEF Shape
    <3>2. pc' # "done"
      BY DEF Running
    <3>3. live' \subseteq live \cup {Id}
      BY <1>8, InsertIs
    <3> QED BY <1>8, <3>1, <3>2, <3>3, InsertIs
  <2>2. Running /\ Reach = at - 1
    BY <2>1, ReachIs DEF Running
  <2>3. Reach' = at
    <3>1. CASE pc' = "forward" /\ at' = at + 1
      <4>1. Reach' = at' - 1
        BY <3>1 DEF Reach, Starting, Joining
      <4> QED BY <1>0, <3>1, <4>1
    <3>2. CASE pc' = "propagate" /\ goal' = "lemma" /\ at' = at
      BY <3>2 DEF Reach, Starting, Joining
    <3>3. CASE pc' = "backward" /\ at' = at
      BY <3>3 DEF Reach, Starting, Joining
    <3> QED BY <2>1, <3>1, <3>2, <3>3
  <2>4. live' \subseteq Pending(at)
    BY <1>1, <2>1, <2>2, PendingAt
  <2> QED BY <1>2, <2>1, <2>3, <2>4
<1>9. CASE Back
  <2>1. pc = "backward" /\ pc' = pc /\ at \in DOMAIN steps /\ steps' = steps /\ at' = at - 1
    BY <1>9, BackIs
  <2>2. Running /\ Reach = at /\ Reach' = at - 1
    BY <2>1 DEF Running, Reach, Starting
  <2>3. live' \subseteq Pending(at - 1)
    <3>1. CASE steps[at].op = "none" /\ live' = live
      BY <1>1, <2>1, <2>2, <3>1, PendingAt
    <3>2. CASE steps[at].op = "delete" /\ live' = live \cup {Id}
      <4>1. Id \in Pending(at)
        BY <2>1, <3>2 DEF StepsOK, DeletesOK, Id
      <4> QED BY <1>1, <2>1, <2>2, <3>2, <4>1, PendingAt
    <3>3. CASE live' = live \ {Id}
      BY <1>1, <2>1, <2>2, <3>3, PendingAt
    <3> QED BY <1>9, <3>1, <3>2, <3>3, BackIs
  <2> QED BY <1>2, <2>1, <2>2, <2>3
<1>10. CASE CheckBackward
  <2>1. /\ pc = "backward" /\ at \in DOMAIN steps /\ steps' = steps /\ live' = live \ {Id}
        /\ \/ pc' = "backward" /\ at' = at - 1
           \/ pc' = "propagate" /\ goal' = "check" /\ at' = at
    <3>1. pc' # "done"
      BY DEF Running
    <3> QED BY <1>10, <3>1, CheckBackwardIs
  <2>2. Running /\ Reach = at /\ Reach' = at - 1
    BY <2>1 DEF Running, Reach, Starting, Joining
  <2>3. live' \subseteq Pending(at - 1)
    BY <1>1, <2>1, <2>2, PendingAt
  <2> QED BY <1>2, <2>1, <2>2, <2>3
<1>11. CASE StartRat
  <2>1. Checking /\ steps' = steps /\ at' = at /\ live' = live /\ (pc' = "done" \/ pc' = "rat")
    BY <1>11, StartRatIs
  <2>2. Running /\ Reach = at - 1 /\ Reach' = at - 1
    BY <2>1 DEF Running, Reach, Starting, Joining, Checking
  <2> QED BY <1>1, <1>2, <2>1, <2>2
<1>12. CASE RatCandidate
  <2>1. /\ pc = "rat" /\ steps' = steps /\ at' = at /\ live' = live
        /\ pc' = "rat" \/ (pc' = "propagate" /\ goal' = "rat")
    BY <1>12, RatCandidateIs
  <2>2. Running /\ Reach = at - 1 /\ Reach' = at - 1
    BY <2>1 DEF Running, Reach, Starting, Joining
  <2> QED BY <1>1, <1>2, <2>1, <2>2
<1>13. CASE RatHolds
  <2>1. /\ pc = "rat" /\ steps' = steps /\ live' = live /\ pc' = "backward" /\ at' = at - 1
    BY <1>13, RatHoldsIs
  <2>2. Running /\ Reach = at - 1 /\ Reach' = at - 1
    BY <2>1 DEF Running, Reach, Starting, Joining
  <2> QED BY <1>1, <1>2, <2>1, <2>2
<1>14. CASE RatFails
  <2>1. Trying /\ steps' = steps /\ at' = at /\ live' = live /\ (pc' = "done" \/ pc' = "rat")
    BY <1>14, RatFailsIs
  <2>2. Running /\ Reach = at - 1 /\ Reach' = at - 1
    BY <2>1 DEF Running, Reach, Starting, Joining, Trying
  <2> QED BY <1>1, <1>2, <2>1, <2>2
<1>15. CASE ReadAddition \/ ReadDeletion \/ CheckForward \/ EndOfProof \/ AllChecked
  <2>1. pc' \in {"parse", "done"} \/ input.forward
    BY <1>15, ReadIs, ReadDeletionIs, CheckForwardIs DEF EndOfProof, AllChecked, Stop
  <2> QED BY <2>1 DEF Running
<1> QED BY <1>3, <1>4, <1>5, <1>6, <1>7, <1>8, <1>9, <1>10, <1>11, <1>12, <1>13, <1>14, <1>15
        DEF DratStep

LEMMA StepsOKStep ==
  ASSUME DratTypeOK, Shape, TrailOK, StepsOK, DratStep
  PROVE  StepsOK'
<1>1. input' = input
  BY InputSame
<1>2. LiveOK'
  BY <1>1, LiveWide, LivePending DEF LiveOK
<1> QED BY <1>2, FormulaKeptStep, AddsOKStep, DeletesOKStep, HashedOKStep DEF StepsOK

-----------------------------------------------------------------------------
(* The invariant.                                                          *)

LEMMA InitType ==
  ASSUME Init
  PROVE  DratTypeOK
<1>1. PICK i \in Inputs, f \in BOOLEAN : input = [formula |-> i[1], lines |-> i[2], forward |-> f]
  BY DEF Init
<1>2. /\ i[1] \in Seq(Seq(Lits))
      /\ i[2] \in Seq([op : {"add", "trust", "delete"}, lits : Seq(Lits)])
  BY InputAssumption
<1>3. TypeInput
  BY <1>1, <1>2 DEF TypeInput
<1>4. /\ input.formula \in Seq(Seq(Lits)) /\ DOMAIN input.formula = 1 .. Len(input.formula)
      /\ Len(input.formula) \in Nat
  BY <1>1, <1>2
<1>5. ASSUME NEW c \in DOMAIN input.formula
      PROVE  Lemma(input.formula[c]) \in Clause
  <2>1. input.formula[c] \in Seq(Lits)
    BY <1>4
  <2> QED BY <2>1, LemmaIs
<1>6. db \in Seq(Clause) /\ DOMAIN db = 1 .. Len(input.formula)
  <2>1. db = [c \in 1 .. Len(input.formula) |-> Lemma(input.formula[c])]
    BY <1>4 DEF Init
  <2>2. \A c \in 1 .. Len(input.formula) : Lemma(input.formula[c]) \in Clause
    BY <1>4, <1>5
  <2>3. db \in [1 .. Len(input.formula) -> Clause]
    BY <2>1, <2>2
  <2>4. DOMAIN db = 1 .. Len(input.formula)
    BY <2>3
  <2>5. PICK n : n = Len(input.formula)
    OBVIOUS
  <2>6. n \in Nat /\ db \in [1 .. n -> Clause]
    BY <1>4, <2>3, <2>5
  <2>7. db \in Seq(Clause)
    BY <2>6
  <2> QED BY <2>4, <2>7
<1>7. TypeDb
  BY <1>4, <1>6 DEF Init, TypeDb, FormulaIds
<1>8. TypeSteps /\ TypeTrail
  BY DEF Init, TypeSteps, TypeTrail
<1>9. TypePhase
  BY DEF Init, TypePhase
<1>10. TypeRat
  BY DEF Init, TypeRat, NoRat
<1> QED BY <1>3, <1>7, <1>8, <1>9, <1>10 DEF DratTypeOK

LEMMA InitSafe ==
  ASSUME Init
  PROVE  SafeInv
<1>1. DratTypeOK
  BY InitType
<1>2. Shape
  BY <1>1 DEF Init, Shape, Starting, Joining, Checking, InRat, Trying, DratTypeOK, TypeInput
<1>3. TrailOK
  BY DEF Init, TrailOK, Checking, InRat, Trying
<1>4. FormulaKept
  <2>1. ASSUME NEW c \in FormulaIds  PROVE db[c].lits = ToSet(input.formula[c])
    BY <1>1 DEF Init, Lemma, FormulaIds, DratTypeOK, TypeInput
  <2> QED BY <2>1 DEF FormulaKept
<1>5. AddsOK /\ DeletesOK
  BY DEF Init, AddsOK, DeletesOK
<1>6. HashedOK
  BY <1>1 DEF Init, HashedOK, Pending, FormulaIds, DratTypeOK, TypeInput
<1>7. LiveOK
  BY DEF Init, LiveOK, Running
<1> QED BY <1>1, <1>2, <1>3, <1>4, <1>5, <1>6, <1>7 DEF SafeInv, StepsOK

\* What is the same when no variable changes.
LEMMA Unchanged ==
  ASSUME UNCHANGED vars
  PROVE  /\ input' = input /\ db' = db /\ hashed' = hashed /\ steps' = steps /\ at' = at
         /\ live' = live /\ trail' = trail /\ forced' = forced /\ marked' = marked /\ pc' = pc
         /\ goal' = goal /\ rat' = rat /\ usedRat' = usedRat /\ verdict' = verdict
         /\ FormulaIds' = FormulaIds /\ Formula' = Formula /\ Trusted' = Trusted
         /\ Running' = Running /\ InRat' = InRat /\ Joining' = Joining /\ Checking' = Checking
         /\ Starting' = Starting /\ Trying' = Trying
         /\ Reach' = Reach /\ Id' = Id /\ Pending(Reach)' = Pending(Reach)
<1>1. /\ input' = input /\ db' = db /\ hashed' = hashed /\ steps' = steps /\ at' = at
      /\ live' = live /\ trail' = trail /\ forced' = forced /\ marked' = marked /\ pc' = pc
      /\ goal' = goal /\ rat' = rat /\ usedRat' = usedRat /\ verdict' = verdict
  BY DEF vars, search
<1>2. FormulaIds' = FormulaIds /\ Formula' = Formula /\ Trusted' = Trusted
  BY <1>1 DEF FormulaIds, Formula, Trusted
<1>3. /\ Running' = Running /\ InRat' = InRat /\ Joining' = Joining /\ Checking' = Checking
      /\ Starting' = Starting /\ Trying' = Trying
  BY <1>1 DEF Running, InRat, Joining, Checking, Starting, Trying
<1>4. Reach' = Reach /\ Id' = Id
  BY <1>1, <1>3 DEF Reach, Id
<1>5. Pending(Reach)' = Pending(Reach)
  BY <1>1, <1>2, <1>4 DEF Pending, AddsBefore
<1> QED BY <1>1, <1>2, <1>3, <1>4, <1>5

LEMMA SafeStep ==
  ASSUME SafeInv, [Next]_vars
  PROVE  SafeInv'
<1>1. CASE DratStep
  BY <1>1, TypeStep, ShapeStep, TrailOKStep, StepsOKStep DEF SafeInv
<1>2. CASE UNCHANGED vars
  <2>1. DratTypeOK' = DratTypeOK
    BY <1>2, Unchanged DEF DratTypeOK, TypeInput, TypeDb, TypeSteps, TypeTrail, TypePhase, TypeRat
  <2>2. Shape' = Shape
    BY <1>2, Unchanged DEF Shape, Open, TrueLits
  <2>3. TrailOK' = TrailOK
    BY <1>2, Unchanged DEF TrailOK
  <2>4. FormulaKept' = FormulaKept /\ AddsOK' = AddsOK
    BY <1>2, Unchanged DEF FormulaKept, AddsOK
  <2>5. DeletesOK' = DeletesOK /\ HashedOK' = HashedOK
    BY <1>2, Unchanged DEF DeletesOK, HashedOK, Pending, AddsBefore
  <2>6. LiveOK' = LiveOK
    BY <1>2, Unchanged DEF LiveOK
  <2> QED BY <2>1, <2>2, <2>3, <2>4, <2>5, <2>6 DEF SafeInv, StepsOK
<1> QED BY <1>1, <1>2 DEF Next, Finished

\* In every state of drat-trim (drat-trim.c) the arrays hold what they are for: the steps
\* refer to clauses that were read, the trail to literals, the index at to a place in the
\* proof; and the phases come in the order that Shape, TrailOK and StepsOK describe.
THEOREM DratTrimSafe == Spec => []SafeInv
<1> QED BY InitSafe, SafeStep, PTL DEF Spec
=============================================================================
