------------------------- MODULE InprocessingProofs -------------------------
(***************************************************************************)
(* Simplification between conflicts is sound, for every formula, every set *)
(* of observed variables, every sequence of procedures and every further   *)
(* clause: whatever is interrupted wherever, the clauses held have the     *)
(* observed solutions of the clauses given, redundant clauses exclude      *)
(* none, and the extension stack turns a model of the rest into one of     *)
(* everything given.                                                       *)
(*                                                                         *)
(* First the steps of elimination, blocked, covered and globally blocked   *)
(* clauses, the ones that push clauses on the stack; at the end the        *)
(* theorems.                                                               *)
(***************************************************************************)
EXTENDS InprocessingSteps

-----------------------------------------------------------------------------
(* Elimination: what its steps start from and have to show.                *)

USE MaxVarAssumption

Running ==
  /\ ~unsat /\ Types /\ Base /\ Meaning /\ Planned /\ work.kind # "substitute"
  /\ units \subseteq Lits /\ irr \subseteq SUBSET Lits /\ red \subseteq SUBSET Lits
  /\ \A c \in irr : c \subseteq Lits /\ Good(c) /\ OpenIn(c, units)
  /\ plan # <<>> /\ Head(plan) = "elim" => \A c \in irr : c \cap units = {}

\* Nothing in progress.
LEMMA IdleFacts == Idle.kind = "idle" /\ Idle' = Idle
BY DEF Idle

\* The invariant outside of a substitution, as the steps of elimination need it.
LEMMA RunningFacts ==
  ASSUME Inv, ~unsat, work.kind # "substitute"
  PROVE  Running
<1>1. Types /\ Base /\ Meaning /\ Planned
  BY InvParts
<1> QED BY <1>1 DEF Running, Types, Base, Good, Planned, True

\* A procedure that runs with nothing in progress.
LEMMA AtFacts ==
  ASSUME Inv, NEW proc, At(proc)
  PROVE  /\ Running /\ plan # <<>> /\ Head(plan) = proc /\ work = Idle
         /\ proc \in {"elim", "block"} <=> Late
<1>1. ~unsat /\ plan # <<>> /\ Head(plan) = proc /\ work = Idle
  BY DEF At
<1>2. work.kind # "substitute"
  BY <1>1, IdleFacts
<1> QED BY <1>1, <1>2, RunningFacts DEF Late

\* What is in progress, by its kind.
LEMMA KindFacts ==
  ASSUME Inv, NEW kind \in {"resolve", "backward", "cover", "condition"}, Doing(kind)
  PROVE  /\ Running /\ work.kind = kind
         /\ kind = "resolve" => Resolving
         /\ kind = "backward" => InBackward
         /\ kind = "cover" => Covering
         /\ kind = "condition" => Conditioning
<1>1. ~unsat /\ work.kind = kind
  BY DEF Doing
<1>2. Running /\ Working
  BY <1>1, RunningFacts, InvParts
<1>3. Resolving \/ InBackward \/ Covering \/ Conditioning
  BY <1>1, <1>2, IdleFacts DEF Working, Substituting
<1> QED BY <1>1, <1>2, <1>3 DEF Resolving, InBackward, Covering, Conditioning

\* The invariant from its parts.
LEMMA Assembled ==
  ASSUME Holds', ~unsat' => Planned' /\ Working'
  PROVE  Inv'
BY DEF Holds, Inv, NoModel

\* A step that stays in its procedure keeps the plan.
LEMMA SamePlan ==
  ASSUME Running, plan' = plan,
         plan # <<>> /\ Head(plan) = "elim" => \A c \in irr' : c \cap units' = {}
  PROVE  Planned' /\ (Late' <=> Late)
BY DEF Running, Planned, PlanOK, True, Late

\* A step that ends its procedure goes on with the plan.
LEMMA NextProcedure ==
  ASSUME Running, plan # <<>>, plan' = Tail(plan),
         Head(plan) = "connect" => \A c \in irr' : c \cap units' = {}
  PROVE  Planned'
<1>1. PlanOK(plan)
  BY DEF Running, Planned
<1>2. PlanOK(Tail(plan)) /\ (Tail(plan) # <<>> /\ Head(Tail(plan)) = "elim" => Head(plan) = "connect")
  BY <1>1, PlanOkTail
<1> QED BY <1>2 DEF Planned, PlanOK, True

-----------------------------------------------------------------------------
(* Steps that push nothing.                                                *)

\* Connecting occurrence lists drops true clauses.
LEMMA ConnectInv ==
  ASSUME Inv, Connect
  PROVE  Inv'
<1>1. /\ At("connect") /\ irr' = {c \in irr : c \cap units = {}} /\ plan' = Tail(plan)
      /\ UNCHANGED <<red, units, unsat, status, extension, user, work>>
  BY DEF Connect, True
<1>2. Running /\ plan # <<>> /\ Head(plan) = "connect" /\ work = Idle /\ ~Late
  BY <1>1, AtFacts
<1>3. Searchable /\ Unchanged
  BY <1>1, <1>2, IdleFacts DEF Running, Searchable, Unchanged, user
<1>4. Holds'
  <2>1. /\ \A a : Total(a) /\ Satisfies(a, irr \cup red) /\ units \subseteq a =>
                    Satisfies(a, irr' \cup red')
        /\ \A a : Total(a) /\ Satisfies(a, irr') /\ units \subseteq a => Satisfies(a, irr)
    BY <1>1 DEF Satisfies
  <2>2. irr' \subseteq SUBSET Lits /\ red' \subseteq SUBSET Lits /\ irr' \subseteq irr /\ red' = red
    BY <1>1, <1>2 DEF Running
  <2> QED BY <1>1, <1>2, <1>3, <2>1, <2>2, PlainStep
<1>5. Planned'
  BY <1>1, <1>2, NextProcedure
<1>6. Working'
  BY <1>1, <1>2, IdleFacts DEF Working
<1> QED BY <1>4, <1>5, <1>6, Assembled

\* Elimination ends: redundant clauses with eliminated variables go.
LEMMA EndElimInv ==
  ASSUME Inv, EndElim
  PROVE  Inv'
<1>1. PICK i, r, L : i = {c \in irr : ~True(c)} /\ r = NoEliminated(red) /\ L = {}
  OBVIOUS
<1>2. /\ At("elim") /\ Become(i, r, L) /\ plan' = Tail(plan)
      /\ UNCHANGED <<extension, user, work>>
  BY <1>1 DEF EndElim
<1>3. Running /\ plan # <<>> /\ Head(plan) = "elim" /\ work = Idle
  BY <1>2, AtFacts
<1>4. Searchable /\ Unchanged
  BY <1>2, <1>3, IdleFacts DEF Running, Searchable, Unchanged, user
<1>5. /\ i \subseteq SUBSET Lits /\ r \subseteq SUBSET Lits /\ L \subseteq Lits
      /\ i \subseteq irr /\ r \subseteq red /\ \A c \in irr : c \in i \/ c \cap units # {}
  BY <1>1, <1>3 DEF Running, NoEliminated, True
<1>6. \A c \in i \cup r : Good(c)
  <2>1. ASSUME NEW c \in r  PROVE Good(c)
    BY <2>1, <1>1, <1>3 DEF Running, Base, NoEliminated, Good
  <2> QED BY <2>1, <1>3, <1>5 DEF Running
<1>7. /\ \A a : Total(a) /\ Satisfies(a, irr \cup red) /\ units \subseteq a =>
                  Satisfies(a, i \cup r) /\ L \subseteq a
      /\ \A a : Total(a) /\ Satisfies(a, i) /\ units \cup L \subseteq a => Satisfies(a, irr)
  BY <1>1, <1>5 DEF Satisfies
<1>8. Holds'
  BY ONLY <1>2, <1>4, <1>5, <1>6, <1>7, BecomeStep
<1>9. Planned'
  BY <1>2, <1>3, NextProcedure
<1>10. Working'
  BY <1>2, <1>3, IdleFacts DEF Working
<1> QED BY <1>8, <1>9, <1>10, Assembled

\* Blocked clause elimination ends the same way.
LEMMA EndBlockInv ==
  ASSUME Inv, EndBlock
  PROVE  Inv'
<1>1. /\ At("block") /\ red' = NoEliminated(red) /\ plan' = Tail(plan)
      /\ UNCHANGED <<irr, units, unsat, status, extension, user, work>>
  BY DEF EndBlock
<1>2. Running /\ plan # <<>> /\ Head(plan) = "block" /\ work = Idle
  BY <1>1, AtFacts
<1>3. Searchable /\ Unchanged
  BY <1>1, <1>2, IdleFacts DEF Running, Searchable, Unchanged, user
<1>4. \A c \in red' : c \in red /\ \A l \in c : Present(l)
  BY <1>1, <1>2 DEF Running, Base, NoEliminated
<1>5. Holds'
  <2>1. /\ \A a : Total(a) /\ Satisfies(a, irr \cup red) /\ units \subseteq a =>
                    Satisfies(a, irr' \cup red')
        /\ \A a : Total(a) /\ Satisfies(a, irr') /\ units \subseteq a => Satisfies(a, irr)
    BY <1>1, <1>4 DEF Satisfies
  <2>2. irr' \subseteq SUBSET Lits /\ red' \subseteq SUBSET Lits /\ irr' = irr
    BY <1>1, <1>2, <1>4 DEF Running
  <2> QED BY <1>1, <1>3, <1>4, <2>1, <2>2, PlainStep
<1>6. Planned'
  BY <1>1, <1>2, NextProcedure
<1>7. Working'
  BY <1>1, <1>2, IdleFacts DEF Working
<1> QED BY <1>5, <1>6, <1>7, Assembled

\* A true clause needs no covering.
LEMMA CoverTrueInv ==
  ASSUME Inv, CoverTrue
  PROVE  Inv'
<1>1. At("cover") /\ UNCHANGED <<units, unsat, status, extension, user, control, red>>
  BY DEF CoverTrue
<1>2. PICK c \in irr : True(c) /\ irr' = irr \ {c}
  BY DEF CoverTrue
<1>3. NoHurry /\ UNCHANGED <<units, unsat, status>> /\ irr' \subseteq irr \cup red /\ red' \subseteq red
  BY <1>1, <1>2 DEF NoHurry
<1>4. \A a : Total(a) /\ Satisfies(a, irr') /\ units \subseteq a => Satisfies(a, irr)
  BY <1>2 DEF Satisfies, True
<1>5. "cover" \notin {"elim", "block"}
  OBVIOUS
<1>6. \A e \in irr' : e \in irr \/ OpenIn(e, units)
  BY <1>2
<1> QED BY ONLY <1>1, <1>3, <1>4, <1>5, <1>6, Inv, RemovalStep

\* A literal may go when making it true and the others of its clause false runs into
\* a conflict.
LEMMA InstantiateInv ==
  ASSUME Inv, Instantiate
  PROVE  Inv'
<1>1. At("instantiate") /\ UNCHANGED <<red, units, unsat, status, extension, user, control>>
  BY DEF Instantiate
<1>0. PICK c \in irr : \E l \in c :
        /\ InstantiationCandidate(c, l) /\ InstantiationConflicts(c, l)
        /\ irr' = (irr \ {c}) \cup {c \ {l}}
  BY DEF Instantiate
<1>2. PICK l \in c :
        /\ InstantiationCandidate(c, l) /\ InstantiationConflicts(c, l)
        /\ irr' = (irr \ {c}) \cup {c \ {l}}
  BY <1>0
<1>3. PICK s : s = c \ {l}
  OBVIOUS
<1>4. NoHurry
  BY <1>1 DEF NoHurry
<1>5. "instantiate" \notin {"elim", "block"}
  OBVIOUS
<1>6. Searchable /\ Unchanged /\ ~Late /\ (\A e \in irr \cup red : e \subseteq Lits /\ Good(e)) /\ (Holds' => Inv')
  BY ONLY Inv, <1>1, <1>4, <1>5, IdleProcedure
<1>7. c \subseteq Lits /\ Good(c) /\ l \in Lits /\ s \subseteq Lits /\ s \subseteq c
  BY <1>3, <1>6
<1>8. units \subseteq Lits /\ Formula \subseteq SUBSET Lits
  BY <1>6 DEF Searchable, Types, Formula
<1>9. Cardinality(Residual(c) \ {l}) >= 2
  <2>1. Cardinality(Residual(c)) >= 3 /\ Residual(c) \subseteq Lits
    BY <1>2, <1>7 DEF InstantiationCandidate, Residual
  <2>2. IsFiniteSet(Residual(c)) /\ Cardinality(Residual(c)) \in Nat
    BY <2>1, Singletons
  <2>3. CASE l \in Residual(c)
    <3>1. Cardinality(Residual(c) \ {l}) = Cardinality(Residual(c)) - 1
      BY <2>2, <2>3, FS_RemoveElement
    <3> QED BY <3>1, <2>1, <2>2
  <2>4. CASE l \notin Residual(c)
    <3>1. Residual(c) \ {l} = Residual(c)
      BY <2>4
    <3> QED BY <3>1, <2>1, <2>2
  <2> QED BY <2>3, <2>4
<1>10. Cardinality(s) >= 2 /\ OpenIn(s, units)
  <2>1. PICK t : t = Residual(c) \ {l}
    OBVIOUS
  <2>2. t = {x \in s : -x \notin units} /\ t \subseteq s /\ Cardinality(t) >= 2
    BY <2>1, <1>3, <1>9 DEF Residual
  <2>3. Cardinality(s) >= 2
    BY <2>2, <1>7, TwoInside
  <2> QED BY <2>2, <2>3 DEF OpenIn
<1>11. Good(s)
  BY <1>7, <1>10 DEF Good, Tautology
<1>12. ASSUME NEW a, Total(a), Satisfies(a, irr \cup red), units \subseteq a  PROVE s \cap a # {}
  <2>1. SUFFICES ASSUME s \cap a = {}  PROVE FALSE
    OBVIOUS
  <2>2. c \cap a # {}
    BY <1>12 DEF Satisfies
  <2>3. l \in a
    BY <2>1, <2>2, <1>3
  <2>4. Negated(s) \subseteq a
    <3>1. ASSUME NEW x \in s  PROVE -x \in a
      BY <2>1, <1>7, <1>12 DEF Total
    <3> QED BY <3>1 DEF Negated
  <2>5. PICK F, T : F = Formula /\ T = units \cup {l} \cup Negated(s)
    OBVIOUS
  <2>6. F \subseteq SUBSET Lits /\ Refuted(F, T) /\ Total(a) /\ Satisfies(a, F) /\ T \subseteq a
    BY <2>3, <2>4, <2>5, <1>2, <1>3, <1>8, <1>12 DEF InstantiationConflicts, Formula
  <2> QED BY ONLY <2>6, RefutedSound
<1>13. Holds'
  <2>1. /\ units' = units /\ status' = status /\ unsat' = unsat /\ red' = red
        /\ irr' = (irr \ {c}) \cup {s}
    BY <1>1, <1>2, <1>3
  <2>2. /\ irr' \subseteq SUBSET Lits /\ red' \subseteq SUBSET Lits
        /\ \A e \in irr' : e \in irr \/ (Good(e) /\ OpenIn(e, units))
        /\ \A e \in red' : e \in red \/ Good(e)
    BY <2>1, <1>6, <1>7, <1>10, <1>11
  <2>3. \A a : Total(a) /\ Satisfies(a, irr \cup red) /\ units \subseteq a =>
                Satisfies(a, irr' \cup red')
    BY <2>1, <1>12 DEF Satisfies
  <2>4. \A a : Total(a) /\ Satisfies(a, irr') /\ units \subseteq a => Satisfies(a, irr)
    <3>1. ASSUME NEW a, Satisfies(a, irr'), NEW e \in irr  PROVE e \cap a # {}
      <4>1. CASE e = c
        <5>1. s \cap a # {}
          BY <3>1, <2>1 DEF Satisfies
        <5> QED BY <4>1, <5>1, <1>7
      <4>2. CASE e # c
        BY <4>2, <3>1, <2>1 DEF Satisfies
      <4> QED BY <4>1, <4>2
    <3> QED BY <3>1 DEF Satisfies
  <2> QED BY ONLY <2>1, <2>2, <2>3, <2>4, <1>6, PlainStep
<1> QED BY <1>6, <1>13

\* Two clauses that agree but for the signs of one literal leave the rest.
LEMMA GateUnitInv ==
  ASSUME Inv, GateUnit
  PROVE  Inv'
<1>1. At("elim") /\ UNCHANGED <<red, extension, user, control>>
  BY DEF GateUnit
<1>0. PICK p \in Lits : \E x \in GateUnits(p) : Pivot(p) /\ BecomeEagerly(irr, {x})
  BY DEF GateUnit
<1>2. PICK x \in GateUnits(p) : Pivot(p) /\ BecomeEagerly(irr, {x})
  BY <1>0
<1>3. Running /\ plan # <<>> /\ Head(plan) = "elim" /\ work = Idle /\ Late
  BY <1>1, AtFacts
<1>4. plan' = plan /\ work' = work
  BY <1>1 DEF control
<1>5. Searchable /\ Unchanged
  BY <1>1, <1>3, <1>4, IdleFacts DEF Running, Searchable, Unchanged, user
<1>6. x \in Lits
  BY DEF GateUnits
<1>7. ASSUME NEW a, Total(a), Satisfies(a, irr), units \subseteq a  PROVE x \in a
  <2>1. ASSUME NEW c \in irr  PROVE Residual(c) \cap a # {}
    <3>1. c \cap a # {} /\ c \subseteq Lits
      BY <2>1, <1>3, <1>7 DEF Satisfies, Running
    <3> QED BY <3>1, <1>7, ResidualLits
  <2>2. PICK y, z \in Lits : \E c, d \in irr :
          /\ z = -y /\ Residual(c) = {y, x} /\ Residual(d) = {z, x}
    <3>1. CASE x = p /\ \E o \in Lits : \E c, d \in With(p) : Is(c, {p, o}) /\ Is(d, {p, -o})
      <4>1. PICK o \in Lits, c \in With(p), d \in With(p) : Is(c, {p, o}) /\ Is(d, {p, -o})
        BY <3>1
      <4>2. -o \in Lits /\ c \in irr /\ d \in irr /\ Residual(c) = {o, x} /\ Residual(d) = {-o, x}
        BY <4>1, <3>1, LitFacts DEF With, Occs, Is
      <4> QED BY <4>2
    <3>2. CASE \E c \in With(p), d \in With(-p) : Is(c, {p, x}) /\ Is(d, {-p, x})
      <4>1. PICK c \in With(p), d \in With(-p) : Is(c, {p, x}) /\ Is(d, {-p, x})
        BY <3>2
      <4>2. -p \in Lits /\ c \in irr /\ d \in irr /\ Residual(c) = {p, x} /\ Residual(d) = {-p, x}
        BY <4>1, LitFacts DEF With, Occs, Is
      <4> QED BY <4>2
    <3> QED BY <3>1, <3>2 DEF GateUnits
  <2>3. {y, x} \cap a # {} /\ {z, x} \cap a # {}
    BY <2>1, <2>2
  <2>4. ~(y \in a /\ z \in a)
    BY <2>2, <1>7 DEF Total
  <2> QED BY <2>3, <2>4
<1>8. PICK i, L : i = irr /\ L = {x}
  OBVIOUS
<1>9. /\ BecomeEagerly(i, L) /\ red' = red /\ Late' /\ i \subseteq SUBSET Lits /\ L \subseteq Lits
      /\ \A c \in i : Good(c)
  <2>1. Late'
    BY <1>3, <1>4 DEF Late
  <2> QED BY <2>1, <1>1, <1>2, <1>3, <1>6, <1>8 DEF Running
<1>10. /\ \A a : Total(a) /\ Satisfies(a, irr \cup red) /\ units \subseteq a =>
                    Satisfies(a, i) /\ L \subseteq a
       /\ \A a : Total(a) /\ Satisfies(a, i) /\ units \cup L \subseteq a => Satisfies(a, irr)
  BY <1>7, <1>8 DEF Satisfies
<1>11. Holds' /\ (~unsat' => \A c \in irr' : c \cap units' = {})
  BY ONLY <1>5, <1>9, <1>10, EagerStep
<1>12. ~unsat' => Planned'
  BY <1>3, <1>4, <1>11, SamePlan
<1>13. Working'
  BY <1>3, <1>4, IdleFacts DEF Working
<1> QED BY <1>11, <1>12, <1>13, Assembled

-----------------------------------------------------------------------------
(* Clauses that go to the extension stack.                                 *)

\* Flipping one literal: what is lost is its negation.
LEMMA FlipOne ==
  ASSUME NEW a, Total(a), NEW l \in Lits
  PROVE  /\ Total(Flip(a, {l})) /\ l \in Flip(a, {l})
         /\ \A x \in a : x = -l \/ x \in Flip(a, {l})
         /\ \A U : U \subseteq a /\ -l \notin U => U \subseteq Flip(a, {l})
<1>1. {l} \subseteq Lits /\ ~Inconsistent({l})
  BY LitFacts DEF Inconsistent
<1>2. Total(Flip(a, {l}))
  BY <1>1, FlipTotal
<1>3. \A x \in a : x = -l \/ x \in Flip(a, {l})
  BY DEF Flip, Negated
<1>4. l \in Flip(a, {l})
  BY DEF Flip
<1> QED BY <1>2, <1>3, <1>4

\* A place of a concatenation is one of either part.
LEMMA ConcatPlaces ==
  ASSUME NEW E, NEW s \in Seq(E), NEW t \in Seq(E), NEW j \in 1 .. Len(s \o t)
  PROVE  \/ j \in 1 .. Len(s) /\ (s \o t)[j] = s[j]
         \/ \E k \in 1 .. Len(t) : (s \o t)[j] = t[k]
OBVIOUS

\* A place after appending is an old one or the last.
LEMMA AppendPlaces ==
  ASSUME NEW E, NEW s \in Seq(E), NEW e \in E
  PROVE  /\ Append(s, e) \in Seq(E) /\ s \o <<e>> = Append(s, e) /\ <<e>> \in Seq(E)
         /\ Len(<<e>>) = 1 /\ <<e>>[1] = e
         /\ \A j \in 1 .. Len(Append(s, e)) :
              \/ j \in 1 .. Len(s) /\ Append(s, e)[j] = s[j]
              \/ Append(s, e)[j] = e
OBVIOUS

\* Stacks that leave frozen variables alone may be joined.
LEMMA HarmlessConcat ==
  ASSUME NEW s \in Seq(EntrySet), NEW t \in Seq(EntrySet), Harmless(s), Harmless(t)
  PROVE  Harmless(s \o t)
<1>1. ASSUME NEW j \in 1 .. Len(s \o t)
      PROVE  ~Inconsistent((s \o t)[j].witness) /\ \A l \in (s \o t)[j].witness : ~Frozen(l)
  <2>1. \/ j \in 1 .. Len(s) /\ (s \o t)[j] = s[j]
        \/ \E k \in 1 .. Len(t) : (s \o t)[j] = t[k]
    BY ConcatPlaces
  <2> QED BY <2>1 DEF Harmless
<1> QED BY <1>1 DEF Harmless

\* Clauses i stay, st is pushed, and status may lose a variable of the others.
Pushing(i, st) ==
  /\ irr' = i /\ i \subseteq irr /\ red' = red /\ units' = units /\ unsat' = unsat
  /\ observed' = observed /\ given' = given
  /\ work'.kind # "substitute"
  /\ Late => Late'
  /\ st \in Seq(EntrySet) /\ Harmless(st) /\ extension' = extension \o st
  /\ \A j \in 1 .. Len(st) : \E c \in irr : c \subseteq st[j].clause
  /\ \/ status' = status
     \/ \E p \in Lits, x \in {"eliminated", "pure"} :
          /\ status' = [status EXCEPT ![VarOf(p)] = x] /\ Late'
          /\ \A c \in i : p \notin c /\ -p \notin c
  /\ Reconstructs(Mod(i, units), extension', given)

\* A step that removes clauses and pushes entries from which they are reconstructed
\* keeps what the invariant says of clauses and stack.
LEMMA PushingStep ==
  ASSUME Running, NEW i, NEW st, Pushing(i, st)
  PROVE  Holds'
<1>1. /\ irr' = i /\ i \subseteq irr /\ red' = red /\ units' = units /\ unsat' = unsat
      /\ observed' = observed /\ given' = given
      /\ work'.kind # "substitute"
      /\ Late => Late'
      /\ st \in Seq(EntrySet) /\ Harmless(st) /\ extension' = extension \o st
      /\ \A j \in 1 .. Len(st) : \E c \in irr : c \subseteq st[j].clause
      /\ Reconstructs(Mod(irr', units), extension', given)
  BY DEF Pushing
<1>2. Searchable
  BY <1>1 DEF Searchable, Running
<1>3. /\ status \in [Vars -> {"active", "fixed", "eliminated", "pure", "substituted", "unused", "unmapped"}]
      /\ extension \in Seq(EntrySet)
  BY DEF Running, Types
<1>4. PICK S : S = {"active", "fixed", "eliminated", "pure", "substituted", "unused", "unmapped"}
  OBVIOUS
<1>5. status \in [Vars -> S] /\ "eliminated" \in S /\ "pure" \in S
  BY <1>3, <1>4
<1>6. /\ status' \in [Vars -> S]
      /\ \A l \in Lits : \/ status'[VarOf(l)] = status[VarOf(l)]
                         \/ /\ Late' /\ status'[VarOf(l)] \in {"eliminated", "pure"}
                            /\ \A c \in i : l \notin c
  <2>1. CASE status' = status
    BY <2>1, <1>5
  <2>2. CASE \E p \in Lits, x \in {"eliminated", "pure"} :
               /\ status' = [status EXCEPT ![VarOf(p)] = x] /\ Late'
               /\ \A c \in i : p \notin c /\ -p \notin c
    <3>1. PICK p \in Lits, x \in {"eliminated", "pure"} :
               /\ status' = [status EXCEPT ![VarOf(p)] = x] /\ Late'
               /\ \A c \in i : p \notin c /\ -p \notin c
      BY <2>2
    <3>2. PICK v \in Vars : v = VarOf(p)
      BY LitFacts
    <3>3. status' = [status EXCEPT ![v] = x]
      BY <3>1, <3>2
    <3>4. status' \in [Vars -> S] /\ \A w \in Vars : status'[w] = IF w = v THEN x ELSE status[w]
      BY <3>3, <1>5
    <3>5. ASSUME NEW l \in Lits, status'[VarOf(l)] # status[VarOf(l)]
          PROVE  /\ Late' /\ status'[VarOf(l)] \in {"eliminated", "pure"}
                 /\ \A c \in i : l \notin c
      <4>1. VarOf(l) \in Vars
        BY LitFacts
      <4>2. VarOf(l) = VarOf(p) /\ status'[VarOf(l)] = x
        BY <4>1, <3>2, <3>4, <3>5
      <4>3. l = p \/ l = -p
        BY <4>2, SameVar
      <4> QED BY <4>2, <4>3, <3>1
    <3> QED BY <3>4, <3>5
  <2> QED BY <2>1, <2>2 DEF Pushing
<1>7. \A l \in Lits : Active(l)' => Active(l)
  BY <1>6 DEF Active
<1>8. ASSUME NEW c \in irr'  PROVE Good(c)' /\ OpenIn(c, units)
  <2>1. c \in irr /\ c \in i /\ c \subseteq Lits /\ Good(c) /\ OpenIn(c, units)
    BY <1>1 DEF Running
  <2>2. \A l \in c : Present(l)'
    BY <2>1, <1>6 DEF Good, Present
  <2> QED BY <2>1, <2>2 DEF Good
<1>9. ASSUME NEW c \in red'
      PROVE  /\ ~Tautology(c) /\ Cardinality(c) >= 2
             /\ \A l \in c : \/ Present(l)'
                             \/ Late' /\ status'[VarOf(l)] \in {"eliminated", "pure"}
  <2>1. c \in red /\ c \subseteq Lits
    BY <1>1 DEF Running
  <2>2. /\ ~Tautology(c) /\ Cardinality(c) >= 2
        /\ \A l \in c : \/ Present(l)
                        \/ Late /\ status[VarOf(l)] \in {"eliminated", "pure"}
    BY <2>1 DEF Running, Base
  <2>3. ASSUME NEW l \in c
        PROVE  Present(l)' \/ (Late' /\ status'[VarOf(l)] \in {"eliminated", "pure"})
    <3>1. l \in Lits /\ (Present(l) \/ (Late /\ status[VarOf(l)] \in {"eliminated", "pure"}))
      BY <2>1, <2>2
    <3> QED BY <3>1, <1>1, <1>6 DEF Present
  <2> QED BY <2>2, <2>3
<1>10. extension' \in Seq(EntrySet)
  BY <1>1, <1>3
<1>11. Harmless(extension)'
  <2>1. Harmless(extension)
    BY DEF Running, Meaning
  <2>2. Harmless(extension \o st)
    BY <2>1, <1>1, <1>3, HarmlessConcat
  <2> QED BY <2>2, <1>1 DEF Harmless, Frozen
<1>12. ASSUME NEW a, Satisfies(a, irr \cup red), \A j \in 1 .. Len(extension) : extension[j].clause \cap a # {}
       PROVE  /\ Satisfies(a, irr' \cup red')
              /\ \A j \in 1 .. Len(extension') : extension'[j].clause \cap a # {}
  <2>1. Satisfies(a, irr' \cup red')
    BY <1>1, <1>12 DEF Satisfies
  <2>2. ASSUME NEW j \in 1 .. Len(extension')  PROVE extension'[j].clause \cap a # {}
    <3>1. \/ j \in 1 .. Len(extension) /\ extension'[j] = extension[j]
          \/ \E k \in 1 .. Len(st) : extension'[j] = st[k]
      BY <1>1, <1>3, ConcatPlaces
    <3>2. CASE \E k \in 1 .. Len(st) : extension'[j] = st[k]
      <4>1. PICK c \in irr : c \subseteq extension'[j].clause
        BY <3>2, <1>1
      <4>2. c \cap a # {}
        BY <1>12 DEF Satisfies
      <4> QED BY <4>1, <4>2
    <3> QED BY <3>1, <3>2, <1>12
  <2> QED BY <2>1, <2>2
<1>13. irr' \subseteq SUBSET Lits /\ red' \subseteq SUBSET Lits
  BY <1>1 DEF Running
<1> QED BY <1>1, <1>2, <1>4, <1>6, <1>7, <1>8, <1>9, <1>10, <1>11, <1>12, <1>13, GeneralStep

Listing(es, C, l) ==
  /\ es \in Seq(EntrySet)
  /\ \A k \in 1 .. Len(es) : es[k].witness = {l} /\ es[k].clause \in C
  /\ \A c \in C : \E k \in 1 .. Len(es) : es[k].clause = c

\* The entries for a set of clauses: one for each, in some order.
LEMMA EntriesFacts ==
  ASSUME NEW C, C \subseteq SUBSET Lits, NEW l, l \in Lits
  PROVE  Listing(Entries(C, l), C, l)
<1> DEFINE n == Cardinality(C)
           E == {Entry({l}, c) : c \in C}
<1>1. IsFiniteSet(C)
  <2>1. IsFiniteSet(SUBSET Lits)
    BY FiniteLits, FS_SUBSET
  <2> QED BY <2>1, FS_Subset
<1>2. n \in Nat /\ Bijection(1 .. n, C) # {}
  BY <1>1, FS_CardinalityType DEF ExistsBijection
<1>3. PICK f \in [1 .. n -> C] : \A c \in C : \E k \in 1 .. n : f[k] = c
  BY <1>2 DEF Bijection, Surjection
<1> DEFINE g == [k \in 1 .. n |-> Entry({l}, f[k])]
<1>4. g \in [1 .. n -> E] /\ \A c \in C : \E k \in DOMAIN g : g[k] = Entry({l}, c)
  BY <1>3
<1>5. PICK es : es = Entries(C, l)
  OBVIOUS
<1>6. es \in [1 .. n -> E] /\ \A c \in C : \E k \in DOMAIN es : es[k] = Entry({l}, c)
  BY <1>4, <1>5 DEF Entries
<1>7. \A e \in E : e \in EntrySet /\ e.witness = {l} /\ e.clause \in C
  BY DEF Entry, EntrySet
<1> HIDE DEF n, E, g
<1>8. es \in Seq(EntrySet) /\ Len(es) = n /\ DOMAIN es = 1 .. n
  <2>1. es \in [1 .. n -> EntrySet] /\ n \in Nat
    BY <1>2, <1>6, <1>7
  <2> QED BY ONLY <2>1
<1>9. \A k \in 1 .. Len(es) : es[k].witness = {l} /\ es[k].clause \in C
  BY <1>6, <1>7, <1>8
<1>10. \A c \in C : \E k \in 1 .. Len(es) : es[k].clause = c
  <2>1. ASSUME NEW c \in C  PROVE \E k \in 1 .. Len(es) : es[k].clause = c
    <3>1. PICK k \in DOMAIN es : es[k] = Entry({l}, c)
      BY <1>6
    <3>2. Entry({l}, c).clause = c
      BY DEF Entry
    <3> QED BY <3>1, <3>2, <1>8
  <2> QED BY <2>1
<1> QED BY <1>5, <1>8, <1>9, <1>10 DEF Listing

-----------------------------------------------------------------------------
(* Blocked clauses and pure literals.                                      *)

\* A clause that is blocked on a literal goes: making the literal true falsifies no
\* other clause, as each with its negation has another true literal then.
LEMMA BlockClauseInv ==
  ASSUME Inv, BlockClause
  PROVE  Inv'
<1>1. At("block") /\ UNCHANGED <<red, units, unsat, status, user, control>>
  BY DEF BlockClause
<1>0. PICK c \in irr : \E l \in c :
        /\ Eliminable(l) /\ (BlockOnOne(c, l) \/ BlockOnMore(c, l))
        /\ irr' = irr \ {c} /\ extension' = Append(extension, Entry({l}, c))
  BY DEF BlockClause
<1>2. PICK l \in c :
        /\ Eliminable(l) /\ (BlockOnOne(c, l) \/ BlockOnMore(c, l))
        /\ irr' = irr \ {c} /\ extension' = Append(extension, Entry({l}, c))
  BY <1>0
<1>3. Blocked(c, l)
  BY <1>2 DEF BlockOnOne, BlockOnMore, Blocked
<1>4. /\ Running /\ plan # <<>> /\ Head(plan) = "block" /\ work = Idle /\ Late
      /\ plan' = plan /\ work' = work
  BY <1>1, AtFacts DEF control
<1>5. c \subseteq Lits /\ l \in Lits /\ extension \in Seq(EntrySet)
  BY <1>4 DEF Running, Types
<1>6. l \notin units /\ -l \notin units /\ ~Frozen(l)
  <2>1. Active(l) /\ ~Frozen(l) /\ VarOf(-l) = VarOf(l) /\ -l \in Lits
    BY <1>2, <1>5, LitFacts DEF Eliminable, VarOf, Active, Frozen
  <2> QED BY <2>1, <1>5, <1>4 DEF Running, Base, Active
<1>7. PICK e, i, A, B : e = Entry({l}, c) /\ i = irr \ {c} /\ A = Mod(i, units) /\ B = Mod(irr, units)
  OBVIOUS
<1>8. e \in EntrySet /\ e.witness = {l} /\ e.clause = c
  BY <1>5, <1>7 DEF Entry, EntrySet
<1>9. ASSUME NEW a \in A  PROVE Mended(e, a) \in B
  <2>1. Total(a) /\ a \in SUBSET Lits /\ Satisfies(a, i) /\ units \subseteq a
    BY <1>7 DEF Mod
  <2>2. CASE c \cap a # {}
    <3>1. Satisfies(a, irr)
      BY <2>1, <2>2, <1>7 DEF Satisfies
    <3> QED BY <2>1, <2>2, <3>1, <1>7, <1>8 DEF Mod, Mended
  <2>3. CASE c \cap a = {}
    <3>1. PICK b : b = Flip(a, {l})
      OBVIOUS
    <3>2. Total(b) /\ l \in b /\ (\A x \in a : x = -l \/ x \in b) /\ units \subseteq b
      BY <2>1, <3>1, <1>5, <1>6, FlipOne
    <3>3. ASSUME NEW d \in irr  PROVE d \cap b # {}
      <4>1. CASE d = c
        BY <4>1, <3>2
      <4>2. CASE d # c /\ -l \notin d
        BY <4>2, <3>2, <2>1, <1>7 DEF Satisfies
      <4>3. CASE -l \in d
        <5>1. PICK o \in c \ {l} : -o \in d
          BY <4>3, <1>3 DEF Blocked, Occs
        <5>2. o \in Lits /\ o # l /\ o \notin a
          BY <1>5, <2>3
        <5>3. -o \in a /\ -(-o) = o /\ -(-l) = l
          BY <5>2, <2>1, <1>5, LitFacts DEF Total
        <5>4. -o # -l
          BY <5>2, <5>3
        <5> QED BY <5>1, <5>3, <5>4, <3>2
      <4> QED BY <4>1, <4>2, <4>3
    <3>4. Satisfies(b, irr) /\ b \in SUBSET Lits
      BY <3>2, <3>3 DEF Satisfies, Total
    <3> QED BY <2>3, <3>1, <3>2, <3>4, <1>7, <1>8 DEF Mod, Mended
  <2> QED BY <2>2, <2>3
<1>10. Reconstructs(A, Append(extension, e), given)
  <2>1. Reconstructs(B, extension, given)
    BY <1>4, <1>7 DEF Running, Meaning
  <2> QED BY ONLY <2>1, <1>5, <1>8, <1>9, Push
<1>11. PICK st : st = <<e>>
  OBVIOUS
<1>12. st \in Seq(EntrySet) /\ Append(extension, e) = extension \o st /\ Len(st) = 1 /\ st[1] = e
  BY <1>5, <1>8, <1>11, AppendPlaces
<1>13. Harmless(st)
  <2>1. ~Inconsistent({l})
    BY <1>5, LitFacts DEF Inconsistent
  <2>2. \A j \in 1 .. Len(st) : st[j].witness = {l}
    BY <1>8, <1>12
  <2> QED BY ONLY <2>1, <2>2, <1>6 DEF Harmless
<1>14. Pushing(i, st)
  <2>1. /\ irr' = i /\ i \subseteq irr /\ red' = red /\ units' = units /\ unsat' = unsat
        /\ observed' = observed /\ given' = given /\ status' = status
        /\ work'.kind # "substitute" /\ (Late => Late') /\ extension' = extension \o st
    BY <1>1, <1>2, <1>4, <1>7, <1>12, IdleFacts DEF user, Late
  <2>2. \A j \in 1 .. Len(st) : \E d \in irr : d \subseteq st[j].clause
    BY <1>8, <1>12
  <2>3. Reconstructs(Mod(i, units), extension', given)
    BY <2>1, <1>7, <1>10, <1>12
  <2> QED BY <2>1, <2>2, <2>3, <1>12, <1>13 DEF Pushing
<1>15. Holds'
  BY <1>4, <1>14, PushingStep
<1>16. Planned' /\ Working'
  BY <1>4, SamePlan, IdleFacts DEF Working
<1> QED BY <1>15, <1>16, Assembled

\* All clauses of a pure literal go.
LEMMA BlockPureLiteralInv ==
  ASSUME Inv, BlockPureLiteral
  PROVE  Inv'
<1>1. At("block") /\ UNCHANGED <<red, units, unsat, user, control>>
  BY DEF BlockPureLiteral
<1>2. PICK l \in Lits :
        /\ Eliminable(l) /\ Occs(-l) = {} /\ irr' = irr \ Occs(l)
        /\ extension' = extension \o Entries(Occs(l), l)
        /\ status' = [status EXCEPT ![VarOf(l)] = "pure"]
  BY DEF BlockPureLiteral
<1>3. /\ Running /\ plan # <<>> /\ Head(plan) = "block" /\ work = Idle /\ Late
      /\ plan' = plan /\ work' = work
  BY <1>1, AtFacts DEF control
<1>4. extension \in Seq(EntrySet) /\ Occs(l) \subseteq SUBSET Lits
  BY <1>3 DEF Running, Types, Occs
<1>5. l \notin units /\ -l \notin units /\ ~Frozen(l)
  <2>1. Active(l) /\ ~Frozen(l) /\ VarOf(-l) = VarOf(l) /\ -l \in Lits
    BY <1>2, LitFacts DEF Eliminable, VarOf, Active, Frozen
  <2> QED BY <2>1, <1>3 DEF Running, Base, Active
<1>6. PICK st, i, A, B : st = Entries(Occs(l), l) /\ i = irr \ Occs(l) /\ A = Mod(i, units) /\ B = Mod(irr, units)
  OBVIOUS
<1>7. /\ st \in Seq(EntrySet)
      /\ \A k \in 1 .. Len(st) : st[k].witness = {l} /\ st[k].clause \in Occs(l)
      /\ \A c \in Occs(l) : \E k \in 1 .. Len(st) : st[k].clause = c
  <2>1. Listing(Entries(Occs(l), l), Occs(l), l)
    BY <1>4, EntriesFacts
  <2> QED BY <2>1, <1>6 DEF Listing
<1>8. \A k \in 1 .. Len(st) : st[k].clause \in irr /\ l \in st[k].clause
  BY <1>7 DEF Occs
<1>9. A \subseteq SUBSET Lits /\ \A a \in A : Total(a) /\ Satisfies(a, i) /\ units \subseteq a
  BY <1>6 DEF Mod
<1>10. \A c \in irr : (c \in i \/ c \in Occs(l)) /\ -l \notin c
  BY <1>2, <1>6 DEF Occs
<1>11. ASSUME NEW a \in A, \A k \in 1 .. Len(st) : st[k].clause \cap a # {}  PROVE a \in B
  <2>1. Satisfies(a, irr)
    BY <1>7, <1>9, <1>10, <1>11 DEF Satisfies
  <2> QED BY <2>1, <1>6, <1>9 DEF Mod
<1>12. ASSUME NEW a \in A  PROVE Flip(a, {l}) \in B
  <2>1. PICK b : b = Flip(a, {l})
    OBVIOUS
  <2>2. Total(b) /\ l \in b /\ (\A x \in a : x = -l \/ x \in b) /\ units \subseteq b
    BY <2>1, <1>5, <1>9, FlipOne
  <2>3. ASSUME NEW c \in irr  PROVE c \cap b # {}
    <3>1. CASE c \in i
      BY <3>1, <2>2, <1>9, <1>10 DEF Satisfies
    <3>2. CASE c \in Occs(l)
      BY <3>2, <2>2 DEF Occs
    <3> QED BY <3>1, <3>2, <1>10
  <2> QED BY <2>1, <2>2, <2>3, <1>6 DEF Mod, Satisfies, Total
<1>13. Reconstructs(A, extension \o st, given)
  <2>1. Reconstructs(B, extension, given)
    BY <1>3, <1>6 DEF Running, Meaning
  <2>2. l \in Lits /\ \A k \in 1 .. Len(st) : st[k].witness = {l} /\ l \in st[k].clause
    BY <1>7, <1>8
  <2> QED BY ONLY <2>1, <2>2, <1>4, <1>7, <1>9, <1>11, <1>12, PushSame
<1>14. Harmless(st)
  <2>1. ~Inconsistent({l})
    BY LitFacts DEF Inconsistent
  <2> QED BY <2>1, <1>5, <1>7 DEF Harmless
<1>15. Pushing(i, st)
  <2>1. /\ irr' = i /\ i \subseteq irr /\ red' = red /\ units' = units /\ unsat' = unsat
        /\ observed' = observed /\ given' = given
        /\ work'.kind # "substitute" /\ Late' /\ extension' = extension \o st
    BY <1>1, <1>2, <1>3, <1>6, IdleFacts DEF user, Late
  <2>2. \A j \in 1 .. Len(st) : \E d \in irr : d \subseteq st[j].clause
    BY <1>8
  <2>3. Reconstructs(Mod(i, units), extension', given)
    BY <2>1, <1>6, <1>13
  <2>4. \A c \in i : l \notin c /\ -l \notin c
    BY <1>6, <1>10 DEF Occs
  <2> QED BY <2>1, <2>2, <2>3, <2>4, <1>2, <1>7, <1>14 DEF Pushing
<1>16. Holds'
  BY <1>3, <1>15, PushingStep
<1>17. Planned' /\ Working'
  BY <1>3, SamePlan, IdleFacts DEF Working
<1> QED BY <1>16, <1>17, Assembled

-----------------------------------------------------------------------------
(* Covered clauses.                                                        *)

\* A step that changes only what is in progress.
LEMMA WorkStep ==
  ASSUME Running, UNCHANGED <<database, extension, user, plan>>, work'.kind # "substitute", Working'
  PROVE  Inv'
<1>1. UNCHANGED <<irr, red, units, unsat, status, extension, observed, given, plan>>
  BY DEF database, user
<1>2. Searchable /\ Unchanged
  BY <1>1 DEF Running, Searchable, Unchanged
<1>3. Holds'
  <2>1. Late => Late'
    BY <1>1 DEF Late
  <2>2. irr' \subseteq SUBSET Lits /\ red' \subseteq SUBSET Lits
    BY <1>1 DEF Running
  <2>3. /\ \A a : Total(a) /\ Satisfies(a, irr \cup red) /\ units \subseteq a =>
                    Satisfies(a, irr' \cup red')
        /\ \A a : Total(a) /\ Satisfies(a, irr') /\ units \subseteq a => Satisfies(a, irr)
    BY <1>1
  <2> QED BY <1>1, <1>2, <2>1, <2>2, <2>3, PlainStep
<1>4. Planned'
  BY <1>1, SamePlan DEF Running
<1> QED BY <1>3, <1>4, Assembled

CoverOK(c, F, K, st) ==
  /\ c \in irr /\ F \subseteq Lits /\ K \subseteq Lits
  /\ st \in Seq(EntrySet) /\ Harmless(st) /\ \A j \in 1 .. Len(st) : c \subseteq st[j].clause
  /\ \A l \in K : l \notin units /\ -l \notin units
  /\ \A a \in Mod(irr \ {c}, units) : (c \cup K) \cap a = {} => F \cap a = {}
  /\ Reconstructs({a \in Mod(irr \ {c}, units) : (c \cup K) \cap a # {}}, extension \o st, given)

\* What holds while a clause is covered.
LEMMA CoverFacts ==
  ASSUME Inv, Doing("cover")
  PROVE  /\ Running /\ plan # <<>> /\ Head(plan) = "cover" /\ work.kind = "cover" /\ ~Late
         /\ work = [kind |-> "cover", clause |-> work.clause, false |-> work.false,
                    covered |-> work.covered, stack |-> work.stack]
         /\ CoverOK(work.clause, work.false, work.covered, work.stack)
<1>1. "cover" \in {"resolve", "backward", "cover", "condition"}
  OBVIOUS
<1>2. Running /\ work.kind = "cover" /\ Covering
  BY <1>1, KindFacts
<1> QED BY <1>2 DEF Covering, CoverOK, Late

\* A covering step that keeps the parts of Covering keeps the invariant.
LEMMA CoverStep ==
  ASSUME Running, plan # <<>>, Head(plan) = "cover", UNCHANGED <<database, extension, user, plan>>,
         NEW c, NEW F, NEW K, NEW st, CoverOK(c, F, K, st),
         work' = [kind |-> "cover", clause |-> c, false |-> F, covered |-> K, stack |-> st]
  PROVE  Inv'
<1>1. UNCHANGED <<irr, units, extension, observed, given, plan>>
  BY DEF database, user
<1>2. /\ work'.kind = "cover" /\ work'.clause = c /\ work'.false = F /\ work'.covered = K /\ work'.stack = st
      /\ work' = [kind |-> "cover", clause |-> work'.clause, false |-> work'.false,
                  covered |-> work'.covered, stack |-> work'.stack]
  OBVIOUS
<1>3. Harmless(st)'
  BY <1>1 DEF CoverOK, Harmless, Frozen
<1>4. Harmless(work.stack)'
  BY <1>2, <1>3 DEF Harmless, Frozen
<1>5. Covering'
  BY <1>1, <1>2, <1>4 DEF CoverOK, Covering
<1> QED BY <1>2, <1>5, WorkStep DEF Working

\* Covering starts with the clause itself.
LEMMA CoverInv ==
  ASSUME Inv, Cover
  PROVE  Inv'
<1>1. At("cover") /\ UNCHANGED <<database, extension, user, plan>>
  BY DEF Cover
<1>2. PICK c \in irr :
        /\ ~True(c)
        /\ work' = [kind |-> "cover", clause |-> c, false |-> Residual(c),
                    covered |-> Residual(c), stack |-> <<>>]
  BY DEF Cover
<1>3. Running /\ plan # <<>> /\ Head(plan) = "cover"
  BY <1>1, AtFacts
<1>4. PICK F, st : F = Residual(c) /\ st = <<>>
  OBVIOUS
<1>5. c \subseteq Lits /\ F \subseteq c /\ extension \in Seq(EntrySet) /\ st \in Seq(EntrySet)
      /\ extension \o st = extension /\ Len(st) = 0
  BY <1>3, <1>4 DEF Running, Types, Residual
<1>6. \A l \in F : l \notin units /\ -l \notin units
  BY <1>2, <1>4 DEF True, Residual
<1>7. Harmless(st)
  BY <1>5 DEF Harmless
<1>8. PICK A, B : A = {a \in Mod(irr \ {c}, units) : (c \cup F) \cap a # {}} /\ B = Mod(irr, units)
  OBVIOUS
<1>9. A \subseteq B
  BY <1>5, <1>8 DEF Mod, Satisfies
<1>10. Reconstructs(B, extension, given)
  BY <1>3, <1>8 DEF Running, Meaning
<1>11. Reconstructs(A, extension \o st, given)
  BY <1>5, <1>9, <1>10, ReconstructsLess
<1>12. CoverOK(c, F, F, st)
  BY <1>5, <1>6, <1>7, <1>8, <1>11 DEF CoverOK
<1>13. work' = [kind |-> "cover", clause |-> c, false |-> F, covered |-> F, stack |-> st]
  BY <1>2, <1>4
<1> QED BY ONLY <1>1, <1>3, <1>12, <1>13, CoverStep

\* What the extended clause forces once it is false.
LEMMA CoverForcedFacts ==
  ASSUME Running, NEW c, NEW F, NEW K, NEW st, CoverOK(c, F, K, st),
         NEW a \in Mod(irr \ {c}, units), (c \cup K) \cap a = {}
  PROVE  /\ F \cap a = {}
         /\ Forced(irr \ {c}, units \cup Negated(F)) \subseteq a
<1>1. F \cap a = {} /\ Total(a) /\ Satisfies(a, irr \ {c}) /\ units \subseteq a /\ F \subseteq Lits
  BY DEF CoverOK, Mod
<1>2. Negated(F) \subseteq a
  BY <1>1 DEF Negated, Total
<1>3. PICK G, T : G = irr \ {c} /\ T = units \cup Negated(F)
  OBVIOUS
<1>4. G \subseteq SUBSET Lits /\ Satisfies(a, G) /\ T \subseteq a
  BY <1>1, <1>2, <1>3 DEF Running
<1>5. Forced(G, T) \subseteq a
  BY ONLY <1>1, <1>4, ModelClosed
<1> QED BY <1>1, <1>3, <1>5

\* Changing fields of the record leaves one of the same form.
LEMMA CoverFields ==
  ASSUME NEW w, NEW c, NEW F, NEW K, NEW st,
         w = [kind |-> "cover", clause |-> c, false |-> F, covered |-> K, stack |-> st],
         NEW v, NEW F2, NEW K2, NEW st2
  PROVE  /\ v = [w EXCEPT !.false = F2] =>
              v = [kind |-> "cover", clause |-> c, false |-> F2, covered |-> K, stack |-> st]
         /\ v = [w EXCEPT !.false = F2, !.covered = K2, !.stack = st2] =>
              v = [kind |-> "cover", clause |-> c, false |-> F2, covered |-> K2, stack |-> st2]
OBVIOUS

\* An asymmetric literal: where the extended clause is false its negation is forced.
LEMMA CoverAsymmetricInv ==
  ASSUME Inv, CoverAsymmetric
  PROVE  Inv'
<1>1. Doing("cover") /\ UNCHANGED <<database, extension, user, plan>>
  BY DEF CoverAsymmetric
<1>2. PICK l \in CoverForced : work' = [work EXCEPT !.false = @ \cup {-l}]
  BY DEF CoverAsymmetric
<1>3. /\ Running /\ plan # <<>> /\ Head(plan) = "cover"
      /\ work = [kind |-> "cover", clause |-> work.clause, false |-> work.false,
                 covered |-> work.covered, stack |-> work.stack]
      /\ CoverOK(work.clause, work.false, work.covered, work.stack)
  BY <1>1, CoverFacts
<1>4. PICK c, F, K, st, w : c = work.clause /\ F = work.false /\ K = work.covered /\ st = work.stack /\ w = work
  OBVIOUS
<1>5. CoverOK(c, F, K, st) /\ w = [kind |-> "cover", clause |-> c, false |-> F, covered |-> K, stack |-> st]
  BY <1>3, <1>4
<1>6. PICK F2 : F2 = F \cup {-l}
  OBVIOUS
<1>7. l \in Forced(irr \ {c}, units \cup Negated(F))
  BY <1>4 DEF CoverForced
<1>8. l \in Lits /\ -l \in Lits
  <2>1. irr \ {c} \subseteq SUBSET Lits
    BY <1>3 DEF Running
  <2> QED BY <2>1, <1>7, ForcedLits, LitFacts
<1>9. ASSUME NEW a \in Mod(irr \ {c}, units), (c \cup K) \cap a = {}  PROVE F2 \cap a = {}
  <2>1. F \cap a = {} /\ Forced(irr \ {c}, units \cup Negated(F)) \subseteq a
    BY ONLY <1>3, <1>5, <1>9, CoverForcedFacts
  <2>2. -l \notin a
    BY <2>1, <1>7, <1>8 DEF Mod, Total
  <2> QED BY <2>1, <2>2, <1>6
<1>10. CoverOK(c, F2, K, st)
  BY <1>5, <1>6, <1>8, <1>9 DEF CoverOK
<1>11. PICK v : v = work'
  OBVIOUS
<1>12. v = [w EXCEPT !.false = F2]
  BY <1>2, <1>4, <1>6, <1>11
<1>13. v = [kind |-> "cover", clause |-> c, false |-> F2, covered |-> K, stack |-> st]
  BY ONLY <1>5, <1>12, CoverFields
<1>14. work' = [kind |-> "cover", clause |-> c, false |-> F2, covered |-> K, stack |-> st]
  BY ONLY <1>11, <1>13
<1> QED BY ONLY <1>1, <1>3, <1>10, <1>14, CoverStep

Answered(l, F, I) ==
  \A d \in Occs(-l) : True(d) \/ (\E o \in d \ {-l} : -o \in F) \/ (I # {} /\ I \subseteq d \ {-l})
Fits(A, c, K, I) ==
  \A a \in A : a \in Mod(irr \ {c}, units) /\ (I = {} \/ (c \cup K \cup I) \cap a # {})

\* One more literal l is covered: the clauses with its negation are true, are
\* true under the extended clause, or have all of I.
LEMMA CoverPush ==
  ASSUME Running, NEW c, NEW F, NEW K, NEW st, CoverOK(c, F, K, st),
         NEW l \in K, NEW I,
         Answered(l, F, I),
         NEW e, e = Entry({l}, c \cup K), NEW st2, st2 = Append(st, e),
         NEW A, Fits(A, c, K, I)
  PROVE  Reconstructs(A, extension \o st2, given)
<1>1. /\ c \in irr /\ c \subseteq Lits /\ K \subseteq Lits /\ l \in Lits /\ extension \in Seq(EntrySet)
      /\ st \in Seq(EntrySet) /\ F \subseteq Lits /\ l \notin units /\ -l \notin units
  BY DEF CoverOK, Running, Types
<1>2. e \in EntrySet /\ e.witness = {l} /\ e.clause = c \cup K
  BY <1>1 DEF Entry, EntrySet
<1>3. PICK B : B = {a \in Mod(irr \ {c}, units) : (c \cup K) \cap a # {}}
  OBVIOUS
<1>4. ASSUME NEW a \in A  PROVE Mended(e, a) \in B
  <2>1. a \in Mod(irr \ {c}, units) /\ Total(a) /\ Satisfies(a, irr \ {c}) /\ units \subseteq a
    BY DEF Mod, Fits
  <2>2. CASE (c \cup K) \cap a # {}
    BY <2>1, <2>2, <1>2, <1>3 DEF Mended
  <2>3. CASE (c \cup K) \cap a = {}
    <3>1. PICK b : b = Flip(a, {l})
      OBVIOUS
    <3>2. Total(b) /\ l \in b /\ (\A x \in a : x = -l \/ x \in b) /\ units \subseteq b
      BY <2>1, <3>1, <1>1, FlipOne
    <3>3. F \cap a = {}
      BY <2>1, <2>3 DEF CoverOK
    <3>4. ASSUME NEW d \in irr \ {c}  PROVE d \cap b # {}
      <4>1. CASE -l \notin d
        BY <4>1, <3>2, <2>1 DEF Satisfies
      <4>2. CASE -l \in d
        <5>1. d \in Occs(-l) /\ d \subseteq Lits
          BY <4>2 DEF Occs, Running
        <5>2. CASE True(d)
          BY <5>2, <3>2 DEF True
        <5>3. CASE \E o \in d \ {-l} : -o \in F
          <6>1. PICK o \in d \ {-l} : -o \in F
            BY <5>3
          <6>2. o \in Lits /\ -o \notin a
            BY <6>1, <5>1, <3>3
          <6>3. o \in a
            BY <6>2, <2>1 DEF Total
          <6> QED BY <6>1, <6>3, <3>2
        <5>4. CASE I # {} /\ I \subseteq d \ {-l}
          <6>1. I \cap a # {}
            BY <5>4, <2>3 DEF Fits
          <6> QED BY <6>1, <5>4, <3>2
        <5> QED BY <5>1, <5>2, <5>3, <5>4 DEF Answered
      <4> QED BY <4>1, <4>2
    <3>5. b \in Mod(irr \ {c}, units)
      BY <3>2, <3>4 DEF Mod, Satisfies, Total
    <3> QED BY <2>3, <3>1, <3>2, <3>5, <1>2, <1>3 DEF Mended
  <2> QED BY <2>2, <2>3
<1>5. extension \o st \in Seq(EntrySet)
  BY <1>1
<1>6. Reconstructs(B, extension \o st, given)
  BY <1>3 DEF CoverOK
<1>7. Reconstructs(A, Append(extension \o st, e), given)
  BY ONLY <1>2, <1>4, <1>5, <1>6, Push
<1>8. extension \o st2 = Append(extension \o st, e)
  BY <1>1, <1>2, ConcatAppend
<1> QED BY <1>7, <1>8

\* An entry for the clause extended so far is harmless and contains the clause.
LEMMA CoverEntryFacts ==
  ASSUME Running, NEW c, NEW F, NEW K, NEW st, CoverOK(c, F, K, st),
         NEW l \in K, ~Frozen(l), NEW e, e = Entry({l}, c \cup K)
  PROVE  /\ Append(st, e) \in Seq(EntrySet) /\ Harmless(Append(st, e))
         /\ \A j \in 1 .. Len(Append(st, e)) : c \subseteq Append(st, e)[j].clause
<1>1. c \subseteq Lits /\ K \subseteq Lits /\ l \in Lits /\ st \in Seq(EntrySet)
  BY DEF CoverOK, Running
<1>2. e \in EntrySet /\ e.witness = {l} /\ e.clause = c \cup K
  BY <1>1 DEF Entry, EntrySet
<1>3. PICK t : t = Append(st, e)
  OBVIOUS
<1>4. t \in Seq(EntrySet) /\ \A j \in 1 .. Len(t) : (j \in 1 .. Len(st) /\ t[j] = st[j]) \/ t[j] = e
  BY <1>1, <1>2, <1>3, AppendPlaces
<1>5. ~Inconsistent({l})
  BY <1>1, LitFacts DEF Inconsistent
<1>6. Harmless(t)
  BY <1>2, <1>4, <1>5 DEF Harmless, CoverOK
<1>7. \A j \in 1 .. Len(t) : c \subseteq t[j].clause
  BY <1>2, <1>4 DEF CoverOK
<1> QED BY <1>3, <1>4, <1>6, <1>7

\* Covered literals: with the clause extended so far as an entry, a model of the
\* clause with them is mended to one of the clause without.
LEMMA CoverLiteralInv ==
  ASSUME Inv, CoverLiteral
  PROVE  Inv'
<1>1. Doing("cover") /\ UNCHANGED <<database, extension, user, plan>>
  BY DEF CoverLiteral
<1>2. PICK l \in work.covered :
        /\ ~Frozen(l) /\ Candidates(l) # {} /\ Intersection(l) # {}
        /\ work' = [work EXCEPT !.false = @ \cup Intersection(l),
                                !.covered = @ \cup Intersection(l),
                                !.stack = Append(@, CoverEntry(l))]
  BY DEF CoverLiteral
<1>3. /\ Running /\ plan # <<>> /\ Head(plan) = "cover"
      /\ work = [kind |-> "cover", clause |-> work.clause, false |-> work.false,
                 covered |-> work.covered, stack |-> work.stack]
      /\ CoverOK(work.clause, work.false, work.covered, work.stack)
  BY <1>1, CoverFacts
<1>4. PICK c, F, K, st, w : c = work.clause /\ F = work.false /\ K = work.covered /\ st = work.stack /\ w = work
  OBVIOUS
<1>5. CoverOK(c, F, K, st) /\ w = [kind |-> "cover", clause |-> c, false |-> F, covered |-> K, stack |-> st]
  BY <1>3, <1>4
<1>6. PICK I, e, F2, K2, st2 :
        /\ I = Intersection(l) /\ e = Entry({l}, c \cup K)
        /\ F2 = F \cup I /\ K2 = K \cup I /\ st2 = Append(st, e)
  OBVIOUS
<1>7. I # {} /\ l \in K /\ ~Frozen(l)
  BY <1>2, <1>4, <1>6
<1>8. \A o \in I : o \in Lits /\ o \notin units /\ -o \notin units
  <2>1. ASSUME NEW o \in I  PROVE o \in Lits /\ o \notin units /\ -o \notin units
    <3>1. PICK s \in Candidates(l) : o \in s
      BY <1>6 DEF Intersection
    <3>2. PICK d \in irr : /\ ~True(d)
                           /\ s = {x \in d \ {-l} : x \notin work.false \cup Negated(units)}
      BY DEF Candidates, Occs
    <3>3. o \in d /\ o \notin Negated(units) /\ o \in Lits /\ o \notin units
      BY <3>1, <3>2, <1>3 DEF Running, True
    <3>4. -o \notin units
      BY <3>3, <1>3, NegatedFacts DEF Running
    <3> QED BY <3>3, <3>4
  <2> QED BY <2>1
<1>9. Answered(l, F, I)
  <2>1. ASSUME NEW d \in Occs(-l), ~True(d), ~ \E o \in d \ {-l} : -o \in F
        PROVE  I \subseteq d \ {-l}
    <3>1. PICK s : s = {o \in d \ {-l} : o \notin work.false \cup Negated(units)}
      OBVIOUS
    <3>2. s \in Candidates(l)
      BY <2>1, <3>1, <1>4 DEF Candidates
    <3>3. I \subseteq s
      BY <3>2, <1>6 DEF Intersection
    <3> QED BY <3>1, <3>3
  <2> QED BY <2>1, <1>7 DEF Answered
<1>10. PICK A : A = {a \in Mod(irr \ {c}, units) : (c \cup K2) \cap a # {}}
  OBVIOUS
<1>20. Fits(A, c, K, I)
  BY <1>6, <1>10 DEF Fits
<1>11. Reconstructs(A, extension \o st2, given)
  <2>1. Running /\ CoverOK(c, F, K, st)
    BY <1>3, <1>5
  <2>2. l \in K /\ e = Entry({l}, c \cup K) /\ st2 = Append(st, e)
    BY <1>6, <1>7
  <2> QED BY ONLY <2>1, <2>2, <1>9, <1>20, CoverPush
<1>12. st2 \in Seq(EntrySet) /\ Harmless(st2) /\ \A j \in 1 .. Len(st2) : c \subseteq st2[j].clause
  BY ONLY <1>3, <1>5, <1>6, <1>7, CoverEntryFacts
<1>13. CoverOK(c, F2, K2, st2)
  <2>1. /\ c \in irr /\ F \subseteq Lits /\ K \subseteq Lits
        /\ \A x \in K : x \notin units /\ -x \notin units
        /\ \A a \in Mod(irr \ {c}, units) : (c \cup K) \cap a = {} => F \cap a = {}
    BY <1>5 DEF CoverOK
  <2>2. /\ F2 \subseteq Lits /\ K2 \subseteq Lits
        /\ \A x \in K2 : x \notin units /\ -x \notin units
    BY <2>1, <1>6, <1>8
  <2>3. \A a \in Mod(irr \ {c}, units) : (c \cup K2) \cap a = {} => F2 \cap a = {}
    BY <2>1, <1>6
  <2> QED BY <2>1, <2>2, <2>3, <1>10, <1>11, <1>12 DEF CoverOK
<1>14. PICK v : v = work'
  OBVIOUS
<1>15. v = [w EXCEPT !.false = F2, !.covered = K2, !.stack = st2]
  BY <1>2, <1>4, <1>6, <1>14 DEF CoverEntry
<1>16. v = [kind |-> "cover", clause |-> c, false |-> F2, covered |-> K2, stack |-> st2]
  BY ONLY <1>5, <1>15, CoverFields
<1>17. work' = [kind |-> "cover", clause |-> c, false |-> F2, covered |-> K2, stack |-> st2]
  BY ONLY <1>14, <1>16
<1> QED BY ONLY <1>1, <1>3, <1>13, <1>17, CoverStep

\* The clause goes, and its entries are pushed.
LEMMA CoveredStep ==
  ASSUME Running, Head(plan) = "cover", NEW c, c = work.clause, NEW st, Covered(st), c \in irr,
         st \in Seq(EntrySet), Harmless(st), \A j \in 1 .. Len(st) : c \subseteq st[j].clause,
         Reconstructs(Mod(irr \ {c}, units), extension \o st, given)
  PROVE  Inv'
<1>1. /\ irr' = irr \ {c} /\ extension' = extension \o st /\ work' = Idle
      /\ UNCHANGED <<red, units, unsat, status, user, plan>>
  BY DEF Covered
<1>2. PICK i : i = irr \ {c}
  OBVIOUS
<1>3. Pushing(i, st)
  <2>1. /\ irr' = i /\ i \subseteq irr /\ red' = red /\ units' = units /\ unsat' = unsat
        /\ observed' = observed /\ given' = given /\ status' = status
        /\ work'.kind # "substitute" /\ (Late => Late') /\ extension' = extension \o st
    BY <1>1, <1>2, IdleFacts DEF user, Late
  <2>2. Reconstructs(Mod(i, units), extension', given)
    BY <1>2, <2>1
  <2> QED BY <2>1, <2>2 DEF Pushing
<1>4. Holds'
  BY <1>3, PushingStep
<1>5. Planned' /\ Working'
  BY <1>1, SamePlan, IdleFacts DEF Working
<1> QED BY <1>4, <1>5, Assembled

\* An extended clause that is true in every model of the others is satisfied.
LEMMA CoverTautologyInv ==
  ASSUME Inv, CoverTautology
  PROVE  Inv'
<1>1. Doing("cover") /\ CoverConflict /\ Covered(work.stack)
  BY DEF CoverTautology
<1>2. /\ Running /\ plan # <<>> /\ Head(plan) = "cover"
      /\ CoverOK(work.clause, work.false, work.covered, work.stack)
  BY <1>1, CoverFacts
<1>3. PICK c, F, K, st : c = work.clause /\ F = work.false /\ K = work.covered /\ st = work.stack
  OBVIOUS
<1>4. CoverOK(c, F, K, st) /\ Covered(st)
  BY <1>1, <1>2, <1>3
<1>5. PICK l \in CoverForced : l \in F \cup Negated(units)
  BY <1>1, <1>3 DEF CoverConflict
<1>6. l \in Forced(irr \ {c}, units \cup Negated(F))
  BY <1>3, <1>5 DEF CoverForced
<1>7. l \in Lits
  <2>1. irr \ {c} \subseteq SUBSET Lits
    BY <1>2 DEF Running
  <2> QED BY <2>1, <1>6, ForcedLits
<1>8. ASSUME NEW a \in Mod(irr \ {c}, units)  PROVE (c \cup K) \cap a # {}
  <2>1. SUFFICES ASSUME (c \cup K) \cap a = {}  PROVE FALSE
    OBVIOUS
  <2>2. F \cap a = {} /\ Forced(irr \ {c}, units \cup Negated(F)) \subseteq a
    BY ONLY <1>2, <1>4, <1>8, <2>1, CoverForcedFacts
  <2>3. l \in Negated(units)
    BY <2>2, <1>5, <1>6
  <2>4. -l \in units
    BY <2>3, <1>2, <1>7, NegatedFacts DEF Running
  <2> QED BY <2>2, <2>4, <1>6, <1>7 DEF Mod, Total
<1>9. Reconstructs(Mod(irr \ {c}, units), extension \o st, given)
  <2>1. Reconstructs({a \in Mod(irr \ {c}, units) : (c \cup K) \cap a # {}}, extension \o st, given)
    BY <1>4 DEF CoverOK
  <2>2. Mod(irr \ {c}, units) \subseteq {a \in Mod(irr \ {c}, units) : (c \cup K) \cap a # {}}
    BY <1>8
  <2> QED BY ONLY <2>1, <2>2, ReconstructsLess
<1>10. /\ c \in irr /\ st \in Seq(EntrySet) /\ Harmless(st)
       /\ \A j \in 1 .. Len(st) : c \subseteq st[j].clause
  BY <1>4 DEF CoverOK
<1> QED BY ONLY <1>2, <1>3, <1>4, <1>9, <1>10, CoveredStep

\* An extended clause that is blocked is mended by its last entry.
LEMMA CoverBlockedInv ==
  ASSUME Inv, CoverBlocked
  PROVE  Inv'
<1>1. Doing("cover")
  BY DEF CoverBlocked
<1>2. PICK l \in work.covered :
        /\ ~Frozen(l) /\ Candidates(l) = {}
        /\ Covered(Append(work.stack, CoverEntry(l)))
  BY DEF CoverBlocked
<1>3. /\ Running /\ plan # <<>> /\ Head(plan) = "cover"
      /\ CoverOK(work.clause, work.false, work.covered, work.stack)
  BY <1>1, CoverFacts
<1>4. PICK c, F, K, st : c = work.clause /\ F = work.false /\ K = work.covered /\ st = work.stack
  OBVIOUS
<1>5. CoverOK(c, F, K, st)
  BY <1>3, <1>4
<1>6. PICK I, e, st2 : I = {} /\ e = Entry({l}, c \cup K) /\ st2 = Append(st, e)
  OBVIOUS
<1>7. l \in K /\ ~Frozen(l) /\ Covered(st2)
  BY <1>2, <1>4, <1>6 DEF CoverEntry
<1>8. Answered(l, F, I)
  <2>1. ASSUME NEW d \in Occs(-l), ~True(d), ~ \E o \in d \ {-l} : -o \in F
        PROVE  FALSE
    <3>1. {o \in d \ {-l} : o \notin work.false \cup Negated(units)} \in Candidates(l)
      BY <2>1, <1>4 DEF Candidates
    <3> QED BY <3>1, <1>2
  <2> QED BY <2>1 DEF Answered
<1>9. PICK A : A = Mod(irr \ {c}, units)
  OBVIOUS
<1>20. Fits(A, c, K, I)
  BY <1>6, <1>9 DEF Fits
<1>21. Reconstructs(A, extension \o st2, given)
  BY ONLY <1>3, <1>5, <1>6, <1>7, <1>8, <1>20, CoverPush
<1>10. Reconstructs(Mod(irr \ {c}, units), extension \o st2, given)
  BY <1>9, <1>21
<1>11. st2 \in Seq(EntrySet) /\ Harmless(st2) /\ \A j \in 1 .. Len(st2) : c \subseteq st2[j].clause
  BY ONLY <1>3, <1>5, <1>6, <1>7, CoverEntryFacts
<1>12. c \in irr
  BY <1>5 DEF CoverOK
<1> QED BY ONLY <1>3, <1>4, <1>7, <1>10, <1>11, <1>12, CoveredStep

\* Nothing has changed when covering fails.
LEMMA CoverFailsInv ==
  ASSUME Inv, CoverFails
  PROVE  Inv'
<1>1. Doing("cover") /\ work' = Idle /\ UNCHANGED <<database, extension, user, plan>>
  BY DEF CoverFails
<1>2. Running
  BY <1>1, CoverFacts
<1>3. work'.kind # "substitute" /\ Working'
  BY <1>1, IdleFacts DEF Working
<1> QED BY <1>1, <1>2, <1>3, WorkStep

-----------------------------------------------------------------------------
(* Globally blocked clauses.                                               *)

\* Conditioning starts with a value for every variable that may be a witness.
LEMMA StartConditionInv ==
  ASSUME Inv, StartCondition
  PROVE  Inv'
<1>1. /\ At("condition") /\ irr' = {c \in irr : c \cap units = {}}
      /\ UNCHANGED <<red, units, unsat, status, extension, user, plan>>
  BY DEF StartCondition, True
<1>2. PICK P \in SUBSET {v \in Vars : Eliminable(v)} :
        work' = [kind |-> "condition", clauses |-> irr',
                 trail |-> P \cup Negated({v \in Vars : Eliminable(v)} \ P)]
  BY DEF StartCondition
<1>3. Running /\ plan # <<>> /\ Head(plan) = "condition" /\ work = Idle /\ ~Late
  BY <1>1, AtFacts
<1>4. PICK t : t = P \cup Negated({v \in Vars : Eliminable(v)} \ P)
  OBVIOUS
<1>5. work' = [kind |-> "condition", clauses |-> irr', trail |-> t]
  BY <1>2, <1>4
<1>6. /\ work'.kind = "condition" /\ work'.clauses = irr' /\ work'.trail = t
      /\ work' = [kind |-> "condition", clauses |-> work'.clauses, trail |-> work'.trail]
  BY <1>5
<1>7. ASSUME NEW l \in t
      PROVE  /\ l \in Lits /\ Active(l) /\ ~Frozen(l) /\ -l \notin t
  <2>1. PICK v \in Vars : Eliminable(v) /\ ((l = v /\ v \in P) \/ (l = -v /\ v \notin P))
    BY <1>4 DEF Negated
  <2>2. /\ v \in Lits /\ -v \in Lits /\ VarOf(v) = v /\ VarOf(-v) = v /\ v \in Int /\ v > 0
    BY VarsAreLits, LitFacts DEF Vars
  <2>3. l \in Lits /\ Active(l) /\ ~Frozen(l)
    BY <2>1, <2>2 DEF Eliminable, Active, Frozen
  <2>4. \A w \in P : w \in Int /\ w > 0
    BY DEF Vars
  <2>5. \A w \in Negated({u \in Vars : Eliminable(u)} \ P) : \E u \in Vars : w = -u /\ u \notin P /\ u \in Int /\ u > 0
    BY DEF Vars, Negated
  <2>6. CASE l = v /\ v \in P
    <3>1. -l \notin P
      BY <2>2, <2>4, <2>6
    <3>2. -l \notin Negated({u \in Vars : Eliminable(u)} \ P)
      BY <2>2, <2>5, <2>6
    <3> QED BY <3>1, <3>2, <2>3, <1>4
  <2>7. CASE l = -v /\ v \notin P
    <3>1. -l = v
      BY <2>2, <2>7
    <3>2. -l \notin Negated({u \in Vars : Eliminable(u)} \ P)
      BY <2>2, <2>5, <3>1
    <3> QED BY <3>1, <3>2, <2>7, <2>3, <1>4
  <2> QED BY <2>1, <2>6, <2>7
<1>8. Searchable /\ Unchanged
  BY <1>1, <1>3, <1>6, IdleFacts DEF Running, Searchable, Unchanged, user
<1>9. Holds'
  <2>1. /\ \A a : Total(a) /\ Satisfies(a, irr \cup red) /\ units \subseteq a =>
                    Satisfies(a, irr' \cup red')
        /\ \A a : Total(a) /\ Satisfies(a, irr') /\ units \subseteq a => Satisfies(a, irr)
    BY <1>1 DEF Satisfies
  <2>2. irr' \subseteq SUBSET Lits /\ red' \subseteq SUBSET Lits /\ irr' \subseteq irr /\ red' = red
    BY <1>1, <1>3 DEF Running
  <2> QED BY <1>1, <1>3, <1>8, <2>1, <2>2, PlainStep
<1>10. Conditioning'
  <2>1. \A l \in t : l \notin units /\ -l \notin units
    <3>1. ASSUME NEW l \in t  PROVE l \notin units /\ -l \notin units
      <4>1. l \in Lits /\ Active(l)
        BY <1>7
      <4>2. \A m \in Lits : Active(m) => m \notin units
        BY <1>3 DEF Running, Base
      <4> QED BY <4>1, <4>2, ActiveOpen
    <3> QED BY <3>1
  <2>2. t \subseteq Lits /\ ~Inconsistent(t) /\ \A l \in t : ~Frozen(l)
    BY <1>7 DEF Inconsistent
  <2>3. plan' = plan /\ units' = units /\ observed' = observed
    BY <1>1 DEF user
  <2> QED BY <1>3, <1>6, <2>1, <2>2, <2>3 DEF Conditioning, Frozen
<1>11. Planned'
  BY <1>1, <1>3, SamePlan
<1> QED BY <1>9, <1>10, <1>11, Assembled DEF Working

\* The literals that are not conditional are an autarky.
LEMMA AutarkyFacts ==
  ASSUME NEW c, NEW t, t = work.trail, NEW D, D = work.clauses, t \subseteq Lits, ~Inconsistent(t)
  PROVE  /\ Autarky(c) \subseteq t
         /\ \A d \in D, l \in Autarky(c) : -l \in d =>
              \E y \in d \cap t : y \in Autarky(c) \/ -y \in c
<1> DEFINE un(K) == {l \in K : -l \notin c}
           more(K) == {l \in t : \E d \in D : /\ -l \in d /\ d \cap un(K) # {}
                                               /\ d \cap (t \ un(K)) = {}}
           settled == {K \in SUBSET t : InitiallyConditional \subseteq K /\ more(K) \subseteq K}
           W == {l \in t : \E K \in settled : l \notin K}
           K0 == t \ W
<1>1. Autarky(c) = W
  BY DEF Autarky
<1>2. W \subseteq t
  OBVIOUS
<1>3. ASSUME NEW d \in D, NEW l \in W, -l \in d
      PROVE  \E y \in d \cap t : y \in W \/ -y \in c
  <2>1. SUFFICES ASSUME \A y \in d \cap t : y \notin W /\ -y \notin c  PROVE FALSE
    OBVIOUS
  <2>2. PICK K \in settled : l \notin K
    OBVIOUS
  <2>3. l \in t /\ InitiallyConditional \subseteq K /\ more(K) \subseteq K /\ K \subseteq t
    BY <2>2
  <2>4. \A y \in d \cap t : y \in K
    BY <2>1, <2>2
  <2>5. \A y \in d \cap t : y \in un(K)
    BY <2>1, <2>4
  <2>6. CASE d \cap t = {}
    <3>1. l \in InitiallyConditional
      BY <2>3, <2>6, <1>3 DEF InitiallyConditional
    <3> QED BY <3>1, <2>2, <2>3
  <2>7. CASE d \cap t # {}
    <3>1. d \cap un(K) # {} /\ d \cap (t \ un(K)) = {}
      BY <2>5, <2>7
    <3>2. l \in more(K)
      BY <3>1, <2>3, <1>3
    <3> QED BY <3>2, <2>2, <2>3
  <2> QED BY <2>6, <2>7
<1> QED BY <1>1, <1>2, <1>3

\* A globally blocked clause goes: the autarky satisfies every clause that it
\* touches, so making it true mends the clause and breaks no other.
LEMMA ConditionInv ==
  ASSUME Inv, Condition
  PROVE  Inv'
<1>1. Doing("condition") /\ UNCHANGED <<red, units, unsat, status, user, control>>
  BY DEF Condition
<1>2. PICK c \in irr :
        /\ c \cap Autarky(c) # {} /\ irr' = irr \ {c}
        /\ extension' = Append(extension, Entry(Autarky(c), c))
  BY DEF Condition
<1>3. Running /\ work.kind = "condition" /\ Conditioning
  <2>1. "condition" \in {"resolve", "backward", "cover", "condition"}
    OBVIOUS
  <2> QED BY <1>1, <2>1, KindFacts
<1>4. /\ work = [kind |-> "condition", clauses |-> work.clauses, trail |-> work.trail]
      /\ plan # <<>> /\ Head(plan) = "condition"
      /\ irr \subseteq work.clauses
      /\ work.trail \subseteq Lits /\ ~Inconsistent(work.trail)
      /\ \A l \in work.trail : l \notin units /\ -l \notin units /\ ~Frozen(l)
      /\ plan' = plan /\ work' = work
  BY <1>1, <1>3 DEF Conditioning, control
<1>5. PICK t, D, W : t = work.trail /\ D = work.clauses /\ W = Autarky(c)
  OBVIOUS
<1>6. /\ W \subseteq t /\ t \subseteq Lits /\ ~Inconsistent(t) /\ W \subseteq Lits
      /\ \A d \in D, l \in W : -l \in d => \E y \in d \cap t : y \in W \/ -y \in c
  BY <1>4, <1>5, AutarkyFacts
<1>7. ~Inconsistent(W) /\ \A l \in W : l \notin units /\ -l \notin units /\ ~Frozen(l)
  BY <1>4, <1>5, <1>6 DEF Inconsistent
<1>8. c \subseteq Lits /\ extension \in Seq(EntrySet) /\ c \cap W # {}
  BY <1>2, <1>3, <1>5 DEF Running, Types
<1>9. PICK e, i, A, B : e = Entry(W, c) /\ i = irr \ {c} /\ A = Mod(i, units) /\ B = Mod(irr, units)
  OBVIOUS
<1>10. e \in EntrySet /\ e.witness = W /\ e.clause = c
  BY <1>6, <1>8, <1>9 DEF Entry, EntrySet
<1>11. ASSUME NEW a \in A  PROVE Mended(e, a) \in B
  <2>1. Total(a) /\ a \in SUBSET Lits /\ Satisfies(a, i) /\ units \subseteq a
    BY <1>9 DEF Mod
  <2>2. CASE c \cap a # {}
    <3>1. Satisfies(a, irr)
      BY <2>1, <2>2, <1>9 DEF Satisfies
    <3> QED BY <2>1, <2>2, <3>1, <1>9, <1>10 DEF Mod, Mended
  <2>3. CASE c \cap a = {}
    <3>1. PICK b : b = Flip(a, W)
      OBVIOUS
    <3>2. Total(b)
      BY <2>1, <3>1, <1>6, <1>7, FlipTotal
    <3>3. \A x \in Lits : x \in b <=> x \in W \/ (x \in a /\ -x \notin W)
      BY <3>1, <1>6, NegatedFacts DEF Flip
    <3>4. units \subseteq b
      BY <3>3, <2>1, <1>3, <1>7, LitFacts DEF Running
    <3>5. ASSUME NEW d \in irr  PROVE d \cap b # {}
      <4>1. d \subseteq Lits /\ d \in D
        BY <1>3, <1>4, <1>5 DEF Running
      <4>2. CASE d = c
        BY <4>1, <4>2, <3>3, <1>8
      <4>3. CASE d # c
        <5>1. PICK x \in d : x \in a
          BY <4>3, <2>1, <1>9 DEF Satisfies
        <5>2. CASE -x \notin W
          BY <5>1, <5>2, <4>1, <3>3
        <5>3. CASE -x \in W
          <6>1. PICK l \in W : l = -x
            BY <5>3
          <6>2. -l = x
            BY <6>1, <5>1, <4>1, LitFacts
          <6>3. PICK y \in d \cap t : y \in W \/ -y \in c
            BY <6>2, <5>1, <4>1, <1>6
          <6>4. CASE y \in W
            BY <6>3, <6>4, <4>1, <3>3
          <6>5. CASE -y \in c
            <7>1. -y \notin a /\ y \in Lits
              BY <6>3, <6>5, <2>3, <4>1
            <7>2. y \in a
              BY <7>1, <2>1 DEF Total
            <7>3. -y \notin W
              BY <6>3, <1>6 DEF Inconsistent
            <7> QED BY <6>3, <7>1, <7>2, <7>3, <3>3
          <6> QED BY <6>3, <6>4, <6>5
        <5> QED BY <5>2, <5>3
      <4> QED BY <4>2, <4>3
    <3>6. Satisfies(b, irr) /\ b \in SUBSET Lits
      BY <3>2, <3>5 DEF Satisfies, Total
    <3> QED BY <2>3, <3>1, <3>2, <3>4, <3>6, <1>9, <1>10 DEF Mod, Mended
  <2> QED BY <2>2, <2>3
<1>12. Reconstructs(A, Append(extension, e), given)
  <2>1. Reconstructs(B, extension, given)
    BY <1>3, <1>9 DEF Running, Meaning
  <2> QED BY ONLY <2>1, <1>8, <1>10, <1>11, Push
<1>13. PICK st : st = <<e>>
  OBVIOUS
<1>14. st \in Seq(EntrySet) /\ Append(extension, e) = extension \o st /\ Len(st) = 1 /\ st[1] = e
  BY <1>8, <1>10, <1>13, AppendPlaces
<1>15. Harmless(st)
  <2>1. \A j \in 1 .. Len(st) : st[j].witness = W
    BY <1>10, <1>14
  <2> QED BY ONLY <2>1, <1>7 DEF Harmless
<1>16. Pushing(i, st)
  <2>1. /\ irr' = i /\ i \subseteq irr /\ red' = red /\ units' = units /\ unsat' = unsat
        /\ observed' = observed /\ given' = given /\ status' = status
        /\ work'.kind # "substitute" /\ (Late => Late') /\ extension' = extension \o st
    BY <1>1, <1>2, <1>3, <1>4, <1>5, <1>9, <1>14 DEF user, Late
  <2>2. \A j \in 1 .. Len(st) : \E d \in irr : d \subseteq st[j].clause
    BY <1>10, <1>14
  <2>3. Reconstructs(Mod(i, units), extension', given)
    BY <2>1, <1>9, <1>12, <1>14
  <2> QED BY <2>1, <2>2, <2>3, <1>14, <1>15 DEF Pushing
<1>17. Holds'
  BY <1>3, <1>16, PushingStep
<1>18. Planned'
  BY <1>3, <1>4, SamePlan
<1>19. Conditioning'
  <2>1. units' = units /\ observed' = observed /\ irr' \subseteq irr
    BY <1>1, <1>2 DEF user
  <2> QED BY <2>1, <1>3, <1>4 DEF Conditioning, Frozen
<1> QED BY <1>17, <1>18, <1>19, Assembled DEF Working

\* Conditioning ends with nothing in progress.
LEMMA EndConditionInv ==
  ASSUME Inv, EndCondition
  PROVE  Inv'
<1>1. /\ Doing("condition") /\ work' = Idle /\ plan' = Tail(plan)
      /\ UNCHANGED <<database, extension, user>>
  BY DEF EndCondition
<1>2. Running /\ Conditioning
  <2>1. "condition" \in {"resolve", "backward", "cover", "condition"}
    OBVIOUS
  <2> QED BY <1>1, <2>1, KindFacts
<1>3. plan # <<>> /\ Head(plan) = "condition" /\ ~Late
  BY <1>2 DEF Conditioning, Late
<1>4. UNCHANGED <<irr, red, units, unsat, status, extension, observed, given>>
  BY <1>1 DEF database, user
<1>5. Searchable /\ Unchanged
  BY <1>1, <1>2, <1>4, IdleFacts DEF Running, Searchable, Unchanged
<1>6. Holds'
  <2>1. /\ \A a : Total(a) /\ Satisfies(a, irr \cup red) /\ units \subseteq a =>
                    Satisfies(a, irr' \cup red')
        /\ \A a : Total(a) /\ Satisfies(a, irr') /\ units \subseteq a => Satisfies(a, irr)
        /\ irr' \subseteq SUBSET Lits /\ red' \subseteq SUBSET Lits
    BY <1>2, <1>4 DEF Running
  <2> QED BY <1>3, <1>4, <1>5, <2>1, PlainStep
<1>7. Planned'
  BY <1>1, <1>2, <1>3, NextProcedure
<1>8. Working'
  BY <1>1, IdleFacts DEF Working
<1> QED BY <1>6, <1>7, <1>8, Assembled

-----------------------------------------------------------------------------
(* Backward subsumption.                                                   *)

\* What holds during backward subsumption.
LEMMA BackwardFacts ==
  ASSUME Inv, Doing("backward")
  PROVE  /\ Running /\ plan # <<>> /\ Head(plan) = "elim" /\ Late
         /\ work = [kind |-> "backward", queue |-> work.queue]
         /\ \A c \in irr : c \cap units = {}
<1>1. "backward" \in {"resolve", "backward", "cover", "condition"}
  OBVIOUS
<1>2. Running /\ InBackward
  BY <1>1, KindFacts
<1> QED BY <1>2 DEF InBackward, Running, Late

\* A step of backward subsumption that assigns nothing.
LEMMA BackwardStep ==
  ASSUME Inv, Doing("backward"),
         NEW q, work' = [kind |-> "backward", queue |-> q] \/ work' = Idle,
         UNCHANGED <<red, units, unsat, status, extension, user, plan>>,
         irr' \subseteq SUBSET Lits,
         \A c \in irr' : c \in irr \/ (Good(c) /\ OpenIn(c, units) /\ c \cap units = {}),
         \A a : Total(a) /\ Satisfies(a, irr) /\ units \subseteq a => Satisfies(a, irr'),
         \A a : Total(a) /\ Satisfies(a, irr') /\ units \subseteq a => Satisfies(a, irr)
  PROVE  Inv'
<1>1. /\ Running /\ plan # <<>> /\ Head(plan) = "elim" /\ Late
      /\ \A c \in irr : c \cap units = {}
  BY BackwardFacts
<1>2. UNCHANGED <<red, units, unsat, status, extension, observed, given, plan>>
  BY DEF user
<1>3. work'.kind # "substitute"
  BY IdleFacts
<1>4. Searchable /\ Unchanged
  BY <1>1, <1>2, <1>3 DEF Running, Searchable, Unchanged
<1>5. Holds'
  <2>1. \A a : Total(a) /\ Satisfies(a, irr \cup red) /\ units \subseteq a =>
                    Satisfies(a, irr' \cup red')
    BY <1>2 DEF Satisfies
  <2>2. Late' /\ red' \subseteq SUBSET Lits
    BY <1>1, <1>2 DEF Late, Running
  <2> QED BY <1>2, <1>4, <2>1, <2>2, PlainStep
<1>6. Planned'
  BY <1>1, <1>2, SamePlan
<1>7. Working'
  <2>1. CASE work' = [kind |-> "backward", queue |-> q]
    <3>1. work'.kind = "backward" /\ work'.queue = q
      BY <2>1
    <3>2. InBackward'
      BY <2>1, <3>1, <1>1, <1>2 DEF InBackward
    <3> QED BY <3>2 DEF Working
  <2>2. CASE work' = Idle
    BY <2>2, IdleFacts DEF Working
  <2> QED BY <2>1, <2>2
<1> QED BY <1>5, <1>6, <1>7, Assembled

\* Changing the queue leaves a record of the same form.
LEMMA QueueField ==
  ASSUME NEW w, NEW q, w = [kind |-> "backward", queue |-> q], NEW v, NEW r
  PROVE  v = [w EXCEPT !.queue = r] => v = [kind |-> "backward", queue |-> r]
OBVIOUS

\* A clause leaves the queue; a true one would go, but there is none.
LEMMA DequeueInv ==
  ASSUME Inv, Dequeue
  PROVE  Inv'
<1>1. Doing("backward") /\ UNCHANGED <<red, units, unsat, status, extension, user, plan>>
  BY DEF Dequeue
<1>2. PICK c : /\ irr' = (IF c \cap units # {} THEN irr \ {c} ELSE irr)
               /\ work' = [work EXCEPT !.queue = @ \ {c}]
  BY DEF Dequeue, True
<1>3. Running /\ work = [kind |-> "backward", queue |-> work.queue]
  BY <1>1, BackwardFacts
<1>4. PICK q : q = work.queue \ {c}
  OBVIOUS
<1>5. work' = [kind |-> "backward", queue |-> q]
  BY <1>2, <1>3, <1>4
<1>6. irr' \subseteq irr /\ irr' \subseteq SUBSET Lits
  BY <1>2, <1>3 DEF Running
<1>7. /\ \A a : Total(a) /\ Satisfies(a, irr) /\ units \subseteq a => Satisfies(a, irr')
      /\ \A a : Total(a) /\ Satisfies(a, irr') /\ units \subseteq a => Satisfies(a, irr)
      /\ \A e \in irr' : e \in irr
  BY <1>2 DEF Satisfies
<1> QED BY ONLY <1>1, <1>5, <1>6, <1>7, Inv, BackwardStep

\* An empty queue ends backward subsumption.
LEMMA EndBackwardInv ==
  ASSUME Inv, EndBackward
  PROVE  Inv'
<1>1. Doing("backward") /\ UNCHANGED <<database, extension, user, plan>> /\ work' = Idle
  BY DEF EndBackward
<1>2. Running
  BY <1>1, BackwardFacts
<1>3. work'.kind # "substitute" /\ Working'
  BY <1>1, IdleFacts DEF Working
<1> QED BY <1>1, <1>2, <1>3, WorkStep

\* Backward subsumption and strengthening over occurrence lists.
LEMMA BackwardInv ==
  ASSUME Inv, Backward
  PROVE  Inv'
<1>1. Doing("backward")
  BY DEF Backward
<1>2. PICK c \in work.queue :
        /\ c \in irr /\ ~True(c)
        /\ \/ \E d \in BackwardSubsumed(c) :
                /\ irr' = irr \ {d}
                /\ work' = [work EXCEPT !.queue = @ \ {d}]
                /\ UNCHANGED <<units, unsat, status>>
           \/ \E q \in BackwardFlipped(c) :
                LET s == Residual(q[1] \ {q[2]}) IN
                IF Cardinality(s) = 1
                THEN BecomeEagerly(irr, s) /\ UNCHANGED work
                ELSE /\ irr' = (irr \ {q[1]}) \cup {q[1] \ {q[2]}}
                     /\ work' = [work EXCEPT !.queue = (@ \ {q[1]}) \cup {q[1] \ {q[2]}}]
                     /\ UNCHANGED <<units, unsat, status>>
        /\ UNCHANGED <<red, extension, user, plan>>
  BY DEF Backward
<1>3. /\ Running /\ plan # <<>> /\ Head(plan) = "elim" /\ Late
      /\ work = [kind |-> "backward", queue |-> work.queue]
      /\ \A e \in irr : e \cap units = {}
  BY <1>1, BackwardFacts
<1>4. /\ c \subseteq Lits /\ units \subseteq Lits
      /\ \A e \in irr : e \subseteq Lits /\ Good(e) /\ OpenIn(e, units) /\ e \cap units = {}
  BY <1>2, <1>3 DEF Running
<1>5. CASE \E d \in BackwardSubsumed(c) :
             /\ irr' = irr \ {d}
             /\ work' = [work EXCEPT !.queue = @ \ {d}]
             /\ UNCHANGED <<units, unsat, status>>
  <2>1. PICK d \in BackwardSubsumed(c) :
             /\ irr' = irr \ {d}
             /\ work' = [work EXCEPT !.queue = @ \ {d}]
             /\ UNCHANGED <<units, unsat, status>>
    BY <1>5
  <2>2. PICK q : q = work.queue \ {d}
    OBVIOUS
  <2>3. work' = [kind |-> "backward", queue |-> q]
    <3>1. PICK w, v, k : w = work /\ v = work' /\ k = work.queue
      OBVIOUS
    <3>2. w = [kind |-> "backward", queue |-> k] /\ v = [w EXCEPT !.queue = q]
      BY <3>1, <1>3, <2>1, <2>2
    <3>3. v = [kind |-> "backward", queue |-> q]
      BY ONLY <3>2, QueueField
    <3> QED BY <3>1, <3>3
  <2>4. d \in irr /\ d # c /\ Residual(c) \subseteq Residual(d)
    BY <1>4 DEF BackwardSubsumed, Met, True
  <2>5. Residual(d) \subseteq d
    BY DEF Residual
  <2>6. \A a : Total(a) /\ Satisfies(a, irr') /\ units \subseteq a => Satisfies(a, irr)
    <3>1. ASSUME NEW a, Total(a), Satisfies(a, irr'), units \subseteq a  PROVE Satisfies(a, irr)
      <4>1. c \cap a # {}
        BY <1>2, <2>1, <2>4, <3>1 DEF Satisfies
      <4>2. Residual(c) \cap a # {}
        BY <4>1, <3>1, <1>4, ResidualLits
      <4>3. d \cap a # {}
        BY <4>2, <2>4, <2>5
      <4> QED BY <4>3, <2>1, <3>1 DEF Satisfies
    <3> QED BY <3>1
  <2>7. /\ irr' \subseteq SUBSET Lits /\ \A e \in irr' : e \in irr
        /\ \A a : Total(a) /\ Satisfies(a, irr) /\ units \subseteq a => Satisfies(a, irr')
    BY <2>1, <1>4 DEF Satisfies
  <2>8. UNCHANGED <<red, units, unsat, status, extension, user, plan>>
    BY <1>2, <2>1
  <2> QED BY ONLY <1>1, <2>3, <2>6, <2>7, <2>8, Inv, BackwardStep
<1>6. CASE \E q \in BackwardFlipped(c) :
             LET s == Residual(q[1] \ {q[2]}) IN
             IF Cardinality(s) = 1
             THEN BecomeEagerly(irr, s) /\ UNCHANGED work
             ELSE /\ irr' = (irr \ {q[1]}) \cup {q[1] \ {q[2]}}
                  /\ work' = [work EXCEPT !.queue = (@ \ {q[1]}) \cup {q[1] \ {q[2]}}]
                  /\ UNCHANGED <<units, unsat, status>>
  <2>1. PICK q \in BackwardFlipped(c) :
             LET s == Residual(q[1] \ {q[2]}) IN
             IF Cardinality(s) = 1
             THEN BecomeEagerly(irr, s) /\ UNCHANGED work
             ELSE /\ irr' = (irr \ {q[1]}) \cup {q[1] \ {q[2]}}
                  /\ work' = [work EXCEPT !.queue = (@ \ {q[1]}) \cup {q[1] \ {q[2]}}]
                  /\ UNCHANGED <<units, unsat, status>>
    BY <1>6
  <2>2. PICK d, l, t, s : d = q[1] /\ l = q[2] /\ t = d \ {l} /\ s = Residual(t)
    OBVIOUS
  <2>3. /\ IF Cardinality(s) = 1
           THEN BecomeEagerly(irr, s) /\ UNCHANGED work
           ELSE /\ irr' = (irr \ {d}) \cup {t}
                /\ work' = [work EXCEPT !.queue = (@ \ {d}) \cup {t}]
                /\ UNCHANGED <<units, unsat, status>>
    BY <2>1, <2>2
  <2>4. /\ d \in irr /\ d # c /\ l \in d /\ l \in Lits /\ -l \in Residual(c)
        /\ Residual(c) \ {-l} \subseteq Residual(d) \ {l}
    BY <2>2 DEF BackwardFlipped, Met
  <2>5. /\ d \subseteq Lits /\ t \subseteq Lits /\ s \subseteq t /\ s \subseteq Lits /\ s = Residual(d) \ {l}
        /\ t \subseteq d /\ s = {x \in t : -x \notin units}
    BY <1>4, <2>2, <2>4 DEF Residual
  <2>6. ASSUME NEW a, Total(a), Satisfies(a, irr), units \subseteq a  PROVE s \cap a # {}
    <3>1. c \cap a # {} /\ d \cap a # {}
      BY <1>2, <2>4, <2>6 DEF Satisfies
    <3>2. Residual(c) \cap a # {}
      BY <3>1, <2>6, <1>4, ResidualLits
    <3>3. Residual(d) \cap a # {}
      BY <3>1, <2>6, <2>5, ResidualLits
    <3>4. ~(l \in a /\ -l \in a)
      BY <2>4, <2>6 DEF Total
    <3> QED BY <3>2, <3>3, <3>4, <2>4, <2>5
  <2>7. Cardinality(s) >= 1 /\ Cardinality(s) \in Nat
    <3>1. Cardinality(Residual(d)) >= 2 /\ Residual(d) \subseteq Lits
      BY <1>4, <2>4 DEF OpenIn, Residual
    <3>2. s # {}
      BY <3>1, <2>5, NotEmpty
    <3>3. Cardinality(s) \in Nat /\ Cardinality(s) # 0
      BY <3>2, <2>5, Singletons
    <3> QED BY <3>3
  <2>8. CASE Cardinality(s) = 1
    <3>1. BecomeEagerly(irr, s) /\ UNCHANGED <<work, red, extension, user, plan>>
      BY <1>2, <2>3, <2>8
    <3>2. Searchable /\ Unchanged
      BY <1>3, <3>1 DEF Running, Searchable, Unchanged, user
    <3>3. PICK i : i = irr
      OBVIOUS
    <3>4. /\ BecomeEagerly(i, s) /\ red' = red /\ Late' /\ i \subseteq SUBSET Lits /\ s \subseteq Lits
          /\ \A e \in i : Good(e)
      <4>1. Late'
        BY <1>3, <3>1 DEF Late
      <4> QED BY <4>1, <1>4, <2>5, <3>1, <3>3
    <3>5. /\ \A a : Total(a) /\ Satisfies(a, irr \cup red) /\ units \subseteq a =>
                        Satisfies(a, i) /\ s \subseteq a
          /\ \A a : Total(a) /\ Satisfies(a, i) /\ units \cup s \subseteq a => Satisfies(a, irr)
      <4>1. PICK x \in s : s = {x}
        BY <2>5, <2>8, Singletons
      <4>2. ASSUME NEW a, Total(a), Satisfies(a, irr \cup red), units \subseteq a  PROVE s \subseteq a /\ Satisfies(a, irr)
        <5>1. Satisfies(a, irr)
          BY <4>2 DEF Satisfies
        <5> QED BY <5>1, <4>1, <4>2, <2>6
      <4> QED BY <4>2, <3>3
    <3>6. Holds' /\ (~unsat' => \A e \in irr' : e \cap units' = {})
      BY ONLY <3>2, <3>4, <3>5, EagerStep
    <3>7. ~unsat' => Planned'
      BY <1>3, <3>1, <3>6, SamePlan
    <3>8. InBackward'
      BY <1>3, <3>1 DEF InBackward
    <3> QED BY <3>6, <3>7, <3>8, Assembled DEF Working
  <2>9. CASE Cardinality(s) >= 2
    <3>1. /\ irr' = (irr \ {d}) \cup {t}
          /\ work' = [work EXCEPT !.queue = (@ \ {d}) \cup {t}]
          /\ UNCHANGED <<red, units, unsat, status, extension, user, plan>>
      BY <1>2, <2>3, <2>7, <2>9
    <3>2. PICK u : u = (work.queue \ {d}) \cup {t}
      OBVIOUS
    <3>3. work' = [kind |-> "backward", queue |-> u]
      <4>1. PICK w, v, k : w = work /\ v = work' /\ k = work.queue
        OBVIOUS
      <4>2. w = [kind |-> "backward", queue |-> k] /\ v = [w EXCEPT !.queue = u]
        BY <4>1, <1>3, <3>1, <3>2
      <4>3. v = [kind |-> "backward", queue |-> u]
        BY ONLY <4>2, QueueField
      <4> QED BY <4>1, <4>3
    <3>4. Good(t) /\ OpenIn(t, units) /\ t \cap units = {}
      <4>1. Cardinality(t) >= 2
        BY <2>5, <2>9, TwoInside
      <4>2. OpenIn(t, units)
        BY <2>5, <2>9 DEF OpenIn
      <4> QED BY <4>1, <4>2, <1>4, <2>4, <2>5 DEF Good, Tautology
    <3>5. /\ irr' \subseteq SUBSET Lits
          /\ \A e \in irr' : e \in irr \/ (Good(e) /\ OpenIn(e, units) /\ e \cap units = {})
      BY <1>4, <2>5, <3>1, <3>4
    <3>6. \A a : Total(a) /\ Satisfies(a, irr) /\ units \subseteq a => Satisfies(a, irr')
      <4>1. ASSUME NEW a, Total(a), Satisfies(a, irr), units \subseteq a  PROVE Satisfies(a, irr')
        <5>1. t \cap a # {}
          BY <4>1, <2>5, <2>6
        <5> QED BY <5>1, <4>1, <3>1 DEF Satisfies
      <4> QED BY <4>1
    <3>7. \A a : Total(a) /\ Satisfies(a, irr') /\ units \subseteq a => Satisfies(a, irr)
      <4>1. ASSUME NEW a, Satisfies(a, irr'), NEW e \in irr  PROVE e \cap a # {}
        <5>1. CASE e = d
          <6>1. t \cap a # {}
            BY <4>1, <3>1 DEF Satisfies
          <6> QED BY <5>1, <6>1, <2>5
        <5>2. CASE e # d
          BY <5>2, <4>1, <3>1 DEF Satisfies
        <5> QED BY <5>1, <5>2
      <4> QED BY <4>1 DEF Satisfies
    <3>8. UNCHANGED <<red, units, unsat, status, extension, user, plan>>
      BY <3>1
    <3> QED BY ONLY <1>1, <3>3, <3>5, <3>6, <3>7, <3>8, Inv, BackwardStep
  <2> QED BY <2>7, <2>8, <2>9
<1> QED BY <1>2, <1>5, <1>6

-----------------------------------------------------------------------------
(* Gates define their pivot.                                               *)

\* Where elimination runs: no clause is true, every one has two open literals.
Clean ==
  /\ units \subseteq Lits /\ irr \subseteq SUBSET Lits
  /\ \A c \in irr : /\ c \subseteq Lits /\ ~Tautology(c) /\ c \cap units = {}
                    /\ Residual(c) \subseteq c /\ Cardinality(Residual(c)) >= 2

\* While elimination runs no clause is true at the root.
LEMMA CleanFacts ==
  ASSUME Running, plan # <<>>, Head(plan) = "elim"
  PROVE  Clean
<1>1. ASSUME NEW c \in irr
      PROVE  /\ c \subseteq Lits /\ ~Tautology(c) /\ c \cap units = {}
             /\ Residual(c) \subseteq c /\ Cardinality(Residual(c)) >= 2
  <2>1. c \subseteq Lits /\ Good(c) /\ OpenIn(c, units) /\ c \cap units = {}
    BY DEF Running
  <2> QED BY <2>1 DEF Good, OpenIn, Residual
<1> QED BY <1>1 DEF Clean, Running

Gate(p, g) ==
  /\ g \subseteq irr /\ g # {} /\ \A c \in g : p \in c \/ -p \in c
  /\ \A c \in g, d \in g : p \in c /\ -p \in d =>
       \A a : Total(a) => ((Residual(c) \ {p}) \cup (Residual(d) \ {-p})) \cap a # {}
  /\ \A a : Total(a) => \E c \in g : (Residual(c) \ {p, -p}) \cap a = {}

\* A gate defines the pivot: its clauses have true resolvents with each other, and
\* whatever the other variables are, one of its clauses needs the pivot.
LEMMA GateDefines ==
  ASSUME Clean, NEW p \in Lits, NEW g, Gate(p, g)
  PROVE  Defines(p, g) /\ g \subseteq irr
<1>1. g \subseteq irr /\ g \subseteq SUBSET Lits
  BY DEF Gate, Clean
<1>2. \A c \in g : (p \in c \/ -p \in c) /\ ~Tautology(c)
  BY <1>1 DEF Gate, Clean
<1>3. ASSUME NEW c \in g, NEW d \in g, p \in c, -p \in d, NEW a \in Mod({}, units)
      PROVE  Resolvent(c, p, d) \cap a # {}
  <2>1. Total(a)
    BY <1>3 DEF Mod
  <2>2. ((Residual(c) \ {p}) \cup (Residual(d) \ {-p})) \cap a # {}
    BY <2>1, <1>3 DEF Gate
  <2>3. Residual(c) \subseteq c /\ Residual(d) \subseteq d
    BY <1>1 DEF Clean
  <2> QED BY <2>2, <2>3 DEF Resolvent
<1>4. ASSUME NEW a \in Mod({}, units)
      PROVE  \E c \in g : (c \ {p, -p}) \cap a = {}
  <2>1. Total(a) /\ units \subseteq a
    BY <1>4 DEF Mod
  <2>2. PICK c \in g : (Residual(c) \ {p, -p}) \cap a = {}
    BY <2>1 DEF Gate
  <2>3. c \subseteq Lits
    BY <1>1
  <2>4. Residual(c) \cap a = c \cap a
    BY <2>1, <2>3, ResidualLits
  <2> QED BY <2>2, <2>4
<1> QED BY <1>1, <1>2, <1>3, <1>4 DEF Defines

\* A gate is one of either sign of the pivot.
LEMMA GateTwin ==
  ASSUME NEW p \in Lits, NEW q, q = -p, NEW g, Gate(q, g)
  PROVE  Gate(p, g)
<1>1. -q = p
  BY LitFacts
<1>2. \A c \in g : p \in c \/ -p \in c
  BY <1>1 DEF Gate
<1>3. ASSUME NEW c \in g, NEW d \in g, p \in c, -p \in d, NEW a, Total(a)
      PROVE  ((Residual(c) \ {p}) \cup (Residual(d) \ {-p})) \cap a # {}
  <2>1. ((Residual(d) \ {q}) \cup (Residual(c) \ {-q})) \cap a # {}
    BY <1>1, <1>3 DEF Gate
  <2> QED BY <2>1, <1>1
<1>4. ASSUME NEW a, Total(a)
      PROVE  \E c \in g : (Residual(c) \ {p, -p}) \cap a = {}
  <2>1. PICK c \in g : (Residual(c) \ {q, -q}) \cap a = {}
    BY <1>4 DEF Gate
  <2> QED BY <2>1, <1>1
<1> QED BY <1>2, <1>3, <1>4 DEF Gate

\* Clauses of an open literal.
LEMMA WithFacts ==
  ASSUME Clean, NEW p \in Lits, Open(p), NEW c \in With(p)
  PROVE  /\ c \in irr /\ p \in c /\ -p \notin c /\ p \in Residual(c) /\ c \subseteq Lits
         /\ Residual(c) \subseteq c /\ Cardinality(Residual(c)) >= 2
         /\ \A l \in c : -l \notin c
BY DEF With, Occs, Clean, Tautology, Open, Residual

\* A literal is open with its negation.
LEMMA OpenTwin ==
  ASSUME NEW p \in Lits, Open(p)
  PROVE  Open(-p) /\ -p \in Lits /\ -(-p) = p
BY LitFacts DEF Open

\* Two literals that are one another's negation leave no assignment out.
LEMMA BothSigns ==
  ASSUME NEW S, NEW x \in Lits, x \in S, -x \in S, NEW a, Total(a)
  PROVE  S \cap a # {}
BY DEF Total

\* Two binary clauses that make the pivot equivalent to a literal are a gate.
LEMMA EquivalenceGate ==
  ASSUME Clean, NEW p \in Lits, Open(p), NEW g \in EquivalenceGates(p)
  PROVE  /\ Gate(p, g)
         /\ \E e, f \in irr, x \in Lits :
              g = {e, f} /\ Residual(e) = {-p, x} /\ Residual(f) = {p, -x}
<1>0. Open(-p) /\ -p \in Lits /\ -(-p) = p /\ p \in Int
  BY OpenTwin, LitFacts
<1>20. PICK C, D : C = With(-p) /\ D = With(p)
  OBVIOUS
<1>21. /\ g \in {{c, d} : c \in C, d \in D}
      /\ \E e, f \in g : \E x \in Lits : Residual(e) = {-p, x} /\ Residual(f) = {p, -x}
  BY <1>20 DEF EquivalenceGates, Is
<1>1. PICK c \in C, d \in D : g = {c, d}
  BY <1>21
<1>2. PICK e, f \in g : \E x \in Lits : Residual(e) = {-p, x} /\ Residual(f) = {p, -x}
  BY <1>21
<1>3. PICK x \in Lits : Residual(e) = {-p, x} /\ Residual(f) = {p, -x}
  BY <1>2
<1>4. /\ c \in irr /\ -p \in c /\ p \notin c /\ d \in irr /\ p \in d /\ -p \notin d
      /\ c \subseteq Lits /\ d \subseteq Lits
  BY <1>0, <1>1, <1>20, WithFacts
<1>5. /\ Residual(c) \subseteq c /\ Residual(d) \subseteq d
      /\ Cardinality(Residual(c)) >= 2 /\ Cardinality(Residual(d)) >= 2
      /\ ~Tautology(c) /\ ~Tautology(d)
  BY <1>4 DEF Clean
<1>6. e = c /\ f = d /\ g = {e, f}
  BY <1>1, <1>2, <1>3, <1>4, <1>5
<1>7. x # p /\ x # -p
  <2>1. x # p
    BY <1>3, <1>4, <1>5, <1>6
  <2>2. x # -p
    <3>1. Residual(e) \ {-p} # {}
      BY <1>4, <1>5, <1>6, NotEmpty
    <3> QED BY <3>1, <1>3
  <2> QED BY <2>1, <2>2
<1>8. x \in Int /\ -x \in Lits /\ -(-x) = x /\ -x # p
  <2>1. x \in Int /\ -x \in Lits /\ -(-x) = x
    BY LitFacts
  <2> QED BY <2>1, <1>7
<1>9. ASSUME NEW a, Total(a)
      PROVE  /\ ((Residual(f) \ {p}) \cup (Residual(e) \ {-p})) \cap a # {}
             /\ \E h \in g : (Residual(h) \ {p, -p}) \cap a = {}
  <2>1. x \in Residual(e) \ {-p} /\ -x \in Residual(f) \ {p}
    BY <1>3, <1>7, <1>8
  <2>2. ((Residual(f) \ {p}) \cup (Residual(e) \ {-p})) \cap a # {}
    BY <2>1, <1>9, BothSigns
  <2>3. x \in a => (Residual(f) \ {p, -p}) \cap a = {}
    BY <1>3, <1>9 DEF Total
  <2>4. x \notin a => (Residual(e) \ {p, -p}) \cap a = {}
    BY <1>3
  <2> QED BY <2>2, <2>3, <2>4, <1>6
<1>10. \A h \in g, k \in g : p \in h /\ -p \in k => h = f /\ k = e
  BY <1>4, <1>6
<1>11. \A h \in g : p \in h \/ -p \in h
  BY <1>4, <1>6
<1>12. \A h \in g, k \in g : p \in h /\ -p \in k =>
        \A a : Total(a) => ((Residual(h) \ {p}) \cup (Residual(k) \ {-p})) \cap a # {}
  BY <1>9, <1>10
<1>13. e \in irr /\ f \in irr
  BY <1>4, <1>6
<1>14. g \subseteq irr /\ g # {}
  BY <1>6, <1>13
<1>15. Gate(p, g)
  BY <1>9, <1>11, <1>12, <1>14 DEF Gate
<1> QED BY <1>15, <1>3, <1>6, <1>13

\* find_and_gate finds gates.
LEMMA AndGate ==
  ASSUME Clean, NEW p \in Lits, Open(p), NEW g \in AndGates(p)
  PROVE  Gate(p, g)
<1>0. Open(-p) /\ -p \in Lits /\ -(-p) = p /\ p \in Int
  BY OpenTwin, LitFacts
<1> DEFINE inputs(b) == Residual(b) \ {-p}
           sides(b) == {c \in With(p) : \E l \in inputs(b) : Is(c, {p, -l})}
<1>1. PICK b \in With(-p) : /\ g = {b} \cup sides(b) /\ inputs(b) # {}
                            /\ \A l \in inputs(b) : \E d \in With(p) : Is(d, {p, -l})
  BY DEF AndGates
<1>2. PICK I, S : I = inputs(b) /\ S = sides(b)
  OBVIOUS
<1>3. /\ g = {b} \cup S /\ I = Residual(b) \ {-p}
      /\ \A c : c \in S <=> c \in With(p) /\ \E l \in I : Residual(c) = {p, -l}
      /\ \A l \in I : \E d \in With(p) : Residual(d) = {p, -l}
  BY <1>1, <1>2 DEF Is
<1> HIDE DEF inputs, sides
<1>4. /\ b \in irr /\ -p \in b /\ p \notin b /\ b \subseteq Lits /\ Residual(b) \subseteq b
      /\ -p \in Residual(b)
  BY <1>0, WithFacts
<1>5. \A c \in S : c \in irr /\ p \in c /\ -p \notin c
  BY <1>3, WithFacts
<1>6. \A l \in I : l \in Lits /\ l # p /\ l # -p /\ -l \in Lits /\ -(-l) = l /\ -l # p
  BY <1>0, <1>3, <1>4, LitFacts
<1>7. ASSUME NEW c \in g, NEW d \in g, p \in c, -p \in d, NEW a, Total(a)
      PROVE  ((Residual(c) \ {p}) \cup (Residual(d) \ {-p})) \cap a # {}
  <2>1. c \in S /\ d = b
    BY <1>3, <1>4, <1>5, <1>7
  <2>2. PICK l \in I : Residual(c) = {p, -l}
    BY <2>1, <1>3
  <2>3. l \in Residual(d) \ {-p} /\ -l \in Residual(c) \ {p} /\ l \in Lits
    BY <2>1, <2>2, <1>3, <1>6
  <2> QED BY <2>3, <1>7, BothSigns
<1>8. ASSUME NEW a, Total(a)
      PROVE  \E c \in g : (Residual(c) \ {p, -p}) \cap a = {}
  <2>1. CASE \E l \in I : l \in a
    <3>1. PICK l \in I : l \in a
      BY <2>1
    <3>2. PICK d \in With(p) : Residual(d) = {p, -l}
      BY <1>3
    <3>3. d \in g
      BY <1>3, <3>2
    <3>4. -l \notin a
      BY <1>6, <1>8, <3>1 DEF Total
    <3> QED BY <3>2, <3>3, <3>4
  <2>2. CASE \A l \in I : l \notin a
    <3>1. (Residual(b) \ {p, -p}) \cap a = {}
      BY <2>2, <1>3
    <3> QED BY <3>1, <1>3
  <2> QED BY <2>1, <2>2
<1>9. g \subseteq irr /\ g # {} /\ \A c \in g : p \in c \/ -p \in c
  BY <1>3, <1>4, <1>5
<1> QED BY <1>7, <1>8, <1>9 DEF Gate

\* find_if_then_else finds gates, once mark_binary_literals has given no unit.
LEMMA IfThenElseGate ==
  ASSUME Clean, NEW p \in Lits, Open(p), GateUnits(p) = {}, NEW g \in IfThenElseGates(p)
  PROVE  Gate(p, g)
<1>0. Open(-p) /\ -p \in Lits /\ -(-p) = p /\ p \in Int
  BY OpenTwin, LitFacts
<1>20. PICK P, N : P = With(p) /\ N = With(-p)
  OBVIOUS
<1>21. /\ g \in {{a, b, c, d} : a, b \in P, c, d \in N}
      /\ \E i, t, e \in Lits :
           /\ VarOf(t) # VarOf(e) /\ VarOf(i) \notin {VarOf(t), VarOf(e)}
           /\ \E a \in g : Residual(a) = {p, i, t}
           /\ \E b \in g : Residual(b) = {p, -i, e}
           /\ \E c \in g : Residual(c) = {-p, i, -t}
           /\ \E d \in g : Residual(d) = {-p, -i, -e}
  BY <1>20 DEF IfThenElseGates, Is
<1>1. PICK a1, b1 \in P, c1, d1 \in N : g = {a1, b1, c1, d1}
  BY <1>21
<1>2. PICK i, t, e \in Lits :
           /\ VarOf(t) # VarOf(e) /\ VarOf(i) \notin {VarOf(t), VarOf(e)}
           /\ \E a \in g : Residual(a) = {p, i, t}
           /\ \E b \in g : Residual(b) = {p, -i, e}
           /\ \E c \in g : Residual(c) = {-p, i, -t}
           /\ \E d \in g : Residual(d) = {-p, -i, -e}
  BY <1>21
<1>3. PICK A, B, C, D \in g :
        /\ Residual(A) = {p, i, t} /\ Residual(B) = {p, -i, e}
        /\ Residual(C) = {-p, i, -t} /\ Residual(D) = {-p, -i, -e}
  BY <1>2
<1>4. \A c \in P : c \in irr /\ p \in c /\ -p \notin c /\ Residual(c) \subseteq c
  BY <1>20, WithFacts
<1>5. \A c \in N : c \in irr /\ -p \in c /\ p \notin c /\ Residual(c) \subseteq c
  BY <1>0, <1>20, WithFacts
<1>6. A \in {a1, b1} /\ B \in {a1, b1} /\ C \in {c1, d1} /\ D \in {c1, d1}
  <2>1. A \in P /\ B \in P
    BY <1>1, <1>3, <1>4, <1>5
  <2>2. C \in N /\ D \in N
    BY <1>1, <1>3, <1>4, <1>5
  <2> QED BY <2>1, <2>2, <1>1, <1>3, <1>4, <1>5
<1>7. /\ i \in Int /\ -i \in Lits /\ -(-i) = i /\ i # -i
      /\ t \in Int /\ -t \in Lits /\ -(-t) = t
      /\ e \in Int /\ -e \in Lits /\ -(-e) = e
      /\ i # t /\ i # -t /\ i # e /\ i # -e
  <2>1. VarOf(-t) = VarOf(t) /\ VarOf(-e) = VarOf(e)
    BY LitFacts
  <2>2. i # t /\ i # -t /\ i # e /\ i # -e
    BY <1>2, <2>1
  <2> QED BY <2>2, LitFacts
<1>8. i # p /\ i # -p
  <2>1. C \in N /\ A \in P
    BY <1>1, <1>6
  <2>2. p \notin Residual(C) /\ -p \notin Residual(A)
    BY <2>1, <1>4, <1>5
  <2> QED BY <2>2, <1>3
<1>9. -i # p /\ -i # -p
  BY <1>0, <1>7, <1>8
<1>10. t # p /\ t # -p
  <2>1. t # -p
    <3>1. A \in P
      BY <1>1, <1>6
    <3>2. -p \notin Residual(A)
      BY <3>1, <1>4
    <3> QED BY <3>2, <1>3
  <2>2. ASSUME t = p  PROVE FALSE
    <3>1. A \in P /\ C \in N /\ Residual(A) = {p, i} /\ Residual(C) = {-p, i}
      BY <2>2, <1>1, <1>3, <1>6
    <3>2. i \in GateUnits(p)
      BY <3>1, <1>20 DEF GateUnits, Is
    <3> QED BY <3>2
  <2> QED BY <2>1, <2>2
<1>11. e # p /\ e # -p
  <2>1. e # -p
    <3>1. B \in P
      BY <1>1, <1>6
    <3>2. -p \notin Residual(B)
      BY <3>1, <1>4
    <3> QED BY <3>2, <1>3
  <2>2. ASSUME e = p  PROVE FALSE
    <3>1. B \in P /\ D \in N /\ Residual(B) = {p, -i} /\ Residual(D) = {-p, -i}
      BY <2>2, <1>1, <1>3, <1>6
    <3>2. -i \in GateUnits(p)
      BY <3>1, <1>20, <1>7 DEF GateUnits, Is
    <3> QED BY <3>2
  <2> QED BY <2>1, <2>2
<1>12. -t # p /\ -t # -p /\ -e # p /\ -e # -p
  BY <1>0, <1>7, <1>10, <1>11
<1>13. A # B /\ C # D
  <2>1. i \in Residual(A) /\ i \notin Residual(B)
    BY <1>3, <1>7, <1>8
  <2>2. i \in Residual(C) /\ i \notin Residual(D)
    BY <1>3, <1>7, <1>8
  <2> QED BY <2>1, <2>2
<1>14. {a1, b1} = {A, B} /\ {c1, d1} = {C, D}
  BY <1>6, <1>13
<1>15. A \in P /\ B \in P /\ C \in N /\ D \in N
  BY <1>1, <1>6
<1>16. \A c \in g : (c \in {A, B} /\ c \in P) \/ (c \in {C, D} /\ c \in N)
  BY <1>1, <1>14
<1>17. ASSUME NEW c \in g, NEW d \in g, p \in c, -p \in d, NEW a, Total(a)
       PROVE  ((Residual(c) \ {p}) \cup (Residual(d) \ {-p})) \cap a # {}
  <2>1. c \in {A, B} /\ d \in {C, D}
    BY <1>4, <1>5, <1>16, <1>17
  <2>2. PICK U : U = (Residual(c) \ {p}) \cup (Residual(d) \ {-p})
    OBVIOUS
  <2>3. CASE c = A /\ d = C
    <3>1. t \in U /\ -t \in U
      BY <2>2, <2>3, <1>3, <1>10, <1>12
    <3> QED BY <3>1, <2>2, <1>17, BothSigns
  <2>4. CASE c = A /\ d = D
    <3>1. i \in U /\ -i \in U
      BY <2>2, <2>4, <1>3, <1>8, <1>9
    <3> QED BY <3>1, <2>2, <1>17, BothSigns
  <2>5. CASE c = B /\ d = C
    <3>1. i \in U /\ -i \in U
      BY <2>2, <2>5, <1>3, <1>8, <1>9
    <3> QED BY <3>1, <2>2, <1>17, BothSigns
  <2>6. CASE c = B /\ d = D
    <3>1. e \in U /\ -e \in U
      BY <2>2, <2>6, <1>3, <1>11, <1>12
    <3> QED BY <3>1, <2>2, <1>17, BothSigns
  <2> QED BY <2>1, <2>3, <2>4, <2>5, <2>6
<1>18. ASSUME NEW a, Total(a)
       PROVE  \E c \in g : (Residual(c) \ {p, -p}) \cap a = {}
  <2>1. ~(i \in a /\ -i \in a) /\ ~(t \in a /\ -t \in a) /\ ~(e \in a /\ -e \in a)
    BY <1>18 DEF Total
  <2>2. CASE i \in a /\ e \notin a
    <3>1. (Residual(B) \ {p, -p}) \cap a = {}
      BY <2>1, <2>2, <1>3
    <3> QED BY <3>1
  <2>3. CASE i \in a /\ e \in a
    <3>1. (Residual(D) \ {p, -p}) \cap a = {}
      BY <2>1, <2>3, <1>3
    <3> QED BY <3>1
  <2>4. CASE i \notin a /\ t \notin a
    <3>1. (Residual(A) \ {p, -p}) \cap a = {}
      BY <2>1, <2>4, <1>3
    <3> QED BY <3>1
  <2>5. CASE i \notin a /\ t \in a
    <3>1. (Residual(C) \ {p, -p}) \cap a = {}
      BY <2>1, <2>5, <1>3
    <3> QED BY <3>1
  <2> QED BY <2>2, <2>3, <2>4, <2>5
<1>19. g \subseteq irr /\ g # {} /\ \A c \in g : p \in c \/ -p \in c
  BY <1>3, <1>4, <1>5, <1>16
<1> QED BY <1>17, <1>18, <1>19 DEF Gate

\* The clause r with the signs of F changed.
Varied(r, F) == (r \ F) \cup Negated(F)

\* A clause with some of its signs changed.
LEMMA VariedFacts ==
  ASSUME NEW r, r \subseteq Lits, ~Tautology(r), NEW F, F \subseteq r
  PROVE  /\ Varied(r, F) \subseteq Lits
         /\ \A x \in r : /\ x \in Varied(r, F) <=> x \notin F
                         /\ -x \in Varied(r, F) <=> x \in F
         /\ \A y \in Varied(r, F) : \/ y \in r /\ y \notin F
                                    \/ \E x \in F : y = -x
<1>1. Negated(F) \subseteq Lits /\ \A l \in Lits : l \in Negated(F) <=> -l \in F
  BY NegatedFacts
<1>2. ASSUME NEW x \in r
      PROVE  /\ x \in Varied(r, F) <=> x \notin F
             /\ -x \in Varied(r, F) <=> x \in F
  <2>1. x \in Lits /\ -x \in Lits /\ -(-x) = x /\ -x \notin r
    BY <1>2, LitFacts DEF Tautology
  <2> QED BY <2>1, <1>1, <1>2 DEF Varied
<1>3. \A y \in Varied(r, F) : (y \in r /\ y \notin F) \/ (\E x \in F : y = -x)
  BY DEF Varied, Negated
<1> QED BY <1>1, <1>2, <1>3 DEF Varied

\* find_xor_gate finds gates.
LEMMA XorGate ==
  ASSUME Clean, NEW p \in Lits, Open(p), NEW g \in XorGates(p)
  PROVE  Gate(p, g)
<1>0. Open(-p) /\ -p \in Lits /\ -(-p) = p /\ p \in Int
  BY OpenTwin, LitFacts
<1>1. PICK P, N : P = With(p) /\ N = With(-p)
  OBVIOUS
<1>2. /\ \A c \in P : c \in irr /\ p \in c /\ -p \notin c /\ Residual(c) \subseteq c /\ p \in Residual(c)
      /\ \A c \in N : c \in irr /\ -p \in c /\ p \notin c /\ Residual(c) \subseteq c /\ -p \in Residual(c)
  <2>1. \A c \in P : c \in irr /\ p \in c /\ -p \notin c /\ Residual(c) \subseteq c /\ p \in Residual(c)
    BY <1>1, WithFacts
  <2>2. ASSUME NEW c \in N
        PROVE  c \in irr /\ -p \in c /\ p \notin c /\ Residual(c) \subseteq c /\ -p \in Residual(c)
    BY <1>0, <1>1, WithFacts
  <2> QED BY <2>1, <2>2
<1> DEFINE variants(r) == {(r \ F) \cup Negated(F) :
                             F \in {G \in SUBSET r : Cardinality(G) % 2 = 0}}
<1>3. PICK b \in P : /\ g = {c \in P \cup N : Residual(c) \in variants(Residual(b))}
                     /\ \A r \in variants(Residual(b)) : \E d \in P \cup N : Residual(d) = r
  BY <1>1 DEF XorGates, Is
<1>4. PICK r, V : r = Residual(b) /\ V = variants(r)
  OBVIOUS
<1>5. /\ g = {c \in P \cup N : Residual(c) \in V}
      /\ \A v \in V : \E d \in P \cup N : Residual(d) = v
  BY <1>3, <1>4
<1>6. /\ \A v \in V : \E F \in SUBSET r : Cardinality(F) % 2 = 0 /\ v = Varied(r, F)
      /\ \A F \in SUBSET r : Cardinality(F) % 2 = 0 => Varied(r, F) \in V
  BY <1>4 DEF Varied
<1> HIDE DEF variants
<1>7. r \subseteq Lits /\ ~Tautology(r) /\ p \in r /\ -p \notin r
  <2>1. b \in irr /\ r \subseteq b /\ p \in r /\ -p \notin b
    BY <1>2, <1>4
  <2>2. b \subseteq Lits /\ ~Tautology(b)
    BY <2>1 DEF Clean
  <2> QED BY <2>1, <2>2 DEF Tautology
<1>8. ASSUME NEW x \in r, x # p
      PROVE  x \in Lits /\ x # -p /\ -x \in Lits /\ -x # p /\ -x # -p
  <2>1. x \in Lits /\ x # -p /\ -x \in Lits /\ -(-x) = x
    BY <1>7, <1>8, LitFacts
  <2> QED BY <2>1, <1>0, <1>8
<1>9. ASSUME NEW c \in g, NEW d \in g, p \in c, -p \in d, NEW a, Total(a)
      PROVE  ((Residual(c) \ {p}) \cup (Residual(d) \ {-p})) \cap a # {}
  <2>1. SUFFICES ASSUME ((Residual(c) \ {p}) \cup (Residual(d) \ {-p})) \cap a = {}  PROVE FALSE
    OBVIOUS
  <2>2. c \in P /\ d \in N
    BY <1>2, <1>5, <1>9
  <2>3. PICK F \in SUBSET r : Cardinality(F) % 2 = 0 /\ Residual(c) = Varied(r, F)
    BY <1>5, <1>6
  <2>4. PICK G \in SUBSET r : Cardinality(G) % 2 = 0 /\ Residual(d) = Varied(r, G)
    BY <1>5, <1>6
  <2>5. p \notin F /\ p \in G
    <3>1. p \in Residual(c) /\ -p \in Residual(d)
      BY <2>2, <1>2
    <3>2. p \in Varied(r, F) <=> p \notin F
      BY <1>7, VariedFacts
    <3>3. -p \in Varied(r, G) <=> p \in G
      BY <1>7, VariedFacts
    <3> QED BY <3>1, <3>2, <3>3, <2>3, <2>4
  <2>6. ASSUME NEW x \in r, x # p  PROVE (x \in F <=> x \in a) /\ (x \in G <=> x \in a)
    <3>1. x \in Lits /\ x # -p /\ -x # p /\ -x # -p
      BY <2>6, <1>8
    <3>2. /\ x \in Residual(c) <=> x \notin F
          /\ -x \in Residual(c) <=> x \in F
          /\ x \in Residual(d) <=> x \notin G
          /\ -x \in Residual(d) <=> x \in G
      BY <2>3, <2>4, <2>6, <1>7, VariedFacts
    <3>3. -x \in a <=> x \notin a
      BY <3>1, <1>9 DEF Total
    <3> QED BY <3>1, <3>2, <3>3, <2>1, <2>6
  <2>7. G = F \cup {p}
    BY <2>5, <2>6
  <2>8. IsFiniteSet(F) /\ Cardinality(F) \in Nat
    BY <1>7, Singletons
  <2>9. Cardinality(G) = Cardinality(F) + 1
    BY <2>5, <2>7, <2>8, FS_AddElement
  <2>10. PICK n \in Nat : n = Cardinality(F)
    BY <2>8
  <2>11. n % 2 = 0 /\ (n + 1) % 2 = 0
    BY <2>3, <2>4, <2>9, <2>10
  <2> QED BY ONLY <2>11
<1>10. ASSUME NEW a, Total(a)
       PROVE  \E c \in g : (Residual(c) \ {p, -p}) \cap a = {}
  <2>1. PICK F : F = {x \in r : x # p /\ x \in a}
    OBVIOUS
  <2>2. F \subseteq r /\ p \notin F /\ IsFiniteSet(F) /\ Cardinality(F) \in Nat
    <3>1. F \subseteq r /\ p \notin F
      BY <2>1
    <3> QED BY <3>1, <1>7, Singletons
  <2>3. PICK G \in SUBSET r : /\ Cardinality(G) % 2 = 0
                              /\ \A x \in r : x # p => (x \in G <=> x \in a)
    <3>1. PICK n \in Nat : n = Cardinality(F)
      BY <2>2
    <3>2. CASE n % 2 = 0
      BY <3>1, <3>2, <2>1, <2>2
    <3>3. CASE n % 2 # 0
      <4>1. Cardinality(F \cup {p}) = n + 1
        BY <3>1, <2>2, FS_AddElement
      <4>2. (n + 1) % 2 = 0
        BY ONLY <3>3, n \in Nat
      <4>3. F \cup {p} \in SUBSET r
        BY <2>2, <1>7
      <4> QED BY <4>1, <4>2, <4>3, <2>1
    <3> QED BY <3>2, <3>3
  <2>4. PICK c \in P \cup N : Residual(c) = Varied(r, G)
    BY <2>3, <1>5, <1>6
  <2>5. c \in g
    BY <2>3, <2>4, <1>5, <1>6
  <2>6. ASSUME NEW y \in Residual(c), y # p, y # -p  PROVE y \notin a
    <3>1. (y \in r /\ y \notin G) \/ (\E x \in G : y = -x)
      BY <2>4, <2>6, <1>7, VariedFacts
    <3>2. CASE y \in r /\ y \notin G
      BY <3>2, <2>3, <2>6
    <3>3. CASE \E x \in G : y = -x
      <4>1. PICK x \in G : y = -x
        BY <3>3
      <4>2. x \in r /\ x \in Lits /\ x # p
        BY <4>1, <1>7, <2>6
      <4>3. x \in a
        BY <4>1, <4>2, <2>3
      <4> QED BY <4>1, <4>2, <4>3, <1>10 DEF Total
    <3> QED BY <3>1, <3>2, <3>3
  <2> QED BY <2>5, <2>6
<1>11. g \subseteq irr /\ g # {} /\ \A c \in g : p \in c \/ -p \in c
  <2>1. g # {}
    <3>1. Total(Vars)
      BY DEF Total, Vars, Lits
    <3> QED BY <3>1, <1>10
  <2> QED BY <2>1, <1>2, <1>5
<1> QED BY <1>9, <1>10, <1>11 DEF Gate

\* The gate found is of the first kind there is; with an equivalence gate a
\* unit may still be among the resolvents.
LEMMA GatesFacts ==
  ASSUME Clean, NEW p \in Lits, Open(p), GateUnits(p) = {} \/ EquivalenceGates(p) # {},
         NEW g \in Gates(p)
  PROVE  /\ g = {} \/ Gate(p, g)
         /\ GateUnits(p) # {} /\ With(p) # {} =>
              \E e, f \in irr, x \in Lits :
                g = {e, f} /\ Residual(e) = {-p, x} /\ Residual(f) = {p, -x}
<1>1. CASE With(p) = {}
  BY <1>1 DEF Gates
<1>2. CASE With(p) # {}
  <2>1. PICK E1, A1, A2, I1, X1 :
          /\ E1 = EquivalenceGates(p) /\ A1 = AndGates(p) /\ A2 = AndGates(-p)
          /\ I1 = IfThenElseGates(p) /\ X1 = XorGates(p)
    OBVIOUS
  <2> DEFINE kinds == <<E1, A1, A2, I1, X1>>
             found == {n \in DOMAIN kinds : kinds[n] # {}}
             first == CHOOSE n \in found : \A m \in found : n <= m
  <2>2. Gates(p) = IF found = {} THEN {{}} ELSE kinds[first]
    BY <1>2, <2>1 DEF Gates
  <2>3. /\ DOMAIN kinds = 1 .. 5 /\ kinds[1] = E1 /\ kinds[2] = A1 /\ kinds[3] = A2
        /\ kinds[4] = I1 /\ kinds[5] = X1
    OBVIOUS
  <2> HIDE DEF kinds
  <2>4. CASE found = {}
    <3>1. g = {}
      BY <2>2, <2>4
    <3>2. E1 = {}
      BY <2>3, <2>4
    <3> QED BY <3>1, <3>2, <2>1
  <2>5. CASE found # {}
    <3>1. found \subseteq Nat
      BY <2>3
    <3>2. first \in found /\ \A m \in found : first <= m
      <4>1. \E n \in found : \A m \in found : n <= m
        BY <2>5, <3>1, LeastNat
      <4> QED BY <4>1
    <3> HIDE DEF first
    <3>3. first \in 1 .. 5 /\ g \in kinds[first]
      BY <2>2, <2>3, <2>5, <3>2
    <3>4. E1 # {} => first = 1
      <4>1. E1 # {} => 1 \in found
        BY <2>3
      <4> QED BY <4>1, <3>2, <3>3
    <3> HIDE DEF found
    <3>5. first = 1 \/ first = 2 \/ first = 3 \/ first = 4 \/ first = 5
      BY <3>3
    <3>6. g \in E1 \/ g \in A1 \/ g \in A2 \/ (g \in I1 /\ E1 = {}) \/ g \in X1
      BY <2>3, <3>3, <3>4, <3>5
    <3>7. ASSUME g \in E1  PROVE Gate(p, g)
      BY <3>7, <2>1, EquivalenceGate
    <3>8. ASSUME g \in A1  PROVE Gate(p, g)
      BY <3>8, <2>1, AndGate
    <3>9. ASSUME g \in A2  PROVE Gate(p, g)
      <4>1. PICK q : q = -p
        OBVIOUS
      <4>2. q \in Lits /\ Open(q)
        BY <4>1, OpenTwin
      <4>3. Gate(q, g)
        BY <4>1, <4>2, <3>9, <2>1, AndGate
      <4> QED BY <4>1, <4>3, GateTwin
    <3>10. ASSUME g \in I1 /\ E1 = {}  PROVE Gate(p, g)
      BY <3>10, <2>1, IfThenElseGate
    <3>11. ASSUME g \in X1  PROVE Gate(p, g)
      BY <3>11, <2>1, XorGate
    <3>12. g = {} \/ Gate(p, g)
      BY <3>6, <3>7, <3>8, <3>9, <3>10, <3>11
    <3>13. GateUnits(p) # {} => g \in E1
      BY <2>1, <2>3, <3>3, <3>4
    <3> QED BY <3>12, <3>13, <2>1, EquivalenceGate
  <2> QED BY <2>4, <2>5
<1> QED BY <1>1, <1>2

\* What the clauses p and -p are resolved from leaves open.
LEMMA ResolventResidual ==
  ASSUME NEW p \in Lits, NEW c, c \subseteq Lits, NEW d, d \subseteq Lits
  PROVE  /\ Residual(Resolvent(c, p, d)) = (Residual(c) \ {p}) \cup (Residual(d) \ {-p})
         /\ Residual(Resolvent(c, p, d)) \subseteq Lits
BY DEF Residual, Resolvent

\* A resolvent shorter than two literals comes from two binary clauses, and its unit
\* is one that mark_binary_literals gives.
LEMMA SmallResolvent ==
  ASSUME Clean, NEW p \in Lits, Open(p), NEW c \in irr, NEW d \in irr, p \in c, -p \in d,
         ~(Cardinality(Residual(Resolvent(c, p, d))) >= 2)
  PROVE  \E x \in Lits : /\ Residual(c) = {p, x} /\ Residual(d) = {-p, x} /\ x \in GateUnits(p)
                         /\ Residual(Resolvent(c, p, d)) = {x} /\ x # p /\ x # -p
<1>0. Open(-p) /\ -p \in Lits /\ -(-p) = p
  BY OpenTwin
<1>1. c \in With(p) /\ d \in With(-p)
  BY DEF With, Occs, True, Clean
<1>2. /\ c \subseteq Lits /\ p \in Residual(c) /\ Cardinality(Residual(c)) >= 2 /\ -p \notin c
      /\ Residual(c) \subseteq c
  BY <1>1, WithFacts
<1>3. /\ d \subseteq Lits /\ -p \in Residual(d) /\ Cardinality(Residual(d)) >= 2 /\ p \notin d
      /\ Residual(d) \subseteq d
  BY <1>0, <1>1, WithFacts
<1>4. PICK C, D, r : /\ C = Residual(c) /\ D = Residual(d)
                     /\ r = Residual(Resolvent(c, p, d))
  OBVIOUS
<1>5. r = (C \ {p}) \cup (D \ {-p}) /\ r \subseteq Lits
  BY <1>2, <1>3, <1>4, ResolventResidual
<1>6. C \ {p} # {} /\ D \ {-p} # {}
  <2>1. C \subseteq Lits /\ D \subseteq Lits
    BY <1>2, <1>3, <1>4
  <2> QED BY <2>1, <1>2, <1>3, <1>4, NotEmpty
<1>7. \A x, y \in r : x = y
  BY <1>4, <1>5, TwoOrMore
<1>8. PICK x : x \in C \ {p}
  BY <1>6
<1>9. x \in D \ {-p} /\ r = {x}
  BY <1>5, <1>6, <1>7, <1>8
<1>10. C = {p, x} /\ D = {-p, x} /\ x \in Lits
  BY <1>2, <1>3, <1>4, <1>5, <1>8, <1>9
<1>11. x # p /\ x # -p
  BY <1>8, <1>9
<1>12. x \in GateUnits(p)
  BY <1>1, <1>4, <1>10 DEF GateUnits, Is
<1> QED BY <1>4, <1>9, <1>10, <1>11, <1>12

ResolveOK(p, g, todo, adding) ==
  /\ p \in Lits /\ ~Frozen(p) /\ adding \in BOOLEAN
  /\ todo \subseteq (SUBSET Lits) \X (SUBSET Lits)
  /\ \A q \in todo : May(p, g, q[1], q[2])
  /\ Defines(p, g)
  /\ adding => Open(p) /\ Resolved(p, g, todo)
  /\ Open(p) => GateKept(p, g) /\ NoUnits(p, g, IF adding THEN {} ELSE todo)

\* From its parts, that a resolution is in progress.
LEMMA ResolvingNow ==
  ASSUME NEW p, NEW g, NEW todo, NEW adding, NEW f, NEW n, NEW b,
         plan' = plan, plan # <<>>, Head(plan) = "elim",
         work' = [kind |-> "resolve", pivot |-> p, gate |-> g, todo |-> todo, adding |-> adding,
                  found |-> f, count |-> n, bound |-> b],
         ResolveOK(p, g, todo, adding)'
  PROVE  Working' /\ work'.kind # "substitute"
<1>1. /\ work'.kind = "resolve" /\ work'.pivot = p /\ work'.gate = g /\ work'.todo = todo
      /\ work'.adding = adding /\ work'.found = f /\ work'.count = n /\ work'.bound = b
      /\ work' = [kind |-> "resolve", pivot |-> work'.pivot, gate |-> work'.gate, todo |-> work'.todo,
                  adding |-> work'.adding, found |-> work'.found, count |-> work'.count,
                  bound |-> work'.bound]
  OBVIOUS
<1>2. /\ p \in Lits /\ ~Frozen(p)' /\ adding \in BOOLEAN
      /\ todo \subseteq (SUBSET Lits) \X (SUBSET Lits)
      /\ \A q \in todo : May(p, g, q[1], q[2])
      /\ Defines(p, g)'
      /\ adding => Open(p)' /\ Resolved(p, g, todo)'
      /\ Open(p)' => GateKept(p, g)' /\ NoUnits(p, g, IF adding THEN {} ELSE todo)'
  BY DEF ResolveOK, May
<1>3. Resolving'
  BY <1>1, <1>2 DEF Resolving, Defines, Resolved, GateKept, NoUnits, Frozen, Open
<1> QED BY <1>1, <1>3 DEF Working

\* What holds while a variable is resolved.
LEMMA ResolveFacts ==
  ASSUME Inv, Doing("resolve")
  PROVE  /\ Running /\ Clean /\ plan # <<>> /\ Head(plan) = "elim" /\ Late
         /\ work = [kind |-> "resolve", pivot |-> work.pivot, gate |-> work.gate, todo |-> work.todo,
                    adding |-> work.adding, found |-> work.found, count |-> work.count,
                    bound |-> work.bound]
         /\ ResolveOK(work.pivot, work.gate, work.todo, work.adding)
<1>1. "resolve" \in {"resolve", "backward", "cover", "condition"}
  OBVIOUS
<1>2. Running /\ Resolving
  BY <1>1, KindFacts
<1>3. plan # <<>> /\ Head(plan) = "elim" /\ Late
  BY <1>2 DEF Resolving, Late
<1>4. Clean
  BY <1>2, <1>3, CleanFacts
<1>5. /\ work = [kind |-> "resolve", pivot |-> work.pivot, gate |-> work.gate, todo |-> work.todo,
                    adding |-> work.adding, found |-> work.found, count |-> work.count,
                    bound |-> work.bound]
      /\ ResolveOK(work.pivot, work.gate, work.todo, work.adding)
  BY <1>2 DEF Resolving, ResolveOK
<1> QED BY <1>2, <1>3, <1>4, <1>5

\* The pairs to resolve are those that may be resolved, and all of them.
LEMMA PairsFacts ==
  ASSUME irr \subseteq SUBSET Lits, NEW p, NEW g
  PROVE  /\ Pairs(p, g) \subseteq (SUBSET Lits) \X (SUBSET Lits)
         /\ \A q \in Pairs(p, g) : May(p, g, q[1], q[2])
         /\ \A c \in irr, d \in irr : May(p, g, c, d) => <<c, d>> \in Pairs(p, g)
<1>1. \A l : Occs(l) \subseteq SUBSET Lits /\ \A c : c \in Occs(l) <=> c \in irr /\ l \in c
  BY DEF Occs
<1>2. PICK P, N : P = Occs(p) /\ N = Occs(-p)
  OBVIOUS
<1>3. Pairs(p, g) = {q \in P \X N : g = {} \/ (q[1] \in g) # (q[2] \in g)}
  BY <1>2 DEF Pairs
<1>4. ASSUME NEW q \in Pairs(p, g)  PROVE q \in (SUBSET Lits) \X (SUBSET Lits) /\ May(p, g, q[1], q[2])
  <2>1. q \in P \X N /\ (g = {} \/ (q[1] \in g) # (q[2] \in g))
    BY <1>3, <1>4
  <2>2. q[1] \in P /\ q[2] \in N /\ q = <<q[1], q[2]>>
    BY <2>1
  <2>3. p \in q[1] /\ -p \in q[2] /\ q[1] \in SUBSET Lits /\ q[2] \in SUBSET Lits
    BY <2>2, <1>1, <1>2
  <2> QED BY <2>1, <2>2, <2>3 DEF May
<1>5. ASSUME NEW c \in irr, NEW d \in irr, May(p, g, c, d)  PROVE <<c, d>> \in Pairs(p, g)
  <2>1. c \in P /\ d \in N /\ (g = {} \/ (c \in g) # (d \in g))
    BY <1>1, <1>2, <1>5 DEF May
  <2> QED BY <2>1, <1>3
<1> QED BY <1>4, <1>5

\* The resolution starts with all pairs to do and nothing added.
LEMMA TryToEliminateInv ==
  ASSUME Inv, TryToEliminate
  PROVE  Inv'
<1>1. At("elim") /\ UNCHANGED <<database, extension, user, plan>>
  BY DEF TryToEliminate
<1>2. PICK p \in Lits, bound \in ElimBounds : \E gate \in Gates(p) :
        /\ Pivot(p)
        /\ p \notin GateUnits(p) /\ (GateUnits(p) = {} \/ EquivalenceGates(p) # {})
        /\ work' = [kind |-> "resolve", pivot |-> p, gate |-> gate, todo |-> Pairs(p, gate),
                    adding |-> FALSE, found |-> {}, count |-> 0,
                    bound |-> Cardinality(Occs(p)) + Cardinality(Occs(-p)) + bound]
  BY <1>1 DEF TryToEliminate
<1>3. PICK gate \in Gates(p) :
        /\ Pivot(p)
        /\ p \notin GateUnits(p) /\ (GateUnits(p) = {} \/ EquivalenceGates(p) # {})
        /\ work' = [kind |-> "resolve", pivot |-> p, gate |-> gate, todo |-> Pairs(p, gate),
                    adding |-> FALSE, found |-> {}, count |-> 0,
                    bound |-> Cardinality(Occs(p)) + Cardinality(Occs(-p)) + bound]
  BY <1>2
<1>4. Running /\ plan # <<>> /\ Head(plan) = "elim"
  BY <1>1, AtFacts
<1>5. Clean /\ irr \subseteq SUBSET Lits
  BY <1>4, CleanFacts DEF Running
<1>6. Open(p) /\ ~Frozen(p)
  <2>1. Active(p) /\ ~Frozen(p) /\ VarOf(-p) = VarOf(p) /\ -p \in Lits
    BY <1>3, LitFacts DEF Pivot, Eliminable, Active, Frozen, VarOf
  <2> QED BY <2>1, <1>4 DEF Running, Base, Active, Open
<1>7. PICK g, todo : g = gate /\ todo = Pairs(p, gate)
  OBVIOUS
<1>8. /\ todo \subseteq (SUBSET Lits) \X (SUBSET Lits)
      /\ \A q \in todo : May(p, g, q[1], q[2])
      /\ \A c \in irr, d \in irr : May(p, g, c, d) => <<c, d>> \in todo
  BY <1>5, <1>7, PairsFacts
<1>9. /\ g = {} \/ Gate(p, g)
      /\ GateUnits(p) # {} /\ With(p) # {} =>
              \E e, f \in irr, x \in Lits :
                g = {e, f} /\ Residual(e) = {-p, x} /\ Residual(f) = {p, -x}
  BY <1>3, <1>5, <1>6, <1>7, GatesFacts
<1>10. Defines(p, g) /\ g \subseteq irr
  <2>1. CASE g = {}
    BY <2>1 DEF Defines
  <2>2. CASE Gate(p, g)
    BY <2>2, <1>5, GateDefines
  <2> QED BY <2>1, <2>2, <1>9
<1>11. GateKept(p, g)
  BY <1>10 DEF GateKept
<1>12. NoUnits(p, g, todo)
  <2>1. ASSUME NEW c \in irr, NEW d \in irr, May(p, g, c, d),
               ~(Cardinality(Residual(Resolvent(c, p, d))) >= 2)
        PROVE  \E e, f \in irr, x \in Lits :
                 g = {e, f} /\ Residual(e) = {-p, x} /\ Residual(f) = {p, -x}
    <3>1. p \in c /\ -p \in d
      BY <2>1 DEF May
    <3>2. GateUnits(p) # {}
      BY <3>1, <2>1, <1>5, <1>6, SmallResolvent
    <3>3. c \in With(p)
      BY <3>1, <1>5 DEF With, Occs, True, Clean
    <3> QED BY <3>2, <3>3, <1>9
  <2> QED BY <2>1, <1>8 DEF NoUnits
<1>13. ResolveOK(p, g, todo, FALSE)
  BY <1>6, <1>8, <1>10, <1>11, <1>12 DEF ResolveOK
<1>14. UNCHANGED <<irr, units, observed>> /\ plan' = plan
  BY <1>1 DEF database, user
<1>15. ResolveOK(p, g, todo, FALSE)'
  BY <1>13, <1>14
     DEF ResolveOK, Frozen, Defines, Open, GateKept, NoUnits, Residual, Mod, Others, Resolved
<1>16. \E f, n, b : work' = [kind |-> "resolve", pivot |-> p, gate |-> g, todo |-> todo, adding |-> FALSE,
                  found |-> f, count |-> n, bound |-> b]
  BY <1>3, <1>7
<1>17. PICK f, n, b : work' = [kind |-> "resolve", pivot |-> p, gate |-> g, todo |-> todo, adding |-> FALSE,
                  found |-> f, count |-> n, bound |-> b]
  BY <1>16
<1>18. Working' /\ work'.kind # "substitute"
  BY ONLY <1>4, <1>14, <1>15, <1>17, ResolvingNow
<1> QED BY <1>1, <1>4, <1>18, WorkStep

-----------------------------------------------------------------------------
(* Resolving on the pivot.                                                 *)

\* Giving a variable up changes no clause.
LEMMA GiveUpInv ==
  ASSUME Inv, GiveUpElimination
  PROVE  Inv'
<1>1. /\ Doing("resolve") /\ UNCHANGED <<database, extension, user, plan>>
      /\ work' = [kind |-> "backward", queue |-> {}]
  BY DEF GiveUpElimination
<1>2. Running /\ plan # <<>> /\ Head(plan) = "elim"
  BY <1>1, ResolveFacts
<1>3. work'.kind = "backward" /\ work'.queue = {}
  BY <1>1
<1>4. InBackward'
  BY <1>1, <1>2, <1>3 DEF InBackward
<1>5. Working' /\ work'.kind # "substitute"
  BY <1>3, <1>4 DEF Working
<1> QED BY <1>1, <1>2, <1>5, WorkStep

\* Changing fields of the record leaves one of the same form.
LEMMA ResolveFields ==
  ASSUME NEW w, NEW p, NEW g, NEW t, NEW ad, NEW f, NEW n, NEW b,
         w = [kind |-> "resolve", pivot |-> p, gate |-> g, todo |-> t, adding |-> ad,
              found |-> f, count |-> n, bound |-> b],
         NEW v, NEW t2, NEW ad2, NEW f2, NEW n2
  PROVE  /\ v = [w EXCEPT !.todo = t2] =>
              v = [kind |-> "resolve", pivot |-> p, gate |-> g, todo |-> t2, adding |-> ad,
                   found |-> f, count |-> n, bound |-> b]
         /\ v = [[w EXCEPT !.todo = t2] EXCEPT !.found = f2, !.count = n2] =>
              v = [kind |-> "resolve", pivot |-> p, gate |-> g, todo |-> t2, adding |-> ad,
                   found |-> f2, count |-> n2, bound |-> b]
         /\ v = [w EXCEPT !.adding = ad2, !.found = f2, !.todo = t2] =>
              v = [kind |-> "resolve", pivot |-> p, gate |-> g, todo |-> t2, adding |-> ad2,
                   found |-> f2, count |-> n, bound |-> b]
OBVIOUS

\* While the resolution goes on the pivot has no value.
LEMMA NotStopped ==
  ASSUME Inv, Doing("resolve"), ~Stopped
  PROVE  Open(work.pivot)
<1>1. ResolveOK(work.pivot, work.gate, work.todo, work.adding) /\ Clean
  BY ResolveFacts
<1>2. CASE work.adding
  BY <1>1, <1>2 DEF ResolveOK
<1>3. CASE ~work.adding
  <2>1. work.pivot \notin units \cup Negated(units)
    BY <1>3 DEF Stopped
  <2>2. work.pivot \in Lits /\ units \subseteq Lits
    BY <1>1 DEF ResolveOK, Clean
  <2> QED BY <2>1, <2>2, NegatedFacts DEF Open
<1> QED BY <1>2, <1>3

\* The second pass starts: no resolvent is a unit, none has been added yet.
LEMMA StartAddingInv ==
  ASSUME Inv, StartAdding
  PROVE  Inv'
<1>1. /\ Doing("resolve") /\ ~work.adding /\ work.todo = {} /\ ~Stopped
      /\ work' = [work EXCEPT !.adding = TRUE, !.found = {},
                              !.todo = Pairs(work.pivot, work.gate)]
      /\ UNCHANGED <<database, extension, user, plan>>
  BY DEF StartAdding
<1>2. PICK w, v, p, g, t, ad, f, n, b :
        /\ w = work /\ v = work' /\ p = work.pivot /\ g = work.gate /\ t = work.todo /\ ad = work.adding
        /\ f = work.found /\ n = work.count /\ b = work.bound
  OBVIOUS
<1>3. /\ Running /\ Clean /\ plan # <<>> /\ Head(plan) = "elim"
      /\ w = [kind |-> "resolve", pivot |-> p, gate |-> g, todo |-> t, adding |-> ad,
              found |-> f, count |-> n, bound |-> b]
      /\ ResolveOK(p, g, t, ad)
  BY <1>1, <1>2, ResolveFacts
<1>4. PICK t2 : t2 = Pairs(p, g)
  OBVIOUS
<1>5. v = [w EXCEPT !.adding = TRUE, !.found = {}, !.todo = t2]
  BY <1>1, <1>2, <1>4
<1>6. v = [kind |-> "resolve", pivot |-> p, gate |-> g, todo |-> t2, adding |-> TRUE,
           found |-> {}, count |-> n, bound |-> b]
  BY ONLY <1>3, <1>5, ResolveFields
<1>7. Open(p)
  BY <1>1, <1>2, NotStopped
<1>8. /\ t2 \subseteq (SUBSET Lits) \X (SUBSET Lits)
      /\ \A q \in t2 : May(p, g, q[1], q[2])
      /\ \A c \in irr, d \in irr : May(p, g, c, d) => <<c, d>> \in t2
  BY <1>3, <1>4, PairsFacts DEF Clean
<1>9. t = {} /\ ad = FALSE
  <2>1. ad \in BOOLEAN
    BY <1>3 DEF ResolveOK
  <2> QED BY <2>1, <1>1, <1>2
<1>10. Resolved(p, g, t2)
  BY <1>8 DEF Resolved
<1>11. ResolveOK(p, g, t2, TRUE)
  BY <1>3, <1>7, <1>8, <1>9, <1>10 DEF ResolveOK
<1>12. UNCHANGED <<irr, units, observed>> /\ plan' = plan
  BY <1>1 DEF database, user
<1>13. ResolveOK(p, g, t2, TRUE)'
  BY <1>11, <1>12
     DEF ResolveOK, Frozen, Defines, Open, GateKept, NoUnits, Residual, Mod, Others, Resolved
<1>14. work' = [kind |-> "resolve", pivot |-> p, gate |-> g, todo |-> t2, adding |-> TRUE,
                found |-> {}, count |-> n, bound |-> b]
  BY <1>2, <1>6
<1>15. Working' /\ work'.kind # "substitute"
  BY ONLY <1>3, <1>12, <1>13, <1>14, ResolvingNow
<1> QED BY <1>1, <1>3, <1>15, WorkStep

\* A step on the pair c, d: nothing to keep, a unit, or a longer resolvent.
ResolveNext(p, g, t, ad) ==
  \E f, n, b : work' = [kind |-> "resolve", pivot |-> p, gate |-> g, todo |-> t, adding |-> ad,
                        found |-> f, count |-> n, bound |-> b]
ResolveStep(p, g, t, t2, ad, c, d) ==
  /\ Running /\ Clean /\ plan # <<>> /\ Head(plan) = "elim"
  /\ ResolveOK(p, g, t, ad) /\ Open(p) /\ <<c, d>> \in t /\ t2 = t \ {<<c, d>>}
  /\ UNCHANGED <<red, extension, user, plan>>
  /\ ResolveNext(p, g, t2, ad)

\* One pair is resolved: skipped, a unit or empty, or a clause of two literals or more.
LEMMA ResolveCases ==
  ASSUME Inv, Resolve
  PROVE  \E p, g, t, t2, ad, c, d :
           /\ ResolveStep(p, g, t, t2, ad, c, d)
           /\ LET r == Residual(Resolvent(c, p, d))
                  replaced == SelfSubsumed(c, d, r)
              IN \/ /\ c \notin irr \/ d \notin irr \/ Tautology(r)
                    /\ UNCHANGED <<irr, units, unsat, status>>
                 \/ /\ c \in irr /\ d \in irr /\ ~Tautology(r) /\ Cardinality(r) <= 1
                    /\ r # {} /\ ~ad => BecomeEagerly(irr, r)
                 \/ /\ c \in irr /\ d \in irr /\ ~Tautology(r) /\ ~(Cardinality(r) <= 1)
                    /\ irr' = (irr \ replaced) \cup (IF replaced # {} \/ ad THEN {r} ELSE {})
                    /\ UNCHANGED <<units, unsat, status>>
<1> DEFINE p == work.pivot
           pair == CHOOSE q \in work.todo : TRUE
           c == pair[1]
           d == pair[2]
           r == Residual(Resolvent(c, p, d))
           replaced == SelfSubsumed(c, d, r)
           satisfied == {q \in {c, d} : True(q \ {p, -p})}
           next == [work EXCEPT !.todo = @ \ {pair}]
           f2 == IF replaced = {} THEN work.found \cup {r} ELSE work.found
           n2 == IF replaced = {} THEN work.count + 1 ELSE work.count
           next2 == [next EXCEPT !.found = IF replaced = {} THEN @ \cup {r} ELSE @,
                                 !.count = IF replaced = {} THEN @ + 1 ELSE @]
           skip == ~({c, d} \subseteq irr) \/ (satisfied = {} /\ Tautology(r))
           go == {c, d} \subseteq irr /\ satisfied # {}
           X == work' = next /\ UNCHANGED <<irr, units, unsat, status>>
           Y == /\ irr' = irr \ {IF c \in satisfied THEN c ELSE d}
                /\ work' = next /\ UNCHANGED <<units, unsat, status>>
           Z == IF Cardinality(r) <= 1
                THEN /\ work' = next
                     /\ IF r = {} THEN unsat' = TRUE /\ UNCHANGED <<irr, units, status>>
                        ELSE IF work.adding THEN Assign(r) /\ UNCHANGED irr
                        ELSE BecomeEagerly(irr, r)
                ELSE /\ irr' = (irr \ replaced) \cup
                                (IF replaced # {} \/ work.adding THEN {r} ELSE {})
                     /\ work' = next2
                     /\ UNCHANGED <<units, unsat, status>>
<1>1. /\ Doing("resolve") /\ work.todo # {} /\ ~Stopped
      /\ CASE skip -> X [] go -> Y [] OTHER -> Z
      /\ UNCHANGED <<red, extension, user, plan>>
  BY Zenon DEF Resolve
<1> HIDE DEF X, Y, Z, skip, go
<1>2. (skip /\ X) \/ (go /\ Y) \/ (~skip /\ ~go /\ Z)
  BY <1>1, Zenon
<1>3. pair \in work.todo
  BY <1>1
<1>4. PICK w, v, p1, g, t, ad, f, n, b, t2, c1, d1, r1, rep1 :
        /\ w = work /\ v = work' /\ p1 = work.pivot /\ g = work.gate /\ t = work.todo /\ ad = work.adding
        /\ f = work.found /\ n = work.count /\ b = work.bound /\ t2 = work.todo \ {pair}
        /\ c1 = c /\ d1 = d /\ r1 = r /\ rep1 = replaced
  OBVIOUS
<1>5. /\ Running /\ Clean /\ plan # <<>> /\ Head(plan) = "elim"
      /\ w = [kind |-> "resolve", pivot |-> p1, gate |-> g, todo |-> t, adding |-> ad,
              found |-> f, count |-> n, bound |-> b]
      /\ ResolveOK(p1, g, t, ad)
  BY <1>1, <1>4, ResolveFacts
<1>6. Open(p1)
  BY <1>1, <1>4, NotStopped
<1>7. pair = <<c1, d1>> /\ pair \in t /\ t2 = t \ {<<c1, d1>>}
  <2>1. t \subseteq (SUBSET Lits) \X (SUBSET Lits)
    BY <1>5 DEF ResolveOK
  <2>2. pair \in t
    BY <1>3, <1>4
  <2>3. PICK q : q = pair
    OBVIOUS
  <2>4. q \in (SUBSET Lits) \X (SUBSET Lits)
    BY <2>1, <2>2, <2>3
  <2>5. q = <<q[1], q[2]>>
    BY ONLY <2>4
  <2>6. pair = <<pair[1], pair[2]>>
    BY <2>3, <2>5
  <2> QED BY <2>2, <2>6, <1>4
<1>8. work' = next \/ work' = next2
  BY <1>2 DEF X, Y, Z
<1>9. \E f3, n3, b3 : work' = [kind |-> "resolve", pivot |-> p1, gate |-> g, todo |-> t2, adding |-> ad,
                               found |-> f3, count |-> n3, bound |-> b3]
  <2>1. CASE work' = next
    <3>1. v = [w EXCEPT !.todo = t2]
      BY <2>1, <1>4
    <3>2. v = [kind |-> "resolve", pivot |-> p1, gate |-> g, todo |-> t2, adding |-> ad,
               found |-> f, count |-> n, bound |-> b]
      BY ONLY <3>1, <1>5, ResolveFields
    <3> QED BY <3>2, <1>4
  <2>2. CASE work' = next2
    <3> HIDE DEF next, next2, r, replaced
    <3>1. PICK f3, n3 :
            /\ f3 = (IF replaced = {} THEN next.found \cup {r} ELSE next.found)
            /\ n3 = (IF replaced = {} THEN next.count + 1 ELSE next.count)
      OBVIOUS
    <3>2. v = [[w EXCEPT !.todo = t2] EXCEPT !.found = f3, !.count = n3]
      BY <2>2, <3>1, <1>4 DEF next, next2
    <3>3. v = [kind |-> "resolve", pivot |-> p1, gate |-> g, todo |-> t2, adding |-> ad,
               found |-> f3, count |-> n3, bound |-> b]
      BY ONLY <3>2, <1>5, ResolveFields
    <3> QED BY <3>3, <1>4
  <2> QED BY <1>8, <2>1, <2>2
<1> HIDE DEF next, next2, f2, n2
<1>10. ResolveStep(p1, g, t, t2, ad, c1, d1)
  BY <1>1, <1>5, <1>6, <1>7, <1>9 DEF ResolveStep, ResolveNext
<1>11. satisfied = {} \/ ~({c, d} \subseteq irr)
  BY <1>5 DEF True, Clean
<1>12. r1 = Residual(Resolvent(c1, p1, d1)) /\ rep1 = SelfSubsumed(c1, d1, r1)
  BY <1>4
<1>13. \/ /\ c1 \notin irr \/ d1 \notin irr \/ Tautology(r1)
          /\ UNCHANGED <<irr, units, unsat, status>>
       \/ /\ c1 \in irr /\ d1 \in irr /\ ~Tautology(r1) /\ Cardinality(r1) <= 1
          /\ r1 # {} /\ ~ad => BecomeEagerly(irr, r1)
       \/ /\ c1 \in irr /\ d1 \in irr /\ ~Tautology(r1) /\ ~(Cardinality(r1) <= 1)
          /\ irr' = (irr \ rep1) \cup (IF rep1 # {} \/ ad THEN {r1} ELSE {})
          /\ UNCHANGED <<units, unsat, status>>
  <2>1. PICK sat : sat = satisfied
    OBVIOUS
  <2>2. ad = work.adding
    BY <1>4
  <2>3. skip <=> (~({c1, d1} \subseteq irr) \/ (sat = {} /\ Tautology(r1)))
    BY <1>4, <2>1 DEF skip
  <2>4. go <=> ({c1, d1} \subseteq irr /\ sat # {})
    BY <1>4, <2>1 DEF go
  <2>5. sat = {} \/ ~({c1, d1} \subseteq irr)
    BY <1>4, <1>11, <2>1
  <2>6. X => UNCHANGED <<irr, units, unsat, status>>
    BY DEF X
  <2>7. Z => IF Cardinality(r1) <= 1
             THEN r1 # {} /\ ~ad => BecomeEagerly(irr, r1)
             ELSE /\ irr' = (irr \ rep1) \cup (IF rep1 # {} \/ ad THEN {r1} ELSE {})
                  /\ UNCHANGED <<units, unsat, status>>
    BY <1>4 DEF Z
  <2> HIDE DEF r, c, d, p, pair, replaced, satisfied
  <2> QED BY <1>2, <2>3, <2>4, <2>5, <2>6, <2>7
<1> HIDE DEF r, c, d, p, pair, replaced, satisfied
<1>14. LET rr == Residual(Resolvent(c1, p1, d1))
           rep == SelfSubsumed(c1, d1, rr)
       IN \/ /\ c1 \notin irr \/ d1 \notin irr \/ Tautology(rr)
             /\ UNCHANGED <<irr, units, unsat, status>>
          \/ /\ c1 \in irr /\ d1 \in irr /\ ~Tautology(rr) /\ Cardinality(rr) <= 1
             /\ rr # {} /\ ~ad => BecomeEagerly(irr, rr)
          \/ /\ c1 \in irr /\ d1 \in irr /\ ~Tautology(rr) /\ ~(Cardinality(rr) <= 1)
             /\ irr' = (irr \ rep) \cup (IF rep # {} \/ ad THEN {rr} ELSE {})
             /\ UNCHANGED <<units, unsat, status>>
  BY ONLY <1>12, <1>13
<1> QED BY <1>10, <1>14

OnePair(p, g, t, t2, c, d) ==
  /\ t2 = t \ {<<c, d>>} /\ t2 \subseteq t /\ <<c, d>> \in t
  /\ c \subseteq Lits /\ d \subseteq Lits /\ May(p, g, c, d) /\ p \in c /\ -p \in d
  /\ t2 \subseteq (SUBSET Lits) \X (SUBSET Lits) /\ \A q \in t2 : May(p, g, q[1], q[2])

\* What holds before a pair is resolved, and what remains to do after it.
LEMMA ResolveStepFacts ==
  ASSUME NEW p, NEW g, NEW t, NEW t2, NEW ad, NEW c, NEW d, ResolveStep(p, g, t, t2, ad, c, d)
  PROVE  /\ Running /\ Clean /\ plan # <<>> /\ Head(plan) = "elim" /\ Late
         /\ ResolveOK(p, g, t, ad) /\ Open(p) /\ p \in Lits /\ ~Frozen(p) /\ ad \in BOOLEAN
         /\ OnePair(p, g, t, t2, c, d)
         /\ red' = red /\ extension' = extension /\ observed' = observed /\ given' = given
         /\ UNCHANGED <<red, extension, user, plan>>
         /\ ResolveNext(p, g, t2, ad)
<1>1. ResolveOK(p, g, t, ad)
  BY DEF ResolveStep
<1>2. /\ p \in Lits /\ ~Frozen(p) /\ ad \in BOOLEAN
      /\ t \subseteq (SUBSET Lits) \X (SUBSET Lits) /\ \A q \in t : May(p, g, q[1], q[2])
  BY <1>1 DEF ResolveOK
<1>3. <<c, d>> \in t /\ t2 = t \ {<<c, d>>}
  BY DEF ResolveStep
<1>4. PICK q \in t : q = <<c, d>>
  BY <1>3
<1>5. q[1] = c /\ q[2] = d
  BY <1>4
<1>6. c \subseteq Lits /\ d \subseteq Lits /\ May(p, g, c, d)
  <2>1. q \in (SUBSET Lits) \X (SUBSET Lits) /\ May(p, g, q[1], q[2])
    BY <1>2
  <2>2. q[1] \in SUBSET Lits /\ q[2] \in SUBSET Lits
    BY <2>1
  <2> QED BY <2>1, <2>2, <1>5
<1>7. p \in c /\ -p \in d
  BY <1>6 DEF May
<1> QED BY <1>1, <1>2, <1>3, <1>6, <1>7 DEF ResolveStep, Late, user, OnePair

\* The parts of what holds while a variable is resolved.
LEMMA ResolveOkParts ==
  ASSUME NEW p, NEW g, NEW t, NEW ad, ResolveOK(p, g, t, ad)
  PROVE  /\ Defines(p, g)
         /\ ad => Resolved(p, g, t)
         /\ Open(p) => GateKept(p, g) /\ NoUnits(p, g, IF ad THEN {} ELSE t)
BY DEF ResolveOK

\* A pair without a resolvent is settled.
LEMMA SkipInv ==
  ASSUME NEW p, NEW g, NEW t, NEW t2, NEW ad, NEW c, NEW d, ResolveStep(p, g, t, t2, ad, c, d),
         c \notin irr \/ d \notin irr \/ Tautology(Residual(Resolvent(c, p, d))),
         UNCHANGED <<irr, units, unsat, status>>
  PROVE  Inv'
<1>0. /\ Running /\ Clean /\ plan # <<>> /\ Head(plan) = "elim"
      /\ ResolveOK(p, g, t, ad) /\ Open(p) /\ p \in Lits /\ ~Frozen(p) /\ ad \in BOOLEAN
      /\ UNCHANGED <<red, extension, user, plan>> /\ OnePair(p, g, t, t2, c, d)
      /\ ResolveNext(p, g, t2, ad)
  BY ResolveStepFacts
<1>1. /\ Running /\ Clean /\ plan # <<>> /\ Head(plan) = "elim"
      /\ ResolveOK(p, g, t, ad) /\ Open(p) /\ p \in Lits /\ ~Frozen(p) /\ ad \in BOOLEAN
      /\ t2 = t \ {<<c, d>>} /\ t2 \subseteq t /\ c \subseteq Lits /\ d \subseteq Lits
      /\ t2 \subseteq (SUBSET Lits) \X (SUBSET Lits) /\ \A q \in t2 : May(p, g, q[1], q[2])
      /\ UNCHANGED <<red, extension, user, plan>>
      /\ ResolveNext(p, g, t2, ad)
  BY <1>0 DEF OnePair
<1>2. /\ Defines(p, g) /\ (ad => Resolved(p, g, t))
      /\ GateKept(p, g) /\ NoUnits(p, g, IF ad THEN {} ELSE t)
  BY <1>1, ResolveOkParts
<1>3. PICK r : r = Residual(Resolvent(c, p, d))
  OBVIOUS
<1>4. r \subseteq Lits /\ r \subseteq Resolvent(c, p, d)
  BY <1>1, <1>3, ResolventResidual DEF Residual
<1>5. Tautology(r) => Cardinality(r) >= 2 /\ \A a : Total(a) => Resolvent(c, p, d) \cap a # {}
  <2>1. ASSUME Tautology(r)  PROVE Cardinality(r) >= 2
    <3>1. PICK l \in r : -l \in r
      BY <2>1 DEF Tautology
    <3>2. l # -l
      BY <3>1, <1>4, LitFacts
    <3> QED BY <3>1, <3>2, <1>4, TwoOrMore
  <2>2. ASSUME Tautology(r), NEW a, Total(a)  PROVE Resolvent(c, p, d) \cap a # {}
    <3>1. r \cap a # {}
      BY <2>2, <1>4, TautologyHolds
    <3> QED BY <3>1, <1>4
  <2> QED BY <2>1, <2>2
<1>6. ad => Resolved(p, g, t2)
  <2>1. ASSUME ad, NEW c1 \in irr, NEW d1 \in irr, May(p, g, c1, d1), <<c1, d1>> \notin t2,
               NEW a \in Mod(Others(p), units)
        PROVE  Resolvent(c1, p, d1) \cap a # {}
    <3>1. CASE <<c1, d1>> \in t
      <4>1. c1 = c /\ d1 = d
        BY <3>1, <2>1, <1>1
      <4>2. Tautology(r)
        BY <4>1, <2>1, <1>3
      <4>3. Total(a)
        BY <2>1 DEF Mod
      <4> QED BY <4>1, <4>2, <4>3, <1>5
    <3>2. CASE <<c1, d1>> \notin t
      BY <3>2, <2>1, <1>2 DEF Resolved
    <3> QED BY <3>1, <3>2
  <2> QED BY <2>1 DEF Resolved
<1>7. NoUnits(p, g, IF ad THEN {} ELSE t2)
  <2>1. ASSUME NEW c1 \in irr, NEW d1 \in irr, May(p, g, c1, d1),
               ~(Cardinality(Residual(Resolvent(c1, p, d1))) >= 2)
        PROVE  /\ <<c1, d1>> \in IF ad THEN {} ELSE t2
               /\ \E e, f \in irr, x \in Lits :
                    g = {e, f} /\ Residual(e) = {-p, x} /\ Residual(f) = {p, -x}
    <3>1. /\ <<c1, d1>> \in IF ad THEN {} ELSE t
          /\ \E e, f \in irr, x \in Lits :
               g = {e, f} /\ Residual(e) = {-p, x} /\ Residual(f) = {p, -x}
      BY <2>1, <1>2 DEF NoUnits
    <3>2. ~(c1 = c /\ d1 = d)
      BY <2>1, <1>3, <1>5
    <3>3. <<c1, d1>> # <<c, d>>
      BY <3>2
    <3> QED BY <3>1, <3>3, <1>1
  <2> QED BY <2>1 DEF NoUnits
<1>8. ResolveOK(p, g, t2, ad)
  BY <1>1, <1>2, <1>6, <1>7 DEF ResolveOK
<1>9. UNCHANGED <<irr, units, observed>> /\ plan' = plan /\ UNCHANGED <<database, extension, user, plan>>
  BY <1>1 DEF database, user
<1>10. ResolveOK(p, g, t2, ad)'
  BY <1>8, <1>9
     DEF ResolveOK, Frozen, Defines, Open, GateKept, NoUnits, Residual, Mod, Others, Resolved
<1>11. PICK f, n, b : work' = [kind |-> "resolve", pivot |-> p, gate |-> g, todo |-> t2,
                               adding |-> ad, found |-> f, count |-> n, bound |-> b]
  BY <1>1 DEF ResolveNext
<1>12. Working' /\ work'.kind # "substitute"
  BY ONLY <1>1, <1>9, <1>10, <1>11, ResolvingNow
<1> QED BY <1>1, <1>9, <1>12, WorkStep

\* A unit met while trying comes with an equivalence gate and fixes the pivot.
LEMMA UnitFixesPivot ==
  ASSUME Clean, NEW p \in Lits, Open(p), NEW g, NEW t, NoUnits(p, g, t), Defines(p, g),
         NEW c \in irr, NEW d \in irr, May(p, g, c, d),
         ~(Cardinality(Residual(Resolvent(c, p, d))) >= 2),
         NEW L, L = Residual(Resolvent(c, p, d)),
         NEW T, T \subseteq Lits, units \cup L \subseteq T, Closed(irr, T), ~Inconsistent(T)
  PROVE  p \in T \/ -p \in T
<1>0. Open(-p) /\ -p \in Lits /\ -(-p) = p
  BY OpenTwin
<1>1. p \in c /\ -p \in d
  BY DEF May
<1>2. PICK x \in Lits : /\ Residual(c) = {p, x} /\ Residual(d) = {-p, x}
                        /\ L = {x} /\ x # p /\ x # -p
  BY <1>1, SmallResolvent
<1>3. PICK e, f \in irr, y \in Lits :
        g = {e, f} /\ Residual(e) = {-p, y} /\ Residual(f) = {p, -y}
  BY DEF NoUnits
<1>4. /\ Residual(c) \subseteq c /\ Residual(d) \subseteq d /\ Residual(e) \subseteq e /\ Residual(f) \subseteq f
      /\ ~Tautology(c) /\ ~Tautology(d) /\ ~Tautology(e) /\ ~Tautology(f)
  BY <1>3 DEF Clean
<1>5. /\ p \in f /\ -p \in e /\ p \notin e /\ -p \notin f /\ -p \notin c /\ p \notin d
  BY <1>0, <1>1, <1>3, <1>4 DEF Tautology
<1>6. (c \in g) # (d \in g)
  BY <1>3 DEF May
<1>7. y \in Int /\ -(-y) = y /\ -y \in Lits /\ x \in Int /\ -(-x) = x /\ -x \in Lits
  BY LitFacts
<1>8. ASSUME NEW h \in irr, NEW q \in {p, -p}, Residual(h) = {q, -x}
      PROVE  q \in T
  <2>1. h \subseteq Lits /\ h # {} /\ irr \subseteq SUBSET Lits /\ q \in Lits /\ q \in h
    BY <1>0, <1>8 DEF Clean, Residual
  <2>2. x \in T /\ -x \notin T
    BY <1>2 DEF Inconsistent
  <2>3. {l \in h : -l \notin T} \subseteq {q}
    BY <1>7, <1>8, <2>2 DEF Residual
  <2>4. ~(Cardinality({l \in h : -l \notin T}) >= 2)
    <3>1. PICK S : S = {l \in h : -l \notin T}
      OBVIOUS
    <3>2. S \subseteq {q} /\ S \subseteq Lits
      BY <2>1, <2>3, <3>1
    <3> QED BY <3>1, <3>2, TwoOrMore
  <2>5. h \cap T # {}
    BY <2>1, <2>4, <1>8, ClosedClause
  <2>6. PICK l \in h : l \in T
    BY <2>5
  <2>7. -l \notin T
    BY <2>6 DEF Inconsistent
  <2> QED BY <2>3, <2>6, <2>7
<1>9. CASE c \in g
  <2>1. c = f
    BY <1>1, <1>3, <1>5, <1>9
  <2>2. x = -y
    BY <2>1, <1>2, <1>3
  <2>3. Residual(e) = {-p, -x}
    BY <2>2, <1>3, <1>7
  <2> QED BY <2>3, <1>8
<1>10. CASE d \in g
  <2>1. d = e
    BY <1>1, <1>3, <1>5, <1>10
  <2>2. x = y
    BY <2>1, <1>2, <1>3
  <2>3. Residual(f) = {p, -x}
    BY <2>2, <1>3, <1>7
  <2> QED BY <2>3, <1>8
<1> QED BY <1>6, <1>9, <1>10

\* A model of two clauses satisfies their resolvent, and what is left of it.
LEMMA ResolventSound ==
  ASSUME NEW p \in Lits, NEW c, c \subseteq Lits, NEW d, d \subseteq Lits,
         NEW a, Total(a), c \cap a # {}, d \cap a # {}
  PROVE  /\ Resolvent(c, p, d) \cap a # {}
         /\ units \subseteq a => Residual(Resolvent(c, p, d)) \cap a # {}
<1>1. Resolvent(c, p, d) \subseteq Lits
  BY DEF Resolvent
<1>2. ~(p \in a /\ -p \in a)
  BY DEF Total
<1>3. Resolvent(c, p, d) \cap a # {}
  BY <1>2 DEF Resolvent
<1>4. units \subseteq a => Residual(Resolvent(c, p, d)) \cap a = Resolvent(c, p, d) \cap a
  BY <1>1, ResidualLits
<1> QED BY <1>3, <1>4

\* A gate defines the pivot under more units as well.
LEMMA DefinesMore ==
  ASSUME NEW p, NEW g, Defines(p, g), units \subseteq units'
  PROVE  Defines(p, g)'
<1>1. \A a : a \in Mod({}, units)' => a \in Mod({}, units)
  BY DEF Mod
<1> QED BY <1>1 DEF Defines

\* A unit resolvent fixes its literal and is propagated; an empty one ends it all.
LEMMA UnitInv ==
  ASSUME NEW p, NEW g, NEW t, NEW t2, NEW ad, NEW c, NEW d, ResolveStep(p, g, t, t2, ad, c, d),
         NEW r, r = Residual(Resolvent(c, p, d)),
         c \in irr, d \in irr, Cardinality(r) <= 1,
         r # {} /\ ~ad => BecomeEagerly(irr, r)
  PROVE  Inv'
<1>0. /\ Running /\ Clean /\ plan # <<>> /\ Head(plan) = "elim" /\ Late
      /\ ResolveOK(p, g, t, ad) /\ Open(p) /\ p \in Lits /\ ~Frozen(p) /\ ad \in BOOLEAN
      /\ UNCHANGED <<red, extension, user, plan>> /\ OnePair(p, g, t, t2, c, d)
      /\ red' = red /\ extension' = extension /\ observed' = observed /\ given' = given /\ plan' = plan
      /\ ResolveNext(p, g, t2, ad)
  <2>1. /\ Running /\ Clean /\ plan # <<>> /\ Head(plan) = "elim" /\ Late
        /\ ResolveOK(p, g, t, ad) /\ Open(p) /\ p \in Lits /\ ~Frozen(p) /\ ad \in BOOLEAN
        /\ UNCHANGED <<red, extension, user, plan>> /\ OnePair(p, g, t, t2, c, d)
        /\ ResolveNext(p, g, t2, ad)
    BY ResolveStepFacts
  <2> QED BY <2>1 DEF user
<1>1. /\ c \subseteq Lits /\ d \subseteq Lits /\ May(p, g, c, d) /\ p \in c /\ -p \in d
      /\ t2 \subseteq (SUBSET Lits) \X (SUBSET Lits) /\ \A q \in t2 : May(p, g, q[1], q[2])
  BY <1>0 DEF OnePair
<1>2. /\ Defines(p, g)
      /\ NoUnits(p, g, IF ad THEN {} ELSE t)
  BY <1>0, ResolveOkParts
<1>3. r \subseteq Lits
  BY <1>1, <1>0, ResolventResidual
<1>4. ~(Cardinality(r) >= 2)
  <2>1. Cardinality(r) \in Nat
    BY <1>3, Singletons
  <2> QED BY <2>1
<1>5. PICK x \in Lits : r = {x}
  BY <1>0, <1>1, <1>4, SmallResolvent
<1>6. ad = FALSE
  <2>1. <<c, d>> \in IF ad THEN {} ELSE t
    BY <1>1, <1>2, <1>4 DEF NoUnits
  <2> QED BY <2>1, <1>0
<1>7. NoUnits(p, g, t) /\ BecomeEagerly(irr, r)
  BY <1>2, <1>5, <1>6
<1>8. work'.kind # "substitute"
  BY <1>0 DEF ResolveNext
<1>9. Searchable /\ Unchanged
  BY <1>0, <1>8 DEF Running, Searchable, Unchanged
<1>10. PICK i, L : i = irr /\ L = r
  OBVIOUS
<1>11. /\ BecomeEagerly(i, L) /\ red' = red /\ Late' /\ i \subseteq SUBSET Lits /\ L \subseteq Lits
       /\ \A e \in i : Good(e)
  <2>1. Late'
    BY <1>0 DEF Late
  <2> QED BY <2>1, <1>0, <1>3, <1>7, <1>10 DEF Running
<1>12. /\ \A a : Total(a) /\ Satisfies(a, irr \cup red) /\ units \subseteq a =>
                    Satisfies(a, i) /\ L \subseteq a
       /\ \A a : Total(a) /\ Satisfies(a, i) /\ units \cup L \subseteq a => Satisfies(a, irr)
  <2>1. ASSUME NEW a, Total(a), Satisfies(a, irr \cup red), units \subseteq a  PROVE Satisfies(a, irr) /\ r \subseteq a
    <3>1. Satisfies(a, irr) /\ c \cap a # {} /\ d \cap a # {}
      BY <2>1 DEF Satisfies
    <3>2. r \cap a # {}
      BY <3>1, <2>1, <1>0, <1>1, ResolventSound
    <3> QED BY <3>1, <3>2, <1>5
  <2> QED BY <2>1, <1>10
<1>13. /\ Holds'
       /\ ~unsat' => /\ \A e \in irr' : e \cap units' = {} /\ e \in i
                     /\ \A e \in i : e \in irr' \/ e \cap units' # {}
                     /\ units' = Propagation(i, units \cup L) /\ ~Inconsistent(units')
  BY ONLY <1>9, <1>11, <1>12, EagerStep
<1>14. ASSUME ~unsat'  PROVE Planned' /\ Working'
  <2>1. Planned'
    BY <1>14, <1>0, <1>13, SamePlan
  <2>2. PICK T : T = units'
    OBVIOUS
  <2>3. T \subseteq Lits /\ units \cup r \subseteq T /\ Closed(irr, T) /\ ~Inconsistent(T)
    <3>1. irr \subseteq SUBSET Lits /\ units \subseteq Lits
      BY <1>0 DEF Clean
    <3>2. PICK U : U = units \cup r
      OBVIOUS
    <3>3. U \subseteq Lits /\ T = Propagation(irr, U) /\ ~Inconsistent(T)
      BY <3>1, <3>2, <2>2, <1>3, <1>10, <1>13, <1>14
    <3>4. T \subseteq Lits /\ U \subseteq T /\ Closed(irr, T)
      BY <3>1, <3>3, PropagationFacts
    <3> QED BY <3>2, <3>3, <3>4
  <2>4. p \in T \/ -p \in T
    BY <2>3, <1>0, <1>1, <1>2, <1>4, <1>7, UnitFixesPivot
  <2>5. ~Open(p)'
    BY <2>2, <2>4 DEF Open
  <2>6. Defines(p, g)'
    BY <2>2, <2>3, <1>2, DefinesMore
  <2>7. ResolveOK(p, g, t2, ad)'
    BY <2>5, <2>6, <1>0, <1>1, <1>6 DEF ResolveOK, Frozen, May
  <2>8. PICK f, n, b : work' = [kind |-> "resolve", pivot |-> p, gate |-> g, todo |-> t2,
                               adding |-> ad, found |-> f, count |-> n, bound |-> b]
    BY <1>0 DEF ResolveNext
  <2>9. Working' /\ work'.kind # "substitute"
    BY ONLY <1>0, <2>7, <2>8, ResolvingNow
  <2> QED BY <2>1, <2>9
<1> QED BY <1>13, <1>14, Assembled

\* A resolvent shorter than a parent is that parent without the pivot.
LEMMA ReplacedClause ==
  ASSUME Clean, NEW p \in Lits, Open(p), NEW c \in irr, NEW d \in irr, p \in c, -p \in d,
         NEW r, r = Residual(Resolvent(c, p, d)), NEW q \in SelfSubsumed(c, d, r)
  PROVE  /\ q \in irr /\ (p \in q \/ -p \in q) /\ r = Residual(q) \ {p, -p} /\ r \subseteq q
         /\ q = c \/ q = d
<1>0. Open(-p) /\ -p \in Lits /\ -(-p) = p
  BY OpenTwin
<1>1. c \in With(p) /\ d \in With(-p)
  BY DEF With, Occs, True, Clean
<1>2. c \subseteq Lits /\ p \in Residual(c) /\ -p \notin c /\ Residual(c) \subseteq c
  BY <1>1, WithFacts
<1>3. d \subseteq Lits /\ -p \in Residual(d) /\ p \notin d /\ Residual(d) \subseteq d
  BY <1>0, <1>1, WithFacts
<1>4. r = (Residual(c) \ {p}) \cup (Residual(d) \ {-p}) /\ r \subseteq Lits
  BY <1>2, <1>3, ResolventResidual
<1>5. q \in {c, d} /\ Cardinality(Residual(q)) > Cardinality(r)
  BY DEF SelfSubsumed
<1>6. PICK m \in {p, -p} : m \in Residual(q) /\ Residual(q) \ {m} \subseteq r /\ Residual(q) \ {m} = Residual(q) \ {p, -p}
  BY <1>0, <1>2, <1>3, <1>4, <1>5
<1>7. PICK Q, s : Q = Residual(q) /\ s = Q \ {m}
  OBVIOUS
<1>8. IsFiniteSet(Q) /\ Cardinality(Q) \in Nat /\ IsFiniteSet(r) /\ Cardinality(r) \in Nat
  <2>1. Q \subseteq Lits
    BY <1>2, <1>3, <1>5, <1>7
  <2> QED BY <2>1, <1>4, Singletons
<1>9. Cardinality(s) = Cardinality(Q) - 1 /\ s \subseteq r
  BY <1>6, <1>7, <1>8, FS_RemoveElement
<1>10. s = r
  <2>1. IsFiniteSet(s) /\ Cardinality(s) <= Cardinality(r) /\ (Cardinality(r) = Cardinality(s) => r = s)
    BY <1>8, <1>9, FS_Subset
  <2>2. Cardinality(s) \in Nat
    BY <2>1, FS_CardinalityType
  <2>3. Cardinality(Q) > Cardinality(r)
    BY <1>5, <1>7
  <2>4. Cardinality(r) = Cardinality(s)
    BY ONLY <2>1, <2>2, <2>3, <1>8, <1>9
  <2> QED BY <2>1, <2>4
<1>11. q \in irr /\ Residual(q) \subseteq q
  BY <1>2, <1>3, <1>5
<1>12. p \in q \/ -p \in q
  BY <1>5
<1> QED BY <1>5, <1>6, <1>7, <1>10, <1>11, <1>12

\* A long resolvent is added in the second pass, and replaces what it subsumes.
LEMMA LongInv ==
  ASSUME NEW p, NEW g, NEW t, NEW t2, NEW ad, NEW c, NEW d, ResolveStep(p, g, t, t2, ad, c, d),
         NEW r, r = Residual(Resolvent(c, p, d)), NEW rep, rep = SelfSubsumed(c, d, r),
         c \in irr, d \in irr, ~Tautology(r), ~(Cardinality(r) <= 1),
         irr' = (irr \ rep) \cup (IF rep # {} \/ ad THEN {r} ELSE {}),
         UNCHANGED <<units, unsat, status>>
  PROVE  Inv'
<1>0. /\ Running /\ Clean /\ plan # <<>> /\ Head(plan) = "elim" /\ Late
      /\ ResolveOK(p, g, t, ad) /\ Open(p) /\ p \in Lits /\ ~Frozen(p) /\ ad \in BOOLEAN
      /\ UNCHANGED <<red, extension, user, plan>> /\ OnePair(p, g, t, t2, c, d)
      /\ red' = red /\ extension' = extension /\ observed' = observed /\ given' = given /\ plan' = plan
      /\ ResolveNext(p, g, t2, ad)
  <2>1. /\ Running /\ Clean /\ plan # <<>> /\ Head(plan) = "elim" /\ Late
        /\ ResolveOK(p, g, t, ad) /\ Open(p) /\ p \in Lits /\ ~Frozen(p) /\ ad \in BOOLEAN
        /\ UNCHANGED <<red, extension, user, plan>> /\ OnePair(p, g, t, t2, c, d)
        /\ ResolveNext(p, g, t2, ad)
    BY ResolveStepFacts
  <2> QED BY <2>1 DEF user
<1>1. /\ c \subseteq Lits /\ d \subseteq Lits /\ May(p, g, c, d) /\ p \in c /\ -p \in d
      /\ t2 = t \ {<<c, d>>} /\ t2 \subseteq (SUBSET Lits) \X (SUBSET Lits)
      /\ \A q \in t2 : May(p, g, q[1], q[2])
  BY <1>0 DEF OnePair
<1>2. /\ Defines(p, g) /\ (ad => Resolved(p, g, t))
      /\ GateKept(p, g) /\ NoUnits(p, g, IF ad THEN {} ELSE t)
  BY <1>0, ResolveOkParts
<1>3. /\ r \subseteq Lits /\ r \subseteq Resolvent(c, p, d) /\ r \subseteq c \cup d
      /\ p \notin r /\ -p \notin r /\ Residual(r) = r
  <2>1. r = (Residual(c) \ {p}) \cup (Residual(d) \ {-p}) /\ r \subseteq Lits
    BY <1>0, <1>1, ResolventResidual
  <2>2. -p \notin c /\ p \notin d
    <3>1. ~Tautology(c) /\ ~Tautology(d) /\ -(-p) = p
      BY <1>0, LitFacts DEF Clean
    <3> QED BY <3>1, <1>1 DEF Tautology
  <2> QED BY <2>1, <2>2 DEF Residual, Resolvent
<1>4. Cardinality(r) >= 2
  <2>1. Cardinality(r) \in Nat
    BY <1>3, Singletons
  <2> QED BY <2>1
<1>5. \A q \in rep : /\ q \in irr /\ (p \in q \/ -p \in q) /\ r = Residual(q) \ {p, -p} /\ r \subseteq q
                     /\ q = c \/ q = d
  BY <1>0, <1>1, ReplacedClause
<1>6. /\ Good(r) /\ OpenIn(r, units) /\ r \cap units = {}
  <2>1. \A l \in r : Present(l)
    <3>1. Good(c) /\ Good(d)
      BY <1>0 DEF Running
    <3> QED BY <3>1, <1>3 DEF Good
  <2>2. OpenIn(r, units)
    BY <1>3, <1>4 DEF OpenIn, Residual
  <2>3. r \cap units = {}
    <3>1. c \cap units = {} /\ d \cap units = {}
      BY <1>0 DEF Clean
    <3> QED BY <3>1, <1>3
  <2> QED BY <2>1, <2>2, <2>3, <1>4 DEF Good
<1>7. ASSUME NEW a, Total(a), Satisfies(a, irr), units \subseteq a  PROVE r \cap a # {}
  <2>1. c \cap a # {} /\ d \cap a # {}
    BY <1>7 DEF Satisfies
  <2> QED BY <2>1, <1>0, <1>1, <1>7, ResolventSound
<1>8. /\ \A e \in irr' : e \in irr \/ e = r
      /\ \A e \in irr : e \in irr' \/ (e \in rep /\ r \in irr')
      /\ ad => r \in irr'
  OBVIOUS
<1>9. /\ \A a : Total(a) /\ Satisfies(a, irr \cup red) /\ units \subseteq a =>
                    Satisfies(a, irr' \cup red')
      /\ \A a : Total(a) /\ Satisfies(a, irr') /\ units \subseteq a => Satisfies(a, irr)
  <2>1. ASSUME NEW a, Total(a), Satisfies(a, irr \cup red), units \subseteq a
        PROVE  Satisfies(a, irr' \cup red')
    <3>1. Satisfies(a, irr)
      BY <2>1 DEF Satisfies
    <3>2. r \cap a # {}
      BY <3>1, <2>1, <1>7
    <3> QED BY <3>2, <2>1, <1>0, <1>8 DEF Satisfies
  <2>2. ASSUME NEW a, Satisfies(a, irr'), NEW e \in irr  PROVE e \cap a # {}
    <3>1. CASE e \in irr'
      BY <3>1, <2>2 DEF Satisfies
    <3>2. CASE e \in rep /\ r \in irr'
      <4>1. r \cap a # {} /\ r \subseteq e
        BY <3>2, <2>2, <1>5 DEF Satisfies
      <4> QED BY <4>1
    <3> QED BY <3>1, <3>2, <1>8
  <2> QED BY <2>1, <2>2 DEF Satisfies
<1>10. work'.kind # "substitute"
  BY <1>0 DEF ResolveNext
<1>11. Searchable /\ Unchanged
  BY <1>0, <1>10 DEF Running, Searchable, Unchanged
<1>12. Holds'
  <2>1. /\ units' = units /\ status' = status /\ unsat' = unsat
        /\ irr' \subseteq SUBSET Lits /\ red' \subseteq SUBSET Lits
        /\ \A e \in irr' : e \in irr \/ (Good(e) /\ OpenIn(e, units))
        /\ \A e \in red' : e \in red \/ Good(e)
        /\ Late => Late'
    <3>1. irr \subseteq SUBSET Lits /\ red \subseteq SUBSET Lits /\ Late'
      BY <1>0 DEF Running, Late
    <3>2. r \in SUBSET Lits
      BY <1>3
    <3> QED BY <3>1, <3>2, <1>0, <1>6, <1>8
  <2> QED BY ONLY <2>1, <1>9, <1>11, PlainStep
<1>13. Planned'
  <2>1. \A e \in irr' : e \cap units' = {}
    BY <1>0, <1>6, <1>8 DEF Clean
  <2> QED BY <2>1, <1>0, SamePlan
<1>14. /\ Open(p)' /\ Defines(p, g)'
  <2>1. units' = units
    OBVIOUS
  <2> QED BY <2>1, <1>0, <1>2, DefinesMore DEF Open
<1>15. /\ Mod(Others(p), units)' \subseteq Mod(Others(p), units)
       /\ r \in irr' => \A a \in Mod(Others(p), units)' : r \cap a # {}
  <2>1. \A e \in Others(p) : e \in Others(p)'
    BY <1>5, <1>8 DEF Others
  <2>2. r \in irr' => r \in Others(p)'
    BY <1>3 DEF Others
  <2> QED BY <2>1, <2>2 DEF Mod, Satisfies
<1>16. \A c1 \in irr', d1 \in irr' : May(p, g, c1, d1) => c1 \in irr /\ d1 \in irr
  BY <1>3, <1>8 DEF May
<1>17. ad => Resolved(p, g, t2)'
  <2>1. ASSUME ad, NEW c1 \in irr', NEW d1 \in irr', May(p, g, c1, d1), <<c1, d1>> \notin t2,
               NEW a \in Mod(Others(p), units)'
        PROVE  Resolvent(c1, p, d1) \cap a # {}
    <3>1. CASE <<c1, d1>> \in t
      <4>1. c1 = c /\ d1 = d
        BY <3>1, <2>1, <1>1
      <4>2. r \cap a # {}
        BY <2>1, <1>8, <1>15
      <4> QED BY <4>1, <4>2, <1>3
    <3>2. CASE <<c1, d1>> \notin t
      BY <3>2, <2>1, <1>2, <1>15, <1>16 DEF Resolved
    <3> QED BY <3>1, <3>2
  <2> QED BY <2>1 DEF Resolved, May
<1>18. GateKept(p, g)'
  <2>1. ASSUME NEW k \in g, k \notin irr', NEW a \in Mod(Others(p), units)'
        PROVE  (k \ {p, -p}) \cap a # {}
    <3>1. CASE k \in irr
      <4>1. k \in rep /\ r \in irr'
        BY <3>1, <2>1, <1>8
      <4>2. r \cap a # {} /\ r \subseteq k
        BY <4>1, <2>1, <1>5, <1>15
      <4> QED BY <4>2, <1>3
    <3>2. CASE k \notin irr
      BY <3>2, <2>1, <1>2, <1>15 DEF GateKept
    <3> QED BY <3>1, <3>2
  <2> QED BY <2>1 DEF GateKept
<1>19. NoUnits(p, g, IF ad THEN {} ELSE t2)'
  <2>1. ASSUME NEW c1 \in irr', NEW d1 \in irr', May(p, g, c1, d1),
               ~(Cardinality(Residual(Resolvent(c1, p, d1))) >= 2)
        PROVE  /\ <<c1, d1>> \in IF ad THEN {} ELSE t2
               /\ \E e, f \in irr', x \in Lits :
                    g = {e, f} /\ Residual(e) = {-p, x} /\ Residual(f) = {p, -x}
    <3>1. c1 \in irr /\ d1 \in irr
      BY <2>1, <1>16
    <3>2. /\ <<c1, d1>> \in IF ad THEN {} ELSE t
          /\ \E e, f \in irr, x \in Lits :
               g = {e, f} /\ Residual(e) = {-p, x} /\ Residual(f) = {p, -x}
      BY <3>1, <2>1, <1>2 DEF NoUnits
    <3>3. ~(c1 = c /\ d1 = d)
      BY <2>1, <1>4
    <3>4. <<c1, d1>> # <<c, d>>
      BY <3>3
    <3>5. PICK e, f \in irr, x \in Lits :
               g = {e, f} /\ Residual(e) = {-p, x} /\ Residual(f) = {p, -x}
      BY <3>2
    <3>6. ASSUME NEW k \in irr, NEW y, Residual(k) \subseteq {p, -p, y}  PROVE k \in irr'
      <4>1. SUFFICES ASSUME k \in rep  PROVE FALSE
        BY <1>8
      <4>2. r \subseteq {y}
        BY <4>1, <3>6, <1>5
      <4> QED BY <4>2, <1>3, <1>4, TwoOrMore
    <3>7. e \in irr' /\ f \in irr'
      BY <3>5, <3>6
    <3> QED BY <3>2, <3>4, <3>5, <3>7, <1>1
  <2>2. PICK t3 : t3 = IF ad THEN {} ELSE t2
    OBVIOUS
  <2>3. \A c1 \in irr', d1 \in irr' : May(p, g, c1, d1) =>
          \/ Cardinality(Residual(Resolvent(c1, p, d1))) >= 2
          \/ /\ <<c1, d1>> \in t3
             /\ \E e, f \in irr', x \in Lits :
                  g = {e, f} /\ Residual(e) = {-p, x} /\ Residual(f) = {p, -x}
    BY <2>1, <2>2
  <2>4. units' = units
    OBVIOUS
  <2>5. \A e : Residual(e)' = Residual(e)
    BY <2>4 DEF Residual
  <2>6. NoUnits(p, g, t3)'
    BY ONLY <2>3, <2>5 DEF NoUnits, May
  <2> QED BY <2>2, <2>6
<1>20. ResolveOK(p, g, t2, ad)'
  BY <1>0, <1>1, <1>14, <1>17, <1>18, <1>19 DEF ResolveOK, Frozen, May
<1>21. PICK f, n, b : work' = [kind |-> "resolve", pivot |-> p, gate |-> g, todo |-> t2,
                               adding |-> ad, found |-> f, count |-> n, bound |-> b]
  BY <1>0 DEF ResolveNext
<1>22. Working' /\ work'.kind # "substitute"
  BY ONLY <1>0, <1>20, <1>21, ResolvingNow
<1> QED BY <1>12, <1>13, <1>22, Assembled

\* Every outcome of resolving a pair keeps the invariant.
LEMMA ResolveInv ==
  ASSUME Inv, Resolve
  PROVE  Inv'
<1>1. PICK p, g, t, t2, ad, c, d :
           /\ ResolveStep(p, g, t, t2, ad, c, d)
           /\ LET r == Residual(Resolvent(c, p, d))
                  replaced == SelfSubsumed(c, d, r)
              IN \/ /\ c \notin irr \/ d \notin irr \/ Tautology(r)
                    /\ UNCHANGED <<irr, units, unsat, status>>
                 \/ /\ c \in irr /\ d \in irr /\ ~Tautology(r) /\ Cardinality(r) <= 1
                    /\ r # {} /\ ~ad => BecomeEagerly(irr, r)
                 \/ /\ c \in irr /\ d \in irr /\ ~Tautology(r) /\ ~(Cardinality(r) <= 1)
                    /\ irr' = (irr \ replaced) \cup (IF replaced # {} \/ ad THEN {r} ELSE {})
                    /\ UNCHANGED <<units, unsat, status>>
  BY ResolveCases
<1>2. PICK r, rep : r = Residual(Resolvent(c, p, d)) /\ rep = SelfSubsumed(c, d, r)
  OBVIOUS
<1>3. ResolveStep(p, g, t, t2, ad, c, d)
  BY <1>1
<1>4. \/ /\ c \notin irr \/ d \notin irr \/ Tautology(Residual(Resolvent(c, p, d)))
         /\ UNCHANGED <<irr, units, unsat, status>>
      \/ /\ c \in irr /\ d \in irr /\ Cardinality(r) <= 1
         /\ r # {} /\ ~ad => BecomeEagerly(irr, r)
      \/ /\ c \in irr /\ d \in irr /\ ~Tautology(r) /\ ~(Cardinality(r) <= 1)
         /\ irr' = (irr \ rep) \cup (IF rep # {} \/ ad THEN {r} ELSE {})
         /\ UNCHANGED <<units, unsat, status>>
  BY <1>1, <1>2
<1>5. CASE /\ c \notin irr \/ d \notin irr \/ Tautology(Residual(Resolvent(c, p, d)))
           /\ UNCHANGED <<irr, units, unsat, status>>
  BY ONLY <1>3, <1>5, SkipInv
<1>6. CASE /\ c \in irr /\ d \in irr /\ Cardinality(r) <= 1
           /\ r # {} /\ ~ad => BecomeEagerly(irr, r)
  BY ONLY <1>2, <1>3, <1>6, UnitInv
<1>7. CASE /\ c \in irr /\ d \in irr /\ ~Tautology(r) /\ ~(Cardinality(r) <= 1)
           /\ irr' = (irr \ rep) \cup (IF rep # {} \/ ad THEN {r} ELSE {})
           /\ UNCHANGED <<units, unsat, status>>
  BY ONLY <1>2, <1>3, <1>7, LongInv
<1> QED BY <1>4, <1>5, <1>6, <1>7

-----------------------------------------------------------------------------
(* Eliminating the pivot.                                                  *)

\* Concatenation is associative.
LEMMA ConcatThree ==
  ASSUME NEW E, NEW s \in Seq(E), NEW t \in Seq(E), NEW u \in Seq(E)
  PROVE  /\ (s \o t) \o u = s \o (t \o u) /\ s \o t \in Seq(E) /\ t \o u \in Seq(E)
OBVIOUS

\* The clauses of l that elimination pushes.
Saved(g, l) == {c \in Occs(l) : g = {} \/ c \in g}

\* What elimination pushes: the clauses of the literal, those of the gate if there is one.
LEMMA SavedFacts ==
  ASSUME NEW g, NEW l
  PROVE  \A c : c \in Saved(g, l) <=> c \in irr /\ l \in c /\ (g = {} \/ c \in g)
BY DEF Saved, Occs

\* The last resolvents are satisfied by what satisfies the other clauses.
Ready(p, g) ==
  /\ Clean /\ p \in Lits /\ Open(p) /\ Defines(p, g) /\ GateKept(p, g)
  /\ Resolved(p, g, {})

\* With all pairs done, a model of the clauses without the pivot satisfies all
\* resolvents, also those a gate lets elimination leave out.
LEMMA ReadyFacts ==
  ASSUME NEW p, NEW g, Ready(p, g), NEW a \in Mod(Others(p), units)
  PROVE  /\ Total(a) /\ Satisfies(a, Others(p)) /\ units \subseteq a
         /\ \A c \in irr, d \in irr : /\ p \in c /\ -p \in d
                                      /\ g = {} \/ c \in g \/ d \in g
                                      => ((c \ {p}) \cup (d \ {-p})) \cap a # {}
         /\ g # {} => \E k \in g : /\ k \in irr /\ (k \ {p, -p}) \cap a = {}
                                   /\ (p \in k /\ -p \notin k) \/ (-p \in k /\ p \notin k)
<1>0. /\ Clean /\ p \in Lits /\ Open(p) /\ Defines(p, g) /\ GateKept(p, g) /\ Resolved(p, g, {})
  BY DEF Ready
<1>1. Total(a) /\ Satisfies(a, Others(p)) /\ units \subseteq a /\ a \in Mod({}, units)
  BY DEF Mod, Satisfies
<1>2. ASSUME NEW c \in irr, NEW d \in irr, p \in c, -p \in d, g = {} \/ c \in g \/ d \in g
      PROVE  Resolvent(c, p, d) \cap a # {}
  <2>1. CASE c \in g /\ d \in g
    BY <2>1, <1>0, <1>1, <1>2 DEF Defines
  <2>2. CASE ~(c \in g /\ d \in g)
    <3>1. May(p, g, c, d)
      BY <2>2, <1>2 DEF May
    <3> QED BY <3>1, <1>0 DEF Resolved
  <2> QED BY <2>1, <2>2
<1>3. ASSUME g # {}
      PROVE  \E k \in g : /\ k \in irr /\ (k \ {p, -p}) \cap a = {}
                          /\ (p \in k /\ -p \notin k) \/ (-p \in k /\ p \notin k)
  <2>1. PICK k \in g : (k \ {p, -p}) \cap a = {}
    BY <1>0, <1>1, <1>3 DEF Defines
  <2>2. k \in irr
    BY <2>1, <1>0 DEF GateKept
  <2>3. (p \in k \/ -p \in k) /\ ~Tautology(k) /\ -(-p) = p
    BY <1>0, LitFacts DEF Defines
  <2> QED BY <2>1, <2>2, <2>3 DEF Tautology
<1> QED BY <1>1, <1>2, <1>3 DEF Resolvent

\* Elimination: from a model of the clauses without the pivot the entries of both
\* signs give one of all clauses, as the pivot can be set to satisfy each.
LEMMA EliminateReconstructs ==
  ASSUME NEW p, NEW g, Ready(p, g), extension \in Seq(EntrySet),
         Reconstructs(Mod(irr, units), extension, given),
         NEW E1, Listing(E1, Saved(g, p), p), NEW E2, Listing(E2, Saved(g, -p), -p)
  PROVE  Reconstructs(Mod(Others(p), units), extension \o (E1 \o E2), given)
<1>0. /\ Clean /\ p \in Lits /\ Open(p) /\ -p \in Lits /\ -(-p) = p /\ Open(-p) /\ p # -p
  BY OpenTwin, LitFacts DEF Ready
<1>1. /\ E1 \in Seq(EntrySet)
      /\ \A k \in 1 .. Len(E1) : E1[k].witness = {p} /\ E1[k].clause \in Saved(g, p)
      /\ \A c \in Saved(g, p) : \E k \in 1 .. Len(E1) : E1[k].clause = c
  BY DEF Listing
<1>2. /\ E2 \in Seq(EntrySet)
      /\ \A k \in 1 .. Len(E2) : E2[k].witness = {-p} /\ E2[k].clause \in Saved(g, -p)
      /\ \A c \in Saved(g, -p) : \E k \in 1 .. Len(E2) : E2[k].clause = c
  BY DEF Listing
<1>3. /\ \A c : c \in Saved(g, p) <=> c \in irr /\ p \in c /\ (g = {} \/ c \in g)
      /\ \A c : c \in Saved(g, -p) <=> c \in irr /\ -p \in c /\ (g = {} \/ c \in g)
  BY SavedFacts
<1>4. PICK A, B, A1 : /\ A = Mod(Others(p), units) /\ B = Mod(irr, units)
                      /\ A1 = {a \in A : \A c \in Saved(g, -p) : c \cap a # {}}
  OBVIOUS
<1>5. /\ A \subseteq SUBSET Lits /\ A1 \subseteq A /\ A1 \subseteq SUBSET Lits
      /\ \A a \in A1 : \A c \in Saved(g, -p) : c \cap a # {}
  BY <1>4 DEF Mod
<1>6. \A c \in irr : c \in Others(p) \/ p \in c \/ -p \in c
  BY DEF Others
<1>7. ASSUME NEW a \in A
      PROVE  /\ Total(a) /\ Satisfies(a, Others(p)) /\ units \subseteq a /\ a \in SUBSET Lits
             /\ \A c \in irr, d \in irr : /\ p \in c /\ -p \in d
                                          /\ g = {} \/ c \in g \/ d \in g
                                          => ((c \ {p}) \cup (d \ {-p})) \cap a # {}
             /\ g # {} => \E k \in g : /\ k \in irr /\ (k \ {p, -p}) \cap a = {}
                                       /\ (p \in k /\ -p \notin k) \/ (-p \in k /\ p \notin k)
  BY <1>4, <1>5, ReadyFacts
<1>8. \A a \in A : ~(p \in a /\ -p \in a) /\ (p \in a \/ -p \in a)
  BY <1>0, <1>7 DEF Total
\* All pushed clauses hold.
<1>9. ASSUME NEW a \in A1, \A k \in 1 .. Len(E1) : E1[k].clause \cap a # {}
      PROVE  a \in B
  <2>1. \A c \in Saved(g, p) : c \cap a # {}
    BY <1>1, <1>9
  <2>2. \A c \in Saved(g, -p) : c \cap a # {}
    BY <1>5
  <2>3. a \in A
    BY <1>5
  <2>4. ASSUME NEW c \in irr  PROVE c \cap a # {}
    <3>1. CASE c \in Others(p)
      BY <3>1, <2>3, <1>7 DEF Satisfies
    <3>2. CASE c \in Saved(g, p) \/ c \in Saved(g, -p)
      BY <3>2, <2>1, <2>2
    <3>3. CASE (p \in c \/ -p \in c) /\ g # {} /\ c \notin g
      <4>1. PICK k \in g : /\ k \in irr /\ (k \ {p, -p}) \cap a = {}
                           /\ (p \in k /\ -p \notin k) \/ (-p \in k /\ p \notin k)
        BY <3>3, <2>3, <1>7
      <4>2. p \in k => p \in a
        <5>1. p \in k => k \in Saved(g, p) /\ -p \notin k
          BY <4>1, <1>3
        <5> QED BY <5>1, <4>1, <2>1
      <4>3. -p \in k => -p \in a
        <5>1. -p \in k => k \in Saved(g, -p) /\ p \notin k
          BY <4>1, <1>3
        <5> QED BY <5>1, <4>1, <2>2
      <4>4. CASE p \in k
        <5>1. p \in a /\ -p \notin a
          BY <4>2, <4>4, <2>3, <1>8
        <5>2. CASE p \in c
          BY <5>1, <5>2
        <5>3. CASE -p \in c
          <6>1. ((k \ {p}) \cup (c \ {-p})) \cap a # {}
            BY <5>3, <4>1, <4>4, <2>3, <1>7
          <6> QED BY <6>1, <4>1, <4>4
        <5> QED BY <5>2, <5>3, <3>3
      <4>5. CASE -p \in k
        <5>1. -p \in a /\ p \notin a
          BY <4>3, <4>5, <2>3, <1>8
        <5>2. CASE -p \in c
          BY <5>1, <5>2
        <5>3. CASE p \in c
          <6>1. ((c \ {p}) \cup (k \ {-p})) \cap a # {}
            BY <5>3, <4>1, <4>5, <2>3, <1>7
          <6> QED BY <6>1, <4>1, <4>5
        <5> QED BY <5>2, <5>3, <3>3
      <4> QED BY <4>1, <4>4, <4>5
    <3> QED BY <3>1, <3>2, <3>3, <1>3, <1>6
  <2> QED BY <2>3, <2>4, <1>4, <1>7 DEF Mod, Satisfies
\* A pushed clause of the pivot is false.
<1>10. ASSUME NEW a \in A1, NEW k \in 1 .. Len(E1), E1[k].clause \cap a = {}
       PROVE  Flip(a, {p}) \in B
  <2>1. PICK e : e = E1[k].clause
    OBVIOUS
  <2>2. e \in irr /\ p \in e /\ (g = {} \/ e \in g) /\ e \cap a = {} /\ a \in A
    BY <2>1, <1>1, <1>3, <1>5, <1>10
  <2>3. PICK b : b = Flip(a, {p})
    OBVIOUS
  <2>4. Total(b) /\ p \in b /\ (\A x \in a : x = -p \/ x \in b) /\ units \subseteq b
    <3>1. Total(a) /\ units \subseteq a /\ -p \notin units
      BY <2>2, <1>0, <1>7 DEF Open
    <3> QED BY <3>1, <2>3, <1>0, FlipOne
  <2>5. ASSUME NEW c \in irr  PROVE c \cap b # {}
    <3>1. CASE c \in Others(p)
      <4>1. c \cap a # {} /\ -p \notin c
        BY <3>1, <2>2, <1>7 DEF Satisfies, Others
      <4> QED BY <4>1, <2>4
    <3>2. CASE p \in c
      BY <3>2, <2>4
    <3>3. CASE -p \in c
      <4>1. ((e \ {p}) \cup (c \ {-p})) \cap a # {}
        BY <3>3, <2>2, <1>7
      <4> QED BY <4>1, <2>2, <2>4
    <3> QED BY <3>1, <3>2, <3>3, <1>6
  <2> QED BY <2>3, <2>4, <2>5, <1>4 DEF Mod, Satisfies, Total
<1>11. \A k \in 1 .. Len(E1) : E1[k].witness = {p} /\ p \in E1[k].clause
  BY <1>1, <1>3
<1>12. Reconstructs(A1, extension \o E1, given)
  <2>1. Reconstructs(B, extension, given)
    BY <1>4
  <2> QED BY ONLY <2>1, <1>0, <1>1, <1>5, <1>9, <1>10, <1>11, extension \in Seq(EntrySet), PushSame
\* The clauses of the negated pivot.
<1>13. ASSUME NEW a \in A, \A k \in 1 .. Len(E2) : E2[k].clause \cap a # {}
       PROVE  a \in A1
  BY <1>2, <1>4, <1>13
<1>14. ASSUME NEW a \in A, NEW k \in 1 .. Len(E2), E2[k].clause \cap a = {}
       PROVE  Flip(a, {-p}) \in A1
  <2>1. PICK b, q : b = Flip(a, {q}) /\ q = -p
    OBVIOUS
  <2>2. Total(b) /\ q \in b /\ (\A x \in a : x = -q \/ x \in b) /\ units \subseteq b
    <3>1. Total(a) /\ units \subseteq a /\ -q \notin units /\ q \in Lits
      BY <2>1, <1>0, <1>7 DEF Open
    <3> QED BY <3>1, <2>1, FlipOne
  <2>3. ASSUME NEW c \in Others(p)  PROVE c \cap b # {}
    <3>1. c \cap a # {} /\ p \notin c
      BY <2>3, <1>7 DEF Satisfies, Others
    <3> QED BY <3>1, <2>1, <2>2, <1>0
  <2>4. b \in A
    BY <2>2, <2>3, <1>4 DEF Mod, Satisfies, Total
  <2>5. \A c \in Saved(g, -p) : c \cap b # {}
    BY <2>1, <2>2, <1>3
  <2> QED BY <2>1, <2>4, <2>5, <1>4
<1>15. \A k \in 1 .. Len(E2) : E2[k].witness = {-p} /\ -p \in E2[k].clause
  BY <1>2, <1>3
<1>16. Reconstructs(A, (extension \o E1) \o E2, given)
  <2>1. PICK s, q : s = extension \o E1 /\ q = -p
    OBVIOUS
  <2>2. s \in Seq(EntrySet) /\ Reconstructs(A1, s, given) /\ q \in Lits
    BY <2>1, <1>0, <1>1, <1>12
  <2>3. /\ \A k \in 1 .. Len(E2) : E2[k].witness = {q} /\ q \in E2[k].clause
        /\ \A a \in A : (\A k \in 1 .. Len(E2) : E2[k].clause \cap a # {}) => a \in A1
        /\ \A a \in A : \A k \in 1 .. Len(E2) : E2[k].clause \cap a = {} => Flip(a, {q}) \in A1
    BY <2>1, <1>13, <1>14, <1>15
  <2>4. Reconstructs(A, s \o E2, given)
    BY ONLY <2>2, <2>3, <1>2, <1>5, PushSame
  <2> QED BY <2>1, <2>4
<1>17. (extension \o E1) \o E2 = extension \o (E1 \o E2)
  BY <1>1, <1>2, ConcatThree
<1> QED BY <1>4, <1>16, <1>17

\* The variable goes, with its clauses on the stack.
LEMMA EliminateInv ==
  ASSUME Inv, Eliminate
  PROVE  Inv'
<1>0. PICK p, g : p = work.pivot /\ g = work.gate
  OBVIOUS
<1>1. PICK E1, E2 : E1 = Entries(Saved(g, p), p) /\ E2 = Entries(Saved(g, -p), -p)
  OBVIOUS
<1>2. /\ Doing("resolve") /\ work.adding /\ work.todo = {}
      /\ irr' = irr \ (Occs(p) \cup Occs(-p))
      /\ extension' = extension \o E1 \o E2
      /\ status' = [status EXCEPT ![VarOf(p)] = IF @ = "active" THEN "eliminated" ELSE @]
      /\ work' = [kind |-> "backward", queue |-> work.found \cap irr]
      /\ UNCHANGED <<red, units, unsat, user, plan>>
  BY <1>0, <1>1 DEF Eliminate, Saved
<1>3. /\ Running /\ Clean /\ plan # <<>> /\ Head(plan) = "elim" /\ Late
      /\ ResolveOK(p, g, {}, TRUE)
  <2>1. /\ Running /\ Clean /\ plan # <<>> /\ Head(plan) = "elim" /\ Late
        /\ ResolveOK(work.pivot, work.gate, work.todo, work.adding)
    BY <1>2, ResolveFacts
  <2>2. work.adding = TRUE
    BY <2>1, <1>2 DEF ResolveOK
  <2> QED BY <2>1, <2>2, <1>0, <1>2
<1>4. p \in Lits /\ ~Frozen(p) /\ Ready(p, g)
  BY <1>3 DEF ResolveOK, Ready
<1>5. /\ extension \in Seq(EntrySet) /\ irr \subseteq SUBSET Lits
      /\ Reconstructs(Mod(irr, units), extension, given)
  BY <1>3 DEF Running, Types, Meaning
<1>6. -p \in Lits /\ Saved(g, p) \subseteq SUBSET Lits /\ Saved(g, -p) \subseteq SUBSET Lits
  BY <1>4, <1>5, LitFacts DEF Saved, Occs
<1>7. Listing(E1, Saved(g, p), p) /\ Listing(E2, Saved(g, -p), -p)
  <2>1. PICK q, S : q = -p /\ S = Saved(g, q)
    OBVIOUS
  <2>2. Listing(Entries(S, q), S, q)
    BY <2>1, <1>6, EntriesFacts
  <2>3. Listing(E1, Saved(g, p), p)
    BY <1>1, <1>4, <1>6, EntriesFacts
  <2> QED BY <2>1, <2>2, <2>3, <1>1
<1>8. PICK i, st : i = Others(p) /\ st = E1 \o E2
  OBVIOUS
<1>9. Reconstructs(Mod(i, units), extension \o st, given)
  BY ONLY <1>4, <1>5, <1>7, <1>8, EliminateReconstructs
<1>10. /\ E1 \in Seq(EntrySet) /\ \A k \in 1 .. Len(E1) : E1[k].witness = {p} /\ E1[k].clause \in irr
       /\ E2 \in Seq(EntrySet) /\ \A k \in 1 .. Len(E2) : E2[k].witness = {-p} /\ E2[k].clause \in irr
  BY <1>7, SavedFacts DEF Listing
<1>11. st \in Seq(EntrySet) /\ extension' = extension \o st
  <2>1. PICK X, E : X = extension /\ E = EntrySet
    OBVIOUS
  <2>2. X \in Seq(E) /\ E1 \in Seq(E) /\ E2 \in Seq(E)
    BY <1>5, <1>10, <2>1
  <2>3. (X \o E1) \o E2 = X \o (E1 \o E2) /\ E1 \o E2 \in Seq(E)
    BY ONLY <2>2, ConcatThree
  <2> QED BY <1>2, <1>8, <2>1, <2>3
<1>12. \A j \in 1 .. Len(st) : \/ \E k \in 1 .. Len(E1) : st[j] = E1[k]
                               \/ \E k \in 1 .. Len(E2) : st[j] = E2[k]
  BY <1>8, <1>10, ConcatPlaces
<1>13. Harmless(st)
  <2>1. ~Inconsistent({p}) /\ ~Inconsistent({-p}) /\ ~Frozen(-p)
    BY <1>4, <1>6, LitFacts DEF Inconsistent, Frozen
  <2>2. \A j \in 1 .. Len(st) : st[j].witness = {p} \/ st[j].witness = {-p}
    BY <1>10, <1>12
  <2> QED BY <2>1, <2>2, <1>4 DEF Harmless
<1>14. \A j \in 1 .. Len(st) : \E e \in irr : e \subseteq st[j].clause
  BY <1>10, <1>12
<1>15. irr' = i /\ i \subseteq irr /\ \A e \in i : p \notin e /\ -p \notin e
  BY <1>2, <1>8 DEF Occs, Others
<1>16. work'.kind = "backward" /\ work'.queue = work.found \cap irr
  BY <1>2
<1>17. Late' /\ plan' = plan
  BY <1>2, <1>3 DEF Late
<1>18. \/ status' = status
       \/ \E q \in Lits, x \in {"eliminated", "pure"} :
            /\ status' = [status EXCEPT ![VarOf(q)] = x] /\ Late'
            /\ \A e \in i : q \notin e /\ -q \notin e
  <2>1. PICK v : v = VarOf(p)
    OBVIOUS
  <2>2. v \in Vars
    BY <2>1, <1>4, LitFacts
  <2>3. status' = [status EXCEPT ![v] = IF @ = "active" THEN "eliminated" ELSE @]
    BY <1>2, <2>1
  <2>4. PICK S : status \in [Vars -> S]
    BY <1>3 DEF Running, Types
  <2>5. CASE status[v] = "active"
    <3>1. status' = [status EXCEPT ![v] = "eliminated"]
      BY <2>3, <2>5
    <3> QED BY <3>1, <2>1, <1>4, <1>15, <1>17
  <2>6. CASE status[v] # "active"
    <3>1. status' = [status EXCEPT ![v] = status[v]]
      BY <2>3, <2>6
    <3>2. status' = status
      BY ONLY <3>1, <2>2, <2>4
    <3> QED BY <3>2
  <2> QED BY <2>5, <2>6
<1>19. Pushing(i, st)
  <2>1. /\ red' = red /\ units' = units /\ unsat' = unsat /\ observed' = observed /\ given' = given
        /\ work'.kind # "substitute"
    BY <1>2, <1>16 DEF user
  <2>2. Reconstructs(Mod(i, units), extension', given)
    BY <1>9, <1>11
  <2> QED BY <2>1, <2>2, <1>11, <1>13, <1>14, <1>15, <1>17, <1>18 DEF Pushing
<1>20. Holds'
  BY <1>3, <1>19, PushingStep
<1>21. Planned'
  <2>1. \A e \in irr' : e \cap units' = {}
    BY <1>2, <1>3, <1>15 DEF Clean
  <2> QED BY <2>1, <1>3, <1>17, SamePlan
<1>22. Working'
  <2>1. InBackward'
    BY <1>2, <1>3, <1>16, <1>17 DEF InBackward
  <2> QED BY <2>1 DEF Working
<1> QED BY <1>20, <1>21, <1>22, Assembled

-----------------------------------------------------------------------------
(* The whole.                                                              *)

\* Every technique of Elimination keeps the invariant.
LEMMA EliminationInv ==
  ASSUME Inv, EliminationNext
  PROVE  Inv'
BY ConnectInv, GateUnitInv, TryToEliminateInv, ResolveInv, GiveUpInv, StartAddingInv, EliminateInv,
   BackwardInv, DequeueInv, EndBackwardInv, EndElimInv, InstantiateInv,
   BlockClauseInv, BlockPureLiteralInv, EndBlockInv,
   CoverInv, CoverTrueInv, CoverAsymmetricInv, CoverLiteralInv, CoverTautologyInv, CoverBlockedInv,
   CoverFailsInv, StartConditionInv, ConditionInv, EndConditionInv
   DEF EliminationNext

\* Every step keeps the invariant.
LEMMA NextInv ==
  ASSUME Inv, [Next]_vars
  PROVE  Inv'
BY StartInv, EndProcedureInv, AddClausesInv, LearnInv, ReduceInv, CompactInv, SubsumptionInv,
   ProbingInv, EliminationInv, StutterInv DEF Next, Unsatisfiable

\* No sequence of inprocessing steps, of any of the procedures, leads out of the
\* invariant, whatever is given, observed and added.
THEOREM InprocessingInvariant == Spec => []Inv
BY InitInv, NextInv, PTL DEF Spec

-----------------------------------------------------------------------------
(* What the invariant gives.                                               *)

Watched == {l \in Lits : Frozen(l)}

\* Below the entries of a substitution that is under way lies a stack that
\* reconstructs from what the solver holds.
LEMMA StackBelow ==
  ASSUME Inv, ~unsat
  PROVE  \E st \in Seq(EntrySet) :
           /\ Harmless(st)
           /\ Reconstructs(Mod(irr \cup Equivalences, units), st, given)
           /\ work.kind # "substitute" => st = extension
<1>1. Types /\ Meaning /\ Working
  BY InvParts
<1>2. CASE work.kind # "substitute"
  <2>1. Equivalences = {}
    BY <1>2 DEF Equivalences
  <2>2. irr \cup Equivalences = irr
    BY <2>1
  <2>3. extension \in Seq(EntrySet) /\ Harmless(extension)
    BY <1>1 DEF Types, Meaning
  <2>4. Reconstructs(Mod(irr, units), extension, given)
    BY <1>1, <1>2 DEF Meaning
  <2>5. Reconstructs(Mod(irr \cup Equivalences, units), extension, given)
    BY <2>2, <2>4
  <2> QED BY <2>3, <2>5
<1>3. CASE work.kind = "substitute"
  <2>1. Substituting
    BY <1>1, <1>3, IdleFacts DEF Working, Resolving, InBackward, Covering, Conditioning
  <2>2. PICK st \in Seq(EntrySet) :
          /\ extension = st \o EquivalenceEntries(work.repr)
          /\ Reconstructs(Mod(irr \cup Equivalences, units), st, given)
    BY <2>1 DEF Substituting
  <2>3. PICK es : es = EquivalenceEntries(work.repr)
    OBVIOUS
  <2>4. es \in Seq(EntrySet)
    BY <2>1, <2>3, EquivalenceEntriesFacts DEF Substituting, Replaces
  <2>5. ASSUME NEW j \in 1 .. Len(st)
        PROVE  ~Inconsistent(st[j].witness) /\ \A l \in st[j].witness : ~Frozen(l)
    <3>1. j \in 1 .. Len(extension) /\ extension[j] = st[j]
      <4>1. extension = st \o es
        BY <2>2, <2>3
      <4>2. j \in 1 .. Len(st \o es) /\ (st \o es)[j] = st[j]
        BY <2>4
      <4> QED BY <4>1, <4>2
    <3> QED BY <3>1, <1>1 DEF Meaning, Harmless
  <2>6. Harmless(st)
    BY <2>5 DEF Harmless
  <2> QED BY <1>3, <2>2, <2>6
<1> QED BY <1>2, <1>3

\* A model of the clauses held becomes one of the clauses given that has the same
\* observed literals.
LEMMA SameObserved ==
  ASSUME NEW st \in Seq(EntrySet), Harmless(st), NEW A, NEW G, Reconstructs(A, st, G),
         NEW a \in A, Total(a)
  PROVE  /\ Total(Extended(st, a)) /\ Satisfies(Extended(st, a), G)
         /\ {l \in Extended(st, a) : Frozen(l)} = {l \in a : Frozen(l)}
<1>1. PICK v : Chain(st, {}, v) /\ v[Len(st)] = a /\ Extended(st, a) = v[0]
  BY ExtendedChain DEF Total
<1>2. TaintClosed(st, {})
  BY DEF TaintClosed
<1>3. Satisfies(v[0], G)
  BY <1>1, <1>2 DEF Reconstructs
<1>4. \A j \in 1 .. Len(st) : ~Inconsistent(st[j].witness)
  BY DEF Harmless
<1>5. Total(v[0])
  BY <1>1, <1>4, ChainTotal
<1>6. ASSUME NEW j \in 1 .. Len(st)  PROVE Negated(st[j].witness) \cap Watched = {}
  <2>1. st[j] \in EntrySet
    BY ElementOfSeq
  <2>2. st[j].witness \subseteq Lits /\ \A l \in st[j].witness : ~Frozen(l)
    BY <2>1 DEF EntrySet, Harmless
  <2>3. ASSUME NEW l \in st[j].witness  PROVE -l \notin Watched
    <3>1. VarOf(-l) = VarOf(l)
      BY <2>2, LitFacts
    <3> QED BY <3>1, <2>2 DEF Watched, Frozen
  <2> QED BY <2>3 DEF Negated
<1>7. v[Len(st)] \cap Watched \subseteq v[0]
  BY <1>1, <1>6, ChainKeeps
<1>8. ASSUME NEW l \in v[0], Frozen(l), l \notin a  PROVE FALSE
  <2>1. l \in Lits /\ -l \in Lits /\ VarOf(-l) = VarOf(l)
    BY <1>5, LitFacts DEF Total
  <2>2. -l \in a /\ -l \in Watched
    BY <1>8, <2>1 DEF Total, Watched, Frozen
  <2>3. -l \in v[0]
    BY <1>1, <1>7, <2>2
  <2> QED BY <1>5, <1>8, <2>1, <2>3 DEF Total
<1>9. ASSUME NEW l \in a, Frozen(l)  PROVE l \in v[0]
  BY <1>1, <1>7, <1>9 DEF Total, Watched
<1> QED BY <1>1, <1>3, <1>5, <1>8, <1>9

\* Unit clauses are satisfied where their literals are true.
LEMMA UnitClauses ==
  ASSUME NEW U, NEW a
  PROVE  Satisfies(a, Unit(U)) <=> U \subseteq a
<1>1. ASSUME NEW l  PROVE {l} \cap a # {} <=> l \in a
  OBVIOUS
<1>2. Satisfies(a, Unit(U)) <=> \A l \in U : {l} \cap a # {}
  BY Zenon DEF Satisfies, Unit
<1> QED BY <1>1, <1>2

\* The models of what the solver holds.
LEMMA DatabaseModels ==
  ASSUME ~unsat, NEW a
  PROVE  a \in Models(Database) <=> Total(a) /\ a \in Mod(irr \cup Equivalences, units)
<1>1. Database = irr \cup Unit(units) \cup Equivalences
  BY DEF Database
<1>2. Satisfies(a, Database) <=> Satisfies(a, irr \cup Equivalences) /\ units \subseteq a
  <2>1. PICK E : E = Equivalences
    OBVIOUS
  <2>2. Satisfies(a, Unit(units)) <=> units \subseteq a
    BY UnitClauses
  <2>3. Satisfies(a, irr \cup Unit(units) \cup E) <=>
          Satisfies(a, irr \cup E) /\ Satisfies(a, Unit(units))
    BY Zenon DEF Satisfies
  <2> QED BY <1>1, <2>1, <2>2, <2>3
<1> QED BY <1>2, ModelsTotal DEF Mod, Total

\* What is given excludes no more than what is held, redundant clauses included.
LEMMA GivenImplies ==
  ASSUME Inv, ~unsat, NEW a, Total(a), Satisfies(a, given)
  PROVE  a \in Models(Database \cup red)
<1>1. Satisfies(a, irr \cup red) /\ units \subseteq a /\ Satisfies(a, Equivalences)
  BY InvParts DEF Meaning
<1>2. Satisfies(a, Database \cup red)
  BY <1>1 DEF Database, Satisfies, Unit
<1> QED BY <1>2, ModelsTotal

\* What is held excludes no more than what was given, over the observed variables.
LEMMA Reconstructed ==
  ASSUME Inv, ~unsat, NEW a \in Models(Database)
  PROVE  \E b : /\ Total(b) /\ Satisfies(b, given)
                /\ {l \in b : Frozen(l)} = {l \in a : Frozen(l)}
<1>1. PICK st \in Seq(EntrySet) :
        Harmless(st) /\ Reconstructs(Mod(irr \cup Equivalences, units), st, given)
  BY StackBelow
<1>2. Total(a) /\ a \in Mod(irr \cup Equivalences, units)
  BY DatabaseModels
<1>3. PICK A : A = Mod(irr \cup Equivalences, units)
  OBVIOUS
<1>4. /\ Total(Extended(st, a)) /\ Satisfies(Extended(st, a), given)
      /\ {l \in Extended(st, a) : Frozen(l)} = {l \in a : Frozen(l)}
  BY <1>1, <1>2, <1>3, SameObserved
<1> QED BY <1>4

OnObserved(a) == {l \in a : Frozen(l)}

\* Restricting assignments to the observed variables.
LEMMA OnIs ==
  ASSUME NEW A
  PROVE  On(A, observed) = {OnObserved(a) : a \in A}
BY DEF On, OnObserved, Frozen

\* Both ways: over the observed variables the solver holds what it was given.
LEMMA ObservedSolutions ==
  ASSUME Inv
  PROVE  /\ On(Models(Database), observed) = On(Models(given), observed)
         /\ ~unsat => On(Models(Database \cup red), observed) = On(Models(given), observed)
<1>1. CASE unsat
  <2>1. Models(Database) = {}
    BY <1>1 DEF Models, Database, Satisfies
  <2>2. Models(given) = {}
    BY <1>1, ModelsTotal DEF Inv, NoModel
  <2> QED BY <1>1, <2>1, <2>2
<1>2. CASE ~unsat
  <2>1. ASSUME NEW a \in Models(given)  PROVE a \in Models(Database \cup red)
    BY <1>2, GivenImplies, ModelsTotal
  <2>2. ASSUME NEW a \in Models(Database \cup red)  PROVE a \in Models(Database)
    BY DEF Models, Satisfies
  <2>3. ASSUME NEW a \in Models(Database)
        PROVE  \E b \in Models(given) : OnObserved(b) = OnObserved(a)
    <3>1. PICK b : /\ Total(b) /\ Satisfies(b, given)
                   /\ {l \in b : Frozen(l)} = {l \in a : Frozen(l)}
      BY <1>2, Reconstructed
    <3> QED BY <3>1, ModelsTotal DEF OnObserved
  <2>4. PICK M, N, D : M = Models(given) /\ N = Models(Database \cup red) /\ D = Models(Database)
    OBVIOUS
  <2>5. /\ M \subseteq N /\ N \subseteq D
        /\ \A a \in D : \E b \in M : OnObserved(b) = OnObserved(a)
    BY <2>1, <2>2, <2>3, <2>4
  <2>6. /\ {OnObserved(a) : a \in D} = {OnObserved(a) : a \in M}
        /\ {OnObserved(a) : a \in N} = {OnObserved(a) : a \in M}
    BY ONLY <2>5
  <2> QED BY <2>4, <2>6, OnIs
<1> QED BY <1>1, <1>2

\* The operators of IncrementalSAT are those of Clauses.
LEMMA InterfaceOperators ==
  /\ Interface!Vars = Vars /\ Interface!Lits = Lits
  /\ \A F : Interface!Solutions(F) = On(Models(F), observed)
BY DEF Interface!Vars, Vars, Interface!Lits, Lits, Interface!Solutions, Interface!On, On,
       Interface!Models, Models, Interface!Assignments, Assignments, Interface!Negated, Negated,
       Interface!Satisfies, Satisfies, Interface!VarOf, VarOf

\* Only AddClauses changes what is given, and nothing what is observed.
LEMMA UserSteps ==
  ASSUME [Next]_vars
  PROVE  observed' = observed /\ (given' = given \/ \E F \in Additions : given' = given \cup F)
<1>1. CASE UNCHANGED vars
  BY <1>1 DEF vars, user
<1>2. CASE Start \/ EndProcedure \/ Learn \/ Reduce \/ Compact
  BY <1>2 DEF Start, EndProcedure, Learn, Reduce, Compact, user
<1>3. CASE AddClauses
  BY <1>3 DEF AddClauses
<1>4. CASE SubsumptionNext
  <2>1. CASE Subsume \/ Strengthen \/ VivifySatisfied \/ VivifyImplied
    BY <2>1 DEF Subsume, Strengthen, VivifySatisfied, VivifyImplied, user
  <2>2. CASE VivifyAnalyzed \/ VivifyRemove \/ VivifyInstantiate
    BY <2>2 DEF VivifyAnalyzed, VivifyRemove, VivifyInstantiate, user
  <2>3. CASE TransitivelyReduce \/ TransredUnit \/ Deduplicate \/ DeduplicateUnit
    BY <2>3 DEF TransitivelyReduce, TransredUnit, Deduplicate, DeduplicateUnit, user
  <2> QED BY <1>4, <2>1, <2>2, <2>3 DEF SubsumptionNext
<1>5. CASE ProbingNext
  <2>1. CASE FailedLiteral \/ HyperBinary \/ HyperTernary
    BY <2>1 DEF FailedLiteral, HyperBinary, HyperTernary, user
  <2>2. CASE Decompose \/ Substitute \/ SubstituteEnd
    BY <2>2 DEF Decompose, Substitute, SubstituteEnd, user
  <2> QED BY <1>5, <2>1, <2>2 DEF ProbingNext
<1>6. CASE EliminationNext
  <2>1. CASE \/ Connect \/ GateUnit \/ TryToEliminate \/ Resolve \/ GiveUpElimination \/ StartAdding
             \/ Eliminate \/ Backward \/ Dequeue \/ EndBackward \/ EndElim \/ Instantiate
    BY <2>1 DEF Connect, GateUnit, TryToEliminate, Resolve, GiveUpElimination, StartAdding,
                Eliminate, Backward, Dequeue, EndBackward, EndElim, Instantiate, user
  <2>2. CASE \/ BlockClause \/ BlockPureLiteral \/ EndBlock \/ Cover \/ CoverTrue \/ CoverAsymmetric
             \/ CoverLiteral \/ CoverTautology \/ CoverBlocked \/ CoverFails
    <3>1. CASE BlockClause \/ EndBlock \/ Cover \/ CoverTrue
      BY <3>1 DEF BlockClause, EndBlock, Cover, CoverTrue, user
    <3>2. CASE BlockPureLiteral
      BY <3>2 DEF BlockPureLiteral, user
    <3>3. CASE CoverAsymmetric
      BY <3>3 DEF CoverAsymmetric, user
    <3>4. CASE CoverLiteral
      BY <3>4, Zenon DEF CoverLiteral, user
    <3>5. CASE CoverTautology \/ CoverBlocked \/ CoverFails
      BY <3>5 DEF Covered, CoverTautology, CoverBlocked, CoverFails, user
    <3> QED BY <2>2, <3>1, <3>2, <3>3, <3>4, <3>5
  <2>3. CASE StartCondition \/ Condition \/ EndCondition
    BY <2>3 DEF StartCondition, Condition, EndCondition, user
  <2> QED BY <1>6, <2>1, <2>2, <2>3 DEF EliminationNext
<1>7. CASE Unsatisfiable
  BY <1>7 DEF Unsatisfiable, vars, user
<1> QED BY <1>1, <1>2, <1>3, <1>4, <1>5, <1>6, <1>7 DEF Next

-----------------------------------------------------------------------------
(* The properties the runs check.                                          *)

\* Inprocessing implements the incremental interface: over the observed
\* variables the solutions of what the solver holds are those of the clauses
\* given, and only adding clauses changes them.
THEOREM ObservedSolutionsKept == Spec => KeepsObservedSolutions
<1> DEFINE S == On(Models(Database), observed)
<1>1. ASSUME Init  PROVE Interface!Init
  <2>1. Inv
    BY <1>1, InitInv
  <2>2. S = On(Models(given), observed)
    BY <2>1, ObservedSolutions
  <2>3. observed \subseteq Vars /\ given \subseteq SUBSET Lits
    BY <1>1, ProblemsAssumption DEF Init
  <2> QED BY <2>2, <2>3, InterfaceOperators DEF Interface!Init
<1>2. ASSUME Inv, Inv', [Next]_vars  PROVE [Interface!Add]_<<observed, given, S>>
  <2>1. S = On(Models(given), observed)
    BY <1>2, ObservedSolutions
  <2>2. (S = On(Models(given), observed))'
    BY <1>2, ObservedSolutions, PTL
  <2>3. observed' = observed /\ (given' = given \/ \E F \in Additions : given' = given \cup F)
    BY <1>2, UserSteps
  <2>4. CASE given' = given
    BY <2>1, <2>2, <2>3, <2>4
  <2>5. ASSUME NEW F \in Additions, given' = given \cup F  PROVE Interface!Add
    <3>1. S' = On(Models(given'), observed')
      BY <2>2
    <3> QED BY <2>3, <2>5, <3>1, InterfaceOperators DEF Interface!Add
  <2> QED BY <2>3, <2>4, <2>5
<1> QED BY <1>1, <1>2, InprocessingInvariant, PTL DEF Spec, KeepsObservedSolutions, Interface!Spec

\* No redundant clause excludes a solution over the observed variables, not even
\* one with a variable that was eliminated since.
THEOREM RedundantExcludesNothingHolds == Spec => []RedundantExcludesNothing
<1>1. Inv => RedundantExcludesNothing
  BY ObservedSolutions DEF RedundantExcludesNothing
<1> QED BY <1>1, InprocessingInvariant, PTL

\* From any model of the clauses that are left the extension stack makes one of
\* all clauses ever given.
THEOREM ExtensionGivesModelHolds == Spec => []ExtensionGivesModel
<1>1. ASSUME Inv, ~unsat, work.kind # "substitute", NEW a \in Models(irr \cup Unit(units))
      PROVE  Satisfies(Extended(extension, a), given)
  <2>1. Types /\ Meaning
    BY <1>1, InvParts
  <2>2. extension \in Seq(EntrySet) /\ Harmless(extension)
        /\ Reconstructs(Mod(irr, units), extension, given)
    BY <1>1, <2>1 DEF Types, Meaning
  <2>3. Total(a) /\ a \in Mod(irr, units)
    <3>1. Total(a) /\ Satisfies(a, irr \cup Unit(units))
      BY <1>1, ModelsTotal
    <3>2. Satisfies(a, irr) /\ Satisfies(a, Unit(units))
      BY <3>1 DEF Satisfies
    <3> QED BY <3>1, <3>2, UnitClauses DEF Mod, Total
  <2>4. PICK A : A = Mod(irr, units)
    OBVIOUS
  <2> QED BY <2>2, <2>3, <2>4, SameObserved
<1>2. Inv => ExtensionGivesModel
  BY <1>1 DEF ExtensionGivesModel
<1> QED BY <1>2, InprocessingInvariant, PTL

\* Whenever the search loop runs, no clause is left over a variable that a
\* procedure removed: redundant ones with such a variable went with the procedure.
THEOREM SearchOverMappedVariablesHolds == Spec => []SearchOverMappedVariables
<1>1. ASSUME Inv, Searching, NEW c \in Formula, NEW l \in c
      PROVE  status[VarOf(l)] \in {"active", "fixed"}
  <2>1. ~unsat /\ ~Late
    BY <1>1, SearchLoop
  <2>2. Base
    BY <1>1, <2>1, InvParts
  <2> QED BY <1>1, <2>1, <2>2 DEF Base, Formula, Good, Present
<1>2. Inv => SearchOverMappedVariables
  BY <1>1 DEF SearchOverMappedVariables
<1> QED BY <1>2, InprocessingInvariant, PTL
=============================================================================
