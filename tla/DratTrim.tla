------------------------------ MODULE DratTrim ------------------------------
(***************************************************************************)
(* drat-trim as proof-module.sh runs it: the proof is read, its lemmas are *)
(* added one by one until propagation finds a conflict, and then checked   *)
(* from the last to the first, as far as the conflict depends on them.     *)
(* With option -f each one is checked when it is added.  Lines that begin  *)
(* with t are the local change: such a clause is trusted, never checked.   *)
(***************************************************************************)
EXTENDS Clauses, FiniteSetsExt, SequencesExt

CONSTANTS
  Inputs   \* pairs of a formula, a sequence of clauses, and a proof, a sequence of
           \* [op, lits] with the pivot first

ASSUME InputAssumption ==
  \A i \in Inputs :
    /\ i[1] \in Seq(Seq(Lits))
    /\ i[2] \in Seq([op : {"add", "trust", "delete"}, lits : Seq(Lits)])

VARIABLES
  input,     \* [formula, lines, forward], the last for option -f
  db,        \* every clause read, as [lits, pivot], formula first
  hashed,    \* what the hash table still holds, which is what can be deleted
  steps,     \* S->proof and S->skip: [op, clause, skip]; op "none" once removed
  at,        \* the line or step reached
  live,      \* clauses with watches
  trail,     \* the true literals with their reasons, 0 for none
  forced,    \* how many of them are not undone after a check
  marked,    \* ACTIVE clauses
  pc, goal,  \* what runs, and what a propagation is for
  rat,       \* the RAT check in progress: [pivot, todo, untried]
  usedRat,
  verdict

vars == <<input, db, hashed, steps, at, live, trail, forced, marked, pc, goal,
          rat, usedRat, verdict>>
search == <<live, trail, forced, marked>>

FormulaIds == 1 .. Len(input.formula)
Lemma(lits) == [lits |-> ToSet(lits), pivot |-> IF lits = <<>> THEN 0 ELSE Head(lits)]
NoRat == [pivot |-> 0, todo |-> {}, untried |-> {}, base |-> 0]

TrueLits == {trail[k].lit : k \in DOMAIN trail}
Open(c) == {l \in db[c].lits : -l \notin TrueLits}
Satisfied(c) == db[c].lits \cap TrueLits # {}
Unit(c) == Cardinality(db[c].lits) = 1
ReasonFor(c) == {k \in DOMAIN trail : trail[k].reason = c}
Assume(lits) == SetToSeq({[lit |-> -l, reason |-> 0] : l \in lits})

Stop(v) == verdict' = v /\ pc' = "done" /\ UNCHANGED goal
GoTo(where) == pc' = where /\ UNCHANGED <<goal, verdict>>
For(g) == pc' = "propagate" /\ goal' = g /\ UNCHANGED verdict

-----------------------------------------------------------------------------
Init ==
  /\ \E i \in Inputs, f \in BOOLEAN : input = [formula |-> i[1], lines |-> i[2], forward |-> f]
  /\ db = [c \in DOMAIN input.formula |-> Lemma(input.formula[c])]
  /\ hashed = DOMAIN input.formula
  /\ steps = <<>> /\ at = 1 /\ live = {} /\ trail = <<>> /\ forced = 0 /\ marked = {}
  /\ pc = "parse" /\ goal = "none" /\ rat = NoRat /\ usedRat = FALSE /\ verdict = "none"

\* parse: one line of the proof.
ReadAddition ==
  /\ pc = "parse" /\ at <= Len(input.lines) /\ input.lines[at].op # "delete"
  /\ db' = Append(db, Lemma(input.lines[at].lits))
  /\ hashed' = hashed \cup {Len(db) + 1}
  /\ steps' = Append(steps, [op |-> "add", clause |-> Len(db) + 1,
                             skip |-> input.lines[at].op = "trust"])
  /\ at' = at + 1
  /\ UNCHANGED <<input, search, pc, goal, rat, usedRat, verdict>>

\* The deletion of a unit or of the empty clause is ignored in backward mode, that
\* of a clause that is not there always.
ReadDeletion ==
  /\ pc = "parse" /\ at <= Len(input.lines) /\ input.lines[at].op = "delete"
  /\ LET lits == ToSet(input.lines[at].lits)
         equal == {c \in hashed : db[c].lits = lits}
     IN IF equal = {} \/ (Cardinality(lits) <= 1 /\ ~input.forward)
        THEN UNCHANGED <<hashed, steps>>
        ELSE \E c \in equal :
               /\ hashed' = hashed \ {c}
               /\ steps' = Append(steps, [op |-> "delete", clause |-> c, skip |-> FALSE])
  /\ at' = at + 1
  /\ UNCHANGED <<input, db, search, pc, goal, rat, usedRat, verdict>>

\* The literals of unit clauses, each with the first clause that has it.
Assigned(units) ==
  SetToSeq({[lit |-> l, reason |-> Min({c \in units : l \in db[c].lits})] :
              l \in UNION {db[c].lits : c \in units}})

\* init: watches for the formula, its units assigned; the last clause of the
\* proof is marked from the beginning.
Initialise ==
  /\ pc = "parse" /\ at > Len(input.lines)
  /\ LET units == {c \in FormulaIds : Unit(c)}
         lits == UNION {db[c].lits : c \in units}
     IN /\ live' = {c \in FormulaIds : Cardinality(db[c].lits) > 1}
        /\ marked' = {Len(db)} \ FormulaIds
        /\ trail' = IF Inconsistent(lits) THEN trail ELSE Assigned(units)
        /\ IF Inconsistent(lits) \/ \E c \in FormulaIds : db[c].lits = {}
           THEN Stop("VERIFIED") ELSE For("init")
  /\ at' = 1
  /\ UNCHANGED <<input, db, hashed, steps, forced, rat, usedRat>>

-----------------------------------------------------------------------------
(* Propagation and the marking of what a conflict depends on.              *)

\* Mutant: literals that are not undone are not followed.
FollowedAbove(k, lits) == k > forced /\ trail[k].reason # 0 /\ -trail[k].lit \in lits

\* A literal that was met and has a reason.
Followed(k, lits) == trail[k].reason # 0 /\ -trail[k].lit \in lits

\* analyze: going back over the trail, the reasons of the literals met so far.
\* A unit that was not marked before returns before its literal is met.
Analysis(c) ==
  LET from == IF Unit(c) /\ c \notin marked THEN {} ELSE db[c].lits
      back[k \in 0 .. Len(trail)] ==
        IF k = Len(trail) THEN [lits |-> from, ids |-> {c}]
        ELSE LET w == back[k + 1]
                 e == trail[k + 1]
             IN IF ~Followed(k + 1, w.lits) THEN w
                ELSE [lits |-> w.lits \cup (db[e.reason].lits \ {e.lit}),
                      ids |-> w.ids \cup {e.reason}]
  IN back

\* What markClause marks on the way.
Cone(c) == Analysis(c)[0].ids

\* noAnalyze and the end of analyze: back to the literals that are not undone.
Kept == SubSeq(trail, 1, forced)

PropagateUnit ==
  /\ pc = "propagate"
  /\ \E c \in live :
       /\ ~Satisfied(c) /\ Cardinality(Open(c)) = 1
       /\ \E l \in Open(c) : trail' = Append(trail, [lit |-> l, reason |-> c])
  /\ UNCHANGED <<input, db, hashed, steps, at, live, forced, marked, pc, goal, rat,
                 usedRat, verdict>>

\* After the check of a lemma: the step before it, or its insertion.
Checked == IF input.forward THEN GoTo("insert") /\ UNCHANGED at
                            ELSE GoTo("backward") /\ at' = at - 1

Conflict ==
  /\ pc = "propagate"
  /\ \E c \in live :
       /\ Open(c) = {}
       /\ marked' = marked \cup Cone(c)
  /\ trail' = Kept
  /\ CASE goal = "init" \/ (goal = "lemma" /\ input.forward) -> Stop("VERIFIED") /\ UNCHANGED at
       [] goal = "lemma" /\ ~input.forward -> GoTo("backward") /\ UNCHANGED at
       [] goal = "check" -> Checked
       [] goal = "rat" -> GoTo("rat") /\ UNCHANGED at
  /\ UNCHANGED <<input, db, hashed, steps, live, forced, rat, usedRat>>

Fixpoint == pc = "propagate" /\ \A c \in live : Satisfied(c) \/ Cardinality(Open(c)) > 1

\* The literals that follow stay.
EndOfUnits ==
  /\ Fixpoint /\ goal \in {"init", "lemma"}
  /\ forced' = Len(trail)
  /\ at' = IF goal = "init" THEN 1 ELSE at + 1
  /\ GoTo("forward")
  /\ UNCHANGED <<input, db, hashed, steps, live, trail, marked, rat, usedRat>>

-----------------------------------------------------------------------------
(* verify, the pass over the proof from its first step.                    *)

Adding == pc = "forward" /\ at <= Len(steps) /\ steps[at].op = "add"
Deleting == pc = "forward" /\ at <= Len(steps) /\ steps[at].op = "delete"
Id == steps[at].clause

\* The deletion of a unit or of a reason is ignored.
DeleteStep ==
  /\ Deleting
  /\ IF Unit(Id) \/ ReasonFor(Id) # {}
     THEN steps' = [steps EXCEPT ![at].op = "none"] /\ UNCHANGED live
     ELSE live' = live \ {Id} /\ UNCHANGED steps
  /\ at' = at + 1
  /\ UNCHANGED <<input, db, hashed, trail, forced, marked, pc, goal, rat, usedRat, verdict>>

\* A unit that is true already is no step any more; in forward mode no satisfied
\* lemma is kept.
SkipSatisfied ==
  /\ Adding /\ Satisfied(Id) /\ (input.forward \/ Unit(Id))
  /\ steps' = IF input.forward THEN steps ELSE [steps EXCEPT ![at].op = "none"]
  /\ at' = at + 1
  /\ UNCHANGED <<input, db, hashed, search, pc, goal, rat, usedRat, verdict>>

\* redundancyCheck begins: the lemma is assumed false.
StartCheck(c) ==
  IF Inconsistent(db[c].lits) THEN Checked /\ trail' = Kept
  ELSE /\ trail' = trail \o Assume(Open(c))
       /\ For("check") /\ UNCHANGED at

CheckForward ==
  /\ Adding /\ input.forward /\ ~Satisfied(Id)
  /\ CASE steps[at].skip /\ Open(Id) = {} -> Stop("VERIFIED") /\ UNCHANGED <<at, trail>>
       [] steps[at].skip /\ Open(Id) # {} -> GoTo("insert") /\ UNCHANGED <<at, trail>>
       [] ~steps[at].skip -> StartCheck(Id)
  /\ UNCHANGED <<input, db, hashed, steps, live, forced, marked, rat, usedRat>>

\* The lemma joins the clauses; with one open literal it is propagated, with none
\* it must be a trusted one.
Insert ==
  /\ \/ pc = "insert"
     \/ Adding /\ ~input.forward /\ ~(Satisfied(Id) /\ Unit(Id))
  /\ live' = IF Cardinality(db[Id].lits) > 1 THEN live \cup {Id} ELSE live
  /\ CASE Satisfied(Id) \/ Cardinality(Open(Id)) > 1 ->
            at' = at + 1 /\ GoTo("forward") /\ UNCHANGED <<trail, marked>>
       [] ~Satisfied(Id) /\ Cardinality(Open(Id)) = 1 ->
            /\ trail' = Append(trail, [lit |-> CHOOSE l \in Open(Id) : TRUE, reason |-> Id])
            /\ For("lemma") /\ UNCHANGED <<at, marked>>
       [] ~Satisfied(Id) /\ Open(Id) = {} /\ steps[at].skip ->
            marked' = marked \cup Cone(Id) /\ GoTo("backward") /\ UNCHANGED <<at, trail>>
       [] ~Satisfied(Id) /\ Open(Id) = {} /\ ~steps[at].skip ->
            Stop("NOT VERIFIED") /\ UNCHANGED <<at, trail, marked>>
  /\ UNCHANGED <<input, db, hashed, steps, forced, rat, usedRat>>

EndOfProof ==
  /\ pc = "forward" /\ at > Len(steps)
  /\ Stop(IF input.forward THEN "DERIVATION" ELSE "NOT VERIFIED")
  /\ UNCHANGED <<input, db, hashed, steps, at, search, rat, usedRat>>

-----------------------------------------------------------------------------
(* verify, the pass back to the first step.                                *)

\* unassignUnit: the lemma's literal goes with everything after it; that of a unit
\* even if a RAT check has taken its reason away.
Without(c) ==
  LET propagated == IF Unit(c) THEN {k \in DOMAIN trail : trail[k].lit \in db[c].lits}
                               ELSE ReasonFor(c)
  IN IF propagated = {} THEN trail ELSE SubSeq(trail, 1, Min(propagated) - 1)

\* Mutant: the clause stays deleted.
RevivedNot(c) == live

\* The deletion of a clause is taken back.
Revived(c) == live \cup {c}

\* A lemma that no conflict needed, or a trusted one, is passed over.
Back ==
  /\ pc = "backward" /\ at > 0
  /\ CASE steps[at].op = "none" -> UNCHANGED <<live, trail, forced>>
       [] steps[at].op = "delete" -> live' = Revived(Id) /\ UNCHANGED <<trail, forced>>
       [] steps[at].op = "add" ->
            /\ Id \notin marked \/ steps[at].skip
            /\ live' = live \ {Id} /\ trail' = Without(Id) /\ forced' = Len(trail')
  /\ at' = at - 1
  /\ UNCHANGED <<input, db, hashed, steps, marked, pc, goal, rat, usedRat, verdict>>

\* A marked lemma is removed and checked; assert(size >= 1) stops the program.
CheckBackward ==
  /\ pc = "backward" /\ at > 0
  /\ steps[at].op = "add" /\ Id \in marked /\ ~steps[at].skip
  /\ LET before == Without(Id)
         true == {before[k].lit : k \in DOMAIN before}
         open == {l \in db[Id].lits : -l \notin true}
     IN /\ forced' = Len(before)
        /\ IF open = {} \/ db[Id].lits \cap true # {}
           THEN trail' = before /\ Stop("ABORTED") /\ UNCHANGED at
           ELSE IF Inconsistent(open)
           THEN trail' = before /\ at' = at - 1 /\ GoTo("backward")
           ELSE trail' = before \o Assume(open) /\ For("check") /\ UNCHANGED at
  /\ live' = live \ {Id}
  /\ UNCHANGED <<input, db, hashed, steps, marked, rat, usedRat>>

AllChecked ==
  /\ pc = "backward" /\ at = 0
  /\ Stop("VERIFIED")
  /\ UNCHANGED <<input, db, hashed, steps, at, search, rat, usedRat>>

-----------------------------------------------------------------------------
(* The RAT check of a lemma whose negation propagates without conflict.    *)

\* The clauses with the negated pivot; in backward mode only marked ones.
Candidates(p) ==
  {c \in live : -p \in db[c].lits /\ (input.forward \/ c \in marked)}

\* A pivot that was false before the check fails at once.  From here on the
\* assumed literals are not undone.
StartRat ==
  /\ Fixpoint /\ goal = "check"
  /\ LET p == db[Id].pivot
         assumed == {-trail[k].lit : k \in (forced + 1 .. Len(trail)) \cap ReasonFor(0)}
     IN IF p \notin assumed
        THEN Stop("NOT VERIFIED") /\ UNCHANGED <<rat, forced>>
        ELSE /\ rat' = [pivot |-> p, todo |-> Candidates(p), untried |-> assumed \ {p},
                        base |-> forced]
             /\ forced' = Len(trail) /\ GoTo("rat")
  /\ UNCHANGED <<input, db, hashed, steps, at, live, trail, marked, usedRat>>

\* A candidate that another literal satisfies is marked with what made it true;
\* any other one is assumed false as well.
RatCandidate ==
  /\ pc = "rat" /\ rat.todo # {}
  /\ LET c == Max(rat.todo)
         rest == db[c].lits \ {-rat.pivot}
         blocking == {k \in DOMAIN trail : trail[k].lit \in rest}
         reason == Min({trail[k].reason : k \in blocking})
     IN /\ rat' = [rat EXCEPT !.todo = @ \ {c}]
        /\ IF blocking = {}
           THEN trail' = trail \o Assume(Open(c) \ {-rat.pivot}) /\ For("rat") /\ UNCHANGED marked
           ELSE /\ marked' = IF reason = 0 THEN marked ELSE marked \cup Cone(reason)
                /\ trail' = [k \in DOMAIN trail |->
                               IF k \in blocking /\ trail[k].reason = reason
                               THEN [trail[k] EXCEPT !.reason = 0] ELSE trail[k]]
                /\ GoTo("rat")
  /\ UNCHANGED <<input, db, hashed, steps, at, live, forced, usedRat>>

\* Every candidate has led to a conflict.
RatHolds ==
  /\ pc = "rat" /\ rat.todo = {}
  /\ usedRat' = TRUE /\ rat' = NoRat
  /\ forced' = rat.base /\ trail' = SubSeq(trail, 1, rat.base)
  /\ Checked
  /\ UNCHANGED <<input, db, hashed, steps, live, marked>>

\* One has not: the lemma's other literals are tried as pivots.
RatFails ==
  /\ Fixpoint /\ goal = "rat"
  /\ trail' = Kept
  /\ IF rat.untried = {} THEN Stop("NOT VERIFIED") /\ UNCHANGED rat
     ELSE \E p \in rat.untried :
            /\ rat' = [rat EXCEPT !.pivot = p, !.todo = Candidates(p), !.untried = @ \ {p}]
            /\ GoTo("rat")
  /\ UNCHANGED <<input, db, hashed, steps, at, live, forced, marked, usedRat>>

Finished == pc = "done" /\ UNCHANGED vars

DratStep ==
  \/ ReadAddition \/ ReadDeletion \/ Initialise
  \/ PropagateUnit \/ Conflict \/ EndOfUnits
  \/ DeleteStep \/ SkipSatisfied \/ CheckForward \/ Insert \/ EndOfProof
  \/ Back \/ CheckBackward \/ AllChecked
  \/ StartRat \/ RatCandidate \/ RatHolds \/ RatFails

Next == DratStep \/ Finished

Spec == Init /\ [][Next]_vars

-----------------------------------------------------------------------------
(* What a verdict means.                                                   *)

Formula == {ToSet(input.formula[c]) : c \in DOMAIN input.formula}
Trusted == {ToSet(line.lits) : line \in {x \in ToSet(input.lines) : x.op = "trust"}}

\* The clauses before each line, as the proof says, deletions carried out, and
\* whether every lemma that is not trusted follows by propagation.
Proper ==
  LET before[k \in 0 .. Len(input.lines)] ==
        IF k = 0 THEN Formula
        ELSE LET line == input.lines[k]
             IN IF line.op = "delete" THEN before[k - 1] \ {ToSet(line.lits)}
                                      ELSE before[k - 1] \cup {ToSet(line.lits)}
  IN \A k \in DOMAIN input.lines :
       input.lines[k].op = "add" => RUP(before[k - 1], ToSet(input.lines[k].lits))

\* drat-trim/README.md:5: a proof that is accepted certifies that the formula and
\* the trusted clauses have no solution.  (After a RAT check solutions may be
\* exchanged for others, which a clause trusted later need not hold in.)
Certificate == verdict = "VERIFIED" /\ ~usedRat => Models(Formula \cup Trusted) = {}

\* So it is, RAT checks included, without trusted clauses; with them when each has
\* two literals or more and no lemma needed the RAT check.
CertificateUnlessTrustedUnit ==
  verdict = "VERIFIED" /\ (Trusted = {} \/ (~usedRat /\ \A c \in Trusted : Cardinality(c) > 1))
    => Models(Formula \cup Trusted) = {}

\* A proof as the solver writes it, each lemma a consequence by propagation of the
\* clauses before it, the last one empty, is accepted in both modes.
AcceptsSolverProofs ==
  pc = "done" /\ Proper /\ input.lines # <<>> /\ Last(input.lines).lits = <<>>
    => verdict = "VERIFIED"
=============================================================================
