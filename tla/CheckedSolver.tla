--------------------------- MODULE CheckedSolver ---------------------------
(***************************************************************************)
(* The solver with options check and checkproof=3: everything it tells the *)
(* object Proof, proof.cpp, goes to both checkers, and with externallrat   *)
(* first to the builder, whose chains then replace the solver's; and to    *)
(* the tracers that write it to a file, in each of the formats.            *)
(***************************************************************************)
EXTENDS IncrementalSolver

VARIABLE tracers   \* what the LRAT checker, the RUP checker and the builder hold, and
                   \* what has been written to a file of each format

checkedVars == <<vars, tracers>>

Lrat == INSTANCE LratChecker
Rup == INSTANCE RupChecker
Builder == INSTANCE LratBuilder
File == INSTANCE ProofFiles

-----------------------------------------------------------------------------
\* The clauses the solver has: watched, units, and the empty clause.
Has(s) == DOMAIN s.watch \cup {{l} : l \in RootTrue(s)} \cup (IF s.unsat THEN {{}} ELSE {})

(* proof.cpp: one call, every tracer.                                        *)

Built(t, b) == IF opts.externallrat THEN b ELSE t.builder

Files == [lrat |-> File!LratOpened, frat |-> File!FratOpened, drat |-> File!DratOpened,
          veripb |-> File!VeripbOpened, idrup |-> File!IdrupOpened]

OriginalWritten(f, c) ==
  [lrat |-> File!LratOriginal(f.lrat, c), frat |-> File!FratOriginal(f.frat, c),
   drat |-> File!DratOriginal(f.drat, c), veripb |-> File!VeripbOriginal(f.veripb, c),
   idrup |-> File!IdrupOriginal(f.idrup, c)]

OriginalTraced(t, c) ==
  [lrat |-> Lrat!AddOriginal(t.lrat, c), rup |-> Rup!AddOriginal(t.rup, c),
   builder |-> Built(t, Builder!Add(t.builder, c)), file |-> OriginalWritten(t.file, c)]

ChainOf(t, line) ==
  IF opts.externallrat THEN Builder!Build(t.builder, line.clause).chain ELSE line.chain

\* The flag a clause has when it is derived or deleted; one that does not outlast
\* the step is a redundant one unless it was given.
Redundant(c) ==
  IF c \in Has(core') THEN c \in core'.red
  ELSE IF c \in Has(core) THEN c \in core.red ELSE c \notin user'.given

\* What is left of a redundant clause is derived as redundant.
DerivedRedundant(c) ==
  \/ Redundant(c)
  \/ Cardinality(c) > 1 /\ \E d \in core.red \ Has(core') : c \subseteq d

DerivedWritten(f, c, chain) ==
  [lrat |-> File!LratDerived(f.lrat, c, chain), frat |-> File!FratDerived(f.frat, c, chain),
   drat |-> File!DratDerived(f.drat, c),
   veripb |-> File!VeripbDerived(f.veripb, c, DerivedRedundant(c)),
   idrup |-> File!IdrupDerived(f.idrup, c)]

DerivedTraced(t, line) ==
  [lrat |-> Lrat!AddDerived(t.lrat, line.clause, ChainOf(t, line)),
   rup |-> Rup!AddDerived(t.rup, line.clause),
   builder |-> Built(t, Builder!AddDerived(t.builder, line.clause)),
   file |-> DerivedWritten(t.file, line.clause, ChainOf(t, line))]

AssumptionClauseTraced(t, line) ==
  [lrat |-> Lrat!AddAssumptionClause(t.lrat, line.clause, ChainOf(t, line)),
   rup |-> Rup!AddAssumptionClause(t.rup, line.clause),
   builder |-> Built(t, Builder!AddAssumptionClause(t.builder, line.clause)),
   file |-> [t.file EXCEPT !.idrup = File!IdrupStore(@, line.clause)]]

DeletionWritten(f, c) ==
  [lrat |-> File!LratDelete(f.lrat, c), frat |-> File!FratDelete(f.frat, c),
   drat |-> File!DratDelete(f.drat, c),
   veripb |-> File!VeripbDelete(f.veripb, c, Redundant(c)),
   idrup |-> File!IdrupDelete(f.idrup, c)]

DeletionTraced(t, c, collects) ==
  [lrat |-> Lrat!Delete(t.lrat, c), rup |-> Rup!Delete(t.rup, c, collects),
   builder |-> Built(t, Builder!Delete(t.builder, c)), file |-> DeletionWritten(t.file, c)]

\* strengthen: a clause that subsumes an irredundant one becomes irredundant.
StrengtheningTraced(t) ==
  LET kept == {c \in t.file.veripb.derived : c \in Has(core') \ core'.red}
  IN [t EXCEPT !.file.veripb = FoldSet(LAMBDA c, f : File!VeripbStrengthen(f, c), @, kept)]

-----------------------------------------------------------------------------
(* What a step tells Proof, in this order.                                   *)

\* transition_to_steady_state resets what the last answer was about.
Left == Answered /\ api' = "steady"
Queries == run.pc = "idle" /\ run'.pc \in {"root", "search"}
NewAssumptions ==
  LET before == IF Left THEN 0 ELSE Len(user.assumed)
  IN IF Len(user'.assumed) > before THEN {Last(user'.assumed)} ELSE {}
LratQueried(k) ==
  LET i == IF Left THEN Lrat!ResetAssumptions(k) ELSE k
      j == FoldSet(LAMBDA l, h : Lrat!AddAssumption(h, l), i, NewAssumptions)
  IN IF user'.constraint = {} THEN j ELSE Lrat!AddConstraint(j, UNION user'.constraint)
IdrupQueried(f) ==
  LET g == IF Left THEN File!IdrupResetAssumptions(f) ELSE f
      h == FoldSet(LAMBDA l, i : File!IdrupAssume(i, l), g, NewAssumptions)
  IN IF Queries THEN File!IdrupQuery(h) ELSE h
QueryTraced(t) == [t EXCEPT !.lrat = LratQueried(@), !.file.idrup = IdrupQueried(@)]

Originals == user'.given \ user.given
OriginalsTraced(t) == FoldSet(LAMBDA c, u : OriginalTraced(u, c), t, Originals)

\* Clauses collected, strengthened and subsumed, and originals that are satisfied
\* or have been replaced by what is left of them.
Dropped ==
  (DOMAIN core.watch \cup ToSet([i \in DOMAIN core'.steps |-> core'.steps[i].clause])
     \cup {c \in Originals : Skipped(core, c) \/ Rest(core, c) # c})
    \ Has(core')

DeletionsTraced(t, collects) ==
  FoldSet(LAMBDA c, u : DeletionTraced(u, c, collects), t, Dropped)

ChangesTraced(t, collects) ==
  DeletionsTraced(StrengtheningTraced(FoldLeft(DerivedTraced, t, core'.steps)), collects)

\* finalize and conclude_unsat, where a call of solve returns.
Returning == run.pc \notin {"idle", "add"} /\ run'.pc = "idle"
Conclusion ==
  IF core'.unsat THEN "conflict" ELSE IF constraint'.unsat THEN "constraint" ELSE "assumptions"

Ids == [i \in DOMAIN core'.steps |-> core'.steps[i].clause]
UnsatConcluded(t) ==
  LET u == FoldLeft(AssumptionClauseTraced, t, core'.steps)
      ids == IF core'.unsat THEN <<{}>> ELSE Ids
  IN [u EXCEPT !.lrat = Lrat!ConcludeUnsat(@, Conclusion, Ids),
               !.file.idrup = File!IdrupConcludeUnsat(@, ids, UNION user'.constraint)]
ConclusionTraced(t) ==
  CASE api' = "unsatisfied" -> UnsatConcluded(t)
    [] api' = "satisfied" -> [t EXCEPT !.file.idrup = File!IdrupConcludeSat(@, True(core'))]
    [] OTHER -> t

Status ==
  CASE api' = "satisfied" -> "SATISFIABLE" [] api' = "unsatisfied" -> "UNSATISFIABLE"
    [] OTHER -> "UNKNOWN"
AnswerTraced(t) ==
  ConclusionTraced([t EXCEPT !.lrat = Lrat!Finalize(@, Has(core')),
                             !.file.frat = File!FratFinalize(@, Has(core')),
                             !.file.idrup = File!IdrupStatus(@, Status)])

Traced(t, collects) ==
  IF Returning THEN AnswerTraced(t)
  ELSE ChangesTraced(OriginalsTraced(QueryTraced(t)), collects)

-----------------------------------------------------------------------------
\* Internal::check, setup_lrat_builder and, in each of the formats, trace.
CheckedInit ==
  /\ Init
  /\ tracers = [lrat |-> Lrat!Connected(~opts.externallrat), rup |-> Rup!Connected,
                builder |-> Builder!Connected, file |-> Files]

CheckedNext ==
  \/ (CallNext \/ SolveNext) /\ \E collects \in BOOLEAN : tracers' = Traced(tracers, collects)
  \/ Done /\ UNCHANGED tracers

CheckedSpec == CheckedInit /\ [][CheckedNext]_checkedVars /\ Fairness

-----------------------------------------------------------------------------
Failures == {tracers.lrat.failure, tracers.rup.failure, tracers.builder.failure}
Implied(c) == ~Satisfiable(user.given, Negated(c))

\* What is written can be read back: no reader rejects a line, deletions that are put
\* off are the only ones missing, an empty clause means VERIFIED, core holds what the
\* solver keeps as irredundant, and each query lists what is assumed.
FilesRead ==
  LET f == tracers.file IN
  /\ {f.lrat.failure, f.frat.failure, f.drat.failure, f.veripb.failure, f.idrup.failure} = {""}
  /\ f.lrat.clauses \ f.lrat.postponed = tracers.lrat.clauses
  /\ core.unsat => File!Verified(f.lrat)
  /\ run.pc = "idle" => f.veripb.core = Has(core) \ core.red /\ f.idrup.stored = {}
  /\ run.pc \notin {"idle", "add"} => Range(user.assumed) \subseteq f.idrup.query

\* No checker ever stops the solver: every derived clause follows along the chain
\* that is cited for it, the solver's or the builder's, the clauses in the proof
\* are those the solver has when a call returns, failed assumptions are proved
\* by the clauses that conclude the call; and what the checkers have accepted by
\* then does follow from what was given.
CheckersAccept ==
  /\ Failures = {""}
  /\ run.pc = "idle" =>
       /\ \A c \in tracers.lrat.clauses : Implied(c)
       /\ \A l \in tracers.rup.true : Implied({l})
       /\ tracers.rup.inconsistent => Implied({})
  /\ FilesRead
=============================================================================
