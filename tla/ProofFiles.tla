----------------------------- MODULE ProofFiles -----------------------------
(***************************************************************************)
(* The proofs CaDiCaL writes to a file, and what is left of them when they *)
(* are read back: LRAT lines with lrat-check.c, FRAT, DRAT, VeriPB with    *)
(* checked deletions, and IDRUP, which also records queries and answers.   *)
(* A clause stands for its own id; failure keeps what the reader rejects.  *)
(***************************************************************************)
EXTENDS Clauses, SequencesExt

Rejects(f, message) == [f EXCEPT !.failure = message]
Reads(f, ok, message, then) ==
  IF f.failure # "" THEN f ELSE IF ok THEN then ELSE Rejects(f, message)

-----------------------------------------------------------------------------
(* LRAT: lrattracer.cpp and lrat-check.c.                                    *)

\* clauses: in the checker's table; postponed: deleted, but not written so yet;
\* empty: found_empty_clause.
LratOpened == [clauses |-> {}, postponed |-> {}, empty |-> FALSE, failure |-> ""]

\* The checker reads the formula before the proof; a new copy has a new id.
LratOriginal(f, c) == [f EXCEPT !.clauses = @ \cup {c}, !.postponed = @ \ {c}]
LratDelete(f, c) == [f EXCEPT !.postponed = @ \cup {c}]

\* deleteClauses, for the line written before the next one that adds a clause.
LratFlushed(f) == [f EXCEPT !.clauses = @ \ f.postponed, !.postponed = {}]

\* checkRedundancy without a pivot: every hint is in the table and leaves at most
\* one literal that is not false, until one leaves none.
Hint(F, w, d) ==
  LET open == d \ w.false
  IN IF w.end # "" THEN w
     ELSE IF d \notin F \/ Cardinality(open) > 1 THEN [w EXCEPT !.end = "FAILED"]
     ELSE IF open = {} THEN [w EXCEPT !.end = "CONFLICT"]
     ELSE [w EXCEPT !.false = @ \cup Negated(open)]

\* checkClause, with no negative hints: hints that end without a conflict fail.
HintsConflict(F, c, hints) ==
  FoldLeft(LAMBDA w, d : Hint(F, w, d), [false |-> c, end |-> ""], hints).end = "CONFLICT"

\* lrat_add_clause, and what main makes of the line.
LratDerived(f, c, hints) ==
  LET g == LratFlushed(f)
  IN Reads(g, HintsConflict(g.clauses, c, hints), "failed while checking clause",
           [g EXCEPT !.clauses = @ \cup {c}, !.empty = @ \/ c = {}])

Verified(f) == f.empty /\ f.failure = ""

-----------------------------------------------------------------------------
(* FRAT: frattracer.cpp, with antecedents.  Lines o, a, d, and f for each    *)
(* clause the solver ends with.                                              *)

FratOpened == [clauses |-> {}, failure |-> ""]
FratOriginal(f, c) == [f EXCEPT !.clauses = @ \cup {c}]
FratDerived(f, c, hints) ==
  Reads(f, HintsConflict(f.clauses, c, hints), "hints do not conflict",
        [f EXCEPT !.clauses = @ \cup {c}])
FratDelete(f, c) == Reads(f, c \in f.clauses, "no such clause", [f EXCEPT !.clauses = @ \ {c}])
FratFinalize(f, live) == Reads(f, live = f.clauses, "not what the solver ends with", f)

-----------------------------------------------------------------------------
(* DRAT: drattracer.cpp.  Lines add and delete by literals, without hints.   *)

DratOpened == [clauses |-> {}, failure |-> ""]
DratOriginal(f, c) == [f EXCEPT !.clauses = @ \cup {c}]
DratDerived(f, c) ==
  Reads(f, Tautology(c) \/ RUP(f.clauses, c), "lemma does not follow",
        [f EXCEPT !.clauses = @ \cup {c}])
DratDelete(f, c) == Reads(f, c \in f.clauses, "no such clause", [f EXCEPT !.clauses = @ \ {c}])

-----------------------------------------------------------------------------
(* VeriPB: veripbtracer.cpp with rup lines and checked deletions.  What is   *)
(* in core must keep its meaning: a clause leaves it only if it follows from *)
(* the rest of core by propagation; derived clauses come and go freely.      *)

VeripbOpened == [core |-> {}, derived |-> {}, failure |-> ""]
VeripbOriginal(f, c) == [f EXCEPT !.core = @ \cup {c}, !.derived = @ \ {c}]
VeripbCore(f, c) == VeripbOriginal(f, c)
VeripbDerived(f, c, redundant) ==
  Reads(f, RUP(f.core \cup f.derived, c), "rup line does not follow",
        IF ~redundant THEN VeripbCore(f, c)
        ELSE IF c \in f.core THEN f ELSE [f EXCEPT !.derived = @ \cup {c}])

\* strengthen: core id.
VeripbStrengthen(f, c) == IF c \in f.derived THEN VeripbCore(f, c) ELSE f

\* del id and delc.
VeripbDelete(f, c, redundant) ==
  IF redundant
  THEN Reads(f, c \in f.derived, "del of a core clause", [f EXCEPT !.derived = @ \ {c}])
  ELSE Reads(f, c \in f.core /\ RUP(f.core \ {c}, c), "delc changes the meaning of core",
             [f EXCEPT !.core = @ \ {c}])

-----------------------------------------------------------------------------
(* IDRUP: idruptracer.cpp.                                                   *)

\* assumed: the tracer's list; stored: assumption clauses until the conclusion;
\* query: what the last q line asks; status: of the last s line.
IdrupOpened ==
  [clauses |-> {}, given |-> {}, assumed |-> {}, stored |-> {}, query |-> {}, status |-> "",
   failure |-> ""]

IdrupOriginal(f, c) == [f EXCEPT !.clauses = @ \cup {c}, !.given = @ \cup {c}]
IdrupDerived(f, c) ==
  Reads(f, RUP(f.clauses, c), "lemma does not follow", [f EXCEPT !.clauses = @ \cup {c}])
IdrupDelete(f, c) == Reads(f, c \in f.clauses, "no such clause", [f EXCEPT !.clauses = @ \ {c}])

IdrupAssume(f, l) == [f EXCEPT !.assumed = @ \cup {l}]
IdrupResetAssumptions(f) == [f EXCEPT !.assumed = {}]
IdrupQuery(f) == [f EXCEPT !.query = f.assumed, !.status = ""]
IdrupStatus(f, status) == [f EXCEPT !.status = status]

\* add_assumption_clause writes nothing yet.
IdrupStore(f, c) == [f EXCEPT !.stored = @ \cup {c}]

\* idrup_conclude_and_delete: a line u with the negation of each clause stored
\* under the ids, empty for one that is not stored; several are counted by U.
Core(f, c) == IF c \in f.stored THEN Negated(c) ELSE {}
IdrupConcludeUnsat(f, ids, constraint) ==
  LET cores == {Core(f, ids[i]) : i \in DOMAIN ids}
  IN Reads(f, /\ f.status = "UNSATISFIABLE" /\ cores # {}
              /\ UNION cores \subseteq f.query \cup constraint
              /\ \A C \in cores : Refuted(f.clauses, C),
           "core does not refute the query", [f EXCEPT !.stored = @ \ ToSet(ids)])

IdrupConcludeSat(f, model) ==
  Reads(f, /\ f.status = "SATISFIABLE" /\ ~Inconsistent(model)
           /\ \A c \in f.given : c \cap model # {},
        "model does not satisfy the formula", f)
=============================================================================
