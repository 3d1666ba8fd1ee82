----------------------------- MODULE ProofModule -----------------------------
(***************************************************************************)
(* proof-module.sh: drat-trim on the instance and the proof of a solver    *)
(* run, then check-perm.py on the trusted lines of the proof and the       *)
(* permutation file of that run.  The first variables are the edges of a   *)
(* graph with Order vertices; the generators add auxiliary ones.           *)
(***************************************************************************)
EXTENDS DratTrim

CONSTANTS
  Order,         \* the first argument
  PermFiles(_)   \* the permutation files that may lie beside a proof, as
                 \* [there, lines]: a line is a sequence of vertices, empty for
                 \* the words "Complete solution"

P == INSTANCE CheckPerm

EdgeVars == 1 .. ((Order * (Order - 1)) \div 2)

\* Every edge is a variable, and rows are lists of numbers.
ASSUME ModuleAssumption ==
  /\ Order \in Nat \ {0} /\ EdgeVars \subseteq Vars
  /\ \A i \in Inputs : \A f \in PermFiles(i[2]) : f.lines \in Seq(Seq(Nat))

VARIABLES
  perms,       \* the permutation file
  line,        \* c, the number of lines compared
  permcheck,   \* what check-perm.py said
  errors       \* the lines printed that begin with ERROR

permVars == <<perms, line, permcheck, errors>>
moduleVars == <<vars, permVars>>

\* d_i, d_j: the entries in the order of the variables.
Entry(v) == CHOOSE e \in P!Pairs(Order) : (e[1] * (e[1] - 1)) \div 2 + e[2] + 1 = v
OfLits(c) == {<<Entry(VarOf(l)), l > 0>> : l \in c}

\* grep 't': the trusted lines of the proof, in order.
TrustedAt == {i \in DOMAIN input.lines : input.lines[i].op = "trust"}
TrustedLines ==
  [k \in 1 .. Cardinality(TrustedAt) |->
     LET i == CHOOSE i \in TrustedAt : Cardinality({j \in TrustedAt : j < i}) = k - 1
     IN input.lines[i].lits]

PMInit ==
  /\ Init
  /\ perms \in PermFiles(input.lines)
  /\ line = 0 /\ permcheck = "none" /\ errors = {}

RunDratTrim == DratStep /\ UNCHANGED permVars

\* Both answers are good enough.
AfterDratTrim ==
  /\ pc = "done" /\ permcheck = "none"
  /\ errors' = IF verdict \in {"VERIFIED", "DERIVATION"} THEN errors
               ELSE errors \cup {"Proof not verified"}
  /\ permcheck' = IF ~perms.there THEN "not run" ELSE "reading"
  /\ UNCHANGED <<vars, perms, line>>

\* A trusted clause and the rows in the same place: the length of the clause is
\* all that is asked of a solution, and only edges have entries.
Agree(lits, rows) ==
  IF rows = <<>> THEN P!CompleteSolution(Order, lits)
  ELSE /\ VarsOf(ToSet(lits)) \subseteq EdgeVars
       /\ P!Accepts(Order, OfLits(ToSet(lits)), P!Rows(rows))

\* A line of the file; an assertion that fails, a variable without an entry or a
\* clause that is not there ends the script.
CompareLine ==
  /\ permcheck = "reading" /\ line < Len(perms.lines)
  /\ IF /\ line < Len(TrustedLines)
        /\ Agree(TrustedLines[line + 1], perms.lines[line + 1])
     THEN line' = line + 1 /\ UNCHANGED <<permcheck, errors>>
     ELSE /\ permcheck' = "ended" /\ UNCHANGED line
          /\ errors' = errors \cup {"Trusted clauses not verified"}
  /\ UNCHANGED <<vars, perms>>

\* Mutant: lines left over do not matter.
AllComparedPrefix ==
  /\ permcheck = "reading" /\ line = Len(perms.lines)
  /\ permcheck' = "ended"
  /\ UNCHANGED <<vars, perms, line, errors>>

\* As many clauses as lines.
AllCompared ==
  /\ permcheck = "reading" /\ line = Len(perms.lines)
  /\ permcheck' = "ended"
  /\ errors' = IF line = Len(TrustedLines) THEN errors
               ELSE errors \cup {"Trusted clauses not verified"}
  /\ UNCHANGED <<vars, perms, line>>

Ended == permcheck \in {"ended", "not run"}
PMFinished == Ended /\ UNCHANGED moduleVars

PMNext == RunDratTrim \/ AfterDratTrim \/ CompareLine \/ AllCompared \/ PMFinished

PMSpec == PMInit /\ [][PMNext]_moduleVars

-----------------------------------------------------------------------------
(* What the absence of error messages means.                               *)

\* The edges of the canonical graphs that solve the instance with some values of the
\* auxiliary variables.
GraphOf(A) == [e \in P!Pairs(Order) |-> \E v \in A \cap EdgeVars : e = Entry(v)]
CanonicalSolutions ==
  {A \cap EdgeVars :
     A \in {A \in SUBSET Vars :
              /\ \A c \in Formula : \E l \in c : l \in A \/ (l < 0 /\ -l \notin A)
              /\ P!Canonical(Order, GraphOf(A))}}

\* The trusted clauses with the line "Complete solution", and the graphs they exclude.
Solutions ==
  {TrustedLines[k] :
     k \in {j \in DOMAIN perms.lines \cap DOMAIN TrustedLines : perms.lines[j] = <<>>}}
Listed == {{-l : l \in {x \in ToSet(lits) : x < 0}} : lits \in Solutions}

\* The clause for a model, as the solver writes it: each edge at most once and no
\* auxiliary variable.
OverEdges(lits) ==
  VarsOf(ToSet(lits)) \subseteq EdgeVars /\ Cardinality(ToSet(lits)) = Len(lits)

\* What solve-verify.sh runs a proof for: without an error message, and with the
\* final empty clause checked backward, the canonical graphs that solve the
\* instance are those listed in the permutation file.  A trusted clause of one
\* literal is excepted, which drat-trim does not follow back, and the RAT check,
\* which says nothing about clauses that are trusted later.  The clause for a solution
\* has to be one over the edges, since only its length is looked at.
NoErrorMeansExhausted ==
  Ended /\ errors = {} /\ verdict = "VERIFIED" /\ perms.there
    /\ ~usedRat /\ (\A c \in Trusted : Cardinality(c) > 1)
    /\ (\A lits \in Solutions : OverEdges(lits))
    => CanonicalSolutions \subseteq Listed
=============================================================================
