---------------------------- MODULE MarchFormula ----------------------------
(***************************************************************************)
(* What march_cu does to a formula before it searches (parser.c,           *)
(* equivalence.c): rounds of unit propagation and of replacing a variable  *)
(* by an equivalent literal, until a round changes nothing; after the      *)
(* search, the values of the variables that were replaced; and what comes  *)
(* out of a call for the script that makes it.                             *)
(***************************************************************************)
EXTENDS Clauses, SequencesExt

Conflict == [unsat |-> TRUE]

\* clauses: those left; fixed: the literals made true; ceqs: Ceq, in which the
\* variables multiply to value (1 true, -1 false); dead: CeqStamps TAUTOLOGY.
ParsedFormula(F) == [unsat |-> FALSE, clauses |-> F, fixed |-> {}, ceqs |-> <<>>]

\* sort_literals on clauses as sets: a double literal is one already.
WithoutTautologies(F) == {c \in F : ~Tautology(c)}

\* propagate_unary_clauses, the removal of satisfied clauses and false literals.
UnderUnits(F, T) == {c \ Negated(T) : c \in {d \in F : d \cap T = {}}}

(***************************************************************************)
(* The adjacent pairs of sort_clauses' order: (x, y) and (-x, -y) are      *)
(* adjacent unless one of the mixed clauses is between them.               *)
(***************************************************************************)
EquivalentPairs(F) ==
  LET twos == Binaries(F)
      pairs == {<<x, y, s>> \in VarsOf(UNION twos) \X VarsOf(UNION twos) \X {1, -1} :
                  x < y /\ {x, s * y} \in twos /\ {-x, -s * y} \in twos}
  IN {p \in pairs : p[3] = 1 => {{p[1], -p[2]}, {-p[1], p[2]}} \cap twos = {}}

\* add_binary_equivalence for all of them, the largest variables first.
NewCeqs(pairs) ==
  [k \in 1 .. Cardinality(pairs) |->
     LET p == SetToSortSeq(pairs, LAMBDA a, b : a[1] > b[1] \/ (a[1] = b[1] /\ a[2] > b[2]))[k]
     IN [vars |-> <<p[1], p[2]>>, value |-> -p[3], dead |-> FALSE]]

\* substitude_ceq, both of two variables.
Substituted(q, e) ==
  LET other == CHOOSE v \in ToSet(q.vars) : v # e.vars[2]
  IN [q EXCEPT !.vars = IF other = e.vars[1] THEN <<>> ELSE <<other, e.vars[1]>>,
               !.value = @ * e.value]

\* replace_bieq: the clauses with y replaced by the literal r.
Replaced(F, y, r) ==
  {{IF l = y THEN r ELSE IF l = -y THEN -r ELSE l : l \in c} : c \in F}

\* The step of propagate_bieq for the k-th equivalence.
PropagateCeq(f, k) ==
  LET e == f.ceqs[k]
  IN IF e.dead \/ e.vars = <<>> THEN f
     ELSE [f EXCEPT
       !.clauses = Replaced(@, e.vars[2], e.value * e.vars[1]),
       !.ceqs = [j \in DOMAIN @ |->
                   IF j = k THEN [e EXCEPT !.dead = TRUE]
                   ELSE IF ~@[j].dead /\ e.vars[2] \in ToSet(@[j].vars)
                        THEN Substituted(@[j], e) ELSE @[j]]]

\* check_vadility_equivalences.
Checked(f) ==
  IF \E k \in DOMAIN f.ceqs : f.ceqs[k].vars = <<>> /\ f.ceqs[k].value = -1
  THEN Conflict ELSE f

FoldCeqs(f) ==
  FoldLeft(LAMBDA g, k : PropagateCeq(g, k), f, [k \in 1 .. Len(f.ceqs) |-> k])

\* Mutant: the equivalences are folded without what earlier ones replaced.
FindEquivalencesStale(f) ==
  LET pairs == EquivalentPairs(f.clauses)
      used == UNION {{{p[1], p[3] * p[2]}, {-p[1], -p[3] * p[2]}} : p \in pairs}
      ceqs == f.ceqs \o NewCeqs(pairs)
  IN Checked([f EXCEPT
       !.clauses = FoldLeft(LAMBDA F, e : Replaced(F, e.vars[2], e.value * e.vars[1]),
                            @ \ used, NewCeqs(pairs)),
       !.ceqs = [k \in DOMAIN ceqs |-> [ceqs[k] EXCEPT !.dead = TRUE]]])

\* find_and_propagate_binary_equivalences.
FindEquivalences(f) ==
  LET pairs == EquivalentPairs(f.clauses)
      used == UNION {{{p[1], p[3] * p[2]}, {-p[1], -p[3] * p[2]}} : p \in pairs}
  IN Checked(FoldCeqs([f EXCEPT !.clauses = @ \ used, !.ceqs = @ \o NewCeqs(pairs)]))

\* find_and_propagate_unary_clauses.
FindUnits(f) ==
  LET T == Propagation(f.clauses, {})
  IN IF Inconsistent(T) THEN Conflict
     ELSE [f EXCEPT !.clauses = UnderUnits(@, T), !.fixed = @ \cup T]

\* One turn of the loop of simplify_formula.
SimplifyRound(f) ==
  LET g == FindUnits([f EXCEPT !.clauses = WithoutTautologies(@)])
  IN IF g.unsat THEN g ELSE FindEquivalences(g)

\* The counter of the loop grew in the round that made g of f.
Grew(f, g) == g.fixed # f.fixed \/ Len(g.ceqs) # Len(f.ceqs)

\* A solution of the clauses left, extended over what was taken out.
ValueIn(v, A) == IF v \in A THEN 1 ELSE -1
UnsetIn(e, A) == {v \in ToSet(e.vars) : {v, -v} \cap A = {}}

\* fixDependedEquivalences.
FixDepended(f, A) ==
  LET fix[B \in SUBSET Lits] ==
        LET open == {k \in DOMAIN f.ceqs : Cardinality(UnsetIn(f.ceqs[k], B)) = 1}
        IN IF open = {} THEN B
           ELSE LET e == f.ceqs[CHOOSE k \in open : \A j \in open : k <= j]
                    v == CHOOSE x \in UnsetIn(e, B) : TRUE
                    w == CHOOSE x \in ToSet(e.vars) : x # v
                IN fix[B \cup {e.value * ValueIn(w, B) * v}]
  IN fix[A]

\* dependantsExists: a variable of an equivalence that no equivalence defines
\* is set to true.
Undefined(f, A) ==
  {v \in UNION {ToSet(f.ceqs[k].vars) : k \in DOMAIN f.ceqs} :
     {v, -v} \cap A = {} /\ \A k \in DOMAIN f.ceqs : f.ceqs[k].vars # <<>> => f.ceqs[k].vars[2] # v}

\* The loop of both in verifySolution.
ExtendedOver(f, A) ==
  LET extend[B \in SUBSET Lits] ==
        LET C == FixDepended(f, B)
        IN IF Undefined(f, C) = {} THEN C
           ELSE extend[C \cup {CHOOSE v \in Undefined(f, C) : \A w \in Undefined(f, C) : v <= w}]
  IN extend[A]

-----------------------------------------------------------------------------
(* What march_cu promises to cube-instance.sh, which calls it with -d 1    *)
(* and -m m: the verdict in its log and the lines of its file of cubes.    *)
(* A line is a list of literals; 0 stands for a branch without a literal.  *)

Outcome(says, written) == [says |-> says, written |-> written]

\* The literals march_cu may branch on at the root.
Splits(F, m) == {l \in Lits : VarOf(l) <= m /\ {l, -l} \cap Propagation(F, {}) = {}}

\* Both branches of one variable, refuted ones included; the empty cube alone when
\* the formula is refuted; no file when a solution is found; and when clauses are
\* left, but no variable to branch on, the two branches of a node without one.
\* A formula with an empty clause is not read.
March(F, m) ==
  IF {} \in F THEN {Outcome("none", <<>>)}
  ELSE IF Refuted(F, {}) THEN {Outcome("UNSAT", <<<<>>>>)}
  ELSE {Outcome("UNSAT", <<<<l>>, <<-l>>>>) : l \in Splits(F, m)}
       \cup {Outcome("UNKNOWN", <<<<0>>, <<0>>>>)}
       \cup {IF Satisfiable(F, {}) THEN Outcome("SAT", <<>>) ELSE Outcome("UNSAT", <<<<>>>>)}
=============================================================================
