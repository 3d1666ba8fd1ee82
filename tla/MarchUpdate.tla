----------------------------- MODULE MarchUpdate -----------------------------
(***************************************************************************)
(* Fixing the literals of a node for good, and taking it back (solver.c).  *)
(* All that the search keeps about clauses changes with each literal, and  *)
(* backtracking has to undo exactly that.                                  *)
(*                                                                         *)
(* s.free   freevarsArray            s.rstack  rstack, 0 for STACK_BLOCK   *)
(* s.bsat   bImp_satisfied, from 0   s.red     TernaryImpReduction         *)
(* s.cred   clause_reduction         s.btb     big_to_binary               *)
(* s.kept   the clauses tmpTernaryImpSize tells to put back                *)
(* s.equal  variables VeqDepends calls EQUIVALENT                          *)
(* s.frames saved and equal of the nodes above                             *)
(***************************************************************************)
EXTENDS MarchLookahead

CONSTANT SatIncrease    \* SAT_INCREASE, beyond twice the length of any clause

ASSUME SatIncreaseAssumption == SatIncrease \in Nat

\* TernaryImpReduction of all literals of the clauses in C, up or down.
Reduce(s, C, by) ==
  [s EXCEPT !.red = [l \in Lits |-> @[l] + by * Cardinality({c \in C : l \in c})]]

\* The implications of -n are satisfied with n.
ImplicationsSatisfied(s, n, by) ==
  [s EXCEPT !.bsat = [l \in Lits |->
     @[l] + by * Cardinality({k \in DOMAIN s.bimp[-n] : s.bimp[-n][k] = -l})]]

WithoutClauses(sets, C, except) ==
  [l \in Lits |-> IF l = except THEN sets[l] ELSE sets[l] \ C]
WithClauses(sets, C) == [l \in Lits |-> sets[l] \cup {c \in C : l \in c}]

\* DPLL_add_compensation_resolvents: -l implies the complement of something m
\* implies.
Compensates(s, l, m) ==
  \E k \in DOMAIN s.bimp[m] :
    LET x == s.bimp[m][k]
    IN ~IsFixed(s, x) /\ (-x = -l \/ -x \in ToSet(s.bimp[-l]))

AddUnlessImplied(s, l, m) ==
  IF Compensates(s, l, m) THEN FixWithImplied(s, l)
  ELSE IF -l \in ToSet(s.bimp[-m]) \/ Compensates(s, m, l) THEN FixWithImplied(s, m)
  ELSE AddBoth(s, -l, m)

\* DPLL_add_binary_implications: the clause of l and m.
AddBinary(s, l, m) ==
  IF IsFixed(s, l)
  THEN IF ~OnComplement(s, l) THEN s ELSE FixWithImplied(s, m)
  ELSE IF IsFixed(s, m)
  THEN IF ~OnComplement(s, m) THEN s ELSE FixWithImplied(s, l)
  ELSE IF -m \in ToSet(s.bimp[-l]) THEN FixWithImplied(s, l)
  ELSE IF m \in ToSet(s.bimp[-l]) THEN s
  ELSE AddUnlessImplied(s, l, m)

AddBinaryOf(s, pair) == LET l == CHOOSE x \in pair : TRUE IN AddBinary(s, l, CHOOSE x \in pair : x # l)

(***************************************************************************)
(* Without kSAT: every live clause of n or -n is taken from the lists of   *)
(* its other literals, and those of -n become implications.                *)
(***************************************************************************)
\* IS_REDUCED_TIMP: a clause n satisfies had one false and one open literal.
ReducedOthers(s, n) ==
  LET dead == {c \in s.ternary : n \in c} \ s.sets[n]
  IN [l \in Lits |-> Cardinality({c \in dead :
        l \in c \ {n} /\ s.time[l] < NaryMax
        /\ \A m \in c \ {n, l} : s.time[m] = NaryMax + 1})]

AddReducedOthers(s, n, by) ==
  LET others == ReducedOthers(s, n)
  IN [s EXCEPT !.red = [l \in Lits |-> @[l] + by * others[l]]]

ReduceOthers(s, n, C, by) ==
  [s EXCEPT !.red = [l \in Lits |->
     @[l] + by * Cardinality({c \in C : l \in c /\ l # n})]]

\* remove_satisfied_implications for n and -n.
RemoveTernary(s, n) ==
  [s EXCEPT !.kept[n] = s.sets[n], !.kept[-n] = s.sets[-n],
            !.sets = [l \in Lits |-> IF l \in {n, -n} THEN {} ELSE @[l] \ (s.sets[n] \cup s.sets[-n])]]

ReduceByKept(s, n, gah, by) == IF gah THEN ReduceOthers(s, -n, s.kept[-n], by) ELSE s

UpdateTernary(s, n, gah) ==
  FoldLeft(LAMBDA v, c : IF v.ok THEN AddBinaryOf(v, c \ {-n}) ELSE v,
           ReduceByKept(RemoveTernary(IF gah THEN AddReducedOthers(s, n, -1) ELSE s, n), n, gah, 1),
           SetToSeq(s.sets[-n]))

RestoreTernary(s, n, gah) ==
  LET t == ReduceByKept([s EXCEPT !.sets = WithClauses(@, s.kept[n] \cup s.kept[-n])], n, gah, -1)
  IN IF gah THEN AddReducedOthers(t, n, 1) ELSE t

(***************************************************************************)
(* With kSAT: the clauses n satisfies are taken from the other literals'   *)
(* lists, those of -n get shorter, and at two literals become implications.*)
(***************************************************************************)
\* REMOVE SATISFIED CLAUSES
Unsatisfied(s, n) == {c \in s.sets[n] : s.len[c] < SatIncrease - 2}

Satisfy(s, n, gah) ==
  LET C == Unsatisfied(s, n)
      t == IF gah THEN Reduce(s, {c \in C : s.cred[c] > 0}, -1) ELSE s
  IN [t EXCEPT !.sets = WithoutClauses(@, C, n),
               !.len = [c \in DOMAIN @ |-> IF c \in s.sets[n] THEN @[c] + SatIncrease ELSE @[c]]]

\* The clauses that became implications of n's: with n their only true literal
\* they are reduced no more.
OnceTrue(s, n) ==
  {c \in s.btb[n] : Cardinality({l \in c : s.time[l] = NaryMax}) = 1}

SatisfyBinaries(s, n, gah, by) == IF gah THEN Reduce(s, OnceTrue(s, n), by) ELSE s

\* REMOVE UNSATISFIED LITERALS, for one clause: its counters and lists.
Shorten(s, n, c, gah) ==
  LET t == IF gah THEN [(IF s.cred[c] = 0 THEN Reduce(s, {c}, 1) ELSE s) EXCEPT !.cred[c] = @ + 1]
           ELSE s
  IN IF s.len[c] > 3 THEN [t EXCEPT !.len[c] = @ - 1]
     ELSE [t EXCEPT !.len[c] = SatIncrease, !.sets = WithoutClauses(@, {c}, -n),
            !.btb = IF ~gah THEN @
                    ELSE [l \in Lits |-> IF l \in c /\ s.time[l] < NaryMax
                                         THEN @[l] \cup {c} ELSE @[l]]]

\* The two literals of a clause just shortened, as the loop over it finds them.
ImplyRest(s, c) ==
  LET open == {l \in c : ~IsFalse(s, l)}
  IN IF open = {} THEN Failed(s)
     ELSE IF \E l \in open : IsFixed(s, l) THEN s
     ELSE IF Cardinality(open) = 1 THEN FixWithImplied(s, CHOOSE l \in open : TRUE)
     ELSE AddBinaryOf(s, open)

ShortenClause(s, n, c, gah) ==
  IF s.ok /\ s.len[c] = 3 THEN ImplyRest(Shorten(s, n, c, gah), c) ELSE Shorten(s, n, c, gah)

\* For every clause of -n; none of them is among those n satisfies.
ForClausesOf(Change(_, _, _, _), s, n, gah) ==
  FoldLeft(LAMBDA t, c : Change(t, n, c, gah), s, SetToSeq(s.sets[-n]))

UpdateBig(s, n, gah) ==
  ForClausesOf(ShortenClause, SatisfyBinaries(Satisfy(s, n, gah), n, gah, -1), n, gah)

\* restore_implication_arrays, the satisfied clauses.
Unsatisfy(s, n, gah) ==
  LET t == [s EXCEPT !.len = [c \in DOMAIN @ |-> IF c \in s.sets[n] THEN @[c] - SatIncrease ELSE @[c]]]
      C == Unsatisfied(t, n)
      u == [t EXCEPT !.sets = WithClauses(@, C)]
  IN IF gah THEN Reduce(u, {c \in C : u.cred[c] > 0}, 1) ELSE u

\* Mutant: a clause that became an implication stays off its literals' lists.
LengthenForgetting(s, n, c, gah) ==
  LET t == [s EXCEPT !.len[c] = IF @ = SatIncrease THEN 3 ELSE @ + 1]
  IN IF gah THEN [t EXCEPT !.cred[c] = @ - 1] ELSE t

\* restore_implication_arrays, one clause of -n.
Lengthen(s, n, c, gah) ==
  LET t == IF s.len[c] # SatIncrease THEN [s EXCEPT !.len[c] = @ + 1]
           ELSE [s EXCEPT !.len[c] = 3, !.sets = WithClauses(@, {c}),
                   !.btb = [l \in Lits |-> IF gah /\ l \in c /\ s.time[l] < NaryMax
                                           THEN @[l] \ {c} ELSE @[l]]]
  IN IF ~gah THEN t
     ELSE IF s.cred[c] = 1 THEN Reduce([t EXCEPT !.cred[c] = 0], {c}, -1)
     ELSE [t EXCEPT !.cred[c] = @ - 1]

RestoreBig(s, n, gah) ==
  ForClausesOf(Lengthen, SatisfyBinaries(Unsatisfy(s, n, gah), n, gah, 1), n, gah)

\* DPLL_update_datastructures.
UpdateClauses(s, n, gah) == IF s.ksat THEN UpdateBig(s, n, gah) ELSE UpdateTernary(s, n, gah)
Update(s, n, gah) ==
  UpdateClauses(ImplicationsSatisfied([s EXCEPT !.time = FixedAt(@, n, NaryMax),
                                                !.free = @ \ {VarOf(n)}, !.ok = TRUE], n, 1), n, gah)

\* restore_implication_arrays.
Restore(s, n, gah) ==
  [ImplicationsSatisfied(IF s.ksat THEN RestoreBig(s, n, gah) ELSE RestoreTernary(s, n, gah), n, -1)
     EXCEPT !.free = @ \cup {VarOf(n)}, !.time = Unfixed(@, n)]

\* MainDead, with k literals of the stack processed.
MainDead(s, k) ==
  [s EXCEPT !.ok = FALSE, !.rstack = @ \o SubSeq(s.fix, 1, k), !.fix = <<>>,
            !.time = FoldLeft(Unfixed, @, SubSeq(s.fix, k + 1, Len(s.fix)))]

RECURSIVE UpdateAll(_, _, _)
UpdateAll(s, k, gah) ==
  IF ~s.ok THEN MainDead(s, k - 1)
  ELSE IF k > Len(s.fix) THEN [s EXCEPT !.rstack = @ \o s.fix, !.fix = <<>>]
  ELSE UpdateAll(Update(s, s.fix[k], gah), k + 1, gah)

\* IFIUP, for the literals to fix.
FixForGood(s, lits, gah) ==
  UpdateAll(FoldLeft(LAMBDA t, l : IF t.ok THEN FixWithImplied(t, l) ELSE t,
                     [s EXCEPT !.now = BaryMax, !.fix = <<>>, !.ok = TRUE], lits), 1, gah)

\* NODE_START.
NodeStart(s) ==
  [s EXCEPT !.rstack = Append(@, 0), !.saved = [l \in {} |-> 0],
            !.frames = Append(@, [saved |-> s.saved, equal |-> s.equal])]

\* One of the two loops of backtrack over rstack.
RECURSIVE PopToBlock(_, _)
PopToBlock(s, gah) ==
  LET n == Last(s.rstack)
      t == [s EXCEPT !.rstack = Front(@)]
  IN IF n = 0 THEN t ELSE PopToBlock(Restore(t, n, gah), gah)

\* The implications, and what the node above kept.
PopFrame(s) ==
  [s EXCEPT !.bimp = [l \in Lits |-> IF l \in DOMAIN s.saved
                                     THEN SubSeq(@[l], 1, s.saved[l]) ELSE @[l]],
            !.saved = Last(s.frames).saved, !.equal = Last(s.frames).equal,
            !.frames = Front(@)]

\* NODE_END: backtrack.
NodeEnd(s, gah) == PopFrame(PopToBlock(PopToBlock(s, gah), gah))
=============================================================================
