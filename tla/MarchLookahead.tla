--------------------------- MODULE MarchLookahead ---------------------------
(***************************************************************************)
(* The data the search of march_cu works on and how its lookahead fixes    *)
(* literals (lookahead.c). A literal is fixed while the time it was fixed  *)
(* at is not before the current time: later fixings at higher times hide   *)
(* or keep earlier ones, nothing is undone between two lookaheads.         *)
(*                                                                         *)
(* s.time   timeAssignments: even for a true literal, odd for a false one  *)
(* s.now    currentTimeStamp                                               *)
(* s.bimp   BinaryImp, the literals each literal implies, in order         *)
(* s.sets   clause_set or TernaryImp: the live longer clauses of a literal *)
(* s.len    clause_length, with kSAT only                                  *)
(* s.fix    the literals between rstackp and end_fixstackp                 *)
(* s.res    look_resstack: the literals clauses have implied               *)
(* s.saved  the lengths of implication lists before the current node       *)
(* s.forced forced_literal_array;  s.ok: SAT was returned                  *)
(***************************************************************************)
EXTENDS Clauses, SequencesExt

CONSTANT LookMax     \* LOOK_MAX: what is fixed at it or later is forced

ASSUME LookMaxAssumption == LookMax \in Nat /\ LookMax % 2 = 0 /\ LookMax > 2

BaryMax == LookMax + 2
NaryMax == LookMax + 4

IsFixed(s, l) == s.time[l] >= s.now
IsForced(s, l) == s.time[l] >= LookMax
OnComplement(s, l) == s.time[l] % 2 = 1
IsFalse(s, l) == IsFixed(s, l) /\ OnComplement(s, l)

FixedAt(time, l, t) == [time EXCEPT ![l] = t, ![-l] = t + 1]
Unfixed(time, l) == [time EXCEPT ![l] = 0, ![-l] = 0]
Pushed(s, l) == [s EXCEPT !.time = FixedAt(@, l, s.now), !.fix = Append(@, l)]
Failed(s) == [s EXCEPT !.ok = FALSE]

\* The loop over one literal's implications.
FixImplied(s, lits) ==
  FoldLeft(LAMBDA t, l : IF ~t.ok THEN t
                         ELSE IF IsFixed(t, l) THEN [t EXCEPT !.ok = ~OnComplement(t, l)]
                         ELSE Pushed(t, l), s, lits)

RECURSIVE ImpliedFrom(_, _)
ImpliedFrom(s, k) ==
  IF ~s.ok \/ k > Len(s.fix) THEN s
  ELSE ImpliedFrom(FixImplied(s, s.bimp[s.fix[k]]), k + 1)

\* look_fix_binary_implications.
FixWithImplied(s, l) ==
  IF IsFixed(s, l) THEN [s EXCEPT !.ok = ~OnComplement(s, l)]
  ELSE ImpliedFrom(Pushed([s EXCEPT !.ok = TRUE], l), Len(s.fix) + 1)

\* add_windfall_resolvent, or what double lookahead does in its place.
FixByClause(s, l, windfall) ==
  FixWithImplied(IF windfall THEN [s EXCEPT !.res = Append(@, l)] ELSE s, l)

\* One clause of which a literal has become false.
VisitClause(s, c, windfall) ==
  LET open == {l \in c : ~IsFalse(s, l)}
  IN IF open = {} THEN Failed(s)
     ELSE IF \E l \in open : open = {l} /\ ~IsFixed(s, l)
          THEN FixByClause(s, CHOOSE l \in open : TRUE, windfall)
          ELSE s

\* look_fix_big_clauses and look_fix_ternary_implications: every clause of -n
\* loses a literal, after a conflict too; with kSAT only those down to one
\* literal are looked at.
VisitClauses(s, n, windfall) ==
  LET live == s.sets[-n]
      short == IF s.ksat THEN {c \in live : s.len[c] <= 2} ELSE live
  IN FoldLeft(LAMBDA t, c : IF t.ok THEN VisitClause(t, c, windfall) ELSE t,
              [s EXCEPT !.len = [c \in DOMAIN @ |-> IF c \in live THEN @[c] - 1 ELSE @[c]]],
              SetToSeq(short))

\* CHECK_NODE_STAMP: the length to go back to at the end of the node.
Saved(s, l) ==
  IF l \in DOMAIN s.saved THEN s.saved ELSE [m \in DOMAIN s.saved \cup {l} |->
    IF m = l THEN Len(s.bimp[l]) ELSE s.saved[m]]

AddImplication(s, l, m) == [s EXCEPT !.saved = Saved(s, l), !.bimp[l] = Append(@, m)]

AddBoth(s, n, l) == AddImplication(AddImplication(s, n, l), -l, -n)

\* add_resolvents: n implies what the clauses have implied.
AddResolvents(s, n) ==
  [FoldLeft(LAMBDA t, l : AddBoth(t, n, l), s, Reverse(s.res)) EXCEPT !.res = <<>>]

\* The loop of look_IUP: with kSAT a failure leaves the processed literals only.
RECURSIVE Processed(_, _, _)
Processed(s, k, windfall) ==
  IF ~s.ok THEN IF s.ksat THEN [s EXCEPT !.fix = SubSeq(@, 1, k - 1)] ELSE s
  ELSE IF k > Len(s.fix) THEN s
  ELSE Processed(VisitClauses(s, s.fix[k], windfall), k + 1, windfall)

\* restore_big_clauses: the stack from its end down to the first k entries.
RestoredTo(s, k) ==
  LET gone == SubSeq(s.fix, k + 1, Len(s.fix))
  IN [s EXCEPT !.fix = SubSeq(@, 1, k),
       !.len = [c \in DOMAIN @ |->
                  @[c] + Cardinality({j \in DOMAIN gone : c \in s.sets[-gone[j]]})]]

\* look_backtrack: what is not fixed at the current time leaves the stack.
LookBacktrack(s) ==
  RestoredTo(s, CHOOSE k \in 0 .. Len(s.fix) :
                  /\ k > 0 => IsFixed(s, s.fix[k])
                  /\ \A j \in k + 1 .. Len(s.fix) : ~IsFixed(s, s.fix[j]))

\* look_IFIUP and DL_IFIUP start from here, kept entries of the stack below
\* the double lookahead's stay without kSAT.
Rewound(s, kept) ==
  IF s.ksat THEN LookBacktrack(s) ELSE [s EXCEPT !.fix = SubSeq(@, 1, kept)]

\* Fixing l and what follows from it; t is s with l and its implications fixed.
ProcessedOrNot(t, kept, windfall) ==
  IF t.ok THEN Processed(t, kept + 1, windfall) ELSE [t EXCEPT !.fix = SubSeq(@, 1, kept)]
FixOrFail(s, l, windfall) == ProcessedOrNot(FixWithImplied(s, l), Len(s.fix), windfall)

\* look_IFIUP.
Resolved(t, l) == IF t.ok THEN AddResolvents(t, l) ELSE t
LookOn(s, l, wfr) == Resolved(FixOrFail([Rewound(s, 0) EXCEPT !.res = <<>>], l, wfr), l)

\* look_fix_forced_literal; a failure leaves the time at LookMax.
BackAt(t, now) == IF t.ok THEN [t EXCEPT !.now = now] ELSE t
ForceLiteral(s, l, wfr) ==
  BackAt(LookOn([s EXCEPT !.forced = Append(@, l), !.now = LookMax], l, wfr), s.now)

-----------------------------------------------------------------------------
(***************************************************************************)
(* The lookahead of march_cu at one node (tree.c, lookahead.c,             *)
(* doublelook.c).  Literals that imply each other are looked at once, and  *)
(* a literal that implies another comes below it in a tree, where what the *)
(* other implies is still fixed.  Each literal of the tree is tried; one   *)
(* that fails is forced the other way, and what both a literal and its     *)
(* complement imply is forced.                                             *)
(***************************************************************************)

CONSTANTS
  SlIter,      \* sl_iter: turns over the tree
  DlIter       \* dl_iter: length of a double lookahead, 0 for none

ASSUME IterAssumption == SlIter \in Nat /\ DlIter \in Nat

-----------------------------------------------------------------------------
(* The tree of literals, treebased_lookahead.                               *)

Both(array) == ToSet(array) \cup Negated(ToSet(array))

\* Phase 1, order_nodes_rec: the literals in the order their search ends.
RECURSIVE OrderNodes(_, _, _, _)
OrderNodes(bimp, live, st, l) ==
  IF l \in st.marked THEN st
  ELSE LET t == FoldLeft(LAMBDA u, m : OrderNodes(bimp, live, u, m),
                         [st EXCEPT !.marked = @ \cup {l}],
                         SelectSeq(bimp[l], LAMBDA m : m \in live))
       IN [t EXCEPT !.order = Append(@, l)]

NodeOrder(bimp, array) ==
  FoldLeft(LAMBDA st, v : OrderNodes(bimp, Both(array), OrderNodes(bimp, Both(array), st, v), -v),
           [marked |-> {}, order |-> <<>>], array).order

\* incoming: the literals of the array that imply l.
Incoming(bimp, array, l) == {-m : m \in ToSet(bimp[-l]) \cap Both(array)}

\* reduce_strong_component: what implies l among the literals not yet taken.
RECURSIVE StrongComponent(_, _, _, _)
StrongComponent(bimp, array, open, S) ==
  LET more == (UNION {Incoming(bimp, array, l) : l \in S}) \cap open
  IN IF more \subseteq S THEN S ELSE StrongComponent(bimp, array, open, S \cup more)

RankAt(array, l) == CHOOSE i \in DOMAIN array : array[i] = VarOf(l)

\* toprank: the member that stands for the component.
TopOf(array, S) == CHOOSE l \in S : \A m \in S : RankAt(array, l) <= RankAt(array, m)

\* detect_strong_component and contract, for one literal. A component with a
\* literal and its complement ends the construction.
TakeComponent(bimp, array, st, l) ==
  IF st.contradiction \/ l \notin st.open THEN st
  ELSE LET S == StrongComponent(bimp, array, st.open, {l})
           top == TopOf(array, S)
       IN IF -top \in S THEN [st EXCEPT !.contradiction = TRUE]
          ELSE [st EXCEPT !.open = @ \ S, !.tops = Append(@, top),
                 !.rep = [m \in DOMAIN @ |-> IF m \in S THEN top ELSE @[m]],
                 !.equal = @ \cup {m \in S \ {top} : m > 0}]

Components(bimp, array) ==
  FoldLeft(LAMBDA st, l : TakeComponent(bimp, array, st, l),
           [open |-> Both(array), tops |-> <<>>, equal |-> {}, contradiction |-> FALSE,
            rep |-> [m \in Both(array) |-> m]],
           Reverse(NodeOrder(bimp, array)))

\* The components that imply the one of top, by their tops.
IncomingTops(bimp, array, rep, top) ==
  {rep[m] : m \in UNION {Incoming(bimp, array, l) : l \in {x \in DOMAIN rep : rep[x] = top}}} \ {top}

\* Phase 2, crtree: a component hangs under the deepest one it implies.
Hang(st, top, children) ==
  LET lower == {c \in children : st.depth[top] >= st.depth[c]}
  IN [st EXCEPT !.depth = [c \in DOMAIN @ |-> IF c \in lower THEN @[top] + 1 ELSE @[c]],
                !.kids = [c \in DOMAIN @ |->
                            IF c = st.parent[top] THEN Append(@[c], top) ELSE @[c]],
                !.parent = [c \in DOMAIN @ |-> IF c \in lower THEN top ELSE @[c]]]

\* Under 0 are the roots, in the order they were found.
Forest(bimp, array, comps) ==
  LET tops == ToSet(comps.tops)
  IN FoldLeft(LAMBDA st, top : Hang(st, top, IncomingTops(bimp, array, comps.rep, top)),
              [depth |-> [l \in tops |-> 0], parent |-> [l \in tops |-> 0],
               kids |-> [l \in tops \cup {0} |-> <<>>]],
              Reverse(comps.tops)).kids

(***************************************************************************)
(* Phase 3, calc_tree_size_rec and looklist_rec: parents first, the gap    *)
(* twice the number of literals that are done before this one: every one   *)
(* below it and every earlier tree.                                        *)
(***************************************************************************)
RECURSIVE LookList(_, _, _)
LookList(kids, st, l) ==
  LET t == FoldLeft(LAMBDA u, m : LookList(kids, u, m),
                    [st EXCEPT !.list = Append(@, [literal |-> l, gap |-> 0])], Reverse(kids[l]))
  IN [list |-> [t.list EXCEPT ![Len(st.list) + 1].gap = 2 * t.given], given |-> t.given + 1]

TreeArray(kids) ==
  FoldLeft(LAMBDA st, l : LookList(kids, st, l), [list |-> <<>>, given |-> 0], kids[0]).list

\* treebased_lookahead: treeArray and the variables that become EQUIVALENT.
TreeOf(bimp, array, comps) ==
  [list |-> IF comps.contradiction THEN <<>> ELSE TreeArray(Forest(bimp, array, comps)),
   equal |-> comps.equal]

TreebasedLookahead(bimp, array) == TreeOf(bimp, array, Components(bimp, array))

-----------------------------------------------------------------------------
(* Lookahead on the literals of the tree.                                    *)

\* DL_IFIUP; d is the double lookahead: [max, kept, res, last].
InnerLookOn(s, d, l) == FixOrFail(Rewound(s, d.kept), l, FALSE)

\* The result of one step of a double lookahead.
Inner(s, d) == [s |-> s, d |-> d]

\* DL_fix_forced_literal.
InnerForced(t, d, l, now) ==
  IF t.ok THEN Inner([t EXCEPT !.now = now], [d EXCEPT !.last = -l, !.res = Append(@, l)])
  ELSE Inner(t, d)
InnerForce(s, d, l) == InnerForced(InnerLookOn([s EXCEPT !.now = d.max], d, l), d, l, s.now)

InnerTried(s, t, d, l) == IF t.ok THEN Inner(t, d) ELSE InnerForce(t, d, -l)

\* DL_treelook.
InnerLook(s, d, l) ==
  IF IsFixed(s, l)
  THEN IF s.time[l] < d.max /\ OnComplement(s, l)
       THEN InnerForce(s, d, -l) ELSE Inner([s EXCEPT !.ok = TRUE], d)
  ELSE InnerTried(s, InnerLookOn(s, d, l), d, l)

\* Mutant: the room the tree takes is not kept free below the maximum.
InnerLoopWithoutRoom(s, d, tree, k) ==
  d.last = tree[k].literal \/ s.now + tree[k].gap >= d.max

\* The double lookahead ends: at the literal that changed last, or without room
\* for the tree below the maximum.
InnerLoopEnds(s, d, tree, k) ==
  d.last = tree[k].literal \/ s.now + tree[k].gap + Len(tree) >= d.max

\* The loops of perform_doublelook.
Later(i, gap) == [i EXCEPT !.s.now = @ + gap]

RECURSIVE InnerLoop(_, _, _)
InnerLoop(i, tree, k) ==
  IF ~i.s.ok THEN i
  ELSE IF k > Len(tree)
  THEN IF i.d.last = 0 THEN Later(i, 2 * Len(tree))
       ELSE InnerLoop([Later(i, 2 * Len(tree)) EXCEPT !.d.last = 0], tree, 1)
  ELSE IF InnerLoopEnds(i.s, i.d, tree, k) THEN i
  ELSE InnerLoop(Later(InnerLook([i.s EXCEPT !.now = @ + tree[k].gap], i.d, tree[k].literal),
                       -tree[k].gap), tree, k + 1)

\* perform_doublelook after its loops: n implies what was forced under it.
InnerEnd(i, n) ==
  IF i.s.ok THEN AddResolvents([i.s EXCEPT !.now = i.d.max, !.res = i.d.res], n) ELSE i.s

InnerTurns(all, max, tree) ==
  InnerLoop(Inner([all EXCEPT !.now = @ - DlIter * Len(tree), !.ok = TRUE],
                  [max |-> max, kept |-> Len(all.fix), res |-> <<>>, last |-> 0]), tree, 1)

AllFixed(fixed, k) ==
  IF fixed.ksat THEN Processed([fixed EXCEPT !.ok = TRUE], k, FALSE) ELSE fixed

\* doublelook, from the stack it starts with.
DoubleEnd(t, kept) == IF t.ksat THEN RestoredTo(t, kept) ELSE t
DoubleFrom(s, n, tree) ==
  DoubleEnd(InnerEnd(InnerTurns(AllFixed(FixWithImplied(s, n), Len(s.fix) + 1), s.now, tree), n),
            Len(s.fix))

DoubleLook(s, n, tree) ==
  DoubleFrom(LET t == [s EXCEPT !.now = @ + DlIter * Len(tree)]
             IN IF s.ksat THEN LookBacktrack(t) ELSE t, n, tree)

RoomForDouble(s, tree) == DlIter > 0 /\ s.now + (DlIter + 1) * Len(tree) < LookMax

\* check_doublelook, with the trigger reached.
UnlessRefuted(t, n, wfr) == IF t.ok THEN t ELSE ForceLiteral(t, -n, wfr)
CheckDoubleLook(s, n, tree, wfr) ==
  UnlessRefuted(DoubleLook([s EXCEPT !.now = @ + Len(tree)], n, tree), n, wfr)

\* The necessary assignments: what -n implies and n, looked at, has fixed too.
RECURSIVE Necessary(_, _, _, _)
Necessary(s, n, k, wfr) ==
  IF ~s.ok \/ k > Len(s.bimp[-n]) THEN s
  ELSE LET l == s.bimp[-n][k]
       IN Necessary(IF IsFixed(s, l) /\ ~IsForced(s, l) /\ ~OnComplement(s, l)
                    THEN ForceLiteral(s, l, wfr) ELSE s, n, k + 1, wfr)

LookedOn(t, n, tree, double, wfr) ==
  IF ~t.ok THEN ForceLiteral(t, -n, wfr)
  ELSE Necessary(IF double THEN CheckDoubleLook(t, n, tree, wfr) ELSE t, n, 1, wfr)

\* treelookvar.
TreeLookVar(s, n, tree, double, wfr) ==
  IF IsFixed(s, n)
  THEN IF ~IsForced(s, n) /\ OnComplement(s, n) THEN ForceLiteral(s, -n, wfr)
       ELSE [s EXCEPT !.ok = TRUE]
  ELSE LookedOn(LookOn(s, n, wfr), n, tree, double, wfr)
=============================================================================
