-------------------------- MODULE ConflictAnalysis --------------------------
(***************************************************************************)
(* What CaDiCaL's search works on: the trail with the level and the reason *)
(* of every literal, the control stack of decision levels, the clauses     *)
(* with the two literals each is watched by, and the lines written to the  *)
(* proof.  With chronological backtracking a literal may stay on the trail *)
(* above its level, so that neither the trail nor the watches are ordered. *)
(***************************************************************************)
EXTENDS Clauses, SequencesExt

VARIABLES
  core,   \* trail: sequence of [lit, level, reason], reason {} without one;
          \* control: sequence of [decision, trail], decision 0 on a pseudo level;
          \* propagated: how much of the trail is; conflict: {} without one;
          \* watch: clause -> its two watched literals; red: redundant clauses;
          \* steps: [clause, chain] of the last step's proof lines; unsat;
          \* vars: how many variables there are; tainted: literal flipped lowest, or 0
  assumptions,   \* sequence of literals decided first
  opts    \* the options chrono, chronoalways, chronolevelim, chronoreusetrail, otfs,
          \* shrink, minimize, minimizedepth, eagersubsume, ilb, ilbassumptions, lucky,
          \* restartreusetrail, walk, limited, externallrat

LevelCount(s) == Len(s.control)
TrueOn(trail) == {trail[i].lit : i \in DOMAIN trail}
True(s) == TrueOn(s.trail)
False(s) == Negated(True(s))
Assigned(s, l) == l \in True(s) \cup False(s)
Position(s, l) == CHOOSE i \in DOMAIN s.trail : VarOf(s.trail[i].lit) = VarOf(l)
Level(s, l) == s.trail[Position(s, l)].level
Reason(s, l) == s.trail[Position(s, l)].reason
HighestLevel(s, c) == Max({0} \cup {Level(s, l) : l \in c})
Before(s, a, b) ==   \* a is lower than b, in level first
  \/ Level(s, a) < Level(s, b)
  \/ Level(s, a) = Level(s, b) /\ Position(s, a) < Position(s, b)
RootTrue(s) == {l \in True(s) : Level(s, l) = 0}

\* The elements of S in the order given, and in one order that is always the same.
InOrder(S, before(_, _)) ==
  [i \in 1 .. Cardinality(S) |->
     CHOOSE x \in S : Cardinality({y \in S : before(y, x)}) = i - 1]
Listed(S) == InOrder(S, <)
UnitChain(S) == [i \in 1 .. Cardinality(S) |-> {-Listed(S)[i]}]

\* assignment_level, as search_assign uses it.
AssignmentLevel(s, l, c) ==
  IF opts.chrono > 0 THEN HighestLevel(s, c \ {l}) ELSE LevelCount(s)

Push(s, l, k, c) == [s EXCEPT !.trail = Append(@, [lit |-> l, level |-> k, reason |-> c])]
Line(s, c, chain) == [s EXCEPT !.steps = Append(@, [clause |-> c, chain |-> chain])]

\* search_assign of a unit: assigned at level zero wherever the search is.
AssignUnit(s, l, chain) == Line(Push(s, l, 0, {}), {l}, chain)

\* search_assign with a reason; on level zero a unit is learned from it.
Drive(s, l, c) ==
  LET k == AssignmentLevel(s, l, c)
  IN IF k = 0 THEN AssignUnit(s, l, Append(UnitChain(c \ {l}), c)) ELSE Push(s, l, k, c)

\* new_trail_level, and search_assume_decision.
PseudoLevel(s, l) ==
  [s EXCEPT !.control = Append(@, [decision |-> l, trail |-> Len(s.trail)])]
Decision(s, l) == Push(PseudoLevel(s, l), l, LevelCount(s) + 1, {})

\* backtrack: literals of lower levels stay and are propagated again.
Backtrack(s, k) ==
  IF k >= LevelCount(s) THEN s
  ELSE LET from == s.control[k + 1].trail
           kept == SelectSeq(SubSeq(s.trail, from + 1, Len(s.trail)), LAMBDA e : e.level <= k)
           trail == SubSeq(s.trail, 1, from) \o kept
       IN [s EXCEPT !.trail = trail,
                    !.control = SubSeq(@, 1, k),
                    !.propagated = Min({@, from}),
                    !.tainted = IF @ \in TrueOn(trail) \cup Negated(TrueOn(trail)) THEN @ ELSE 0]

Watching(s, l) == {c \in DOMAIN s.watch : l \in s.watch[c]}
OtherWatch(s, c, l) == CHOOSE o \in s.watch[c] \ {l} : TRUE
Watch(s, c, w) == [s EXCEPT !.watch = (c :> w) @@ @]
Without(s, G) ==
  [s EXCEPT !.watch = [c \in DOMAIN @ \ G |-> @[c]], !.red = @ \ G]

\* learn_empty_clause, with build_chain_for_empty.
LearnEmpty(s) ==
  [Line(s, {}, Append(UnitChain(s.conflict), s.conflict)) EXCEPT !.unsat = TRUE]

-----------------------------------------------------------------------------
(* propagate: one step for each watch that is more than skipped.             *)

Propagating == ~core.unsat /\ core.conflict = {} /\ core.propagated < Len(core.trail)
Falsified == -core.trail[core.propagated + 1].lit
Become(s) == core' = s
Fresh == [core EXCEPT !.steps = <<>>]

\* A literal that is not false replaces the falsified watch.
Rewatch ==
  Propagating /\ \E c \in Watching(core, Falsified) : \E r \in c \ core.watch[c] :
    /\ OtherWatch(core, c, Falsified) \notin True(core)
    /\ ~Assigned(core, r)
    /\ Become(Watch(Fresh, c, {OtherWatch(core, c, Falsified), r}))

\* With chrono > 1 a literal of the implied literal's level is watched instead.
Imply ==
  Propagating /\ \E c \in Watching(core, Falsified) :
    LET l == OtherWatch(core, c, Falsified)
        s == Drive(Fresh, l, c)
        k == Level(s, l)
        higher == {o \in c \ core.watch[c] : Level(s, o) = k}
    IN
    /\ ~Assigned(core, l) /\ c \ {l} \subseteq False(core)
    /\ IF opts.chrono > 1 /\ Cardinality(c) > 2 /\ k > Level(core, Falsified)
       THEN \E o \in higher : Become(Watch(s, c, {l, o}))
       ELSE Become(s)

\* A large clause ends the propagation, a binary one lets it look at the other
\* binary clauses of the list.
FindConflict ==
  Propagating /\ \E c \in Watching(core, Falsified) :
    /\ c \subseteq False(core)
    /\ Become([Fresh EXCEPT !.conflict = c, !.propagated = @ + 1])

AfterBinaryConflict ==
  /\ ~core.unsat /\ Cardinality(core.conflict) = 2
  /\ \E c \in Binaries(Watching(core, -core.trail[core.propagated].lit)) :
       LET l == OtherWatch(core, c, -core.trail[core.propagated].lit) IN
       \/ ~Assigned(core, l) /\ Become(Drive(Fresh, l, c))
       \/ c \subseteq False(core) /\ Become([Fresh EXCEPT !.conflict = c])

\* The rest of the list holds clauses with a true literal.
Advance ==
  /\ Propagating
  /\ \A c \in Watching(core, Falsified) : c \cap True(core) # {}
  /\ Become([Fresh EXCEPT !.propagated = @ + 1])

Propagate == Rewatch \/ Imply \/ FindConflict \/ AfterBinaryConflict \/ Advance
Propagated == core.conflict = {} /\ core.propagated = Len(core.trail)

-----------------------------------------------------------------------------
(***************************************************************************)
(* From a conflict to the next driven literal: the clause of the first     *)
(* unique implication point, strengthening and subsumption on the fly,     *)
(* minimization and shrinking, the level to backtrack to, and the chain    *)
(* of clauses the proof line cites.                                        *)
(***************************************************************************)

\* find_conflict_level: the two highest literals of the conflict are watched,
\* those already watched if the levels leave a choice.
HighestPairs(s, c) ==
  {P \in SUBSET c : Cardinality(P) = 2 /\ \A p \in P, o \in c \ P : Level(s, p) >= Level(s, o)}
WatchHighest(s, c) ==
  Watch(s, c, CHOOSE P \in HighestPairs(s, c) : \A Q \in HighestPairs(s, c) :
                Cardinality(P \cap s.watch[c]) >= Cardinality(Q \cap s.watch[c]))
OnLevel(s, c, k) == {l \in c : Level(s, l) = k}

-----------------------------------------------------------------------------
(* analyze: a has the clause so far and what the flags and levels hold.      *)

None == [count |-> 0, trail |-> Len(core.trail) + 1]
Begin(s) ==
  [s |-> s, i |-> Len(s.trail) + 1, conflict |-> s.conflict, size |-> 0, resolved |-> 0,
   seen |-> {}, lits |-> {}, open |-> 0, antecedent |-> 0, conflictSize |-> 0,
   chain |-> <<>>, units |-> {}, levels |-> [k \in 1 .. LevelCount(s) |-> None],
   uip |-> 0, driven |-> FALSE]

\* analyze_reason and analyze_literal.
AnalyzeReason(a, uip, c) ==
  LET s == a.s
      others == c \ {uip}
      root == OnLevel(s, others, 0)
      new == {l \in others \ root : VarOf(l) \notin a.seen}
      current == OnLevel(s, new, LevelCount(s))
      at(k) == OnLevel(s, new, k)
  IN [a EXCEPT
       !.seen = @ \cup VarsOf(new), !.lits = @ \cup (new \ current),
       !.open = @ + Cardinality(current), !.size = @ + Cardinality(new),
       !.antecedent = 1 + Cardinality(others \ root),
       !.conflictSize = IF a.resolved = 0 THEN Cardinality(others \ root) ELSE @,
       !.chain = Append(@, c), !.units = @ \cup root,
       !.levels = [k \in DOMAIN @ |->
         [count |-> @[k].count + Cardinality(at(k)),
          trail |-> Min({@[k].trail} \cup {Position(s, l) : l \in at(k)})]]]

\* Mutant: the chain is left as it was collected.
ResolutionForward(a) == UnitChain(a.units) \o a.chain

\* The chain was collected from the conflict on.
Resolution(a) == UnitChain(a.units) \o Reverse(a.chain)

\* otfs_subsume_clause: what subsumes an irredundant clause becomes irredundant.
StaysRedundant(s, c, d, subsumed) ==
  /\ c \in s.red /\ subsumed \subseteq s.red
  /\ d \notin DOMAIN s.watch \/ d \in s.red

\* on_the_fly_strengthen: the resolvent is the reason without its literal, which
\* becomes the conflict; if the old conflict was in the formula it is subsumed.
Strengthen(a, uip, c) ==
  LET s == a.s
      d == {l \in c \ {uip} : Level(s, l) > 0}
      kept == s.watch[c] \cap d
      first == IF kept # {} THEN CHOOSE l \in kept : TRUE ELSE CHOOSE l \in d : TRUE
      second == CHOOSE l \in d \ {first} : \A o \in d \ {first} : Level(s, l) >= Level(s, o)
      subsumed == IF a.resolved = 1 /\ a.size < a.conflictSize THEN {a.conflict} ELSE {}
      t == Watch(Without(Line(s, d, Resolution(a)), {c, d} \cup subsumed), d, {first, second})
  IN [a EXCEPT !.s = IF StaysRedundant(s, c, d, subsumed) THEN [t EXCEPT !.red = @ \cup {d}] ELSE t,
               !.conflict = d, !.chain = <<>>, !.units = {}]

\* What the analysis starts over with; the levels keep their counts.
Restarted(a) ==
  [a EXCEPT !.seen = {}, !.lits = {}, !.open = 0, !.size = 0, !.resolved = 0]

RECURSIVE Resolve(_, _, _)
NextUIP(a) ==
  LET here(i) == /\ VarOf(a.s.trail[i].lit) \in a.seen
                 /\ a.s.trail[i].level = LevelCount(a.s)
      from(b) == LET e == b.s.trail[b.i]
                 IN IF b.open = 0 THEN [b EXCEPT !.uip = e.lit]
                    ELSE Resolve([b EXCEPT !.size = @ - 1], e.lit, e.reason)
  IN from([a EXCEPT !.i = Max({j \in 1 .. a.i - 1 : here(j)}),
                    !.open = @ - 1, !.resolved = @ + 1])

\* With the reason analyzed: on to the next, unless it is strengthened.
NextConflict(b) ==
  IF b.open = 1 THEN [b EXCEPT !.driven = TRUE]
  ELSE NextUIP(AnalyzeReason(Restarted(b), 0, b.conflict))
ResolveOrStrengthen(a, uip, c) ==
  IF opts.otfs /\ a.resolved > 0 /\ a.antecedent > 2 /\ a.size < a.antecedent
  THEN NextConflict(Strengthen(a, uip, c))
  ELSE NextUIP(a)
Resolve(a, uip, c) == ResolveOrStrengthen(AnalyzeReason(a, uip, c), uip, c)
-----------------------------------------------------------------------------
(* Minimization and shrinking: m holds the variables' marks.                 *)

Marks(a) == [removable |-> {}, poison |-> {}, keep |-> {}, levels |-> a.levels]
Keeping(m, l) == [m EXCEPT !.keep = @ \cup {VarOf(l)}]

\* minimize_literal: l is implied by literals that are kept or fixed.
RECURSIVE Minimize(_, _, _, _)
Minimize(s, m, l, depth) ==
  LET e == s.trail[Position(s, l)]
      v == VarOf(l)
      others == Listed(e.reason \ {l})
      each[i \in 0 .. Len(others)] ==
        IF i = 0 THEN [ok |-> TRUE, m |-> m]
        ELSE IF ~each[i - 1].ok THEN each[i - 1]
        ELSE Minimize(s, each[i - 1].m, -others[i], depth + 1)
      all == each[Len(others)]
  IN IF e.level = 0 \/ v \in m.removable \/ v \in m.keep THEN [ok |-> TRUE, m |-> m]
     ELSE IF \/ e.reason = {} \/ v \in m.poison \/ e.level = LevelCount(s)
             \/ depth = 0 /\ m.levels[e.level].count < 2
             \/ Position(s, l) <= m.levels[e.level].trail
             \/ depth > opts.minimizedepth
          THEN [ok |-> FALSE, m |-> m]
     ELSE [ok |-> all.ok,
           m |-> IF all.ok THEN [all.m EXCEPT !.removable = @ \cup {v}]
                           ELSE [all.m EXCEPT !.poison = @ \cup {v}]]

\* minimize_clause, and shrunken_block_no_uip: from the first on the trail on, a
\* literal goes or is kept.
MinimizeEach(s, m, c) ==
  LET order == InOrder(c, LAMBDA x, y : Position(s, x) < Position(s, y))
      each[i \in 0 .. Len(order)] ==
        IF i = 0 THEN [lits |-> {}, m |-> m]
        ELSE LET b == each[i - 1]
                 try == Minimize(s, b.m, -order[i], 0)
             IN IF opts.minimize /\ try.ok THEN [b EXCEPT !.m = try.m]
                ELSE [lits |-> b.lits \cup {order[i]},
                      m |-> Keeping(IF opts.minimize THEN try.m ELSE b.m, order[i])]
  IN each[Len(order)]

\* shrink_literal: b has the literals of the block to go on with (heap) and all
\* seen (shrinkable); it fails on a literal of a lower level that must stay.
ShrinkLiteral(s, b, l, k) ==
  LET after(lower) == [b EXCEPT !.m = lower.m, !.ok = lower.ok] IN
  IF Level(s, l) = 0 \/ l \in b.shrinkable THEN b
  ELSE IF Level(s, l) = k
       THEN [b EXCEPT !.shrinkable = @ \cup {l}, !.heap = @ \cup {l},
                      !.m = [@ EXCEPT !.poison = @ \ {VarOf(l)}]]
  ELSE IF VarOf(l) \in b.m.removable THEN b
  ELSE IF opts.shrink > 2 THEN after(Minimize(s, b.m, -l, 1))
  ELSE [b EXCEPT !.ok = FALSE]

\* shrink_along_reason, from the last literal of the block on until one is left.
RECURSIVE ShrinkTo(_, _, _)
ShrinkAlong(s, b, uip, k) ==
  LET others == Listed(Reason(s, uip) \ {-uip})
      along[i \in 0 .. Len(others)] ==
        IF i = 0 THEN [b EXCEPT !.heap = @ \ {uip}]
        ELSE LET c == along[i - 1]
             IN IF c.ok THEN ShrinkLiteral(s, c, others[i], k) ELSE c
  IN IF b.heap = {uip} THEN [b EXCEPT !.uip = uip]
     ELSE IF opts.shrink < 3 /\ Cardinality(Reason(s, uip)) # 2 THEN [b EXCEPT !.ok = FALSE]
     ELSE ShrinkTo(s, along[Len(others)], k)
ShrinkTo(s, b, k) ==
  IF ~b.ok THEN b
  ELSE ShrinkAlong(s, b, CHOOSE l \in b.heap : \A o \in b.heap : Position(s, o) <= Position(s, l), k)

\* shrunken_block_uip: one literal in the place of the block.
ShrunkenTo(s, b, k) ==
  [lits |-> {b.uip},
   m |-> Keeping([b.m EXCEPT
           !.removable = @ \cup VarsOf(b.shrinkable),
           !.levels = [@ EXCEPT ![k] = [count |-> 1, trail |-> Position(s, b.uip)]]], b.uip)]

\* shrink_block: the block's literals give way to one, or are minimized.
ShrinkBlock(s, m, c, k) ==
  LET shrunken(b) == IF b.ok THEN ShrunkenTo(s, b, k) ELSE MinimizeEach(s, b.m, c) IN
  IF Cardinality(c) = 1 THEN [lits |-> c, m |-> [m EXCEPT !.keep = @ \cup VarsOf(c)]]
  ELSE shrunken(ShrinkTo(s, [ok |-> TRUE, uip |-> 0, heap |-> c, shrinkable |-> c,
                             m |-> [m EXCEPT !.poison = @ \ VarsOf(c)]], k))

\* shrink_and_minimize_clause: block after block from the lowest level up.
ShrinkClause(s, m, c) ==
  LET with(b, r) == [lits |-> b.lits \cup r.lits, m |-> r.m]
      each[k \in 0 .. LevelCount(s) - 1] ==
        IF k = 0 THEN [lits |-> {}, m |-> m]
        ELSE LET b == each[k - 1]
             IN IF OnLevel(s, c, k) = {} THEN b
                ELSE with(b, ShrinkBlock(s, b.m, OnLevel(s, c, k), k))
  IN each[LevelCount(s) - 1]

\* calculate_minimize_chain: the reasons from the kept literals to l, in order.
RECURSIVE MinimizeChain(_, _, _, _)
MinimizeChain(s, m, b, l) ==
  LET others == Listed(Reason(s, l) \ {l})
      each[i \in 0 .. Len(others)] ==
        IF i = 0 THEN [b EXCEPT !.added = @ \cup {l}]
        ELSE MinimizeChain(s, m, each[i - 1], -others[i])
      all == each[Len(others)]
  IN IF VarOf(l) \in m.keep \/ l \in b.added THEN b
     ELSE IF Level(s, l) = 0 THEN [b EXCEPT !.units = @ \cup {-l}]
     ELSE [all EXCEPT !.chain = Append(@, Reason(s, l))]

\* The literals that are left, the kept marks, and the chain of the proof line.
MinimizedLits(a) ==
  IF a.lits = {} THEN [lits |-> {}, m |-> Marks(a)]
  ELSE IF opts.shrink > 0 THEN ShrinkClause(a.s, Marks(a), a.lits)
  ELSE MinimizeEach(a.s, Keeping(Marks(a), a.uip), a.lits)

LearnedChain(a, r) ==
  LET s == a.s
      gone == InOrder(a.lits \ r.lits, LAMBDA x, y :
                IF opts.shrink > 0 THEN Before(s, y, x) ELSE Position(s, x) < Position(s, y))
      each[i \in 0 .. Len(gone)] ==
        IF i = 0 THEN [added |-> {}, chain |-> <<>>, units |-> a.units]
        ELSE MinimizeChain(s, r.m, each[i - 1], -gone[i])
      all(m) == UnitChain(m.units) \o m.chain \o Resolution([a EXCEPT !.units = {}])
  IN all(each[Len(gone)])
-----------------------------------------------------------------------------
\* determine_actual_backtrack_level: with trails reused, the level of the best
\* variable above the jump level, whichever that is.
BacktrackLevels(s, jump) ==
  LET top == LevelCount(s)
      frame(p) == Max({jump} \cup {k \in jump .. top - 1 : s.control[k + 1].trail < p})
  IN IF opts.chrono = 0 THEN {jump}
     ELSE IF opts.chronoalways THEN {top - 1}
     ELSE IF jump >= top - 1 \/ jump < Len(assumptions) THEN {jump}
     ELSE IF top - jump > opts.chronolevelim THEN {top - 1}
     ELSE IF opts.chronoreusetrail
          THEN {frame(p) : p \in s.control[jump + 1].trail + 1 .. Len(s.trail)}
     ELSE {jump}

\* new_driving_clause, watched by the two literals assigned last, and eager
\* subsumption by it.
Learn(s, uip, c, chain) ==
  LET second == CHOOSE l \in c \ {-uip} : \A o \in c \ {-uip, l} : Before(s, o, l)
      gone == IF opts.eagersubsume THEN {d \in s.red \ {c} : c \subseteq d} ELSE {}
      t == Watch(Line(s, c, chain), c, {-uip, second})
  IN [Without(t, gone) EXCEPT !.red = @ \cup {c}]

Driven(s, l, c) == [Drive(s, l, c) EXCEPT !.conflict = {}]

\* The conflict drives its one literal on the highest level.
AnalyzeForced(s) ==
  LET k == HighestLevel(s, s.conflict)
      t == WatchHighest(s, s.conflict)
      forced == CHOOSE l \in s.conflict : Level(s, l) = k
  IN Driven(Backtrack(t, k - 1), forced, s.conflict)

\* A clause strengthened on the fly drives, a unit is assigned, a learned clause drives.
DriveStrengthened(a) ==
  LET s == a.s
      forced == CHOOSE l \in a.conflict : Level(s, l) = LevelCount(s)
  IN {Driven(Backtrack(s, k), forced, a.conflict) :
        k \in BacktrackLevels(s, HighestLevel(s, a.conflict \ {forced}))}
AssignLearned(a, r) ==
  {[AssignUnit(Backtrack(a.s, k), -a.uip, LearnedChain(a, r)) EXCEPT !.conflict = {}] :
     k \in BacktrackLevels(a.s, 0)}
DriveLearned(a, lits, chain) ==
  {Driven(Backtrack(Learn(a.s, a.uip, lits \cup {-a.uip}, chain), k), -a.uip, lits \cup {-a.uip}) :
     k \in BacktrackLevels(a.s, HighestLevel(a.s, lits))}
LearnOrAssign(a, r) ==
  IF r.lits = {} THEN AssignLearned(a, r) ELSE DriveLearned(a, r.lits, LearnedChain(a, r))
AnalyzeLearn(a) == IF a.driven THEN DriveStrengthened(a) ELSE LearnOrAssign(a, MinimizedLits(a))

\* analyze: all outcomes; they differ in the level returned to.
Analyzed(s) ==
  LET k == HighestLevel(s, s.conflict)
      t == IF opts.chrono > 0 THEN Backtrack(WatchHighest(s, s.conflict), k) ELSE s
  IN IF opts.chrono > 0 /\ k > 0 /\ Cardinality(OnLevel(s, s.conflict, k)) = 1
     THEN {AnalyzeForced(s)}
     ELSE IF LevelCount(t) = 0 THEN {LearnEmpty(t)}
     ELSE AnalyzeLearn(Resolve(Begin(t), 0, t.conflict))
=============================================================================
