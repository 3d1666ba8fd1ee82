------------------------- MODULE ParallelSolveProofs -------------------------
(***************************************************************************)
(* The driver for any number of workers, given instances and depths: every *)
(* subproblem has one place, join waits for all of them, and a command     *)
(* finds its instance.                                                     *)
(***************************************************************************)
EXTENDS ParallelSolve, FiniteSetTheorems, SequenceTheorems, TLAPS

WorkerStates == {"idle", "run", "put", "done", "dead"}
MainStates == {"run", "put", "join", "stop", "done", "dead"}
States == [pc : WorkerStates \cup MainStates, cmd : Commands \cup {NoCommand},
           puts : Seq(Commands)]

TypeOK ==
  /\ args \in [input : Inputs, cutoff : Cutoffs, cutoffv : CutoffValues,
               after : SolveAfterCube]
  /\ proc \in [Procs -> States]
  /\ proc["main"].pc \in MainStates /\ \A w \in Workers : proc[w].pc \in WorkerStates
  /\ queue \subseteq Commands /\ IsFiniteSet(queue)
  /\ unfinished \in Int /\ pills \in Nat
  /\ instances \subseteq Nodes
  /\ kept \cup refuted \cup solved \cup lost \subseteq Nodes

\* What a process holds goes with where it is.
StateShape ==
  \A p \in Procs :
    /\ proc[p].pc = "run" => proc[p].cmd \in Commands
    /\ proc[p].pc # "put" => proc[p].puts = <<>>

-----------------------------------------------------------------------------
(* Commands.                                                               *)

\* A command starts from an instance that is there; only cubing again, and
\* solving, starts from the node itself.
Sound(cmd, present) ==
  /\ cmd.orig \in present
  /\ Below(cmd.node, cmd.orig)
  /\ cmd.kind = "solve" \/ cmd.extension => cmd.node = cmd.orig

CommandsSound ==
  /\ \A cmd \in queue : Sound(cmd, instances)
  /\ \A p \in Procs :
       /\ proc[p].pc = "run" => Sound(proc[p].cmd, instances)
       /\ \A i \in DOMAIN proc[p].puts : Sound(proc[p].puts[i], instances)

\* What follows from a command to cube again are commands to cube.
SplitFirst ==
  \A p \in Procs :
    proc[p].cmd.kind = "cube" /\ proc[p].cmd.extension =>
      \A i \in DOMAIN proc[p].puts : proc[p].puts[i].kind = "cube"

-----------------------------------------------------------------------------
(* Places: every place where a subproblem can be, as <<kind, name, node>>. *)
(* A command still to be put is named by the number of those behind it.    *)

RunPlaces(p, st) == IF st.pc = "run" THEN {<<"run", p, st.cmd.node>>} ELSE {}
PutPlaces(p, st) ==
  {<<"put", <<p, j>>, st.puts[Len(st.puts) - j].node>> : j \in 0 .. (Len(st.puts) - 1)}
ProcPlaces(p, st) == RunPlaces(p, st) \cup PutPlaces(p, st)
QueuePlaces(Q) == {<<"queue", cmd, cmd.node>> : cmd \in Q}
EndPlaces(E) == {<<"end", n, n>> : n \in E}
ProcsPlaces(pr) == UNION {ProcPlaces(p, pr[p]) : p \in Procs}
PlacesOf(Q, E, pr) == QueuePlaces(Q) \cup EndPlaces(E) \cup ProcsPlaces(pr)

Ended == closed \cup kept \cup lost
Places == PlacesOf(queue, Ended, proc)

Comparable(m, n) == Below(m, n) \/ Below(n, m)

\* No subproblem contains another one that is somewhere else.
Apart(S) == \A s, t \in S : Comparable(s[3], t[3]) => s = t

\* Every assignment is in some subproblem.
Covers(S, cells) == \A cell \in cells : \E s \in S : Below(cell, s[3])

-----------------------------------------------------------------------------
(* Counting.                                                               *)

Stopping == proc["main"].pc \in {"stop", "done"}
HoldingIn(pr) == {w \in Workers : pr[w].pc \in {"run", "put", "dead"}}
Holding == HoldingIn(proc)

\* A task is unfinished from its put to its task_done.
TasksCounted ==
  IF Stopping THEN queue = {} /\ Holding = {}
  ELSE /\ unfinished = Cardinality(queue) + Cardinality(Holding)
       /\ pills = 0

ParallelInv ==
  /\ TypeOK /\ StateShape /\ CommandsSound /\ SplitFirst
  /\ Apart(Places) /\ Covers(Places, Cells) /\ TasksCounted

-----------------------------------------------------------------------------
(* The trees.                                                              *)

LEMMA MaxDepthType ==
  ASSUME NEW i \in Inputs  PROVE MaxDepth[i] \in Nat
BY ParallelAssumption DEF MaxDepth

LEMMA PathsAre ==
  ASSUME NEW path
  PROVE  path \in Paths <=> /\ path \in Seq({1, 2})
                            /\ \E i \in Inputs : Len(path) <= MaxDepth[i]
<1>1. ASSUME path \in Paths
      PROVE  path \in Seq({1, 2}) /\ \E i \in Inputs : Len(path) <= MaxDepth[i]
  <2>0. PICK i \in Inputs : \E n \in 0 .. MaxDepth[i] : path \in [1 .. n -> {1, 2}]
    BY <1>1 DEF Paths
  <2>1. PICK n \in 0 .. MaxDepth[i] : path \in [1 .. n -> {1, 2}]
    BY <2>0
  <2>2. n \in Nat /\ n <= MaxDepth[i]
    BY <2>1, MaxDepthType
  <2>3. path \in Seq({1, 2})
    BY <2>1, <2>2, SeqDef
  <2>4. Len(path) = n
    BY <2>1, <2>2, <2>3, LenProperties
  <2> QED BY <2>2, <2>3, <2>4
<1>2. ASSUME path \in Seq({1, 2}), NEW i \in Inputs, Len(path) <= MaxDepth[i]
      PROVE  path \in Paths
  <2>1. path \in [1 .. Len(path) -> {1, 2}] /\ Len(path) \in 0 .. MaxDepth[i]
    BY <1>2, MaxDepthType, LenProperties
  <2> QED BY <2>1 DEF Paths
<1> QED BY <1>1, <1>2

LEMMA NodeShape ==
  ASSUME NEW n \in Nodes
  PROVE  /\ n = <<n[1], n[2]>> /\ n[1] \in Roots /\ n[2] \in Paths
         /\ n[2] \in Seq({1, 2}) /\ Depth(n) = Len(n[2]) /\ Depth(n) \in Nat
BY PathsAre, LenProperties DEF Nodes, Depth

\* A node below another one begins with its path.
LEMMA BelowIs ==
  ASSUME NEW m \in Nodes, NEW n \in Nodes
  PROVE  Below(m, n) <=>
           /\ m[1] = n[1] /\ Len(n[2]) <= Len(m[2])
           /\ \A i \in 1 .. Len(n[2]) : n[2][i] = m[2][i]
<1> DEFINE s == n[2]
           t == m[2]
<1>1. s \in Seq({1, 2}) /\ t \in Seq({1, 2}) /\ Len(s) \in Nat /\ Len(t) \in Nat
  BY NodeShape, LenProperties
<1> HIDE DEF s, t
<1>2. ASSUME Len(s) <= Len(t)
      PROVE  SubSeq(s, 1, Len(s)) = SubSeq(t, 1, Len(s))
               <=> \A i \in 1 .. Len(s) : s[i] = t[i]
  <2> DEFINE u == SubSeq(s, 1, Len(s))
             v == SubSeq(t, 1, Len(s))
  <2>1. \A i \in 1 .. Len(s) : s[i] \in {1, 2} /\ t[i] \in {1, 2}
    BY <1>1, <1>2, ElementOfSeq
  <2>2. /\ u \in Seq({1, 2}) /\ Len(u) = Len(s)
        /\ \A i \in 1 .. Len(s) : u[i] = s[i]
    BY <1>1, <2>1, SubSeqProperties, SubSeqFull
  <2>3. Len(s) - 1 + 1 = Len(s) /\ \A i \in 1 .. Len(s) : 1 + i - 1 = i
    BY <1>1
  <2>4. Len(v) = Len(s) /\ v \in Seq({1, 2})
    BY <1>1, <2>1, SubSeqProperties
  <2>5. \A i \in 1 .. Len(s) : v[i] = t[i]
    BY <1>1, <2>1, <2>3, SubSeqProperties
  <2> HIDE DEF u, v
  <2>6. u = v <=> \A i \in 1 .. Len(s) : u[i] = v[i]
    BY <2>2, <2>4, SeqEqual
  <2>7. u = v <=> \A i \in 1 .. Len(s) : s[i] = t[i]
    BY <2>2, <2>5, <2>6
  <2> QED BY <2>7 DEF u, v
<1> QED BY <1>2 DEF Below, IsPrefix, s, t

LEMMA BelowOrder ==
  ASSUME NEW a \in Nodes, NEW b \in Nodes, NEW c \in Nodes
  PROVE  /\ Below(a, a)
         /\ Below(a, b) /\ Below(b, c) => Below(a, c)
         /\ Below(a, b) /\ Below(a, c) => Comparable(b, c)
<1>1. Len(a[2]) \in Nat /\ Len(b[2]) \in Nat /\ Len(c[2]) \in Nat
  BY NodeShape
<1>2. Below(a, a)
  BY <1>1, BelowIs
<1>3. Below(a, b) /\ Below(b, c) => Below(a, c)
  BY <1>1, BelowIs
<1>4. ASSUME Below(a, b), Below(a, c)  PROVE Comparable(b, c)
  <2>1. CASE Len(b[2]) <= Len(c[2])
    BY <1>1, <1>4, <2>1, BelowIs DEF Comparable
  <2>2. CASE Len(c[2]) <= Len(b[2])
    BY <1>1, <1>4, <2>2, BelowIs DEF Comparable
  <2> QED BY <1>1, <2>1, <2>2
<1> QED BY <1>2, <1>3, <1>4

\* The two halves of a node that is not at the bottom.
LEMMA Children ==
  ASSUME NEW i \in Inputs, NEW n \in Nodes, Depth(n) < MaxDepth[i]
  PROVE  /\ \A d \in {1, 2} : /\ Child(n, d) \in Nodes /\ Below(Child(n, d), n)
                              /\ Depth(Child(n, d)) = Depth(n) + 1
         /\ ~Comparable(Child(n, 1), Child(n, 2))
         /\ \A cell \in Nodes : Below(cell, n) /\ Depth(cell) = MaxDepth[i] =>
              \E d \in {1, 2} : Below(cell, Child(n, d))
<1>1. n[1] \in Roots /\ n[2] \in Seq({1, 2}) /\ Len(n[2]) \in Nat
      /\ Depth(n) = Len(n[2]) /\ MaxDepth[i] \in Nat
  BY NodeShape, MaxDepthType
<1>2. ASSUME NEW d \in {1, 2}
      PROVE  /\ Append(n[2], d) \in Seq({1, 2})
             /\ Len(Append(n[2], d)) = Len(n[2]) + 1
             /\ \A j \in 1 .. Len(n[2]) : Append(n[2], d)[j] = n[2][j]
             /\ Append(n[2], d)[Len(n[2]) + 1] = d
  BY <1>1, AppendProperties
<1>3. ASSUME NEW d \in {1, 2}
      PROVE  /\ Child(n, d) \in Nodes /\ Below(Child(n, d), n)
             /\ Depth(Child(n, d)) = Depth(n) + 1
             /\ Child(n, d)[1] = n[1] /\ Child(n, d)[2] = Append(n[2], d)
  <2>1. Child(n, d)[1] = n[1] /\ Child(n, d)[2] = Append(n[2], d)
    BY DEF Child
  <2>2. Append(n[2], d) \in Paths
    <3>1. Append(n[2], d) \in Seq({1, 2}) /\ Len(Append(n[2], d)) <= MaxDepth[i]
      BY <1>1, <1>2
    <3> QED BY <3>1, PathsAre
  <2>3. Child(n, d) \in Nodes
    BY <1>1, <2>2 DEF Child, Nodes
  <2>4. Below(Child(n, d), n)
    BY <1>1, <1>2, <2>1, <2>3, BelowIs
  <2> QED BY <1>1, <1>2, <2>1, <2>3, <2>4 DEF Depth
<1>4. ~Comparable(Child(n, 1), Child(n, 2))
  <2>1. Len(n[2]) + 1 \in 1 .. (Len(n[2]) + 1)
    BY <1>1
  <2>2. Child(n, 1)[2][Len(n[2]) + 1] = 1 /\ Child(n, 2)[2][Len(n[2]) + 1] = 2
    BY <1>2, <1>3
  <2>3. /\ Len(Child(n, 1)[2]) = Len(n[2]) + 1 /\ Len(Child(n, 2)[2]) = Len(n[2]) + 1
        /\ Child(n, 1) \in Nodes /\ Child(n, 2) \in Nodes
    BY <1>2, <1>3
  <2> QED BY <2>1, <2>2, <2>3, BelowIs DEF Comparable
<1>5. ASSUME NEW cell \in Nodes, Below(cell, n), Depth(cell) = MaxDepth[i]
      PROVE  \E d \in {1, 2} : Below(cell, Child(n, d))
  <2> DEFINE d == cell[2][Len(n[2]) + 1]
  <2>1. cell[2] \in Seq({1, 2}) /\ Len(cell[2]) = MaxDepth[i]
    BY <1>5, NodeShape
  <2>2. Len(n[2]) + 1 \in 1 .. Len(cell[2])
    BY <1>1, <2>1
  <2>3. d \in {1, 2}
    BY <2>1, <2>2, ElementOfSeq
  <2> HIDE DEF d
  <2>4. \A j \in 1 .. (Len(n[2]) + 1) : Append(n[2], d)[j] = cell[2][j]
    <3>1. ASSUME NEW j \in 1 .. Len(n[2])  PROVE Append(n[2], d)[j] = cell[2][j]
      BY <1>2, <1>5, <2>3, BelowIs
    <3>2. Append(n[2], d)[Len(n[2]) + 1] = cell[2][Len(n[2]) + 1]
      BY <1>2, <2>3 DEF d
    <3> QED BY <1>1, <3>1, <3>2
  <2>5. cell[1] = n[1]
    BY <1>5, BelowIs
  <2>6. Below(cell, Child(n, d))
    BY <1>1, <1>2, <1>3, <2>1, <2>2, <2>3, <2>4, <2>5, BelowIs
  <2> QED BY <2>3, <2>6
<1> QED BY <1>3, <1>4, <1>5

-----------------------------------------------------------------------------
(* Moving a subproblem from one place to another.                          *)

\* A place may be replaced by places below it that share nothing and leave
\* nothing out.
LEMMA Moved ==
  ASSUME NEW S, NEW T, NEW s \in S, NEW cells,
         \A x \in S \cup T : x[3] \in Nodes,
         Apart(S), Covers(S, cells), Apart(T),
         \A t \in T : Below(t[3], s[3]),
         \A cell \in cells : Below(cell, s[3]) => \E t \in T : Below(cell, t[3])
  PROVE  Apart((S \ {s}) \cup T) /\ Covers((S \ {s}) \cup T, cells)
<1>1. ASSUME NEW x \in S \ {s}, NEW t \in T  PROVE ~Comparable(x[3], t[3])
  <2>1. x[3] \in Nodes /\ t[3] \in Nodes /\ s[3] \in Nodes /\ Below(t[3], s[3])
    OBVIOUS
  <2>2. Comparable(x[3], t[3]) => Comparable(x[3], s[3])
    BY <2>1, BelowOrder DEF Comparable
  <2> QED BY <2>2 DEF Apart
<1>2. ASSUME NEW x \in (S \ {s}) \cup T, NEW y \in (S \ {s}) \cup T,
             Comparable(x[3], y[3])
      PROVE  x = y
  <2>1. Comparable(y[3], x[3])
    BY <1>2 DEF Comparable
  <2>2. x \notin T => y \notin T
    BY <1>1, <1>2
  <2>3. y \notin T => x \notin T
    BY <1>1, <2>1
  <2> QED BY <1>2, <2>2, <2>3 DEF Apart
<1>3. ASSUME NEW cell \in cells
      PROVE  \E x \in (S \ {s}) \cup T : Below(cell, x[3])
  BY DEF Covers
<1>4. Apart((S \ {s}) \cup T)
  BY <1>2 DEF Apart
<1> QED BY <1>3, <1>4 DEF Covers

\* Nothing changes but the place of one node.
LEMMA MovedWhole ==
  ASSUME NEW S, NEW s \in S, NEW x, NEW cells, x[3] = s[3],
         \A y \in S : y[3] \in Nodes, Apart(S), Covers(S, cells)
  PROVE  Apart((S \ {s}) \cup {x}) /\ Covers((S \ {s}) \cup {x}, cells)
<1> DEFINE T == {x}
<1>1. Apart(T) /\ \A t \in T : t[3] = s[3]
  BY DEF Apart
<1>2. s[3] \in Nodes /\ Below(s[3], s[3])
  BY BelowOrder
<1>3. \A y \in S \cup T : y[3] \in Nodes
  BY <1>1, <1>2
<1>4. \A cell \in cells : Below(cell, s[3]) => \E t \in T : Below(cell, t[3])
  OBVIOUS
<1>5. \A t \in T : Below(t[3], s[3])
  BY <1>1, <1>2
<1> HIDE DEF T
<1>6. Apart((S \ {s}) \cup T) /\ Covers((S \ {s}) \cup T, cells)
  BY <1>1, <1>3, <1>4, <1>5, Moved
<1> QED BY <1>6 DEF T

\* The places that belong to the other processes stay.
OtherPlaces(p, pr) == UNION {ProcPlaces(q, pr[q]) : q \in Procs \ {p}}

LEMMA PlacesByOwner ==
  ASSUME NEW pr, NEW p \in Procs
  PROVE  /\ ProcsPlaces(pr) = OtherPlaces(p, pr) \cup ProcPlaces(p, pr[p])
         /\ OtherPlaces(p, pr) \cap ProcPlaces(p, pr[p]) = {}
         /\ \A x \in OtherPlaces(p, pr) : x[1] \in {"run", "put"}
<1>1. ProcsPlaces(pr) = OtherPlaces(p, pr) \cup ProcPlaces(p, pr[p])
  BY DEF OtherPlaces, ProcsPlaces
<1>2. ASSUME NEW q \in Procs \ {p}, NEW s1, NEW s2
      PROVE  ProcPlaces(q, s1) \cap ProcPlaces(p, s2) = {}
  BY DEF ProcPlaces, RunPlaces, PutPlaces
<1>3. OtherPlaces(p, pr) \cap ProcPlaces(p, pr[p]) = {}
  BY <1>2 DEF OtherPlaces
<1>4. \A x \in OtherPlaces(p, pr) : x[1] \in {"run", "put"}
  <2>1. ASSUME NEW q, NEW s1, NEW x \in ProcPlaces(q, s1)  PROVE x[1] \in {"run", "put"}
    BY DEF ProcPlaces, RunPlaces, PutPlaces
  <2> QED BY <2>1 DEF OtherPlaces
<1> QED BY <1>1, <1>3, <1>4

\* A step in which one process moves.
OnlyMoves(p, pr, after) ==
  /\ pr \in [Procs -> States] /\ after \in [Procs -> States]
  /\ \A q \in Procs \ {p} : after[q] = pr[q]

LEMMA PlacesAfter ==
  ASSUME NEW pr, NEW after, NEW p \in Procs, OnlyMoves(p, pr, after)
  PROVE  ProcsPlaces(after) = OtherPlaces(p, pr) \cup ProcPlaces(p, after[p])
<1>1. OtherPlaces(p, after) = OtherPlaces(p, pr)
  BY DEF OtherPlaces, OnlyMoves
<1>2. ProcsPlaces(after) = OtherPlaces(p, after) \cup ProcPlaces(p, after[p])
  BY PlacesByOwner
<1> QED BY <1>1, <1>2

\* The places of one process, by what it holds.
LEMMA HeldPlaces ==
  ASSUME NEW p, NEW st \in States
  PROVE  /\ st.puts = <<>> =>
              ProcPlaces(p, st) = IF st.pc = "run" THEN {<<"run", p, st.cmd.node>>} ELSE {}
         /\ \A c : st.pc # "run" /\ st.puts = <<c>> =>
              ProcPlaces(p, st) = {<<"put", <<p, 0>>, c.node>>}
         /\ \A b, c : st.pc # "run" /\ st.puts = <<b, c>> =>
              ProcPlaces(p, st) = {<<"put", <<p, 1>>, b.node>>, <<"put", <<p, 0>>, c.node>>}
<1>1. ASSUME st.puts = <<>>
      PROVE  ProcPlaces(p, st) = IF st.pc = "run" THEN {<<"run", p, st.cmd.node>>} ELSE {}
  <2>1. PutPlaces(p, st) = {}
    BY <1>1 DEF PutPlaces
  <2> QED BY <2>1 DEF ProcPlaces, RunPlaces
<1>2. ASSUME NEW c, st.pc # "run", st.puts = <<c>>
      PROVE  ProcPlaces(p, st) = {<<"put", <<p, 0>>, c.node>>}
  <2>1. Len(st.puts) = 1 /\ st.puts[1] = c
    BY <1>2
  <2>2. 0 .. (Len(st.puts) - 1) = {0} /\ st.puts[Len(st.puts) - 0] = c
    BY <2>1
  <2>3. PutPlaces(p, st) = {<<"put", <<p, 0>>, c.node>>}
    BY <2>2 DEF PutPlaces
  <2> QED BY <1>2, <2>3 DEF ProcPlaces, RunPlaces
<1>3. ASSUME NEW b, NEW c, st.pc # "run", st.puts = <<b, c>>
      PROVE  ProcPlaces(p, st) = {<<"put", <<p, 1>>, b.node>>, <<"put", <<p, 0>>, c.node>>}
  <2>1. Len(st.puts) = 2 /\ st.puts[1] = b /\ st.puts[2] = c
    BY <1>3
  <2>2. /\ 0 .. (Len(st.puts) - 1) = {0, 1}
        /\ st.puts[Len(st.puts) - 0] = c /\ st.puts[Len(st.puts) - 1] = b
    BY <2>1
  <2>3. PutPlaces(p, st) = {<<"put", <<p, 1>>, b.node>>, <<"put", <<p, 0>>, c.node>>}
    BY <2>2 DEF PutPlaces
  <2> QED BY <1>3, <2>3 DEF ProcPlaces, RunPlaces
<1> QED BY <1>1, <1>2, <1>3

\* A put takes the first command away and leaves the names of the others.
LEMMA TailPlaces ==
  ASSUME NEW p, NEW st \in States, NEW s2 \in States, st.pc = "put", s2.pc = "put",
         st.puts # <<>>, s2.puts = Tail(st.puts)
  PROVE  LET first == <<"put", <<p, Len(st.puts) - 1>>, Head(st.puts).node>> IN
         ProcPlaces(p, s2) = ProcPlaces(p, st) \ {first} /\ first \in ProcPlaces(p, st)
<1> DEFINE s == st.puts
           n == Len(st.puts)
           first == <<"put", <<p, n - 1>>, Head(s).node>>
<1>1. s \in Seq(Commands) /\ s # <<>>
  BY DEF States
<1>2. n \in Nat \ {0} /\ Len(Tail(s)) = n - 1
      /\ \A i \in 1 .. (n - 1) : Tail(s)[i] = s[i + 1]
  BY <1>1, HeadTailProperties, EmptySeq
<1>3. Head(s) = s[1]
  BY <1>1
<1>4. \A j \in 0 .. (n - 2) : Tail(s)[(n - 1) - j] = s[n - j]
  BY <1>2
<1>5. PutPlaces(p, s2) = {<<"put", <<p, j>>, s[n - j].node>> : j \in 0 .. (n - 2)}
  <2>1. (n - 1) - 1 = n - 2 /\ s2.puts = Tail(s)
    BY <1>2
  <2> HIDE DEF n, s
  <2>2. PutPlaces(p, s2) = {<<"put", <<p, j>>, Tail(s)[(n - 1) - j].node>> : j \in 0 .. (n - 2)}
    BY <1>2, <2>1 DEF PutPlaces
  <2> QED BY <1>4, <2>2
<1>6. PutPlaces(p, st) = {<<"put", <<p, j>>, s[n - j].node>> : j \in 0 .. (n - 1)}
  BY DEF PutPlaces
<1>7. first = <<"put", <<p, n - 1>>, s[n - (n - 1)].node>>
  BY <1>2, <1>3
<1>8. 0 .. (n - 2) = (0 .. (n - 1)) \ {n - 1} /\ n - 1 \in 0 .. (n - 1)
  BY <1>2
<1> HIDE DEF n, s, first
<1>9. PutPlaces(p, s2) = PutPlaces(p, st) \ {first} /\ first \in PutPlaces(p, st)
  <2>1. first \in PutPlaces(p, st)
    BY <1>6, <1>7, <1>8
  <2>2. ASSUME NEW x \in PutPlaces(p, s2)  PROVE x \in PutPlaces(p, st) /\ x # first
    <3>1. PICK j \in 0 .. (n - 2) : x = <<"put", <<p, j>>, s[n - j].node>>
      BY <1>5
    <3>2. j \in 0 .. (n - 1) /\ j # n - 1
      BY <1>8
    <3> QED BY <1>6, <1>7, <3>1, <3>2
  <2>3. ASSUME NEW x \in PutPlaces(p, st), x # first  PROVE x \in PutPlaces(p, s2)
    <3>1. PICK j \in 0 .. (n - 1) : x = <<"put", <<p, j>>, s[n - j].node>>
      BY <1>6
    <3>2. j # n - 1
      BY <1>7, <2>3, <3>1
    <3> QED BY <1>5, <1>8, <3>1, <3>2
  <2> QED BY <2>1, <2>2, <2>3
<1> QED BY <1>9 DEF ProcPlaces, RunPlaces, first, n, s

-----------------------------------------------------------------------------
(* What a step may do to the places.                                       *)

PlacesOK(Q, E, pr) ==
  /\ Q \subseteq Commands /\ E \subseteq Nodes /\ pr \in [Procs -> States]
  /\ \A p \in Procs : /\ pr[p].pc = "run" => pr[p].cmd \in Commands
                      /\ pr[p].pc # "put" => pr[p].puts = <<>>

Partitioned(Q, E, pr, cells) ==
  Apart(PlacesOf(Q, E, pr)) /\ Covers(PlacesOf(Q, E, pr), cells)

LEMMA PlacesTyped ==
  ASSUME NEW Q, NEW E, NEW pr, PlacesOK(Q, E, pr)
  PROVE  \A x \in PlacesOf(Q, E, pr) : x[3] \in Nodes
<1>1. \A cmd \in Commands : cmd.node \in Nodes
  BY DEF Commands
<1>2. \A x \in QueuePlaces(Q) \cup EndPlaces(E) : x[3] \in Nodes
  BY <1>1 DEF PlacesOK, QueuePlaces, EndPlaces
<1>3. ASSUME NEW p \in Procs, NEW x \in ProcPlaces(p, pr[p])  PROVE x[3] \in Nodes
  <2>1. pr[p] \in States /\ pr[p].puts \in Seq(Commands)
    BY DEF PlacesOK, States
  <2>2. CASE x \in RunPlaces(p, pr[p])
    BY <1>1, <2>2 DEF RunPlaces, PlacesOK
  <2>3. CASE x \in PutPlaces(p, pr[p])
    <3>1. PICK j \in 0 .. (Len(pr[p].puts) - 1) :
            x = <<"put", <<p, j>>, pr[p].puts[Len(pr[p].puts) - j].node>>
      BY <2>3 DEF PutPlaces
    <3>2. Len(pr[p].puts) - j \in 1 .. Len(pr[p].puts)
      BY <2>1, LenProperties
    <3>3. pr[p].puts[Len(pr[p].puts) - j] \in Commands
      BY <2>1, <3>2, ElementOfSeq
    <3> QED BY <1>1, <3>1, <3>3
  <2> QED BY <2>2, <2>3 DEF ProcPlaces
<1> QED BY <1>2, <1>3 DEF PlacesOf, ProcsPlaces

\* Get: a command goes from the queue to a process that holds nothing.
LEMMA GetPartition ==
  ASSUME NEW Q, NEW E, NEW pr, NEW cells, PlacesOK(Q, E, pr), Partitioned(Q, E, pr, cells),
         NEW p \in Procs, pr[p].pc = "idle", NEW cmd \in Q, NEW after, OnlyMoves(p, pr, after),
         after[p].pc = "run", after[p].cmd = cmd, after[p].puts = <<>>
  PROVE  Partitioned(Q \ {cmd}, E, after, cells)
<1> DEFINE S == PlacesOf(Q, E, pr)
           T == PlacesOf(Q \ {cmd}, E, after)
           old == <<"queue", cmd, cmd.node>>
           new == <<"run", p, cmd.node>>
<1>1. pr \in [Procs -> States] /\ pr[p] \in States /\ after[p] \in States /\ pr[p].puts = <<>>
  BY DEF PlacesOK, OnlyMoves
<1>2. /\ S = QueuePlaces(Q) \cup EndPlaces(E) \cup OtherPlaces(p, pr) \cup ProcPlaces(p, pr[p])
      /\ T = QueuePlaces(Q \ {cmd}) \cup EndPlaces(E) \cup OtherPlaces(p, pr) \cup ProcPlaces(p, after[p])
      /\ \A x \in OtherPlaces(p, pr) : x[1] \in {"run", "put"}
  <2>1. /\ ProcsPlaces(pr) = OtherPlaces(p, pr) \cup ProcPlaces(p, pr[p])
        /\ \A x \in OtherPlaces(p, pr) : x[1] \in {"run", "put"}
    BY PlacesByOwner
  <2>2. ProcsPlaces(after) = OtherPlaces(p, pr) \cup ProcPlaces(p, after[p])
    BY <1>1, PlacesAfter
  <2> QED BY <2>1, <2>2 DEF PlacesOf
<1>3. ProcPlaces(p, pr[p]) = {}
  BY <1>1, HeldPlaces
<1>4. ProcPlaces(p, after[p]) = {new}
  BY <1>1, HeldPlaces
<1>5. QueuePlaces(Q \ {cmd}) = QueuePlaces(Q) \ {old} /\ old \in QueuePlaces(Q)
  BY DEF QueuePlaces
<1>6. old \notin OtherPlaces(p, pr) /\ old \notin EndPlaces(E)
  BY <1>2 DEF EndPlaces
<1>7. T = (S \ {old}) \cup {new} /\ old \in S
  BY <1>2, <1>3, <1>4, <1>5, <1>6
<1>8. \A x \in S : x[3] \in Nodes
  BY PlacesTyped
<1>9. new[3] = old[3]
  OBVIOUS
<1> HIDE DEF S, T, old, new
<1>10. Apart(S) /\ Covers(S, cells)
  BY DEF Partitioned, S
<1>11. Apart(T) /\ Covers(T, cells)
  BY <1>7, <1>8, <1>9, <1>10, MovedWhole
<1> QED BY <1>11 DEF Partitioned, T

\* Put: a command goes from a process to the queue, where it is new.
LEMMA PutPartition ==
  ASSUME NEW Q, NEW E, NEW pr, NEW cells, PlacesOK(Q, E, pr), Partitioned(Q, E, pr, cells),
         NEW p \in Procs, pr[p].pc = "put", pr[p].puts # <<>>, NEW after, OnlyMoves(p, pr, after),
         after[p].pc = "put", after[p].puts = Tail(pr[p].puts)
  PROVE  /\ Partitioned(Q \cup {Head(pr[p].puts)}, E, after, cells)
         /\ Head(pr[p].puts) \notin Q
<1> DEFINE S == PlacesOf(Q, E, pr)
           cmd == Head(pr[p].puts)
           T == PlacesOf(Q \cup {cmd}, E, after)
           old == <<"put", <<p, Len(pr[p].puts) - 1>>, cmd.node>>
           new == <<"queue", cmd, cmd.node>>
<1>1. pr \in [Procs -> States] /\ pr[p] \in States /\ after[p] \in States
  BY DEF PlacesOK, OnlyMoves
<1>2. /\ S = QueuePlaces(Q) \cup EndPlaces(E) \cup OtherPlaces(p, pr) \cup ProcPlaces(p, pr[p])
      /\ T = QueuePlaces(Q \cup {cmd}) \cup EndPlaces(E) \cup OtherPlaces(p, pr) \cup ProcPlaces(p, after[p])
      /\ OtherPlaces(p, pr) \cap ProcPlaces(p, pr[p]) = {}
  <2>1. /\ ProcsPlaces(pr) = OtherPlaces(p, pr) \cup ProcPlaces(p, pr[p])
        /\ OtherPlaces(p, pr) \cap ProcPlaces(p, pr[p]) = {}
    BY PlacesByOwner
  <2>2. ProcsPlaces(after) = OtherPlaces(p, pr) \cup ProcPlaces(p, after[p])
    BY <1>1, PlacesAfter
  <2> QED BY <2>1, <2>2 DEF PlacesOf
<1>3. ProcPlaces(p, after[p]) = ProcPlaces(p, pr[p]) \ {old} /\ old \in ProcPlaces(p, pr[p])
  BY <1>1, TailPlaces
<1>4. QueuePlaces(Q \cup {cmd}) = QueuePlaces(Q) \cup {new}
  BY DEF QueuePlaces
<1>5. old \notin QueuePlaces(Q) /\ old \notin EndPlaces(E)
  BY DEF QueuePlaces, EndPlaces
<1>6. T = (S \ {old}) \cup {new} /\ old \in S
  BY <1>2, <1>3, <1>4, <1>5
<1>7. \A x \in S : x[3] \in Nodes
  BY PlacesTyped
<1>8. new[3] = old[3] /\ new # old
  OBVIOUS
<1>9. cmd \in Q => new \in S
  BY <1>2 DEF QueuePlaces
<1> HIDE DEF S, T, old, new
<1>10. Apart(S) /\ Covers(S, cells)
  BY DEF Partitioned, S
<1>11. Apart(T) /\ Covers(T, cells)
  BY <1>6, <1>7, <1>8, <1>10, MovedWhole
<1>12. cmd \notin Q
  <2>1. ASSUME new \in S PROVE FALSE
    <3>1. Comparable(new[3], old[3])
      BY <1>6, <1>7, <1>8, BelowOrder DEF Comparable
    <3> QED BY <1>6, <1>8, <1>10, <2>1, <3>1 DEF Apart
  <2> QED BY <1>9, <2>1
<1> QED BY <1>11, <1>12 DEF Partitioned, T

\* The end of a command that leaves nothing to do.
LEMMA EndPartition ==
  ASSUME NEW Q, NEW E, NEW pr, NEW cells, PlacesOK(Q, E, pr), Partitioned(Q, E, pr, cells),
         NEW p \in Procs, pr[p].pc = "run", NEW after, OnlyMoves(p, pr, after),
         after[p].pc # "run", after[p].puts = <<>>
  PROVE  Partitioned(Q, E \cup {pr[p].cmd.node}, after, cells)
<1> DEFINE S == PlacesOf(Q, E, pr)
           n == pr[p].cmd.node
           T == PlacesOf(Q, E \cup {n}, after)
           old == <<"run", p, n>>
           new == <<"end", n, n>>
<1>1. pr \in [Procs -> States] /\ pr[p] \in States /\ after[p] \in States /\ pr[p].puts = <<>>
  BY DEF PlacesOK, OnlyMoves
<1>2. /\ S = QueuePlaces(Q) \cup EndPlaces(E) \cup OtherPlaces(p, pr) \cup ProcPlaces(p, pr[p])
      /\ T = QueuePlaces(Q) \cup EndPlaces(E \cup {n}) \cup OtherPlaces(p, pr) \cup ProcPlaces(p, after[p])
      /\ OtherPlaces(p, pr) \cap ProcPlaces(p, pr[p]) = {}
  <2>1. /\ ProcsPlaces(pr) = OtherPlaces(p, pr) \cup ProcPlaces(p, pr[p])
        /\ OtherPlaces(p, pr) \cap ProcPlaces(p, pr[p]) = {}
    BY PlacesByOwner
  <2>2. ProcsPlaces(after) = OtherPlaces(p, pr) \cup ProcPlaces(p, after[p])
    BY <1>1, PlacesAfter
  <2> QED BY <2>1, <2>2 DEF PlacesOf
<1>3. ProcPlaces(p, pr[p]) = {old} /\ ProcPlaces(p, after[p]) = {}
  BY <1>1, HeldPlaces
<1>4. EndPlaces(E \cup {n}) = EndPlaces(E) \cup {new}
  BY DEF EndPlaces
<1>5. old \notin QueuePlaces(Q) /\ old \notin EndPlaces(E)
  BY DEF QueuePlaces, EndPlaces
<1>6. T = (S \ {old}) \cup {new} /\ old \in S
  BY <1>2, <1>3, <1>4, <1>5
<1>7. \A x \in S : x[3] \in Nodes
  BY PlacesTyped
<1>8. new[3] = old[3]
  OBVIOUS
<1> HIDE DEF S, T, old, new
<1>9. Apart(S) /\ Covers(S, cells)
  BY DEF Partitioned, S
<1>10. Apart(T) /\ Covers(T, cells)
  BY <1>6, <1>7, <1>8, <1>9, MovedWhole
<1> QED BY <1>10 DEF Partitioned, T

\* A command that hands its node on in another command.
LEMMA HandOnPartition ==
  ASSUME NEW Q, NEW E, NEW pr, NEW cells, PlacesOK(Q, E, pr), Partitioned(Q, E, pr, cells),
         NEW p \in Procs, pr[p].pc = "run", NEW after, OnlyMoves(p, pr, after), NEW c,
         after[p].pc = "put", after[p].puts = <<c>>, c.node = pr[p].cmd.node
  PROVE  Partitioned(Q, E, after, cells)
<1> DEFINE S == PlacesOf(Q, E, pr)
           T == PlacesOf(Q, E, after)
           old == <<"run", p, pr[p].cmd.node>>
           new == <<"put", <<p, 0>>, c.node>>
<1>1. pr \in [Procs -> States] /\ pr[p] \in States /\ after[p] \in States /\ pr[p].puts = <<>>
  BY DEF PlacesOK, OnlyMoves
<1>2. /\ S = QueuePlaces(Q) \cup EndPlaces(E) \cup OtherPlaces(p, pr) \cup ProcPlaces(p, pr[p])
      /\ T = QueuePlaces(Q) \cup EndPlaces(E) \cup OtherPlaces(p, pr) \cup ProcPlaces(p, after[p])
      /\ OtherPlaces(p, pr) \cap ProcPlaces(p, pr[p]) = {}
  <2>1. /\ ProcsPlaces(pr) = OtherPlaces(p, pr) \cup ProcPlaces(p, pr[p])
        /\ OtherPlaces(p, pr) \cap ProcPlaces(p, pr[p]) = {}
    BY PlacesByOwner
  <2>2. ProcsPlaces(after) = OtherPlaces(p, pr) \cup ProcPlaces(p, after[p])
    BY <1>1, PlacesAfter
  <2> QED BY <2>1, <2>2 DEF PlacesOf
<1>3. ProcPlaces(p, pr[p]) = {old} /\ ProcPlaces(p, after[p]) = {new}
  BY <1>1, HeldPlaces
<1>4. old \notin QueuePlaces(Q) /\ old \notin EndPlaces(E)
  BY DEF QueuePlaces, EndPlaces
<1>5. T = (S \ {old}) \cup {new} /\ old \in S
  BY <1>2, <1>3, <1>4
<1>6. \A x \in S : x[3] \in Nodes
  BY PlacesTyped
<1>7. new[3] = old[3]
  OBVIOUS
<1> HIDE DEF S, T, old, new
<1>8. Apart(S) /\ Covers(S, cells)
  BY DEF Partitioned, S
<1>9. Apart(T) /\ Covers(T, cells)
  BY <1>5, <1>6, <1>7, <1>8, MovedWhole
<1> QED BY <1>9 DEF Partitioned, T

\* A command that splits its node.
LEMMA SplitPartition ==
  ASSUME NEW Q, NEW E, NEW pr, PlacesOK(Q, E, pr),
         NEW i \in Inputs, NEW cells \in SUBSET {m \in Nodes : Depth(m) = MaxDepth[i]},
         Partitioned(Q, E, pr, cells),
         NEW p \in Procs, pr[p].pc = "run", Depth(pr[p].cmd.node) < MaxDepth[i],
         NEW after, OnlyMoves(p, pr, after), NEW b, NEW c, after[p].pc = "put", after[p].puts = <<b, c>>,
         b.node = Child(pr[p].cmd.node, 1), c.node = Child(pr[p].cmd.node, 2)
  PROVE  Partitioned(Q, E, after, cells)
<1> DEFINE S == PlacesOf(Q, E, pr)
           n == pr[p].cmd.node
           U == PlacesOf(Q, E, after)
           old == <<"run", p, n>>
           T == {<<"put", <<p, 1>>, b.node>>, <<"put", <<p, 0>>, c.node>>}
<1>1. pr \in [Procs -> States] /\ pr[p] \in States /\ after[p] \in States /\ pr[p].puts = <<>>
      /\ pr[p].cmd \in Commands
  BY DEF PlacesOK, OnlyMoves
<1>2. /\ S = QueuePlaces(Q) \cup EndPlaces(E) \cup OtherPlaces(p, pr) \cup ProcPlaces(p, pr[p])
      /\ U = QueuePlaces(Q) \cup EndPlaces(E) \cup OtherPlaces(p, pr) \cup ProcPlaces(p, after[p])
      /\ OtherPlaces(p, pr) \cap ProcPlaces(p, pr[p]) = {}
  <2>1. /\ ProcsPlaces(pr) = OtherPlaces(p, pr) \cup ProcPlaces(p, pr[p])
        /\ OtherPlaces(p, pr) \cap ProcPlaces(p, pr[p]) = {}
    BY PlacesByOwner
  <2>2. ProcsPlaces(after) = OtherPlaces(p, pr) \cup ProcPlaces(p, after[p])
    BY <1>1, PlacesAfter
  <2> QED BY <2>1, <2>2 DEF PlacesOf
<1>3. ProcPlaces(p, pr[p]) = {old} /\ ProcPlaces(p, after[p]) = T
  BY <1>1, HeldPlaces
<1>4. old \notin QueuePlaces(Q) /\ old \notin EndPlaces(E)
  BY DEF QueuePlaces, EndPlaces
<1>5. U = (S \ {old}) \cup T /\ old \in S
  BY <1>2, <1>3, <1>4
<1>6. n \in Nodes
  BY <1>1 DEF Commands
<1>7. \A t \in T : t[3] \in Nodes /\ Below(t[3], n)
  BY <1>6, Children
<1>8. Apart(T)
  <2>1. b.node \in Nodes /\ c.node \in Nodes
    BY <1>7
  <2>2. ~Comparable(b.node, c.node) /\ ~Comparable(c.node, b.node)
    BY <1>6, Children DEF Comparable
  <2> QED BY <2>2 DEF Apart
<1>9. \A cell \in cells : Below(cell, n) => \E t \in T : Below(cell, t[3])
  <2>1. ASSUME NEW cell \in cells, Below(cell, n)
        PROVE  \E t \in T : Below(cell, t[3])
    <3>1. PICK d \in {1, 2} : Below(cell, Child(n, d))
      BY <1>6, <2>1, Children
    <3> QED BY <3>1
  <2> QED BY <2>1
<1>10. \A x \in S : x[3] \in Nodes
  BY PlacesTyped
<1>11. old[3] = n
  OBVIOUS
<1> HIDE DEF S, T, U, old, n
<1>12. Apart(S) /\ Covers(S, cells)
  BY DEF Partitioned, S
<1>13. Apart(U) /\ Covers(U, cells)
  <2>1. \A x \in S \cup T : x[3] \in Nodes
    BY <1>7, <1>10
  <2> QED BY <1>5, <1>7, <1>8, <1>9, <1>11, <1>12, <2>1, Moved
<1> QED BY <1>13 DEF Partitioned, U

\* A process that holds nothing goes on.
LEMMA RestPartition ==
  ASSUME NEW Q, NEW E, NEW pr, NEW cells, PlacesOK(Q, E, pr), Partitioned(Q, E, pr, cells),
         NEW p \in Procs, pr[p].pc # "run", pr[p].puts = <<>>, NEW after, OnlyMoves(p, pr, after),
         after[p].pc # "run", after[p].puts = <<>>
  PROVE  Partitioned(Q, E, after, cells)
<1>1. pr \in [Procs -> States] /\ pr[p] \in States /\ after[p] \in States
  BY DEF PlacesOK, OnlyMoves
<1>2. ProcPlaces(p, pr[p]) = {} /\ ProcPlaces(p, after[p]) = {}
  BY <1>1, HeldPlaces
<1>3. PlacesOf(Q, E, after) = PlacesOf(Q, E, pr)
  <2>1. ProcsPlaces(pr) = OtherPlaces(p, pr) \cup ProcPlaces(p, pr[p])
    BY PlacesByOwner
  <2>2. ProcsPlaces(after) = OtherPlaces(p, pr) \cup ProcPlaces(p, after[p])
    BY <1>1, PlacesAfter
  <2> QED BY <1>2, <2>1, <2>2 DEF PlacesOf
<1> QED BY <1>3 DEF Partitioned

-----------------------------------------------------------------------------
(* What a step may do to the rest.                                         *)

LEMMA ProcsAre ==
  /\ "main" \in Procs /\ "main" \notin Workers
  /\ \A p \in Procs : p \notin Workers <=> p = "main"
BY ParallelAssumption DEF Procs

\* A state that a process may be in.
Fits(p, st) ==
  /\ st \in States
  /\ IF p \in Workers THEN st.pc \in WorkerStates ELSE st.pc \in MainStates
  /\ st.pc = "run" => st.cmd \in Commands
  /\ st.pc # "put" => st.puts = <<>>

LEMMA ProcStep ==
  ASSUME TypeOK, StateShape, NEW p \in Procs, OnlyMoves(p, proc, proc'), Fits(p, proc'[p])
  PROVE  /\ proc' \in [Procs -> States]
         /\ proc'["main"].pc \in MainStates
         /\ \A w \in Workers : proc'[w].pc \in WorkerStates
         /\ StateShape'
<1>1. \A q \in Procs : q = p \/ proc'[q] = proc[q]
  BY DEF OnlyMoves
<1>2. \A w \in Workers : proc'[w].pc \in WorkerStates
  <2>1. \A w \in Workers : w \in Procs
    BY DEF Procs
  <2> QED BY <1>1, <2>1 DEF TypeOK, Fits
<1>3. proc'["main"].pc \in MainStates
  BY <1>1, ProcsAre DEF TypeOK, Fits
<1>4. StateShape'
  BY <1>1 DEF StateShape, Fits
<1> QED BY <1>2, <1>3, <1>4 DEF OnlyMoves

LEMMA SoundStep ==
  ASSUME NEW p \in Procs, OnlyMoves(p, proc, proc'),
         proc'[p].pc = "run" => Sound(proc'[p].cmd, instances'),
         \A i \in DOMAIN proc'[p].puts : Sound(proc'[p].puts[i], instances'),
         \A cmd \in queue' : Sound(cmd, instances'),
         \A q \in Procs \ {p} :
           /\ proc[q].pc = "run" => Sound(proc[q].cmd, instances')
           /\ \A i \in DOMAIN proc[q].puts : Sound(proc[q].puts[i], instances')
  PROVE  CommandsSound'
<1>1. \A q \in Procs : q = p \/ proc'[q] = proc[q]
  BY DEF OnlyMoves
<1> QED BY <1>1 DEF CommandsSound

\* Instances that stay keep the commands sound.
LEMMA SoundGrows ==
  ASSUME NEW present, NEW more, present \subseteq more
  PROVE  \A cmd : Sound(cmd, present) => Sound(cmd, more)
BY DEF Sound

LEMMA SplitStep ==
  ASSUME SplitFirst, NEW p \in Procs, OnlyMoves(p, proc, proc'),
         proc'[p].cmd.kind = "cube" /\ proc'[p].cmd.extension =>
           \A i \in DOMAIN proc'[p].puts : proc'[p].puts[i].kind = "cube"
  PROVE  SplitFirst'
<1>1. \A q \in Procs : q = p \/ proc'[q] = proc[q]
  BY DEF OnlyMoves
<1> QED BY <1>1 DEF SplitFirst

LEMMA PlacesFromInv ==
  ASSUME TypeOK, StateShape
  PROVE  PlacesOK(queue, Ended, proc)
BY DEF TypeOK, StateShape, PlacesOK, Ended, closed

LEMMA PlacesStep ==
  ASSUME args' = args, Partitioned(queue', Ended', proc', Cells)
  PROVE  Apart(Places)' /\ Covers(Places, Cells)'
<1>1. Cells' = Cells
  BY DEF Cells, Given
<1> QED BY <1>1 DEF Partitioned, Places, PlacesOf, QueuePlaces, EndPlaces, ProcsPlaces,
              Ended, closed, Apart, Covers

\* The processes that hold a task.
LEMMA HoldingStep ==
  ASSUME NEW pr, NEW after, NEW p \in Procs, OnlyMoves(p, pr, after)
  PROVE  /\ IsFiniteSet(HoldingIn(pr)) /\ Cardinality(HoldingIn(pr)) \in Nat
         /\ p \notin Workers => HoldingIn(after) = HoldingIn(pr)
         /\ p \in Workers /\ after[p].pc \in {"run", "put", "dead"} =>
              HoldingIn(after) = HoldingIn(pr) \cup {p}
         /\ p \in Workers /\ after[p].pc \notin {"run", "put", "dead"} =>
              HoldingIn(after) = HoldingIn(pr) \ {p}
<1>1. IsFiniteSet(HoldingIn(pr)) /\ Cardinality(HoldingIn(pr)) \in Nat
  BY ParallelAssumption, FS_Subset, FS_CardinalityType DEF HoldingIn
<1>2. \A w \in Workers : w = p \/ after[w] = pr[w]
  BY DEF OnlyMoves, Procs
<1> QED BY <1>1, <1>2 DEF HoldingIn

-----------------------------------------------------------------------------
(* The steps of a command that runs.                                       *)

\* While a process has work the program is not stopping.
LEMMA WorkMeansGoing ==
  ASSUME TypeOK, TasksCounted, NEW p \in Procs, proc[p].pc \in {"run", "put"}
  PROVE  ~Stopping
<1>1. CASE p \notin Workers
  BY <1>1, ProcsAre DEF Stopping
<1>2. CASE p \in Workers
  <2>1. p \in Holding
    BY <1>2 DEF Holding, HoldingIn
  <2> QED BY <2>1 DEF TasksCounted
<1> QED BY <1>1, <1>2

\* Whether the program stops is up to main.
LEMMA StoppingStep ==
  ASSUME NEW p \in Procs, OnlyMoves(p, proc, proc'), ~Stopping,
         p \in Workers \/ proc'[p].pc \notin {"stop", "done"}
  PROVE  ~Stopping'
<1>1. CASE p \in Workers
  BY <1>1, ProcsAre DEF Stopping, OnlyMoves
<1>2. CASE p \notin Workers
  BY <1>2, ProcsAre DEF Stopping
<1> QED BY <1>1, <1>2

\* A command that has run leaves the counts alone.
LEMMA CountedWhileRunning ==
  ASSUME TypeOK, TasksCounted, NEW p \in Procs, proc[p].pc = "run",
         OnlyMoves(p, proc, proc'), proc'[p].pc \in {"put", "dead"},
         queue' = queue, unfinished' = unfinished, pills' = pills
  PROVE  TasksCounted'
<1>1. ~Stopping
  BY WorkMeansGoing
<1>2. HoldingIn(proc') = HoldingIn(proc)
  <2>1. p \in Workers => p \in HoldingIn(proc)
    BY DEF HoldingIn
  <2> QED BY <2>1, HoldingStep
<1>3. Holding' = Holding
  BY <1>2 DEF Holding, HoldingIn
<1>4. ~Stopping'
  BY <1>1, StoppingStep
<1> QED BY <1>1, <1>3, <1>4 DEF TasksCounted

\* What a command in the run of process p may do.
LEMMA RunStep ==
  ASSUME ParallelInv, NEW p \in Procs, proc[p].pc = "run",
         OnlyMoves(p, proc, proc'), Fits(p, proc'[p]), proc'[p].pc \in {"put", "dead"},
         args' = args, queue' = queue, unfinished' = unfinished, pills' = pills,
         instances' \subseteq Nodes,
         kept' \cup refuted' \cup solved' \cup lost' \subseteq Nodes,
         \A i \in DOMAIN proc'[p].puts : Sound(proc'[p].puts[i], instances'),
         \A cmd \in queue : Sound(cmd, instances'),
         \A q \in Procs \ {p} :
           /\ proc[q].pc = "run" => Sound(proc[q].cmd, instances')
           /\ \A i \in DOMAIN proc[q].puts : Sound(proc[q].puts[i], instances'),
         proc'[p].cmd.kind = "cube" /\ proc'[p].cmd.extension =>
           \A i \in DOMAIN proc'[p].puts : proc'[p].puts[i].kind = "cube",
         Partitioned(queue, Ended', proc', Cells)
  PROVE  ParallelInv'
<1>1. TypeOK /\ StateShape /\ SplitFirst /\ TasksCounted
  BY DEF ParallelInv
<1>2. /\ proc' \in [Procs -> States] /\ proc'["main"].pc \in MainStates
      /\ \A w \in Workers : proc'[w].pc \in WorkerStates
      /\ StateShape'
  BY <1>1, ProcStep
<1>3. TypeOK'
  BY <1>1, <1>2 DEF TypeOK
<1>4. CommandsSound'
  <2>1. proc'[p].pc # "run" /\ \A cmd \in queue' : Sound(cmd, instances')
    OBVIOUS
  <2> QED BY <2>1, SoundStep
<1>5. SplitFirst'
  BY <1>1, SplitStep
<1>6. Apart(Places)' /\ Covers(Places, Cells)'
  BY PlacesStep
<1>7. TasksCounted'
  BY <1>1, CountedWhileRunning
<1> QED BY <1>2, <1>3, <1>4, <1>5, <1>6, <1>7 DEF ParallelInv

\* What is known of a command that runs.
LEMMA RunningCommand ==
  ASSUME ParallelInv, NEW p \in Procs, proc[p].pc = "run"
  PROVE  /\ proc[p] \in States /\ proc[p].puts = <<>>
         /\ proc[p].cmd \in Commands /\ Sound(proc[p].cmd, instances)
         /\ proc[p].cmd.node \in Nodes /\ proc[p].cmd.orig \in Nodes
         /\ PlacesOK(queue, Ended, proc) /\ Partitioned(queue, Ended, proc, Cells)
         /\ Ended \subseteq Nodes
<1>1. TypeOK /\ StateShape /\ CommandsSound
  BY DEF ParallelInv
<1>2. proc[p] \in States /\ proc[p].puts = <<>> /\ proc[p].cmd \in Commands
  BY <1>1 DEF TypeOK, StateShape
<1>3. proc[p].cmd.node \in Nodes /\ proc[p].cmd.orig \in Nodes
  BY <1>2 DEF Commands
<1>4. Sound(proc[p].cmd, instances)
  BY <1>1 DEF CommandsSound
<1>5. PlacesOK(queue, Ended, proc) /\ Partitioned(queue, Ended, proc, Cells)
  BY <1>1, PlacesFromInv DEF ParallelInv, Partitioned, Places
<1>6. Ended \subseteq Nodes
  BY <1>1 DEF TypeOK, Ended, closed
<1> QED BY <1>2, <1>3, <1>4, <1>5, <1>6

LEMMA UpdateIs ==
  ASSUME NEW r \in States, NEW x, NEW y
  PROVE  [[r EXCEPT !.pc = x] EXCEPT !.puts = y] = [pc |-> x, cmd |-> r.cmd, puts |-> y]
<1> DEFINE s == [r EXCEPT !.pc = x]
<1>1. r = [pc |-> r.pc, cmd |-> r.cmd, puts |-> r.puts]
  BY DEF States
<1>2. s = [pc |-> x, cmd |-> r.cmd, puts |-> r.puts]
  BY <1>1
<1> HIDE DEF s
<1>3. [s EXCEPT !.puts = y] = [pc |-> x, cmd |-> r.cmd, puts |-> y]
  BY <1>2
<1> QED BY <1>3 DEF s

\* The state a process is left in.
LEMMA GotoIs ==
  ASSUME TypeOK, NEW p \in Procs, NEW pc, NEW puts \in Seq(Commands),
         IF p \in Workers THEN pc \in WorkerStates ELSE pc \in MainStates,
         pc # "run", pc # "put" => puts = <<>>, Goto(p, pc, puts)
  PROVE  /\ OnlyMoves(p, proc, proc') /\ Fits(p, proc'[p])
         /\ proc'[p].pc = pc /\ proc'[p].cmd = proc[p].cmd /\ proc'[p].puts = puts
<1>1. proc \in [Procs -> States] /\ proc[p] \in States
  BY DEF TypeOK
<1> DEFINE st == [pc |-> pc, cmd |-> proc[p].cmd, puts |-> puts]
<1>2. st \in States
  BY <1>1 DEF States
<1>3. [[proc[p] EXCEPT !.pc = pc] EXCEPT !.puts = puts] = st
  BY <1>1, UpdateIs, Zenon
<1>4. proc' = [proc EXCEPT ![p] = [[proc[p] EXCEPT !.pc = pc] EXCEPT !.puts = puts]]
  BY <1>1 DEF Goto
<1>5. proc'[p] = st /\ \A q \in Procs \ {p} : proc'[q] = proc[q]
  BY <1>1, <1>3, <1>4
<1>6. proc' \in [Procs -> States]
  BY <1>1, <1>2, <1>3, <1>4
<1>7. OnlyMoves(p, proc, proc')
  BY <1>1, <1>5, <1>6 DEF OnlyMoves
<1>8. Fits(p, st)
  BY <1>2 DEF Fits
<1> QED BY <1>5, <1>7, <1>8

\* A command that ends and leaves nothing to do: its node is closed, kept or lost.
LEMMA EndStep ==
  ASSUME ParallelInv, NEW p \in Procs, proc[p].pc = "run", NEW pc \in {"put", "dead"},
         Goto(p, pc, <<>>),
         args' = args, queue' = queue, unfinished' = unfinished, pills' = pills,
         instances' = instances,
         kept' \cup refuted' \cup solved' \cup lost'
           = kept \cup refuted \cup solved \cup lost \cup {proc[p].cmd.node}
  PROVE  ParallelInv'
<1>1. /\ proc[p].cmd.node \in Nodes /\ Ended \subseteq Nodes
      /\ PlacesOK(queue, Ended, proc) /\ Partitioned(queue, Ended, proc, Cells)
  BY RunningCommand
<1>2. /\ OnlyMoves(p, proc, proc') /\ Fits(p, proc'[p])
      /\ proc'[p].pc = pc /\ proc'[p].cmd = proc[p].cmd /\ proc'[p].puts = <<>>
  <2>1. <<>> \in Seq(Commands)
    OBVIOUS
  <2>2. pc \in WorkerStates /\ pc \in MainStates /\ pc # "run" /\ TypeOK
    BY DEF WorkerStates, MainStates, ParallelInv
  <2> QED BY <2>1, <2>2, GotoIs
<1>3. Partitioned(queue, Ended', proc', Cells)
  <2>1. Ended' = Ended \cup {proc[p].cmd.node}
    BY DEF Ended, closed
  <2>2. Partitioned(queue, Ended \cup {proc[p].cmd.node}, proc', Cells)
    BY <1>1, <1>2, EndPartition
  <2> QED BY <2>1, <2>2
<1>4. kept' \cup refuted' \cup solved' \cup lost' \subseteq Nodes /\ instances' \subseteq Nodes
  BY <1>1 DEF Ended, closed, ParallelInv, TypeOK
<1>5. /\ \A cmd \in queue : Sound(cmd, instances')
      /\ \A q \in Procs \ {p} :
           /\ proc[q].pc = "run" => Sound(proc[q].cmd, instances')
           /\ \A i \in DOMAIN proc[q].puts : Sound(proc[q].puts[i], instances')
  BY DEF ParallelInv, CommandsSound
<1>6. DOMAIN proc'[p].puts = {}
  BY <1>2
<1> QED BY <1>2, <1>3, <1>4, <1>5, <1>6, RunStep

-----------------------------------------------------------------------------
(* The steps of the queue.                                                 *)

LEMMA ReplacedState ==
  ASSUME TypeOK, NEW p \in Procs, NEW st \in States, proc' = [proc EXCEPT ![p] = st]
  PROVE  OnlyMoves(p, proc, proc') /\ proc'[p] = st
BY DEF TypeOK, OnlyMoves

LEMMA GetStep ==
  ASSUME ParallelInv, NEW w \in Workers, Get(w)
  PROVE  ParallelInv'
<1>1. TypeOK /\ StateShape /\ CommandsSound /\ SplitFirst /\ TasksCounted
  BY DEF ParallelInv
<1>2. PICK cmd \in queue : /\ queue' = queue \ {cmd}
                           /\ proc' = [proc EXCEPT ![w] = At("run", cmd, <<>>)]
  BY DEF Get
<1>3. /\ w \in Procs /\ proc[w].pc = "idle" /\ args' = args /\ unfinished' = unfinished
      /\ pills' = pills /\ instances' = instances /\ kept' = kept /\ refuted' = refuted
      /\ solved' = solved /\ lost' = lost
  BY DEF Get, Procs
<1>4. cmd \in Commands
  BY <1>1 DEF TypeOK
<1>5. /\ OnlyMoves(w, proc, proc') /\ Fits(w, proc'[w])
      /\ proc'[w].pc = "run" /\ proc'[w].cmd = cmd /\ proc'[w].puts = <<>>
  <2> DEFINE st == At("run", cmd, <<>>)
  <2>1. st \in States /\ st.pc = "run" /\ st.cmd = cmd /\ st.puts = <<>>
    BY <1>4 DEF At, States, WorkerStates
  <2> HIDE DEF st
  <2>2. OnlyMoves(w, proc, proc') /\ proc'[w] = st
    BY <1>1, <1>2, <1>3, <2>1, ReplacedState DEF st
  <2> QED BY <1>4, <2>1, <2>2 DEF Fits, WorkerStates
<1>6. TypeOK' /\ StateShape'
  <2>1. /\ proc' \in [Procs -> States] /\ proc'["main"].pc \in MainStates
        /\ \A v \in Workers : proc'[v].pc \in WorkerStates
        /\ StateShape'
    BY <1>1, <1>3, <1>5, ProcStep
  <2>2. queue' \subseteq Commands /\ IsFiniteSet(queue')
    BY <1>1, <1>2, FS_RemoveElement DEF TypeOK
  <2> QED BY <1>1, <1>3, <2>1, <2>2 DEF TypeOK
<1>7. CommandsSound'
  <2>1. /\ Sound(proc'[w].cmd, instances') /\ DOMAIN proc'[w].puts = {}
        /\ \A c \in queue' : Sound(c, instances')
        /\ \A q \in Procs \ {w} :
             /\ proc[q].pc = "run" => Sound(proc[q].cmd, instances')
             /\ \A i \in DOMAIN proc[q].puts : Sound(proc[q].puts[i], instances')
    BY <1>1, <1>2, <1>3, <1>5 DEF CommandsSound
  <2> QED BY <1>3, <1>5, <2>1, SoundStep
<1>8. SplitFirst'
  <2>1. DOMAIN proc'[w].puts = {}
    BY <1>5
  <2> QED BY <1>1, <1>3, <1>5, <2>1, SplitStep
<1>9. Apart(Places)' /\ Covers(Places, Cells)'
  <2>1. PlacesOK(queue, Ended, proc) /\ Partitioned(queue, Ended, proc, Cells)
    BY <1>1, PlacesFromInv DEF ParallelInv, Partitioned, Places
  <2>2. Partitioned(queue \ {cmd}, Ended, proc', Cells)
    BY <1>3, <1>5, <2>1, GetPartition
  <2>3. Ended' = Ended
    BY <1>3 DEF Ended, closed
  <2>4. Partitioned(queue', Ended', proc', Cells)
    BY <1>2, <2>2, <2>3
  <2> QED BY <1>3, <2>4, PlacesStep
<1>10. TasksCounted'
  <2>1. ~Stopping
    BY <1>1, <1>2 DEF TasksCounted
  <2>2. ~Stopping'
    BY <1>3, <1>5, <2>1, StoppingStep
  <2>3. /\ HoldingIn(proc') = HoldingIn(proc) \cup {w} /\ w \notin HoldingIn(proc)
        /\ IsFiniteSet(HoldingIn(proc)) /\ Cardinality(HoldingIn(proc)) \in Nat
    <3>1. w \notin HoldingIn(proc)
      BY <1>3 DEF HoldingIn
    <3> QED BY <1>3, <1>5, <3>1, HoldingStep
  <2>4. Cardinality(HoldingIn(proc')) = Cardinality(HoldingIn(proc)) + 1
    BY <2>3, FS_AddElement
  <2>5. Cardinality(queue') = Cardinality(queue) - 1 /\ Cardinality(queue) \in Nat
    BY <1>1, <1>2, FS_RemoveElement, FS_CardinalityType DEF TypeOK
  <2>6. Holding = HoldingIn(proc) /\ Holding' = HoldingIn(proc')
    BY DEF Holding, HoldingIn
  <2> QED BY <1>1, <1>3, <2>1, <2>2, <2>4, <2>5, <2>3, <2>6 DEF TasksCounted
<1> QED BY <1>6, <1>7, <1>8, <1>9, <1>10 DEF ParallelInv

LEMMA PutStep ==
  ASSUME ParallelInv, NEW p \in Procs, Put(p)
  PROVE  ParallelInv'
<1>1. TypeOK /\ StateShape /\ CommandsSound /\ SplitFirst /\ TasksCounted
  BY DEF ParallelInv
<1> DEFINE puts == proc[p].puts
           cmd == Head(puts)
<1>2. /\ proc[p].pc = "put" /\ puts # <<>> /\ queue' = queue \cup {cmd}
      /\ unfinished' = unfinished + 1 /\ Goto(p, "put", Tail(puts))
      /\ args' = args /\ pills' = pills /\ instances' = instances /\ kept' = kept
      /\ refuted' = refuted /\ solved' = solved /\ lost' = lost
  BY DEF Put
<1>3. /\ puts \in Seq(Commands) /\ cmd \in Commands /\ Tail(puts) \in Seq(Commands)
      /\ cmd = puts[1] /\ 1 \in DOMAIN puts
      /\ \A i \in DOMAIN Tail(puts) : Tail(puts)[i] = puts[i + 1] /\ i + 1 \in DOMAIN puts
  <2>1. puts \in Seq(Commands)
    BY <1>1 DEF TypeOK, States
  <2> HIDE DEF puts
  <2>2. /\ Head(puts) \in Commands /\ Tail(puts) \in Seq(Commands)
        /\ Len(Tail(puts)) = Len(puts) - 1
        /\ \A i \in 1 .. Len(Tail(puts)) : Tail(puts)[i] = puts[i + 1]
    BY <1>2, <2>1, HeadTailProperties
  <2>3. DOMAIN puts = 1 .. Len(puts) /\ DOMAIN Tail(puts) = 1 .. (Len(puts) - 1)
        /\ Len(puts) \in Nat \ {0}
    BY <1>2, <2>1, <2>2, LenProperties, EmptySeq
  <2> QED BY <1>2, <2>1, <2>2, <2>3
<1>4. /\ OnlyMoves(p, proc, proc') /\ Fits(p, proc'[p]) /\ proc'[p].pc = "put"
      /\ proc'[p].cmd = proc[p].cmd /\ proc'[p].puts = Tail(puts)
  <2>1. IF p \in Workers THEN "put" \in WorkerStates ELSE "put" \in MainStates
    BY DEF WorkerStates, MainStates
  <2> HIDE DEF puts, cmd
  <2>2. /\ TypeOK /\ Goto(p, "put", Tail(puts)) /\ Tail(puts) \in Seq(Commands)
        /\ "put" # "run" /\ ("put" # "put" => Tail(puts) = <<>>)
    BY <1>1, <1>2, <1>3
  <2> QED BY <2>1, <2>2, GotoIs
<1> HIDE DEF puts, cmd
<1>5. TypeOK' /\ StateShape'
  <2>1. /\ proc' \in [Procs -> States] /\ proc'["main"].pc \in MainStates
        /\ \A v \in Workers : proc'[v].pc \in WorkerStates
        /\ StateShape'
    BY <1>1, <1>4, ProcStep
  <2>2. queue' \subseteq Commands /\ IsFiniteSet(queue')
    BY <1>1, <1>2, <1>3, FS_AddElement DEF TypeOK
  <2> QED BY <1>1, <1>2, <2>1, <2>2 DEF TypeOK
<1>6. \A i \in DOMAIN puts : Sound(puts[i], instances)
  BY <1>1 DEF CommandsSound, puts
<1>7. CommandsSound'
  <2>1. \A i \in DOMAIN proc'[p].puts : Sound(proc'[p].puts[i], instances')
    BY <1>2, <1>3, <1>4, <1>6
  <2>2. /\ \A c \in queue' : Sound(c, instances')
        /\ \A q \in Procs \ {p} :
             /\ proc[q].pc = "run" => Sound(proc[q].cmd, instances')
             /\ \A i \in DOMAIN proc[q].puts : Sound(proc[q].puts[i], instances')
    BY <1>1, <1>2, <1>3, <1>6 DEF CommandsSound
  <2>3. proc'[p].pc # "run"
    BY <1>4
  <2> QED BY <1>4, <2>1, <2>2, <2>3, SoundStep
<1>8. SplitFirst'
  <2>1. proc[p].cmd.kind = "cube" /\ proc[p].cmd.extension =>
          \A i \in DOMAIN puts : puts[i].kind = "cube"
    BY <1>1 DEF SplitFirst, puts
  <2>2. proc'[p].cmd.kind = "cube" /\ proc'[p].cmd.extension =>
          \A i \in DOMAIN proc'[p].puts : proc'[p].puts[i].kind = "cube"
    BY <1>3, <1>4, <2>1
  <2> QED BY <1>1, <1>4, <2>2, SplitStep
<1>9. Partitioned(queue', Ended', proc', Cells) /\ cmd \notin queue
  <2>1. PlacesOK(queue, Ended, proc) /\ Partitioned(queue, Ended, proc, Cells)
    BY <1>1, PlacesFromInv DEF ParallelInv, Partitioned, Places
  <2>2. Partitioned(queue \cup {cmd}, Ended, proc', Cells) /\ cmd \notin queue
    BY <1>2, <1>4, <2>1, PutPartition DEF puts, cmd
  <2>3. Ended' = Ended
    BY <1>2 DEF Ended, closed
  <2> QED BY <1>2, <2>2, <2>3
<1>10. Apart(Places)' /\ Covers(Places, Cells)'
  BY <1>2, <1>9, PlacesStep
<1>11. TasksCounted'
  <2>1. ~Stopping
    BY <1>1, <1>2, WorkMeansGoing
  <2>2. ~Stopping'
    BY <1>4, <2>1, StoppingStep
  <2>3. HoldingIn(proc') = HoldingIn(proc) /\ Cardinality(HoldingIn(proc)) \in Nat
    <3>1. p \in Workers => p \in HoldingIn(proc)
      BY <1>2 DEF HoldingIn
    <3>2. proc'[p].pc \in {"run", "put", "dead"} /\ OnlyMoves(p, proc, proc')
      BY <1>4
    <3>3. /\ p \notin Workers => HoldingIn(proc') = HoldingIn(proc)
          /\ p \in Workers => HoldingIn(proc') = HoldingIn(proc) \cup {p}
          /\ Cardinality(HoldingIn(proc)) \in Nat
      BY <3>2, HoldingStep
    <3> QED BY <3>1, <3>3
  <2>4. Cardinality(queue') = Cardinality(queue) + 1 /\ Cardinality(queue) \in Nat
    BY <1>1, <1>2, <1>9, FS_AddElement, FS_CardinalityType DEF TypeOK
  <2>5. Holding = HoldingIn(proc) /\ Holding' = HoldingIn(proc')
    BY DEF Holding, HoldingIn
  <2> QED BY <1>1, <1>2, <2>1, <2>2, <2>3, <2>4, <2>5 DEF TasksCounted
<1> QED BY <1>5, <1>7, <1>8, <1>10, <1>11 DEF ParallelInv

\* A process that holds nothing goes on and does nothing but count.
LEMMA RestStep ==
  ASSUME ParallelInv, NEW p \in Procs, proc[p].pc # "run", proc[p].puts = <<>>,
         OnlyMoves(p, proc, proc'), Fits(p, proc'[p]),
         proc'[p].pc # "run", proc'[p].puts = <<>>,
         args' = args, queue' = queue, instances' = instances, kept' = kept,
         refuted' = refuted, solved' = solved, lost' = lost,
         unfinished' \in Int, pills' \in Nat, TasksCounted'
  PROVE  ParallelInv'
<1>1. TypeOK /\ StateShape /\ CommandsSound /\ SplitFirst
  BY DEF ParallelInv
<1>2. TypeOK' /\ StateShape'
  <2>1. /\ proc' \in [Procs -> States] /\ proc'["main"].pc \in MainStates
        /\ \A v \in Workers : proc'[v].pc \in WorkerStates
        /\ StateShape'
    BY <1>1, ProcStep
  <2> QED BY <1>1, <2>1 DEF TypeOK
<1>3. DOMAIN proc'[p].puts = {}
  OBVIOUS
<1>4. CommandsSound'
  <2>1. /\ \A i \in DOMAIN proc'[p].puts : Sound(proc'[p].puts[i], instances')
        /\ \A c \in queue' : Sound(c, instances')
        /\ \A q \in Procs \ {p} :
             /\ proc[q].pc = "run" => Sound(proc[q].cmd, instances')
             /\ \A i \in DOMAIN proc[q].puts : Sound(proc[q].puts[i], instances')
    BY <1>1, <1>3 DEF CommandsSound
  <2> QED BY <2>1, SoundStep
<1>5. SplitFirst'
  BY <1>1, <1>3, SplitStep
<1>6. Apart(Places)' /\ Covers(Places, Cells)'
  <2>1. PlacesOK(queue, Ended, proc) /\ Partitioned(queue, Ended, proc, Cells)
    BY <1>1, PlacesFromInv DEF ParallelInv, Partitioned, Places
  <2>2. Partitioned(queue, Ended, proc', Cells)
    BY <2>1, RestPartition
  <2>3. Ended' = Ended
    BY DEF Ended, closed
  <2> QED BY <2>2, <2>3, PlacesStep
<1> QED BY <1>2, <1>4, <1>5, <1>6 DEF ParallelInv

LEMMA TaskDoneStep ==
  ASSUME ParallelInv, NEW w \in Workers, TaskDone(w)
  PROVE  ParallelInv'
<1>1. TypeOK /\ TasksCounted
  BY DEF ParallelInv
<1>2. /\ w \in Procs /\ proc[w].pc = "put" /\ proc[w].puts = <<>>
      /\ unfinished' = unfinished - 1 /\ proc' = [proc EXCEPT ![w] = Idle]
      /\ args' = args /\ queue' = queue /\ pills' = pills /\ instances' = instances
      /\ kept' = kept /\ refuted' = refuted /\ solved' = solved /\ lost' = lost
  BY DEF TaskDone, Procs
<1>3. /\ OnlyMoves(w, proc, proc') /\ Fits(w, proc'[w])
      /\ proc'[w].pc = "idle" /\ proc'[w].puts = <<>>
  <2>1. Idle \in States /\ Idle.pc = "idle" /\ Idle.puts = <<>>
    BY DEF Idle, At, States, WorkerStates
  <2>2. OnlyMoves(w, proc, proc') /\ proc'[w] = Idle
    BY <1>1, <1>2, <2>1, ReplacedState
  <2> QED BY <2>1, <2>2 DEF Fits, WorkerStates
<1>4. TasksCounted'
  <2>1. ~Stopping
    BY <1>1, <1>2, WorkMeansGoing
  <2>2. ~Stopping'
    BY <1>2, <1>3, <2>1, StoppingStep
  <2>3. proc'[w].pc \notin {"run", "put", "dead"} /\ OnlyMoves(w, proc, proc')
        /\ w \in HoldingIn(proc)
    BY <1>2, <1>3 DEF HoldingIn
  <2>4. /\ HoldingIn(proc') = HoldingIn(proc) \ {w}
        /\ IsFiniteSet(HoldingIn(proc)) /\ Cardinality(HoldingIn(proc)) \in Nat
    BY <1>2, <2>3, HoldingStep
  <2>5. Cardinality(HoldingIn(proc')) = Cardinality(HoldingIn(proc)) - 1
    BY <2>3, <2>4, FS_RemoveElement
  <2>6. Holding = HoldingIn(proc) /\ Holding' = HoldingIn(proc')
    BY DEF Holding, HoldingIn
  <2>7. Cardinality(queue) \in Nat
    BY <1>1, FS_CardinalityType DEF TypeOK
  <2>8. unfinished = Cardinality(queue) + Cardinality(Holding) /\ pills = 0
    BY <1>1, <2>1 DEF TasksCounted
  <2>9. unfinished' = unfinished - 1 /\ queue' = queue /\ pills' = pills
    BY <1>2
  <2> QED BY <2>2, <2>4, <2>5, <2>6, <2>7, <2>8, <2>9 DEF TasksCounted
<1>5. unfinished' \in Int /\ pills' \in Nat
  BY <1>1, <1>2 DEF TypeOK
<1> QED BY <1>2, <1>3, <1>4, <1>5, RestStep

LEMMA StartJoinStep ==
  ASSUME ParallelInv, StartJoin
  PROVE  ParallelInv'
<1>1. TypeOK /\ TasksCounted
  BY DEF ParallelInv
<1> DEFINE p == "main"
<1>2. /\ p \in Procs /\ p \notin Workers /\ proc[p].pc = "put" /\ proc[p].puts = <<>>
      /\ Goto(p, "join", <<>>) /\ unfinished' = unfinished
      /\ args' = args /\ queue' = queue /\ pills' = pills /\ instances' = instances
      /\ kept' = kept /\ refuted' = refuted /\ solved' = solved /\ lost' = lost
  BY ProcsAre DEF StartJoin
<1> HIDE DEF p
<1>3. /\ OnlyMoves(p, proc, proc') /\ Fits(p, proc'[p])
      /\ proc'[p].pc = "join" /\ proc'[p].puts = <<>>
  <2>1. /\ "join" \in MainStates /\ "join" # "run" /\ "join" # "put"
        /\ <<>> \in Seq(Commands)
    BY DEF MainStates
  <2> QED BY <1>1, <1>2, <2>1, GotoIs
<1>4. TasksCounted'
  <2>1. ~Stopping
    BY <1>1, <1>2, WorkMeansGoing
  <2>2. ~Stopping'
    BY <1>2, <1>3, <2>1, StoppingStep
  <2>3. HoldingIn(proc') = HoldingIn(proc)
    BY <1>2, <1>3, HoldingStep
  <2>4. Holding' = Holding
    BY <2>3 DEF Holding, HoldingIn
  <2> QED BY <1>1, <1>2, <2>1, <2>2, <2>4 DEF TasksCounted
<1>5. unfinished' \in Int /\ pills' \in Nat
  BY <1>1, <1>2 DEF TypeOK
<1> QED BY <1>2, <1>3, <1>4, <1>5, RestStep

\* All that has been put is done when queue.join returns: nobody holds a task.
LEMMA JoinStep ==
  ASSUME ParallelInv, Join
  PROVE  ParallelInv'
<1>1. TypeOK /\ TasksCounted /\ StateShape
  BY DEF ParallelInv
<1> DEFINE p == "main"
<1>2. /\ p \in Procs /\ p \notin Workers /\ proc[p].pc = "join" /\ unfinished = 0
      /\ Goto(p, "stop", <<>>) /\ unfinished' = Cardinality(Workers)
      /\ pills' = Cardinality(Workers)
      /\ args' = args /\ queue' = queue /\ instances' = instances
      /\ kept' = kept /\ refuted' = refuted /\ solved' = solved /\ lost' = lost
  BY ProcsAre DEF Join
<1>3. ~Stopping
  BY <1>2 DEF Stopping
<1> HIDE DEF p
<1>4. /\ OnlyMoves(p, proc, proc') /\ Fits(p, proc'[p])
      /\ proc'[p].pc = "stop" /\ proc'[p].puts = <<>>
  <2>1. /\ "stop" \in MainStates /\ "stop" # "run" /\ "stop" # "put"
        /\ <<>> \in Seq(Commands)
    BY DEF MainStates
  <2> QED BY <1>1, <1>2, <2>1, GotoIs
<1>5. proc[p].puts = <<>>
  BY <1>1, <1>2 DEF StateShape
<1>6. TasksCounted'
  <2>1. /\ HoldingIn(proc') = HoldingIn(proc)
        /\ IsFiniteSet(HoldingIn(proc)) /\ Cardinality(HoldingIn(proc)) \in Nat
    BY <1>2, <1>4, HoldingStep
  <2>2. Holding = HoldingIn(proc) /\ Holding' = HoldingIn(proc')
    BY DEF Holding, HoldingIn
  <2>3. IsFiniteSet(queue) /\ Cardinality(queue) \in Nat
    BY <1>1, FS_CardinalityType DEF TypeOK
  <2>4. Cardinality(queue) = 0 /\ Cardinality(Holding) = 0
    BY <1>1, <1>2, <1>3, <2>1, <2>2, <2>3 DEF TasksCounted
  <2>5. queue' = {} /\ Holding' = {}
    BY <1>2, <2>1, <2>2, <2>3, <2>4, FS_EmptySet
  <2>6. Stopping'
    BY <1>4 DEF Stopping, p
  <2> QED BY <2>5, <2>6 DEF TasksCounted
<1>7. unfinished' \in Int /\ pills' \in Nat
  BY <1>2, ParallelAssumption, FS_CardinalityType
<1> QED BY <1>2, <1>4, <1>5, <1>6, <1>7, RestStep

LEMMA TakePillStep ==
  ASSUME ParallelInv, NEW w \in Workers, TakePill(w)
  PROVE  ParallelInv'
<1>1. TypeOK /\ TasksCounted /\ StateShape
  BY DEF ParallelInv
<1>2. /\ w \in Procs /\ proc[w].pc = "idle" /\ proc[w].puts = <<>> /\ pills > 0
      /\ unfinished' = unfinished - 1 /\ pills' = pills - 1 /\ Goto(w, "done", <<>>)
      /\ args' = args /\ queue' = queue /\ instances' = instances
      /\ kept' = kept /\ refuted' = refuted /\ solved' = solved /\ lost' = lost
  BY <1>1 DEF TakePill, Procs, StateShape
<1>3. /\ OnlyMoves(w, proc, proc') /\ Fits(w, proc'[w])
      /\ proc'[w].pc = "done" /\ proc'[w].puts = <<>>
  <2>1. /\ "done" \in WorkerStates /\ "done" # "run" /\ "done" # "put"
        /\ <<>> \in Seq(Commands)
    BY DEF WorkerStates
  <2> QED BY <1>1, <1>2, <2>1, GotoIs
<1>4. TasksCounted'
  <2>1. Stopping
    BY <1>1, <1>2 DEF TasksCounted
  <2>2. Stopping'
    BY <1>3, <2>1, ProcsAre DEF Stopping, OnlyMoves
  <2>3. proc'[w].pc \notin {"run", "put", "dead"} /\ OnlyMoves(w, proc, proc')
    BY <1>3
  <2>4. HoldingIn(proc') = HoldingIn(proc) \ {w}
    BY <1>2, <2>3, HoldingStep
  <2>5. Holding = HoldingIn(proc) /\ Holding' = HoldingIn(proc')
    BY DEF Holding, HoldingIn
  <2> QED BY <1>1, <1>2, <2>1, <2>2, <2>4, <2>5 DEF TasksCounted
<1>5. unfinished' \in Int /\ pills' \in Nat
  BY <1>1, <1>2 DEF TypeOK
<1> QED BY <1>2, <1>3, <1>4, <1>5, RestStep

LEMMA JoinProcessesStep ==
  ASSUME ParallelInv, JoinProcesses
  PROVE  ParallelInv'
<1>1. TypeOK /\ TasksCounted /\ StateShape
  BY DEF ParallelInv
<1> DEFINE p == "main"
<1>2. /\ p \in Procs /\ p \notin Workers /\ proc[p].pc = "stop" /\ proc[p].puts = <<>>
      /\ Goto(p, "done", <<>>) /\ unfinished' = unfinished
      /\ args' = args /\ queue' = queue /\ pills' = pills /\ instances' = instances
      /\ kept' = kept /\ refuted' = refuted /\ solved' = solved /\ lost' = lost
  BY <1>1, ProcsAre DEF JoinProcesses, StateShape
<1>3. Stopping
  BY <1>2 DEF Stopping
<1> HIDE DEF p
<1>4. /\ OnlyMoves(p, proc, proc') /\ Fits(p, proc'[p])
      /\ proc'[p].pc = "done" /\ proc'[p].puts = <<>>
  <2>1. /\ "done" \in MainStates /\ "done" # "run" /\ "done" # "put"
        /\ <<>> \in Seq(Commands)
    BY DEF MainStates
  <2> QED BY <1>1, <1>2, <2>1, GotoIs
<1>5. TasksCounted'
  <2>1. HoldingIn(proc') = HoldingIn(proc)
    BY <1>2, <1>4, HoldingStep
  <2>2. Holding' = Holding
    BY <2>1 DEF Holding, HoldingIn
  <2>3. Stopping'
    BY <1>4 DEF Stopping, p
  <2> QED BY <1>1, <1>2, <1>3, <2>2, <2>3 DEF TasksCounted
<1>6. unfinished' \in Int /\ pills' \in Nat
  BY <1>1, <1>2 DEF TypeOK
<1> QED BY <1>2, <1>4, <1>5, <1>6, RestStep

-----------------------------------------------------------------------------
(* The commands.                                                           *)

LEMMA CubeRefutedStep ==
  ASSUME ParallelInv, NEW p \in Procs, CubeRefuted(p)
  PROVE  ParallelInv'
<1>1. /\ proc[p].pc = "run" /\ Goto(p, "put", <<>>) /\ "put" \in {"put", "dead"}
      /\ args' = args /\ queue' = queue /\ unfinished' = unfinished /\ pills' = pills
      /\ instances' = instances
  BY DEF CubeRefuted, Running
<1>2. kept' \cup refuted' \cup solved' \cup lost'
        = kept \cup refuted \cup solved \cup lost \cup {proc[p].cmd.node}
  BY DEF CubeRefuted
<1> QED BY <1>1, <1>2, EndStep

LEMMA CubeKeepStep ==
  ASSUME ParallelInv, NEW p \in Procs, CubeKeep(p)
  PROVE  ParallelInv'
<1>1. /\ proc[p].pc = "run" /\ Goto(p, "put", <<>>) /\ "put" \in {"put", "dead"}
      /\ args' = args /\ queue' = queue /\ unfinished' = unfinished /\ pills' = pills
      /\ instances' = instances
  BY DEF CubeKeep, Running
<1>2. kept' \cup refuted' \cup solved' \cup lost'
        = kept \cup refuted \cup solved \cup lost \cup {proc[p].cmd.node}
  BY DEF CubeKeep
<1> QED BY <1>1, <1>2, EndStep

LEMMA CubeFailsStep ==
  ASSUME ParallelInv, NEW p \in Procs, CubeFails(p)
  PROVE  ParallelInv'
<1>1. /\ proc[p].pc = "run" /\ Goto(p, "dead", <<>>) /\ "dead" \in {"put", "dead"}
      /\ args' = args /\ queue' = queue /\ unfinished' = unfinished /\ pills' = pills
      /\ instances' = instances
  BY DEF CubeFails, Running
<1>2. kept' \cup refuted' \cup solved' \cup lost'
        = kept \cup refuted \cup solved \cup lost \cup {proc[p].cmd.node}
  BY DEF CubeFails
<1> QED BY <1>1, <1>2, EndStep

LEMMA SolveFailsStep ==
  ASSUME ParallelInv, NEW p \in Procs, SolveFails(p)
  PROVE  ParallelInv'
<1>1. /\ proc[p].pc = "run" /\ Goto(p, "put", <<>>) /\ "put" \in {"put", "dead"}
      /\ args' = args /\ queue' = queue /\ unfinished' = unfinished /\ pills' = pills
      /\ instances' = instances
  BY DEF SolveFails, Running
<1>2. kept' \cup refuted' \cup solved' \cup lost'
        = kept \cup refuted \cup solved \cup lost \cup {proc[p].cmd.node}
  BY DEF SolveFails
<1> QED BY <1>1, <1>2, EndStep

\* A command that hands its whole node on.
LEMMA HandOnStep ==
  ASSUME ParallelInv, NEW p \in Procs, proc[p].pc = "run", NEW c \in Commands,
         Goto(p, "put", <<c>>), c.node = proc[p].cmd.node, c.orig = c.node,
         c.node \in instances', instances \subseteq instances', instances' \subseteq Nodes,
         proc[p].cmd.kind = "cube" /\ proc[p].cmd.extension => c.kind = "cube",
         args' = args, queue' = queue, unfinished' = unfinished, pills' = pills,
         kept' = kept, refuted' = refuted, solved' = solved, lost' = lost
  PROVE  ParallelInv'
<1>1. /\ proc[p].cmd.node \in Nodes /\ Ended \subseteq Nodes
      /\ PlacesOK(queue, Ended, proc) /\ Partitioned(queue, Ended, proc, Cells)
  BY RunningCommand
<1>2. <<c>> \in Seq(Commands) /\ DOMAIN <<c>> = {1} /\ <<c>>[1] = c
  OBVIOUS
<1>3. /\ OnlyMoves(p, proc, proc') /\ Fits(p, proc'[p])
      /\ proc'[p].pc = "put" /\ proc'[p].cmd = proc[p].cmd /\ proc'[p].puts = <<c>>
  <2>1. /\ "put" \in WorkerStates /\ "put" \in MainStates /\ "put" # "run" /\ TypeOK
        /\ ("put" # "put" => <<c>> = <<>>)
    BY DEF WorkerStates, MainStates, ParallelInv
  <2> DEFINE puts == <<c>>
  <2>2. puts \in Seq(Commands) /\ Goto(p, "put", puts)
    BY <1>2
  <2> HIDE DEF puts
  <2>3. /\ OnlyMoves(p, proc, proc') /\ Fits(p, proc'[p])
        /\ proc'[p].pc = "put" /\ proc'[p].cmd = proc[p].cmd /\ proc'[p].puts = puts
    BY <2>1, <2>2, GotoIs
  <2> QED BY <2>3 DEF puts
<1>4. Partitioned(queue, Ended', proc', Cells)
  <2>1. Ended' = Ended
    BY DEF Ended, closed
  <2>2. Partitioned(queue, Ended, proc', Cells)
    BY <1>1, <1>3, HandOnPartition
  <2> QED BY <2>1, <2>2
<1>5. /\ \A cmd \in queue : Sound(cmd, instances')
      /\ \A q \in Procs \ {p} :
           /\ proc[q].pc = "run" => Sound(proc[q].cmd, instances')
           /\ \A i \in DOMAIN proc[q].puts : Sound(proc[q].puts[i], instances')
  BY SoundGrows DEF ParallelInv, CommandsSound
<1>6. Sound(c, instances')
  BY <1>1, BelowOrder DEF Sound
<1>7. \A i \in DOMAIN proc'[p].puts : proc'[p].puts[i] = c
  BY <1>2, <1>3
<1>8. kept' \cup refuted' \cup solved' \cup lost' \subseteq Nodes
  BY DEF ParallelInv, TypeOK
<1>9. proc'[p].cmd.kind = "cube" /\ proc'[p].cmd.extension =>
        \A i \in DOMAIN proc'[p].puts : proc'[p].puts[i].kind = "cube"
  BY <1>3, <1>7
<1>10. \A i \in DOMAIN proc'[p].puts : Sound(proc'[p].puts[i], instances')
  BY <1>6, <1>7
<1> QED BY <1>3, <1>4, <1>5, <1>8, <1>9, <1>10, RunStep

\* A problem that is cubed again is not at its cutoff: nothing has been chosen
\* below it yet, and the extended cutoff exceeds what is removed.
LEMMA ExtensionGoesOn ==
  ASSUME NEW cmd \in Commands, NEW present, Sound(cmd, present), cmd.extension,
         NEW removed \in Removed
  PROVE  ~CutoffReached(cmd, removed)
<1>1. cmd.node = cmd.orig /\ cmd.node \in Nodes
  BY DEF Sound, Commands
<1>2. Depth(cmd.node) - Depth(cmd.orig) = 0
  BY <1>1, NodeShape
<1>3. CutoffOf(cmd, removed) = removed + Extension /\ removed \in Nat
  BY ParallelAssumption DEF CutoffOf
<1> QED BY <1>2, <1>3, ParallelAssumption DEF CutoffReached

LEMMA CubeLeafStep ==
  ASSUME ParallelInv, NEW p \in Procs, CubeLeaf(p)
  PROVE  ParallelInv'
<1> DEFINE cmd == proc[p].cmd
           c == SolveCommand(cmd.node)
<1>1. /\ proc[p].pc = "run" /\ Goto(p, "put", <<c>>) /\ instances' = instances \cup {cmd.node}
      /\ args' = args /\ queue' = queue /\ unfinished' = unfinished /\ pills' = pills
      /\ kept' = kept /\ refuted' = refuted /\ solved' = solved /\ lost' = lost
  BY DEF CubeLeaf, Running
<1>2. PICK removed \in Removed : CutoffReached(cmd, removed)
  BY DEF CubeLeaf
<1>3. cmd \in Commands /\ cmd.node \in Nodes /\ Sound(cmd, instances)
  BY <1>1, RunningCommand
<1>4. c \in Commands /\ c.node = cmd.node /\ c.orig = c.node
  BY <1>3 DEF SolveCommand, Commands
<1>5. ~cmd.extension
  BY <1>2, <1>3, ExtensionGoesOn
<1>6. instances \subseteq instances' /\ c.node \in instances' /\ instances' \subseteq Nodes
  BY <1>1, <1>3, <1>4 DEF ParallelInv, TypeOK
<1> HIDE DEF c
<1> QED BY <1>1, <1>4, <1>5, <1>6, HandOnStep

LEMMA SolveUnknownStep ==
  ASSUME ParallelInv, NEW p \in Procs, SolveUnknown(p)
  PROVE  ParallelInv'
<1> DEFINE cmd == proc[p].cmd
           c == CubeCommand(cmd.node, cmd.node, args.cutoffv, TRUE)
<1>1. /\ proc[p].pc = "run" /\ Goto(p, "put", <<c>>) /\ instances' = instances
      /\ args' = args /\ queue' = queue /\ unfinished' = unfinished /\ pills' = pills
      /\ kept' = kept /\ refuted' = refuted /\ solved' = solved /\ lost' = lost
      /\ cmd.kind = "solve" /\ cmd.orig \in instances
  BY DEF SolveUnknown, Running, ReadsInstance
<1>2. cmd \in Commands /\ cmd.node \in Nodes /\ Sound(cmd, instances)
  BY <1>1, RunningCommand
<1>3. args.cutoffv \in Nat
  BY ParallelAssumption DEF ParallelInv, TypeOK
<1>4. c \in Commands /\ c.node = cmd.node /\ c.orig = c.node /\ c.kind = "cube"
  BY <1>2, <1>3 DEF CubeCommand, Commands
<1>5. c.node \in instances' /\ instances' \subseteq Nodes /\ instances \subseteq instances'
  BY <1>1, <1>2, <1>4 DEF Sound, ParallelInv, TypeOK
<1> HIDE DEF c
<1> QED BY <1>1, <1>4, <1>5, HandOnStep

LEMMA CubeSplitStep ==
  ASSUME ParallelInv, NEW p \in Procs, CubeSplit(p)
  PROVE  ParallelInv'
<1> DEFINE cmd == proc[p].cmd
<1>1. /\ proc[p].pc = "run" /\ cmd.orig \in instances /\ cmd.kind = "cube"
      /\ Depth(cmd.node) < MaxDepth[args.input]
      /\ args' = args /\ queue' = queue /\ unfinished' = unfinished /\ pills' = pills
      /\ instances' = instances /\ kept' = kept /\ refuted' = refuted /\ solved' = solved
      /\ lost' = lost
  BY DEF CubeSplit, Running, ReadsInstance
<1>2. PICK removed \in Removed :
        Goto(p, "put", [i \in 1 .. 2 |->
          CubeCommand(cmd.orig, Child(cmd.node, i), CutoffOf(cmd, removed), FALSE)])
  BY DEF CubeSplit
<1> DEFINE half(i) == CubeCommand(cmd.orig, Child(cmd.node, i), CutoffOf(cmd, removed), FALSE)
           puts == <<half(1), half(2)>>
<1>3. /\ cmd \in Commands /\ cmd.node \in Nodes /\ cmd.orig \in Nodes
      /\ Sound(cmd, instances) /\ Ended \subseteq Nodes
      /\ PlacesOK(queue, Ended, proc) /\ Partitioned(queue, Ended, proc, Cells)
  BY <1>1, RunningCommand
<1>4. args.input \in Inputs
  BY DEF ParallelInv, TypeOK
<1>5. \A d \in {1, 2} : Child(cmd.node, d) \in Nodes /\ Below(Child(cmd.node, d), cmd.orig)
  <2>1. ASSUME NEW d \in {1, 2}
        PROVE  Child(cmd.node, d) \in Nodes /\ Below(Child(cmd.node, d), cmd.orig)
    <3>1. Child(cmd.node, d) \in Nodes /\ Below(Child(cmd.node, d), cmd.node)
      BY <1>1, <1>3, <1>4, Children
    <3> QED BY <1>3, <3>1, BelowOrder DEF Sound
  <2> QED BY <2>1
<1>6. CutoffOf(cmd, removed) \in Nat
  BY <1>3, ParallelAssumption DEF CutoffOf, Commands
<1>7. \A d \in {1, 2} : /\ half(d) \in Commands /\ half(d).kind = "cube"
                        /\ Sound(half(d), instances) /\ half(d).node = Child(cmd.node, d)
  BY <1>1, <1>3, <1>5, <1>6 DEF CubeCommand, Commands, Sound
<1>8. /\ half(1) \in Commands /\ half(2) \in Commands
      /\ Sound(half(1), instances) /\ Sound(half(2), instances)
      /\ half(1).kind = "cube" /\ half(2).kind = "cube"
      /\ half(1).node = Child(cmd.node, 1) /\ half(2).node = Child(cmd.node, 2)
  BY <1>7
<1>9. [i \in 1 .. 2 |-> half(i)] = puts
  <2>1. 1 .. 2 = {1, 2}
    OBVIOUS
  <2> HIDE DEF half
  <2> QED BY <2>1
<1>10. Goto(p, "put", puts)
  BY <1>2, <1>9
<1> HIDE DEF half
<1>11. puts \in Seq(Commands) /\ DOMAIN puts = {1, 2} /\ puts[1] = half(1) /\ puts[2] = half(2)
  BY <1>8
<1>12. /\ OnlyMoves(p, proc, proc') /\ Fits(p, proc'[p])
       /\ proc'[p].pc = "put" /\ proc'[p].cmd = cmd /\ proc'[p].puts = puts
  <2>1. /\ "put" \in WorkerStates /\ "put" \in MainStates /\ "put" # "run" /\ TypeOK
        /\ ("put" # "put" => puts = <<>>)
    BY DEF WorkerStates, MainStates, ParallelInv
  <2> HIDE DEF puts
  <2> QED BY <1>10, <1>11, <2>1, GotoIs
<1>13. Partitioned(queue, Ended', proc', Cells)
  <2>1. Ended' = Ended
    BY <1>1 DEF Ended, closed
  <2>2. Cells \in SUBSET {m \in Nodes : Depth(m) = MaxDepth[args.input]}
    BY DEF Cells
  <2> DEFINE b == half(1)
             c == half(2)
  <2>3. /\ b.node = Child(cmd.node, 1) /\ c.node = Child(cmd.node, 2)
        /\ proc'[p].puts = <<b, c>>
    BY <1>8, <1>12
  <2> HIDE DEF b, c
  <2>4. Partitioned(queue, Ended, proc', Cells)
    BY <1>1, <1>3, <1>4, <1>12, <2>2, <2>3, SplitPartition
  <2> QED BY <2>1, <2>4
<1>14. /\ \A c \in queue : Sound(c, instances')
       /\ \A q \in Procs \ {p} :
            /\ proc[q].pc = "run" => Sound(proc[q].cmd, instances')
            /\ \A i \in DOMAIN proc[q].puts : Sound(proc[q].puts[i], instances')
  BY <1>1 DEF ParallelInv, CommandsSound
<1>15. \A i \in DOMAIN proc'[p].puts : /\ proc'[p].puts[i].kind = "cube"
                                       /\ Sound(proc'[p].puts[i], instances')
  BY <1>1, <1>8, <1>11, <1>12
<1>16. kept' \cup refuted' \cup solved' \cup lost' \subseteq Nodes /\ instances' \subseteq Nodes
  BY <1>1 DEF ParallelInv, TypeOK
<1> HIDE DEF puts, cmd
<1> QED BY <1>1, <1>12, <1>13, <1>14, <1>15, <1>16, RunStep

\* No other command is about the node of a command that runs, or below it.
LEMMA OthersElsewhere ==
  ASSUME ParallelInv, NEW p \in Procs, proc[p].pc = "run"
  PROVE  /\ \A c \in queue : ~Below(c.node, proc[p].cmd.node)
         /\ \A q \in Procs \ {p} :
              /\ proc[q].pc = "run" => ~Below(proc[q].cmd.node, proc[p].cmd.node)
              /\ \A i \in DOMAIN proc[q].puts :
                   ~Below(proc[q].puts[i].node, proc[p].cmd.node)
<1> DEFINE r == <<"run", p, proc[p].cmd.node>>
<1>1. Apart(Places)
  BY DEF ParallelInv
<1>2. \A s \in Places : s # r => ~Below(s[3], proc[p].cmd.node)
  <2>1. r \in Places
    BY DEF Places, PlacesOf, ProcsPlaces, ProcPlaces, RunPlaces
  <2> QED BY <1>1, <2>1 DEF Apart, Comparable
<1>3. ASSUME NEW c \in queue  PROVE ~Below(c.node, proc[p].cmd.node)
  <2>1. <<"queue", c, c.node>> \in Places
    BY DEF Places, PlacesOf, QueuePlaces
  <2> QED BY <1>2, <2>1
<1>4. ASSUME NEW q \in Procs \ {p}, proc[q].pc = "run"
      PROVE  ~Below(proc[q].cmd.node, proc[p].cmd.node)
  <2>1. <<"run", q, proc[q].cmd.node>> \in Places
    BY <1>4 DEF Places, PlacesOf, ProcsPlaces, ProcPlaces, RunPlaces
  <2> QED BY <1>2, <2>1
<1>5. ASSUME NEW q \in Procs \ {p}, NEW i \in DOMAIN proc[q].puts
      PROVE  ~Below(proc[q].puts[i].node, proc[p].cmd.node)
  <2> DEFINE puts == proc[q].puts
             j == Len(puts) - i
  <2>1. puts \in Seq(Commands)
    BY DEF ParallelInv, TypeOK, States
  <2>2. j \in 0 .. (Len(puts) - 1) /\ Len(puts) - j = i
    BY <2>1, LenProperties
  <2>3. <<"put", <<q, j>>, puts[Len(puts) - j].node>> \in PutPlaces(q, proc[q])
    BY <2>2 DEF PutPlaces
  <2> DEFINE s == <<"put", <<q, j>>, puts[Len(puts) - j].node>>
  <2>4. s[3] = puts[i].node /\ s # r
    BY <2>2
  <2> HIDE DEF s, j
  <2>5. s \in Places
    BY <2>3 DEF Places, PlacesOf, ProcsPlaces, ProcPlaces, s
  <2> QED BY <1>2, <2>4, <2>5
<1> QED BY <1>3, <1>4, <1>5

LEMMA SolveUnsatStep ==
  ASSUME ParallelInv, NEW p \in Procs, SolveUnsat(p)
  PROVE  ParallelInv'
<1> DEFINE n == proc[p].cmd.node
<1>1. /\ proc[p].pc = "run" /\ Goto(p, "put", <<>>)
      /\ instances' = instances \ {n} /\ solved' = solved \cup {n}
      /\ args' = args /\ queue' = queue /\ unfinished' = unfinished /\ pills' = pills
      /\ kept' = kept /\ refuted' = refuted /\ lost' = lost
  BY DEF SolveUnsat, Running
<1>2. /\ n \in Nodes /\ Ended \subseteq Nodes
      /\ PlacesOK(queue, Ended, proc) /\ Partitioned(queue, Ended, proc, Cells)
  BY <1>1, RunningCommand
<1>3. /\ OnlyMoves(p, proc, proc') /\ Fits(p, proc'[p])
      /\ proc'[p].pc = "put" /\ proc'[p].cmd = proc[p].cmd /\ proc'[p].puts = <<>>
  <2>1. /\ "put" \in WorkerStates /\ "put" \in MainStates /\ "put" # "run" /\ TypeOK
        /\ <<>> \in Seq(Commands)
    BY DEF WorkerStates, MainStates, ParallelInv
  <2> QED BY <1>1, <2>1, GotoIs
<1>4. Partitioned(queue, Ended', proc', Cells)
  <2>1. Ended' = Ended \cup {n}
    BY <1>1 DEF Ended, closed
  <2>2. Partitioned(queue, Ended \cup {n}, proc', Cells)
    BY <1>1, <1>2, <1>3, EndPartition
  <2> QED BY <2>1, <2>2
<1>5. \A c : Sound(c, instances) /\ ~Below(c.node, n) => Sound(c, instances')
  BY <1>1 DEF Sound
<1>6. /\ \A c \in queue : Sound(c, instances')
      /\ \A q \in Procs \ {p} :
           /\ proc[q].pc = "run" => Sound(proc[q].cmd, instances')
           /\ \A i \in DOMAIN proc[q].puts : Sound(proc[q].puts[i], instances')
  <2> HIDE DEF n
  <2>1. /\ \A c \in queue : ~Below(c.node, n)
        /\ \A q \in Procs \ {p} :
             /\ proc[q].pc = "run" => ~Below(proc[q].cmd.node, n)
             /\ \A i \in DOMAIN proc[q].puts : ~Below(proc[q].puts[i].node, n)
    BY <1>1, OthersElsewhere DEF n
  <2> QED BY <1>5, <2>1 DEF ParallelInv, CommandsSound
<1>7. kept' \cup refuted' \cup solved' \cup lost' \subseteq Nodes /\ instances' \subseteq Nodes
  BY <1>1, <1>2 DEF ParallelInv, TypeOK
<1>8. DOMAIN proc'[p].puts = {}
  BY <1>3
<1> HIDE DEF n
<1> QED BY <1>1, <1>3, <1>4, <1>6, <1>7, <1>8, RunStep

-----------------------------------------------------------------------------
(* The start.                                                              *)

LEMMA SetToSeqIs ==
  ASSUME NEW S, IsFiniteSet(S)
  PROVE  /\ SetToSeq(S) \in Seq(S)
         /\ \A a, b \in DOMAIN SetToSeq(S) : SetToSeq(S)[a] = SetToSeq(S)[b] => a = b
         /\ \A x \in S : \E a \in DOMAIN SetToSeq(S) : SetToSeq(S)[a] = x
<1> DEFINE n == Cardinality(S)
           s == SetToSeq(S)
<1>1. n \in Nat /\ Bijection(1 .. n, S) # {}
  BY FS_CardinalityType DEF ExistsBijection
<1>2. \E f \in [1 .. n -> S] : IsInjective(f)
  BY <1>1 DEF Bijection, Injection
<1>3. s \in [1 .. n -> S] /\ IsInjective(s)
  BY <1>2 DEF SetToSeq
<1>4. s \in Injection(1 .. n, S)
  BY <1>3 DEF Injection
<1>5. Cardinality(1 .. n) = n
  BY <1>1, FS_Interval
<1> HIDE DEF n, s
<1>6. s \in Surjection(1 .. n, S)
  BY <1>4, <1>5, FS_Injection DEF n
<1>7. \A x \in S : \E a \in 1 .. n : s[a] = x
  BY <1>6 DEF Surjection
<1>8. s \in Seq(S) /\ DOMAIN s = 1 .. n
  BY <1>1, <1>3
<1> QED BY <1>3, <1>7, <1>8 DEF IsInjective, s

LEMMA RootIs ==
  ASSUME NEW r \in Roots, Inputs # {}
  PROVE  /\ Root(r) \in Nodes
         /\ \A n \in Nodes : n[1] = r => Below(n, Root(r))
         /\ \A s \in Roots : Comparable(Root(r), Root(s)) => r = s
<1>1. <<>> \in Paths
  <2>1. <<>> \in Seq({1, 2}) /\ Len(<<>>) = 0
    OBVIOUS
  <2>2. \E i \in Inputs : Len(<<>>) <= MaxDepth[i]
    BY <2>1, MaxDepthType
  <2> QED BY <2>1, <2>2, PathsAre
<1>2. Root(r) \in Nodes /\ Root(r)[1] = r /\ Root(r)[2] = <<>>
  BY <1>1 DEF Root, Nodes
<1>3. ASSUME NEW n \in Nodes, n[1] = r  PROVE Below(n, Root(r))
  <2>1. Len(Root(r)[2]) = 0 /\ Len(n[2]) \in Nat
    BY <1>2, NodeShape
  <2> QED BY <1>2, <1>3, <2>1, BelowIs
<1>4. \A s \in Roots : Comparable(Root(r), Root(s)) => r = s
  BY DEF Comparable, Below, Root
<1> QED BY <1>2, <1>3, <1>4

LEMMA GivenIs ==
  ASSUME args.input \in Inputs
  PROVE  /\ Given \subseteq Roots /\ IsFiniteSet(Given)
         /\ args.input # "list" => \E r \in Roots : Given = {r}
<1>1. CASE args.input = "list"
  BY <1>1, ParallelAssumption DEF Given
<1>2. CASE args.input # "list"
  <2>1. Roots # {}
    BY <1>2, ParallelAssumption
  <2>2. (CHOOSE r \in Roots : TRUE) \in Roots /\ Given = {CHOOSE r \in Roots : TRUE}
    BY <1>2, <2>1 DEF Given
  <2> QED BY <1>2, <2>2, FS_Singleton
<1> QED BY <1>1, <1>2

\* What every start has in common.
LEMMA InitRest ==
  ASSUME Init, Fits("main", proc["main"]),
         \A i \in DOMAIN proc["main"].puts : Sound(proc["main"].puts[i], instances),
         proc["main"].pc = "run" => Sound(proc["main"].cmd, instances),
         ~proc["main"].cmd.extension, proc["main"].pc \in {"run", "put"},
         Apart(ProcPlaces("main", proc["main"])),
         Covers(ProcPlaces("main", proc["main"]), Cells)
  PROVE  ParallelInv
<1>1. /\ args \in [input : Inputs, cutoff : Cutoffs, cutoffv : CutoffValues,
                   after : SolveAfterCube]
      /\ instances = {Root(r) : r \in Given}
      /\ queue = {} /\ unfinished = 0 /\ pills = 0
      /\ kept = {} /\ refuted = {} /\ solved = {} /\ lost = {}
      /\ \A w \in Workers : proc[w] = Idle
      /\ proc = [q \in Procs |-> proc[q]]
  <2>1. proc = [q \in Procs |-> proc[q]]
    BY DEF Init
  <2>2. ASSUME NEW w \in Workers  PROVE proc[w] = Idle
    BY ProcsAre DEF Init, Procs
  <2> QED BY <2>1, <2>2 DEF Init
<1>2. Idle \in States /\ Idle.pc = "idle" /\ Idle.puts = <<>>
  BY DEF Idle, At, States, WorkerStates
<1>3. proc \in [Procs -> States]
  <2>1. \A q \in Procs : proc[q] \in States
    BY <1>1, <1>2, ProcsAre DEF Fits
  <2> QED BY <1>1, <2>1
<1>4. TypeOK
  <2>1. instances \subseteq Nodes
    BY <1>1, GivenIs, RootIs
  <2>2. proc["main"].pc \in MainStates /\ \A w \in Workers : proc[w].pc \in WorkerStates
    BY <1>1, <1>2, ProcsAre DEF Fits, WorkerStates
  <2> QED BY <1>1, <1>3, <2>1, <2>2, FS_EmptySet DEF TypeOK
<1>5. StateShape
  BY <1>1, <1>2, ProcsAre DEF StateShape, Fits
<1>6. CommandsSound
  <2>1. DOMAIN Idle.puts = {}
    BY <1>2
  <2> QED BY <1>1, <1>2, <2>1, ProcsAre DEF CommandsSound
<1>7. SplitFirst
  <2>1. DOMAIN Idle.puts = {}
    BY <1>2
  <2> QED BY <1>1, <2>1, ProcsAre DEF SplitFirst
<1>8. Places = ProcPlaces("main", proc["main"])
  <2>1. QueuePlaces(queue) = {} /\ EndPlaces(Ended) = {}
    BY <1>1 DEF QueuePlaces, EndPlaces, Ended, closed
  <2>2. \A w \in Workers : ProcPlaces(w, proc[w]) = {}
    BY <1>1, <1>2, HeldPlaces
  <2>3. ProcsPlaces(proc) = ProcPlaces("main", proc["main"])
    BY <2>2, ProcsAre DEF ProcsPlaces
  <2> QED BY <2>1, <2>3 DEF Places, PlacesOf
<1>9. TasksCounted
  <2>1. Holding = {} /\ ~Stopping
    BY <1>1, <1>2 DEF Holding, HoldingIn, Stopping
  <2> QED BY <1>1, <2>1, FS_EmptySet DEF TasksCounted
<1> QED BY <1>4, <1>5, <1>6, <1>7, <1>8, <1>9 DEF ParallelInv

\* main starts on the one given instance.
LEMMA InitCnf ==
  ASSUME Init, args.input # "list"
  PROVE  ParallelInv
<1>1. args.input \in Inputs /\ args.input = "cnf" /\ args.cutoffv \in Nat
  BY ParallelAssumption DEF Init
<1>2. PICK r \in Roots : Given = {r}
  BY <1>1, GivenIs
<1> DEFINE top == Root(CHOOSE q \in Given : TRUE)
           st == At("run", CubeCommand(top, top, args.cutoffv, FALSE), <<>>)
           main == "main"
<1>3. top = Root(r) /\ top \in Nodes /\ instances = {top}
  <2>1. (CHOOSE q \in Given : TRUE) = r
    BY <1>2
  <2>2. Root(r) \in Nodes
    BY <1>1, RootIs
  <2> QED BY <1>2, <2>1, <2>2 DEF Init
<1>4. proc[main] = st
  <2>1. main \in Procs /\ main \notin Workers
    BY ProcsAre
  <2> HIDE DEF main
  <2> QED BY <1>1, <2>1 DEF Init
<1> HIDE DEF top
<1>5. /\ st \in States /\ st.pc = "run" /\ st.puts = <<>> /\ st.cmd \in Commands
      /\ ~st.cmd.extension /\ st.cmd.node = top /\ st.cmd.orig = top /\ st.cmd.kind = "cube"
  BY <1>1, <1>3 DEF At, CubeCommand, States, Commands, WorkerStates
<1> HIDE DEF st
<1>6. Fits(main, st)
  BY <1>5, ProcsAre DEF Fits, MainStates
<1>7. Sound(st.cmd, instances)
  BY <1>3, <1>5, BelowOrder DEF Sound
<1>8. ProcPlaces(main, st) = {<<"run", main, top>>}
  BY <1>5, HeldPlaces
<1>9. Apart(ProcPlaces(main, st))
  BY <1>8 DEF Apart
<1>10. Covers(ProcPlaces(main, st), Cells)
  <2> DEFINE x == <<"run", main, top>>
  <2>1. \A cell \in Cells : Below(cell, top)
    BY <1>1, <1>2, <1>3, RootIs DEF Cells
  <2>2. x \in ProcPlaces(main, st) /\ x[3] = top
    BY <1>8
  <2> HIDE DEF x, main
  <2> QED BY <2>1, <2>2 DEF Covers
<1>11. \A i \in DOMAIN st.puts : Sound(st.puts[i], instances)
  BY <1>5
<1> QED BY <1>4, <1>5, <1>6, <1>7, <1>9, <1>10, <1>11, InitRest

\* main puts a command for every given instance.
LEMMA InitList ==
  ASSUME Init, args.input = "list"
  PROVE  ParallelInv
<1> DEFINE start == {SolveCommand(Root(r)) : r \in Given}
           puts == SetToSeq(start)
           st == At("put", NoCommand, puts)
           main == "main"
<1>1. args.input \in Inputs /\ instances = {Root(r) : r \in Given}
  BY DEF Init
<1>2. Given \subseteq Roots /\ IsFiniteSet(Given)
  BY <1>1, GivenIs
<1>3. \A r \in Given : /\ SolveCommand(Root(r)) \in Commands
                       /\ SolveCommand(Root(r)).node = Root(r)
                       /\ Sound(SolveCommand(Root(r)), instances)
  BY <1>1, <1>2, RootIs, BelowOrder DEF SolveCommand, Commands, Sound
<1>4. IsFiniteSet(start)
  <2> DEFINE f == [r \in Given |-> SolveCommand(Root(r))]
  <2>1. f \in Surjection(Given, start)
    BY DEF Surjection
  <2> QED BY <1>2, <2>1, FS_Surjection
<1>5. proc[main] = st
  <2>1. main \in Procs /\ main \notin Workers /\ args.input # "cnf"
    BY ProcsAre
  <2> HIDE DEF main
  <2> QED BY <2>1 DEF Init
<1>6. /\ puts \in Seq(start)
      /\ \A a, b \in DOMAIN puts : puts[a] = puts[b] => a = b
      /\ \A c \in start : \E a \in DOMAIN puts : puts[a] = c
  <2> HIDE DEF start
  <2> QED BY <1>4, SetToSeqIs
<1> HIDE DEF puts
<1>7. DOMAIN puts = 1 .. Len(puts) /\ Len(puts) \in Nat /\ \A a \in DOMAIN puts : puts[a] \in start
  BY <1>6, LenProperties, ElementOfSeq
<1>8. \A a \in DOMAIN puts : \E r \in Given : puts[a] = SolveCommand(Root(r))
  BY <1>7
<1>9. puts \in Seq(Commands)
  <2>1. start \subseteq Commands
    BY <1>3
  <2> HIDE DEF start
  <2> QED BY <1>6, <1>7, <2>1
<1>10. /\ st \in States /\ st.pc = "put" /\ st.puts = puts /\ ~st.cmd.extension
  BY <1>9 DEF At, States, NoCommand, SolveCommand, WorkerStates
<1> HIDE DEF st, start
<1>11. Fits(main, st)
  BY <1>10, ProcsAre DEF Fits, MainStates
<1>12. \A i \in DOMAIN st.puts : Sound(st.puts[i], instances)
  BY <1>3, <1>8, <1>10
<1>13. ProcPlaces(main, st) = {<<"put", <<main, j>>, puts[Len(puts) - j].node>>
                                : j \in 0 .. (Len(puts) - 1)}
  BY <1>10 DEF ProcPlaces, RunPlaces, PutPlaces
<1>14. Apart(ProcPlaces(main, st))
  <2>1. ASSUME NEW i \in 0 .. (Len(puts) - 1), NEW j \in 0 .. (Len(puts) - 1),
               Comparable(puts[Len(puts) - i].node, puts[Len(puts) - j].node)
        PROVE  i = j
    <3> DEFINE a == Len(puts) - i
               b == Len(puts) - j
    <3>1. a \in DOMAIN puts /\ b \in DOMAIN puts /\ (a = b => i = j)
      BY <1>7
    <3> HIDE DEF a, b
    <3>2. PICK r \in Given : puts[a] = SolveCommand(Root(r))
      BY <1>8, <3>1
    <3>3. PICK s \in Given : puts[b] = SolveCommand(Root(s))
      BY <1>8, <3>1
    <3>4. Comparable(Root(r), Root(s))
      BY <1>3, <2>1, <3>2, <3>3 DEF a, b
    <3>5. r = s
      BY <1>1, <1>2, <3>4, RootIs
    <3> QED BY <1>6, <3>1, <3>2, <3>3, <3>5
  <2>2. ASSUME NEW x \in ProcPlaces(main, st), NEW y \in ProcPlaces(main, st),
               Comparable(x[3], y[3])
        PROVE  x = y
    <3>1. PICK i \in 0 .. (Len(puts) - 1) :
            x = <<"put", <<main, i>>, puts[Len(puts) - i].node>>
      BY <1>13
    <3>2. PICK j \in 0 .. (Len(puts) - 1) :
            y = <<"put", <<main, j>>, puts[Len(puts) - j].node>>
      BY <1>13
    <3> QED BY <2>1, <2>2, <3>1, <3>2
  <2> QED BY <2>2 DEF Apart
<1>15. Covers(ProcPlaces(main, st), Cells)
  <2>1. ASSUME NEW cell \in Cells  PROVE \E x \in ProcPlaces(main, st) : Below(cell, x[3])
    <3>1. cell \in Nodes /\ cell[1] \in Given
      BY DEF Cells
    <3>2. PICK a \in DOMAIN puts : puts[a] = SolveCommand(Root(cell[1]))
      BY <1>6, <3>1 DEF start
    <3> DEFINE j == Len(puts) - a
               x == <<"put", <<main, j>>, puts[Len(puts) - j].node>>
    <3>3. j \in 0 .. (Len(puts) - 1) /\ Len(puts) - j = a
      BY <1>7, <3>2
    <3>4. x[3] = Root(cell[1])
      BY <1>3, <3>1, <3>2, <3>3
    <3>5. Below(cell, Root(cell[1]))
      BY <1>1, <1>2, <3>1, RootIs
    <3> QED BY <1>13, <3>3, <3>4, <3>5
  <2> QED BY <2>1 DEF Covers
<1> QED BY <1>5, <1>10, <1>11, <1>12, <1>14, <1>15, InitRest


-----------------------------------------------------------------------------
(* The invariant.                                                          *)

LEMMA InitInv == Init => ParallelInv
BY InitCnf, InitList

LEMMA MainInv ==
  ASSUME ParallelInv, Main  PROVE ParallelInv'
<1> DEFINE p == "main"
<1>1. p \in Procs
  BY ProcsAre
<1>2. CASE StartJoin
  BY <1>2, StartJoinStep
<1>3. CASE Join
  BY <1>3, JoinStep
<1>4. CASE JoinProcesses
  BY <1>4, JoinProcessesStep
<1>5. CASE Step(p)
  <2> HIDE DEF p
  <2> QED BY <1>1, <1>5, PutStep, CubeRefutedStep, CubeLeafStep, CubeKeepStep, CubeSplitStep,
             CubeFailsStep DEF Step
<1> QED BY <1>2, <1>3, <1>4, <1>5 DEF Main

LEMMA WorkInv ==
  ASSUME ParallelInv, NEW w \in Workers, Work(w)  PROVE ParallelInv'
<1>1. w \in Procs
  BY DEF Procs
<1>2. CASE Get(w) \/ TaskDone(w) \/ TakePill(w)
  BY <1>2, GetStep, TaskDoneStep, TakePillStep
<1>3. CASE SolveUnsat(w) \/ SolveUnknown(w) \/ SolveFails(w)
  BY <1>1, <1>3, SolveUnsatStep, SolveUnknownStep, SolveFailsStep
<1>4. CASE Step(w)
  BY <1>1, <1>4, PutStep, CubeRefutedStep, CubeLeafStep, CubeKeepStep, CubeSplitStep,
     CubeFailsStep DEF Step
<1> QED BY <1>2, <1>3, <1>4 DEF Work

\* A step that changes nothing.
LEMMA StutterInv ==
  ASSUME ParallelInv, UNCHANGED vars  PROVE ParallelInv'
<1>1. /\ args' = args /\ proc' = proc /\ queue' = queue /\ unfinished' = unfinished
      /\ pills' = pills /\ instances' = instances /\ kept' = kept /\ refuted' = refuted
      /\ solved' = solved /\ lost' = lost
  BY DEF vars
<1>2. TypeOK' /\ StateShape' /\ CommandsSound' /\ SplitFirst'
  BY <1>1 DEF ParallelInv, TypeOK, StateShape, CommandsSound, SplitFirst
<1>3. Apart(Places)' /\ Covers(Places, Cells)'
  <2>1. Ended' = Ended
    BY <1>1 DEF Ended, closed
  <2>2. Partitioned(queue', Ended', proc', Cells)
    BY <1>1, <2>1 DEF ParallelInv, Partitioned, Places
  <2> QED BY <1>1, <2>2, PlacesStep
<1>4. TasksCounted'
  BY <1>1 DEF ParallelInv, TasksCounted, Stopping, Holding, HoldingIn
<1> QED BY <1>2, <1>3, <1>4 DEF ParallelInv

LEMMA NextInv == ParallelInv /\ [Next]_vars => ParallelInv'
<1> SUFFICES ASSUME ParallelInv, [Next]_vars  PROVE ParallelInv'
  OBVIOUS
<1>1. CASE Main
  BY <1>1, MainInv
<1>2. ASSUME NEW w \in Workers, Work(w)  PROVE ParallelInv'
  BY <1>2, WorkInv
<1>3. CASE Settled \/ UNCHANGED vars
  BY <1>3, StutterInv DEF Settled
<1> QED BY <1>1, <1>2, <1>3 DEF Next

\* Every subproblem is at one place, they leave no assignment out, tasks are
\* counted and commands have their instance, from the start and after each
\* step of main or a worker.
THEOREM ParallelSafe == Spec => []ParallelInv
BY InitInv, NextInv, PTL DEF Spec


-----------------------------------------------------------------------------
(* The properties.                                                         *)

\* What the places of a set of processes say about what is pending.
LEMMA PendingIs ==
  ASSUME TypeOK, StateShape, NEW n
  PROVE  n \in Pending <=> \E x \in QueuePlaces(queue) \cup ProcsPlaces(proc) : x[3] = n
<1>1. ASSUME NEW p \in Procs
      PROVE  /\ proc[p].puts \in Seq(Commands) /\ Len(proc[p].puts) \in Nat
             /\ DOMAIN proc[p].puts = 1 .. Len(proc[p].puts)
             /\ p \in Busy \/ DOMAIN proc[p].puts = {}
  <2>1. proc[p].puts \in Seq(Commands)
    BY DEF TypeOK, States
  <2>2. p \notin Busy => proc[p].puts = <<>>
    BY DEF Busy, StateShape
  <2> QED BY <2>1, <2>2, LenProperties
<1>2. ASSUME NEW p \in Procs
      PROVE  /\ \A i \in DOMAIN proc[p].puts :
                  \E x \in PutPlaces(p, proc[p]) : x[3] = proc[p].puts[i].node
             /\ \A x \in PutPlaces(p, proc[p]) :
                  \E i \in DOMAIN proc[p].puts : x[3] = proc[p].puts[i].node
  <2> DEFINE m == Len(proc[p].puts)
             place(j) == <<"put", <<p, j>>, proc[p].puts[m - j].node>>
  <2>1. \A i \in DOMAIN proc[p].puts : m - i \in 0 .. (m - 1) /\ m - (m - i) = i
    BY <1>1
  <2>2. \A j \in 0 .. (m - 1) : m - j \in DOMAIN proc[p].puts
    BY <1>1
  <2>3. PutPlaces(p, proc[p]) = {place(j) : j \in 0 .. (m - 1)}
    BY DEF PutPlaces
  <2>4. ASSUME NEW i \in DOMAIN proc[p].puts
        PROVE  \E x \in PutPlaces(p, proc[p]) : x[3] = proc[p].puts[i].node
    <3>1. place(m - i) \in PutPlaces(p, proc[p])
      BY <2>1, <2>3
    <3>2. place(m - i)[3] = proc[p].puts[i].node
      BY <2>1
    <3> HIDE DEF place
    <3> QED BY <3>1, <3>2
  <2>5. ASSUME NEW x \in PutPlaces(p, proc[p])
        PROVE  \E i \in DOMAIN proc[p].puts : x[3] = proc[p].puts[i].node
    <3>1. PICK j \in 0 .. (m - 1) : x = place(j)
      BY <2>3
    <3>2. x[3] = proc[p].puts[m - j].node
      BY <3>1
    <3> QED BY <2>2, <3>2
  <2> QED BY <2>4, <2>5
<1>3. ASSUME n \in Pending
      PROVE  \E x \in QueuePlaces(queue) \cup ProcsPlaces(proc) : x[3] = n
  <2>1. CASE n \in {cmd.node : cmd \in queue}
    <3>1. PICK cmd \in queue : n = cmd.node
      BY <2>1
    <3> DEFINE x == <<"queue", cmd, cmd.node>>
    <3>2. x \in QueuePlaces(queue) /\ x[3] = n
      BY <3>1 DEF QueuePlaces
    <3> HIDE DEF x
    <3> QED BY <3>2
  <2>2. CASE n \in {proc[p].cmd.node : p \in {q \in Procs : proc[q].pc = "run"}}
    <3>1. PICK p \in Procs : proc[p].pc = "run" /\ n = proc[p].cmd.node
      BY <2>2
    <3> DEFINE x == <<"run", p, proc[p].cmd.node>>
    <3>2. x \in ProcsPlaces(proc) /\ x[3] = n
      BY <3>1 DEF ProcsPlaces, ProcPlaces, RunPlaces
    <3> HIDE DEF x
    <3> QED BY <3>2
  <2>3. CASE n \in UNION {{proc[p].puts[i].node : i \in DOMAIN proc[p].puts} : p \in Busy}
    <3>1. PICK p \in Busy : n \in {proc[p].puts[i].node : i \in DOMAIN proc[p].puts}
      BY <2>3
    <3>2. p \in Procs
      BY DEF Busy
    <3>3. PICK i \in DOMAIN proc[p].puts : n = proc[p].puts[i].node
      BY <3>1
    <3>4. PICK x \in PutPlaces(p, proc[p]) : x[3] = n
      BY <1>2, <3>2, <3>3
    <3>5. x \in ProcsPlaces(proc)
      BY <3>2, <3>4 DEF ProcsPlaces, ProcPlaces
    <3> QED BY <3>4, <3>5
  <2> QED BY <1>3, <2>1, <2>2, <2>3 DEF Pending
<1>4. ASSUME NEW x \in QueuePlaces(queue) \cup ProcsPlaces(proc)  PROVE x[3] \in Pending
  <2>1. CASE x \in QueuePlaces(queue)
    BY <2>1 DEF QueuePlaces, Pending
  <2>2. CASE x \in ProcsPlaces(proc)
    <3>1. PICK p \in Procs : x \in ProcPlaces(p, proc[p])
      BY <2>2 DEF ProcsPlaces
    <3>2. CASE x \in RunPlaces(p, proc[p])
      <4>1. proc[p].pc = "run" /\ x[3] = proc[p].cmd.node
        BY <3>2 DEF RunPlaces
      <4> QED BY <4>1 DEF Pending
    <3>3. CASE x \in PutPlaces(p, proc[p])
      <4>1. PICK i \in DOMAIN proc[p].puts : x[3] = proc[p].puts[i].node
        BY <1>2, <3>3
      <4>2. p \in Busy
        BY <1>1
      <4> QED BY <4>1, <4>2 DEF Pending
    <3> QED BY <3>1, <3>2, <3>3 DEF ProcPlaces
  <2> QED BY <2>1, <2>2
<1> QED BY <1>3, <1>4

\* What is somewhere is pending or has ended.
LEMMA PlacesHold ==
  ASSUME TypeOK, StateShape, NEW n
  PROVE  n \in Pending \cup closed \cup kept \cup lost <=> \E x \in Places : x[3] = n
<1>1. n \in Ended => \E x \in EndPlaces(Ended) : x[3] = n
  <2> DEFINE x == <<"end", n, n>>
  <2>1. n \in Ended => x \in EndPlaces(Ended)
    BY DEF EndPlaces
  <2>2. x[3] = n
    OBVIOUS
  <2> HIDE DEF x
  <2> QED BY <2>1, <2>2
<1>2. \A x \in EndPlaces(Ended) : x[3] \in Ended
  BY DEF EndPlaces
<1> QED BY <1>1, <1>2, PendingIs DEF Places, PlacesOf, Ended

LEMMA OneOwner ==
  ASSUME ParallelInv, NEW cell \in Cells
  PROVE  \E n : {m \in Pending \cup closed \cup kept \cup lost : Below(cell, m)} = {n}
<1>1. /\ TypeOK /\ StateShape /\ Apart(Places)
      /\ \E x \in Places : Below(cell, x[3])
  BY DEF ParallelInv, Covers
<1>2. cell \in Nodes /\ \A x \in Places : x[3] \in Nodes
  BY <1>1, PlacesFromInv, PlacesTyped DEF Cells, Places
<1>3. PICK x \in Places : Below(cell, x[3])
  BY <1>1
<1>4. ASSUME NEW m \in Pending \cup closed \cup kept \cup lost, Below(cell, m)
      PROVE  m = x[3]
  <2>1. PICK y \in Places : y[3] = m
    BY <1>1, <1>4, PlacesHold
  <2>2. Comparable(x[3], y[3])
    BY <1>2, <1>3, <1>4, <2>1, BelowOrder
  <2> QED BY <1>1, <2>1, <2>2 DEF Apart
<1>5. x[3] \in Pending \cup closed \cup kept \cup lost
  BY <1>1, PlacesHold
<1> QED BY <1>3, <1>4, <1>5

\* Every assignment below a given instance lies in exactly one subproblem that
\* is pending, closed, kept or lost, however many workers take commands and put
\* new ones: CubeSplit, CubeLeaf and SolveUnknown neither drop nor repeat any.
THEOREM PartitionHolds == Spec => []Partition
<1>1. ParallelInv => Partition
  <2> SUFFICES ASSUME ParallelInv, NEW cell \in Cells
               PROVE  Cardinality({n \in Pending \cup closed \cup kept \cup lost :
                                     Below(cell, n)}) = 1
    BY DEF Partition
  <2> DEFINE owners == {n \in Pending \cup closed \cup kept \cup lost : Below(cell, n)}
  <2>1. PICK n : owners = {n}
    BY OneOwner
  <2> HIDE DEF owners
  <2>2. Cardinality(owners) = 1
    BY <2>1, FS_Singleton
  <2> QED BY <2>2 DEF owners
<1> QED BY <1>1, ParallelSafe, PTL

\* queue.join returns in main only when no subproblem is queued, in the hands
\* of a worker or about to be put, and no worker has died.
THEOREM JoinWaitsHolds == Spec => []JoinWaits
<1>1. ParallelInv => JoinWaits
  <2> SUFFICES ASSUME ParallelInv, proc["main"].pc \in {"stop", "done"}
               PROVE  Pending = {} /\ \A w \in Workers : proc[w].pc # "dead"
    BY DEF JoinWaits
  <2>1. TypeOK /\ StateShape /\ queue = {} /\ Holding = {}
    BY DEF ParallelInv, TasksCounted, Stopping
  <2>2. \A w \in Workers : proc[w].pc \notin {"run", "put", "dead"}
    BY <2>1 DEF Holding, HoldingIn
  <2>3. \A p \in Procs : proc[p].pc \notin {"run", "put"}
    BY <2>2, ProcsAre
  <2>4. QueuePlaces(queue) = {}
    BY <2>1 DEF QueuePlaces
  <2>5. ASSUME NEW p \in Procs  PROVE ProcPlaces(p, proc[p]) = {}
    <3>1. proc[p].pc # "run" /\ proc[p].puts = <<>> /\ proc[p] \in States
      BY <2>1, <2>3 DEF StateShape, TypeOK
    <3> QED BY <3>1, HeldPlaces
  <2>6. ProcsPlaces(proc) = {}
    BY <2>5 DEF ProcsPlaces
  <2>7. Pending = {}
    BY <2>1, <2>4, <2>6, PendingIs
  <2> QED BY <2>2, <2>7
<1> QED BY <1>1, ParallelSafe, PTL

\* No worker ever opens an instance file that another has removed: the file a
\* queued or running command reads is there when it is read.
THEOREM InstancePresentHolds == Spec => []InstancePresent
<1>1. ParallelInv => InstancePresent
  BY DEF ParallelInv, CommandsSound, Sound, InstancePresent
<1> QED BY <1>1, ParallelSafe, PTL

\* A process changes its command only when it has nothing left to put.
LEMMA GotoKeepsCommand ==
  ASSUME TypeOK, NEW p \in Procs, NEW q \in Procs, NEW pc, NEW puts, Goto(q, pc, puts)
  PROVE  proc'[p].cmd = proc[p].cmd
<1>1. proc \in [Procs -> States] /\ proc[p] \in States /\ proc[q] \in States
  BY DEF TypeOK
<1> DEFINE new == [[proc[q] EXCEPT !.pc = pc] EXCEPT !.puts = puts]
<1>2. new = [pc |-> pc, cmd |-> proc[q].cmd, puts |-> puts]
  BY <1>1, UpdateIs, Zenon
<1>3. new.cmd = proc[q].cmd
  BY <1>2
<1>4. proc' = [proc EXCEPT ![q] = new]
  BY <1>1 DEF Goto
<1> HIDE DEF new
<1> QED BY <1>1, <1>3, <1>4

LEMMA ReplacedKeepsCommand ==
  ASSUME TypeOK, NEW p \in Procs, NEW q \in Procs, NEW st, st.puts = <<>>,
         proc' = [proc EXCEPT ![q] = st]
  PROVE  proc'[p].cmd = proc[p].cmd \/ proc'[p].puts = <<>>
BY DEF TypeOK

LEMMA CommandChanges ==
  ASSUME TypeOK, Next, NEW p \in Procs
  PROVE  proc'[p].cmd = proc[p].cmd \/ proc'[p].puts = <<>>
<1>1. ASSUME NEW q \in Procs, Step(q)
      PROVE  \E pc, puts : Goto(q, pc, puts)
  BY <1>1 DEF Step, Put, CubeRefuted, CubeLeaf, CubeKeep, CubeSplit, CubeFails
<1>2. CASE Main
  <2> DEFINE main == "main"
  <2>1. main \in Procs
    BY ProcsAre
  <2>2. CASE StartJoin \/ Join \/ JoinProcesses
    <3>1. \E pc, puts : Goto(main, pc, puts)
      BY <2>2 DEF StartJoin, Join, JoinProcesses
    <3> HIDE DEF main
    <3> QED BY <2>1, <3>1, GotoKeepsCommand
  <2>3. CASE Step(main)
    <3> HIDE DEF main
    <3> QED BY <1>1, <2>1, <2>3, GotoKeepsCommand
  <2> QED BY <1>2, <2>2, <2>3 DEF Main
<1>3. ASSUME NEW w \in Workers, Work(w)
      PROVE  proc'[p].cmd = proc[p].cmd \/ proc'[p].puts = <<>>
  <2>1. w \in Procs
    BY DEF Procs
  <2>2. CASE TakePill(w) \/ SolveUnsat(w) \/ SolveUnknown(w) \/ SolveFails(w)
    <3>1. \E pc, puts : Goto(w, pc, puts)
      BY <2>2 DEF TakePill, SolveUnsat, SolveUnknown, SolveFails
    <3> QED BY <2>1, <3>1, GotoKeepsCommand
  <2>3. CASE Step(w)
    BY <1>1, <2>1, <2>3, GotoKeepsCommand
  <2>4. CASE Get(w) \/ TaskDone(w)
    <3>1. \E st : st.puts = <<>> /\ proc' = [proc EXCEPT ![w] = st]
      <4>1. \A cmd : At("run", cmd, <<>>).puts = <<>>
        BY DEF At
      <4>2. Idle.puts = <<>>
        BY DEF Idle, At
      <4> QED BY <2>4, <4>1, <4>2 DEF Get, TaskDone
    <3> QED BY <2>1, <3>1, ReplacedKeepsCommand
  <2> QED BY <1>3, <2>2, <2>3, <2>4 DEF Work
<1>4. CASE Settled
  BY <1>4 DEF Settled, vars
<1> QED BY <1>2, <1>3, <1>4 DEF Next

\* A worker that cubes a file the solver gave up on puts commands to cube its
\* halves, never one to solve it again: the extended cutoff is beyond what
\* simplification removed, and the depth counts from the file cubed again.
THEOREM GivenUpIsSplitHolds == Spec => GivenUpIsSplit
<1> DEFINE Goes == \A w \in Workers :
             proc[w].cmd.kind = "cube" /\ proc[w].cmd.extension =>
               \A i \in DOMAIN proc'[w].puts : proc'[w].puts[i].kind = "cube"
<1>1. ASSUME ParallelInv, ParallelInv', [Next]_vars  PROVE [Goes]_vars
  <2>1. CASE UNCHANGED vars
    BY <2>1
  <2>2. ASSUME Next, NEW w \in Workers,
               proc[w].cmd.kind = "cube" /\ proc[w].cmd.extension,
               NEW i \in DOMAIN proc'[w].puts
        PROVE  proc'[w].puts[i].kind = "cube"
    <3>1. w \in Procs /\ TypeOK
      BY <1>1 DEF ParallelInv, Procs
    <3>2. SplitFirst'
      BY <1>1 DEF ParallelInv
    <3>3. proc'[w].cmd = proc[w].cmd \/ proc'[w].puts = <<>>
      BY <2>2, <3>1, CommandChanges
    <3>4. proc'[w].puts # <<>>
      BY <2>2
    <3> QED BY <2>2, <3>1, <3>2, <3>3, <3>4 DEF SplitFirst
  <2> QED BY <1>1, <2>1, <2>2
<1>2. Spec => [][Goes]_vars
  <2> HIDE DEF Goes
  <2> QED BY <1>1, ParallelSafe, PTL DEF Spec
<1> QED BY <1>2 DEF GivenUpIsSplit
=============================================================================
