---------------------------- MODULE ParallelSolve ----------------------------
(***************************************************************************)
(* parallel-solve.py: worker processes take commands from a JoinableQueue. *)
(* A "cube" command simplifies a subproblem and refutes it, hands it to    *)
(* the solver or splits it in two; a "solve" command runs solve-verify.sh  *)
(* on it.  Subproblems are the nodes of binary trees, one tree per given   *)
(* instance: a root with the path of cubes chosen below it.  The solver,   *)
(* the simplifier and the cuber decide freely.  The commands in the queue  *)
(* form a set: every one names a file of its own.                          *)
(***************************************************************************)
EXTENDS Integers, Sequences, SequencesExt, FiniteSets

CONSTANTS
  Workers,         \* worker processes
  Roots,           \* the given instances
  Inputs,          \* "cnf": one instance is given; "list": a file of names
  Cutoffs,         \* values of cutoff: "d" depth, "v" variables, others: never
  CutoffValues,    \* values of cutoffv
  SolveAfterCube,  \* values of solveaftercube
  Removed,         \* values of var_removed
  Extension,       \* added to var_removed when a problem is cubed again (40)
  CnfDepth,        \* depth at which no variable is left, for one instance
  ListDepth,       \* the same for a list
  MaxFaults        \* bound on the commands that raise an exception

ASSUME ParallelAssumption ==
  /\ IsFiniteSet(Workers) /\ Workers # {} /\ "main" \notin Workers
  /\ Inputs \subseteq {"cnf", "list"}
  /\ IsFiniteSet(Roots) /\ ("cnf" \in Inputs => Roots # {})
  /\ SolveAfterCube \subseteq BOOLEAN
  /\ CutoffValues \subseteq Nat /\ Removed \subseteq Nat
  /\ Extension \in Nat \ {0} /\ CnfDepth \in Nat /\ ListDepth \in Nat
  /\ MaxFaults \in Nat

VARIABLES
  args,        \* the command line: cutoff, cutoffv, solveaftercube, what is given
  proc,        \* per process: where it is, its command, what it still puts
  queue,       \* commands in the queue
  unfinished,  \* the queue's count of tasks not reported done
  pills,       \* None entries in the queue
  instances,   \* nodes whose instance file exists
  kept,        \* leaves left for other machines (solveaftercube False)
  refuted,     \* nodes closed by simplification
  solved,      \* nodes closed by the solver
  lost         \* nodes of commands that ended in an exception

vars == <<args, proc, queue, unfinished, pills, instances, kept, refuted, solved, lost>>

\* A list names every instance; otherwise there is one.
Given == IF args.input = "list" THEN Roots ELSE {CHOOSE r \in Roots : TRUE}

Procs == Workers \cup {"main"}
MaxDepth == [cnf |-> CnfDepth, list |-> ListDepth]
Paths == UNION {[1 .. n -> {1, 2}] : n \in UNION {0 .. MaxDepth[i] : i \in Inputs}}
Nodes == Roots \X Paths
Root(r) == <<r, <<>>>>
Depth(node) == Len(node[2])
Child(node, index) == <<node[1], Append(node[2], index)>>
Below(node, top) == node[1] = top[1] /\ IsPrefix(top[2], node[2])

\* cube(orig, ..., cutoffv, d, extension); node # orig means cube # "N", and d
\* is the number of cubes below orig.  Solving needs the node alone.
CubeCommand(orig, node, cutoffv, extension) ==
  [kind |-> "cube", orig |-> orig, node |-> node, cutoffv |-> cutoffv,
   extension |-> extension]
SolveCommand(node) ==
  [kind |-> "solve", orig |-> node, node |-> node, cutoffv |-> 0,
   extension |-> FALSE]
NoCommand == SolveCommand(<<>>)

Commands == [kind : {"cube", "solve"}, orig : Nodes, node : Nodes,
             cutoffv : Nat, extension : BOOLEAN]

At(pc, cmd, puts) == [pc |-> pc, cmd |-> cmd, puts |-> puts]
Idle == At("idle", NoCommand, <<>>)
Goto(p, pc, puts) == proc' = [proc EXCEPT ![p].pc = pc, ![p].puts = puts]

\* main cubes a single instance itself; a list it only puts in the queue.
Init ==
  /\ args \in [input : Inputs, cutoff : Cutoffs, cutoffv : CutoffValues,
               after : SolveAfterCube]
  /\ args.input = "list" => args.after
  /\ instances = {Root(r) : r \in Given}
  /\ proc = [p \in Procs |->
       IF p \in Workers THEN Idle
       ELSE IF args.input = "cnf"
         THEN LET top == Root(CHOOSE r \in Given : TRUE) IN
              At("run", CubeCommand(top, top, args.cutoffv, FALSE), <<>>)
         ELSE At("put", NoCommand, SetToSeq({SolveCommand(Root(r)) : r \in Given}))]
  /\ queue = {} /\ unfinished = 0 /\ pills = 0
  /\ kept = {} /\ refuted = {} /\ solved = {} /\ lost = {}

-----------------------------------------------------------------------------
(* The queue.                                                              *)

Get(w) ==
  /\ proc[w].pc = "idle"
  /\ \E cmd \in queue :
       /\ queue' = queue \ {cmd}
       /\ proc' = [proc EXCEPT ![w] = At("run", cmd, <<>>)]
  /\ UNCHANGED <<args, unfinished, pills, instances, kept, refuted, solved, lost>>

\* queue.put of the next command; several processes put at a time.
Put(p) ==
  /\ proc[p].pc = "put" /\ proc[p].puts # <<>>
  /\ queue' = queue \cup {Head(proc[p].puts)}
  /\ unfinished' = unfinished + 1
  /\ Goto(p, "put", Tail(proc[p].puts))
  /\ UNCHANGED <<args, pills, instances, kept, refuted, solved,
                 lost>>

\* The command has returned: task_done.
TaskDone(w) ==
  /\ proc[w].pc = "put" /\ proc[w].puts = <<>>
  /\ unfinished' = unfinished - 1
  /\ proc' = [proc EXCEPT ![w] = Idle]
  /\ UNCHANGED <<args, queue, pills, instances, kept, refuted, solved, lost>>

StartJoin ==
  /\ proc["main"].pc = "put" /\ proc["main"].puts = <<>>
  /\ Goto("main", "join", <<>>)
  /\ UNCHANGED <<args, queue, unfinished, pills, instances, kept, refuted,
                 solved, lost>>

\* queue.join returns; one None per worker.
Join ==
  /\ proc["main"].pc = "join" /\ unfinished = 0
  /\ pills' = Cardinality(Workers)
  /\ unfinished' = Cardinality(Workers)
  /\ Goto("main", "stop", <<>>)
  /\ UNCHANGED <<args, queue, instances, kept, refuted, solved,
                 lost>>

TakePill(w) ==
  /\ proc[w].pc = "idle" /\ pills > 0
  /\ pills' = pills - 1
  /\ unfinished' = unfinished - 1
  /\ Goto(w, "done", <<>>)
  /\ UNCHANGED <<args, queue, instances, kept, refuted, solved,
                 lost>>

JoinProcesses ==
  /\ proc["main"].pc = "stop"
  /\ \A w \in Workers : proc[w].pc = "done"
  /\ Goto("main", "done", <<>>)
  /\ UNCHANGED <<args, queue, unfinished, pills, instances, kept, refuted,
                 solved, lost>>

-----------------------------------------------------------------------------
(* cube.                                                                   *)

Running(p, kind) == proc[p].pc = "run" /\ proc[p].cmd.kind = kind
ReadsInstance(p) == proc[p].cmd.orig \in instances

\* "c exit 20" in the simplification log; no proof is kept or checked (-s).
CubeRefuted(p) ==
  LET cmd == proc[p].cmd IN
  /\ Running(p, "cube") /\ ReadsInstance(p)
  /\ refuted' = refuted \cup {cmd.node}
  /\ Goto(p, "put", <<>>)
  /\ UNCHANGED <<args, queue, unfinished, pills, instances, kept, solved, lost>>

\* Mutant: the extension is not applied.
CutoffOfCommand(cmd, removed) == cmd.cutoffv

\* The value the cutoff is compared with when removed variables are gone.
CutoffOf(cmd, removed) ==
  IF cmd.extension THEN removed + Extension ELSE cmd.cutoffv

CutoffReached(cmd, removed) ==
  \/ args.cutoff = "d" /\ Depth(cmd.node) - Depth(cmd.orig) >= CutoffOf(cmd, removed)
  \/ args.cutoff = "v" /\ removed >= CutoffOf(cmd, removed)

\* A leaf, written out and queued for the solver; the simplified file goes.
CubeLeaf(p) ==
  LET cmd == proc[p].cmd IN
  /\ Running(p, "cube") /\ ReadsInstance(p)
  /\ \E removed \in Removed : CutoffReached(cmd, removed)
  /\ args.after
  /\ instances' = instances \cup {cmd.node}
  /\ Goto(p, "put", <<SolveCommand(cmd.node)>>)
  /\ UNCHANGED <<args, queue, unfinished, pills, kept, refuted, solved, lost>>

\* Without solveaftercube the leaf's files stay where they are.
CubeKeep(p) ==
  LET cmd == proc[p].cmd IN
  /\ Running(p, "cube") /\ ReadsInstance(p)
  /\ \E removed \in Removed : CutoffReached(cmd, removed)
  /\ ~args.after
  /\ kept' = kept \cup {cmd.node}
  /\ Goto(p, "put", <<>>)
  /\ UNCHANGED <<args, queue, unfinished, pills, instances, refuted, solved, lost>>

\* Mutant: both commands name the first cube.
CubeSplitOne(p) ==
  LET cmd == proc[p].cmd IN
  /\ Running(p, "cube") /\ ReadsInstance(p)
  /\ Depth(cmd.node) < MaxDepth[args.input]
  /\ \E removed \in Removed :
       /\ ~CutoffReached(cmd, removed)
       /\ Goto(p, "put", [i \in 1 .. 2 |->
            CubeCommand(cmd.orig, Child(cmd.node, 1), CutoffOf(cmd, removed), FALSE)])
  /\ UNCHANGED <<args, queue, unfinished, pills, instances, kept, refuted,
                 solved, lost>>

\* The cuber picks a variable: one command per polarity.  The children do not
\* pass extension on but keep the cutoff it gave.
CubeSplit(p) ==
  LET cmd == proc[p].cmd IN
  /\ Running(p, "cube") /\ ReadsInstance(p)
  /\ Depth(cmd.node) < MaxDepth[args.input]
  /\ \E removed \in Removed :
       /\ ~CutoffReached(cmd, removed)
       /\ Goto(p, "put", [i \in 1 .. 2 |->
            CubeCommand(cmd.orig, Child(cmd.node, i), CutoffOf(cmd, removed), FALSE)])
  /\ UNCHANGED <<args, queue, unfinished, pills, instances, kept, refuted,
                 solved, lost>>

\* Mutant: a dying process reports its task done.
CubeFailsDone(p) ==
  /\ Running(p, "cube") /\ Cardinality(lost) < MaxFaults
  /\ lost' = lost \cup {proc[p].cmd.node}
  /\ unfinished' = IF p = "main" THEN unfinished ELSE unfinished - 1
  /\ Goto(p, "dead", <<>>)
  /\ UNCHANGED <<args, queue, pills, instances, kept, refuted, solved>>

\* An exception in cube is caught by nobody: the process dies before task_done.
\* Taken to happen before the first put.
CubeFails(p) ==
  /\ Running(p, "cube") /\ Cardinality(lost) < MaxFaults
  /\ lost' = lost \cup {proc[p].cmd.node}
  /\ Goto(p, "dead", <<>>)
  /\ UNCHANGED <<args, queue, unfinished, pills, instances, kept, refuted,
                 solved>>

-----------------------------------------------------------------------------
(* run_command.                                                            *)

\* The solver prints UNSAT.  solve-verify.sh then has the proof checked; what
\* comes out of that is printed and not looked at.
SolveUnsat(p) ==
  LET cmd == proc[p].cmd IN
  /\ Running(p, "solve") /\ ReadsInstance(p)
  /\ solved' = solved \cup {cmd.node}
  /\ instances' = instances \ {cmd.node}
  /\ Goto(p, "put", <<>>)
  /\ UNCHANGED <<args, queue, unfinished, pills, kept, refuted, lost>>

\* Mutant: the files go although the subproblem is still open.
SolveUnknownRemoves(p) ==
  LET cmd == proc[p].cmd IN
  /\ Running(p, "solve") /\ ReadsInstance(p)
  /\ Depth(cmd.node) < MaxDepth[args.input]
  /\ instances' = instances \ {cmd.node}
  /\ Goto(p, "put", <<CubeCommand(cmd.node, cmd.node, args.cutoffv, TRUE)>>)
  /\ UNCHANGED <<args, queue, unfinished, pills, kept, refuted, solved, lost>>

\* Mutant: the same instance is solved again.
SolveUnknownAgain(p) ==
  LET cmd == proc[p].cmd IN
  /\ Running(p, "solve") /\ ReadsInstance(p)
  /\ Depth(cmd.node) < MaxDepth[args.input]
  /\ Goto(p, "put", <<cmd>>)
  /\ UNCHANGED <<args, queue, unfinished, pills, instances, kept, refuted,
                 solved, lost>>

\* The solver ran into its proof size limit: cube the same file further.
SolveUnknown(p) ==
  LET cmd == proc[p].cmd IN
  /\ Running(p, "solve") /\ ReadsInstance(p)
  /\ Depth(cmd.node) < MaxDepth[args.input]
  /\ Goto(p, "put", <<CubeCommand(cmd.node, cmd.node, args.cutoffv, TRUE)>>)
  /\ UNCHANGED <<args, queue, unfinished, pills, instances, kept, refuted,
                 solved, lost>>

\* An exception here is printed; the task counts as done.
SolveFails(p) ==
  /\ Running(p, "solve") /\ Cardinality(lost) < MaxFaults
  /\ lost' = lost \cup {proc[p].cmd.node}
  /\ Goto(p, "put", <<>>)
  /\ UNCHANGED <<args, queue, unfinished, pills, instances, kept, refuted,
                 solved>>

Step(p) ==
  \/ Put(p)
  \/ CubeRefuted(p) \/ CubeLeaf(p) \/ CubeKeep(p) \/ CubeSplit(p) \/ CubeFails(p)
Work(w) ==
  \/ Get(w) \/ TaskDone(w) \/ TakePill(w) \/ Step(w)
  \/ SolveUnsat(w) \/ SolveUnknown(w) \/ SolveFails(w)
Main == StartJoin \/ Join \/ JoinProcesses \/ Step("main")

\* main and the workers that live have ended, or wait for ever.
Settled ==
  /\ \A w \in Workers : proc[w].pc \in {"idle", "done", "dead"}
  /\ queue = {} \/ \A w \in Workers : proc[w].pc # "idle"
  /\ \/ proc["main"].pc \in {"done", "dead"}
     \/ proc["main"].pc = "join" /\ \E w \in Workers : proc[w].pc = "dead"
  /\ UNCHANGED vars

Next == Main \/ (\E w \in Workers : Work(w)) \/ Settled

\* Operating-system processes: each that can go on does.
Spec == Init /\ [][Next]_vars /\ WF_vars(Main) /\ \A w \in Workers : WF_vars(Work(w))

-----------------------------------------------------------------------------
(* Properties.                                                             *)

Busy == {p \in Procs : proc[p].pc \in {"run", "put"}}

\* The subproblems somebody is going to work on.  A process that has put one of
\* two commands answers only for the other.
Pending ==
  {cmd.node : cmd \in queue}
    \cup {proc[p].cmd.node : p \in {q \in Procs : proc[q].pc = "run"}}
    \cup UNION {{proc[p].puts[i].node : i \in DOMAIN proc[p].puts} : p \in Busy}

closed == refuted \cup solved

\* A complete assignment below a given instance.
Cells == {n \in Nodes : n[1] \in Given /\ Depth(n) = MaxDepth[args.input]}

\* Cubing and cubing again keep the subproblems a partition: every assignment
\* lies in exactly one that is pending, closed, kept or lost in an exception, so
\* nothing is dropped or solved twice (parallel-solve.py:96-141).
Partition ==
  \A cell \in Cells :
    Cardinality({n \in Pending \cup closed \cup kept \cup lost : Below(cell, n)}) = 1

\* queue.join (line 176) does not return while a subproblem is queued, being
\* worked on or about to be put, and never once a worker has died holding one:
\* task_done comes after the puts of cube.
JoinWaits ==
  proc["main"].pc \in {"stop", "done"} =>
    Pending = {} /\ \A w \in Workers : proc[w].pc # "dead"

\* Every command that is still to run finds the instance it reads.
InstancePresent ==
  \A cmd \in queue \cup {proc[p].cmd : p \in {q \in Procs : proc[q].pc = "run"}} :
    cmd.orig \in instances

\* A file is solved once: a problem the solver gave up on is split first,
\* because the extended cutoff exceeds what simplification removes (line 99).
GivenUpIsSplit ==
  [][\A w \in Workers :
       LET before == proc[w].cmd after == proc'[w].puts IN
       before.kind = "cube" /\ before.extension =>
         \A i \in DOMAIN after : after[i].kind = "cube"]_vars

\* Without exceptions all work is done and the workers stop; a process that
\* dies is the only thing that can keep the program from ending.
Ends == <>(proc["main"].pc = "done" \/ \E p \in Procs : proc[p].pc = "dead")
=============================================================================
