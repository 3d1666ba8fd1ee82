----------------------------- MODULE CubeScript -----------------------------
(***************************************************************************)
(* cube.sh and cube-instance.sh: depth by depth, every cube of the last    *)
(* file is applied to the instance and march_cu splits it once; the lines  *)
(* of the children make the next file.                                     *)
(***************************************************************************)
EXTENDS MarchFormula

VARIABLES
  base,      \* the clauses of the instance
  limits,    \* [m, r, e]: edge variables, cutoff on the cubes, last depth
  depth,     \* i of the loop, 0 before the first call of march_cu
  child,     \* c: the cube applied next, 0 outside the inner loop
  file,      \* (i - 1).cubes, or Absent
  parts,     \* the lines of i-1.cubes .. i-c.cubes, concatenated
  stopped,   \* a log of march_cu says SATISFIABLE or UNKNOWN
  running

scriptVars == <<base, limits, depth, child, file, parts, stopped, running>>

Absent == <<"absent">>

ScriptIdle ==
  /\ base = {} /\ limits = <<>> /\ depth = 0 /\ child = 0
  /\ file = Absent /\ parts = <<>> /\ stopped = FALSE /\ running = FALSE

StartScript(F, l) ==
  /\ base' = F /\ limits' = l /\ running' = TRUE
  /\ UNCHANGED <<depth, child, file, parts, stopped>>

\* apply.sh: the c-th line's literals become unit clauses, a 0 an empty one.
Applied(F, line) == F \cup {{l} \ {0} : l \in ToSet(line)}

\* Mutant: the parent's last literal is lost with the 0 that ends the line.
PrefixedShort(line, written) ==
  [k \in DOMAIN written |-> (IF line = <<>> THEN <<>> ELSE Front(line)) \o written[k]]

\* The sed commands of cube-instance.sh.
Prefixed(line, written) == [k \in DOMAIN written |-> line \o written[k]]

FirstCall ==
  /\ running /\ depth = 0
  /\ \E out \in March(base, limits.m) :
       /\ file' = IF out.says = "SAT" THEN Absent ELSE out.written
       /\ stopped' = (out.says # "UNSAT")
  /\ depth' = 1
  /\ UNCHANGED <<base, limits, child, parts, running>>

\* The tests at the top of the loop.
NextDepth ==
  /\ running /\ depth > 0 /\ child = 0
  /\ IF depth > limits.e \/ file = Absent \/ Len(file) > limits.r
     THEN running' = FALSE /\ UNCHANGED <<child, parts>>
     ELSE child' = 1 /\ parts' = <<>> /\ UNCHANGED running
  /\ UNCHANGED <<base, limits, depth, file, stopped>>

\* cube-instance.sh: what march_cu writes is put behind the cube's literals.
SplitCube ==
  /\ running /\ child \in DOMAIN file
  /\ \E out \in March(Applied(base, file[child]), limits.m) :
       /\ parts' = parts \o Prefixed(file[child], out.written)
       /\ stopped' = (stopped \/ out.says # "UNSAT")
  /\ child' = child + 1
  /\ UNCHANGED <<base, limits, depth, file, running>>

\* The parts become i.cubes; the loop ends when there are not more of them.
\* From no cube at all no file is made.
EndDepth ==
  /\ running /\ child = Len(file) + 1
  /\ file' = IF file = <<>> THEN Absent ELSE parts
  /\ running' = (file = <<>> \/ Len(parts) # Len(file))
  /\ parts' = <<>> /\ child' = 0 /\ depth' = depth + 1
  /\ UNCHANGED <<base, limits, stopped>>

ScriptStep == FirstCall \/ NextDepth \/ SplitCube \/ EndDepth
=============================================================================
