-------------------------- MODULE InstanceToCubes --------------------------
(***************************************************************************)
(* The instance that the options of main.sh produce, and the cubes that    *)
(* ams_no_mcts.py or cube.sh make of it, against the graphs the options    *)
(* ask for.                                                                *)
(***************************************************************************)
EXTENDS InstanceGenerator, Cuber, CubeScript

CONSTANTS
  Settings(_),   \* the options of ams_no_mcts.py tried on a request's instance
  Limits(_)      \* the options of cube.sh tried on it

vars == <<genVars, cuberVars, scriptVars>>

C == INSTANCE Canonicity

Idle == CuberIdle /\ ScriptIdle

Init == GenInit /\ Idle

StartAms ==
  /\ stage = "accepted" /\ Idle
  /\ \E s \in Settings(args) : StartCuber(ToSet(final.clauses), s)
  /\ UNCHANGED <<genVars, scriptVars>>

StartCubeSh ==
  /\ stage = "accepted" /\ Idle
  /\ \E l \in Limits(args) : StartScript(ToSet(final.clauses), l)
  /\ UNCHANGED <<genVars, cuberVars>>

Run ==
  \/ Generate /\ UNCHANGED <<cuberVars, scriptVars>>
  \/ StartAms \/ StartCubeSh
  \/ CuberStep /\ UNCHANGED <<genVars, scriptVars>>
  \/ ScriptStep /\ UNCHANGED <<genVars, cuberVars>>

Next == Run \/ (Disturb /\ UNCHANGED <<cuberVars, scriptVars>>)

Spec == Init /\ [][Next]_vars

-----------------------------------------------------------------------------
(* The graphs that the options ask for.                                    *)

Neighbours(G, n, v) == {u \in (1 .. n) \ {v} : Edge(u, v) \in G}
Strangers(G, n, v) == {u \in (1 .. n) \ {v} : Edge(u, v) \notin G}

Clique(G, S) == EdgesIn(S) \subseteq G
Independent(G, S) == EdgesIn(S) \cap G = {}

Ramsey(G, a) == \A S \in SUBSET (1 .. a.n) :
  /\ Cardinality(S) = a.p => ~Clique(G, S)
  /\ Cardinality(S) = a.q => ~Independent(G, S)

\* Row i comes before row j, the entries in the columns i and j apart.
RowsInOrder(G, n) == \A i, j \in 1 .. n : i < j =>
  LET In(v) == {k \in (1 .. n) \ {i, j} : k \in Neighbours(G, n, v)}
      differ == (In(i) \ In(j)) \cup (In(j) \ In(i))
  IN differ # {} => Min(differ) \in In(j)

\* A bound of 0 is one that was not given.
Within(x, lower, upper) == x >= lower /\ (upper > 0 => x <= upper)

DegreesWithin(G, n, lower, upper) ==
  \A v \in 1 .. n : Within(Cardinality(Neighbours(G, n, v)), lower, upper)

TrianglesWithin(G, a) == \A i, j \in 1 .. a.n : i < j =>
  IF Edge(i, j) \in G
  THEN a.blue > 0 => Cardinality(Neighbours(G, a.n, i) \cap Neighbours(G, a.n, j)) <= a.blue
  ELSE a.red > 0 => Cardinality(Strangers(G, a.n, i) \cap Strangers(G, a.n, j)) <= a.red

Saturated(G, a) == \A i, j \in 1 .. a.n : i < j /\ Edge(i, j) \notin G =>
  \E S \in SUBSET (1 .. a.n) :
    {i, j} \subseteq S /\ Cardinality(S) = a.p /\ Clique(G \cup {Edge(i, j)}, S)

\* What main.sh:22-47 says of its arguments and options, each by itself, rows
\* apart; a Python caller that leaves mpcf out asks for the block as well. The
\* bounds that ramsey_bounds.py computes are to exclude no graph without the cliques.
Asked(G, a) ==
  /\ Ramsey(G, a)
  /\ ~a.strict => DegreesWithin(G, a.n, a.lower, a.upper)
  /\ TrianglesWithin(G, a)
  /\ a.mpcf # "0" => Saturated(G, a)
  /\ Within(Cardinality(G \cap Vars), a.lb, a.ub)

\* Where generate.py does not do what main.sh says. Given -P, or -D without -d, it
\* leaves the block out (lines 54, 83).
LeavesOut(a) == a.mpcf = "MPCF" \/ (~a.strict /\ a.lower = 0 /\ a.upper > 0)

\* A lower bound without an upper one, or above it, goes to the encodings, which
\* take the upper bound as it is and count to the lower one.
Narrows(a) == (~a.strict /\ a.lower > a.upper) \/ a.lb > a.ub

Admitted(G) == Satisfiable(ToSet(final.clauses), G)

\* The adjacency matrix as the propagator's canonicity test sees it.
Matrix(G, n) == [e \in C!Pairs(n) |-> Edge(e[2] + 1, e[1] + 1) \in G]

Agrees(G, cube) == ToSet(cube) \subseteq G

Covered(G, list) == Cardinality({k \in DOMAIN list : Agrees(G, list[k])}) = 1

-----------------------------------------------------------------------------
\* The generators number their variables by hand (degree_constraints.py:41,
\* b_b_card.py:25, cubic.py:33): no block may take a variable of an earlier one,
\* or use one it has not counted.
FreshVariables ==
  [][next' = next + 1 =>
       \A k \in Len(temp) + 1 .. Len(temp') :
         VarsOf(temp'[k]) \subseteq EdgeVars(args.n) \cup (count + 1 .. count')]_genVars

\* An instance the solver accepts has a solution for exactly the graphs with
\* rows in order that the options ask for, and so after a program was killed and
\* main.sh started again, or another generator took the file "header".
InstanceExact ==
  stage = "accepted" /\ Idle /\ ~LeavesOut(args) /\ ~Narrows(args) =>
    \A G \in GraphsOf(args.n) :
      Admitted(G) <=> Asked(G, args) /\ RowsInOrder(G, args.n)

\* The propagator (symbreak.cpp) keeps one graph of each class, the canonical
\* one; the rows of cubic.py must not exclude it, nor a bound that is given alone,
\* except a lower one.
CanonicalAdmitted ==
  stage = "accepted" /\ Idle /\ ~Narrows(args) =>
    \A G \in GraphsOf(args.n) :
      Asked(G, args) /\ C!Canonical(args.n, Matrix(G, args.n)) => Admitted(G)

\* Every graph the options ask for agrees with one cube of ams_no_mcts.py, also
\* when the refuted nodes are left out.
AmsCubesPartition ==
  setting # <<>> /\ agenda = <<>> =>
    \A G \in GraphsOf(args.n) :
      Asked(G, args) /\ RowsInOrder(G, args.n) => Covered(G, cubes)

\* Every graph the options ask for agrees with one line of the last file of
\* cube.sh, unless march_cu has found a solution on the way or has been left
\* without a variable to branch on: the script reads neither in the logs.
ScriptCubesPartition ==
  limits # <<>> /\ ~running /\ ~stopped =>
    \A G \in GraphsOf(args.n) :
      Asked(G, args) /\ RowsInOrder(G, args.n) => Covered(G, file)

=============================================================================
