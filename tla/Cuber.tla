------------------------------- MODULE Cuber -------------------------------
(***************************************************************************)
(* ams_no_mcts.py: a depth-first search that splits on an edge variable    *)
(* until a node is cut off or refuted by propagation.  A literal that      *)
(* fails under a node is learnt: its negation is assumed below the node    *)
(* but is no part of the cube.  Which variable has the best reward is left *)
(* open.                                                                   *)
(***************************************************************************)
EXTENDS Clauses, SequencesExt

VARIABLES
  problem,   \* the clauses of the solver object
  setting,   \* [m, n, d, recomp, all]: the options; n = 0, d = 0: not given
  agenda,    \* the nodes DFSUtil has not visited yet, the next one first
  cubes      \* all_cubes, as lists of literals

cuberVars == <<problem, setting, agenda, cubes>>

\* A node is "new" until it has been propagated, "open" while literals are
\* tried, and then "branch" (with a variable), "cutoff" or "refuted".
NewNode(prior, learnt) ==
  [prior |-> prior, learnt |-> learnt, tries |-> 0, verdict |-> "new", var |-> 0]

Assumed(node) == ToSet(node.prior) \cup node.learnt

CubingLits == {l \in Lits : VarOf(l) <= setting.m}

ValidLits(node) == CubingLits \ (Assumed(node) \cup Negated(Assumed(node)))

Settled(node) == node.verdict \in {"branch", "cutoff", "refuted"}

\* The node propagate() works on: both children are done before the first visit.
AtWork == {k \in DOMAIN agenda : /\ ~Settled(agenda[k])
                                 /\ \A j \in 1 .. (k - 1) : Settled(agenda[j])}

CuberIdle == problem = {} /\ setting = <<>> /\ agenda = <<>> /\ cubes = <<>>

\* run_cnc.
StartCuber(F, s) ==
  /\ problem' = F /\ setting' = s
  /\ agenda' = <<NewNode(<<>>, {})>> /\ cubes' = <<>>

\* The cutoff is checked before the refutation.  How many variables have a value
\* when propagation stops at a conflict is up to the SAT solver.
Verdicts(node) ==
  LET U == Propagation(problem, Assumed(node))
      conflict == Inconsistent(U)
      deep == setting.d > 0 /\ Len(node.prior) >= setting.d
      full == setting.n > 0 /\ (conflict \/ Cardinality(U \cap CubingLits) >= setting.n)
  IN {v \in {"cutoff", "refuted", "open"} :
        CASE v = "cutoff" -> deep \/ full
          [] v = "refuted" -> conflict /\ ~deep
          [] v = "open" -> ~conflict /\ ~deep /\ ~full}

Examine ==
  \E k \in AtWork :
    /\ agenda[k].verdict = "new"
    /\ \E v \in Verdicts(agenda[k]) : agenda' = [agenda EXCEPT ![k].verdict = v]
    /\ UNCHANGED <<problem, setting, cubes>>

\* Mutant: get_next_node hands on the parent's list of learnt literals itself, so
\* that the two children share it.
LearntShared(k, l) ==
  [j \in DOMAIN agenda |->
     IF j = k THEN [agenda[k] EXCEPT !.learnt = @ \cup {-l}, !.tries = @ + 1]
     ELSE IF Settled(agenda[j]) THEN agenda[j]
     ELSE [agenda[j] EXCEPT !.learnt = @ \cup {-l}]]

Learnt(k, l) ==
  [agenda EXCEPT ![k].learnt = @ \cup {-l}, ![k].tries = @ + 1]

Failing(node) == {l \in ValidLits(node) : Refuted(problem, Assumed(node) \cup {l})}

\* The first literal that fails is learnt, and all are tried again.
LearnFailed ==
  \E k \in AtWork :
    /\ agenda[k].verdict = "open" /\ agenda[k].tries < setting.recomp
    /\ \E l \in Failing(agenda[k]) : agenda' = Learnt(k, l)
    /\ UNCHANGED <<problem, setting, cubes>>

\* No literal fails, or no more may be learnt: a variable is chosen.
Choose ==
  \E k \in AtWork :
    LET node == agenda[k]
    IN /\ node.verdict = "open"
       /\ node.tries = setting.recomp \/ Failing(node) = {}
       /\ IF ValidLits(node) = {}
          THEN agenda' = [agenda EXCEPT ![k].verdict = "cutoff"]
          ELSE \E x \in ValidLits(node) \cap Vars :
                 agenda' = [agenda EXCEPT ![k].verdict = "branch", ![k].var = x]
       /\ UNCHANGED <<problem, setting, cubes>>

\* DFSUtil on a leaf.
VisitLeaf ==
  /\ agenda # <<>> /\ AtWork = {} /\ Head(agenda).verdict # "branch"
  /\ agenda' = Tail(agenda)
  /\ cubes' = IF setting.all \/ Head(agenda).verdict # "refuted"
              THEN Append(cubes, Head(agenda).prior) ELSE cubes
  /\ UNCHANGED <<problem, setting>>

\* DFSUtil on an inner node.
VisitInner ==
  /\ agenda # <<>> /\ AtWork = {} /\ Head(agenda).verdict = "branch"
  /\ LET node == Head(agenda)
     IN agenda' = <<NewNode(Append(node.prior, node.var), node.learnt),
                    NewNode(Append(node.prior, -node.var), node.learnt)>> \o Tail(agenda)
  /\ UNCHANGED <<problem, setting, cubes>>

CuberStep == Examine \/ LearnFailed \/ Choose \/ VisitLeaf \/ VisitInner
=============================================================================
