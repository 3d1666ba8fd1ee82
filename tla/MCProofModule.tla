---------------------------- MODULE MCProofModule ----------------------------
(* Instances of ProofModule for TLC.                                         *)
EXTENDS ProofModule

Lines(ops, clauses) == {[op |-> o, lits |-> c] : o \in ops, c \in clauses}
AllOps == {"add", "trust", "delete"}
EmptyLine == [op |-> "add", lits |-> <<>>]
Refutations(body) == {Append(s, EmptyLine) : s \in body}

\* Every order of additions, trusted lines and deletions over two variables, and
\* proofs that were cut off.
Small == {<<1>>, <<-1>>, <<2>>, <<1, 2>>, <<-1, 2>>, <<-2, 1>>}
SmallFormulas == {<<<<1, 2>>>>, <<<<1, 2>>, <<-1, 2>>, <<1, -2>>, <<-1, -2>>>>}
SmallProofs ==
  Refutations([1 .. 3 -> Lines(AllOps, Small)]) \cup [1 .. 2 -> Lines(AllOps, Small)]

\* Longer chains of reasons, and candidates that other literals satisfy.
Large == {<<1>>, <<-3>>, <<2, 3>>, <<-2, 3>>, <<3, -1>>, <<-3, -2>>, <<1, 2, -3>>}
LargeFormulas ==
  {<<<<1, 2, 3>>, <<-1, 2>>, <<-2, 3>>, <<1, -3>>, <<-1, -2, -3>>>>,
   <<<<1, 2>>, <<-1, 3>>, <<-2, -3>>>>}
LargeProofs == Refutations([1 .. 3 -> Lines({"add", "trust"}, Large)])

\* Lemmas between deletions, literals that stay before the conflict, a unit twice.
Pairs3 == <<<<1, 2, 3>>, <<1, -2, 3>>, <<-1, 2, 3>>, <<-1, -2, 3>>>>
DeletionFormulas == {Pairs3, Append(Pairs3, <<-3>>), <<<<1>>, <<1>>, <<-1, 2>>>>}
DeletionProofs == Refutations([1 .. 3 -> Lines(AllOps, {<<-3>>, <<1>>, <<1, 2>>, <<1, 2, 3>>})])

\* Graphs of three vertices with one edge, with two, or with all three of them,
\* the trusted clauses of a search and some others.
GraphFormulas ==
  {<<<<1, 2, 3>>, <<-1, -2>>, <<-1, -3>>, <<-2, -3>>>>,
   <<<<1, 2>>, <<-1, -2>>, <<-3>>>>, <<<<1, 2>>, <<-1, 2>>, <<1, -2>>>>}
\* One edge, the first or the third, chosen by an auxiliary variable; or the second
\* or the third.  A clause over it has no entry in the matrix.
AuxiliaryFormulas ==
  {<<<<1, 4>>, <<-4, 3>>, <<-2>>, <<-1, -3>>>>, <<<<2, 4>>, <<-4, 3>>, <<-1>>, <<-2, -3>>>>}
Auxiliary ==
  {<<-1, 3>>, <<-2, 3>>, <<1, 2, -3>>, <<-1, 2, 3>>, <<-1, 4>>, <<2, -3, -4>>, <<-3, -3, 2>>}
Blocked == {<<-1, 2>>, <<-1, 3>>, <<-2, 3>>, <<1, -2>>, <<-1, -2, -3>>, <<1, 2, -3>>}
GraphProofs ==
  UNION {Refutations({t \o <<l>> : t \in [1 .. n -> Lines({"trust"}, Blocked)],
                                  l \in Lines({"add"}, {<<-1>>, <<3>>, <<2>>})}) : n \in 1 .. 2}

AuxiliaryProofs ==
  Refutations({t \o <<l>> : t \in [1 .. 2 -> Lines({"trust"}, Auxiliary)],
                            l \in Lines({"add"}, {<<-1>>, <<4>>})})

NoFile == [there |-> FALSE, lines |-> <<>>]
RowLines == {<<>>, <<0, 2>>, <<1, 2>>, <<1, 0, 2>>, <<2, 1>>}
PermFilesFor(lines) ==
  IF lines \notin GraphProofs \cup AuxiliaryProofs THEN {NoFile}
  ELSE {NoFile} \cup {[there |-> TRUE, lines |-> s] : s \in [1 .. Len(lines) - 2 -> RowLines]}
               \cup {[there |-> TRUE, lines |-> <<r>>] : r \in RowLines}

SomeInputs ==
  (SmallFormulas \X SmallProofs) \cup (LargeFormulas \X LargeProofs)
    \cup (DeletionFormulas \X DeletionProofs) \cup (GraphFormulas \X GraphProofs)
    \cup (AuxiliaryFormulas \X AuxiliaryProofs)
=============================================================================
