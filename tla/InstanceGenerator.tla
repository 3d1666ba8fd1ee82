------------------------- MODULE InstanceGenerator --------------------------
(***************************************************************************)
(* From the command line of main.sh to the CNF file the solver reads:      *)
(* main.sh works out the options, generate.py appends block after block of *)
(* clauses to a temporary file, combine.sh puts a header in front of them  *)
(* and the solver's parser compares the two.  Any of the programs may be   *)
(* killed and main.sh started again with the same options, and another     *)
(* generator in the same directory uses the same file "header".            *)
(*                                                                         *)
(* First the clause generators of gen_instance.  A graph on the vertices   *)
(* 1 .. n is the set of literals it makes true over its edge variables,    *)
(* which are numbered column by column.  A generator is given the number of*)
(* the last variable used and returns its clauses with the new one.        *)
(***************************************************************************)
EXTENDS Clauses, FiniteSetsExt, SequencesExt

Edge(i, j) == IF i < j THEN ((j - 1) * (j - 2)) \div 2 + i
              ELSE ((i - 1) * (i - 2)) \div 2 + j

EdgesIn(S) == {Edge(e[1], e[2]) : e \in {x \in S \X S : x[1] < x[2]}}

EdgeVars(n) == 1 .. ((n * (n - 1)) \div 2)

GraphsOf(n) == {E \cup Negated(EdgeVars(n) \ E) : E \in SUBSET EdgeVars(n)}

\* The ends of an edge variable, and a vertex's edges in the order of edge_dict.
EndsOf(n, x) == CHOOSE S \in kSubset(2, 1 .. n) : EdgesIn(S) = {x}

Incident(n, v) == SetToSortSeq({Edge(u, v) : u \in (1 .. n) \ {v}}, <)

\* The elements of S in some order.
Listed(S) ==
  LET list[T \in SUBSET S] ==
        IF T = {} THEN <<>>
        ELSE LET x == CHOOSE x \in T : TRUE IN <<x>> \o list[T \ {x}]
  IN list[S]

(***************************************************************************)
(* gen_implication_clause: the conjunction of a implies the disjunction of *)
(* b; the Python code writes 'T' and 'F' where Top and -Top stand.  There  *)
(* is no clause when a holds 'F' or b holds 'T'.                           *)
(***************************************************************************)
Top == MaxVar + 1

Implication(a, b) ==
  LET c == Negated(a) \cup b IN IF Top \in c THEN {} ELSE {c \ {-Top}}

-----------------------------------------------------------------------------
(* Cliques of both colours, and the maximal graphs without a p-clique.     *)

CliqueClauses(n, p) == {Negated(EdgesIn(S)) : S \in kSubset(p, 1 .. n)}

CocliqueClauses(n, q) == {EdgesIn(S) : S \in kSubset(q, 1 .. n)}

\* One new variable for each edge in each p-clique: the clique's other edges
\* are there.  What is no edge would close a clique.
MaximalityClauses(n, p, start) ==
  LET pairs == Listed({x \in EdgeVars(n) \X kSubset(p, 1 .. n) : x[1] \in EdgesIn(x[2])})
      Others(k) == EdgesIn(pairs[k][2]) \ {pairs[k][1]}
  IN [clauses |->
        UNION {{{start + k} \cup Negated(Others(k))}
                 \cup {{-(start + k), f} : f \in Others(k)} : k \in DOMAIN pairs}
        \cup {{x} \cup {start + k : k \in {k \in DOMAIN pairs : pairs[k][1] = x}} :
                x \in EdgeVars(n)},
      count |-> start + Len(pairs)]

-----------------------------------------------------------------------------
(* Rows in lexicographic order.                                            *)

\* X is not greater than Y.  total + k says: the rows agree up to entry k.
LexClauses(X, Y, total) ==
  LET n == Len(X)
  IN Implication({X[1]}, {Y[1]}) \cup Implication({X[1]}, {total + 1})
       \cup {{Y[1], total + 1}}
       \cup UNION {Implication({total + k}, {-X[k + 1], Y[k + 1]})
                     \cup Implication({total + k}, {-X[k + 1], total + k + 1})
                     \cup Implication({total + k}, {Y[k + 1], total + k + 1}) :
                     k \in 1 .. (n - 2)}
       \cup Implication({total + n - 1}, {-X[n], Y[n]})

\* Row i of the matrix without the columns i and j.
Row(n, i, j) ==
  LET columns == SetToSortSeq((1 .. n) \ {i, j}, <)
  IN [k \in DOMAIN columns |-> Edge(i, columns[k])]

\* Mutant: the greater row comes first.
RowsDescending(n, start) ==
  [clauses |-> UNION {LexClauses(Row(n, e[2], e[1]), Row(n, e[1], e[2]),
                                 start + (Edge(e[1], e[2]) - 1) * (n - 3)) :
                        e \in {x \in (1 .. n) \X (1 .. n) : x[1] < x[2]}},
   count |-> start + Cardinality(EdgeVars(n)) * (n - 3)]

RowClauses(n, start) ==
  [clauses |-> UNION {LexClauses(Row(n, e[1], e[2]), Row(n, e[2], e[1]),
                                 start + (Edge(e[1], e[2]) - 1) * (n - 3)) :
                        e \in {x \in (1 .. n) \X (1 .. n) : x[1] < x[2]}},
   count |-> start + Cardinality(EdgeVars(n)) * (n - 3)]

-----------------------------------------------------------------------------
(***************************************************************************)
(* The sequential counter.  Cell (i, j) says that at least j of the first  *)
(* i items are true; an item is a conjunction of literals, and the counter *)
(* need only be right where the literals of cond hold.  The corner cells   *)
(* are written last and hide what stood there.                             *)
(***************************************************************************)
Corner(i, j, n, lower, k) ==
  IF <<i, j>> = <<n, k>> THEN -Top
  ELSE IF j = 0 \/ <<i, j>> = <<n, lower>> THEN Top
  ELSE IF i = 0 THEN -Top ELSE 0

\* Mutant: the counter's new variables start at the last one used.
CounterFromLast(items, cond, lower, upper, start) ==
  LET n == Len(items)
      k == upper + 1
      free == {c \in (0 .. n) \X (0 .. k) : Corner(c[1], c[2], n, lower, k) = 0}
      S == [c \in (0 .. n) \X (0 .. k) |->
              IF c \notin free THEN Corner(c[1], c[2], n, lower, k)
              ELSE start + Cardinality({d \in free : d[1] < c[1] \/ (d[1] = c[1] /\ d[2] < c[2])})]
  IN [clauses |->
        UNION {Implication(cond \cup {S[i - 1, j]}, {S[i, j]})
                 \cup Implication(cond \cup items[i] \cup {S[i - 1, j - 1]}, {S[i, j]})
                 \cup UNION {Implication(cond \cup {S[i, j]}, {S[i - 1, j], x}) : x \in items[i]}
                 \cup Implication(cond \cup {S[i, j]}, {S[i - 1, j - 1]}) :
                 i \in 1 .. n, j \in 1 .. k},
      count |-> start + Cardinality(free)]

CounterClauses(items, cond, lower, upper, start) ==
  LET n == Len(items)
      k == upper + 1
      free == {c \in (0 .. n) \X (0 .. k) : Corner(c[1], c[2], n, lower, k) = 0}
      S == [c \in (0 .. n) \X (0 .. k) |->
              IF c \notin free THEN Corner(c[1], c[2], n, lower, k)
              ELSE start + Cardinality({d \in free : d[1] < c[1] \/ (d[1] = c[1] /\ d[2] <= c[2])})]
  IN [clauses |->
        UNION {Implication(cond \cup {S[i - 1, j]}, {S[i, j]})
                 \cup Implication(cond \cup items[i] \cup {S[i - 1, j - 1]}, {S[i, j]})
                 \cup UNION {Implication(cond \cup {S[i, j]}, {S[i - 1, j], x}) : x \in items[i]}
                 \cup Implication(cond \cup {S[i, j]}, {S[i - 1, j - 1]}) :
                 i \in 1 .. n, j \in 1 .. k},
      count |-> start + Cardinality(free)]

\* At most upper triangles of one colour on edge x, when x has that colour.
TriangleClauses(n, x, upper, start, colour) ==
  LET ends == EndsOf(n, x)
      X == SetToSortSeq((1 .. n) \ ends, <)
  IN CounterClauses([i \in DOMAIN X |-> {colour * Edge(X[i], v) : v \in ends}],
                    {colour * x}, 0, upper, start)

-----------------------------------------------------------------------------
(***************************************************************************)
(* The totalizer.  A node is the interval of the inputs below it, its left *)
(* child the smaller half; the root has the first variables, the other     *)
(* inner nodes take theirs in preorder, a leaf is its input.               *)
(***************************************************************************)
Halves(v) == LET mid == v[1] + (v[2] - v[1] + 1) \div 2
             IN <<<<v[1], mid - 1>>, <<mid, v[2]>>>>

Size(v) == v[2] - v[1] + 1

InnerNodes(n) ==
  LET below[v \in (1 .. n) \X (1 .. n)] ==
        IF Size(v) = 1 THEN {} ELSE {v} \cup below[Halves(v)[1]] \cup below[Halves(v)[2]]
  IN below[<<1, n>>]

Outputs(X, v, start) ==
  LET n == Len(X)
      before == {u \in InnerNodes(n) \ {<<1, n>>} :
                   u[1] < v[1] \/ (u[1] = v[1] /\ u[2] > v[2])}
      first == IF v = <<1, n>> THEN start + 1
               ELSE start + n + 1 + MapThenSumSet(Size, before)
  IN IF Size(v) = 1 THEN <<X[v[1]]>> ELSE [k \in 1 .. Size(v) |-> first + k - 1]

\* The output k of a node, with 'T' before the first and 'F' after the last.
OutputAt(vars, k) == IF k = 0 THEN Top ELSE IF k > Len(vars) THEN -Top ELSE vars[k]

TotalizerClauses(X, lower, upper, start, strengthen) ==
  LET n == Len(X)
      Merge(v) ==
        LET sigma == Outputs(X, v, start)
            alpha == Outputs(X, Halves(v)[1], start)
            beta == Outputs(X, Halves(v)[2], start)
        IN UNION {
             (IF strengthen \/ Len(sigma) - (a + b) < n - upper
              THEN Implication({OutputAt(alpha, a), OutputAt(beta, b)}, {OutputAt(sigma, a + b)})
              ELSE {})
             \cup
             (IF strengthen \/ a + b < lower
              THEN Implication({OutputAt(sigma, a + b + 1)},
                               {OutputAt(alpha, a + 1), OutputAt(beta, b + 1)})
              ELSE {}) : a \in 0 .. Len(alpha), b \in 0 .. Len(beta)}
      root == Outputs(X, <<1, n>>, start)
  IN [clauses |-> UNION {Merge(v) : v \in InnerNodes(n)}
                    \cup {{root[i]} : i \in {i \in 1 .. n : i <= lower}}
                    \cup {{-root[i]} : i \in {i \in 1 .. n : i > lower /\ i > upper}},
      count |-> start + n + 1 + MapThenSumSet(Size, InnerNodes(n) \ {<<1, n>>})]

-----------------------------------------------------------------------------
(* The programs that make the file.                                        *)

CONSTANTS
  Requests,            \* the command lines; see Request
  MaxDisturbances(_),  \* bound: kills and uses of "header" by another generator
  Cuts(_)              \* where a file of that many clauses may be cut off

ASSUME DisturbancesAssumption ==
  /\ \A a \in Requests : MaxDisturbances(a) \in Nat
  /\ \A len \in 0 .. MaxVar : Cuts(len) \subseteq 0 .. len

VARIABLES
  args,            \* the request, which does not change
  stage,           \* what runs next
  next,            \* the block generate() writes next
  count,           \* the last variable used
  lines,           \* clause_count of generate()
  temp,            \* the temporary file, a sequence of clauses
  header,          \* the file "header", or NoFile
  final,           \* the instance: its first line and its clauses, or NoFile
  disturbances

genVars == <<args, stage, next, count, lines, temp, header, final, disturbances>>

NoFile == <<>>

CardTypes == {"sinz", "totalizer", "totalizerconcise"}

\* args is a command line of main.sh or a call of generate(): mpcf is "0" or "MPCF"
\* when main.sh passes it on, and "zero" for a Python caller that leaves it out.

-----------------------------------------------------------------------------
(* The bounds of --strict-degree-bound.                                    *)

\* The Ramsey numbers ramsey_bounds.py knows, for the sizes used here; 0 if none.
RamseyNumber(p, q) ==
  LET a == Min({p, q})
      b == Max({p, q})
  IN CASE a = 1 -> 1
       [] a = 2 -> b
       [] a = 3 /\ b \in 3 .. 9 -> <<6, 9, 14, 18, 23, 28, 36>>[b - 2]
       [] a = 4 /\ b = 4 -> 18
       [] OTHER -> 0

StrictBounds(n, p, q) ==
  [lower |-> n - RamseyNumber(p, q - 1), upper |-> RamseyNumber(p - 1, q) - 1]

\* The bounds main.sh goes on with.
Bounds(a) == IF a.strict THEN StrictBounds(a.n, a.p, a.q)
             ELSE [lower |-> a.lower, upper |-> a.upper]

\* calculate_strict_bounds raises an error, or main.sh finds a negative bound.
BoundsRejected(a) ==
  \/ a.strict /\ 0 \in {RamseyNumber(a.p, a.q - 1), RamseyNumber(a.p - 1, a.q)}
  \/ Bounds(a).lower < 0

-----------------------------------------------------------------------------
(* The blocks in the order of generate().                                  *)

When(condition, blocks) == IF condition THEN blocks ELSE <<>>

\* The edge variables as a sequence.
EdgeList(n) == [x \in EdgeVars(n) |-> x]

Blocks(a) ==
  <<<<"cliques", 0>>, <<"cocliques", 0>>, <<"rows", 0>>>>
    \o When(Bounds(a).lower > 0, [v \in 1 .. a.n |-> <<"degree", v>>])
    \o When(a.blue > 0, [x \in EdgeVars(a.n) |-> <<"blue", x>>])
    \o When(a.red > 0, [x \in EdgeVars(a.n) |-> <<"red", x>>])
    \o When(a.mpcf = "zero", <<<<"maximal", 0>>>>)
    \o When(a.lb > 0 \/ a.ub > 0, <<<<"edges", 0>>>>)

CardinalityClauses(type, X, lower, upper, start) ==
  IF type = "sinz"
  THEN CounterClauses([i \in DOMAIN X |-> {X[i]}], {}, lower, upper, start)
  ELSE TotalizerClauses(X, lower, upper, start, type = "totalizer")

\* The sequential counter indexes past the end of a row.
IndexError(type, lower, upper) == type = "sinz" /\ lower > upper + 1

Fails(a, b) ==
  \/ b[1] = "degree" /\ IndexError(a.degcard, Bounds(a).lower, Bounds(a).upper)
  \/ b[1] = "edges" /\ IndexError(a.edgecard, a.lb, a.ub)

Block(a, b, start) ==
  CASE b[1] = "cliques" -> [clauses |-> CliqueClauses(a.n, a.p), count |-> start]
    [] b[1] = "cocliques" -> [clauses |-> CocliqueClauses(a.n, a.q), count |-> start]
    [] b[1] = "rows" -> RowClauses(a.n, start)
    [] b[1] = "degree" ->
         CardinalityClauses(a.degcard, Incident(a.n, b[2]),
                            Bounds(a).lower, Bounds(a).upper, start)
    [] b[1] = "blue" -> TriangleClauses(a.n, b[2], a.blue, start, 1)
    [] b[1] = "red" -> TriangleClauses(a.n, b[2], a.red, start, -1)
    [] b[1] = "maximal" -> MaximalityClauses(a.n, a.p, start)
    [] b[1] = "edges" -> CardinalityClauses(a.edgecard, EdgeList(a.n), a.lb, a.ub, start)

CurrentBlock == Block(args, Blocks(args)[next], count)

-----------------------------------------------------------------------------
GenInit ==
  /\ args \in Requests
  /\ stage = "start" /\ next = 1 /\ count = 0 /\ lines = 0
  /\ temp = <<>> /\ header = NoFile /\ final = NoFile
  /\ disturbances = 0

\* main.sh up to the call of generate.py; an instance that is there is used.
Start ==
  /\ stage = "start"
  /\ stage' = IF BoundsRejected(args) THEN "stopped"
              ELSE IF final # NoFile THEN "read" ELSE "writing"
  /\ next' = 1 /\ count' = Cardinality(EdgeVars(args.n)) /\ lines' = 0
  /\ UNCHANGED <<args, temp, header, final, disturbances>>

\* One block is appended; the next one starts at the variable after its last.
WriteBlock ==
  /\ stage = "writing" /\ next <= Len(Blocks(args)) /\ ~Fails(args, Blocks(args)[next])
  /\ LET block == CurrentBlock
     IN /\ temp' = temp \o Listed(block.clauses)
        /\ count' = block.count
        /\ lines' = lines + Cardinality(block.clauses)
  /\ next' = next + 1
  /\ UNCHANGED <<args, stage, header, final, disturbances>>

\* generate.py ends with a traceback, main.sh with a file it cannot copy.
GeneratorFails ==
  /\ stage = "writing" /\ next <= Len(Blocks(args)) /\ Fails(args, Blocks(args)[next])
  /\ stage' = "stopped"
  /\ UNCHANGED <<args, next, count, lines, temp, header, final, disturbances>>

\* combine.sh, line by line.
WriteHeader ==
  /\ stage = "writing" /\ next > Len(Blocks(args))
  /\ header' = <<count, lines>>
  /\ stage' = "cat"
  /\ UNCHANGED <<args, next, count, lines, temp, final, disturbances>>

Concatenate ==
  /\ stage = "cat"
  /\ final' = [first |-> header, clauses |-> temp]
  /\ stage' = "remove"
  /\ UNCHANGED <<args, next, count, lines, temp, header, disturbances>>

RemoveFiles ==
  /\ stage = "remove"
  /\ header' = NoFile /\ temp' = <<>>
  /\ stage' = "read"
  /\ UNCHANGED <<args, next, count, lines, final, disturbances>>

\* Mutant: the parser as with option -f, which reads what there is.
WellFormedForced(f) == f.first # NoFile

\* What the solver's parser asks of a file.
WellFormed(f) ==
  /\ f.first # NoFile
  /\ \A k \in DOMAIN f.clauses : \A x \in VarsOf(f.clauses[k]) : x <= f.first[1]
  /\ Len(f.clauses) = f.first[2]

Read ==
  /\ stage = "read"
  /\ stage' = IF WellFormed(final) THEN "accepted" ELSE "rejected"
  /\ UNCHANGED <<args, next, count, lines, temp, header, final, disturbances>>

-----------------------------------------------------------------------------
(* What else can happen to the files.                                      *)

\* The programs are killed, with a part of what they write in the file, and
\* main.sh is started again.
Kill ==
  /\ stage \in {"writing", "cat", "remove"} /\ disturbances < MaxDisturbances(args)
  /\ disturbances' = disturbances + 1
  /\ stage' = "start"
  /\ IF stage = "writing" /\ next <= Len(Blocks(args)) /\ ~Fails(args, Blocks(args)[next])
     THEN LET block == Listed(CurrentBlock.clauses)
          IN \E k \in Cuts(Len(block)) : temp' = temp \o SubSeq(block, 1, k)
     ELSE temp' = temp
  /\ IF stage = "cat"
     THEN \E k \in Cuts(Len(temp)), h \in {NoFile, header} :
            /\ h = NoFile => k = 0
            /\ final' = [first |-> h, clauses |-> SubSeq(temp, 1, k)]
     ELSE final' = final
  /\ UNCHANGED <<args, next, count, lines, header>>

\* combine.sh of another generator, with one clause more or less, writes the
\* file "header" or removes it.
OtherGenerator ==
  /\ stage \in {"cat", "remove"} /\ disturbances < MaxDisturbances(args)
  /\ disturbances' = disturbances + 1
  /\ header' \in {NoFile, <<count, lines - 1>>, <<count + 1, lines + 1>>}
  /\ UNCHANGED <<args, stage, next, count, lines, temp, final>>

Generate ==
  \/ Start \/ WriteBlock \/ GeneratorFails
  \/ WriteHeader \/ Concatenate \/ RemoveFiles \/ Read

Disturb == Kill \/ OtherGenerator
=============================================================================
