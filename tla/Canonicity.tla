----------------------------- MODULE Canonicity -----------------------------
(***************************************************************************)
(* The graphs of cadical-ks/src/symbreak.cpp and the order its canonicity  *)
(* test works with.  An entry of the adjacency matrix is the pair <<x, y>> *)
(* with y < x; the solver numbers it x*(x-1)/2 + y + 1, so the variables   *)
(* run through the matrix column by column and "variable order" is the     *)
(* order Before on pairs.                                                  *)
(***************************************************************************)
EXTENDS Integers

Vertices(k) == 0 .. (k - 1)

\* The matrix entries of the subgraph on the first k vertices.
Pairs(k) == {e \in Vertices(k) \X Vertices(k) : e[2] < e[1]}

\* The entries of column i: those the scan of cb_has_external_clause adds
\* when it goes from the subgraph of order i to the one of order i + 1.
Column(i) == {e \in Pairs(i + 1) : e[1] = i}

Graphs(k) == [Pairs(k) -> BOOLEAN]

Before(e, f) == e[1] < f[1] \/ (e[1] = f[1] /\ e[2] < f[2])

Unordered(a, b) == IF a > b THEN <<a, b>> ELSE <<b, a>>

\* The entry of M that a relabelling p puts at entry e of p(M).
Image(p, e) == Unordered(p[e[1]], p[e[2]])

\* The relabellings that say where the first m + 1 rows come from.
Relabellings(m, k) ==
  {p \in [0 .. m -> Vertices(k)] : \A a, b \in 0 .. m : p[a] = p[b] => a = b}

\* p(G) agrees with G before entry e and is smaller there.
SmallerAt(G, p, e) ==
  /\ G[e]
  /\ ~G[Image(p, e)]
  /\ \A f \in Pairs(e[1] + 1) : Before(f, e) => G[Image(p, f)] = G[f]

\* The reference: no relabelling of all k vertices gives a smaller matrix.
Canonical(k, G) ==
  \A p \in Relabellings(k - 1, k) : \A e \in Pairs(k) : ~SmallerAt(G, p, e)

CanonicalGraphs(k) == {G \in Graphs(k) : Canonical(k, G)}

\* What a run of the canonicity test on k vertices may hand back with the
\* answer "not canonical": the rows 0 .. m it has placed and the deciding entry.
Candidates(k) ==
  UNION {{[p |-> p, e |-> e] : p \in Relabellings(m, k), e \in Pairs(m + 1)} :
           m \in 1 .. (k - 1)}

-----------------------------------------------------------------------------
(* Literals and clauses over the entries.                                  *)

Literals(k) == Pairs(k) \X BOOLEAN

Negation(l) == <<l[1], ~l[2]>>

Satisfies(G, c) == \E l \in c : G[l[1]] = l[2]

\* Mutant: the positive literal of the deciding entry is forgotten.
BlockingClauseNoImage(G, p, e) ==
  {<<e, FALSE>>}
    \cup {<<f, FALSE>> : f \in {g \in Pairs(e[1] + 1) : Before(g, e) /\ G[g]}}

\* Mutant: the image of the deciding entry gets the wrong sign.
BlockingClauseSign(G, p, e) ==
  {<<e, FALSE>>, <<Image(p, e), FALSE>>}
    \cup {<<f, FALSE>> : f \in {g \in Pairs(e[1] + 1) : Before(g, e) /\ G[g]}}

(***************************************************************************)
(* The clause symbreak.cpp builds from a witness.  "Smaller than the naive *)
(* blocking clause": an entry that p leaves in place is skipped, one that  *)
(* is an edge gives a negative literal, one that is not gives the positive *)
(* literal of its image (which is then no edge either).                    *)
(***************************************************************************)
BlockingClause(G, p, e) ==
  {<<e, FALSE>>, <<Image(p, e), TRUE>>}
    \cup {<<f, FALSE>> : f \in {g \in Pairs(e[1] + 1) :
                                  Before(g, e) /\ Image(p, g) # g /\ G[g]}}
    \cup {<<Image(p, f), TRUE>> : f \in {g \in Pairs(e[1] + 1) :
                                  /\ Before(g, e) /\ Image(p, g) # g
                                  /\ ~G[g] /\ ~G[Image(p, g)]}}
=============================================================================
