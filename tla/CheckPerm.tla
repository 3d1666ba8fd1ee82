------------------------------ MODULE CheckPerm ------------------------------
(***************************************************************************)
(* check-perm.py: whether a trusted clause and the line with its rows show *)
(* that the clause blocks only matrices that a relabelling makes smaller.  *)
(* The matrices of the script have three kinds of entries, the literals of *)
(* the clause negated and, where it says nothing, the name of the entry.   *)
(***************************************************************************)
EXTENDS Canonicity, FiniteSets, Sequences

\* The rows of a line as the positions 0 .. m they are for.
Rows(s) == [a \in 0 .. (Len(s) - 1) |-> s[a + 1]]

(***************************************************************************)
(* matrix_lex on the permuted and the original matrix: up to the entry     *)
(* that is 0 in the first and 1 in the second, each entry is 0 in the      *)
(* first, 1 in the second, or the same in both.                            *)
(***************************************************************************)
Blocks(k, c, p) ==
  LET ones == {e \in Pairs(k) : <<e, FALSE>> \in c}
      zeros == {e \in Pairs(k) : <<e, TRUE>> \in c}
  IN \E e \in ones :
       /\ Image(p, e) \in zeros
       /\ \A f \in Pairs(k) : Before(f, e) =>
            f \in ones \/ Image(p, f) \in zeros \/ Image(p, f) = f

\* extend_perm: the vertices that are missing follow in increasing order.
Extended(k, p) ==
  LET rest == Vertices(k) \ {p[a] : a \in DOMAIN p}
      m == Cardinality(DOMAIN p)
  IN [a \in Vertices(k) |->
        IF a < m THEN p[a]
        ELSE CHOOSE v \in rest : Cardinality({w \in rest : w < v}) = a - m]

\* One line of the permutation file against one trusted clause.  Rows that are
\* no order of the vertices have no inverse, and the script stops.
Accepts(k, c, p) ==
  LET q == Extended(k, p) IN q \in Relabellings(k - 1, k) /\ Blocks(k, c, q)

\* assert on the length of the clause for a solution.
CompleteSolution(k, lits) == Len(lits) = Cardinality(Pairs(k))
=============================================================================
