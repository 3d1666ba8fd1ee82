------------------------------ MODULE MCOrderly ------------------------------
(* Instances of OrderlySearch for TLC.                                       *)
EXTENDS OrderlySearch, TLC

EdgeNumber(e) == (e[1] * (e[1] - 1)) \div 2 + e[2]

\* Distinct powers of two: no two graphs share a hash.
MCHashOf == [E \in SUBSET Pairs(N) |-> MapThenSumSet(LAMBDA e : 2 ^ EdgeNumber(e), E)]

Fresh == {[i \in 2 .. (N - 1) |-> FALSE]}
AnyMemory == [2 .. (N - 1) -> BOOLEAN]

\* The orders by column and by column from the last.
ColumnOrder == [k \in 1 .. Cardinality(Pairs(N)) |->
                  CHOOSE e \in Pairs(N) : EdgeNumber(e) = k - 1]
ReverseOrder == [k \in DOMAIN ColumnOrder |->
                   ColumnOrder[Len(ColumnOrder) + 1 - k]]
TwoOrders == {ColumnOrder, ReverseOrder}

\* Every formula that only fixes some of the edges.
PartialAssignments ==
  {C \in SUBSET {{l} : l \in Literals(N)} :
     \A c, d \in C : \A l \in c, m \in d : l[1] = m[1] => l = m}
\* Order 4: two entries fixed by the instance and clauses that relate others.
Instance4 ==
  {{{<<<<1, 0>>, FALSE>>}, {<<<<3, 1>>, TRUE>>}, {<<<<3, 0>>, FALSE>>, <<<<2, 1>>, TRUE>>},
    {<<<<2, 0>>, FALSE>>, <<<<2, 1>>, TRUE>>}}}
Both == BOOLEAN
Triangle == {{<<1, 0>>, <<2, 0>>, <<2, 1>>}}
NoForbidden == {}
NoColumns == {}
=============================================================================
