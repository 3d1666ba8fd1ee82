------------------------- MODULE MCInstanceToCubes -------------------------
EXTENDS InstanceToCubes

Plain(n, p, q) ==
  [n |-> n, p |-> p, q |-> q, lower |-> 0, upper |-> 0, blue |-> 0, red |-> 0,
   mpcf |-> "0", degcard |-> "sinz", edgecard |-> "sinz", lb |-> 0, ub |-> 0,
   strict |-> FALSE]

\* Each block with each encoding, bounds at their ends, blocks one after another,
\* the bounds from Ramsey numbers, bounds given alone, and what main.sh or
\* generate.py refuses.
SomeRequests ==
  {[Plain(4, 3, 3) EXCEPT !.mpcf = m] : m \in {"0", "zero"}}
  \cup {[Plain(4, 4, 4) EXCEPT !.lower = b[1], !.upper = b[2], !.degcard = t] :
          b \in {<<1, 1>>, <<1, 2>>, <<2, 3>>, <<3, 3>>}, t \in CardTypes}
  \cup {[Plain(4, 4, 4) EXCEPT !.lb = b[1], !.ub = b[2], !.edgecard = t] :
          b \in {<<2, 3>>, <<0, 4>>, <<5, 6>>}, t \in CardTypes}
  \cup {[Plain(4, 4, 4) EXCEPT !.blue = 1], [Plain(4, 4, 4) EXCEPT !.red = 1]}
  \cup {[Plain(4, 4, 4) EXCEPT !.blue = 1, !.red = 1, !.lower = 1, !.upper = 2,
           !.lb = 2, !.ub = 4, !.mpcf = m, !.edgecard = "totalizer"] : m \in {"0", "zero"}}
  \cup {[Plain(4, 3, 3) EXCEPT !.strict = TRUE], [Plain(5, 3, 3) EXCEPT !.strict = TRUE],
        [Plain(4, 3, 4) EXCEPT !.strict = TRUE]}
  \cup {[Plain(4, 4, 4) EXCEPT !.upper = 2], [Plain(4, 3, 3) EXCEPT !.mpcf = "MPCF"]}
  \cup {[Plain(4, 3, 3) EXCEPT !.lower = l, !.degcard = t] :
          l \in {1, 3}, t \in {"sinz", "totalizer"}}
  \cup {[Plain(4, 3, 3) EXCEPT !.lb = 3, !.edgecard = t] : t \in {"sinz", "totalizer"}}
  \cup {[Plain(4, 4, 4) EXCEPT !.lower = 1, !.upper = 2, !.ub = 3],
        Plain(4, 2, 3), Plain(4, 3, 4)}

\* One kill, or one other generator, where each kind of block is written once.
AtMostOne(a) == IF a.mpcf = "zero" \/ a.lb = 2 THEN 1 ELSE 0

None(a) == 0

EndsAndMiddle(len) == {0, len \div 2, len - 1, len} \cap (0 .. len)

\* Instances with and without solutions, cut by depth and by assigned variables.
Cubed(a) == a \in {Plain(4, 3, 3), Plain(4, 3, 4), Plain(4, 2, 3)}

SomeSettings(a) ==
  IF ~Cubed(a) THEN {}
  ELSE {[m |-> 6, n |-> c[1], d |-> c[2], recomp |-> c[3], all |-> b] :
          c \in {<<0, 2, 0>>, <<0, 2, 12>>, <<4, 0, 12>>, <<5, 3, 12>>}, b \in BOOLEAN}

SomeLimits(a) ==
  IF ~Cubed(a) THEN {} ELSE {[m |-> 6, r |-> r, e |-> 6] : r \in 1 .. 3}
=============================================================================
