--------------------------- MODULE MCRouteDecision ----------------------------
(***************************************************************************)
(* The netmail of the runs that decide: see each definition.               *)
(***************************************************************************)
EXTENDS MCRouteTable, RouteDecision

A(n, p) == [node |-> n, point |-> p]

M(dest, transit) ==
  [dest |-> dest, transit |-> transit, orig |-> A(n2, p0),
   file |-> FALSE, encrypted |-> FALSE]

\* To a node, to a point but gated to that node, and to that node but gated
\* elsewhere.
Mail == {M(A(n2, p0), A(n2, p0)),
         M(A(n1, p1), A(n2, p0)),
         M(A(n2, p0), A(n1, p0))}
=============================================================================
