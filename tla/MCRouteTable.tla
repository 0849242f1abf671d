----------------------------- MODULE MCRouteTable -----------------------------
(***************************************************************************)
(* Small route files: two nodes, the node itself and one of its points,    *)
(* and the vocabularies of the runs.                                       *)
(***************************************************************************)
EXTENDS RouteTable

CONSTANTS n1, n2, p0, p1

W(n, p, d) == [node |-> n, point |-> p, dotted |-> d]
V(d, m, f) == [direct |-> d, mail |-> m, files |-> f]

\* 1:1/1, *
WordsFew == {W(n1, p0, FALSE), W(Star, Star, FALSE)}

\* 1:1/2, *
WordsDecide == {W(n2, p0, FALSE), W(Star, Star, FALSE)}

RouteTo == V("Routed", TRUE, TRUE)
DirectTo == V("Direct", TRUE, TRUE)
NoPackTo == V("NoPack", TRUE, TRUE)

VerbsRead == {RouteTo, DirectTo}
VerbsDecide == {RouteTo, NoPackTo}
=============================================================================
