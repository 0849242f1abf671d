------------------------------ MODULE MCAnalysis ------------------------------
(***************************************************************************)
(* A node, 2:1/1, with a second address in another network, 3:1/2@b.       *)
(* Foreign systems: a point in our net, 2:1/3.1, a node of zone 1 and a    *)
(* node of network b.                                                      *)
(***************************************************************************)
EXTENDS Analysis

A(z, n, f, p) == [zone |-> z, net |-> n, node |-> f, point |-> p, domain |-> ""]
AtB(a) == [a EXCEPT !.domain = "b"]

Here == A(2, 1, 1, 0)
OtherHere == AtB(A(3, 1, 2, 0))
Near == A(2, 1, 3, 0)
Far == A(1, 5, 6, 0)
OurAddresses == << Here, OtherHere >>

H(format, dest, flags) ==
  [format |-> format, orig |-> A(2, 1, 3, 1), dest |-> dest, flags |-> flags]

\* To a point of another node, a point of ours, ourselves and another zone.
HeadersAll ==
  {H("msg", A(2, 1, 3, 2), {}), H("msg", A(2, 1, 1, 2), {"Crash"}),
   H("msg", A(2, 1, 3, 2), {"Hold", "FRQ"}), H("msg", Here, {}),
   H("squish", Far, {"DIR"}), H("squish", A(2, 1, 3, 2), {"IMM"})}

Via(a, long) == [kind |-> "Via", address |-> a, long |-> long]
Flags(f) == [kind |-> "FLAGS", flags |-> f]
Intl(d, o) == [kind |-> "INTL", dest |-> d, orig |-> o]

ViaLines == {Via(Here, FALSE), Via(Near, FALSE), Via(Near, TRUE),
             Via(NoAddress, FALSE), Via(AtB(A(3, 1, 2, 0)), FALSE)}

OtherLines ==
  {Intl(Far, Near), Intl(Near, NoAddress), Intl(NoAddress, Far),
   [kind |-> "TOPT", point |-> 2], [kind |-> "FMPT", point |-> 1],
   [kind |-> "MSGID", zone |-> 1], [kind |-> "ENC"],
   Flags({"ZON"}), Flags({"HUB"}), Flags({"LOK"}), Flags({"DIR", "FRQ"}), Flags({"Crash", "FPU"})}

AllLines == ViaLines \union OtherLines

Configurations ==
  {{}, {"VIABOSSDIRECT", "FASTECHOPACK", "NOLOOPROUTE"},
   {"VIABOSSHOLD", "FASTECHOPACK ALL", "IGNOREUNKNOWNATTRIBS", "-V"}}

FewHeaders == {H("msg", A(2, 1, 3, 2), {"Crash"})}
BossDirect == {{"VIABOSSDIRECT"}}
FewLines == {Flags({"ZON"}), Flags({"DIR", "FRQ"}), Intl(Far, Near),
             [kind |-> "TOPT", point |-> 2], [kind |-> "FMPT", point |-> 1]}

R(system, flavour) == [system |-> system, attrib |-> flavour]
RouteAnswers == {R(Near, "NORMAL"), R(AtB(A(3, 1, 7, 0)), "CRASH")}
LinksAll == {Near, AtB(A(3, 1, 7, 0))}
LeftBehind == {Here, Near}
=============================================================================
