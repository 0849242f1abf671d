------------------------------- MODULE RuleList -------------------------------
(***************************************************************************)
(* What a reader of the manual takes a route file to be: a list of rules   *)
(* in the order of their sentences.  A sentence adds one rule at the end   *)
(* once it says where mail goes, its later words only add to that rule,    *)
(* and nothing written afterwards changes a rule before it.                *)
(***************************************************************************)
EXTENDS RouteRules

VARIABLE rules

IsExtension(s, t) == Len(s) <= Len(t) /\ \A i \in 1 .. Len(s) : t[i] = s[i]

\* s is rule r after more words of its own sentence.
Grows(r, s) ==
  /\ s.direct = r.direct /\ s.mail = r.mail /\ s.files = r.files
  /\ s.system = r.system
  /\ s.encrypted => r.encrypted
  /\ s.plain => r.plain
  /\ IsExtension(r.to, s.to)
  /\ IsExtension(r.from, s.from)

Complete(r) == r.direct = "Routed" => r.system # NoAddress

EarlierStay(n) == \A i \in 1 .. n : rules'[i] = rules[i]

AddRule ==
  /\ Len(rules') = Len(rules) + 1
  /\ EarlierStay(Len(rules))
  /\ Complete(rules'[Len(rules')])

AmendLast ==
  /\ rules # << >>
  /\ Len(rules') = Len(rules)
  /\ EarlierStay(Len(rules) - 1)
  /\ Grows(rules[Len(rules)], rules'[Len(rules)])

Init == rules = << >>

Next == AddRule \/ AmendLast

Spec == Init /\ [][Next]_rules
=============================================================================
