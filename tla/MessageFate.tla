----------------------------- MODULE MessageFate ------------------------------
(***************************************************************************)
(* What the sysop relies on when cfroute packs netmail: delivery at least  *)
(* once.  A message stops waiting, that is, it is flagged sent or deleted, *)
(* only when a copy of it is on its way.  What he cannot rely on: that one *)
(* whose last conversion failed is kept.                                   *)
(***************************************************************************)
EXTENDS Naturals

CONSTANT Msg

VARIABLES
  fate,     \* what became of the .MSG: waiting, handled (flagged or deleted
            \* by cfroute), or withdrawn by its author
  copies,   \* packed copies of it, in a packet or sent
  failed    \* messages whose last conversion failed

Init ==
  /\ fate = [m \in Msg |-> "waiting"]
  /\ copies = [m \in Msg |-> 0]
  /\ failed = {}

Pack(m) ==
  /\ fate[m] # "handled"
  /\ copies' = [copies EXCEPT ![m] = @ + 1]
  /\ failed' = failed \ {m}
  /\ UNCHANGED fate

Fail(m) ==
  /\ fate[m] # "handled"
  /\ failed' = failed \cup {m}
  /\ UNCHANGED << fate, copies >>

Handle(m) ==
  /\ fate[m] = "waiting" /\ (copies[m] > 0 \/ m \in failed)
  /\ fate' = [fate EXCEPT ![m] = "handled"]
  /\ UNCHANGED << copies, failed >>

Withdraw(m) ==
  /\ fate[m] = "waiting"
  /\ fate' = [fate EXCEPT ![m] = "withdrawn"]
  /\ UNCHANGED << copies, failed >>

Next == \E m \in Msg : Pack(m) \/ Fail(m) \/ Handle(m) \/ Withdraw(m)

Spec == Init /\ [][Next]_<< fate, copies, failed >>
=============================================================================
