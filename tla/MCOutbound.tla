------------------------------ MODULE MCOutbound ------------------------------
(***************************************************************************)
(* Three messages for two systems: m1 attaches a file and is killed when   *)
(* sent, m2 is in transit, attaches a file and requests one, m3 is for the *)
(* other system.                                                           *)
(***************************************************************************)
EXTENDS Outbound

CONSTANTS m1, m2, m3, s1, s2

Route == [m \in Msg |-> IF m = m3 THEN s2 ELSE s1]
=============================================================================
