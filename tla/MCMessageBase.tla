---------------------------- MODULE MCMessageBase -----------------------------
\* A base of two messages and one to come: m1 is deleted when packed, m2 is flagged
\* and goes to another system, m3 is deleted.
EXTENDS MessageBase

CONSTANTS m1, m2, m3, s1, s2

InBase == << m1, m2 >>

Route == [m \in Msg |-> IF m = m2 THEN s2 ELSE s1]
=============================================================================
