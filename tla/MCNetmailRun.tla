----------------------------- MODULE MCNetmailRun -----------------------------
\* Two messages for one system.
EXTENDS NetmailRun

CONSTANTS m1, m2, s1

OneSystem == [m \in Msg |-> s1]
=============================================================================
