----------------------------- MODULE MCDaemonLink -----------------------------
\* A machine with one agent.
EXTENDS DaemonLink
CONSTANTS p1
=============================================================================
