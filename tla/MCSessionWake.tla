--------------------------- MODULE MCSessionWake ---------------------------
\* Two messages for one session, two listener rows and three events: both
\* messages and a prompt, both and a fault, or one message and two faults.
EXTENDS SessionWake
=============================================================================
