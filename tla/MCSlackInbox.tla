---------------------------- MODULE MCSlackInbox ----------------------------
(* A small instance of SlackInbox for TLC: a post and a reply in its thread. *)
EXTENDS SlackInbox

CONSTANTS post, reply

MCRootOf == [r \in {reply} |-> post]

\* Bound: a run is given up before anything has died or failed, and another
\* started beside it while there is only the post, the one line that launches.
GivenUpOnThePost ==
    /\ (\E d \in Drains : drain[d].aborted) => faults = 0
    /\ overlap => slack[reply] = "unsent"
=============================================================================
