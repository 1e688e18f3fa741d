---------------------------- MODULE MessageQueue ----------------------------
(***************************************************************************)
(* What a client of a text channel is promised: a message is announced     *)
(* before it is removed, never twice while it is there, and once the queue *)
(* has been filled for the first time a removed message does not return.   *)
(***************************************************************************)
CONSTANT Ids

VARIABLES
    shown,      \* messages announced and not removed
    gone,       \* messages that were removed, or were no longer pending
    filled      \* the first contents of the queue have been read

vars == <<shown, gone, filled>>

Init == shown = {} /\ gone = {} /\ filled = FALSE

Announce(i) ==
    /\ i \notin shown
    /\ filled => i \notin gone
    /\ shown' = shown \cup {i}
    /\ UNCHANGED <<gone, filled>>

Remove(i) ==
    /\ shown' = shown \ {i}
    /\ gone' = gone \cup {i}
    /\ UNCHANGED filled

\* The initial contents, all at once.
Fill(ids) ==
    /\ ~filled
    /\ filled' = TRUE
    /\ shown' = shown \cup ids
    /\ UNCHANGED gone

Next ==
    \/ \E i \in Ids : Announce(i) \/ Remove(i)
    \/ \E ids \in SUBSET Ids : Fill(ids)

Spec == Init /\ [][Next]_vars
=============================================================================
