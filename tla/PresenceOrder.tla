--------------------------- MODULE PresenceOrder ---------------------------
(***************************************************************************)
(* KTp::Presence: types of presence, and the order in which presences count*)
(* as more or less online.  Messages are numbered in alphabetical order,   *)
(* and 0 is the empty one.                                                 *)
(***************************************************************************)
EXTENDS Integers

Types == {"Available", "Busy", "Away", "ExtendedAway", "Hidden",
          "Error", "Unknown", "Unset", "Offline"}

offline == [type |-> "Offline", msg |-> 0]
unset == [type |-> "Unset", msg |-> 0]

sortPriority(t) ==
    CASE t = "Available" -> 0 [] t = "Busy" -> 1 [] t = "Away" -> 2
      [] t = "ExtendedAway" -> 3 [] t = "Hidden" -> 4
      [] t \in {"Error", "Unknown", "Unset"} -> 5 [] t = "Offline" -> 6

Equal(p, q) == sortPriority(p.type) = sortPriority(q.type) /\ p.msg = q.msg

Less(p, q) ==
    \/ sortPriority(p.type) > sortPriority(q.type)
    \/ sortPriority(p.type) = sortPriority(q.type) /\ p.msg < q.msg
=============================================================================
