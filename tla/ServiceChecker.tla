--------------------------- MODULE ServiceChecker ---------------------------
(***************************************************************************)
(* ServiceAvailabilityChecker: whether a D-Bus service runs or can be      *)
(* started, from two queries of the bus and the changes of the name's      *)
(* owner.  The bus sends replies and signals in one stream.                *)
(***************************************************************************)
EXTENDS Integers, Sequences

CONSTANTS
    MaxOwnerChanges     \* bound: changes of the owner

ASSUME CheckerAssumption == MaxOwnerChanges \in Nat

VARIABLES
    owned, activatable,     \* the service runs, can be started
    ownerChanges,           \* so far
    watching,               \* the checker exists
    queried,                  \* queries that the bus has not answered
    stream,                 \* what the bus sent
    serviceAvailable, serviceActivatable,
    failed                  \* history: queries that were answered with an error

checkerVars == <<owned, activatable, ownerChanges, watching, queried, stream, serviceAvailable,
                 serviceActivatable, failed>>

CheckerInit ==
    /\ owned \in BOOLEAN /\ activatable \in BOOLEAN /\ ownerChanges = 0
    /\ watching = FALSE /\ queried = {} /\ stream = <<>>
    /\ serviceAvailable = FALSE /\ serviceActivatable = FALSE
    /\ failed = {}

\* The owner's changes are watched before the queries are made.
introspect ==
    /\ ~watching /\ watching' = TRUE
    /\ queried' = {"ListActivatableNames", "ListNames"}
    /\ UNCHANGED <<owned, activatable, ownerChanges, stream, serviceAvailable, serviceActivatable,
                   failed>>

\* The service starts, stops, or another process takes over.
OwnerChanges(present) ==
    /\ ownerChanges < MaxOwnerChanges /\ ownerChanges' = ownerChanges + 1
    /\ owned \/ present
    /\ owned' = present
    /\ stream' = IF watching
                 THEN Append(stream, [event |-> "ownerChanged", old |-> owned, new |-> present])
                 ELSE stream
    /\ UNCHANGED <<activatable, watching, queried, serviceAvailable, serviceActivatable, failed>>

BusAnswers(call, error) ==
    /\ call \in queried /\ queried' = queried \ {call}
    /\ stream' = Append(stream, [event |-> call, error |-> error,
                                 contains |-> IF call = "ListNames" THEN owned ELSE activatable])
    /\ failed' = IF error THEN failed \cup {call} ELSE failed
    /\ UNCHANGED <<owned, activatable, ownerChanges, watching, serviceAvailable,
                   serviceActivatable>>

Next1(event) == stream # <<>> /\ Head(stream).event = event /\ stream' = Tail(stream)

onCallFinished ==
    /\ \E call \in {"ListActivatableNames", "ListNames"} :
         /\ Next1(call)
         /\ LET reply == Head(stream)
            IN /\ serviceActivatable' = IF ~reply.error /\ call = "ListActivatableNames"
                                        THEN reply.contains ELSE serviceActivatable
               /\ serviceAvailable' = IF ~reply.error /\ call = "ListNames" /\ ~serviceAvailable
                                      THEN reply.contains ELSE serviceAvailable
    /\ UNCHANGED <<owned, activatable, ownerChanges, watching, queried, failed>>

\* Mutant: a new owner counts only for a service that had none.
AvailableAfterFirst(change) == change.new /\ ~change.old

AvailableAfter(change) == change.new

onServiceOwnerChanged ==
    /\ Next1("ownerChanged")
    /\ serviceAvailable' = AvailableAfter(Head(stream))
    /\ UNCHANGED <<owned, activatable, ownerChanges, watching, queried, serviceActivatable, failed>>

isAvailable == serviceAvailable \/ serviceActivatable

CheckerNext ==
    \/ introspect \/ onCallFinished \/ onServiceOwnerChanged
    \/ \E present \in BOOLEAN : OwnerChanges(present)
    \/ \E call \in {"ListActivatableNames", "ListNames"}, error \in BOOLEAN :
         BusAnswers(call, error)

-----------------------------------------------------------------------------
(* Properties.                                                             *)

\* Once everything that the bus sent is handled, the checker knows whether the service
\* is there, however its starts, stops and takeovers fell between the queries and
\* their answers; unless a query failed.
AvailabilityIsCurrent ==
    watching /\ queried = {} /\ stream = <<>> /\ failed = {} => isAvailable = (owned \/ activatable)
=============================================================================
