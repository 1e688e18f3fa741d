-------------------------- MODULE MCGlobalPresence --------------------------
(* GlobalPresence, HandlerApplication and PresenceLists for TLC; in a        *)
(* behaviour one of them runs.  Presences differ in type, in their message,  *)
(* or only as unset from offline; timeouts are off, zero and positive.       *)
EXTENDS GlobalPresence, HandlerApplication, PresenceLists

VARIABLE part

P(t, m) == [type |-> t, msg |-> m]

SomePresences == {P("Available", 1), unset, offline}
OnlineOffline == {P("Available", 0), offline}
AllStatuses == {"Disconnected", "Connecting", "Connected"}
OffZeroOn == {-1, 0, 1}
MCPresets == {P("Available", 0), P("Away", 1), P("Hidden", 1)}

\* Accounts that change their presence or have an error are left to later states.
SumInit ==
    /\ part \in {"presence", "handler", "lists"}
    /\ Init
    /\ \A a \in Accounts : ~changing[a] /\ ~error[a]
    /\ part # "presence" =>
         /\ enabled = {} /\ mError = FALSE
         /\ \A a \in Accounts : current[a] = offline /\ requested[a] = offline
                                /\ status[a] = "Disconnected"
    /\ HandlerInit
    /\ part # "handler" => s_persist /\ initialTimeout = 0 /\ timeout = 0
    /\ ListsInit
    /\ part # "lists" => saved = {}

SumNext ==
    /\ UNCHANGED part
    /\ \/ part = "presence" /\ Next /\ UNCHANGED <<handlerVars, listVars>>
       \/ part = "handler" /\ HandlerNext /\ UNCHANGED <<vars, listVars>>
       \/ part = "lists" /\ ListsNext /\ UNCHANGED <<vars, handlerVars>>

\* The fairness of FairSpec and FairHandlerSpec.  In the parts that do not run, neither
\* action is enabled: all accounts are offline, and a persistent process has no timer.
SumSpec ==
    /\ SumInit /\ [][SumNext]_<<part, vars, handlerVars, listVars>>
    /\ \A a \in Accounts : WF_vars(TakenOffline(a))
    /\ WF_handlerVars(TimeOut)
=============================================================================
