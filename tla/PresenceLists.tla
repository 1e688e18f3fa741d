--------------------------- MODULE PresenceLists ---------------------------
(***************************************************************************)
(* KTp::PresenceModel in several processes: each keeps a list of presences *)
(* to choose from, tells the others of its changes by a D-Bus signal that  *)
(* also comes back to itself, and loads and saves one file.                *)
(*                                                                         *)
(* A list is sorted by priority and message, and has no two equal entries: *)
(* it is modelled as a set.  The bus delivers signals to all processes in  *)
(* one order.                                                              *)
(***************************************************************************)
EXTENDS PresenceOrder, Sequences

CONSTANTS
    Clients,            \* processes
    Presets,            \* presences that are added and removed, [type, msg]
    MaxListChanges      \* bound: calls of addPresence and removePresence

ASSUME ListsAssumption ==
    /\ Presets \subseteq [type : Types, msg : Nat]
    /\ MaxListChanges \in Nat

VARIABLES
    using,              \* processes that have a model
    m_presences,        \* their lists
    signals,            \* presenceModelChanged, sent and not yet received by them
    saved,              \* the file
    listChanges,        \* calls so far
    heard               \* history: presences a process received a signal about

listVars == <<using, m_presences, signals, saved, listChanges, heard>>

Custom(p) == p.msg # 0

DefaultPresences == {p \in Presets : ~Custom(p)}

\* A custom presence of another type is in the file, but is not loaded from it.
Loadable == {p \in Presets : Custom(p) /\ p.type \in {"Available", "Away", "Busy", "ExtendedAway"}}

ListsInit ==
    /\ using = {}
    /\ m_presences = [c \in Clients |-> {}] /\ signals = [c \in Clients |-> <<>>]
    /\ saved \in SUBSET Loadable
    /\ listChanges = 0
    /\ heard = [c \in Clients |-> {}]

\* A process starts, or ends.
loadPresences(c) ==
    /\ c \notin using /\ using' = using \cup {c}
    /\ m_presences' = [m_presences EXCEPT ![c] = DefaultPresences \cup (saved \cap Loadable)]
    /\ UNCHANGED <<signals, saved, listChanges, heard>>

Leave(c) ==
    /\ c \in using /\ using' = using \ {c}
    /\ m_presences' = [m_presences EXCEPT ![c] = {}]
    /\ signals' = [signals EXCEPT ![c] = <<>>]
    /\ heard' = [heard EXCEPT ![c] = {}]
    /\ UNCHANGED <<saved, listChanges>>

\* Removes the presence if it is listed, else inserts it.
modifyModel(c, p) ==
    m_presences' = [m_presences EXCEPT ![c] = IF p \in @ THEN @ \ {p} ELSE @ \cup {p}]

propagateChange(c, p) ==
    signals' = [d \in Clients |->
                  IF d \in using
                  THEN Append(signals[d], [presence |-> p, on |-> p \in m_presences'[c]])
                  ELSE signals[d]]

ListChange == listChanges < MaxListChanges /\ listChanges' = listChanges + 1

addPresence(c, p) ==
    /\ ListChange
    /\ c \in using /\ p \notin m_presences[c]
    /\ modifyModel(c, p)
    /\ propagateChange(c, p)
    /\ UNCHANGED <<using, saved, heard>>

removePresence(c, p) ==
    /\ ListChange
    /\ c \in using /\ p \in m_presences[c]
    /\ modifyModel(c, p)
    /\ propagateChange(c, p)
    /\ UNCHANGED <<using, saved, heard>>

\* Mutant: each change that is announced is made, also by the process that announced it.
propagationChangeAlways(c) ==
    /\ signals[c] # <<>>
    /\ signals' = [signals EXCEPT ![c] = Tail(@)]
    /\ LET p == Head(signals[c]).presence
       IN modifyModel(c, p) /\ heard' = [heard EXCEPT ![c] = @ \cup {p}]
    /\ UNCHANGED <<using, saved, listChanges>>

\* A signal from another process, or this process's own.
propagationChange(c) ==
    /\ signals[c] # <<>>
    /\ signals' = [signals EXCEPT ![c] = Tail(@)]
    /\ LET p == Head(signals[c]).presence
       IN /\ IF Head(signals[c]).on # (p \in m_presences[c]) THEN modifyModel(c, p)
             ELSE UNCHANGED m_presences
          /\ heard' = [heard EXCEPT ![c] = @ \cup {p}]
    /\ UNCHANGED <<using, saved, listChanges>>

\* The group is deleted and written anew.
syncCustomPresencesToDisk(c) ==
    /\ c \in using
    /\ saved' = {p \in m_presences[c] : Custom(p)}
    /\ UNCHANGED <<using, m_presences, signals, listChanges, heard>>

ListsNext ==
    \E c \in Clients :
      \/ loadPresences(c) \/ Leave(c)
      \/ propagationChange(c) \/ syncCustomPresencesToDisk(c)
      \/ \E p \in Presets : addPresence(c, p) \/ removePresence(c, p)

-----------------------------------------------------------------------------
(* Properties.                                                             *)

\* Two processes that heard of a change of a presence and have no signal left to
\* receive agree whether it is listed, however their own changes, and the signals that
\* come back to them, crossed.
ListsAgree ==
    \A c, d \in using : signals[c] = <<>> /\ signals[d] = <<>> =>
        \A p \in heard[c] \cap heard[d] : (p \in m_presences[c]) = (p \in m_presences[d])
=============================================================================
