---------------------------- MODULE ContactList ----------------------------
(***************************************************************************)
(* The contact list of a Telepathy client, as three objects that call each *)
(* other synchronously in the main thread:                                 *)
(*   KTp::GlobalContactManager gathers the rosters of all connections,     *)
(*   KTp::ContactsListModel    keeps one row for each contact,             *)
(*   KTp::AbstractGroupingProxyModel, by account (AccountsTreeProxyModel)  *)
(*       or by roster group (GroupsTreeProxyModel), keeps a tree of them,  *)
(*       as KTp::ContactsModel::setGroupMode asks.                         *)
(* TelepathyQt is external: connections come and go, rosters are retrieved *)
(* and change.  A contact object lives as long as its connection, so an    *)
(* entry of the list is a contact together with the number of the          *)
(* connection of its account that it came with.                            *)
(***************************************************************************)
EXTENDS Integers, Sequences, FiniteSets, SequencesExt

CONSTANTS
    Contacts, Accounts,
    AccountOf,          \* the account of each contact
    ValidAccounts,      \* accounts with isValidAccount()
    Groups,             \* roster groups
    Unknown, Unsorted,  \* the groups for rows without account, without group
    MaxConnections      \* bound: connections of each account

ASSUME ContactListAssumption ==
    /\ IsFiniteSet(Contacts)
    /\ AccountOf \in [Contacts -> Accounts]
    /\ ValidAccounts \subseteq Accounts
    /\ MaxConnections \in [Accounts -> Nat \ {0}]

Modes == {"NoGrouping", "AccountGrouping", "GroupGrouping"}
AllGroups == Accounts \cup Groups \cup {Unknown, Unsorted}
Entries == UNION {{c} \X (1 .. MaxConnections[AccountOf[c]]) : c \in Contacts}

VARIABLES
    enabled,        \* enabled accounts
    conn,           \* list state of the account's connection; "None": no connection
    number,         \* connections of the account so far
    opening,        \* connections <<a, n>> with a becomeReady() in flight
    roster,         \* ContactManager::allKnownContacts() of connection <<a, n>>
    groupsOf,       \* Contact::groups() of each entry
    wired,          \* accounts with stateChanged of the connection connected
    relayed,        \* accounts with allKnownContactsChanged connected
    rows,           \* ContactsListModel: the contacts
    initialized,
    mode,           \* ContactsModel::groupMode
    loaded,         \* the proxy has run onLoad
    watched,        \* accounts with onAccountChanged connected
    tree,           \* the proxy
    missed,         \* history: entries whose last change was not passed on
    late            \* history: connections that were gone when announced

connVars == <<conn, number, opening, roster, wired, relayed>>
proxyVars == <<mode, loaded, watched>>
vars == <<enabled, connVars, groupsOf, rows, initialized, proxyVars, tree, missed, late>>

Connections == UNION {{a} \X (1 .. MaxConnections[a]) : a \in Accounts}
Live(a, n) == conn[a] # "None" /\ number[a] = n
Row(e) == \E i \in DOMAIN rows : rows[i] = e

-----------------------------------------------------------------------------
(* AbstractGroupingProxyModel.  `crashed' is set where a null pointer that *)
(* QHash::operator[] left in the group map is followed.                    *)

EmptyTree == [groups |-> {}, forced |-> {}, nulls |-> {}, nodes |-> {},
              cache |-> [e \in Entries |-> {}], crashed |-> FALSE]

\* groupsForIndex of the proxy for entry e, when the account's connection is c,
\* and the roster groups are gs.
groupsForIndex(e, c, gs) ==
    LET a == AccountOf[e[1]]
    IN IF mode = "AccountGrouping" THEN {IF c[a] # "None" /\ number[a] = e[2] THEN a ELSE Unknown}
       ELSE IF gs[e] = {} THEN {Unsorted} ELSE gs[e]

\* A node is a group with an entry.
GroupsIn(N) == {x[1] : x \in N}

NodesOf(E, c, gs) == UNION {groupsForIndex(e, c, gs) \X {e} : e \in E}

\* addProxyNode for the nodes N, in groups that itemForGroup makes if needed.
AddNodes(t, N) ==
    [t EXCEPT !.groups = @ \cup (GroupsIn(N) \ t.nulls),
              !.nodes = @ \cup N,
              !.crashed = @ \/ GroupsIn(N) \cap t.nulls # {}]

\* removeProxyNodes for the nodes N; groups that become empty go unless they are
\* forced.
RemoveNodes(t, N) ==
    [t EXCEPT !.nodes = @ \ N,
              !.groups = @ \ (GroupsIn(t.nodes \cap N) \ (GroupsIn(t.nodes \ N) \cup t.forced))]

NodeGroups(t, e) == {g \in AllGroups : <<g, e>> \in t.nodes}

\* Mutant: the old groups are not looked through.
dataChangedAdds(t, e, G) ==
    IF t.cache[e] = G THEN t
    ELSE AddNodes([t EXCEPT !.cache[e] = G], (G \ NodeGroups(t, e)) \X {e})

\* onDataChanged: the groups of e are G now.
dataChanged(t, e, G) ==
    IF t.cache[e] = G THEN t
    ELSE AddNodes(RemoveNodes([t EXCEPT !.cache[e] = G], (NodeGroups(t, e) \ G) \X {e}),
                  (G \ NodeGroups(t, e)) \X {e})

\* onRowsRemoved, before the rows of E go.
rowsRemoved(t, E) ==
    [RemoveNodes(t, {x \in t.nodes : x[2] \in E}) EXCEPT
       !.cache = [e \in Entries |-> IF e \in E THEN {} ELSE @[e]]]

forceGroup(t, g) ==
    IF g \in t.nulls THEN [t EXCEPT !.crashed = TRUE]
    ELSE [t EXCEPT !.groups = @ \cup {g}, !.forced = @ \cup {g}]

\* Reading the group map for a group without a node puts a null pointer there.
unforceGroup(t, g) ==
    IF g \notin t.groups THEN [t EXCEPT !.nulls = @ \cup {g}]
    ELSE [t EXCEPT !.forced = @ \ {g},
                   !.groups = IF \E e \in Entries : <<g, e>> \in t.nodes
                              THEN @ ELSE @ \ {g}]

groupChanged(t, g) == IF g \notin t.groups THEN [t EXCEPT !.nulls = @ \cup {g}] ELSE t

-----------------------------------------------------------------------------
(* ContactsListModel, with the proxy that listens to it.                   *)

\* The items of s with the numbers K, in order.
Items(s, K) ==
    [n \in 1 .. Cardinality(K) |-> s[CHOOSE i \in K : Cardinality({j \in K : j <= i}) = n]]

\* The first row of each of E goes.
WithoutFirst(s, E) ==
    Items(s, {i \in DOMAIN s : s[i] \in E => \E j \in 1 .. i - 1 : s[j] = s[i]})

\* onContactsChanged: `added' and `removed' are sets of entries; rows are added
\* in the order in which the set is iterated.
onContactsChanged(added, removed) ==
    \E order \in SetToSeqs(added) :
      LET grown == rows \o order
          full == AddNodes(tree, NodesOf(added, conn', groupsOf))
      IN /\ rows' = WithoutFirst(grown, removed)
         /\ tree' = IF loaded THEN rowsRemoved(full, removed \cap ToSet(grown)) ELSE tree
         /\ missed' = missed \ removed
         /\ initialized' = TRUE

\* Nothing is emitted.
NoChange == UNCHANGED <<rows, tree, missed, initialized>>

-----------------------------------------------------------------------------
(* GlobalContactManager.                                                   *)

Known(a, n) == {<<c, n>> : c \in roster[<<a, n>>]}

\* ContactsModel is made without grouping, before it gets the account manager.
ModelInit ==
    /\ mode = "NoGrouping"
    /\ loaded = FALSE
    /\ watched = {}
    /\ tree = EmptyTree
    /\ missed = {}

\* Connections that exist when the model is made; those accounts are online.
Init ==
    /\ enabled \in SUBSET Accounts
    /\ conn \in [Accounts -> {"None", "Waiting"}]
    /\ \A a \in Accounts : conn[a] # "None" => a \in enabled \cap ValidAccounts
    /\ number = [a \in Accounts |-> IF conn[a] = "None" THEN 0 ELSE 1]
    /\ opening = {<<a, 1>> : a \in {b \in Accounts : conn[b] # "None"}}
    /\ roster = [x \in Connections |-> {}]
    /\ groupsOf = [e \in Entries |-> {}]
    /\ wired = {}
    /\ relayed = {}
    /\ rows = <<>>
    /\ initialized = (opening = {})
    /\ ModelInit
    /\ late = {}

Running == ~tree.crashed

\* An account gets a connection: its roster is asked for.
onConnectionChanged(a) ==
    /\ Running
    /\ a \in enabled \cap ValidAccounts
    /\ conn[a] = "None"
    /\ number[a] < MaxConnections[a]
    /\ conn' = [conn EXCEPT ![a] = "Waiting"]
    /\ number' = [number EXCEPT ![a] = @ + 1]
    /\ opening' = opening \cup {<<a, number'[a]>>}
    /\ UNCHANGED <<enabled, late, roster, wired, relayed, groupsOf, proxyVars>>
    /\ NoChange

\* onContactManagerStateChanged, for the list of connection <<a, n>> whose state
\* is s: announce what is known and relay what changes.
Announce(a, n, s) ==
    IF s # "Success" THEN NoChange /\ UNCHANGED relayed
    ELSE /\ onContactsChanged(Known(a, n), {})
         /\ relayed' = IF Live(a, n) THEN relayed \cup {a} ELSE relayed

\* Mutant: later changes of the list's state are not listened to.
onConnectionReadyOnce(a, n) ==
    /\ Running
    /\ <<a, n>> \in opening
    /\ opening' = opening \ {<<a, n>>}
    /\ UNCHANGED <<enabled, conn, number, roster, wired, groupsOf, proxyVars>>
    /\ IF Live(a, n) THEN Announce(a, n, conn[a]) /\ UNCHANGED late
       ELSE \/ NoChange /\ UNCHANGED <<relayed, late>>
            \/ roster[<<a, n>>] # {} /\ Announce(a, n, "Success") /\ late' = late \cup {<<a, n>>}

\* The operation has finished, with or without an error: that of a connection
\* that went meanwhile may have retrieved the list before it failed.
onConnectionReady(a, n) ==
    /\ Running
    /\ <<a, n>> \in opening
    /\ opening' = opening \ {<<a, n>>}
    /\ wired' = IF Live(a, n) THEN wired \cup {a} ELSE wired
    /\ UNCHANGED <<enabled, conn, number, roster, groupsOf, proxyVars>>
    /\ IF Live(a, n) THEN Announce(a, n, conn[a]) /\ UNCHANGED late
       ELSE \/ NoChange /\ UNCHANGED <<relayed, late>>
            \/ roster[<<a, n>>] # {} /\ Announce(a, n, "Success") /\ late' = late \cup {<<a, n>>}

\* The list is retrieved.
ListRetrieved(a, R) ==
    /\ Running
    /\ conn[a] = "Waiting"
    /\ \A c \in R : AccountOf[c] = a
    /\ conn' = [conn EXCEPT ![a] = "Success"]
    /\ roster' = [roster EXCEPT ![<<a, number[a]>>] = R]
    /\ UNCHANGED <<enabled, late, number, opening, wired, groupsOf, proxyVars>>
    /\ IF a \in wired
       THEN /\ relayed' = relayed \cup {a}
            /\ onContactsChanged({<<c, number[a]>> : c \in R}, {})
       ELSE NoChange /\ UNCHANGED relayed

\* ContactManager::allKnownContactsChanged: c joins or leaves the list.
allKnownContactsChanged(c) ==
    LET a == AccountOf[c]
        x == <<a, number[a]>>
        e == <<c, number[a]>>
    IN /\ Running
       /\ conn[a] = "Success"
       /\ roster' = [roster EXCEPT ![x] = IF c \in @ THEN @ \ {c} ELSE @ \cup {c}]
       /\ UNCHANGED <<enabled, late, conn, number, opening, wired, relayed, groupsOf, proxyVars>>
       /\ IF a \notin relayed THEN NoChange
          ELSE IF c \in roster[x] THEN onContactsChanged({}, {e})
          ELSE onContactsChanged({e}, {})

\* The connection of a goes: each of its contacts in the model reports it, to
\* onConnectionDropped.
ConnectionInvalidated(a) ==
    /\ Running
    /\ conn[a] # "None"
    /\ conn' = [conn EXCEPT ![a] = "None"]
    /\ wired' = wired \ {a}
    /\ relayed' = relayed \ {a}
    /\ UNCHANGED <<enabled, late, number, opening, roster, groupsOf, proxyVars>>
    /\ LET gone == {e \in ToSet(rows) : AccountOf[e[1]] = a /\ e[2] = number[a]}
       IN IF gone = {} THEN NoChange ELSE onContactsChanged({}, gone)

-----------------------------------------------------------------------------
(* The user's other actions, and the proxy.                                *)

\* A contact with a row changes, its roster groups to G or anything else of it:
\* onChanged passes that on unless it is the first row.
onChanged(e, G) ==
    /\ Running
    /\ Row(e)
    /\ Live(AccountOf[e[1]], e[2])
    /\ groupsOf' = [groupsOf EXCEPT ![e] = G]
    /\ LET first == rows[1] = e
           T == dataChanged(tree, e, groupsForIndex(e, conn, groupsOf'))
       IN /\ tree' = IF first \/ ~loaded THEN tree ELSE T
          /\ missed' = IF ~loaded THEN missed
                       ELSE IF first /\ G # groupsOf[e] THEN missed \cup {e}
                       ELSE IF first THEN missed ELSE missed \ {e}
    /\ UNCHANGED <<enabled, late, connVars, rows, initialized, proxyVars>>

\* AccountsTreeProxyModel::onAccountAdded and onAccountRemoved.
AccountEnabledChanged(a) ==
    /\ Running
    /\ enabled' = IF a \in enabled THEN enabled \ {a} ELSE enabled \cup {a}
    /\ IF mode # "AccountGrouping" THEN UNCHANGED <<tree, watched>>
       ELSE IF a \in enabled THEN tree' = unforceGroup(tree, a) /\ UNCHANGED watched
       ELSE IF a \in ValidAccounts
            THEN tree' = forceGroup(tree, a) /\ watched' = watched \cup {a}
       ELSE UNCHANGED <<tree, watched>>
    /\ UNCHANGED <<connVars, groupsOf, rows, initialized, mode, loaded, missed, late>>

\* AccountsTreeProxyModel::onAccountChanged: also for accounts disabled since.
onAccountChanged(a) ==
    /\ Running
    /\ a \in watched
    /\ tree' = groupChanged(tree, a)
    /\ UNCHANGED <<enabled, late, connVars, groupsOf, rows, initialized, proxyVars, missed>>

\* ContactsModel::setGroupMode: a new proxy replaces the old one.
setGroupMode(m) ==
    /\ Running
    /\ m # mode
    /\ mode' = m
    /\ loaded' = FALSE
    /\ LET shown == IF m = "AccountGrouping" THEN enabled \cap ValidAccounts ELSE {}
       IN /\ watched' = shown
          /\ tree' = [EmptyTree EXCEPT !.groups = shown, !.forced = shown]
    /\ missed' = {}
    /\ UNCHANGED <<enabled, late, connVars, groupsOf, rows, initialized>>

\* The single shot timer of the constructor fires.
onLoad ==
    /\ Running
    /\ mode # "NoGrouping"
    /\ ~loaded
    /\ loaded' = TRUE
    /\ tree' = AddNodes(tree, NodesOf(ToSet(rows), conn, groupsOf))
    /\ UNCHANGED <<enabled, late, connVars, groupsOf, rows, initialized, mode, watched, missed>>

-----------------------------------------------------------------------------
Next ==
    \/ \E a \in Accounts :
        \/ onConnectionChanged(a)
        \/ \E n \in 1 .. MaxConnections[a] : onConnectionReady(a, n)
        \/ \E R \in SUBSET Contacts : ListRetrieved(a, R)
        \/ ConnectionInvalidated(a)
        \/ AccountEnabledChanged(a)
        \/ onAccountChanged(a)
    \/ \E c \in Contacts : allKnownContactsChanged(c)
    \/ \E e \in Entries, G \in SUBSET Groups : onChanged(e, G)
    \/ \E m \in Modes : setGroupMode(m)
    \/ onLoad

Spec == Init /\ [][Next]_vars

-----------------------------------------------------------------------------
(* Properties.                                                             *)

EachOnce == \A i \in DOMAIN rows, j \in DOMAIN rows : rows[i] = rows[j] => i = j

AllListed ==
    \A a \in Accounts :
        conn[a] = "Success" /\ <<a, number[a]>> \notin opening =>
            {e \in ToSet(rows) : AccountOf[e[1]] = a /\ e[2] = number[a]} = Known(a, number[a])

NoneLingers ==
    \A e \in ToSet(rows) : Live(AccountOf[e[1]], e[2]) \/ <<AccountOf[e[1]], e[2]>> \in late

\* The rows are the rosters: no contact has two rows, whichever of the three ways it was
\* announced in (with the ready connection, with the state of its list, as a change of
\* it); once the manager has seen the list of a connection, exactly the contacts on it
\* are shown; and they leave with the connection, but for those of one that was gone
\* before it was announced.
RowsAreRosters == EachOnce /\ AllListed /\ NoneLingers

NodesMatch ==
    /\ \A x \in tree.nodes : Row(x[2])
    /\ \A e \in ToSet(rows) \ missed : NodeGroups(tree, e) = groupsForIndex(e, conn, groupsOf)

HeadersMatch ==
    /\ \A x \in tree.nodes : x[1] \in tree.groups
    /\ \A g \in tree.groups \ tree.forced : \E e \in Entries : <<g, e>> \in tree.nodes
    /\ mode = "AccountGrouping" => tree.forced = enabled \cap ValidAccounts

\* The tree is the rows: a loaded proxy shows each row in exactly its groups, unless the
\* row missed a change while it was the first one; and there is a header for each group
\* with rows, and for no other one except those of the enabled accounts.
TreeIsRows == Running => HeadersMatch /\ (loaded => NodesMatch)

\* itemForGroup always returns a group node, making one if needed.
ItemForGroupReturns == Running
=============================================================================
