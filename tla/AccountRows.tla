---------------------------- MODULE AccountRows ----------------------------
(***************************************************************************)
(* KTp::AccountsListModel: one row for each account of a set, in order of  *)
(* service and name.  Views read a row when it is inserted and when it is  *)
(* announced as changed.                                                   *)
(***************************************************************************)
EXTENDS Integers, Sequences, SequencesExt

CONSTANTS
    RowAccounts,        \* accounts; also their rank by service and name
    Values,             \* values of their properties
    On,                 \* the value of an account that is enabled, and of one connected
    MaxAccountChanges   \* bound: changes of the set and of properties

ASSUME RowsAssumption ==
    RowAccounts \subseteq Nat /\ On \in Values /\ MaxAccountChanges \in Nat

\* The properties that roles show, and those whose change reaches the rows.
Shown == {"displayName", "connectionStatus", "currentPresence", "iconName", "enabled",
          "requestedPresence", "statusHandlerPresence"}
Followed == {"displayName", "connectionStatus", "currentPresence", "iconName", "enabled"}

VARIABLES
    accountSet,         \* the accounts of the set
    properties,         \* of all accounts
    accounts,           \* the rows
    receiving,          \* accounts whose signals the model receives
    lastRead,           \* what a view read of the row of an account
    accountChanges      \* so far

rowVars == <<accountSet, properties, accounts, receiving, lastRead, accountChanges>>

\* The state that a row shows in words and as an icon.
connectionStateString(values) ==
    IF values.enabled # On THEN "disabled"
    ELSE IF values.connectionStatus # On THEN "disconnected"
    ELSE values.currentPresence

RowRead(values) == [values |-> values, state |-> connectionStateString(values)]

RowsInit ==
    /\ accountSet = {} /\ accounts = <<>> /\ receiving = {}
    /\ properties = [a \in RowAccounts |-> [p \in Shown |-> On]]
    /\ lastRead = [a \in RowAccounts |-> RowRead(properties[a])]
    /\ accountChanges = 0

AccountChange == accountChanges < MaxAccountChanges /\ accountChanges' = accountChanges + 1

\* Mutant: the place is searched among the rows that are greater.
LowerBoundPast(a) == Len(SelectSeq(accounts, LAMBDA b : b > a)) + 1

\* std::lower_bound: only the rows before the place are less.
LowerBound(a) ==
    CHOOSE k \in 1 .. Len(accounts) + 1 : \A i \in DOMAIN accounts : i < k <=> accounts[i] < a

\* accountAdded, and setAccountSet for the accounts of its set.
onAccountAdded(a) ==
    /\ AccountChange
    /\ a \notin accountSet /\ accountSet' = accountSet \cup {a}
    /\ IF a \in ToSet(accounts) THEN UNCHANGED <<accounts, receiving, lastRead>>
       ELSE /\ accounts' = InsertAt(accounts, LowerBound(a), a)
            /\ receiving' = receiving \cup {a}
            /\ lastRead' = [lastRead EXCEPT ![a] = RowRead(properties[a])]
    /\ UNCHANGED <<properties>>

\* The model goes on receiving the signals of the account.
onAccountRemoved(a) ==
    /\ AccountChange
    /\ a \in accountSet /\ accountSet' = accountSet \ {a}
    /\ accounts' = RemoveAt(accounts, CHOOSE i \in DOMAIN accounts : accounts[i] = a)
    /\ UNCHANGED <<properties, receiving, lastRead>>

\* For a change that the status handler announces the slot is called without sender: it
\* asserts that there is one, and without assertions returns.
onAccountUpdated(a, p) ==
    /\ lastRead' = IF a \in receiving /\ a \in ToSet(accounts) /\ p \in Followed
                   THEN [lastRead EXCEPT ![a] = RowRead(properties'[a])] ELSE lastRead

\* From outside or by setData, which leaves it to the account to announce the change.
PropertyChanged(a, p, v) ==
    /\ AccountChange
    /\ properties[a][p] # v
    /\ properties' = [properties EXCEPT ![a][p] = v]
    /\ onAccountUpdated(a, p)
    /\ UNCHANGED <<accountSet, accounts, receiving>>

RowsNext ==
    \E a \in RowAccounts :
      \/ onAccountAdded(a) \/ onAccountRemoved(a)
      \/ \E p \in Shown, v \in Values : PropertyChanged(a, p, v)

-----------------------------------------------------------------------------
(* Properties.                                                             *)

\* There is exactly one row for each account of the set, the rows are in order, and a
\* view has the current state and values of all that the model follows, also for
\* accounts that were removed and came back.
AccountRowsCurrent ==
    /\ ToSet(accounts) = accountSet
    /\ \A i, j \in DOMAIN accounts : i < j => accounts[i] < accounts[j]
    /\ \A a \in accountSet :
         /\ lastRead[a].state = connectionStateString(properties[a])
         /\ \A p \in Followed : lastRead[a].values[p] = properties[a][p]
=============================================================================
