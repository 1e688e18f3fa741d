----------------------------- MODULE Migration -----------------------------
(***************************************************************************)
(* KAccountsKTpPlugin: old Telepathy accounts become KAccounts accounts.   *)
(* A counter tells when all of them are dealt with; then the account       *)
(* manager (MC) is restarted and the migration is marked as done.  The     *)
(* process may be stopped at any point, and starts over if it was not done.*)
(*                                                                         *)
(* MC and the KAccounts database are external: MC removes an account some  *)
(* time after it was asked to, if it is not killed before; the database    *)
(* stores an account some time after sync().                               *)
(***************************************************************************)
EXTENDS Integers, FiniteSets

CONSTANTS
    OldAccounts,
    MaxRestarts         \* bound: restarts of the process

ASSUME MigrationAssumption == IsFiniteSet(OldAccounts) /\ MaxRestarts \in Nat

VARIABLES
    tpAccounts,         \* account |-> "plain", "sso" (served by KAccounts), or "removed"
    mapped,             \* account |-> what the mapping says: "none", "kaccount", "missing"
    kaccounts,          \* account |-> number of KAccounts accounts made of it
    logsOf,             \* account |-> "old", "new" (renamed for its KAccounts account), "both"
    removing,           \* accounts that the account manager was asked to remove
    migration2Done, process, restarts,
    migrationRef,
    asked,              \* accounts whose storage provider was asked for
    syncing, stored,    \* accounts being stored, and those with a signal synced() to handle
    disturbed           \* history: accounts that met a failure or a restart midway

diskVars == <<tpAccounts, mapped, kaccounts, logsOf, migration2Done>>
migrationVars == <<diskVars, removing, process, restarts, migrationRef, asked, syncing, stored,
                   disturbed>>

MigrationInit ==
    /\ tpAccounts \in [OldAccounts -> {"plain", "sso"}]
    /\ mapped \in [OldAccounts -> {"none", "kaccount", "missing"}]
    /\ \A a \in OldAccounts : tpAccounts[a] = "sso" => mapped[a] = "none"
    /\ logsOf = [a \in OldAccounts |-> "old"]
    /\ kaccounts = [a \in OldAccounts |-> IF mapped[a] = "kaccount" THEN 1 ELSE 0]
    /\ removing = {} /\ migration2Done = FALSE
    /\ process = "starting" /\ restarts = 0 /\ migrationRef = 0
    /\ asked = {} /\ syncing = {} /\ stored = {} /\ disturbed = {}

Present == {a \in OldAccounts : tpAccounts[a] # "removed"}

\* The directory keeps its name if there is no account object, or if the new name is taken.
migrateLogs(migrating) ==
    logsOf' = [a \in OldAccounts |->
                 IF a \in migrating \cap Present /\ logsOf[a] = "old" THEN "new" ELSE logsOf[a]]

\* MC is killed, perhaps before it has removed all the accounts it was asked to.
derefMigrationCount ==
    /\ migrationRef' = migrationRef - 1
    /\ IF migrationRef' = 0
       THEN /\ migration2Done' = TRUE
            /\ \E unheard \in SUBSET removing' : disturbed' = disturbed \cup unheard
       ELSE UNCHANGED <<migration2Done, disturbed>>

\* Accounts that are known to have failed do not count in what is promised.
DerefFailed(a) ==
    /\ migrationRef' = migrationRef - 1
    /\ migration2Done' = (migrationRef' = 0)
    /\ disturbed' = disturbed \cup {a} \cup (IF migrationRef' = 0 THEN removing ELSE {})

\* An account with a mapping is removed, or left as it is if its KAccounts account is
\* missing; both lose the mapping.  Of the others the storage provider is asked for.
migrateTelepathyAccounts ==
    LET linked == {a \in Present : mapped[a] = "kaccount"}
        missing == {a \in Present : mapped[a] = "missing"}
    IN /\ migrationRef' = Cardinality(Present) - Cardinality(linked \cup missing)
       /\ mapped' = [a \in OldAccounts |-> IF a \in Present THEN "none" ELSE mapped[a]]
       /\ migrateLogs(linked \cup missing)
       /\ removing' = removing \cup linked
       /\ asked' = Present \ (linked \cup missing)
       /\ IF Present # {} /\ migrationRef' = 0
          THEN /\ migration2Done' = TRUE
               /\ \E unheard \in SUBSET removing' : disturbed' = disturbed \cup missing \cup unheard
          ELSE disturbed' = disturbed \cup missing /\ UNCHANGED migration2Done

migrateWhenReady ==
    /\ process = "starting" /\ process' = "running"
    /\ IF migration2Done
       THEN UNCHANGED <<mapped, logsOf, removing, migration2Done, migrationRef, asked, disturbed>>
       ELSE migrateTelepathyAccounts
    /\ UNCHANGED <<tpAccounts, kaccounts, restarts, syncing, stored>>

\* Mutant: an account is counted when its KAccounts account is made, and again when that
\* is stored.
CountedWhenMade == derefMigrationCount

CountedLater == UNCHANGED <<migrationRef, migration2Done, disturbed>>

\* The provider is the SSO plugin's, or the account has gone, or the new one cannot be
\* made.  An answer that is an error reads as another provider.
onStorageProviderRetrieved(a, error) ==
    /\ a \in asked /\ asked' = asked \ {a}
    /\ UNCHANGED <<tpAccounts, mapped, kaccounts, logsOf, removing, process, restarts, stored>>
    /\ \/ /\ tpAccounts[a] = "sso" /\ ~error
          /\ UNCHANGED syncing
          /\ derefMigrationCount
       \/ /\ tpAccounts[a] = "plain" /\ ~error
          /\ syncing' = syncing \cup {a}
          /\ CountedLater
       \/ /\ tpAccounts[a] # "removed" /\ error
          /\ syncing' = syncing \cup {a}
          /\ disturbed' = disturbed \cup {a} /\ UNCHANGED <<migrationRef, migration2Done>>
       \/ UNCHANGED syncing /\ DerefFailed(a)

AccountStored(a) ==
    /\ a \in syncing /\ syncing' = syncing \ {a}
    /\ kaccounts' = [kaccounts EXCEPT ![a] = @ + 1]
    /\ stored' = stored \cup {a}
    /\ UNCHANGED <<tpAccounts, mapped, logsOf, removing, migration2Done, process, restarts,
                   migrationRef, asked, disturbed>>

\* An account that has gone meanwhile has no object: the process ends.
onAccountSynced(a) ==
    /\ a \in stored /\ stored' = stored \ {a}
    /\ migrateLogs({a})
    /\ IF tpAccounts[a] = "removed"
       THEN /\ process' = "ended"
            /\ disturbed' = disturbed \cup {a}
            /\ UNCHANGED <<removing, migrationRef, migration2Done>>
       ELSE /\ removing' = removing \cup {a}
            /\ derefMigrationCount
            /\ UNCHANGED process
    /\ UNCHANGED <<tpAccounts, mapped, kaccounts, restarts, asked, syncing>>

\* MC does what it was asked, or the user removes an account.
AccountRemoved(a) ==
    /\ tpAccounts[a] # "removed" /\ tpAccounts' = [tpAccounts EXCEPT ![a] = "removed"]
    /\ disturbed' = IF a \in removing THEN disturbed ELSE disturbed \cup {a}
    /\ removing' = removing \ {a}
    /\ UNCHANGED <<mapped, kaccounts, logsOf, migration2Done, process, restarts, migrationRef,
                   asked, syncing, stored>>

\* The logger writes under the new name before the directory is renamed, or under the old
\* one after that, while both accounts exist.
LoggedMeanwhile(a) ==
    /\ \/ logsOf[a] = "old" /\ kaccounts[a] > 0
       \/ logsOf[a] = "new" /\ tpAccounts[a] # "removed"
    /\ logsOf' = [logsOf EXCEPT ![a] = "both"]
    /\ UNCHANGED <<tpAccounts, mapped, kaccounts, migration2Done, removing, process, restarts,
                   migrationRef, asked, syncing, stored, disturbed>>

\* MC forgets what it did not hear before it was killed.
Unheard(a) ==
    /\ a \in removing \cap disturbed /\ migration2Done
    /\ removing' = removing \ {a}
    /\ UNCHANGED <<diskVars, process, restarts, migrationRef, asked, syncing, stored, disturbed>>

\* The process is stopped, or killed, and started again at the next login.
Relogin ==
    /\ restarts < MaxRestarts /\ restarts' = restarts + 1
    /\ process' = "starting"
    /\ disturbed' = disturbed \cup syncing \cup stored \cup removing
    /\ asked' = {} /\ syncing' = {} /\ stored' = {} /\ migrationRef' = 0
    /\ UNCHANGED <<diskVars, removing>>

MigrationNext ==
    \/ /\ process # "ended"
       /\ \/ migrateWhenReady
          \/ \E a \in OldAccounts :
               \/ \E error \in BOOLEAN : onStorageProviderRetrieved(a, error)
               \/ onAccountSynced(a)
    \/ \E a \in OldAccounts : AccountStored(a) \/ AccountRemoved(a) \/ Unheard(a) \/ LoggedMeanwhile(a)
    \/ Relogin

-----------------------------------------------------------------------------
(* Properties.                                                             *)

\* When the migration is marked as done, nothing of it is under way, and every account
\* either is the new service's own, or was made into exactly one KAccounts account and
\* removed (or the account manager was asked to), and its logs have the new name, whatever
\* kinds of accounts were counted in whichever order and however often the process was
\* restarted; except accounts that met a failure, or a restart while they were being
\* stored or removed.
DoneMeansHandled ==
    migration2Done =>
        /\ asked = {} /\ syncing = {} /\ stored = {}
        /\ \A a \in OldAccounts \ disturbed :
             IF tpAccounts[a] = "sso" THEN kaccounts[a] = 0 /\ logsOf[a] = "old"
             ELSE kaccounts[a] = 1 /\ logsOf[a] # "old" /\ (tpAccounts[a] = "removed" \/ a \in removing)
=============================================================================
