--------------------------- MODULE GlobalPresence ---------------------------
(***************************************************************************)
(* KTp::GlobalPresence: one presence, one connection status and a few flags*)
(* that sum up all enabled accounts, kept up to date from the signals of   *)
(* the accounts.  Each slot returns at once when the account's new value is*)
(* the one already shown, and otherwise computes the sum anew.             *)
(*                                                                         *)
(* Accounts and account sets are external (TelepathyQt): a property of an  *)
(* account changes, then its signal is delivered.  The kded module that    *)
(* setPresence calls acts by changing the requested presences.             *)
(***************************************************************************)
EXTENDS PresenceOrder

CONSTANTS
    Accounts,
    Presences,      \* presences that accounts take: [type, msg]
    Requests,       \* presences that are requested of accounts
    Changing,       \* the values isChangingPresence() takes
    Statuses        \* the connection statuses that accounts take

ASSUME PresenceAssumption ==
    /\ Presences \subseteq [type : Types, msg : Nat]
    /\ Requests \subseteq [type : Types, msg : Nat]
    /\ Changing \subseteq BOOLEAN
    /\ Statuses \subseteq {"Disconnected", "Connecting", "Connected"}

-----------------------------------------------------------------------------
VARIABLES
    ready,          \* setAccountManager was called
    enabled,        \* m_enabledAccounts
    listening,      \* accounts whose signals are connected to the slots
    \* properties of the accounts
    current, requested, changing, status, error,
    \* GlobalPresence
    mCurrent, mRequested, mChanging, mStatus, mError, mHasEnabled

accountVars == <<current, requested, changing, status, error>>
globalVars == <<mCurrent, mRequested, mChanging, mStatus, mError>>
vars == <<ready, enabled, listening, accountVars, globalVars, mHasEnabled>>

\* A connection error is kept by an account that is not connected.
Failed(e, s) == e => s = "Disconnected"

\* m_hasConnectionError is not initialised: it may hold anything.
Init ==
    /\ ready = FALSE
    /\ enabled \in SUBSET Accounts
    /\ listening = {}
    /\ current \in [Accounts -> Presences]
    /\ requested \in [Accounts -> Requests]
    /\ changing \in [Accounts -> Changing]
    /\ status \in [Accounts -> Statuses]
    /\ error \in [Accounts -> BOOLEAN]
    /\ \A a \in Accounts : Failed(error[a], status[a])
    /\ mCurrent = unset
    /\ mRequested = unset
    /\ mChanging = FALSE
    /\ mStatus = "Disconnected"
    /\ mError \in BOOLEAN
    /\ mHasEnabled = FALSE

-----------------------------------------------------------------------------
(* The slots, for the accounts A that signal, when E are enabled.  `f' is  *)
(* the property of the accounts.                                           *)

\* Mutant: the search takes a presence when it is below the one found.
Lowest(f, E) ==
    LET all == {offline} \cup {f[a] : a \in E}
    IN {p \in all : \A q \in all : ~Less(q, p)}

\* The presences that the search for the highest can end with.
Highest(f, E) ==
    LET all == {offline} \cup {f[a] : a \in E}
    IN {p \in all : \A q \in all : ~Less(p, q)}

\* onCurrentPresenceChanged and onRequestedPresenceChanged: the new value of m.
PresenceChanged(m, A, f, E) ==
    IF \A a \in A : Equal(m, f[a]) THEN {m}
    ELSE IF \E h \in Highest(f, E) : Equal(h, m) THEN {m} ELSE Highest(f, E)

onChangingPresence(A, f, E) ==
    mChanging' = IF \A a \in A : f[a] = mChanging THEN mChanging
                 ELSE \E a \in E : f[a]

\* The status over all enabled accounts.
OverallStatus(f, E) ==
    CASE \E a \in E : f[a] = "Connecting" -> "Connecting"
      [] \A a \in E : f[a] = "Disconnected" -> "Disconnected"
      [] OTHER -> "Connected"

onConnectionStatusChanged(A, f, err, E) ==
    IF \A a \in A : f[a] = mStatus THEN UNCHANGED <<mStatus, mError>>
    ELSE /\ mStatus' = OverallStatus(f, E)
         /\ mError' = (\E a \in E : err[a])

\* Mutant: disabling an account does disconnect its signals.
onAccountEnabledChangedLeaves(A, E) ==
    /\ listening' = (listening \ A) \cup (A \cap E)
    /\ mCurrent' \in PresenceChanged(mCurrent, A, current, E)
    /\ mRequested' \in PresenceChanged(mRequested, A, requested, E)
    /\ onChangingPresence(A, changing, E)
    /\ onConnectionStatusChanged(A, status, error, E)
    /\ mHasEnabled' = (IF A = {} THEN mHasEnabled ELSE E # {})

\* Mutant: the sums are not computed for an account that is added or removed.
onAccountEnabledChangedLazy(A, E) ==
    /\ listening' = listening \cup (A \cap E)
    /\ mHasEnabled' = (IF A = {} THEN mHasEnabled ELSE E # {})
    /\ UNCHANGED globalVars

\* onAccountEnabledChanged for the accounts A.  The call in its else branch,
\* disconnect(account), drops connections from this object to the account, of
\* which there are none: a disabled account is still listened to.
onAccountEnabledChanged(A, E) ==
    /\ listening' = listening \cup (A \cap E)
    /\ mCurrent' \in PresenceChanged(mCurrent, A, current, E)
    /\ mRequested' \in PresenceChanged(mRequested, A, requested, E)
    /\ onChangingPresence(A, changing, E)
    /\ onConnectionStatusChanged(A, status, error, E)
    /\ mHasEnabled' = (IF A = {} THEN mHasEnabled ELSE E # {})

-----------------------------------------------------------------------------
setAccountManager ==
    /\ ~ready
    /\ ready' = TRUE
    /\ onAccountEnabledChanged(enabled, enabled)
    /\ UNCHANGED <<enabled, accountVars>>

\* An account is enabled, or it is disabled or deleted.
AccountEnabledChanged(a) ==
    /\ ready
    /\ enabled' = IF a \in enabled THEN enabled \ {a} ELSE enabled \cup {a}
    /\ onAccountEnabledChanged({a}, enabled')
    /\ UNCHANGED <<ready, accountVars>>

CurrentPresenceChanged(a, p) ==
    /\ ready
    /\ current[a] # p
    /\ current' = [current EXCEPT ![a] = p]
    /\ mCurrent' \in IF a \in listening
                     THEN PresenceChanged(mCurrent, {a}, current', enabled)
                     ELSE {mCurrent}
    /\ UNCHANGED <<ready, enabled, listening, requested, changing, status, error,
                   mRequested, mChanging, mStatus, mError, mHasEnabled>>

RequestedPresenceChanged(a, p) ==
    /\ ready
    /\ requested[a] # p
    /\ requested' = [requested EXCEPT ![a] = p]
    /\ mRequested' \in IF a \in listening
                       THEN PresenceChanged(mRequested, {a}, requested', enabled)
                       ELSE {mRequested}
    /\ UNCHANGED <<ready, enabled, listening, current, changing, status, error,
                   mCurrent, mChanging, mStatus, mError, mHasEnabled>>

ChangingPresence(a, b) ==
    /\ ready
    /\ changing[a] # b
    /\ changing' = [changing EXCEPT ![a] = b]
    /\ IF a \in listening THEN onChangingPresence({a}, changing', enabled)
                          ELSE UNCHANGED mChanging
    /\ UNCHANGED <<ready, enabled, listening, current, requested, status, error,
                   mCurrent, mRequested, mStatus, mError, mHasEnabled>>

ConnectionStatusChanged(a, s, e) ==
    /\ ready
    /\ status[a] # s
    /\ Failed(e, s)
    /\ status' = [status EXCEPT ![a] = s]
    /\ error' = [error EXCEPT ![a] = e]
    /\ IF a \in listening THEN onConnectionStatusChanged({a}, status', error', enabled)
                          ELSE UNCHANGED <<mStatus, mError>>
    /\ UNCHANGED <<ready, enabled, listening, current, requested, changing,
                   mCurrent, mRequested, mChanging, mHasEnabled>>

AccountStep(a) ==
    \/ AccountEnabledChanged(a)
    \/ \E p \in Presences : CurrentPresenceChanged(a, p)
    \/ \E p \in Requests : RequestedPresenceChanged(a, p)
    \/ \E b \in Changing : ChangingPresence(a, b)
    \/ \E s \in Statuses, e \in BOOLEAN : ConnectionStatusChanged(a, s, e)

Next == setAccountManager \/ \E a \in Accounts : AccountStep(a)

Spec == Init /\ [][Next]_vars

\* A disabled account is taken offline by the account manager.
TakenOffline(a) == a \notin enabled /\ CurrentPresenceChanged(a, offline)

FairSpec == Spec /\ \A a \in Accounts : WF_vars(TakenOffline(a))

-----------------------------------------------------------------------------
(* Properties.                                                             *)

\* All values have their types.
TypeOK ==
    /\ ready \in BOOLEAN
    /\ enabled \in SUBSET Accounts
    /\ listening \in SUBSET Accounts
    /\ current \in [Accounts -> Presences]
    /\ requested \in [Accounts -> Requests]
    /\ changing \in [Accounts -> Changing]
    /\ status \in [Accounts -> Statuses]
    /\ error \in [Accounts -> BOOLEAN]
    /\ mCurrent \in Presences \cup {offline, unset}
    /\ mRequested \in Requests \cup {offline, unset}
    /\ mChanging \in BOOLEAN
    /\ mStatus \in {"Disconnected", "Connecting", "Connected"}
    /\ mError \in BOOLEAN
    /\ mHasEnabled \in BOOLEAN

\* The early returns never hide an account: no enabled account is more
\* available, connecting or changing its presence behind the values shown.
NeverUnderstates ==
    ready => \A a \in enabled :
        /\ ~Less(mCurrent, current[a])
        /\ ~Less(mRequested, requested[a])
        /\ changing[a] => mChanging
        /\ status[a] = "Connecting" => mStatus = "Connecting"
        /\ status[a] = "Connected" => mStatus # "Disconnected"

\* A listened account outside the enabled ones has the value that is shown.
LeftBehind(f, m) == \E a \in listening \ enabled : f[a] = m

\* What is shown is the sum over the enabled accounts, or else the value of an
\* account that was disabled while it had that value and still has it, or
\* nothing was heard of any account.
ShownIsExplained ==
    ready /\ listening # {} =>
        /\ \/ \E h \in Highest(current, enabled) : Equal(h, mCurrent)
           \/ \E a \in listening \ enabled : Equal(current[a], mCurrent)
        /\ \/ \E h \in Highest(requested, enabled) : Equal(h, mRequested)
           \/ \E a \in listening \ enabled : Equal(requested[a], mRequested)
        /\ mChanging = (\E a \in enabled : changing[a]) \/ LeftBehind(changing, mChanging)
        /\ mStatus = OverallStatus(status, enabled) \/ LeftBehind(status, mStatus)

\* Once an account was heard of, the current presence always comes back to the
\* most online presence of the enabled accounts, although disabling an account
\* does not recompute it.
CurrentSettles ==
    ready /\ listening # {} ~> \E h \in Highest(current, enabled) : Equal(h, mCurrent)
=============================================================================
