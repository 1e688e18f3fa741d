------------------------ MODULE PresenceAndChatProofs -----------------------
(* TLAPS proofs about GlobalPresence, for any number of accounts and any     *)
(* presences, about HandlerApplication, for any timeouts and any jobs, about *)
(* PresenceLists, for any presences and any bound on the changes, about      *)
(* ChatHistory, for any log, any messages and any number of fetches, and     *)
(* about LogQueries, for any plugins and any logs that they have.            *)
EXTENDS GlobalPresence, HandlerApplication, PresenceLists, ChatHistory,
        LogQueries, SequenceItems, FiniteSetTheorems

Presence == [type : Types, msg : Nat]

\* The order of presences is decided by integers.
LEMMA PriorityInt == \A t \in Types : sortPriority(t) \in Nat
BY DEF Types, sortPriority

\* operator== and operator< fit together: no presence is below an equal one,
\* and equal presences are below the same presences.
LEMMA EqualLess ==
    ASSUME NEW p \in Presence, NEW q \in Presence, NEW r \in Presence
    PROVE  /\ Equal(p, q) => ~Less(p, q)
           /\ Equal(p, q) /\ ~Less(p, r) => ~Less(q, r)
<1>1. /\ sortPriority(p.type) \in Nat /\ sortPriority(q.type) \in Nat
      /\ sortPriority(r.type) \in Nat
      /\ p.msg \in Nat /\ q.msg \in Nat /\ r.msg \in Nat
  BY PriorityInt DEF Presence
<1> QED
  BY <1>1 DEF Equal, Less

\* All presences are of the type that the order is defined on.
LEMMA PresenceTypes ==
    /\ Presences \subseteq Presence /\ Requests \subseteq Presence
    /\ offline \in Presence /\ unset \in Presence
BY PresenceAssumption DEF Presence, Types, offline, unset

Covers(m, f, E) == \A a \in E : ~Less(m, f[a])

\* Whichever presence a slot ends with, it covers the enabled accounts, if it
\* covered those that did not signal.
LEMMA SlotCovers ==
    ASSUME NEW V, V \subseteq Presence, NEW f \in [Accounts -> V], NEW m \in V \cup {offline, unset},
           NEW A \in SUBSET Accounts, NEW E \in SUBSET Accounts,
           Covers(m, f, E \ A),
           NEW n \in PresenceChanged(m, A, f, E)
    PROVE  Covers(n, f, E) /\ n \in V \cup {offline, unset}
<1>0. offline \in Presence /\ unset \in Presence
  BY PresenceTypes
<1>1. CASE \A a \in A : Equal(m, f[a])
  <2>1. n = m
    BY <1>1 DEF PresenceChanged
  <2>2. ASSUME NEW a \in E PROVE ~Less(m, f[a])
    <3>1. CASE a \in A
      BY <1>0, <1>1, <3>1, EqualLess
    <3>2. CASE a \notin A
      BY <3>2 DEF Covers
    <3> QED
      BY <3>1, <3>2
  <2> QED
    BY <2>1, <2>2 DEF Covers
<1>2. CASE ~(\A a \in A : Equal(m, f[a]))
  <2>1. \A h \in Highest(f, E) : Covers(h, f, E) /\ h \in V \cup {offline, unset} /\ h \in Presence
    BY <1>0 DEF Highest, Covers
  <2>2. CASE n \in Highest(f, E)
    BY <2>1, <2>2
  <2>3. CASE n \notin Highest(f, E)
    <3>1. n = m /\ \E h \in Highest(f, E) : Equal(h, m)
      BY <1>2, <2>3 DEF PresenceChanged
    <3>2. PICK h \in Highest(f, E) : Equal(h, m)
      BY <3>1
    <3>3. ASSUME NEW a \in E PROVE ~Less(m, f[a])
      <4>1. ~Less(h, f[a]) /\ h \in Presence /\ m \in Presence /\ f[a] \in Presence
        BY <1>0, <2>1 DEF Covers
      <4> QED
        BY <3>2, <4>1, EqualLess
    <3> QED
      BY <3>1, <3>3 DEF Covers
  <2> QED
    BY <2>2, <2>3
<1> QED
  BY <1>1, <1>2

\* onChangingPresence ends with a flag that covers the enabled accounts.
LEMMA ChangingCovers ==
    ASSUME NEW f \in [Accounts -> BOOLEAN], NEW A \in SUBSET Accounts, NEW E \in SUBSET Accounts,
           mChanging \in BOOLEAN, onChangingPresence(A, f, E), \A a \in E \ A : f[a] => mChanging
    PROVE  mChanging' \in BOOLEAN /\ \A a \in E : f[a] => mChanging'
BY DEF onChangingPresence

AllStatuses == {"Disconnected", "Connecting", "Connected"}

StatusCovered(s, t) ==
    (s = "Connecting" => t = "Connecting") /\ (s = "Connected" => t # "Disconnected")

\* onConnectionStatusChanged ends with a status that covers the enabled accounts.
LEMMA StatusCovers ==
    ASSUME NEW f \in [Accounts -> AllStatuses], NEW e \in [Accounts -> BOOLEAN],
           NEW A \in SUBSET Accounts, NEW E \in SUBSET Accounts,
           mStatus \in AllStatuses, mError \in BOOLEAN, onConnectionStatusChanged(A, f, e, E),
           \A a \in E \ A : StatusCovered(f[a], mStatus)
    PROVE  /\ mStatus' \in AllStatuses /\ mError' \in BOOLEAN
           /\ \A a \in E : StatusCovered(f[a], mStatus')
<1>1. CASE \A a \in A : f[a] = mStatus
  BY <1>1 DEF onConnectionStatusChanged, StatusCovered, AllStatuses
<1>2. CASE ~(\A a \in A : f[a] = mStatus)
  <2>1. mStatus' = OverallStatus(f, E) /\ mError' = (\E a \in E : e[a])
    BY <1>2 DEF onConnectionStatusChanged
  <2>2. OverallStatus(f, E) \in AllStatuses
    BY DEF OverallStatus, AllStatuses
  <2>3. ASSUME NEW a \in E PROVE StatusCovered(f[a], OverallStatus(f, E))
    BY DEF OverallStatus, StatusCovered, AllStatuses
  <2> QED
    BY <2>1, <2>2, <2>3
<1> QED
  BY <1>1, <1>2

(***************************************************************************)
(* The inductive invariant: every enabled account is listened to, and its  *)
(* values are covered.  An early return is safe because the one account    *)
(* whose value changed now has the value that is shown.                    *)
(***************************************************************************)
Heard == ready => enabled \subseteq listening

Covered ==
    ready => /\ Covers(mCurrent, current, enabled)
             /\ Covers(mRequested, requested, enabled)
             /\ \A a \in enabled : changing[a] => mChanging
             /\ \A a \in enabled : StatusCovered(status[a], mStatus)

IInv == TypeOK /\ Heard /\ Covered

\* The types of the sums, which the slots compute.
SumTypes ==
    /\ mCurrent \in Presences \cup {offline, unset}
    /\ mRequested \in Requests \cup {offline, unset}
    /\ mChanging \in BOOLEAN /\ mStatus \in AllStatuses /\ mError \in BOOLEAN

\* All four slots run for accounts A: an account that is added, or all of them.
LEMMA AllSlotsCover ==
    ASSUME TypeOK, NEW A \in SUBSET Accounts, NEW E \in SUBSET Accounts,
           UNCHANGED accountVars, onAccountEnabledChanged(A, E),
           Covers(mCurrent, current, E \ A), Covers(mRequested, requested, E \ A),
           \A a \in E \ A : (changing[a] => mChanging) /\ StatusCovered(status[a], mStatus)
    PROVE  /\ SumTypes'
           /\ Covers(mCurrent', current, E) /\ Covers(mRequested', requested, E)
           /\ \A a \in E : (changing[a] => mChanging') /\ StatusCovered(status[a], mStatus')
<1>1. /\ current \in [Accounts -> Presences] /\ requested \in [Accounts -> Requests]
      /\ changing \in [Accounts -> BOOLEAN] /\ status \in [Accounts -> AllStatuses]
      /\ error \in [Accounts -> BOOLEAN] /\ SumTypes
  BY PresenceAssumption DEF TypeOK, SumTypes, AllStatuses
<1>2. /\ mCurrent' \in PresenceChanged(mCurrent, A, current, E)
      /\ mRequested' \in PresenceChanged(mRequested, A, requested, E)
      /\ onChangingPresence(A, changing, E)
      /\ onConnectionStatusChanged(A, status, error, E)
  BY DEF onAccountEnabledChanged
<1>3. Covers(mCurrent', current, E) /\ mCurrent' \in Presences \cup {offline, unset}
  BY <1>1, <1>2, SlotCovers, PresenceTypes DEF SumTypes
<1>4. Covers(mRequested', requested, E) /\ mRequested' \in Requests \cup {offline, unset}
  BY <1>1, <1>2, SlotCovers, PresenceTypes DEF SumTypes
<1>5. mChanging' \in BOOLEAN /\ \A a \in E : changing[a] => mChanging'
  BY <1>1, <1>2, ChangingCovers DEF SumTypes
<1>6. /\ mStatus' \in AllStatuses /\ mError' \in BOOLEAN
      /\ \A a \in E : StatusCovered(status[a], mStatus')
  BY <1>1, <1>2, StatusCovers DEF SumTypes
<1> QED
  BY <1>3, <1>4, <1>5, <1>6 DEF SumTypes

\* Every change of an account and of the set of enabled accounts preserves the
\* inductive invariant.
LEMMA NextIInv == IInv /\ [Next]_vars => IInv'
<1> SUFFICES ASSUME IInv, [Next]_vars PROVE IInv'
  OBVIOUS
<1>a. TypeOK /\ Heard /\ Covered
  BY DEF IInv
<1>b. /\ current \in [Accounts -> Presences] /\ requested \in [Accounts -> Requests]
      /\ changing \in [Accounts -> BOOLEAN] /\ status \in [Accounts -> AllStatuses]
      /\ error \in [Accounts -> BOOLEAN] /\ SumTypes
      /\ enabled \in SUBSET Accounts /\ listening \in SUBSET Accounts
  BY <1>a, PresenceAssumption DEF TypeOK, SumTypes, AllStatuses
<1> USE DEF accountVars, globalVars
<1>1. CASE setAccountManager
  <2>1. onAccountEnabledChanged(enabled, enabled) /\ UNCHANGED <<enabled, accountVars>>
    BY <1>1 DEF setAccountManager
  <2>2. /\ SumTypes'
        /\ Covers(mCurrent', current, enabled) /\ Covers(mRequested', requested, enabled)
        /\ \A a \in enabled : (changing[a] => mChanging') /\ StatusCovered(status[a], mStatus')
    BY <1>a, <1>b, <2>1, AllSlotsCover DEF Covers
  <2>3. listening' = listening \cup enabled /\ mHasEnabled' \in BOOLEAN /\ ready' = TRUE
    BY <1>1, <1>a, <2>1 DEF setAccountManager, onAccountEnabledChanged, TypeOK
  <2> QED
    BY <1>a, <1>b, <2>1, <2>2, <2>3 DEF IInv, TypeOK, Heard, Covered, SumTypes, AllStatuses
<1>2. ASSUME NEW b \in Accounts, AccountEnabledChanged(b) PROVE IInv'
  <2>1. /\ onAccountEnabledChanged({b}, enabled') /\ UNCHANGED <<ready, accountVars>>
        /\ ready /\ enabled' \in SUBSET Accounts /\ enabled' \ {b} \subseteq enabled
    BY <1>2, <1>b DEF AccountEnabledChanged
  <2>2. /\ Covers(mCurrent, current, enabled' \ {b}) /\ Covers(mRequested, requested, enabled' \ {b})
        /\ \A a \in enabled' \ {b} : (changing[a] => mChanging) /\ StatusCovered(status[a], mStatus)
    BY <1>a, <2>1 DEF Covered, Covers
  <2>3. /\ SumTypes'
        /\ Covers(mCurrent', current, enabled') /\ Covers(mRequested', requested, enabled')
        /\ \A a \in enabled' : (changing[a] => mChanging') /\ StatusCovered(status[a], mStatus')
    BY <1>a, <2>1, <2>2, AllSlotsCover
  <2>4. listening' = listening \cup ({b} \cap enabled') /\ mHasEnabled' \in BOOLEAN
    BY <1>a, <2>1 DEF onAccountEnabledChanged, TypeOK
  <2> QED
    BY <1>a, <1>b, <2>1, <2>3, <2>4 DEF IInv, TypeOK, Heard, Covered, SumTypes, AllStatuses
<1>3. ASSUME NEW b \in Accounts, NEW p \in Presences, CurrentPresenceChanged(b, p) PROVE IInv'
  <2>1. current' \in [Accounts -> Presences] /\ Covers(mCurrent, current', enabled \ {b}) /\ ready
    BY <1>3, <1>a, <1>b DEF CurrentPresenceChanged, Covered, Covers
  <2>2. Covers(mCurrent', current', enabled) /\ mCurrent' \in Presences \cup {offline, unset}
    <3>1. CASE b \in listening
      <4>1. mCurrent' \in PresenceChanged(mCurrent, {b}, current', enabled)
        BY <1>3, <3>1 DEF CurrentPresenceChanged
      <4>2. /\ Presences \subseteq Presence /\ mCurrent \in Presences \cup {offline, unset}
            /\ {b} \in SUBSET Accounts /\ enabled \in SUBSET Accounts
        BY <1>b, PresenceTypes DEF SumTypes
      <4> QED
        BY <2>1, <4>1, <4>2, SlotCovers
    <3>2. CASE b \notin listening
      <4>1. mCurrent' = mCurrent /\ b \notin enabled
        BY <1>3, <1>a, <3>2 DEF CurrentPresenceChanged, Heard
      <4> QED
        BY <1>b, <2>1, <4>1 DEF Covers, SumTypes
    <3> QED
      BY <3>1, <3>2
  <2>3. UNCHANGED <<ready, enabled, listening, requested, changing, status, error,
                    mRequested, mChanging, mStatus, mError, mHasEnabled>>
    BY <1>3 DEF CurrentPresenceChanged
  <2> QED
    BY <1>a, <2>1, <2>2, <2>3 DEF IInv, TypeOK, Heard, Covered
<1>4. ASSUME NEW b \in Accounts, NEW p \in Requests, RequestedPresenceChanged(b, p) PROVE IInv'
  <2>1. requested' \in [Accounts -> Requests] /\ Covers(mRequested, requested', enabled \ {b}) /\ ready
    BY <1>4, <1>a, <1>b DEF RequestedPresenceChanged, Covered, Covers
  <2>2. Covers(mRequested', requested', enabled) /\ mRequested' \in Requests \cup {offline, unset}
    <3>1. CASE b \in listening
      <4>1. mRequested' \in PresenceChanged(mRequested, {b}, requested', enabled)
        BY <1>4, <3>1 DEF RequestedPresenceChanged
      <4>2. /\ Requests \subseteq Presence /\ mRequested \in Requests \cup {offline, unset}
            /\ {b} \in SUBSET Accounts /\ enabled \in SUBSET Accounts
        BY <1>b, PresenceTypes DEF SumTypes
      <4> QED
        BY <2>1, <4>1, <4>2, SlotCovers
    <3>2. CASE b \notin listening
      <4>1. mRequested' = mRequested /\ b \notin enabled
        BY <1>4, <1>a, <3>2 DEF RequestedPresenceChanged, Heard
      <4> QED
        BY <1>b, <2>1, <4>1 DEF Covers, SumTypes
    <3> QED
      BY <3>1, <3>2
  <2>3. UNCHANGED <<ready, enabled, listening, current, changing, status, error,
                    mCurrent, mChanging, mStatus, mError, mHasEnabled>>
    BY <1>4 DEF RequestedPresenceChanged
  <2> QED
    BY <1>a, <2>1, <2>2, <2>3 DEF IInv, TypeOK, Heard, Covered
<1>5. ASSUME NEW b \in Accounts, NEW v \in Changing, ChangingPresence(b, v) PROVE IInv'
  <2>1. /\ changing' \in [Accounts -> Changing] /\ changing' \in [Accounts -> BOOLEAN]
        /\ \A a \in enabled \ {b} : changing'[a] => mChanging
    BY <1>5, <1>a, <1>b, PresenceAssumption DEF ChangingPresence, Covered, TypeOK
  <2>2. mChanging' \in BOOLEAN /\ \A a \in enabled : changing'[a] => mChanging'
    <3>1. CASE b \in listening
      <4>1. /\ onChangingPresence({b}, changing', enabled) /\ mChanging \in BOOLEAN
            /\ {b} \in SUBSET Accounts /\ enabled \in SUBSET Accounts
        BY <1>5, <1>b, <3>1 DEF ChangingPresence, SumTypes
      <4> QED
        BY <2>1, <4>1, ChangingCovers
    <3>2. CASE b \notin listening
      BY <1>5, <1>a, <1>b, <2>1, <3>2 DEF ChangingPresence, Heard, SumTypes
    <3> QED
      BY <3>1, <3>2
  <2>3. UNCHANGED <<ready, enabled, listening, current, requested, status, error,
                    mCurrent, mRequested, mStatus, mError, mHasEnabled>>
    BY <1>5 DEF ChangingPresence
  <2> QED
    BY <1>a, <2>1, <2>2, <2>3 DEF IInv, TypeOK, Heard, Covered
<1>6. ASSUME NEW b \in Accounts, NEW s \in Statuses, NEW e \in BOOLEAN,
             ConnectionStatusChanged(b, s, e)
      PROVE  IInv'
  <2>1. /\ status' \in [Accounts -> Statuses] /\ status' \in [Accounts -> AllStatuses]
        /\ error' \in [Accounts -> BOOLEAN]
        /\ \A a \in enabled \ {b} : StatusCovered(status'[a], mStatus)
    BY <1>6, <1>a, <1>b, PresenceAssumption
       DEF ConnectionStatusChanged, Covered, TypeOK, AllStatuses
  <2>2. /\ mStatus' \in AllStatuses /\ mError' \in BOOLEAN
        /\ \A a \in enabled : StatusCovered(status'[a], mStatus')
    <3>1. CASE b \in listening
      <4>1. /\ onConnectionStatusChanged({b}, status', error', enabled)
            /\ mStatus \in AllStatuses /\ mError \in BOOLEAN
            /\ {b} \in SUBSET Accounts /\ enabled \in SUBSET Accounts
        BY <1>6, <1>b, <3>1 DEF ConnectionStatusChanged, SumTypes
      <4> QED
        BY <2>1, <4>1, StatusCovers
    <3>2. CASE b \notin listening
      BY <1>6, <1>a, <1>b, <2>1, <3>2 DEF ConnectionStatusChanged, Heard, SumTypes
    <3> QED
      BY <3>1, <3>2
  <2>3. UNCHANGED <<ready, enabled, listening, current, requested, changing,
                    mCurrent, mRequested, mChanging, mHasEnabled>>
    BY <1>6 DEF ConnectionStatusChanged
  <2> QED
    BY <1>a, <2>1, <2>2, <2>3 DEF IInv, TypeOK, Heard, Covered, AllStatuses
<1>7. CASE UNCHANGED vars
  BY <1>7, <1>a DEF vars, IInv, TypeOK, Heard, Covered
<1> QED
  BY <1>1, <1>2, <1>3, <1>4, <1>5, <1>6, <1>7 DEF Next, AccountStep

\* The early returns of the slots never leave an enabled account uncovered, and
\* every value keeps its type, for any number of accounts.
THEOREM GlobalPresenceCovers == Spec => [](TypeOK /\ NeverUnderstates)
<1>1. Init => IInv
  BY DEF Init, IInv, TypeOK, Heard, Covered
<1>2. IInv /\ [Next]_vars => IInv'
  BY NextIInv
<1>3. IInv => TypeOK /\ NeverUnderstates
  BY DEF IInv, NeverUnderstates, Covered, Covers, StatusCovered
<1> QED
  BY <1>1, <1>2, <1>3, PTL DEF Spec

(***************************************************************************)
(* What the values shown are worth.  A slot that returns early leaves the  *)
(* value of the account that signalled: the account is enabled, and then   *)
(* no enabled account is above it, or it is a disabled one that is still   *)
(* listened to.  A slot that does not return early computes the sum.       *)
(***************************************************************************)
SumOf(f, E, m) == \E h \in Highest(f, E) : Equal(h, m)
LeftOver(f, R, m) == \E a \in R : Equal(f[a], m)
FlagShown(f, E, R, m) == m = (\E a \in E : f[a]) \/ \E a \in R : f[a] = m
StatusShown(f, E, R, m) == m = OverallStatus(f, E) \/ \E a \in R : f[a] = m

\* Equality is an equivalence, and nothing is below itself or below offline.
LEMMA EqualSame ==
    ASSUME NEW p \in Presence, NEW q \in Presence
    PROVE  /\ Equal(p, p) /\ ~Less(p, p) /\ ~Less(p, offline)
           /\ Equal(p, q) => Equal(q, p)
<1>1. /\ sortPriority(p.type) \in Nat /\ sortPriority(q.type) \in Nat
      /\ p.msg \in Nat /\ q.msg \in Nat /\ sortPriority(p.type) <= 6
  BY PriorityInt DEF Presence, Types, sortPriority
<1>2. offline.msg = 0 /\ sortPriority(offline.type) = 6
  BY DEF offline, sortPriority
<1> QED
  BY <1>1, <1>2 DEF Equal, Less

\* A presence slot that ran for a listened account explains what it shows.
LEMMA SlotExplains ==
    ASSUME NEW V, V \subseteq Presence, NEW f \in [Accounts -> V], NEW m \in V \cup {offline, unset},
           NEW A \in SUBSET Accounts, NEW E \in SUBSET Accounts, NEW L \in SUBSET Accounts,
           A # {}, A \subseteq L, Covers(m, f, E \ A),
           NEW n \in PresenceChanged(m, A, f, E)
    PROVE  SumOf(f, E, n) \/ LeftOver(f, L \ E, n)
<1>0. offline \in Presence /\ unset \in Presence
  BY PresenceTypes
<1>1. CASE \A a \in A : Equal(m, f[a])
  <2>1. n = m
    BY <1>1 DEF PresenceChanged
  <2>2. PICK b \in A : TRUE
    OBVIOUS
  <2>3. b \in Accounts /\ f[b] \in Presence /\ m \in Presence /\ Equal(m, f[b])
    BY <1>0, <1>1, <2>2
  <2>4. Equal(f[b], n)
    BY <2>1, <2>3, EqualSame
  <2>5. CASE b \in E
    <3>1. Covers(m, f, E)
      BY <2>1, SlotCovers
    <3>2. ~Less(f[b], offline)
      BY <2>3, EqualSame
    <3>3. ASSUME NEW a \in E PROVE ~Less(f[b], f[a])
      <4>1. ~Less(m, f[a]) /\ f[a] \in Presence
        BY <3>1 DEF Covers
      <4> QED
        BY <2>3, <4>1, EqualLess
    <3>4. f[b] \in Highest(f, E)
      BY <2>5, <3>2, <3>3 DEF Highest
    <3> QED
      BY <2>4, <3>4 DEF SumOf
  <2>6. CASE b \notin E
    BY <2>2, <2>4, <2>6 DEF LeftOver
  <2> QED
    BY <2>5, <2>6
<1>2. CASE ~(\A a \in A : Equal(m, f[a]))
  <2>1. CASE \E h \in Highest(f, E) : Equal(h, m)
    BY <1>2, <2>1 DEF PresenceChanged, SumOf
  <2>2. CASE ~(\E h \in Highest(f, E) : Equal(h, m))
    <3>1. n \in Highest(f, E)
      BY <1>2, <2>2 DEF PresenceChanged
    <3>2. n \in Presence
      BY <1>0, <3>1 DEF Highest
    <3> QED
      BY <3>1, <3>2, EqualSame DEF SumOf
  <2> QED
    BY <2>1, <2>2
<1> QED
  BY <1>1, <1>2

\* So does onChangingPresence.
LEMMA ChangingExplains ==
    ASSUME NEW f \in [Accounts -> BOOLEAN],
           NEW A \in SUBSET Accounts, NEW E \in SUBSET Accounts, NEW L \in SUBSET Accounts,
           A # {}, A \subseteq L, mChanging \in BOOLEAN,
           onChangingPresence(A, f, E), \A a \in E \ A : f[a] => mChanging
    PROVE  FlagShown(f, E, L \ E, mChanging')
<1>1. CASE \A a \in A : f[a] = mChanging
  <2>1. mChanging' = mChanging
    BY <1>1 DEF onChangingPresence
  <2>2. PICK b \in A : TRUE
    OBVIOUS
  <2>3. f[b] = mChanging
    BY <1>1, <2>2
  <2>4. CASE b \notin E
    BY <2>1, <2>2, <2>3, <2>4 DEF FlagShown
  <2>5. CASE b \in E
    <3>1. ASSUME NEW a \in E PROVE f[a] => mChanging
      BY <1>1
    <3>2. mChanging => \E a \in E : f[a]
      BY <2>3, <2>5
    <3> QED
      BY <2>1, <3>1, <3>2 DEF FlagShown
  <2> QED
    BY <2>4, <2>5
<1>2. CASE ~(\A a \in A : f[a] = mChanging)
  BY <1>2 DEF FlagShown, onChangingPresence
<1> QED
  BY <1>1, <1>2

\* So does onConnectionStatusChanged.
LEMMA StatusExplains ==
    ASSUME NEW f \in [Accounts -> AllStatuses], NEW e \in [Accounts -> BOOLEAN],
           NEW A \in SUBSET Accounts, NEW E \in SUBSET Accounts, NEW L \in SUBSET Accounts,
           A # {}, A \subseteq L, mStatus \in AllStatuses,
           onConnectionStatusChanged(A, f, e, E),
           \A a \in E \ A : StatusCovered(f[a], mStatus)
    PROVE  StatusShown(f, E, L \ E, mStatus')
<1>1. CASE \A a \in A : f[a] = mStatus
  <2>1. mStatus' = mStatus
    BY <1>1 DEF onConnectionStatusChanged
  <2>2. PICK b \in A : TRUE
    OBVIOUS
  <2>3. f[b] = mStatus
    BY <1>1, <2>2
  <2>4. CASE b \notin E
    BY <2>1, <2>2, <2>3, <2>4 DEF StatusShown
  <2>5. CASE b \in E
    <3>1. ASSUME NEW a \in E PROVE StatusCovered(f[a], mStatus) /\ f[a] \in AllStatuses
      BY <1>1 DEF StatusCovered
    <3> QED
      BY <2>1, <2>3, <2>5, <3>1 DEF StatusShown, OverallStatus, StatusCovered, AllStatuses
  <2> QED
    BY <2>4, <2>5
<1>2. CASE ~(\A a \in A : f[a] = mStatus)
  BY <1>2 DEF StatusShown, onConnectionStatusChanged
<1> QED
  BY <1>1, <1>2

\* The parts of ShownIsExplained, one for each value.
ExplainedBy(cur, req, chg, st, E, L, mc, mr, mg, ms) ==
    /\ SumOf(cur, E, mc) \/ LeftOver(cur, L \ E, mc)
    /\ SumOf(req, E, mr) \/ LeftOver(req, L \ E, mr)
    /\ FlagShown(chg, E, L \ E, mg)
    /\ StatusShown(st, E, L \ E, ms)

Explained ==
    /\ ~ready => listening = {}
    /\ ready /\ listening # {} =>
         ExplainedBy(current, requested, changing, status, enabled, listening,
                     mCurrent, mRequested, mChanging, mStatus)

\* All four slots run for listened accounts: each explains what it shows.
LEMMA AllSlotsExplain ==
    ASSUME TypeOK, NEW A \in SUBSET Accounts, NEW E \in SUBSET Accounts, NEW L \in SUBSET Accounts,
           A # {}, A \subseteq L, UNCHANGED accountVars, onAccountEnabledChanged(A, E),
           Covers(mCurrent, current, E \ A), Covers(mRequested, requested, E \ A),
           \A a \in E \ A : (changing[a] => mChanging) /\ StatusCovered(status[a], mStatus)
    PROVE  ExplainedBy(current, requested, changing, status, E, L,
                       mCurrent', mRequested', mChanging', mStatus')
<1>1. /\ current \in [Accounts -> Presences] /\ requested \in [Accounts -> Requests]
      /\ changing \in [Accounts -> BOOLEAN] /\ status \in [Accounts -> AllStatuses]
      /\ error \in [Accounts -> BOOLEAN] /\ SumTypes
  BY PresenceAssumption DEF TypeOK, SumTypes, AllStatuses
<1>2. /\ mCurrent' \in PresenceChanged(mCurrent, A, current, E)
      /\ mRequested' \in PresenceChanged(mRequested, A, requested, E)
      /\ onChangingPresence(A, changing, E)
      /\ onConnectionStatusChanged(A, status, error, E)
  BY DEF onAccountEnabledChanged
<1>3. SumOf(current, E, mCurrent') \/ LeftOver(current, L \ E, mCurrent')
  BY <1>1, <1>2, SlotExplains, PresenceTypes DEF SumTypes
<1>4. SumOf(requested, E, mRequested') \/ LeftOver(requested, L \ E, mRequested')
  BY <1>1, <1>2, SlotExplains, PresenceTypes DEF SumTypes
<1>5. FlagShown(changing, E, L \ E, mChanging')
  BY <1>1, <1>2, ChangingExplains DEF SumTypes
<1>6. StatusShown(status, E, L \ E, mStatus')
  BY <1>1, <1>2, StatusExplains DEF SumTypes
<1> QED
  BY <1>3, <1>4, <1>5, <1>6 DEF ExplainedBy

\* Every step explains what it leaves shown.
LEMMA NextExplained == IInv /\ Explained /\ [Next]_vars => Explained'
<1> SUFFICES ASSUME IInv, Explained, [Next]_vars PROVE Explained'
  OBVIOUS
<1>a. TypeOK /\ Heard /\ Covered
  BY DEF IInv
<1>b. /\ current \in [Accounts -> Presences] /\ requested \in [Accounts -> Requests]
      /\ changing \in [Accounts -> BOOLEAN] /\ status \in [Accounts -> AllStatuses]
      /\ error \in [Accounts -> BOOLEAN] /\ SumTypes
      /\ enabled \in SUBSET Accounts /\ listening \in SUBSET Accounts
  BY <1>a, PresenceAssumption DEF TypeOK, SumTypes, AllStatuses
<1>c. ASSUME ready, listening # {}
      PROVE  ExplainedBy(current, requested, changing, status, enabled, listening,
                         mCurrent, mRequested, mChanging, mStatus)
  BY <1>c DEF Explained
<1> USE DEF accountVars, globalVars
<1>1. CASE setAccountManager
  <2>1. /\ onAccountEnabledChanged(enabled, enabled) /\ UNCHANGED <<enabled, accountVars>>
        /\ listening = {} /\ ready'
    BY <1>1 DEF setAccountManager, Explained
  <2>2. listening' = enabled
    BY <2>1 DEF onAccountEnabledChanged
  <2>3. CASE enabled = {}
    BY <2>1, <2>2, <2>3 DEF Explained
  <2>4. CASE enabled # {}
    <3>1. ExplainedBy(current, requested, changing, status, enabled, enabled,
                      mCurrent', mRequested', mChanging', mStatus')
      BY <1>a, <1>b, <2>1, <2>4, AllSlotsExplain DEF Covers
    <3> QED
      BY <2>1, <2>2, <3>1 DEF Explained
  <2> QED
    BY <2>3, <2>4
<1>2. ASSUME NEW b \in Accounts, AccountEnabledChanged(b) PROVE Explained'
  <2>1. /\ onAccountEnabledChanged({b}, enabled') /\ UNCHANGED <<ready, accountVars>>
        /\ ready /\ enabled' \in SUBSET Accounts /\ enabled' \ {b} \subseteq enabled
        /\ b \notin enabled' => b \in enabled
    BY <1>2, <1>b DEF AccountEnabledChanged
  <2>2. /\ listening' = listening \cup ({b} \cap enabled') /\ listening' \in SUBSET Accounts
        /\ {b} \subseteq listening' /\ {b} # {}
    BY <1>a, <1>b, <2>1 DEF onAccountEnabledChanged, Heard
  <2>3. /\ Covers(mCurrent, current, enabled' \ {b}) /\ Covers(mRequested, requested, enabled' \ {b})
        /\ \A a \in enabled' \ {b} : (changing[a] => mChanging) /\ StatusCovered(status[a], mStatus)
    BY <1>a, <2>1 DEF Covered, Covers
  <2>4. ExplainedBy(current, requested, changing, status, enabled', listening',
                    mCurrent', mRequested', mChanging', mStatus')
    BY <1>a, <2>1, <2>2, <2>3, AllSlotsExplain
  <2> QED
    BY <2>1, <2>4 DEF Explained
<1>3. ASSUME NEW b \in Accounts, NEW p \in Presences, CurrentPresenceChanged(b, p) PROVE Explained'
  <2>1. /\ current' = [current EXCEPT ![b] = p] /\ current' \in [Accounts -> Presences]
        /\ ready /\ UNCHANGED <<ready, enabled, listening, requested, changing, status, error, mRequested, mChanging, mStatus>>
    BY <1>3, <1>b DEF CurrentPresenceChanged
  <2>2. ASSUME listening # {}
        PROVE  SumOf(current', enabled, mCurrent') \/ LeftOver(current', listening \ enabled, mCurrent')
    <3>1. CASE b \in listening
      <4>1. mCurrent' \in PresenceChanged(mCurrent, {b}, current', enabled)
        BY <1>3, <3>1 DEF CurrentPresenceChanged
      <4>2. Covers(mCurrent, current', enabled \ {b})
        BY <1>a, <1>b, <2>1 DEF Covered, Covers
      <4>3. /\ Presences \subseteq Presence /\ mCurrent \in Presences \cup {offline, unset}
            /\ {b} \in SUBSET Accounts /\ {b} # {} /\ {b} \subseteq listening
        BY <1>b, <3>1, PresenceTypes DEF SumTypes
      <4> QED
        BY <1>b, <2>1, <4>1, <4>2, <4>3, SlotExplains
    <3>2. CASE b \notin listening
      <4>1. mCurrent' = mCurrent /\ b \notin enabled
        BY <1>3, <1>a, <2>1, <3>2 DEF CurrentPresenceChanged, Heard
      <4>2. \A a \in enabled \cup listening : current'[a] = current[a]
        BY <1>b, <2>1, <3>2, <4>1
      <4>3. SumOf(current, enabled, mCurrent) \/ LeftOver(current, listening \ enabled, mCurrent)
        BY <1>c, <2>1, <2>2 DEF ExplainedBy
      <4>4. Highest(current', enabled) = Highest(current, enabled)
        BY <4>2 DEF Highest
      <4> QED
        BY <4>1, <4>2, <4>3, <4>4 DEF SumOf, LeftOver
    <3> QED
      BY <3>1, <3>2
  <2>3. ASSUME listening # {}
        PROVE  ExplainedBy(current', requested', changing, status, enabled, listening,
                           mCurrent', mRequested', mChanging, mStatus)
    BY <1>c, <2>1, <2>2, <2>3 DEF ExplainedBy
  <2> QED
    BY <2>1, <2>3 DEF Explained
<1>4. ASSUME NEW b \in Accounts, NEW p \in Requests, RequestedPresenceChanged(b, p) PROVE Explained'
  <2>1. /\ requested' = [requested EXCEPT ![b] = p] /\ requested' \in [Accounts -> Requests]
        /\ ready /\ UNCHANGED <<ready, enabled, listening, current, changing, status, error, mCurrent, mChanging, mStatus>>
    BY <1>4, <1>b DEF RequestedPresenceChanged
  <2>2. ASSUME listening # {}
        PROVE  SumOf(requested', enabled, mRequested') \/ LeftOver(requested', listening \ enabled, mRequested')
    <3>1. CASE b \in listening
      <4>1. mRequested' \in PresenceChanged(mRequested, {b}, requested', enabled)
        BY <1>4, <3>1 DEF RequestedPresenceChanged
      <4>2. Covers(mRequested, requested', enabled \ {b})
        BY <1>a, <1>b, <2>1 DEF Covered, Covers
      <4>3. /\ Requests \subseteq Presence /\ mRequested \in Requests \cup {offline, unset}
            /\ {b} \in SUBSET Accounts /\ {b} # {} /\ {b} \subseteq listening
        BY <1>b, <3>1, PresenceTypes DEF SumTypes
      <4> QED
        BY <1>b, <2>1, <4>1, <4>2, <4>3, SlotExplains
    <3>2. CASE b \notin listening
      <4>1. mRequested' = mRequested /\ b \notin enabled
        BY <1>4, <1>a, <2>1, <3>2 DEF RequestedPresenceChanged, Heard
      <4>2. \A a \in enabled \cup listening : requested'[a] = requested[a]
        BY <1>b, <2>1, <3>2, <4>1
      <4>3. SumOf(requested, enabled, mRequested) \/ LeftOver(requested, listening \ enabled, mRequested)
        BY <1>c, <2>1, <2>2 DEF ExplainedBy
      <4>4. Highest(requested', enabled) = Highest(requested, enabled)
        BY <4>2 DEF Highest
      <4> QED
        BY <4>1, <4>2, <4>3, <4>4 DEF SumOf, LeftOver
    <3> QED
      BY <3>1, <3>2
  <2>3. ASSUME listening # {}
        PROVE  ExplainedBy(current', requested', changing, status, enabled, listening,
                           mCurrent', mRequested', mChanging, mStatus)
    BY <1>c, <2>1, <2>2, <2>3 DEF ExplainedBy
  <2> QED
    BY <2>1, <2>3 DEF Explained
<1>5. ASSUME NEW b \in Accounts, NEW v \in Changing, ChangingPresence(b, v) PROVE Explained'
  <2>1. /\ changing' = [changing EXCEPT ![b] = v] /\ changing' \in [Accounts -> BOOLEAN]
        /\ ready /\ UNCHANGED <<ready, enabled, listening, current, requested, status,
                                mCurrent, mRequested, mStatus>>
    BY <1>5, <1>b, PresenceAssumption DEF ChangingPresence
  <2>2. ASSUME listening # {}
        PROVE  FlagShown(changing', enabled, listening \ enabled, mChanging')
    <3>1. CASE b \in listening
      <4>1. onChangingPresence({b}, changing', enabled)
        BY <1>5, <3>1 DEF ChangingPresence
      <4>2. \A a \in enabled \ {b} : changing'[a] => mChanging
        BY <1>a, <1>b, <2>1 DEF Covered
      <4>3. /\ {b} \in SUBSET Accounts /\ {b} # {} /\ {b} \subseteq listening
            /\ mChanging \in BOOLEAN
        BY <1>b, <3>1 DEF SumTypes
      <4> QED
        BY <1>b, <2>1, <4>1, <4>2, <4>3, ChangingExplains
    <3>2. CASE b \notin listening
      <4>1. mChanging' = mChanging /\ b \notin enabled
        BY <1>5, <1>a, <2>1, <3>2 DEF ChangingPresence, Heard
      <4>2. \A a \in enabled \cup listening : changing'[a] = changing[a]
        BY <1>b, <2>1, <3>2, <4>1
      <4>3. FlagShown(changing, enabled, listening \ enabled, mChanging)
        BY <1>c, <2>1, <2>2 DEF ExplainedBy
      <4>4. (\E a \in enabled : changing'[a]) = (\E a \in enabled : changing[a])
        BY <4>2
      <4> QED
        BY <4>1, <4>2, <4>3, <4>4 DEF FlagShown
    <3> QED
      BY <3>1, <3>2
  <2>3. ASSUME listening # {}
        PROVE  ExplainedBy(current, requested, changing', status, enabled, listening,
                           mCurrent, mRequested, mChanging', mStatus)
    BY <1>c, <2>1, <2>2, <2>3 DEF ExplainedBy
  <2> QED
    BY <2>1, <2>3 DEF Explained
<1>6. ASSUME NEW b \in Accounts, NEW s \in Statuses, NEW e \in BOOLEAN,
             ConnectionStatusChanged(b, s, e)
      PROVE  Explained'
  <2>1. /\ status' = [status EXCEPT ![b] = s] /\ status' \in [Accounts -> AllStatuses]
        /\ error' \in [Accounts -> BOOLEAN]
        /\ ready /\ UNCHANGED <<ready, enabled, listening, current, requested, changing,
                                mCurrent, mRequested, mChanging>>
    BY <1>6, <1>b, PresenceAssumption DEF ConnectionStatusChanged, AllStatuses
  <2>2. ASSUME listening # {}
        PROVE  StatusShown(status', enabled, listening \ enabled, mStatus')
    <3>1. CASE b \in listening
      <4>1. onConnectionStatusChanged({b}, status', error', enabled)
        BY <1>6, <3>1 DEF ConnectionStatusChanged
      <4>2. \A a \in enabled \ {b} : StatusCovered(status'[a], mStatus)
        BY <1>a, <1>b, <2>1 DEF Covered
      <4>3. /\ {b} \in SUBSET Accounts /\ {b} # {} /\ {b} \subseteq listening
            /\ mStatus \in AllStatuses
        BY <1>b, <3>1 DEF SumTypes
      <4> QED
        BY <1>b, <2>1, <4>1, <4>2, <4>3, StatusExplains
    <3>2. CASE b \notin listening
      <4>1. mStatus' = mStatus /\ b \notin enabled
        BY <1>6, <1>a, <2>1, <3>2 DEF ConnectionStatusChanged, Heard
      <4>2. \A a \in enabled \cup listening : status'[a] = status[a]
        BY <1>b, <2>1, <3>2, <4>1
      <4>3. StatusShown(status, enabled, listening \ enabled, mStatus)
        BY <1>c, <2>1, <2>2 DEF ExplainedBy
      <4>4. OverallStatus(status', enabled) = OverallStatus(status, enabled)
        BY <4>2 DEF OverallStatus
      <4> QED
        BY <4>1, <4>2, <4>3, <4>4 DEF StatusShown
    <3> QED
      BY <3>1, <3>2
  <2>3. ASSUME listening # {}
        PROVE  ExplainedBy(current, requested, changing, status', enabled, listening,
                           mCurrent, mRequested, mChanging, mStatus')
    BY <1>c, <2>1, <2>2, <2>3 DEF ExplainedBy
  <2> QED
    BY <2>1, <2>3 DEF Explained
<1>7. CASE UNCHANGED vars
  BY <1>7 DEF vars, Explained
<1> QED
  BY <1>1, <1>2, <1>3, <1>4, <1>5, <1>6, <1>7 DEF Next, AccountStep

\* Although disabling an account computes nothing anew, what is shown is the
\* sum over the enabled accounts or the value of a disabled one that still has
\* it, for any number of accounts.
THEOREM ShownExplained == Spec => []ShownIsExplained
<1>1. Init => IInv /\ Explained
  BY DEF Init, IInv, TypeOK, Heard, Covered, Explained
<1>2. IInv /\ Explained /\ [Next]_vars => IInv' /\ Explained'
  BY NextIInv, NextExplained
<1>3. IInv /\ Explained => ShownIsExplained
  BY DEF ShownIsExplained, Explained, ExplainedBy, SumOf, LeftOver, FlagShown, StatusShown, LeftBehind
<1> QED
  BY <1>1, <1>2, <1>3, PTL DEF Spec

-----------------------------------------------------------------------------
(***************************************************************************)
(* The application of a handler.  While it has not quit, its counter is    *)
(* the number of running jobs.                                             *)
(***************************************************************************)
\* All steps keep the types; the flags of the timer are propositions.
LEMMA HandlerNextTypeOK == HandlerTypeOK /\ [HandlerNext]_handlerVars => HandlerTypeOK'
<1> SUFFICES ASSUME HandlerTypeOK, [HandlerNext]_handlerVars PROVE HandlerTypeOK'
  OBVIOUS
<1> USE DEF config, timerVars, history
<1>1. UNCHANGED config
  BY DEF HandlerNext, newJob, jobFinished, TimeOut, handlerVars
<1>2. active' \in BOOLEAN /\ firstJobStarted' \in BOOLEAN /\ quit' \in BOOLEAN
  BY DEF HandlerTypeOK, HandlerNext, newJob, jobFinished, TimeOut, handlerVars
<1>3. onInitial' \in BOOLEAN /\ onTimer' \in BOOLEAN
  BY Zenon DEF HandlerTypeOK, HandlerNext, newJob, jobFinished, TimeOut, handlerVars
<1>4. jobCount' \in Int /\ running' \in Nat /\ started' \in Nat /\ cut' \in Nat
  <2>1. jobCount \in Int /\ running \in Nat /\ started \in Nat /\ cut \in Nat
    BY DEF HandlerTypeOK
  <2>2. CASE newJob
    BY <2>1, <2>2 DEF newJob
  <2>3. CASE jobFinished
    BY <2>1, <2>3 DEF jobFinished
  <2>4. CASE TimeOut
    BY <2>1, <2>4 DEF TimeOut
  <2>5. CASE UNCHANGED handlerVars
    BY <2>1, <2>5 DEF handlerVars
  <2> QED
    BY <2>2, <2>3, <2>4, <2>5 DEF HandlerNext
<1> QED
  BY <1>1, <1>2, <1>3, <1>4 DEF HandlerTypeOK

\* Until the process quits, the atomic counter holds the number of running jobs;
\* so a timer that fires under a running job finds a count that is not zero.
HandlerInv == HandlerTypeOK /\ cut = 0 /\ (~quit => jobCount = running)

\* Starting, finishing and timing out preserve the inductive invariant.
LEMMA HandlerNextInv == HandlerInv /\ [HandlerNext]_handlerVars => HandlerInv'
<1> SUFFICES ASSUME HandlerInv, [HandlerNext]_handlerVars PROVE HandlerInv'
  OBVIOUS
<1>1. HandlerTypeOK'
  BY HandlerNextTypeOK DEF HandlerInv
<1>2. cut = 0 /\ (~quit => jobCount = running)
      /\ jobCount \in Int /\ running \in Nat /\ quit \in BOOLEAN
  BY DEF HandlerInv, HandlerTypeOK
<1>3. cut' = 0 /\ (~quit' => jobCount' = running')
  BY <1>2 DEF HandlerNext, newJob, jobFinished, TimeOut, handlerVars, history
<1> QED
  BY <1>1, <1>3 DEF HandlerInv

\* The process never quits under a running job, whatever the two timeouts are and
\* however many jobs overlap.
THEOREM NeverCutsJobs == HandlerSpec => []QuitsOnlyIdle
<1>1. HandlerInit => HandlerInv
  <2> SUFFICES ASSUME HandlerInit PROVE HandlerInv
    OBVIOUS
  <2>1. active \in BOOLEAN /\ onInitial \in BOOLEAN
    BY Zenon DEF HandlerInit
  <2>2. /\ s_persist \in BOOLEAN /\ initialTimeout \in Timeouts /\ timeout \in Timeouts
        /\ onTimer = FALSE /\ firstJobStarted = FALSE /\ jobCount = 0 /\ quit = FALSE
        /\ running = 0 /\ started = 0 /\ cut = 0
    BY DEF HandlerInit
  <2>3. onTimer \in BOOLEAN /\ firstJobStarted \in BOOLEAN /\ quit \in BOOLEAN
    BY <2>2
  <2>4. jobCount \in Int /\ running \in Nat /\ started \in Nat /\ cut \in Nat
    BY <2>2
  <2>5. HandlerTypeOK
    BY <2>1, <2>2, <2>3, <2>4 DEF HandlerTypeOK
  <2> QED
    BY <2>2, <2>5 DEF HandlerInv
<1>2. HandlerInv /\ [HandlerNext]_handlerVars => HandlerInv'
  BY HandlerNextInv
<1>3. HandlerInv => QuitsOnlyIdle
  BY DEF HandlerInv, QuitsOnlyIdle
<1> QED
  BY <1>1, <1>2, <1>3, PTL DEF HandlerSpec

-----------------------------------------------------------------------------
(***************************************************************************)
(* The lists of presences.  The bus has one order: for each presence there *)
(* is a last change, v, that every process has in its queue or has heard.  *)
(***************************************************************************)
Changes == [presence : Presets, on : BOOLEAN]
About(p) == {x \in Changes : x.presence = p}
Listing(p, v) == {x \in About(p) : x.on = v}

ListTypes ==
    /\ using \subseteq Clients
    /\ m_presences \in [Clients -> SUBSET Presets]
    /\ signals \in [Clients -> Seq(Changes)]
    /\ heard \in [Clients -> SUBSET Presets]
    /\ saved \subseteq Presets

\* What c will have of p, once it received its signals.
Heading(c, p, v) ==
    /\ LastIn(signals[c], About(p), Listing(p, v))
    /\ ~Has(signals[c], About(p)) /\ p \in heard[c] => (p \in m_presences[c] <=> v = TRUE)

ListsInv ==
    /\ ListTypes
    /\ \A c \in Clients \ using : signals[c] = <<>> /\ heard[c] = {}
    /\ \A p \in Presets : \E v \in BOOLEAN : \A c \in using : Heading(c, p, v)

\* A change by c is the last one about p, and changes nothing else.
LEMMA ListChangeKeeps ==
    ASSUME ListsInv, NEW c \in using, NEW p \in Presets,
           modifyModel(c, p), propagateChange(c, p), UNCHANGED <<using, saved, heard>>
    PROVE  ListsInv'
<1>0. PICK on \in BOOLEAN :
        signals' = [d \in Clients |->
                      IF d \in using THEN Append(signals[d], [presence |-> p, on |-> on])
                      ELSE signals[d]]
  <2> WITNESS (p \in m_presences'[c]) \in BOOLEAN
  <2> QED
    BY DEF propagateChange
<1> DEFINE x == [presence |-> p, on |-> on]
<1>1. c \in Clients /\ x \in Changes
  BY DEF ListsInv, ListTypes, Changes
<1>2. /\ m_presences' \in [Clients -> SUBSET Presets]
      /\ \A d \in Clients : \A q \in Presets :
            d # c \/ q # p => (q \in m_presences'[d] <=> q \in m_presences[d])
  BY <1>1 DEF ListsInv, ListTypes, modifyModel
<1>3. /\ signals' = [d \in Clients |-> IF d \in using THEN Append(signals[d], x) ELSE signals[d]]
      /\ \A d \in Clients : signals[d] \in Seq(Changes)
  BY <1>0 DEF ListsInv, ListTypes
<1>x. x.on = on /\ x.presence = p
  OBVIOUS
<1> HIDE DEF x
<1>4. signals' \in [Clients -> Seq(Changes)]
  <2>1. \A d \in Clients : Append(signals[d], x) \in Seq(Changes)
    BY <1>1, <1>3, AppendProperties
  <2> QED
    BY <1>3, <2>1
<1>5. x \in Listing(p, on) /\ x \in About(p) /\ \A q \in Presets : q # p => x \notin About(q)
  BY <1>1, <1>x DEF About, Listing
<1>6. ASSUME NEW d \in using PROVE Heading(d, p, on)'
  <2>1. d \in Clients /\ signals'[d] = Append(signals[d], x) /\ signals[d] \in Seq(Changes)
    BY <1>3, <1>6 DEF ListsInv, ListTypes
  <2>2. Has(signals'[d], About(p)) /\ LastIn(signals'[d], About(p), Listing(p, on))
    BY <1>1, <1>5, <2>1, HasAppend, LastAppend
  <2> QED
    BY <2>2 DEF Heading
<1>7. ASSUME NEW q \in Presets, q # p, NEW v \in BOOLEAN, NEW d \in using, Heading(d, q, v)
      PROVE  Heading(d, q, v)'
  <2>1. d \in Clients /\ signals'[d] = Append(signals[d], x) /\ signals[d] \in Seq(Changes)
    BY <1>3, <1>7 DEF ListsInv, ListTypes
  <2>2. /\ Has(signals'[d], About(q)) <=> Has(signals[d], About(q))
        /\ LastIn(signals'[d], About(q), Listing(q, v))
    BY <1>1, <1>5, <1>7, <2>1, HasAppend, LastAppend DEF Heading
  <2> QED
    BY <1>2, <1>7, <2>1, <2>2 DEF Heading
<1>8. ASSUME NEW q \in Presets PROVE \E v \in BOOLEAN : \A d \in using : Heading(d, q, v)'
  <2>1. CASE q = p
    BY <1>6, <2>1
  <2>2. CASE q # p
    BY <1>7, <2>2 DEF ListsInv
  <2> QED
    BY <2>1, <2>2
<1> QED
  BY <1>2, <1>3, <1>4, <1>8 DEF ListsInv, ListTypes

\* A signal is received: if it was the last about p, the list follows it.
LEMMA ListSignalTaken ==
    ASSUME ListsInv, NEW c \in Clients, propagationChange(c) PROVE ListsInv'
<1> DEFINE x == Head(signals[c])
           p == x.presence
<1>1. /\ signals[c] # <<>> /\ signals[c] \in Seq(Changes) /\ c \in using
      /\ UNCHANGED <<using, saved>>
  BY DEF propagationChange, ListsInv, ListTypes
<1>2. x \in Changes /\ Tail(signals[c]) \in Seq(Changes)
  BY <1>1, HeadTailProperties
<1>3. /\ signals' = [signals EXCEPT ![c] = Tail(@)]
      /\ heard' = [heard EXCEPT ![c] = @ \cup {p}]
      /\ m_presences' = [m_presences EXCEPT ![c] =
            IF x.on = (p \in m_presences[c]) THEN @ ELSE IF p \in @ THEN @ \ {p} ELSE @ \cup {p}]
  <2>1. m_presences = [d \in Clients |-> m_presences[d]]
    BY DEF ListsInv, ListTypes
  <2> QED
    BY <2>1 DEF propagationChange, modifyModel
<1>4. p \in Presets /\ x.on \in BOOLEAN
  BY <1>2 DEF Changes
<1>5. /\ \A q : x \in About(q) <=> q = p
      /\ \A q, v : x \in Listing(q, v) <=> q = p /\ v = x.on
  BY <1>2 DEF About, Listing
<1> HIDE DEF x
<1>6. ListTypes'
  BY <1>1, <1>2, <1>3, <1>4 DEF ListsInv, ListTypes
<1>7. /\ \A d \in Clients \ {c} : signals'[d] = signals[d] /\ heard'[d] = heard[d] /\ m_presences'[d] = m_presences[d]
      /\ signals'[c] = Tail(signals[c]) /\ heard'[c] = heard[c] \cup {p}
  BY <1>1, <1>3, <1>4 DEF ListsInv, ListTypes
<1>a. /\ \A q \in Presets : q # p => (q \in m_presences'[c] <=> q \in m_presences[c])
      /\ p \in m_presences'[c] <=> x.on = TRUE
  <2>1. m_presences'[c] = IF x.on = (p \in m_presences[c]) THEN m_presences[c]
                          ELSE IF p \in m_presences[c] THEN m_presences[c] \ {p}
                          ELSE m_presences[c] \cup {p}
    BY <1>3 DEF ListsInv, ListTypes
  <2>2. CASE p \in m_presences[c]
    <3>1. (p \in m_presences[c]) = TRUE
      BY <2>2
    <3>2. m_presences'[c] = IF x.on = TRUE THEN m_presences[c] ELSE m_presences[c] \ {p}
      BY <2>1, <2>2, <3>1
    <3> QED
      BY <1>4, <2>2, <3>2
  <2>3. CASE p \notin m_presences[c]
    <3>1. (p \in m_presences[c]) = FALSE
      BY <2>3
    <3>2. m_presences'[c] = IF x.on = FALSE THEN m_presences[c] ELSE m_presences[c] \cup {p}
      BY <2>1, <2>3, <3>1
    <3> QED
      BY <1>4, <2>3, <3>2
  <2> QED
    BY <2>2, <2>3
<1>8. ASSUME NEW q \in Presets, NEW v \in BOOLEAN, Heading(c, q, v) PROVE Heading(c, q, v)'
  <2> DEFINE s == signals[c]
  <2>1. /\ Has(s, About(q)) <=> x \in About(q) \/ Has(Tail(s), About(q))
        /\ LastIn(Tail(s), About(q), Listing(q, v))
        /\ x \in About(q) /\ ~Has(Tail(s), About(q)) => x \in Listing(q, v)
    BY <1>1, <1>8, HasTail, LastTail DEF Heading, x
  <2> HIDE DEF s
  <2>2. CASE q = p
    BY <1>5, <1>7, <1>a, <2>1, <2>2 DEF Heading, s
  <2>3. CASE q # p
    BY <1>5, <1>7, <1>8, <1>a, <2>1, <2>3 DEF Heading, s
  <2> QED
    BY <2>2, <2>3
<1>9. ASSUME NEW d \in using, d # c, NEW q, NEW v, Heading(d, q, v) PROVE Heading(d, q, v)'
  <2>1. d \in Clients
    BY <1>9 DEF ListsInv, ListTypes
  <2> QED
    BY <1>7, <1>9, <2>1 DEF Heading
<1>10. \A q \in Presets : \E v \in BOOLEAN : \A d \in using : Heading(d, q, v)'
  BY <1>8, <1>9 DEF ListsInv
<1> QED
  BY <1>1, <1>6, <1>7, <1>10 DEF ListsInv

\* A process comes or goes.
LEMMA ListClientKeeps ==
    ASSUME ListsInv, NEW c \in Clients, loadPresences(c) \/ Leave(c) PROVE ListsInv'
<1>1. /\ \A d \in Clients \ {c} : /\ d \in using' <=> d \in using
                                  /\ signals'[d] = signals[d] /\ heard'[d] = heard[d]
                                  /\ m_presences'[d] = m_presences[d]
      /\ signals'[c] = <<>> /\ heard'[c] = {}
      /\ ListTypes'
  <2>1. CASE loadPresences(c)
    BY <2>1 DEF loadPresences, ListsInv, ListTypes, DefaultPresences, Loadable
  <2>2. CASE Leave(c)
    <3>1. <<>> \in Seq(Changes)
      OBVIOUS
    <3> QED
      BY <2>2, <3>1 DEF Leave, ListsInv, ListTypes
  <2> QED
    BY <2>1, <2>2
<1>2. \A q, v : Heading(c, q, v)'
  BY <1>1 DEF Heading, Has, LastIn
<1>3. ASSUME NEW d \in Clients, d # c, NEW q, NEW v, Heading(d, q, v) PROVE Heading(d, q, v)'
  BY <1>1, <1>3 DEF Heading
<1>4. \A q \in Presets : \E v \in BOOLEAN : \A d \in using' : Heading(d, q, v)'
  <2> SUFFICES ASSUME NEW q \in Presets PROVE \E v \in BOOLEAN : \A d \in using' : Heading(d, q, v)'
    OBVIOUS
  <2>1. PICK v \in BOOLEAN : \A d \in using : Heading(d, q, v)
    BY DEF ListsInv
  <2>2. ASSUME NEW d \in using' PROVE Heading(d, q, v)'
    <3>1. d \in Clients
      BY <1>1, <2>2 DEF ListTypes
    <3> QED
      BY <1>1, <1>2, <1>3, <2>1, <2>2, <3>1
  <2> QED
    BY <2>2
<1>5. \A d \in Clients \ using' : signals'[d] = <<>> /\ heard'[d] = {}
  BY <1>1 DEF ListsInv
<1> QED
  BY <1>1, <1>4, <1>5 DEF ListsInv

\* Processes that heard of a change of a presence, and have received their signals, agree
\* on it, for any number of processes, presences and changes that cross on the bus.
THEOREM PresenceListsAgree == ListsInit /\ [][ListsNext]_listVars => []ListsAgree
<1>1. ListsInit => ListsInv
  <2> SUFFICES ASSUME ListsInit PROVE ListsInv
    OBVIOUS
  <2>1. <<>> \in Seq(Changes)
    OBVIOUS
  <2>2. ListTypes
    BY <2>1 DEF ListsInit, ListTypes, Loadable
  <2> QED
    BY <2>2 DEF ListsInit, ListsInv
<1>2. ListsInv /\ [ListsNext]_listVars => ListsInv'
  <2> SUFFICES ASSUME ListsInv, [ListsNext]_listVars PROVE ListsInv'
    OBVIOUS
  <2>1. ASSUME NEW c \in Clients, NEW p \in Presets, addPresence(c, p) \/ removePresence(c, p)
        PROVE  ListsInv'
    <3>1. /\ c \in using /\ modifyModel(c, p) /\ propagateChange(c, p)
          /\ UNCHANGED <<using, saved, heard>>
      BY <2>1 DEF addPresence, removePresence
    <3> QED
      BY <3>1, ListChangeKeeps
  <2>2. ASSUME NEW c \in Clients, loadPresences(c) \/ Leave(c) PROVE ListsInv'
    BY <2>2, ListClientKeeps
  <2>3. ASSUME NEW c \in Clients, propagationChange(c) PROVE ListsInv'
    BY <2>3, ListSignalTaken
  <2>4. ASSUME NEW c \in Clients, syncCustomPresencesToDisk(c) PROVE ListsInv'
    BY <2>4 DEF syncCustomPresencesToDisk, ListsInv, ListTypes, Heading
  <2>5. CASE UNCHANGED listVars
    BY <2>5 DEF listVars, ListsInv, ListTypes, Heading
  <2> QED
    BY <2>1, <2>2, <2>3, <2>4, <2>5 DEF ListsNext
<1>3. ListsInv => ListsAgree
  <2> SUFFICES ASSUME ListsInv, NEW c \in using, NEW d \in using,
                      signals[c] = <<>>, signals[d] = <<>>, NEW p \in heard[c] \cap heard[d]
               PROVE  (p \in m_presences[c]) = (p \in m_presences[d])
    BY DEF ListsAgree
  <2>1. p \in Presets
    BY DEF ListsInv, ListTypes
  <2>2. PICK v \in BOOLEAN : Heading(c, p, v) /\ Heading(d, p, v)
    BY <2>1 DEF ListsInv
  <2>3. ~Has(signals[c], About(p)) /\ ~Has(signals[d], About(p))
    BY DEF Has
  <2> QED
    BY <2>2, <2>3 DEF Heading
<1> QED
  BY <1>1, <1>2, <1>3, PTL

(***************************************************************************)
(* A conversation.                                                         *)
(***************************************************************************)
Moments == Nat \ {None}
Chatted == Incoming \cup Outgoing
SomeStatus == DeliveryStatuses \cup {"Unknown"}

-----------------------------------------------------------------------------
(* Numbers and sequences of them.                                          *)

\* The least of a set of numbers.
LEMMA LeastOf ==
    ASSUME NEW S \in SUBSET Nat, S # {} PROVE Min(S) \in S /\ \A y \in S : Min(S) <= y
<1>1. \E x \in S : \A y \in S : x <= y
  BY LeastNumber
<1> QED
  BY <1>1 DEF Min

\* The greatest of a bounded set of numbers.
LEMMA GreatestOf ==
    ASSUME NEW n \in Nat, NEW S \in SUBSET (0 .. n), S # {}
    PROVE  Max(S) \in S /\ \A y \in S : Max(S) >= y
<1> DEFINE T == {k \in 0 .. n : n - k \in S}
<1>1. T \in SUBSET Nat /\ T # {}
  <2>1. PICK x \in S : TRUE
    OBVIOUS
  <2>2. x \in 0 .. n /\ n - x \in 0 .. n /\ n - (n - x) = x
    OBVIOUS
  <2>3. n - x \in T
    BY <2>2
  <2>4. T \in SUBSET Nat
    OBVIOUS
  <2> QED
    BY <2>3, <2>4
<1>2. PICK k \in T : \A j \in T : k <= j
  <2> HIDE DEF T
  <2> QED
    BY <1>1, LeastNumber
<1>3. n - k \in S /\ k \in Nat
  OBVIOUS
<1>4. \A y \in S : n - k >= y
  <2> TAKE y \in S
  <2>1. y \in 0 .. n /\ n - y \in 0 .. n /\ n - (n - y) = y
    OBVIOUS
  <2>2. k <= n - y
    BY <1>2, <2>1
  <2> QED
    BY <1>3, <2>1, <2>2
<1> QED
  BY <1>3, <1>4 DEF Max

\* A set of numbers can be put in order.
LEMMA OrderExists ==
    ASSUME NEW n \in Nat, NEW S \in SUBSET Nat, IsFiniteSet(S), Cardinality(S) = n
    PROVE  \E s \in [1 .. n -> S] : \A i, j \in 1 .. n : i < j => s[i] < s[j]
<1> DEFINE Can(k, T, s) == s \in [1 .. k -> T] /\ \A i, j \in 1 .. k : i < j => s[i] < s[j]
           Good == {k \in Nat : \A T \in SUBSET Nat :
                       IsFiniteSet(T) /\ Cardinality(T) = k => \E s : Can(k, T, s)}
<1>1. 0 \in Good
  <2> SUFFICES ASSUME NEW T \in SUBSET Nat PROVE \E s : Can(0, T, s)
    OBVIOUS
  <2>1. Can(0, T, [i \in 1 .. 0 |-> 0])
    OBVIOUS
  <2> QED
    BY <2>1
<1>2. ASSUME NEW k \in Nat, k \in Good PROVE k + 1 \in Good
  <2> SUFFICES ASSUME NEW T \in SUBSET Nat, IsFiniteSet(T), Cardinality(T) = k + 1
               PROVE  \E s : Can(k + 1, T, s)
    OBVIOUS
  <2>1. T # {}
    BY FS_EmptySet
  <2>2. PICK x \in T : \A y \in T : x <= y
    BY <2>1, LeastNumber
  <2> DEFINE U == T \ {x}
  <2>3. IsFiniteSet(U) /\ Cardinality(U) = k /\ U \in SUBSET Nat
    <3>1. IsFiniteSet(U) /\ Cardinality(U) = Cardinality(T) - 1
      BY FS_RemoveElement
    <3> QED
      BY <3>1
  <2>4. PICK s : Can(k, U, s)
    BY <1>2, <2>3
  <2> DEFINE t == [i \in 1 .. k + 1 |-> IF i = 1 THEN x ELSE s[i - 1]]
  <2>5. \A i \in 1 .. k + 1 : i # 1 => i - 1 \in 1 .. k
    OBVIOUS
  <2>6. ASSUME NEW y \in U PROVE x < y
    <3>1. y \in Nat /\ x \in Nat /\ x <= y /\ x # y
      BY <2>2
    <3> QED
      BY <3>1
  <2>7. t \in [1 .. k + 1 -> T]
    BY <2>4, <2>5
  <2>8. ASSUME NEW i \in 1 .. k + 1, NEW j \in 1 .. k + 1, i < j PROVE t[i] < t[j]
    <3>1. j # 1 /\ j - 1 \in 1 .. k /\ t[j] = s[j - 1] /\ s[j - 1] \in U
      BY <2>4, <2>5, <2>8
    <3>2. CASE i = 1
      BY <2>6, <3>1, <3>2
    <3>3. CASE i # 1
      <4>1. i - 1 \in 1 .. k /\ t[i] = s[i - 1] /\ i - 1 < j - 1
        BY <2>5, <2>8, <3>3
      <4> QED
        BY <2>4, <3>1, <4>1
    <3> QED
      BY <3>2, <3>3
  <2> HIDE DEF t
  <2> QED
    BY <2>7, <2>8
<1>3. n \in Good
  <2> HIDE DEF Good
  <2> QED
    BY <1>1, <1>2, AllNumbers
<1> QED
  BY <1>3

\* Messages in the order of their times are all that there are, each once.
LEMMA OrderOfTime ==
    ASSUME NEW S \in SUBSET Moments, IsFiniteSet(S)
    PROVE  /\ InOrderOfTime(S) \in Seq(Moments) /\ ToSet(InOrderOfTime(S)) = S
           /\ InOrder(InOrderOfTime(S)) /\ (S = {} => InOrderOfTime(S) = <<>>)
<1> DEFINE n == Cardinality(S)
           s == InOrderOfTime(S)
<1>1. n \in Nat /\ S \in SUBSET Nat
  BY FS_CardinalityType DEF Moments
<1> HIDE DEF n
<1>2. PICK t \in [1 .. n -> S] : \A i, j \in 1 .. n : i < j => t[i] < t[j]
  BY <1>1, OrderExists DEF n
<1>3. \A i, j \in 1 .. n : i # j => t[i] # t[j]
  <2> TAKE i, j \in 1 .. n
  <2>1. t[i] \in Nat /\ t[j] \in Nat
    BY <1>1
  <2> QED
    BY <1>2, <2>1
<1>4. t \in SetToSeqs(S) /\ InOrder(t)
  BY <1>2, <1>3 DEF SetToSeqs, InOrder, n
<1>5. s \in SetToSeqs(S) /\ InOrder(s)
  BY <1>4 DEF InOrderOfTime
<1>6. s \in [1 .. n -> S] /\ \A i, j \in 1 .. n : i # j => s[i] # s[j]
  BY <1>5 DEF SetToSeqs, n
<1> HIDE DEF s
<1>7. s \in Seq(Moments) /\ Len(s) = n
  <2>1. s \in [1 .. n -> Moments]
    BY <1>6
  <2> QED
    BY <1>1, <2>1, SeqOfItems
<1>8. ASSUME NEW x \in S, \A i \in 1 .. n : s[i] # x PROVE FALSE
  <2>1. s \in [1 .. n -> S \ {x}]
    BY <1>6, <1>8
  <2>2. IsFiniteSet(S \ {x}) /\ Cardinality(S \ {x}) = n - 1
    BY <1>8, FS_RemoveElement DEF n
  <2>3. IsFiniteSet(1 .. n) /\ Cardinality(1 .. n) = n
    BY <1>1, FS_Interval
  <2>4. Cardinality(S \ {x}) < Cardinality(1 .. n)
    BY <1>1, <2>2, <2>3
  <2>5. \E i, j \in 1 .. n : i # j /\ s[i] = s[j]
    BY <2>1, <2>2, <2>3, <2>4, FS_PigeonHole
  <2> QED
    BY <1>6, <2>5
<1>9. ToSet(s) = S
  BY <1>6, <1>8 DEF ToSet
<1>10. S = {} => s = <<>>
  <2>1. S = {} => n = 0
    BY FS_EmptySet DEF n
  <2>2. n = 0 => s = <<>>
    BY <1>7, EmptySeq
  <2> QED
    BY <2>1, <2>2
<1> QED
  BY <1>5, <1>7, <1>9, <1>10 DEF s

-----------------------------------------------------------------------------
(* What the dates of a log have together.                                  *)
LogDates == Seq(Seq(Moments))

\* The messages of the first dates, one date after another.
LEMMA EntriesGrow ==
    ASSUME NEW dates \in LogDates
    PROVE  /\ Len(dates) \in Nat
           /\ \A d \in 0 .. Len(dates) : Entries(dates)[d] \in Seq(Moments)
           /\ Entries(dates)[0] = <<>>
           /\ \A d \in 1 .. Len(dates) : Entries(dates)[d] = Entries(dates)[d - 1] \o dates[d]
<1> DEFINE n == Len(dates)
           A == Seq(Moments)
           More(d, s) == s \o dates[d]
           step == [x \in (1 .. n) \X A |-> More(x[1], x[2])]
           def(g) == [d \in 0 .. Len(dates) |-> IF d = 0 THEN <<>> ELSE g[d - 1] \o dates[d]]
<1>1. n \in Nat /\ <<>> \in A /\ \A d \in 1 .. n : dates[d] \in A
  BY DEF LogDates
<1>2. \A d \in 1 .. n, s \in A : More(d, s) \in A
  <2> TAKE d \in 1 .. n, s \in A
  <2>1. dates[d] \in Seq(Moments)
    BY <1>1
  <2> QED
    BY <2>1, ConcatProperties
<1>3. step \in [(1 .. n) \X A -> A]
  BY <1>2
<1>4. \A d \in 1 .. n, s \in A : step[<<d, s>>] = More(d, s)
  OBVIOUS
<1> HIDE DEF step, n, A
<1>5. PICK g : StepByStep(g, A, <<>>, n, step)
  BY <1>1, <1>3, StepsExist
<1> USE DEF n
<1>6. /\ g \in [0 .. n -> A] /\ g[0] = <<>>
      /\ \A d \in 1 .. n : g[d] = step[<<d, g[d - 1]>>]
  BY <1>5 DEF StepByStep
<1>7. \A d \in 1 .. n : d - 1 \in 0 .. n /\ d \in 0 .. n
  BY <1>1
<1>8. \A d \in 1 .. n : g[d] = More(d, g[d - 1])
  BY <1>4, <1>6, <1>7
<1>9. g = def(g)
  <2>1. \A d \in 0 .. n : d = 0 \/ d \in 1 .. n
    BY <1>1
  <2>2. \A d \in 0 .. n : g[d] = def(g)[d]
    BY <1>6, <1>8, <2>1
  <2> QED
    BY <1>6, <2>2
<1>10. Entries(dates) = CHOOSE f : f = def(f)
  BY DEF Entries
<1> DEFINE k == Entries(dates)
<1>11. k = def(k)
  <2> HIDE DEF def
  <2> QED
    BY <1>9, <1>10
<1>12. 0 \in 0 .. n /\ \A d \in 1 .. n : d \in 0 .. n /\ d # 0
  BY <1>1
<1>13. k[0] = def(k)[0] /\ \A d \in 1 .. n : k[d] = def(k)[d]
  BY <1>11
<1> HIDE DEF k
<1>14. k[0] = <<>> /\ \A d \in 1 .. n : k[d] = More(d, k[d - 1])
  BY <1>12, <1>13
<1> DEFINE S == {d \in Nat : d <= n => k[d] \in A}
<1>15. 0 \in S
  BY <1>1, <1>14
<1>16. ASSUME NEW d \in Nat, d \in S PROVE d + 1 \in S
  <2> SUFFICES ASSUME d + 1 <= n PROVE k[d + 1] \in A
    OBVIOUS
  <2>1. d + 1 \in 1 .. n /\ (d + 1) - 1 = d /\ d <= n
    BY <1>1
  <2>2. k[d + 1] = More(d + 1, k[d]) /\ k[d] \in A
    BY <1>14, <1>16, <2>1
  <2> QED
    BY <1>2, <2>1, <2>2
<1>17. \A d \in Nat : d \in S
  <2> HIDE DEF S
  <2> QED
    BY <1>15, <1>16, AllNumbers
<1>18. \A d \in 0 .. n : k[d] \in A
  BY <1>17
<1> QED
  BY <1>1, <1>14, <1>18 DEF k, A

\* Each date has its place in the whole.
LEMMA DatesInPlace ==
    ASSUME NEW dates \in LogDates
    PROVE  /\ Len(dates) \in Nat /\ AllEntries(dates) \in Seq(Moments)
           /\ \A d \in 0 .. Len(dates) :
                /\ Entries(dates)[d] \in Seq(Moments) /\ Len(Entries(dates)[d]) \in Nat
                /\ Len(Entries(dates)[d]) <= Len(AllEntries(dates))
           /\ Len(Entries(dates)[0]) = 0
           /\ \A d \in 1 .. Len(dates) :
                /\ dates[d] \in Seq(Moments) /\ Len(dates[d]) \in Nat
                /\ Len(Entries(dates)[d]) = Len(Entries(dates)[d - 1]) + Len(dates[d])
                /\ \A i \in 1 .. Len(dates[d]) :
                     AllEntries(dates)[Len(Entries(dates)[d - 1]) + i] = dates[d][i]
<1> DEFINE n == Len(dates)
           e == Entries(dates)
           all == AllEntries(dates)
<1>1. /\ n \in Nat /\ \A d \in 0 .. n : e[d] \in Seq(Moments)
      /\ e[0] = <<>> /\ \A d \in 1 .. n : e[d] = e[d - 1] \o dates[d]
  BY EntriesGrow
<1>2. \A d \in 1 .. n : dates[d] \in Seq(Moments)
  BY <1>1 DEF LogDates
<1>3. all = e[n]
  BY DEF AllEntries
<1> HIDE DEF n, e, all
<1>4. \A d \in 0 .. n : Len(e[d]) \in Nat
  BY <1>1, LenProperties
<1>5. ASSUME NEW d \in 1 .. n
      PROVE  /\ Len(dates[d]) \in Nat /\ Len(e[d]) = Len(e[d - 1]) + Len(dates[d])
             /\ \A i \in 1 .. Len(e[d - 1]) : e[d][i] = e[d - 1][i]
             /\ \A i \in 1 .. Len(dates[d]) : e[d][Len(e[d - 1]) + i] = dates[d][i]
  <2> DEFINE s == e[d - 1]
             t == dates[d]
  <2>1. d - 1 \in 0 .. n
    BY <1>1
  <2>2. s \in Seq(Moments) /\ t \in Seq(Moments) /\ e[d] = s \o t
    BY <1>1, <1>2, <2>1
  <2> HIDE DEF s, t
  <2>3. /\ Len(s \o t) = Len(s) + Len(t)
        /\ \A i \in 1 .. Len(s) + Len(t) : (s \o t)[i] = IF i <= Len(s) THEN s[i] ELSE t[i - Len(s)]
    BY <2>2, ConcatProperties
  <2>4. Len(s) \in Nat /\ Len(t) \in Nat
    BY <2>2, LenProperties
  <2>5. ASSUME NEW i \in 1 .. Len(t) PROVE e[d][Len(s) + i] = t[i]
    <3>1. Len(s) + i \in 1 .. Len(s) + Len(t) /\ ~(Len(s) + i <= Len(s)) /\ (Len(s) + i) - Len(s) = i
      BY <2>4
    <3> QED
      BY <2>2, <2>3, <3>1
  <2>6. ASSUME NEW i \in 1 .. Len(s) PROVE e[d][i] = s[i]
    <3>1. i \in 1 .. Len(s) + Len(t) /\ i <= Len(s)
      BY <2>4
    <3> QED
      BY <2>2, <2>3, <3>1
  <2> QED
    BY <2>2, <2>3, <2>4, <2>5, <2>6 DEF s, t
<1> DEFINE Begins(d) == Len(e[d]) <= Len(all) /\ \A i \in 1 .. Len(e[d]) : e[d][i] = all[i]
           S == {k \in Nat : k <= n => Begins(n - k)}
<1>6. 0 \in S
  <2>1. n - 0 = n /\ n \in 0 .. n
    BY <1>1
  <2>2. Begins(n)
    BY <1>3, <1>4, <2>1
  <2> QED
    BY <2>1, <2>2
<1>7. ASSUME NEW k \in Nat, k \in S PROVE k + 1 \in S
  <2> SUFFICES ASSUME k + 1 <= n PROVE Begins(n - (k + 1))
    OBVIOUS
  <2> DEFINE d == n - k
  <2>1. d \in 1 .. n /\ n - (k + 1) = d - 1 /\ d - 1 \in 0 .. n /\ d \in 0 .. n /\ k <= n
    BY <1>1
  <2>2. Begins(d)
    BY <1>7, <2>1
  <2> HIDE DEF d
  <2>3. /\ Len(e[d - 1]) \in Nat /\ Len(e[d]) \in Nat /\ Len(e[d - 1]) <= Len(e[d])
        /\ \A i \in 1 .. Len(e[d - 1]) : e[d][i] = e[d - 1][i]
    <3>1. Len(e[d - 1]) \in Nat /\ Len(e[d]) \in Nat
      BY <1>4, <2>1
    <3>2. /\ Len(dates[d]) \in Nat /\ Len(e[d]) = Len(e[d - 1]) + Len(dates[d])
          /\ \A i \in 1 .. Len(e[d - 1]) : e[d][i] = e[d - 1][i]
      BY <1>5, <2>1
    <3> DEFINE a == Len(e[d - 1])
               b == Len(dates[d])
               c == Len(e[d])
    <3>3. a \in Nat /\ b \in Nat /\ c = a + b
      BY <3>1, <3>2
    <3> HIDE DEF a, b, c
    <3>4. a <= c
      BY <3>3
    <3> QED
      BY <3>1, <3>2, <3>4 DEF a, c
  <2>4. Len(all) \in Nat
    BY <1>1, <1>3, <1>4
  <2>5. \A i \in 1 .. Len(e[d - 1]) : i \in 1 .. Len(e[d])
    BY <2>3
  <2>6. Begins(d - 1)
    BY <2>2, <2>3, <2>4, <2>5
  <2> QED
    BY <2>1, <2>6
<1>8. \A k \in Nat : k \in S
  <2> HIDE DEF S
  <2> QED
    BY <1>6, <1>7, AllNumbers
<1>9. ASSUME NEW d \in 0 .. n PROVE Begins(d)
  <2>1. n - d \in Nat /\ n - d <= n /\ n - (n - d) = d
    BY <1>1
  <2>2. n - d \in S
    BY <1>8, <2>1
  <2>3. Begins(n - (n - d))
    BY <2>1, <2>2
  <2> QED
    BY <2>1, <2>3
<1>10. ASSUME NEW d \in 1 .. n, NEW i \in 1 .. Len(dates[d])
       PROVE  all[Len(e[d - 1]) + i] = dates[d][i]
  <2>1. d \in 0 .. n /\ d - 1 \in 0 .. n
    BY <1>1
  <2>2. Len(e[d - 1]) + i \in 1 .. Len(e[d])
    <3>1. Len(e[d - 1]) \in Nat /\ Len(e[d]) \in Nat
      BY <1>4, <2>1
    <3>2. Len(dates[d]) \in Nat /\ Len(e[d]) = Len(e[d - 1]) + Len(dates[d])
      BY <1>5
    <3> DEFINE a == Len(e[d - 1])
               b == Len(dates[d])
               c == Len(e[d])
    <3>3. a \in Nat /\ b \in Nat /\ c = a + b /\ i \in 1 .. b
      BY <3>1, <3>2
    <3> HIDE DEF a, b, c
    <3>4. a + i \in 1 .. c
      BY <3>3
    <3> QED
      BY <3>4 DEF a, c
  <2>3. e[d][Len(e[d - 1]) + i] = all[Len(e[d - 1]) + i]
    BY <1>9, <2>1, <2>2
  <2> QED
    BY <1>5, <2>3
<1>11. all \in Seq(Moments) /\ Len(e[0]) = 0
  <2>1. n \in 0 .. n /\ 0 \in 0 .. n
    BY <1>1
  <2> QED
    BY <1>1, <1>3, <2>1
<1> QED
  BY <1>1, <1>2, <1>4, <1>5, <1>9, <1>10, <1>11 DEF n, e, all

\* The log with one message more.
LoggedTo(dates, x) ==
    IF dates = <<>> THEN <<<<x>>>> ELSE [dates EXCEPT ![Len(dates)] = Append(@, x)]

\* What the logger writes comes after all that was written.
LEMMA LogGrows ==
    ASSUME NEW dates \in LogDates, NEW x \in Moments
    PROVE  /\ LoggedTo(dates, x) \in LogDates /\ Len(dates) <= Len(LoggedTo(dates, x))
           /\ AllEntries(LoggedTo(dates, x)) = Append(AllEntries(dates), x)
           /\ Len(LoggedTo(dates, x)) > 0
           /\ dates # <<>> => /\ Len(LoggedTo(dates, x)) = Len(dates)
                              /\ \A d \in 0 .. Len(dates) - 1 :
                                   Entries(LoggedTo(dates, x))[d] = Entries(dates)[d]
<1> DEFINE grown == LoggedTo(dates, x)
<1>1. CASE dates = <<>>
  <2>1. grown = <<<<x>>>> /\ <<x>> \in Seq(Moments)
    BY <1>1 DEF LoggedTo
  <2>2. grown \in LogDates /\ Len(grown) = 1 /\ grown[1] = <<x>>
    BY <2>1 DEF LogDates
  <2>3. Entries(grown)[0] = <<>> /\ Entries(grown)[1] = Entries(grown)[0] \o grown[1]
    <3>1. 1 \in 1 .. Len(grown) /\ 1 - 1 = 0
      BY <2>2
    <3> QED
      BY <2>2, <3>1, EntriesGrow
  <2>4. AllEntries(grown) = <<x>>
    <3>1. <<>> \o <<x>> = <<x>>
      BY <2>1, ConcatEmptySeq
    <3> QED
      BY <2>2, <2>3, <3>1 DEF AllEntries
  <2>5. Len(dates) = 0 /\ AllEntries(dates) = <<>>
    <3>1. Len(dates) = 0
      BY <1>1
    <3> QED
      BY <3>1, EntriesGrow DEF AllEntries
  <2>6. Append(<<>>, x) = <<x>>
    BY <2>1
  <2>7. Len(dates) <= Len(grown) /\ Len(grown) > 0
    BY <2>2, <2>5
  <2> HIDE DEF grown
  <2>8. AllEntries(grown) = Append(AllEntries(dates), x)
    BY <2>4, <2>5, <2>6
  <2> QED
    BY <1>1, <2>2, <2>7, <2>8 DEF grown
<1>2. CASE dates # <<>>
  <2> DEFINE n == Len(dates)
             last == dates[n]
  <2>1. n \in Nat \ {0} /\ n \in 1 .. n /\ dates \in Seq(Seq(Moments))
    BY <1>2, EmptySeq DEF LogDates
  <2>2. last \in Seq(Moments)
    BY <2>1
  <2>3. Append(last, x) \in Seq(Moments) /\ Append(last, x) = last \o <<x>> /\ <<x>> \in Seq(Moments)
    BY <2>2, AppendProperties, AppendIsConcat
  <2>4. grown = [dates EXCEPT ![n] = Append(last, x)]
    BY <1>2 DEF LoggedTo
  <2> HIDE DEF grown, last
  <2>5. /\ grown \in Seq(Seq(Moments)) /\ Len(grown) = n
        /\ \A d \in 1 .. n : grown[d] = IF d = n THEN Append(last, x) ELSE dates[d]
    BY <2>1, <2>3, <2>4, ExceptSeq
  <2> HIDE DEF n
  <2>6. grown \in LogDates
    BY <2>5 DEF LogDates
  <2>7. /\ Entries(dates)[0] = <<>>
        /\ \A d \in 1 .. n : Entries(dates)[d] = Entries(dates)[d - 1] \o dates[d]
        /\ \A d \in 0 .. n : Entries(dates)[d] \in Seq(Moments)
    BY EntriesGrow DEF n
  <2>8. /\ Entries(grown)[0] = <<>>
        /\ \A d \in 1 .. n : Entries(grown)[d] = Entries(grown)[d - 1] \o grown[d]
    BY <2>5, <2>6, EntriesGrow
  <2> DEFINE S == {k \in Nat : k <= n - 1 => Entries(grown)[k] = Entries(dates)[k]}
  <2>9. 0 \in S
    BY <2>7, <2>8
  <2>10. ASSUME NEW k \in Nat, k \in S PROVE k + 1 \in S
    <3> SUFFICES ASSUME k + 1 <= n - 1 PROVE Entries(grown)[k + 1] = Entries(dates)[k + 1]
      OBVIOUS
    <3>1. k + 1 \in 1 .. n /\ k + 1 # n /\ (k + 1) - 1 = k /\ k <= n - 1
      BY <2>1
    <3>2. grown[k + 1] = dates[k + 1] /\ Entries(grown)[k] = Entries(dates)[k]
      BY <2>5, <2>10, <3>1
    <3> QED
      BY <2>7, <2>8, <3>1, <3>2
  <2>11. \A k \in Nat : k \in S
    <3> HIDE DEF S
    <3> QED
      BY <2>9, <2>10, AllNumbers
  <2>12. \A d \in 0 .. n - 1 : Entries(grown)[d] = Entries(dates)[d]
    BY <2>11
  <2>13. n - 1 \in 0 .. n - 1 /\ n - 1 \in 0 .. n /\ n \in 0 .. n
    BY <2>1
  <2> DEFINE s == Entries(dates)[n - 1]
             t == Entries(dates)[n]
  <2>14. /\ Entries(grown)[n] = s \o (last \o <<x>>) /\ s \in Seq(Moments)
         /\ t = s \o last /\ t \in Seq(Moments)
    BY <2>1, <2>3, <2>5, <2>7, <2>8, <2>12, <2>13 DEF last
  <2> HIDE DEF s, t
  <2>15. s \o (last \o <<x>>) = (s \o last) \o <<x>>
    BY <2>2, <2>3, <2>14, ConcatAssociative
  <2>16. t \o <<x>> = Append(t, x)
    BY <2>14, AppendIsConcat
  <2>17. Entries(grown)[n] = Append(t, x)
    BY <2>14, <2>15, <2>16
  <2>18. AllEntries(grown) = Append(AllEntries(dates), x)
    BY <2>5, <2>17 DEF AllEntries, t, n
  <2> QED
    BY <1>2, <2>1, <2>5, <2>6, <2>12, <2>18 DEF n, grown
<1> QED
  BY <1>1, <1>2

-----------------------------------------------------------------------------
(* Rows that agree with each other and with what was reported.             *)
RowRecords == [messages : Seq(Moments), deliveryStatus : Seq(SomeStatus), rowOf : [Outgoing -> Nat]]

RowFound(r, m) ==
    /\ r.rowOf[m] \in 1 .. Len(r.messages) /\ r.messages[r.rowOf[m]] = m
    /\ r.deliveryStatus[r.rowOf[m]] = reported[m]

Agree(r) ==
    /\ Len(r.deliveryStatus) = Len(r.messages)
    /\ \A m \in Outgoing : IF r.rowOf[m] = None THEN reported[m] = "Unknown" ELSE RowFound(r, m)

GoodRows == {r \in RowRecords : Agree(r)}

\* Rows that are inserted somewhere, and the others with them.
Widened(r, s, at, ms) ==
    /\ Len(s.messages) = Len(r.messages) + Len(ms)
    /\ \A i \in 1 .. at : s.messages[i] = r.messages[i] /\ s.deliveryStatus[i] = r.deliveryStatus[i]
    /\ \A i \in 1 .. Len(ms) : s.messages[at + i] = ms[i]
    /\ \A i \in at + 1 .. Len(r.messages) :
         /\ s.messages[i + Len(ms)] = r.messages[i]
         /\ s.deliveryStatus[i + Len(ms)] = r.deliveryStatus[i]

\* Wherever it is, every sent message is found again and no message is lost.
LEMMA WidenedRows ==
    ASSUME NEW r \in GoodRows, NEW s \in RowRecords, NEW at \in 0 .. Len(r.messages),
           NEW ms \in Seq(Moments), Widened(r, s, at, ms),
           Len(s.deliveryStatus) = Len(s.messages),
           s.rowOf = [m \in Outgoing |-> Shifted(r.rowOf[m], at + 1, Len(ms))]
    PROVE  s \in GoodRows /\ ToSet(s.messages) = ToSet(r.messages) \cup ToSet(ms)
<1> DEFINE n == Len(r.messages)
           k == Len(ms)
<1>1. /\ r \in RowRecords /\ Len(r.deliveryStatus) = n
      /\ \A m \in Outgoing : IF r.rowOf[m] = None THEN reported[m] = "Unknown" ELSE RowFound(r, m)
  BY DEF GoodRows, Agree
<1>2. r.messages \in Seq(Moments) /\ s.messages \in Seq(Moments) /\ r.rowOf \in [Outgoing -> Nat]
  BY <1>1 DEF RowRecords
<1>3. /\ n \in Nat /\ k \in Nat /\ at \in Nat /\ at <= n
      /\ DOMAIN r.messages = 1 .. n /\ DOMAIN ms = 1 .. k
      /\ DOMAIN s.messages = 1 .. Len(s.messages)
  BY <1>2, LenProperties
<1>4. /\ Len(s.messages) = n + k
      /\ \A i \in 1 .. at : s.messages[i] = r.messages[i] /\ s.deliveryStatus[i] = r.deliveryStatus[i]
      /\ \A i \in 1 .. k : s.messages[at + i] = ms[i]
      /\ \A i \in at + 1 .. n : /\ s.messages[i + k] = r.messages[i]
                                /\ s.deliveryStatus[i + k] = r.deliveryStatus[i]
  BY DEF Widened
<1> HIDE DEF n, k
<1>5. ASSUME NEW m \in Outgoing, s.rowOf[m] # None PROVE RowFound(s, m)
  <2> DEFINE x == r.rowOf[m]
  <2>1. x \in Nat /\ s.rowOf[m] = IF x # None /\ x >= at + 1 THEN x + k ELSE x
    BY <1>2 DEF Shifted, k
  <2> HIDE DEF x
  <2>2. x # None
    BY <1>5, <2>1 DEF None
  <2>3. x \in 1 .. n /\ r.messages[x] = m /\ r.deliveryStatus[x] = reported[m]
    BY <1>1, <2>2 DEF RowFound, x, n
  <2>4. CASE x <= at
    <3>1. s.rowOf[m] = x /\ x \in 1 .. at /\ x \in 1 .. n + k
      BY <1>3, <2>1, <2>3, <2>4
    <3> QED
      BY <1>4, <2>3, <3>1 DEF RowFound
  <2>5. CASE x > at
    <3>1. s.rowOf[m] = x + k /\ x \in at + 1 .. n /\ x + k \in 1 .. n + k
      BY <1>3, <2>1, <2>2, <2>3, <2>5
    <3> QED
      BY <1>4, <2>3, <3>1 DEF RowFound
  <2> QED
    BY <1>3, <2>1, <2>4, <2>5
<1>a. ASSUME NEW m \in Outgoing, s.rowOf[m] = None PROVE reported[m] = "Unknown"
  <2>1. r.rowOf[m] \in Nat /\ s.rowOf[m] = Shifted(r.rowOf[m], at + 1, k)
    BY <1>2 DEF k
  <2>2. r.rowOf[m] = None
    BY <1>3, <1>a, <2>1 DEF Shifted, None
  <2> QED
    BY <1>1, <2>2
<1>6. ASSUME NEW x, \E i \in 1 .. n + k : s.messages[i] = x
      PROVE  (\E i \in 1 .. n : r.messages[i] = x) \/ (\E i \in 1 .. k : ms[i] = x)
  <2>1. PICK i \in 1 .. n + k : s.messages[i] = x
    BY <1>6
  <2>2. CASE i <= at
    <3>1. i \in 1 .. at /\ i \in 1 .. n
      BY <1>3, <2>2
    <3> QED
      BY <1>4, <2>1, <3>1
  <2>3. CASE i > at /\ i <= at + k
    <3>1. i - at \in 1 .. k /\ at + (i - at) = i
      BY <1>3, <2>3
    <3> QED
      BY <1>4, <2>1, <3>1
  <2>4. CASE i > at + k
    <3>1. i - k \in at + 1 .. n /\ (i - k) + k = i /\ i - k \in 1 .. n
      BY <1>3, <2>4
    <3> QED
      BY <1>4, <2>1, <3>1
  <2> QED
    BY <1>3, <2>2, <2>3, <2>4
<1>7. ASSUME NEW i \in 1 .. n PROVE \E j \in 1 .. n + k : s.messages[j] = r.messages[i]
  <2>1. CASE i <= at
    <3>1. i \in 1 .. at /\ i \in 1 .. n + k
      BY <1>3, <2>1
    <3> QED
      BY <1>4, <3>1
  <2>2. CASE i > at
    <3>1. i \in at + 1 .. n /\ i + k \in 1 .. n + k
      BY <1>3, <2>2
    <3> QED
      BY <1>4, <3>1
  <2> QED
    BY <1>3, <2>1, <2>2
<1>8. ASSUME NEW i \in 1 .. k PROVE \E j \in 1 .. n + k : s.messages[j] = ms[i]
  <2>1. at + i \in 1 .. n + k
    BY <1>3
  <2> QED
    BY <1>4, <2>1
<1>9. ToSet(s.messages) = ToSet(r.messages) \cup ToSet(ms)
  <2>1. DOMAIN s.messages = 1 .. n + k
    BY <1>3, <1>4
  <2>2. ToSet(s.messages) \subseteq ToSet(r.messages) \cup ToSet(ms)
    BY <1>3, <1>6, <2>1 DEF ToSet
  <2>3. ASSUME NEW x \in ToSet(r.messages) PROVE x \in ToSet(s.messages)
    <3>1. PICK i \in 1 .. n : r.messages[i] = x
      BY <1>3 DEF ToSet
    <3>2. PICK j \in 1 .. n + k : s.messages[j] = x
      BY <1>7, <3>1
    <3> QED
      BY <2>1, <3>2 DEF ToSet
  <2>4. ASSUME NEW x \in ToSet(ms) PROVE x \in ToSet(s.messages)
    <3>1. PICK i \in 1 .. k : ms[i] = x
      BY <1>3 DEF ToSet
    <3>2. PICK j \in 1 .. n + k : s.messages[j] = x
      BY <1>8, <3>1
    <3> QED
      BY <2>1, <3>2 DEF ToSet
  <2> QED
    BY <2>2, <2>3, <2>4
<1>10. s \in GoodRows
  BY <1>5, <1>a DEF GoodRows, Agree
<1> QED
  BY <1>9, <1>10

\* A message is inserted among the rows, at the end if it has no sending time.
LEMMA InsertedRows ==
    ASSUME NEW r \in GoodRows, NEW m \in Moments, NEW timed \in BOOLEAN
    PROVE  /\ Inserted(r, m, timed) \in GoodRows
           /\ ToSet(Inserted(r, m, timed).messages) = ToSet(r.messages) \cup {m}
           /\ ~timed => Inserted(r, m, timed).messages = Append(r.messages, m)
<1> DEFINE n == Len(r.messages)
           s == Inserted(r, m, timed)
           at == IF timed THEN InsertionIndex(m, r.messages) ELSE n + 1
<1>1. /\ r \in RowRecords /\ r.messages \in Seq(Moments) /\ r.deliveryStatus \in Seq(SomeStatus)
      /\ Len(r.deliveryStatus) = n /\ r.rowOf \in [Outgoing -> Nat]
  BY DEF GoodRows, Agree, RowRecords
<1>2. n \in Nat /\ DOMAIN r.messages = 1 .. n
  BY <1>1, LenProperties
<1> HIDE DEF n
<1>3. at \in 1 .. n + 1
  <2> DEFINE earlier == {i \in DOMAIN r.messages : m > r.messages[i]}
  <2>1. earlier \in SUBSET (0 .. n) /\ earlier \subseteq 1 .. n
    BY <1>2
  <2>2. InsertionIndex(m, r.messages) = IF earlier = {} THEN 1 ELSE Max(earlier)
    BY DEF InsertionIndex
  <2> HIDE DEF earlier
  <2>3. earlier # {} => Max(earlier) \in earlier
    BY <1>2, <2>1, GreatestOf
  <2>4. InsertionIndex(m, r.messages) \in 1 .. n + 1
    <3>1. CASE earlier = {}
      BY <1>2, <2>2, <3>1
    <3>2. CASE earlier # {}
      <4>1. Max(earlier) \in 1 .. n
        BY <2>1, <2>3, <3>2
      <4>2. InsertionIndex(m, r.messages) = Max(earlier)
        BY <2>2, <3>2
      <4> QED
        BY <1>2, <4>1, <4>2
    <3> QED
      BY <3>1, <3>2
  <2> QED
    BY <1>2, <2>4
<1>4. /\ s.messages = InsertAt(r.messages, at, m)
      /\ s.deliveryStatus = InsertAt(r.deliveryStatus, at, "Unknown")
      /\ s.rowOf = [x \in Outgoing |-> Shifted(r.rowOf[x], at, 1)]
      /\ s = [messages |-> InsertAt(r.messages, at, m),
              deliveryStatus |-> InsertAt(r.deliveryStatus, at, "Unknown"),
              rowOf |-> [x \in Outgoing |-> Shifted(r.rowOf[x], at, 1)]]
  BY DEF Inserted, n
<1> HIDE DEF at, s
<1> DEFINE b == at - 1
<1>5. b \in 0 .. n /\ b + 1 = at
  BY <1>2, <1>3
<1> HIDE DEF b
<1>6. /\ s.messages = WithItem(r.messages, b, m)
      /\ s.deliveryStatus = WithItem(r.deliveryStatus, b, "Unknown")
  <2>1. \A q, x : InsertAt(q, at, x) = WithItem(q, b, x)
    BY <1>5 DEF InsertAt, WithItem, b
  <2> QED
    BY <1>4, <2>1
<1>7. /\ s.messages \in Seq(Moments) /\ Len(s.messages) = n + 1
      /\ \A i \in 1 .. n + 1 : s.messages[i] = IF i <= b THEN r.messages[i]
                                 ELSE IF i = b + 1 THEN m ELSE r.messages[i - 1]
  <2> DEFINE t == r.messages
  <2>0. Len(t) = n
    BY DEF n
  <2>1. t \in Seq(Moments) /\ b \in 0 .. Len(t)
    BY <1>1, <1>5, <2>0
  <2> HIDE DEF t
  <2>2. WithItem(t, b, m) \in Seq(Moments) /\ Len(WithItem(t, b, m)) = Len(t) + 1
    BY <2>1, InsertedItems
  <2>3. ASSUME NEW i \in 1 .. Len(t) + 1
        PROVE  WithItem(t, b, m)[i] = IF i <= b THEN t[i] ELSE IF i = b + 1 THEN m ELSE t[i - 1]
    BY <2>1, InsertedItems
  <2> QED
    BY <1>6, <2>0, <2>2, <2>3 DEF t
<1>8. "Unknown" \in SomeStatus
  BY DEF SomeStatus
<1>9. /\ s.deliveryStatus \in Seq(SomeStatus) /\ Len(s.deliveryStatus) = n + 1
      /\ \A i \in 1 .. n + 1 : s.deliveryStatus[i] = IF i <= b THEN r.deliveryStatus[i]
                                 ELSE IF i = b + 1 THEN "Unknown" ELSE r.deliveryStatus[i - 1]
  <2> DEFINE t == r.deliveryStatus
             x == "Unknown"
  <2>0. Len(t) = n
    BY <1>1
  <2>1. t \in Seq(SomeStatus) /\ x \in SomeStatus /\ b \in 0 .. Len(t)
    BY <1>1, <1>5, <1>8, <2>0
  <2> HIDE DEF t, x
  <2>2. WithItem(t, b, x) \in Seq(SomeStatus) /\ Len(WithItem(t, b, x)) = Len(t) + 1
    BY <2>1, InsertedItems
  <2>3. ASSUME NEW i \in 1 .. Len(t) + 1
        PROVE  WithItem(t, b, x)[i] = IF i <= b THEN t[i] ELSE IF i = b + 1 THEN x ELSE t[i - 1]
    BY <2>1, InsertedItems
  <2> QED
    BY <1>6, <2>0, <2>2, <2>3 DEF t, x
<1>10. s.rowOf \in [Outgoing -> Nat]
  <2>1. \A x \in Outgoing : Shifted(r.rowOf[x], at, 1) \in Nat
    BY <1>1 DEF Shifted
  <2> QED
    BY <1>4, <2>1
<1>11. s \in RowRecords
  BY <1>4, <1>7, <1>9, <1>10 DEF RowRecords
<1>12. <<m>> \in Seq(Moments) /\ Len(<<m>>) = 1 /\ <<m>>[1] = m
  OBVIOUS
<1>13. Widened(r, s, b, <<m>>)
  <2>1. \A i \in 1 .. b : i \in 1 .. n + 1 /\ i <= b
    BY <1>2, <1>5
  <2>2. \A i \in b + 1 .. n : i + 1 \in 1 .. n + 1 /\ ~(i + 1 <= b) /\ i + 1 # b + 1 /\ (i + 1) - 1 = i
    BY <1>2, <1>5
  <2>3. b + 1 \in 1 .. n + 1 /\ ~(b + 1 <= b)
    BY <1>2, <1>5
  <2>4. \A i \in 1 .. b : s.messages[i] = r.messages[i] /\ s.deliveryStatus[i] = r.deliveryStatus[i]
    BY <1>7, <1>9, <2>1
  <2>5. \A i \in b + 1 .. n : /\ s.messages[i + 1] = r.messages[i]
                              /\ s.deliveryStatus[i + 1] = r.deliveryStatus[i]
    BY <1>7, <1>9, <2>2
  <2>6. s.messages[b + 1] = m
    BY <1>7, <2>3
  <2>7. \A i \in 1 .. 1 : i = 1
    OBVIOUS
  <2> QED
    BY <1>7, <1>12, <2>4, <2>5, <2>6, <2>7 DEF Widened, n
<1>14. s.rowOf = [x \in Outgoing |-> Shifted(r.rowOf[x], b + 1, Len(<<m>>))]
  BY <1>4, <1>5, <1>12
<1>15. s \in GoodRows /\ ToSet(s.messages) = ToSet(r.messages) \cup ToSet(<<m>>)
  <2>1. b \in 0 .. Len(r.messages) /\ Len(s.deliveryStatus) = Len(s.messages)
    BY <1>5, <1>7, <1>9 DEF n
  <2> DEFINE ms == <<m>>
  <2>2. ms \in Seq(Moments) /\ Widened(r, s, b, ms)
    BY <1>12, <1>13
  <2>3. s.rowOf = [x \in Outgoing |-> Shifted(r.rowOf[x], b + 1, Len(ms))]
    BY <1>14
  <2> HIDE DEF ms
  <2>4. s \in GoodRows /\ ToSet(s.messages) = ToSet(r.messages) \cup ToSet(ms)
    BY <1>11, <2>1, <2>2, <2>3, WidenedRows
  <2> QED
    BY <2>4 DEF ms
<1>16. ToSet(<<m>>) = {m}
  BY DEF ToSet
<1>17. ASSUME ~timed PROVE s.messages = Append(r.messages, m)
  <2>1. b = n
    BY <1>2, <1>5, <1>17 DEF at
  <2>2. /\ Append(r.messages, m) \in Seq(Moments) /\ Len(Append(r.messages, m)) = n + 1
        /\ \A i \in 1 .. n : Append(r.messages, m)[i] = r.messages[i]
        /\ Append(r.messages, m)[n + 1] = m
    BY <1>1, AppendProperties DEF n
  <2>3. ASSUME NEW i \in 1 .. n + 1 PROVE s.messages[i] = Append(r.messages, m)[i]
    <3>1. i \in 1 .. n \/ i = n + 1
      BY <1>2
    <3>2. s.messages[i] = IF i <= n THEN r.messages[i] ELSE IF i = n + 1 THEN m ELSE r.messages[i - 1]
      BY <1>7, <2>1
    <3>3. CASE i \in 1 .. n
      BY <1>2, <2>2, <3>2, <3>3
    <3>4. CASE i = n + 1
      <4>1. ~(i <= n)
        BY <1>2, <3>4
      <4> QED
        BY <2>2, <3>2, <3>4, <4>1
    <3> QED
      BY <3>1, <3>3, <3>4
  <2> QED
    BY <1>7, <2>2, <2>3, SeqEqual
<1> QED
  BY <1>15, <1>16, <1>17 DEF s

\* The rows are set to good ones.
LEMMA RowsSet ==
    ASSUME NEW s \in GoodRows, SetRows(s), reported' = reported
    PROVE  /\ (Rows \in GoodRows)' /\ messages' = s.messages
           /\ deliveryStatus' = s.deliveryStatus /\ rowOf' = s.rowOf
<1>1. /\ messages' = s.messages /\ deliveryStatus' = s.deliveryStatus /\ rowOf' = s.rowOf
  BY DEF SetRows
<1>2. s = [messages |-> s.messages, deliveryStatus |-> s.deliveryStatus, rowOf |-> s.rowOf]
  BY DEF GoodRows, RowRecords
<1>3. Rows' = s
  BY <1>1, <1>2 DEF Rows
<1>4. GoodRows' = GoodRows
  BY DEF GoodRows, Agree, RowFound
<1> QED
  BY <1>1, <1>3, <1>4

\* Good rows, read as the variables they are made of.
LEMMA RowTypes ==
    ASSUME Rows \in GoodRows
    PROVE  /\ messages \in Seq(Moments) /\ deliveryStatus \in Seq(SomeStatus)
           /\ Len(messages) \in Nat /\ DOMAIN messages = 1 .. Len(messages)
           /\ Len(deliveryStatus) = Len(messages) /\ rowOf \in [Outgoing -> Nat]
           /\ \A m \in Outgoing : rowOf[m] # None =>
                /\ rowOf[m] \in 1 .. Len(messages) /\ messages[rowOf[m]] = m
                /\ deliveryStatus[rowOf[m]] = reported[m]
           /\ \A m \in Outgoing : rowOf[m] = None => reported[m] = "Unknown"
<1>1. /\ Rows.messages = messages /\ Rows.deliveryStatus = deliveryStatus /\ Rows.rowOf = rowOf
  BY DEF Rows
<1>2. Rows \in RowRecords /\ Agree(Rows)
  BY DEF GoodRows
<1>3. messages \in Seq(Moments) /\ deliveryStatus \in Seq(SomeStatus) /\ rowOf \in [Outgoing -> Nat]
  BY <1>1, <1>2 DEF RowRecords
<1> QED
  BY <1>1, <1>2, <1>3, LenProperties DEF Agree, RowFound

\* Rows in front of the others.
LEMMA PrependedRows ==
    ASSUME Rows \in GoodRows, NEW ms \in Seq(Moments), prepend(ms), reported' = reported
    PROVE  /\ (Rows \in GoodRows)' /\ ToSet(messages') = ToSet(messages) \cup ToSet(ms)
           /\ messages' = ms \o messages
<1>1. /\ messages \in Seq(Moments) /\ deliveryStatus \in Seq(SomeStatus)
      /\ Len(messages) \in Nat /\ Len(deliveryStatus) = Len(messages) /\ rowOf \in [Outgoing -> Nat]
  BY RowTypes
<1> DEFINE k == Len(ms)
           u == [i \in 1 .. k |-> "Unknown"]
           r == Rows
           s == [messages |-> ms \o messages, deliveryStatus |-> u \o deliveryStatus,
                 rowOf |-> [m \in Outgoing |-> Shifted(rowOf[m], 1, k)]]
<1>2. k \in Nat /\ ms \in Seq(Moments)
  BY LenProperties
<1>3. u \in Seq(SomeStatus) /\ Len(u) = k
  <2>1. u \in [1 .. k -> SomeStatus]
    BY DEF SomeStatus
  <2> HIDE DEF u, k
  <2> QED
    BY <1>2, <2>1, SeqOfItems
<1>4. /\ r.messages = messages /\ r.deliveryStatus = deliveryStatus /\ r.rowOf = rowOf
  BY DEF Rows
<1> HIDE DEF k, u
<1>5. /\ s.messages = ms \o messages /\ s.deliveryStatus = u \o deliveryStatus
      /\ s.rowOf = [m \in Outgoing |-> Shifted(rowOf[m], 1, k)]
  OBVIOUS
<1>6. /\ ms \o messages \in Seq(Moments) /\ Len(ms \o messages) = k + Len(messages)
      /\ \A i \in 1 .. k + Len(messages) :
           (ms \o messages)[i] = IF i <= k THEN ms[i] ELSE messages[i - k]
  BY <1>1, <1>2, ConcatProperties DEF k
<1>7. /\ u \o deliveryStatus \in Seq(SomeStatus) /\ Len(u \o deliveryStatus) = k + Len(messages)
      /\ \A i \in 1 .. k + Len(messages) :
           (u \o deliveryStatus)[i] = IF i <= k THEN u[i] ELSE deliveryStatus[i - k]
  <2> DEFINE v == deliveryStatus
  <2>1. v \in Seq(SomeStatus)
    BY <1>1
  <2> HIDE DEF v
  <2>2. /\ u \o v \in Seq(SomeStatus) /\ Len(u \o v) = Len(u) + Len(v)
        /\ \A i \in 1 .. Len(u) + Len(v) : (u \o v)[i] = IF i <= Len(u) THEN u[i] ELSE v[i - Len(u)]
    BY <1>3, <2>1, ConcatProperties
  <2>3. Len(u) = k /\ Len(v) = Len(messages)
    BY <1>1, <1>3 DEF v
  <2> QED
    BY <2>2, <2>3 DEF v
<1>8. \A m \in Outgoing : Shifted(rowOf[m], 1, k) \in Nat
  BY <1>1, <1>2 DEF Shifted
<1>9. s \in RowRecords
  BY <1>6, <1>7, <1>8 DEF RowRecords
<1> HIDE DEF r, s
<1>10. Widened(r, s, 0, ms)
  <2>1. \A i \in 1 .. k : i \in 1 .. k + Len(messages) /\ i <= k /\ 0 + i = i
    BY <1>1, <1>2
  <2>2. \A i \in 0 + 1 .. Len(messages) : /\ i + k \in 1 .. k + Len(messages)
                                          /\ ~(i + k <= k) /\ (i + k) - k = i
    BY <1>1, <1>2
  <2>3. \A i \in 0 + 1 .. Len(messages) : /\ s.messages[i + k] = messages[i]
                                          /\ s.deliveryStatus[i + k] = deliveryStatus[i]
    BY <1>5, <1>6, <1>7, <2>2
  <2>4. \A i \in 1 .. k : s.messages[0 + i] = ms[i]
    BY <1>5, <1>6, <2>1
  <2>5. 1 .. 0 = {}
    OBVIOUS
  <2>6. Len(s.messages) = Len(messages) + k
    BY <1>1, <1>2, <1>5, <1>6
  <2> QED
    BY <1>4, <2>3, <2>4, <2>5, <2>6 DEF Widened, k
<1>11. s \in GoodRows /\ ToSet(s.messages) = ToSet(r.messages) \cup ToSet(ms)
  <2>1. r \in GoodRows /\ 0 \in 0 .. Len(r.messages)
    BY <1>1, <1>4 DEF r
  <2>2. Len(s.deliveryStatus) = Len(s.messages)
    BY <1>5, <1>6, <1>7
  <2>3. s.rowOf = [m \in Outgoing |-> Shifted(r.rowOf[m], 0 + 1, Len(ms))]
    BY <1>4, <1>5 DEF k
  <2> QED
    BY <1>2, <1>9, <1>10, <2>1, <2>2, <2>3, WidenedRows
<1>12. SetRows(s)
  BY <1>5 DEF prepend, SetRows, k, u
<1>13. (Rows \in GoodRows)' /\ messages' = s.messages
  BY <1>11, <1>12, RowsSet
<1> QED
  BY <1>4, <1>5, <1>11, <1>13

\* Messages that are inserted one after the other.
LEMMA InsertedAllRows ==
    ASSUME NEW r \in GoodRows, NEW ms \in Seq(Moments), NEW timed \in BOOLEAN
    PROVE  /\ InsertedAll(r, ms, timed) \in GoodRows
           /\ ToSet(InsertedAll(r, ms, timed).messages) = ToSet(r.messages) \cup ToSet(ms)
           /\ ~timed => InsertedAll(r, ms, timed).messages = r.messages \o ms
           /\ ms = <<>> => InsertedAll(r, ms, timed) = r
<1> DEFINE n == Len(ms)
           A == GoodRows
           Added(i, s) == Inserted(s, ms[i], timed)
           step == [x \in (1 .. n) \X A |-> Added(x[1], x[2])]
           def(g) == [i \in 0 .. Len(ms) |-> IF i = 0 THEN r ELSE Inserted(g[i - 1], ms[i], timed)]
<1>1. n \in Nat /\ DOMAIN ms = 1 .. n /\ \A i \in 1 .. n : ms[i] \in Moments
  BY LenProperties
<1>2. \A i \in 1 .. n, s \in A : Added(i, s) \in A
  BY <1>1, InsertedRows
<1>3. step \in [(1 .. n) \X A -> A]
  BY <1>2
<1>4. \A i \in 1 .. n, s \in A : step[<<i, s>>] = Added(i, s)
  OBVIOUS
<1> HIDE DEF step, n, A
<1>5. PICK g : StepByStep(g, A, r, n, step)
  <2>1. r \in A
    BY DEF A
  <2> QED
    BY <1>1, <1>3, <2>1, StepsExist
<1> USE DEF n
<1>6. /\ g \in [0 .. n -> A] /\ g[0] = r
      /\ \A i \in 1 .. n : g[i] = step[<<i, g[i - 1]>>]
  BY <1>5 DEF StepByStep
<1>7. \A i \in 1 .. n : i - 1 \in 0 .. n /\ i \in 0 .. n
  BY <1>1
<1>8. \A i \in 1 .. n : g[i] = Added(i, g[i - 1])
  BY <1>4, <1>6, <1>7
<1>9. g = def(g)
  <2>1. \A i \in 0 .. n : i = 0 \/ i \in 1 .. n
    BY <1>1
  <2>2. \A i \in 0 .. n : g[i] = def(g)[i]
    BY <1>6, <1>8, <2>1
  <2> QED
    BY <1>6, <2>2
<1> DEFINE k == CHOOSE f : f = def(f)
<1>10. InsertedAll(r, ms, timed) = k[n]
  BY DEF InsertedAll
<1>11. k = def(k)
  <2> HIDE DEF def
  <2> QED
    BY <1>9
<1>12. 0 \in 0 .. n /\ \A i \in 1 .. n : i \in 0 .. n /\ i # 0
  BY <1>1
<1> HIDE DEF k
<1>13. k[0] = def(k)[0] /\ \A i \in 1 .. n : k[i] = def(k)[i]
  BY <1>11
<1>14. k[0] = r /\ \A i \in 1 .. n : k[i] = Added(i, k[i - 1])
  BY <1>12, <1>13
<1> HIDE DEF n
<1> DEFINE First(i) == {ms[j] : j \in 1 .. i}
           Sum(i) == /\ k[i] \in GoodRows
                     /\ ToSet(k[i].messages) = ToSet(r.messages) \cup First(i)
                     /\ ~timed => k[i].messages = r.messages \o SubSeq(ms, 1, i)
           S == {i \in Nat : i <= n => Sum(i)}
<1>15. r.messages \in Seq(Moments)
  BY DEF GoodRows, RowRecords
<1>16. 0 \in S
  <2>1. First(0) = {}
    OBVIOUS
  <2>2. r.messages \o SubSeq(ms, 1, 0) = r.messages
    <3>1. SubSeq(ms, 1, 0) = <<>>
      BY SubSeqEmpty
    <3> QED
      BY <1>15, <3>1, ConcatEmptySeq
  <2>3. Sum(0)
    BY <1>14, <2>1, <2>2
  <2> QED
    BY <2>3
<1> HIDE DEF Sum
<1>17. ASSUME NEW i \in Nat, i \in S PROVE i + 1 \in S
  <2> SUFFICES ASSUME i + 1 <= n PROVE Sum(i + 1)
    OBVIOUS
  <2>1. i + 1 \in 1 .. n /\ (i + 1) - 1 = i /\ i <= n
    BY <1>1
  <2>2. Sum(i)
    BY <1>17, <2>1
  <2> USE DEF Sum
  <2> DEFINE a == k[i]
             m == ms[i + 1]
  <2>3. k[i + 1] = Inserted(a, m, timed) /\ m \in Moments /\ a \in GoodRows
    BY <1>1, <1>14, <2>1, <2>2
  <2>4. First(i + 1) = First(i) \cup {m}
    BY <1>1
  <2> HIDE DEF a, m, First
  <2>5. /\ k[i + 1] \in GoodRows
        /\ ToSet(k[i + 1].messages) = ToSet(a.messages) \cup {m}
        /\ ~timed => k[i + 1].messages = Append(a.messages, m)
    <3> DEFINE b == Inserted(a, m, timed)
    <3>1. m \in Moments /\ a \in GoodRows
      BY <2>3
    <3>2. b \in GoodRows /\ ToSet(b.messages) = ToSet(a.messages) \cup {m}
      BY <3>1, InsertedRows
    <3>3. ~timed => b.messages = Append(a.messages, m)
      BY <3>1, InsertedRows
    <3> HIDE DEF b
    <3>4. k[i + 1] = b
      BY <2>3 DEF b
    <3> QED
      BY <3>2, <3>3, <3>4
  <2>6. ToSet(k[i + 1].messages) = ToSet(r.messages) \cup First(i + 1)
    BY <2>2, <2>4, <2>5 DEF a
  <2>7. ASSUME ~timed PROVE k[i + 1].messages = r.messages \o SubSeq(ms, 1, i + 1)
    <3> DEFINE p == r.messages
               q == SubSeq(ms, 1, i)
    <3>1. p \in Seq(Moments) /\ q \in Seq(Moments) /\ <<m>> \in Seq(Moments)
      <4>1. \A j \in 1 .. i : ms[j] \in Moments
        BY <1>1, <2>1
      <4>2. q \in Seq(Moments)
        BY <4>1, SubSeqProperties
      <4> QED
        BY <1>15, <2>3, <4>2
    <3>2. SubSeq(ms, 1, i + 1) = q \o <<m>>
      <4>1. 1 \in 1 .. Len(ms) /\ i + 1 \in 1 .. Len(ms)
        BY <1>1, <2>1 DEF n
      <4>2. SubSeq(ms, 1, i + 1) = SubSeq(ms, 1, (i + 1) - 1) \o <<ms[i + 1]>>
        BY <4>1, SubSeqRecursiveSecond
      <4> QED
        BY <2>1, <4>2 DEF m
    <3>3. k[i + 1].messages = Append(p \o q, m)
      BY <2>2, <2>5, <2>7 DEF a
    <3> HIDE DEF p, q
    <3>4. p \o q \in Seq(Moments) /\ (p \o q) \o <<m>> = p \o (q \o <<m>>)
      BY <3>1, ConcatProperties, ConcatAssociative
    <3>5. Append(p \o q, m) = (p \o q) \o <<m>>
      BY <2>3, <3>4, AppendIsConcat
    <3> QED
      BY <3>2, <3>3, <3>4, <3>5 DEF p
  <2> QED
    BY <2>5, <2>6, <2>7
<1>18. \A i \in Nat : i \in S
  <2> HIDE DEF S
  <2> QED
    BY <1>16, <1>17, AllNumbers
<1>19. Sum(n)
  <2> HIDE DEF k
  <2> QED
    BY <1>1, <1>18
<1>20. First(n) = ToSet(ms) /\ SubSeq(ms, 1, n) = ms
  BY <1>1, SubSeqFull DEF ToSet, n
<1>21. ms = <<>> => n = 0
  BY DEF n
<1>22. ms = <<>> => InsertedAll(r, ms, timed) = r
  BY <1>10, <1>14, <1>21
<1> QED
  BY <1>10, <1>19, <1>20, <1>22 DEF Sum

-----------------------------------------------------------------------------
(* What is taken of the logs.                                              *)

\* A message that is taken for another has no token.
LEMMA TakenForOther ==
    ASSUME NEW S, NEW m \in Moments, m \notin S, TakenFor(m, S) PROVE m \in tokenless
  BY DEF TakenFor, Token, Moments, None

\* No message is taken for another that waits.
NoneTaken(ms) == \A i \in 1 .. Len(ms) : TakenFor(ms[i], queue) <=> ms[i] \in queue

\* What is left without the messages that wait in the channel.
LEMMA NotPendingItems ==
    ASSUME NEW s \in Seq(Moments)
    PROVE  /\ NotPending(s) \in Seq(Moments)
           /\ (\A i \in 1 .. Len(s) : ~TakenFor(s[i], queue)) => NotPending(s) = s
           /\ s # <<>> /\ (\A i \in 1 .. Len(s) - 1 : ~TakenFor(s[i], queue)) /\ TakenFor(s[Len(s)], queue) =>
                NotPending(s) = SubSeq(s, 1, Len(s) - 1)
<1> DEFINE n == Len(s)
           A == Seq(Moments)
           Added(i, kept) == IF TakenFor(s[i], queue) THEN kept ELSE Append(kept, s[i])
           step == [x \in (1 .. n) \X A |-> Added(x[1], x[2])]
           def(g) == [i \in 0 .. Len(s) |-> IF i = 0 THEN <<>>
                                 ELSE IF TakenFor(s[i], queue) THEN g[i - 1] ELSE Append(g[i - 1], s[i])]
<1>1. n \in Nat /\ <<>> \in A /\ \A i \in 1 .. n : s[i] \in Moments
  BY LenProperties
<1>2. \A i \in 1 .. n, kept \in A : Added(i, kept) \in A
  BY <1>1, AppendProperties
<1>3. step \in [(1 .. n) \X A -> A]
  BY <1>2
<1>4. \A i \in 1 .. n, kept \in A : step[<<i, kept>>] = Added(i, kept)
  OBVIOUS
<1> HIDE DEF step, n, A
<1>5. PICK g : StepByStep(g, A, <<>>, n, step)
  BY <1>1, <1>3, StepsExist
<1> USE DEF n
<1>6. /\ g \in [0 .. n -> A] /\ g[0] = <<>>
      /\ \A i \in 1 .. n : g[i] = step[<<i, g[i - 1]>>]
  BY <1>5 DEF StepByStep
<1>7. \A i \in 1 .. n : i - 1 \in 0 .. n /\ i \in 0 .. n
  BY <1>1
<1>8. \A i \in 1 .. n : g[i] = Added(i, g[i - 1])
  BY <1>4, <1>6, <1>7
<1>9. g = def(g)
  <2>1. \A i \in 0 .. n : i = 0 \/ i \in 1 .. n
    BY <1>1
  <2>2. \A i \in 0 .. n : g[i] = def(g)[i]
    BY <1>6, <1>8, <2>1
  <2> QED
    BY <1>6, <2>2
<1> DEFINE k == CHOOSE f : f = def(f)
<1>10. NotPending(s) = k[n]
  BY DEF NotPending
<1>11. k = def(k)
  <2> HIDE DEF def
  <2> QED
    BY <1>9
<1>12. 0 \in 0 .. n /\ \A i \in 1 .. n : i \in 0 .. n /\ i # 0
  BY <1>1
<1> HIDE DEF k
<1>13. k[0] = def(k)[0] /\ \A i \in 1 .. n : k[i] = def(k)[i]
  BY <1>11
<1>14. k[0] = <<>> /\ \A i \in 1 .. n : k[i] = Added(i, k[i - 1])
  BY <1>12, <1>13
<1> HIDE DEF n
<1> DEFINE All(i) == /\ k[i] \in A
                     /\ (\A j \in 1 .. i : ~TakenFor(s[j], queue)) => k[i] = SubSeq(s, 1, i)
           S == {i \in Nat : i <= n => All(i)}
<1>15. 0 \in S
  <2>1. SubSeq(s, 1, 0) = <<>>
    BY SubSeqEmpty
  <2> QED
    BY <1>1, <1>14, <2>1
<1>16. ASSUME NEW i \in Nat, i \in S PROVE i + 1 \in S
  <2> SUFFICES ASSUME i + 1 <= n PROVE All(i + 1)
    OBVIOUS
  <2>1. i + 1 \in 1 .. n /\ (i + 1) - 1 = i /\ i <= n
    BY <1>1
  <2>2. All(i)
    BY <1>16, <2>1
  <2>3. k[i + 1] = Added(i + 1, k[i]) /\ k[i] \in A
    BY <1>14, <2>1, <2>2
  <2>4. k[i + 1] \in A
    BY <1>2, <2>1, <2>3
  <2>5. ASSUME \A j \in 1 .. i + 1 : ~TakenFor(s[j], queue) PROVE k[i + 1] = SubSeq(s, 1, i + 1)
    <3>1. ~TakenFor(s[i + 1], queue) /\ \A j \in 1 .. i : ~TakenFor(s[j], queue)
      BY <2>1, <2>5
    <3>2. k[i + 1] = Append(k[i], s[i + 1]) /\ k[i] = SubSeq(s, 1, i)
      BY <2>2, <2>3, <3>1
    <3>3. 1 \in 1 .. Len(s) /\ i + 1 \in 1 .. Len(s)
      BY <1>1, <2>1 DEF n
    <3>4. SubSeq(s, 1, i + 1) = SubSeq(s, 1, (i + 1) - 1) \o <<s[i + 1]>>
      BY <3>3, SubSeqRecursiveSecond
    <3> DEFINE t == SubSeq(s, 1, i)
               x == s[i + 1]
    <3>5. t \in Seq(Moments) /\ x \in Moments
      BY <1>1, <2>1, <2>3, <3>2 DEF A
    <3> HIDE DEF t, x
    <3>6. Append(t, x) = t \o <<x>>
      BY <3>5, AppendIsConcat
    <3> QED
      BY <2>1, <3>2, <3>4, <3>6 DEF t, x
  <2> QED
    BY <2>4, <2>5
<1>17. \A i \in Nat : i \in S
  <2> HIDE DEF S
  <2> QED
    BY <1>15, <1>16, AllNumbers
<1>18. \A i \in 0 .. n : All(i)
  BY <1>17
<1>19. n \in 0 .. n /\ SubSeq(s, 1, n) = s
  BY <1>1, SubSeqFull DEF n
<1>20. NotPending(s) \in Seq(Moments) /\ ((\A i \in 1 .. n : ~TakenFor(s[i], queue)) => NotPending(s) = s)
  BY <1>10, <1>18, <1>19 DEF A
<1>21. ASSUME s # <<>>, \A i \in 1 .. n - 1 : ~TakenFor(s[i], queue), TakenFor(s[n], queue)
       PROVE  NotPending(s) = SubSeq(s, 1, n - 1)
  <2>1. n # 0 /\ n \in 1 .. n /\ n - 1 \in 0 .. n
    BY <1>1, <1>21, EmptySeq DEF n
  <2>2. k[n] = k[n - 1]
    BY <1>14, <1>21, <2>1
  <2> QED
    BY <1>10, <1>18, <1>21, <2>1, <2>2
<1> QED
  BY <1>20, <1>21 DEF n

\* What is in front of the message with the token.
LEMMA BeforeItems ==
    ASSUME NEW logs \in Seq(Moments)
    PROVE  /\ Before(logs) \in Seq(Moments)
           /\ fromToken = None => Before(logs) = logs
           /\ fromToken # None /\ fromToken \notin ToSet(logs) => Before(logs) = <<>>
           /\ \A p \in 1 .. Len(logs) :
                fromToken # None /\ logs[p] = fromToken /\ (\A j \in 1 .. p - 1 : logs[j] # fromToken) =>
                  fromToken \in ToSet(logs) /\ Before(logs) = SubSeq(logs, 1, p - 1)
<1> DEFINE n == Len(logs)
           I == {i \in 1 .. n : logs[i] = fromToken}
<1>1. n \in Nat /\ DOMAIN logs = 1 .. n /\ \A i \in 1 .. n : logs[i] \in Moments
  BY LenProperties
<1>2. SelectInSeq(logs, LAMBDA m : m = fromToken) = IF I # {} THEN Min(I) ELSE 0
  BY DEF SelectInSeq
<1> HIDE DEF n, I
<1>3. fromToken \in ToSet(logs) <=> I # {}
  BY <1>1 DEF ToSet, I
<1>4. I # {} => Min(I) \in I /\ \A y \in I : Min(I) <= y
  <2>1. I \in SUBSET Nat
    BY DEF I
  <2> QED
    BY <2>1, LeastOf
<1>5. \A i \in I : i \in 1 .. n /\ logs[i] = fromToken
  BY DEF I
<1>6. ASSUME fromToken # None, I # {} PROVE Before(logs) = SubSeq(logs, 1, Min(I) - 1)
  BY <1>2, <1>3, <1>6 DEF Before
<1>7. ASSUME fromToken # None, I # {} PROVE Before(logs) \in Seq(Moments)
  <2>1. Min(I) \in 1 .. n
    BY <1>4, <1>5, <1>7
  <2> DEFINE m == Min(I) - 1
  <2>2. m \in Int /\ m <= n
    BY <1>1, <2>1
  <2> HIDE DEF m
  <2>3. \A i \in 1 .. m : logs[i] \in Moments
    BY <1>1, <2>2
  <2>4. SubSeq(logs, 1, m) \in Seq(Moments)
    BY <2>2, <2>3, SubSeqProperties
  <2> QED
    BY <1>6, <1>7, <2>4 DEF m
<1>8. fromToken = None => Before(logs) = logs
  BY DEF Before
<1>9. fromToken # None /\ I = {} => Before(logs) = <<>>
  BY <1>3 DEF Before
<1>10. ASSUME NEW p \in 1 .. n, fromToken # None, logs[p] = fromToken,
              \A j \in 1 .. p - 1 : logs[j] # fromToken
       PROVE  fromToken \in ToSet(logs) /\ Before(logs) = SubSeq(logs, 1, p - 1)
  <2>1. p \in I
    BY <1>10 DEF I
  <2>2. Min(I) \in 1 .. n /\ logs[Min(I)] = fromToken /\ Min(I) <= p
    BY <1>4, <1>5, <2>1
  <2>3. Min(I) \notin 1 .. p - 1
    BY <1>10, <2>2
  <2>4. Min(I) = p
    BY <1>1, <2>2, <2>3
  <2> QED
    BY <1>3, <1>6, <1>10, <2>1, <2>4
<1>11. Before(logs) \in Seq(Moments)
  <2>1. <<>> \in Seq(Moments)
    OBVIOUS
  <2>2. CASE fromToken = None
    BY <1>8, <2>2
  <2>3. CASE fromToken # None /\ I = {}
    <3>1. Before(logs) = <<>>
      BY <1>9, <2>3
    <3> QED
      BY <2>1, <3>1
  <2>4. CASE fromToken # None /\ I # {}
    BY <1>7, <2>4
  <2> QED
    BY <2>2, <2>3, <2>4
<1> QED
  BY <1>3, <1>8, <1>9, <1>10, <1>11 DEF n

\* How many are in front of the last n.
InFront(s, n) == IF Len(s) > n THEN Len(s) - n ELSE 0

\* The last n items, or all there are.
LEMMA LastOfItems ==
    ASSUME NEW s \in Seq(Moments), NEW n \in Nat
    PROVE  /\ LastOf(s, n) \in Seq(Moments) /\ InFront(s, n) \in 0 .. Len(s)
           /\ Len(LastOf(s, n)) = Len(s) - InFront(s, n)
           /\ \A i \in 1 .. Len(s) - InFront(s, n) : LastOf(s, n)[i] = s[InFront(s, n) + i]
<1> DEFINE k == InFront(s, n)
           l == Len(s)
           E == {l - n, 0}
<1>1. l \in Nat /\ \A i \in 1 .. l : s[i] \in Moments
  BY LenProperties
<1>2. k \in 0 .. l /\ k = (IF l > n THEN l - n ELSE 0)
  BY <1>1 DEF InFront
<1> HIDE DEF k, l
<1>3. Max(E) = k
  <2>1. k \in E /\ \A y \in E : k >= y
    BY <1>1, <1>2
  <2>2. \A x \in E : (\A y \in E : x >= y) => x = k
    BY <1>1, <1>2
  <2> HIDE DEF E
  <2>3. Max(E) \in E /\ \A y \in E : Max(E) >= y
    BY <2>1 DEF Max
  <2> QED
    BY <2>2, <2>3
<1>4. LastOf(s, n) = SubSeq(s, k + 1, l)
  BY <1>3 DEF LastOf, l
<1>5. \A i \in k + 1 .. l : s[i] \in Moments
  BY <1>1, <1>2
<1> DEFINE a == k + 1
<1>6. a \in Int /\ l \in Int /\ \A i \in a .. l : s[i] \in Moments
  BY <1>1, <1>2, <1>5
<1> HIDE DEF a
<1>7. /\ SubSeq(s, a, l) \in Seq(Moments)
      /\ Len(SubSeq(s, a, l)) = IF a <= l THEN l - a + 1 ELSE 0
      /\ \A i \in 1 .. l - a + 1 : SubSeq(s, a, l)[i] = s[a + i - 1]
  BY <1>6, SubSeqProperties
<1>8. Len(SubSeq(s, a, l)) = l - k
  BY <1>1, <1>2, <1>7 DEF a
<1>9. ASSUME NEW i \in 1 .. l - k PROVE SubSeq(s, a, l)[i] = s[k + i]
  <2>1. i \in 1 .. l - a + 1 /\ a + i - 1 = k + i
    BY <1>1, <1>2 DEF a
  <2>2. SubSeq(s, a, l)[i] = s[a + i - 1]
    BY <1>7, <2>1
  <2> QED
    BY <2>1, <2>2
<1> QED
  BY <1>2, <1>4, <1>7, <1>8, <1>9 DEF a, k, l

-----------------------------------------------------------------------------
(* Dates that are queried and those that are still to be.                  *)
OpsGood(o, n) == o \in Seq(Nat) /\ \A i \in 1 .. Len(o) : o[i] # None => o[i] \in 1 .. n
DatesGood(c, n) == c \in Seq(Nat) /\ \A i \in 1 .. Len(c) : c[i] \in 1 .. n

\* Queries that are added, answered and sent on.
LEMMA OpsSteps ==
    ASSUME NEW n \in Nat, NEW o, OpsGood(o, n)
    PROVE  /\ OpsGood(Append(o, None), n)
           /\ \A i \in 1 .. Len(o) : OpsGood(RemoveAt(o, i), n) /\ Len(RemoveAt(o, i)) = Len(o) - 1
           /\ \A i \in 1 .. Len(o), d \in 1 .. n :
                /\ OpsGood([o EXCEPT ![i] = d], n) /\ Len([o EXCEPT ![i] = d]) = Len(o)
                /\ [o EXCEPT ![i] = d][i] = d
<1>1. o \in Seq(Nat) /\ Len(o) \in Nat /\ None \in Nat
  BY LenProperties DEF OpsGood, None
<1>2. \A i \in 1 .. Len(o) : o[i] # None => o[i] \in 1 .. n
  BY DEF OpsGood
<1>3. OpsGood(Append(o, None), n)
  <2>1. /\ Append(o, None) \in Seq(Nat) /\ Len(Append(o, None)) = Len(o) + 1
        /\ \A i \in 1 .. Len(o) : Append(o, None)[i] = o[i]
        /\ Append(o, None)[Len(o) + 1] = None
    BY <1>1, AppendProperties
  <2>2. \A i \in 1 .. Len(o) + 1 : i \in 1 .. Len(o) \/ i = Len(o) + 1
    BY <1>1
  <2> QED
    BY <1>2, <2>1, <2>2 DEF OpsGood
<1>4. ASSUME NEW i \in 1 .. Len(o)
      PROVE  OpsGood(RemoveAt(o, i), n) /\ Len(RemoveAt(o, i)) = Len(o) - 1
  <2> DEFINE l == Len(o)
             a == SubSeq(o, 1, i - 1)
             j == i + 1
             b == SubSeq(o, j, l)
  <2>1. l \in Nat /\ i \in Int /\ 1 <= i /\ i <= l /\ i - 1 \in Int /\ j \in Int
    BY <1>1
  <2>2. /\ a \in Seq(Nat) /\ Len(a) = i - 1 /\ \A k \in 1 .. i - 1 : a[k] = o[k]
    BY <1>1, <2>1, SubSeqProperties
  <2> HIDE DEF l, a
  <2>3. \A k \in 1 .. l : o[k] \in Nat
    BY <1>1 DEF l
  <2>4. \A k \in j .. l : o[k] \in Nat
    BY <2>1, <2>3
  <2>5. l - j + 1 = l - i /\ (IF j <= l THEN l - j + 1 ELSE 0) = l - i
    BY <2>1
  <2> HIDE DEF j
  <2>6. b \in Seq(Nat) /\ Len(b) = IF j <= l THEN l - j + 1 ELSE 0
    BY <2>1, <2>4, SubSeqProperties
  <2>7. \A k \in 1 .. l - j + 1 : b[k] = o[j + k - 1]
    BY <2>1, <2>4, SubSeqProperties
  <2>8. RemoveAt(o, i) = a \o b
    BY DEF RemoveAt, a, j, l
  <2> HIDE DEF b
  <2>9. /\ a \o b \in Seq(Nat) /\ Len(a \o b) = Len(a) + Len(b)
        /\ \A k \in 1 .. Len(a) + Len(b) : (a \o b)[k] = IF k <= Len(a) THEN a[k] ELSE b[k - Len(a)]
    BY <2>2, <2>6, ConcatProperties
  <2>10. Len(a) = i - 1 /\ Len(b) = l - i /\ Len(a) + Len(b) = l - 1
    BY <2>1, <2>2, <2>5, <2>6
  <2>11. ASSUME NEW k \in 1 .. l - 1, (a \o b)[k] # None PROVE (a \o b)[k] \in 1 .. n
    <3>1. (a \o b)[k] = IF k <= i - 1 THEN a[k] ELSE b[k - (i - 1)]
      BY <2>9, <2>10
    <3>2. CASE k <= i - 1
      <4>1. (a \o b)[k] = o[k] /\ k \in 1 .. l
        BY <2>1, <2>2, <3>1, <3>2
      <4> QED
        BY <1>2, <2>11, <4>1 DEF l
    <3>3. CASE ~(k <= i - 1)
      <4>1. k - (i - 1) \in 1 .. l - j + 1 /\ j + (k - (i - 1)) - 1 = k + 1 /\ k + 1 \in 1 .. l
        BY <2>1, <3>3 DEF j
      <4>2. (a \o b)[k] = o[k + 1]
        BY <2>7, <3>1, <3>3, <4>1
      <4> QED
        BY <1>2, <2>11, <4>1, <4>2 DEF l
    <3> QED
      BY <3>2, <3>3
  <2> QED
    BY <2>8, <2>9, <2>10, <2>11 DEF OpsGood, l
<1>5. ASSUME NEW i \in 1 .. Len(o), NEW d \in 1 .. n
      PROVE  /\ OpsGood([o EXCEPT ![i] = d], n) /\ Len([o EXCEPT ![i] = d]) = Len(o)
             /\ [o EXCEPT ![i] = d][i] = d
  <2> DEFINE e == [o EXCEPT ![i] = d]
  <2>1. /\ e \in Seq(Nat) /\ Len(e) = Len(o)
        /\ \A j \in 1 .. Len(o) : e[j] = IF j = i THEN d ELSE o[j]
    BY <1>1, ExceptSeq
  <2> HIDE DEF e
  <2> QED
    BY <1>2, <2>1 DEF OpsGood, e
<1> QED
  BY <1>3, <1>4, <1>5

\* The next date is the last one of those left.
LEMMA DatesSteps ==
    ASSUME NEW n \in Nat, NEW c, DatesGood(c, n), c # <<>>
    PROVE  /\ DatesGood(Front(c), n) /\ Last(c) \in 1 .. n /\ Last(c) = c[Len(c)]
           /\ Len(c) \in Nat \ {0} /\ Len(Front(c)) = Len(c) - 1
           /\ \A i \in 1 .. Len(c) - 1 : Front(c)[i] = c[i]
<1>1. c \in Seq(Nat) /\ Len(c) \in Nat \ {0} /\ \A i \in 1 .. Len(c) : c[i] \in 1 .. n
  BY EmptySeq DEF DatesGood
<1> DEFINE l == Len(c)
           m == l - 1
<1>2. l \in Nat \ {0} /\ m \in Nat /\ l \in 1 .. l /\ m < l
  BY <1>1
<1>3. Front(c) = SubSeq(c, 1, m) /\ Last(c) = c[l]
  BY DEF Front, Last
<1> HIDE DEF l, m
<1>4. \A i \in 1 .. m : i \in 1 .. l /\ c[i] \in Nat
  BY <1>1, <1>2 DEF l
<1>5. /\ SubSeq(c, 1, m) \in Seq(Nat) /\ Len(SubSeq(c, 1, m)) = m
      /\ \A i \in 1 .. m : SubSeq(c, 1, m)[i] = c[i]
  BY <1>2, <1>4, SubSeqProperties
<1>6. DatesGood(Front(c), n)
  BY <1>1, <1>3, <1>4, <1>5 DEF DatesGood, l
<1> QED
  BY <1>1, <1>2, <1>3, <1>5, <1>6 DEF l, m

-----------------------------------------------------------------------------
(* Whatever happens the rows agree, and what the channel delivered is among *)
(* them.                                                                   *)
HistoryTypes ==
    /\ log \in LogDates /\ unlogged \in Seq(Moments) /\ channel \in Nat
    /\ received \subseteq Incoming /\ queue \subseteq received /\ acked \subseteq queue
    /\ reported \in [Outgoing -> SomeStatus]
    /\ Rows \in GoodRows /\ received \subseteq ToSet(messages) \cup mistaken
    /\ mistaken \subseteq tokenless /\ (clean => mistaken = {})
    /\ room \in BOOLEAN /\ isValid \in BOOLEAN /\ unasked \in BOOLEAN
    /\ logsLoaded \in BOOLEAN /\ clean \in BOOLEAN /\ more \in Nat
    /\ fromToken \in Nat /\ length \in Nat \ {0} /\ messagesCache \in Seq(Moments)
    /\ OpsGood(ops, Len(log)) /\ DatesGood(datesCache, Len(log))

\* What is assumed of the constants.
LEMMA Constants ==
    /\ Incoming \subseteq Moments /\ Outgoing \subseteq Moments /\ Chatted \subseteq Moments
    /\ Incoming \cap Outgoing = {} /\ IsFiniteSet(Incoming) /\ Rooms \subseteq BOOLEAN
    /\ ScrollbackLength \in Nat \ {0} /\ MoreLength \in Nat \ {0}
    /\ \A l \in OldLogs : /\ l \in LogDates /\ InOrder(AllEntries(l))
                          /\ \A x \in ToSet(AllEntries(l)), m \in Chatted : x < m
  BY HistoryAssumption DEF Moments, Chatted, LogDates, None

\* The rows agree when a chat is opened, and after each step, one lemma for each.
LEMMA TypesBegin == HistoryInit => HistoryTypes
<1> SUFFICES ASSUME HistoryInit PROVE HistoryTypes
  OBVIOUS
<1>1. log \in LogDates /\ Len(log) \in Nat
  BY Constants, LenProperties DEF HistoryInit, LogDates
<1>2. OpsGood(<<>>, Len(log)) /\ DatesGood(<<>>, Len(log))
  BY DEF OpsGood, DatesGood
<1>3. Rows \in GoodRows
  <2>1. Rows \in RowRecords
    BY DEF HistoryInit, Rows, RowRecords, None
  <2>2. Agree(Rows)
    BY DEF HistoryInit, Rows, Agree
  <2> QED
    BY <2>1, <2>2 DEF GoodRows
<1>4. <<>> \in Seq(Moments)
  OBVIOUS
<1>5. reported \in [Outgoing -> SomeStatus]
  BY DEF HistoryInit, SomeStatus
<1> QED
  BY <1>1, <1>2, <1>3, <1>4, <1>5, Constants DEF HistoryInit, HistoryTypes, None

LEMMA TypesStutter == ASSUME HistoryTypes, UNCHANGED historyVars PROVE HistoryTypes'
<1>1. /\ UNCHANGED <<log, unlogged, channel, queue, acked, received, messages, deliveryStatus, rowOf,
                     reported, ops, datesCache, messagesCache, fromToken, length>>
      /\ UNCHANGED <<logsLoaded, more, clean, room, tokenless, isValid, unasked, mistaken>>
  BY DEF historyVars, chatVars, logVars, channelVars, rowVars, fetchVars
<1>2. (Rows \in GoodRows)' <=> Rows \in GoodRows
  BY <1>1 DEF Rows, GoodRows, Agree, RowFound
<1> QED
  BY <1>1, <1>2 DEF HistoryTypes

\* Rows that do not change.
LEMMA RowsSame ==
    ASSUME Rows \in GoodRows, UNCHANGED <<messages, deliveryStatus, rowOf, reported>>
    PROVE  (Rows \in GoodRows)'
  BY DEF Rows, GoodRows, Agree, RowFound

LEMMA QueriesTyped ==
    ASSUME HistoryTypes, NEW i, NEW failed \in BOOLEAN, onDatesFinished(i, failed)
    PROVE  HistoryTypes'
<1>1. /\ i \in DOMAIN ops /\ ops[i] = None /\ clean' = (clean /\ ~failed)
      /\ UNCHANGED <<messagesCache, fromToken, length, log, unlogged, channel, queue, acked, received,
                     reported, more>>
      /\ UNCHANGED <<room, tokenless, isValid, unasked, mistaken>>
  BY DEF onDatesFinished, chatVars, logVars, channelVars
<1>2. /\ log \in LogDates /\ Len(log) \in Nat /\ OpsGood(ops, Len(log)) /\ DatesGood(datesCache, Len(log))
      /\ DOMAIN log = 1 .. Len(log)
  BY LenProperties DEF HistoryTypes, LogDates
<1>3. i \in 1 .. Len(ops)
  BY <1>1, <1>2, LenProperties DEF OpsGood
<1> DEFINE dates == Dates(failed)
<1>4. DatesGood(dates, Len(log))
  <2>1. CASE failed
    BY <2>1 DEF Dates, DatesGood
  <2>2. CASE ~failed
    <3> DEFINE l == Len(log)
               s == [d \in 1 .. l |-> d]
    <3>1. dates = s
      BY <1>2, <2>2 DEF Dates
    <3>2. l \in Nat /\ s \in [1 .. l -> Nat]
      BY <1>2
    <3>3. \A d \in 1 .. l : s[d] = d
      OBVIOUS
    <3> HIDE DEF l, s
    <3>4. s \in Seq(Nat) /\ Len(s) = l
      BY <3>2, SeqOfItems
    <3>5. DatesGood(s, l)
      BY <3>2, <3>3, <3>4 DEF DatesGood
    <3> QED
      BY <3>1, <3>5 DEF l
  <2> QED
    BY <2>1, <2>2
<1>5. CASE dates = <<>>
  <2>1. Answer(i) /\ onHistoryFetched(<<>>) /\ UNCHANGED datesCache
    BY <1>5 DEF onDatesFinished
  <2>2. OpsGood(ops', Len(log))
    BY <1>2, <1>3, <2>1, OpsSteps DEF Answer
  <2>3. prepend(<<>>) /\ logsLoaded' = TRUE
    BY <2>1 DEF onHistoryFetched
  <2>4. (Rows \in GoodRows)' /\ ToSet(messages') = ToSet(messages) \cup ToSet(<<>>)
    <3>1. <<>> \in Seq(Moments)
      OBVIOUS
    <3> QED
      BY <1>1, <2>3, <3>1, PrependedRows DEF HistoryTypes
  <2> QED
    BY <1>1, <2>1, <2>2, <2>3, <2>4 DEF HistoryTypes
<1>6. CASE dates # <<>>
  <2>1. /\ datesCache' = Front(dates) /\ ops' = [ops EXCEPT ![i] = Last(dates)]
        /\ UNCHANGED <<messages, deliveryStatus, rowOf, logsLoaded>>
    BY <1>6 DEF onDatesFinished
  <2>2. DatesGood(datesCache', Len(log)) /\ Last(dates) \in 1 .. Len(log)
    BY <1>2, <1>4, <1>6, <2>1, DatesSteps
  <2>3. OpsGood(ops', Len(log))
    BY <1>2, <1>3, <2>1, <2>2, OpsSteps
  <2>4. (Rows \in GoodRows)'
    BY <1>1, <2>1, RowsSame DEF HistoryTypes
  <2> QED
    BY <1>1, <2>1, <2>2, <2>3, <2>4 DEF HistoryTypes
<1> QED
  BY <1>5, <1>6

\* What was fetched is put in front of the rows up to the first one.
LEMMA FetchedRows ==
    ASSUME Rows \in GoodRows, NEW ms \in Seq(Moments), onHistoryFetched(ms), reported' = reported
    PROVE  (Rows \in GoodRows)' /\ ToSet(messages) \subseteq ToSet(messages')
<1> DEFINE known == {i \in DOMAIN ms : messages # <<>> /\ ms[i] = messages[1]}
           front == IF known = {} THEN ms ELSE SubSeq(ms, 1, Min(known) - 1)
<1>1. Len(ms) \in Nat /\ DOMAIN ms = 1 .. Len(ms) /\ \A i \in 1 .. Len(ms) : ms[i] \in Moments
  BY LenProperties
<1>2. prepend(front)
  BY DEF onHistoryFetched
<1>3. known \in SUBSET Nat /\ known \subseteq 1 .. Len(ms)
  BY <1>1
<1> HIDE DEF known
<1>4. front \in Seq(Moments)
  <2>1. CASE known = {}
    BY <2>1
  <2>2. CASE known # {}
    <3> DEFINE m == Min(known) - 1
    <3>1. Min(known) \in known
      BY <1>3, <2>2, LeastOf
    <3>2. m \in Int /\ m <= Len(ms)
      <4>1. Min(known) \in 1 .. Len(ms)
        BY <1>3, <3>1
      <4> QED
        BY <1>1, <4>1
    <3> HIDE DEF m
    <3>3. \A i \in 1 .. m : ms[i] \in Moments
      BY <1>1, <3>2
    <3>4. SubSeq(ms, 1, m) \in Seq(Moments)
      BY <3>2, <3>3, SubSeqProperties
    <3> QED
      BY <2>2, <3>4 DEF m
  <2> QED
    BY <2>1, <2>2
<1> HIDE DEF front
<1> QED
  BY <1>2, <1>4, PrependedRows

LEMMA EventsTyped ==
    ASSUME HistoryTypes, NEW i, NEW failed \in BOOLEAN, onEventsFinished(i, failed)
    PROVE  HistoryTypes'
<1> DEFINE logs == Logs(ops[i], failed)
           all == Before(logs) \o messagesCache
<1>1. /\ i \in DOMAIN ops /\ ops[i] # None /\ clean' = (clean /\ ~failed /\ mistaken' = mistaken)
      /\ fromToken' = TokenAfter(logs)
      /\ UNCHANGED <<length, log, unlogged, channel, queue, acked, received, reported, more>>
      /\ UNCHANGED <<room, tokenless, isValid, unasked>>
  BY DEF onEventsFinished, chatVars, logVars, channelVars
<1>2. /\ log \in LogDates /\ Len(log) \in Nat /\ OpsGood(ops, Len(log)) /\ DatesGood(datesCache, Len(log))
      /\ messagesCache \in Seq(Moments) /\ fromToken \in Nat
  BY LenProperties DEF HistoryTypes, LogDates
<1>3. i \in 1 .. Len(ops)
  BY <1>1, <1>2, LenProperties DEF OpsGood
<1>4. logs \in Seq(Moments)
  <2>1. ops[i] \in 1 .. Len(log)
    BY <1>1, <1>2, <1>3 DEF OpsGood
  <2>2. log[ops[i]] \in Seq(Moments)
    BY <1>2, <2>1, ElementOfSeq DEF LogDates
  <2>3. <<>> \in Seq(Moments)
    OBVIOUS
  <2> QED
    BY <2>2, <2>3 DEF Logs
<1>5. fromToken' \in Nat
  BY <1>1, <1>2 DEF TokenAfter, None
<1> HIDE DEF logs
<1>6. all \in Seq(Moments)
  BY <1>2, <1>4, BeforeItems, ConcatProperties
<1> DEFINE further == Len(all) < length /\ datesCache # <<>>
<1>7. CASE further
  <2>1. /\ messagesCache' = all /\ datesCache' = Front(datesCache)
        /\ ops' = [ops EXCEPT ![i] = Last(datesCache)]
        /\ UNCHANGED <<messages, deliveryStatus, rowOf, logsLoaded, mistaken>>
    BY <1>7 DEF onEventsFinished, logs
  <2>2. DatesGood(datesCache', Len(log)) /\ Last(datesCache) \in 1 .. Len(log)
    BY <1>2, <1>7, <2>1, DatesSteps
  <2>3. OpsGood(ops', Len(log))
    BY <1>2, <1>3, <2>1, <2>2, OpsSteps
  <2>4. (Rows \in GoodRows)'
    BY <1>1, <2>1, RowsSame DEF HistoryTypes
  <2> HIDE DEF all
  <2> QED
    BY <1>1, <1>5, <1>6, <2>1, <2>2, <2>3, <2>4 DEF HistoryTypes
<1>8. CASE ~further
  <2> DEFINE last == LastOf(all, length)
             fetched == NotPending(last)
  <2>1. /\ messagesCache' = <<>> /\ datesCache' = <<>>
        /\ Answer(i) /\ onHistoryFetched(fetched) /\ mistaken' = Mistaken(ToSet(last), queue)
    BY <1>8 DEF onEventsFinished, logs
  <2>2. OpsGood(ops', Len(log))
    BY <1>2, <1>3, <2>1, OpsSteps DEF Answer
  <2> HIDE DEF all
  <2>3. last \in Seq(Moments)
    <3>1. length \in Nat
      BY DEF HistoryTypes
    <3> QED
      BY <1>6, <3>1, LastOfItems
  <2>a. fetched \in Seq(Moments)
    <3> HIDE DEF last
    <3> QED
      BY <2>3, NotPendingItems
  <2> HIDE DEF fetched, last
  <2>4. (Rows \in GoodRows)' /\ ToSet(messages) \subseteq ToSet(messages')
    BY <1>1, <2>1, <2>a, FetchedRows DEF HistoryTypes
  <2>b. mistaken \subseteq mistaken' /\ mistaken' \subseteq tokenless
    <3>1. ToSet(last) \subseteq Moments
      BY <2>3 DEF ToSet
    <3>2. ASSUME NEW m \in ToSet(last) \ queue, TakenFor(m, queue) PROVE m \in tokenless
      BY <3>1, <3>2, TakenForOther
    <3>3. mistaken' = mistaken \cup {m \in ToSet(last) \ queue : TakenFor(m, queue)}
      BY <2>1 DEF Mistaken
    <3> QED
      BY <3>2, <3>3 DEF HistoryTypes
  <2>5. logsLoaded' = TRUE /\ DatesGood(<<>>, Len(log)) /\ <<>> \in Seq(Moments)
    BY <2>1 DEF onHistoryFetched, DatesGood
  <2> QED
    BY <1>1, <1>5, <2>1, <2>2, <2>4, <2>5, <2>b DEF HistoryTypes
<1> QED
  BY <1>7, <1>8

\* What starting a fetch adds.
LEMMA FetchTyped ==
    ASSUME HistoryTypes, NEW token \in Nat, NEW valid \in BOOLEAN, fetchHistory(token, valid)
    PROVE  /\ fromToken' \in Nat /\ OpsGood(ops', Len(log))
           /\ logsLoaded' \in BOOLEAN /\ unasked' \in BOOLEAN
<1>1. Len(log) \in Nat /\ OpsGood(ops, Len(log))
  BY LenProperties DEF HistoryTypes, LogDates
<1>2. OpsGood(Append(ops, None), Len(log))
  BY <1>1, OpsSteps
<1>3. fromToken \in Nat /\ unasked \in BOOLEAN
  BY DEF HistoryTypes
<1>4. CASE valid
  BY <1>2, <1>3, <1>4 DEF fetchHistory
<1>5. CASE ~valid
  BY <1>1, <1>3, <1>5 DEF fetchHistory
<1> QED
  BY <1>4, <1>5

LEMMA ContactDataTyped ==
    ASSUME HistoryTypes, NEW named \in BOOLEAN, setContactData(named) PROVE HistoryTypes'
<1>1. /\ fetchHistory(None, named) /\ isValid' = named
      /\ UNCHANGED <<log, unlogged, channel, queue, acked, received, messages, deliveryStatus, rowOf,
                     reported, datesCache, messagesCache, length, more>>
      /\ UNCHANGED <<room, tokenless, mistaken, clean>>
  BY DEF setContactData, logVars, channelVars, rowVars
<1>2. /\ fromToken' \in Nat /\ OpsGood(ops', Len(log))
      /\ logsLoaded' \in BOOLEAN /\ unasked' \in BOOLEAN
  BY <1>1, FetchTyped DEF None
<1>3. (Rows \in GoodRows)'
  BY <1>1, RowsSame DEF HistoryTypes
<1> QED
  BY <1>1, <1>2, <1>3 DEF HistoryTypes

LEMMA FetchMoreTyped == ASSUME HistoryTypes, fetchMoreHistory PROVE HistoryTypes'
<1>1. /\ messages # <<>> /\ more' = more + 1 /\ length' = MoreLength
      /\ fetchHistory(messages[1], isValid) /\ clean' = (clean /\ ops = <<>>)
      /\ UNCHANGED <<log, unlogged, channel, queue, acked, received, messages, deliveryStatus, rowOf,
                     reported, datesCache, messagesCache>>
      /\ UNCHANGED <<room, tokenless, isValid, mistaken>>
  BY DEF fetchMoreHistory, logVars, channelVars, rowVars
<1>2. messages \in Seq(Moments)
  BY RowTypes DEF HistoryTypes
<1>3. messages[1] \in Nat
  <2>1. 1 \in 1 .. Len(messages)
    BY <1>1, <1>2, EmptySeq
  <2>2. messages[1] \in Moments
    BY <1>2, <2>1, ElementOfSeq
  <2> QED
    BY <2>2 DEF Moments
<1>4. /\ fromToken' \in Nat /\ OpsGood(ops', Len(log))
      /\ logsLoaded' \in BOOLEAN /\ unasked' \in BOOLEAN
  <2>1. isValid \in BOOLEAN
    BY DEF HistoryTypes
  <2> QED
    BY <1>1, <1>3, <2>1, FetchTyped
<1>5. (Rows \in GoodRows)'
  BY <1>1, RowsSame DEF HistoryTypes
<1>6. more' \in Nat /\ length' \in Nat \ {0} /\ clean' \in BOOLEAN
  <2>1. more \in Nat /\ clean \in BOOLEAN
    BY DEF HistoryTypes
  <2>2. more' \in Nat
    BY <1>1, <2>1
  <2>3. length' \in Nat \ {0}
    BY <1>1, Constants
  <2>4. clean' \in BOOLEAN
    BY <1>1, <2>1
  <2> QED
    BY <1>1, <2>2, <2>3, <2>4
<1> QED
  BY <1>1, <1>4, <1>5, <1>6 DEF HistoryTypes

LEMMA VisibleTyped == ASSUME HistoryTypes, NEW v, setVisibleToUser(v) PROVE HistoryTypes'
<1>1. /\ acked' = (IF v /\ channel > 0 THEN queue ELSE acked)
      /\ UNCHANGED <<log, unlogged, channel, queue, received, messages, deliveryStatus, rowOf, reported,
                     logsLoaded, ops, datesCache, messagesCache, fromToken, length, more, clean>>
      /\ UNCHANGED <<room, tokenless, isValid, unasked, mistaken>>
  BY DEF setVisibleToUser, chatVars, logVars, rowVars, fetchVars
<1>2. (Rows \in GoodRows)'
  BY <1>1, RowsSame DEF HistoryTypes
<1> QED
  BY <1>1, <1>2 DEF HistoryTypes

LEMMA RemovedTyped == ASSUME HistoryTypes, NEW m, PendingMessageRemoved(m) PROVE HistoryTypes'
<1>1. /\ acked' = acked \ {m} /\ queue' = queue \ {m}
      /\ UNCHANGED <<log, unlogged, channel, received, messages, deliveryStatus, rowOf, reported,
                     logsLoaded, ops, datesCache, messagesCache, fromToken, length, more, clean>>
      /\ UNCHANGED <<room, tokenless, isValid, unasked, mistaken>>
  BY DEF PendingMessageRemoved, chatVars, logVars, rowVars, fetchVars
<1>2. (Rows \in GoodRows)'
  BY <1>1, RowsSame DEF HistoryTypes
<1> QED
  BY <1>1, <1>2 DEF HistoryTypes

LEMMA LoggedTyped == ASSUME HistoryTypes, Logged PROVE HistoryTypes'
<1>1. /\ unlogged # <<>> /\ log' = LoggedTo(log, Head(unlogged)) /\ unlogged' = Tail(unlogged)
      /\ clean' = (clean /\ (ops = <<>> \/ Head(unlogged) = messages[1]))
      /\ UNCHANGED <<channel, queue, acked, received, messages, deliveryStatus, rowOf, reported,
                     logsLoaded, ops, datesCache, messagesCache, fromToken, length, more>>
      /\ UNCHANGED <<room, tokenless, isValid, unasked, mistaken>>
  BY DEF Logged, LoggedTo, chatVars, channelVars, rowVars, fetchVars
<1>2. /\ log \in LogDates /\ unlogged \in Seq(Moments) /\ OpsGood(ops, Len(log))
      /\ DatesGood(datesCache, Len(log))
  BY DEF HistoryTypes
<1>3. Head(unlogged) \in Moments /\ Tail(unlogged) \in Seq(Moments)
  BY <1>1, <1>2, HeadTailProperties
<1>4. log' \in LogDates /\ Len(log) <= Len(log')
  BY <1>1, <1>2, <1>3, LogGrows
<1>5. Len(log) \in Nat /\ Len(log') \in Nat
  BY <1>2, <1>4, LenProperties DEF LogDates
<1>6. OpsGood(ops, Len(log')) /\ DatesGood(datesCache, Len(log'))
  BY <1>2, <1>4, <1>5 DEF OpsGood, DatesGood
<1>7. (Rows \in GoodRows)'
  BY <1>1, RowsSame DEF HistoryTypes
<1> QED
  BY <1>1, <1>3, <1>4, <1>6, <1>7 DEF HistoryTypes

LEMMA ReportTyped ==
    ASSUME HistoryTypes, NEW m \in Outgoing, NEW x \in DeliveryStatuses, onDeliveryReport(m, x)
    PROVE  HistoryTypes'
<1>1. /\ rowOf[m] # None /\ deliveryStatus' = [deliveryStatus EXCEPT ![rowOf[m]] = x]
      /\ reported' = [reported EXCEPT ![m] = x]
      /\ UNCHANGED <<log, unlogged, channel, queue, acked, received, messages, rowOf, logsLoaded, ops,
                     datesCache, messagesCache, fromToken, length, more, clean>>
      /\ UNCHANGED <<room, tokenless, isValid, unasked, mistaken>>
  BY DEF onDeliveryReport, chatVars, logVars, channelVars, fetchVars
<1>2. /\ messages \in Seq(Moments) /\ deliveryStatus \in Seq(SomeStatus)
      /\ Len(messages) \in Nat /\ Len(deliveryStatus) = Len(messages) /\ rowOf \in [Outgoing -> Nat]
      /\ \A y \in Outgoing : rowOf[y] # None =>
           /\ rowOf[y] \in 1 .. Len(messages) /\ messages[rowOf[y]] = y
           /\ deliveryStatus[rowOf[y]] = reported[y]
      /\ \A y \in Outgoing : rowOf[y] = None => reported[y] = "Unknown"
  BY RowTypes DEF HistoryTypes
<1>3. reported \in [Outgoing -> SomeStatus] /\ x \in SomeStatus
  BY DEF HistoryTypes, SomeStatus
<1> DEFINE n == rowOf[m]
<1>4. n \in 1 .. Len(deliveryStatus) /\ messages[n] = m
  BY <1>1, <1>2
<1> HIDE DEF n
<1>5. /\ deliveryStatus' \in Seq(SomeStatus) /\ Len(deliveryStatus') = Len(messages)
      /\ \A j \in 1 .. Len(messages) : deliveryStatus'[j] = IF j = n THEN x ELSE deliveryStatus[j]
  <2>1. deliveryStatus' = [deliveryStatus EXCEPT ![n] = x]
    BY <1>1 DEF n
  <2>2. /\ deliveryStatus' \in Seq(SomeStatus) /\ Len(deliveryStatus') = Len(deliveryStatus)
        /\ \A j \in 1 .. Len(deliveryStatus) : deliveryStatus'[j] = IF j = n THEN x ELSE deliveryStatus[j]
    BY <1>2, <1>3, <1>4, <2>1, ExceptSeq
  <2> QED
    BY <1>2, <2>2
<1>6. ASSUME NEW y \in Outgoing, rowOf[y] # None
      PROVE  /\ rowOf[y] \in 1 .. Len(messages) /\ messages[rowOf[y]] = y
             /\ deliveryStatus'[rowOf[y]] = reported'[y]
  <2>1. /\ rowOf[y] \in 1 .. Len(messages) /\ messages[rowOf[y]] = y
        /\ deliveryStatus[rowOf[y]] = reported[y]
    BY <1>2, <1>6
  <2>2. CASE y = m
    BY <1>1, <1>3, <1>5, <2>1, <2>2 DEF n
  <2>3. CASE y # m
    <3>1. rowOf[y] # n
      BY <1>4, <2>1, <2>3
    <3>2. reported'[y] = reported[y]
      BY <1>1, <1>3, <2>3
    <3> QED
      BY <1>5, <2>1, <3>1, <3>2
  <2> QED
    BY <2>2, <2>3
<1>7. \A y \in Outgoing : rowOf[y] = None => reported'[y] = "Unknown"
  BY <1>1, <1>2, <1>3
<1>8. reported' \in [Outgoing -> SomeStatus]
  BY <1>1, <1>3
<1>9. (Rows \in GoodRows)'
  <2>1. /\ Rows'.messages = messages /\ Rows'.deliveryStatus = deliveryStatus' /\ Rows'.rowOf = rowOf
        /\ Rows' = [messages |-> messages, deliveryStatus |-> deliveryStatus', rowOf |-> rowOf]
    BY <1>1 DEF Rows
  <2>2. Rows' \in RowRecords
    BY <1>2, <1>5, <2>1 DEF RowRecords
  <2>3. Agree(Rows)'
    BY <1>5, <1>6, <1>7, <2>1 DEF Agree, RowFound
  <2>4. RowRecords' = RowRecords
    BY DEF RowRecords
  <2> QED
    BY <2>2, <2>3, <2>4 DEF GoodRows
<1> QED
  BY <1>1, <1>8, <1>9 DEF HistoryTypes

\* The rows after the user wrote a message.
LEMMA SentRows ==
    ASSUME HistoryTypes, NEW m \in Outgoing, NEW known \in BOOLEAN, onMessageSent(m, known)
    PROVE  /\ (Rows \in GoodRows)' /\ messages' = Append(messages, m)
           /\ ToSet(messages) \subseteq ToSet(messages')
<1>1. /\ rowOf[m] = None /\ messages' = Append(messages, m)
      /\ deliveryStatus' = Append(deliveryStatus, "Unknown")
      /\ rowOf' = (IF known THEN [rowOf EXCEPT ![m] = Len(messages) + 1] ELSE rowOf)
      /\ reported' = reported
  BY DEF onMessageSent
<1>2. /\ messages \in Seq(Moments) /\ deliveryStatus \in Seq(SomeStatus) /\ DOMAIN messages = 1 .. Len(messages)
      /\ Len(messages) \in Nat /\ Len(deliveryStatus) = Len(messages) /\ rowOf \in [Outgoing -> Nat]
      /\ \A y \in Outgoing : rowOf[y] # None =>
           /\ rowOf[y] \in 1 .. Len(messages) /\ messages[rowOf[y]] = y
           /\ deliveryStatus[rowOf[y]] = reported[y]
      /\ \A y \in Outgoing : rowOf[y] = None => reported[y] = "Unknown"
  BY RowTypes DEF HistoryTypes
<1> DEFINE n == Len(messages)
           a == Append(messages, m)
           b == Append(deliveryStatus, "Unknown")
           c == IF known THEN [rowOf EXCEPT ![m] = n + 1] ELSE rowOf
           s == [messages |-> a, deliveryStatus |-> b, rowOf |-> c]
<1>3. /\ a \in Seq(Moments) /\ Len(a) = n + 1 /\ a[n + 1] = m
      /\ \A j \in 1 .. n : a[j] = messages[j]
  BY <1>2, Constants, AppendProperties
<1>4. /\ b \in Seq(SomeStatus) /\ Len(b) = n + 1 /\ b[n + 1] = "Unknown"
      /\ \A j \in 1 .. n : b[j] = deliveryStatus[j]
  <2> DEFINE x == "Unknown"
             v == deliveryStatus
  <2>1. x \in SomeStatus /\ v \in Seq(SomeStatus)
    BY <1>2 DEF SomeStatus
  <2> HIDE DEF x, v
  <2>2. /\ Append(v, x) \in Seq(SomeStatus) /\ Len(Append(v, x)) = Len(v) + 1
        /\ Append(v, x)[Len(v) + 1] = x /\ \A j \in 1 .. Len(v) : Append(v, x)[j] = v[j]
    BY <2>1, AppendProperties
  <2> QED
    BY <1>2, <2>2 DEF v, x
<1>5. /\ c \in [Outgoing -> Nat] /\ c[m] = (IF known THEN n + 1 ELSE None)
      /\ \A y \in Outgoing : y # m => c[y] = rowOf[y]
  <2>1. CASE known
    BY <1>2, <2>1
  <2>2. CASE ~known
    BY <1>1, <1>2, <2>2
  <2> QED
    BY <2>1, <2>2
<1> HIDE DEF n, a, b, c
<1>6. n \in Nat
  BY <1>2 DEF n
<1>7. s \in RowRecords
  BY <1>3, <1>4, <1>5 DEF RowRecords
<1>8. ASSUME NEW y \in Outgoing
      PROVE  IF c[y] = None THEN reported[y] = "Unknown"
             ELSE c[y] \in 1 .. n + 1 /\ a[c[y]] = y /\ b[c[y]] = reported[y]
  <2>1. CASE y = m
    <3>1. n + 1 \in 1 .. n + 1 /\ n + 1 # None /\ c[y] \in {n + 1, None}
      BY <1>5, <1>6, <2>1 DEF None
    <3>2. reported[y] = "Unknown"
      BY <1>1, <1>2, <2>1
    <3> QED
      BY <1>3, <1>4, <2>1, <3>1, <3>2
  <2>2. CASE y # m
    <3>1. c[y] = rowOf[y]
      BY <1>5, <2>2
    <3>2. CASE rowOf[y] = None
      BY <1>2, <3>1, <3>2
    <3>3. CASE rowOf[y] # None
      <4>1. rowOf[y] \in 1 .. n /\ rowOf[y] \in 1 .. n + 1 /\ messages[rowOf[y]] = y
            /\ deliveryStatus[rowOf[y]] = reported[y]
        BY <1>2, <1>6, <3>3 DEF n
      <4> QED
        BY <1>3, <1>4, <3>1, <3>3, <4>1
    <3> QED
      BY <3>2, <3>3
  <2> QED
    BY <2>1, <2>2
<1>9. s \in GoodRows
  <2>1. s.messages = a /\ s.deliveryStatus = b /\ s.rowOf = c
    OBVIOUS
  <2> HIDE DEF s
  <2> QED
    BY <1>3, <1>4, <1>7, <1>8, <2>1 DEF GoodRows, Agree, RowFound
<1>10. SetRows(s)
  BY <1>1 DEF SetRows, a, b, c, n
<1>11. (Rows \in GoodRows)'
  BY <1>1, <1>9, <1>10, RowsSet
<1>12. ASSUME NEW x \in ToSet(messages) PROVE x \in ToSet(messages')
  <2>1. PICK j \in 1 .. n : messages[j] = x
    BY <1>2 DEF ToSet, n
  <2>2. DOMAIN a = 1 .. n + 1 /\ j \in 1 .. n + 1
    BY <1>3, <1>6, LenProperties
  <2> QED
    BY <1>1, <1>3, <2>1, <2>2 DEF ToSet, a
<1> QED
  BY <1>1, <1>11, <1>12

LEMMA SentTyped ==
    ASSUME HistoryTypes, NEW m \in Outgoing, NEW known \in BOOLEAN, onMessageSent(m, known)
    PROVE  HistoryTypes'
<1>1. /\ unlogged' = Append(unlogged, m)
      /\ UNCHANGED <<log, channel, queue, acked, received, reported, logsLoaded, ops, datesCache,
                     messagesCache, fromToken, length, more, clean>>
      /\ UNCHANGED <<room, tokenless, isValid, unasked, mistaken>>
  BY DEF onMessageSent, chatVars, channelVars, fetchVars
<1>2. unlogged' \in Seq(Moments)
  <2>1. m \in Moments /\ unlogged \in Seq(Moments)
    BY Constants DEF HistoryTypes
  <2> QED
    BY <1>1, <2>1, AppendProperties
<1>3. (Rows \in GoodRows)' /\ ToSet(messages) \subseteq ToSet(messages')
  BY SentRows
<1> QED
  BY <1>1, <1>2, <1>3 DEF HistoryTypes

\* The rows after a message came.
LEMMA ReceivedRows ==
    ASSUME HistoryTypes, NEW m \in Incoming, NEW timed \in BOOLEAN, onMessageReceived(m, timed)
    PROVE  /\ (Rows \in GoodRows)' /\ ToSet(messages') = ToSet(messages) \cup {m}
           /\ ~timed => messages' = Append(messages, m)
<1>1. SetRows(Inserted(Rows, m, timed)) /\ reported' = reported /\ m \in Moments
  BY Constants DEF onMessageReceived
<1> DEFINE r == Rows
           s == Inserted(r, m, timed)
<1>2. r.messages = messages /\ r \in GoodRows
  BY DEF HistoryTypes, Rows
<1> HIDE DEF r
<1>3. s \in GoodRows /\ ToSet(s.messages) = ToSet(r.messages) \cup {m}
  BY <1>1, <1>2, InsertedRows
<1>4. ~timed => s.messages = Append(r.messages, m)
  BY <1>1, <1>2, InsertedRows
<1>5. SetRows(s)
  BY <1>1 DEF r
<1> HIDE DEF s
<1>6. (Rows \in GoodRows)' /\ messages' = s.messages
  BY <1>1, <1>3, <1>5, RowsSet
<1> QED
  BY <1>2, <1>3, <1>4, <1>6

LEMMA ReceivedTyped ==
    ASSUME HistoryTypes, NEW m \in Incoming, NEW timed \in BOOLEAN, onMessageReceived(m, timed)
    PROVE  HistoryTypes'
<1>1. /\ received' = received \cup {m} /\ queue' = queue \cup {m}
      /\ acked' = (IF visible THEN queue' ELSE acked)
      /\ unlogged' = Append(unlogged, m) /\ clean' = (clean /\ ~timed)
      /\ UNCHANGED <<log, channel, reported, logsLoaded, ops, datesCache, messagesCache, fromToken,
                     length, more>>
      /\ UNCHANGED <<room, tokenless, isValid, unasked, mistaken>>
  BY DEF onMessageReceived, chatVars, fetchVars
<1>2. unlogged' \in Seq(Moments)
  <2>1. m \in Moments /\ unlogged \in Seq(Moments)
    BY Constants DEF HistoryTypes
  <2> QED
    BY <1>1, <2>1, AppendProperties
<1>3. (Rows \in GoodRows)' /\ ToSet(messages') = ToSet(messages) \cup {m}
  BY ReceivedRows
<1> QED
  BY <1>1, <1>2, <1>3 DEF HistoryTypes

\* Messages that wait in a channel and are not in the model yet.
Fresh == {m \in queue' : ~messageAlreadyInModel(m)}

\* A channel with messages K, of which the fresh ones are shown.
LEMMA ChannelRows ==
    ASSUME HistoryTypes, NEW K \in SUBSET Incoming, NEW timed \in BOOLEAN, setTextChannel(K, timed)
    PROVE  /\ (Rows \in GoodRows)' /\ ToSet(messages') = ToSet(messages) \cup Fresh
           /\ ~timed => messages' = messages \o InOrderOfTime(Fresh)
           /\ Fresh = {} => messages' = messages
<1> DEFINE fresh == InOrderOfTime(Fresh)
           r == Rows
           s == InsertedAll(r, fresh, timed)
<1>1. SetRows(s) /\ reported' = reported /\ queue' = queue \cup K
  BY DEF setTextChannel, Fresh
<1>2. Fresh \in SUBSET Moments /\ IsFiniteSet(Fresh)
  <2>1. Fresh \in SUBSET Incoming
    BY <1>1 DEF Fresh, HistoryTypes
  <2>2. IsFiniteSet(Fresh)
    BY <2>1, Constants, FS_Subset
  <2> QED
    BY <2>1, <2>2, Constants
<1> DEFINE new == Fresh
<1> HIDE DEF new
<1>3. new \in SUBSET Moments /\ IsFiniteSet(new) /\ fresh = InOrderOfTime(new)
  BY <1>2 DEF new
<1> HIDE DEF fresh
<1>4. fresh \in Seq(Moments) /\ ToSet(fresh) = new /\ (new = {} => fresh = <<>>)
  BY <1>3, OrderOfTime
<1>5. r.messages = messages /\ r \in GoodRows /\ messages \in Seq(Moments)
  BY RowTypes DEF HistoryTypes, Rows
<1> HIDE DEF r
<1>0. /\ s \in GoodRows /\ ToSet(s.messages) = ToSet(r.messages) \cup ToSet(fresh)
      /\ ~timed => s.messages = r.messages \o fresh
      /\ fresh = <<>> => s = r
  <2>1. r \in GoodRows /\ fresh \in Seq(Moments) /\ timed \in BOOLEAN
    BY <1>4, <1>5
  <2> QED
    BY <2>1, InsertedAllRows
<1>6. s \in GoodRows /\ ToSet(s.messages) = ToSet(r.messages) \cup ToSet(fresh)
  BY <1>0
<1>7. ~timed => s.messages = r.messages \o fresh
  BY <1>0
<1>8. new = {} => s.messages = r.messages
  <2>1. new = {} => fresh = <<>>
    BY <1>4
  <2>2. fresh = <<>> => s = r
    BY <1>0
  <2> QED
    BY <2>1, <2>2
<1> HIDE DEF s
<1>9. (Rows \in GoodRows)' /\ messages' = s.messages
  BY <1>1, <1>6, RowsSet
<1> QED
  BY <1>3, <1>4, <1>5, <1>6, <1>7, <1>8, <1>9 DEF new

\* What is not fresh was shown, or is taken for another without a token.
LEMMA ChannelShown ==
    ASSUME HistoryTypes, NEW K \in SUBSET Incoming, NEW timed \in BOOLEAN, setTextChannel(K, timed)
    PROVE  /\ mistaken \subseteq mistaken' /\ mistaken' \subseteq tokenless
           /\ queue' \subseteq ToSet(messages) \cup Fresh \cup mistaken'
           /\ mistaken' = {} => Fresh = queue' \ ToSet(messages)
<1> DEFINE taken == {m \in queue' \ ToSet(messages) : messageAlreadyInModel(m)}
<1>1. mistaken' = mistaken \cup taken /\ queue' = queue \cup K
  BY DEF setTextChannel
<1>2. queue' \subseteq Moments
  BY <1>1, Constants DEF HistoryTypes
<1>3. ASSUME NEW m \in taken PROVE m \in tokenless
  <2> DEFINE S == ToSet(messages) \cup {x \in queue' : x < m}
  <2>1. m \in Moments /\ m \notin ToSet(messages) /\ TakenFor(m, S)
    BY <1>2 DEF messageAlreadyInModel
  <2>2. ~(m < m)
    BY <2>1 DEF Moments
  <2>3. m \notin S
    BY <2>1, <2>2
  <2> HIDE DEF S
  <2> QED
    BY <2>1, <2>3, TakenForOther
<1>4. ASSUME NEW m \in ToSet(messages) PROVE messageAlreadyInModel(m)
  BY DEF messageAlreadyInModel, TakenFor
<1> QED
  BY <1>1, <1>3, <1>4 DEF Fresh, HistoryTypes

LEMMA ChannelTyped ==
    ASSUME HistoryTypes, NEW K \in SUBSET Incoming, NEW timed \in BOOLEAN, setTextChannel(K, timed)
    PROVE  HistoryTypes'
<1>1. /\ channel' = channel + 1 /\ queue' = queue \cup K /\ received' = received \cup K
      /\ acked' \subseteq queue' /\ unlogged' = unlogged \o InOrderOfTime(K) /\ isValid' = ~room
      /\ IF logsLoaded THEN UNCHANGED <<fromToken, ops, logsLoaded, unasked>>
         ELSE fetchHistory(None, ~room)
      /\ clean' = (clean /\ (~timed \/ K = {}) /\ (logsLoaded \/ ops = <<>>) /\ mistaken' = mistaken)
      /\ UNCHANGED <<room, tokenless, log, reported, datesCache, messagesCache, length, more>>
  BY DEF setTextChannel
<1>2. unlogged' \in Seq(Moments)
  <2>1. K \in SUBSET Moments /\ IsFiniteSet(K)
    BY Constants, FS_Subset
  <2>2. InOrderOfTime(K) \in Seq(Moments) /\ unlogged \in Seq(Moments)
    BY <2>1, OrderOfTime DEF HistoryTypes
  <2> QED
    BY <1>1, <2>2, ConcatProperties
<1>3. /\ (Rows \in GoodRows)' /\ ToSet(messages') = ToSet(messages) \cup Fresh
      /\ mistaken \subseteq mistaken' /\ mistaken' \subseteq tokenless
      /\ queue' \subseteq ToSet(messages) \cup Fresh \cup mistaken'
  BY ChannelRows, ChannelShown
<1>4. /\ received' \subseteq ToSet(messages') \cup mistaken'
      /\ (clean' => mistaken' = {}) /\ mistaken' \subseteq tokenless'
  BY <1>1, <1>3 DEF HistoryTypes
<1>5. /\ OpsGood(ops', Len(log)) /\ fromToken' \in Nat
      /\ logsLoaded' \in BOOLEAN /\ unasked' \in BOOLEAN
  <2>1. (~room) \in BOOLEAN /\ None \in Nat
    BY DEF None
  <2>2. CASE logsLoaded
    BY <1>1, <2>2 DEF HistoryTypes
  <2>3. CASE ~logsLoaded
    <3>1. fetchHistory(None, ~room)
      BY <1>1, <2>3
    <3> QED
      BY <2>1, <3>1, FetchTyped
  <2> QED
    BY <2>2, <2>3
<1>6. channel' \in Nat /\ clean' \in BOOLEAN /\ isValid' \in BOOLEAN
  BY <1>1 DEF HistoryTypes
<1> QED
  BY <1>1, <1>2, <1>3, <1>4, <1>5, <1>6 DEF HistoryTypes

\* What was said so far: what the log has, and what is on its way into it.
Written == AllEntries(log)
Said == Written \o unlogged

\* How much of it is before the first row, and how much of that the first dates have.
Hidden == Len(Said) - Len(messages)
UpTo(d) == Len(Entries(log)[d])

\* How many of the messages that were written before the fetches were asked for.
Asked == ScrollbackLength + more * MoreLength
AskedBefore == Asked - length

\* The rows r are the end of what was said, s; the first h were there before the chat.
RowsEnd(s, r, h) ==
    /\ InOrder(s) /\ h \in 0 .. Len(s) /\ Len(r) = Len(s) - h
    /\ \A i \in 1 .. Len(r) : r[i] = s[h + i]
    /\ \A i \in 1 .. h, m \in Chatted : s[i] < m

RowsEndHistory == RowsEnd(Said, messages, Hidden) /\ Hidden <= Len(Written)

\* What was said between the first n and the first h.
Between(ms, s, n, h) ==
    ms \in Seq(Moments) /\ Len(ms) = h - n /\ \A i \in 1 .. h - n : ms[i] = s[n + i]

EnoughOf(n) == unasked \/ Hidden = 0 \/ Len(messages) >= n
FirstRowLogged == unasked \/ Hidden = 0 \/ Hidden < Len(Written)
OnlyFirstLogged == Len(Written) \in {Hidden, Hidden + 1}

\* During a fetch, which asks for length messages.
DuringFetch ==
    /\ length = IF more = 0 THEN ScrollbackLength ELSE MoreLength
    /\ IF more = 0 THEN OnlyFirstLogged ELSE FirstRowLogged /\ EnoughOf(AskedBefore)

\* The logs of date d are next: the token is looked for, or it was found and all that
\* is cached follows the date and ends at the first row.
Searching(d) ==
    /\ more > 0 /\ messages # <<>> /\ fromToken = messages[1]
    /\ messagesCache = <<>>
    /\ unasked \/ Hidden = 0 \/ Hidden < UpTo(d)

Collecting(d) ==
    /\ fromToken = None
    /\ UpTo(d) + Len(messagesCache) \in {Hidden, Hidden + 1}
    /\ UpTo(d) + Len(messagesCache) <= Len(Written)
    /\ more > 0 => UpTo(d) + Len(messagesCache) = Hidden /\ d < Len(log)
    /\ \A i \in 1 .. Len(messagesCache) : messagesCache[i] = Written[UpTo(d) + i]

DatesAsked ==
    /\ messagesCache = <<>>
    /\ fromToken = None <=> more = 0
    /\ more > 0 => messages # <<>> /\ fromToken = messages[1]

LogsAsked(d) ==
    /\ d \in 1 .. Len(log) /\ Len(datesCache) = d - 1
    /\ \A i \in 1 .. Len(datesCache) : datesCache[i] = i
    /\ Searching(d) \/ Collecting(d)

NothingYet ==
    /\ channel = 0 /\ messages = <<>> /\ unlogged = <<>> /\ more = 0
    /\ length = ScrollbackLength
    /\ datesCache = <<>> /\ messagesCache = <<>> /\ Hidden = Len(Written)

FetchState ==
    /\ Len(ops) <= 1
    /\ logsLoaded => ops = <<>> /\ messagesCache = <<>> /\ EnoughOf(Asked) /\ FirstRowLogged
    /\ ~logsLoaded /\ ops = <<>> => NothingYet
    /\ ops # <<>> =>
         ~logsLoaded /\ DuringFetch /\ IF ops[1] = None THEN DatesAsked ELSE LogsAsked(ops[1])

CleanInv == clean => RowsEndHistory /\ FetchState
HistoryInv == HistoryTypes /\ CleanInv

-----------------------------------------------------------------------------
(* Rows at the end of what was said.                                       *)

\* Each item of a sequence is one of 1 .. Len.
LEMMA InOrderItems ==
    ASSUME NEW s \in Seq(Moments)
    PROVE  /\ Len(s) \in Nat /\ DOMAIN s = 1 .. Len(s) /\ \A i \in 1 .. Len(s) : s[i] \in Moments
           /\ InOrder(s) <=> \A i, j \in 1 .. Len(s) : i < j => s[i] < s[j]
           /\ InOrder(s) => \A i, j \in 1 .. Len(s) : s[i] = s[j] => i = j
<1>1. Len(s) \in Nat /\ DOMAIN s = 1 .. Len(s) /\ \A i \in 1 .. Len(s) : s[i] \in Moments
  BY LenProperties
<1>2. InOrder(s) <=> \A i, j \in 1 .. Len(s) : i < j => s[i] < s[j]
  BY <1>1 DEF InOrder
<1>3. ASSUME InOrder(s), NEW i \in 1 .. Len(s), NEW j \in 1 .. Len(s), s[i] = s[j] PROVE i = j
  <2>1. s[i] \in Nat /\ s[j] \in Nat /\ i \in Nat /\ j \in Nat
    BY <1>1 DEF Moments
  <2>2. (i < j => s[i] < s[j]) /\ (j < i => s[j] < s[i])
    BY <1>2, <1>3
  <2> QED
    BY <1>3, <2>1, <2>2
<1> QED
  BY <1>1, <1>2, <1>3

\* New messages are later than all that was said.
LEMMA AppendedEnd ==
    ASSUME NEW s \in Seq(Moments), NEW r \in Seq(Moments), NEW ms \in Seq(Moments), NEW h, RowsEnd(s, r, h),
           InOrder(ms), ToSet(ms) \subseteq Chatted, \A x \in ToSet(r), y \in ToSet(ms) : x < y
    PROVE  /\ RowsEnd(s \o ms, r \o ms, h) /\ Len(r \o ms) >= Len(r)
           /\ r # <<>> => r \o ms # <<>> /\ (r \o ms)[1] = r[1]
<1> DEFINE a == Len(s)
           b == Len(r)
           c == Len(ms)
           ss == s \o ms
           rr == r \o ms
<1>1. /\ ss \in Seq(Moments) /\ Len(ss) = a + c
      /\ \A i \in 1 .. a + c : ss[i] = IF i <= a THEN s[i] ELSE ms[i - a]
  BY ConcatProperties
<1>2. /\ rr \in Seq(Moments) /\ Len(rr) = b + c
      /\ \A i \in 1 .. b + c : rr[i] = IF i <= b THEN r[i] ELSE ms[i - b]
  BY ConcatProperties
<1>3. /\ a \in Nat /\ b \in Nat /\ c \in Nat /\ b <= a /\ h \in Nat /\ h = a - b
      /\ DOMAIN r = 1 .. b /\ DOMAIN ms = 1 .. c
  <2>1. a \in Nat /\ b \in Nat /\ c \in Nat /\ h \in 0 .. a /\ b = a - h
    BY LenProperties DEF RowsEnd
  <2> QED
    BY <2>1, LenProperties
<1>4. /\ \A i, j \in 1 .. a : i < j => s[i] < s[j]
      /\ \A i, j \in 1 .. c : i < j => ms[i] < ms[j]
  BY InOrderItems DEF RowsEnd
<1>5. /\ \A i \in 1 .. b : r[i] = s[h + i]
      /\ \A i \in 1 .. h, m \in Chatted : s[i] < m
  BY DEF RowsEnd
<1> HIDE DEF a, b, c, ss, rr
<1>6. \A j \in 1 .. c : ms[j] \in ToSet(ms) /\ ms[j] \in Chatted
  BY <1>3 DEF ToSet
<1>7. \A i \in 1 .. b : r[i] \in ToSet(r)
  BY <1>3 DEF ToSet
<1>8. ASSUME NEW i \in 1 .. a, NEW j \in 1 .. c PROVE s[i] < ms[j]
  <2>1. CASE i <= h
    <3>1. i \in 1 .. h
      BY <1>3, <2>1
    <3> QED
      BY <1>5, <1>6, <3>1
  <2>2. CASE i > h
    <3>1. i - h \in 1 .. b /\ h + (i - h) = i
      BY <1>3, <2>2
    <3>2. s[i] \in ToSet(r)
      BY <1>5, <1>7, <3>1
    <3> QED
      BY <1>6, <3>2
  <2> QED
    BY <1>3, <2>1, <2>2
<1>9. ASSUME NEW i \in 1 .. a + c, NEW j \in 1 .. a + c, i < j PROVE ss[i] < ss[j]
  <2>1. CASE j <= a
    <3>1. i \in 1 .. a /\ j \in 1 .. a /\ i <= a
      BY <1>3, <1>9, <2>1
    <3>2. ss[i] = s[i] /\ ss[j] = s[j]
      BY <1>1, <2>1, <3>1
    <3> QED
      BY <1>4, <1>9, <3>1, <3>2
  <2>2. CASE j > a /\ i <= a
    <3>1. i \in 1 .. a /\ j - a \in 1 .. c /\ ~(j <= a)
      BY <1>3, <2>2
    <3>2. ss[i] = s[i] /\ ss[j] = ms[j - a]
      BY <1>1, <2>2, <3>1
    <3> QED
      BY <1>8, <3>1, <3>2
  <2>3. CASE i > a
    <3>1. i - a \in 1 .. c /\ j - a \in 1 .. c /\ i - a < j - a /\ ~(i <= a) /\ ~(j <= a)
      BY <1>3, <1>9, <2>3
    <3>2. ss[i] = ms[i - a] /\ ss[j] = ms[j - a]
      BY <1>1, <3>1
    <3> QED
      BY <1>4, <3>1, <3>2
  <2> QED
    BY <1>3, <2>1, <2>2, <2>3
<1>10. InOrder(ss)
  BY <1>1, <1>9, InOrderItems
<1>11. h \in 0 .. Len(ss) /\ Len(rr) = Len(ss) - h /\ Len(rr) >= b
  BY <1>1, <1>2, <1>3
<1>12. ASSUME NEW i \in 1 .. b + c PROVE rr[i] = ss[h + i]
  <2>1. h + i \in 1 .. a + c
    BY <1>3
  <2>2. CASE i <= b
    <3>1. i \in 1 .. b /\ h + i <= a
      BY <1>3, <2>2
    <3> QED
      BY <1>1, <1>2, <1>5, <2>1, <2>2, <3>1
  <2>3. CASE ~(i <= b)
    <3>1. ~(h + i <= a) /\ (h + i) - a = i - b
      BY <1>3, <2>3
    <3> QED
      BY <1>1, <1>2, <2>1, <2>3, <3>1
  <2> QED
    BY <2>2, <2>3
<1>13. ASSUME NEW i \in 1 .. h, NEW m \in Chatted PROVE ss[i] < m
  <2>1. i \in 1 .. a + c /\ i <= a
    BY <1>3
  <2>2. ss[i] = s[i]
    BY <1>1, <2>1
  <2> QED
    BY <1>5, <2>2
<1>14. RowsEnd(ss, rr, h)
  BY <1>2, <1>10, <1>11, <1>12, <1>13 DEF RowsEnd
<1>15. ASSUME r # <<>> PROVE rr # <<>> /\ rr[1] = r[1]
  <2>1. b # 0
    BY <1>15, EmptySeq DEF b
  <2>2. 1 \in 1 .. b + c /\ 1 <= b /\ Len(rr) # 0
    BY <1>2, <1>3, <2>1
  <2>3. rr[1] = r[1]
    BY <1>2, <2>2
  <2>4. rr # <<>>
    BY <2>2
  <2> QED
    BY <2>3, <2>4
<1> QED
  BY <1>11, <1>14, <1>15 DEF b, ss, rr

\* Older messages are what was hidden before the first row.
LEMMA PrependedEnd ==
    ASSUME NEW s \in Seq(Moments), NEW r \in Seq(Moments), NEW h, RowsEnd(s, r, h),
           NEW n \in Nat, NEW ms, Between(ms, s, n, h), n <= h
    PROVE  RowsEnd(s, ms \o r, n)
<1> DEFINE a == Len(s)
           b == Len(r)
           c == Len(ms)
           rr == ms \o r
<1>1. /\ rr \in Seq(Moments) /\ Len(rr) = c + b
      /\ \A i \in 1 .. c + b : rr[i] = IF i <= c THEN ms[i] ELSE r[i - c]
  BY ConcatProperties DEF Between
<1>2. a \in Nat /\ b \in Nat /\ c \in Nat /\ b <= a /\ h \in Nat /\ h = a - b /\ c = h - n
  <2>1. a \in Nat /\ b \in Nat /\ c \in Nat /\ h \in 0 .. a /\ b = a - h /\ c = h - n
    BY LenProperties DEF RowsEnd, Between
  <2> QED
    BY <2>1
<1>3. /\ InOrder(s) /\ \A i \in 1 .. b : r[i] = s[h + i]
      /\ \A i \in 1 .. h, m \in Chatted : s[i] < m
      /\ \A i \in 1 .. c : ms[i] = s[n + i]
  BY DEF RowsEnd, Between
<1> HIDE DEF a, b, c, rr
<1>4. n \in 0 .. a /\ Len(rr) = a - n
  BY <1>1, <1>2
<1>5. ASSUME NEW i \in 1 .. c + b PROVE rr[i] = s[n + i]
  <2>1. CASE i <= c
    <3>1. i \in 1 .. c
      BY <2>1
    <3> QED
      BY <1>1, <1>3, <2>1, <3>1
  <2>2. CASE ~(i <= c)
    <3>1. i - c \in 1 .. b /\ h + (i - c) = n + i
      BY <1>2, <2>2
    <3> QED
      BY <1>1, <1>3, <2>2, <3>1
  <2> QED
    BY <2>1, <2>2
<1>6. \A i \in 1 .. n : i \in 1 .. h
  BY <1>2
<1>7. RowsEnd(s, rr, n)
  BY <1>1, <1>3, <1>4, <1>5, <1>6 DEF RowsEnd, a
<1> QED
  BY <1>7 DEF rr

\* The first row is not fetched again.
LEMMA FirstRowKnown ==
    ASSUME NEW ms \in Seq(Moments), messages # <<>>, onHistoryFetched(ms)
    PROVE  /\ (\A i \in 1 .. Len(ms) : ms[i] # messages[1]) => messages' = ms \o messages
           /\ ms # <<>> /\ ms[Len(ms)] = messages[1] /\ (\A i \in 1 .. Len(ms) - 1 : ms[i] # messages[1])
                => messages' = SubSeq(ms, 1, Len(ms) - 1) \o messages
<1> DEFINE known == {i \in DOMAIN ms : messages # <<>> /\ ms[i] = messages[1]}
           n == Len(ms)
<1>1. n \in Nat /\ DOMAIN ms = 1 .. n
  BY LenProperties
<1>2. messages' = (IF known = {} THEN ms ELSE SubSeq(ms, 1, Min(known) - 1)) \o messages
  BY DEF onHistoryFetched, prepend
<1> HIDE DEF n
<1>3. (\A i \in 1 .. n : ms[i] # messages[1]) => known = {}
  BY <1>1
<1>4. ASSUME ms # <<>>, ms[n] = messages[1], \A i \in 1 .. n - 1 : ms[i] # messages[1]
      PROVE  known # {} /\ Min(known) = n
  <2>1. n \in 1 .. n
    BY <1>1, <1>4, EmptySeq DEF n
  <2>2. n \in known /\ known \in SUBSET Nat
    BY <1>1, <1>4, <2>1
  <2>3. \A i \in known : i \in 1 .. n /\ i \notin 1 .. n - 1
    BY <1>1, <1>4
  <2> HIDE DEF known
  <2>4. Min(known) \in known
    BY <2>2, LeastOf
  <2>5. Min(known) \in 1 .. n /\ Min(known) \notin 1 .. n - 1
    BY <2>3, <2>4
  <2> QED
    BY <1>1, <2>2, <2>5
<1>5. (\A i \in 1 .. n : ms[i] # messages[1]) => messages' = ms \o messages
  BY <1>2, <1>3
<1>6. ASSUME ms # <<>>, ms[n] = messages[1], \A i \in 1 .. n - 1 : ms[i] # messages[1]
      PROVE  messages' = SubSeq(ms, 1, n - 1) \o messages
  BY <1>2, <1>4, <1>6
<1> QED
  BY <1>5, <1>6 DEF n

\* An answer without messages leaves the rows as they are.
LEMMA NothingFetched ==
    ASSUME messages \in Seq(Moments), onHistoryFetched(<<>>) PROVE messages' = messages
<1> DEFINE known == {i \in DOMAIN <<>> : messages # <<>> /\ <<>>[i] = messages[1]}
<1>1. known = {}
  OBVIOUS
<1>2. messages' = (IF known = {} THEN <<>> ELSE SubSeq(<<>>, 1, Min(known) - 1)) \o messages
  BY DEF onHistoryFetched, prepend
<1>3. messages' = <<>> \o messages
  BY <1>1, <1>2
<1> QED
  BY <1>3, ConcatEmptySeq

\* What was fetched is what was said up to the first row, or with it; what of it waits
\* in the channel, if any, is the first row.
LEMMA FetchedEnd ==
    ASSUME NEW s \in Seq(Moments), messages \in Seq(Moments), NEW h, RowsEnd(s, messages, h),
           queue \subseteq Chatted, NEW e \in {h, h + 1}, e <= Len(s), NEW n \in Nat, n <= h,
           NEW ms, Between(ms, s, n, e), NoneTaken(ms),
           onHistoryFetched(NotPending(ms))
    PROVE  RowsEnd(s, messages', n)
<1> DEFINE a == Len(s)
           b == Len(messages)
           c == Len(ms)
<1>1. /\ a \in Nat /\ b \in Nat /\ c \in Nat /\ h \in 0 .. a /\ b = a - h /\ e <= a /\ c = e - n
      /\ DOMAIN s = 1 .. a /\ ms \in Seq(Moments)
  BY LenProperties DEF RowsEnd, Between
<1>2. /\ \A i, j \in 1 .. a : s[i] = s[j] => i = j
      /\ \A i \in 1 .. a : s[i] \in Moments
  BY InOrderItems DEF RowsEnd
<1>3. /\ \A i \in 1 .. b : messages[i] = s[h + i]
      /\ \A i \in 1 .. h, m \in Chatted : s[i] < m
      /\ \A i \in 1 .. c : ms[i] = s[n + i]
  BY DEF RowsEnd, Between
<1>4. \A i \in 1 .. h : s[i] \notin queue
  <2> SUFFICES ASSUME NEW i \in 1 .. h, s[i] \in queue PROVE FALSE
    OBVIOUS
  <2>1. s[i] \in Chatted /\ s[i] < s[i]
    BY <1>3
  <2>2. i \in 1 .. a
    BY <1>1
  <2>3. s[i] \in Nat
    BY <1>2, <2>2 DEF Moments
  <2> QED
    BY <2>1, <2>3
<1>a. \A i \in 1 .. c : TakenFor(ms[i], queue) <=> ms[i] \in queue
  BY DEF NoneTaken
<1> HIDE DEF a, b, c
<1>5. messages = <<>> <=> b = 0
  BY EmptySeq DEF b
<1>6. ASSUME messages # <<>>, NEW i \in 1 .. h PROVE s[i] # messages[1]
  <2>1. 1 \in 1 .. b /\ h + 1 \in 1 .. a /\ i \in 1 .. a /\ i # h + 1
    BY <1>1, <1>5, <1>6
  <2> QED
    BY <1>2, <1>3, <2>1
<1>7. ASSUME NEW ws, Between(ws, s, n, h), messages' = ws \o messages PROVE RowsEnd(s, messages', n)
  BY <1>7, PrependedEnd
<1>8. CASE e = h
  <2>1. Between(ms, s, n, h)
    BY <1>8
  <2>2. \A i \in 1 .. c : n + i \in 1 .. h
    BY <1>1, <1>8
  <2>3. \A i \in 1 .. c : ~TakenFor(ms[i], queue)
    BY <1>3, <1>4, <1>a, <2>2
  <2>4. NotPending(ms) = ms
    BY <1>1, <2>3, NotPendingItems DEF c
  <2>5. CASE messages # <<>>
    <3>1. \A i \in 1 .. c : ms[i] # messages[1]
      BY <1>3, <1>6, <2>2, <2>5
    <3>2. messages' = ms \o messages
      BY <1>1, <2>4, <2>5, <3>1, FirstRowKnown DEF c
    <3> QED
      BY <1>7, <2>1, <3>2
  <2>6. CASE messages = <<>>
    <3>1. {i \in DOMAIN ms : messages # <<>> /\ ms[i] = messages[1]} = {}
      BY <2>6
    <3>2. messages' = ms \o messages
      BY <2>4, <3>1 DEF onHistoryFetched, prepend
    <3> QED
      BY <1>7, <2>1, <3>2
  <2> QED
    BY <2>5, <2>6
<1>9. CASE e = h + 1
  <2> DEFINE front == h - n
  <2>1. /\ b # 0 /\ c = front + 1 /\ c \in 1 .. c /\ 1 \in 1 .. b /\ n + c = h + 1
        /\ c - 1 = front /\ front \in Int /\ front <= c
        /\ 1 .. front = 1 .. c - 1
    BY <1>1, <1>9
  <2>2. \A i \in 1 .. front : i \in 1 .. c /\ n + i \in 1 .. h
    BY <1>1, <1>9
  <2>3. messages # <<>> /\ ms # <<>>
    BY <1>5, <2>1 DEF c
  <2>4. ms[c] = messages[1]
    BY <1>3, <2>1
  <2>5. \A i \in 1 .. front : ~TakenFor(ms[i], queue) /\ ms[i] # messages[1]
    BY <1>3, <1>4, <1>6, <1>a, <2>2, <2>3
  <2> DEFINE ws == SubSeq(ms, 1, c - 1)
  <2> HIDE DEF front
  <2>6. ws \in Seq(Moments) /\ Len(ws) = front /\ \A i \in 1 .. front : ws[i] = ms[i]
    <3>1. \A i \in 1 .. front : ms[i] \in Moments
      BY <1>1, <2>2, LenProperties DEF c
    <3>2. /\ SubSeq(ms, 1, front) \in Seq(Moments) /\ Len(SubSeq(ms, 1, front)) = front
          /\ \A i \in 1 .. front : SubSeq(ms, 1, front)[i] = ms[i]
      BY <1>1, <2>1, <3>1, SubSeqProperties
    <3> QED
      BY <2>1, <3>2
  <2>7. Between(ws, s, n, h)
    <3>1. \A i \in 1 .. front : ws[i] = s[n + i]
      BY <1>3, <2>2, <2>6
    <3> HIDE DEF ws
    <3> QED
      BY <2>6, <3>1 DEF Between, front
  <2>8. CASE TakenFor(ms[c], queue)
    <3>1. NotPending(ms) = ws
      BY <1>1, <2>1, <2>3, <2>5, <2>8, NotPendingItems DEF c
    <3> HIDE DEF ws
    <3>2. \A i \in 1 .. Len(ws) : ws[i] # messages[1]
      BY <2>5, <2>6
    <3>3. messages' = ws \o messages
      BY <2>3, <2>6, <3>1, <3>2, FirstRowKnown
    <3> QED
      BY <1>7, <2>7, <3>3
  <2>9. CASE ~TakenFor(ms[c], queue)
    <3>1. \A i \in 1 .. c : ~TakenFor(ms[i], queue)
      <4>1. \A i \in 1 .. c : i = c \/ i \in 1 .. front
        BY <1>1, <2>1
      <4> QED
        BY <2>5, <2>9, <4>1
    <3>2. NotPending(ms) = ms
      BY <1>1, <3>1, NotPendingItems DEF c
    <3>3. messages' = ws \o messages
      BY <1>1, <2>1, <2>3, <2>4, <2>5, <3>2, FirstRowKnown DEF c
    <3> QED
      BY <1>7, <2>7, <3>3
  <2> QED
    BY <2>8, <2>9
<1> QED
  BY <1>8, <1>9

-----------------------------------------------------------------------------
(* While nothing went wrong the rows are the end of what was said.         *)

\* The log and what is on its way into it.
LEMMA WhatWasSaid ==
    ASSUME HistoryTypes
    PROVE  /\ log \in LogDates /\ Len(log) \in Nat /\ Written \in Seq(Moments) /\ Len(Written) \in Nat
           /\ unlogged \in Seq(Moments) /\ Len(unlogged) \in Nat
           /\ Said \in Seq(Moments) /\ Len(Said) = Len(Written) + Len(unlogged)
           /\ \A i \in 1 .. Len(Written) : Said[i] = Written[i]
           /\ messages \in Seq(Moments) /\ Len(messages) \in Nat
<1>1. log \in LogDates /\ unlogged \in Seq(Moments) /\ messages \in Seq(Moments) /\ Len(messages) \in Nat
  BY RowTypes DEF HistoryTypes
<1> DEFINE s == Written
           t == unlogged
<1>2. Len(log) \in Nat /\ s \in Seq(Moments) /\ t \in Seq(Moments)
  BY <1>1, DatesInPlace DEF Written
<1> HIDE DEF s, t
<1>3. /\ Len(s) \in Nat /\ Len(t) \in Nat /\ s \o t \in Seq(Moments) /\ Len(s \o t) = Len(s) + Len(t)
      /\ \A i \in 1 .. Len(s) + Len(t) : (s \o t)[i] = IF i <= Len(s) THEN s[i] ELSE t[i - Len(s)]
  BY <1>2, ConcatProperties
<1>4. \A i \in 1 .. Len(s) : i \in 1 .. Len(s) + Len(t) /\ i <= Len(s)
  BY <1>3
<1>5. \A i \in 1 .. Len(s) : (s \o t)[i] = s[i]
  BY <1>3, <1>4
<1> QED
  BY <1>1, <1>2, <1>3, <1>5 DEF s, t, Said

\* The first row is the one after those that are hidden.
LEMMA HiddenKnown ==
    ASSUME HistoryTypes, RowsEndHistory
    PROVE  /\ Hidden \in Nat /\ Hidden <= Len(Written) /\ Len(messages) = Len(Said) - Hidden
           /\ messages # <<>> => Hidden + 1 \in 1 .. Len(Said) /\ messages[1] = Said[Hidden + 1]
           /\ \A i, j \in 1 .. Len(Said) : Said[i] = Said[j] => i = j
<1>1. /\ Len(Said) \in Nat /\ Hidden \in 0 .. Len(Said) /\ Len(messages) = Len(Said) - Hidden
      /\ Hidden <= Len(Written) /\ \A i \in 1 .. Len(messages) : messages[i] = Said[Hidden + i]
  BY WhatWasSaid DEF RowsEndHistory, RowsEnd
<1>2. \A i, j \in 1 .. Len(Said) : Said[i] = Said[j] => i = j
  BY WhatWasSaid, InOrderItems DEF RowsEndHistory, RowsEnd
<1>3. ASSUME messages # <<>> PROVE Hidden + 1 \in 1 .. Len(Said) /\ messages[1] = Said[Hidden + 1]
  <2>1. Len(messages) # 0 /\ Len(messages) \in Nat
    BY <1>3, WhatWasSaid, EmptySeq
  <2> DEFINE h == Hidden
             b == Len(messages)
  <2>2. h \in Nat /\ b \in Nat /\ b # 0 /\ b = Len(Said) - h
    BY <1>1, <2>1
  <2> HIDE DEF h, b
  <2>3. 1 \in 1 .. b /\ h + 1 \in 1 .. Len(Said)
    BY <1>1, <2>2
  <2> QED
    BY <1>1, <2>3 DEF h, b
<1> QED
  BY <1>1, <1>2, <1>3

\* Steps that leave the rows, the log and the fetches as they are.
LEMMA CleanSame ==
    ASSUME CleanInv,
           UNCHANGED <<log, unlogged, channel, messages, logsLoaded, ops, datesCache, messagesCache,
                       fromToken, length, more, clean, unasked>>
    PROVE  CleanInv'
<1>1. Written' = Written /\ Said' = Said /\ Hidden' = Hidden /\ Asked' = Asked /\ AskedBefore' = AskedBefore
  BY DEF Written, Said, Hidden, Asked, AskedBefore
<1>2. RowsEndHistory' <=> RowsEndHistory
  BY <1>1 DEF RowsEndHistory
<1>3. FetchState' <=> FetchState
  <2>1. \A n : EnoughOf(n)' <=> EnoughOf(n)
    BY <1>1 DEF EnoughOf
  <2>2. (FirstRowLogged' <=> FirstRowLogged) /\ (OnlyFirstLogged' <=> OnlyFirstLogged)
    BY <1>1 DEF FirstRowLogged, OnlyFirstLogged
  <2>3. (DuringFetch' <=> DuringFetch) /\ (DatesAsked' <=> DatesAsked) /\ (NothingYet' <=> NothingYet)
    BY <1>1, <2>1, <2>2 DEF DuringFetch, DatesAsked, NothingYet
  <2>4. \A d : LogsAsked(d)' <=> LogsAsked(d)
    BY <1>1 DEF LogsAsked, Searching, Collecting, UpTo
  <2> QED
    BY <1>1, <2>1, <2>2, <2>3, <2>4 DEF FetchState
<1> QED
  BY <1>2, <1>3 DEF CleanInv

\* Messages that are said now, and shown at the end.
LEMMA MoreSaid ==
    ASSUME HistoryTypes, RowsEndHistory, NEW ms \in Seq(Moments), InOrder(ms), ToSet(ms) \subseteq Chatted,
           \A x \in ToSet(messages), y \in ToSet(ms) : x < y,
           messages' = messages \o ms, unlogged' = unlogged \o ms, log' = log
    PROVE  /\ RowsEndHistory' /\ Hidden' = Hidden /\ Written' = Written
           /\ Len(messages') \in Nat /\ Len(messages') >= Len(messages)
           /\ messages # <<>> => messages' # <<>> /\ messages'[1] = messages[1]
<1> DEFINE s == Said
           r == messages
           h == Hidden
           w == Written
           u == unlogged
<1>1. /\ s \in Seq(Moments) /\ r \in Seq(Moments) /\ w \in Seq(Moments) /\ u \in Seq(Moments) /\ s = w \o u
      /\ h <= Len(w) /\ RowsEnd(s, r, h) /\ Written' = w
  BY WhatWasSaid DEF RowsEndHistory, Written, Said
<1>2. h \in Nat
  BY HiddenKnown
<1>3. Said' = w \o (u \o ms)
  BY DEF Said, Written
<1>4. messages' = r \o ms
  OBVIOUS
<1> HIDE DEF s, r, h, w, u
<1>5. w \o (u \o ms) = s \o ms
  <2>1. w \in Seq(Moments) /\ u \in Seq(Moments)
    BY <1>1
  <2>2. (w \o u) \o ms = w \o (u \o ms)
    BY <2>1, ConcatAssociative
  <2> QED
    BY <1>1, <2>2
<1>6. /\ RowsEnd(s \o ms, r \o ms, h) /\ Len(r \o ms) >= Len(r)
      /\ r # <<>> => r \o ms # <<>> /\ (r \o ms)[1] = r[1]
  <2>1. \A x \in ToSet(r), y \in ToSet(ms) : x < y
    BY DEF r
  <2> QED
    BY <1>1, <2>1, AppendedEnd
<1> DEFINE t == s \o ms
           q == r \o ms
<1>7. t \in Seq(Moments) /\ q \in Seq(Moments)
  BY <1>1, ConcatProperties
<1> HIDE DEF t, q
<1>8. Len(t) \in Nat /\ Len(q) \in Nat /\ Len(q) = Len(t) - h
  BY <1>6, <1>7, LenProperties DEF t, q, RowsEnd
<1>9. Said' = t /\ messages' = q
  BY <1>3, <1>4, <1>5 DEF t, q
<1>10. Hidden' = h
  <2>1. Hidden' = Len(t) - Len(q)
    BY <1>9 DEF Hidden
  <2> QED
    BY <1>2, <1>8, <2>1
<1>11. RowsEndHistory'
  BY <1>1, <1>6, <1>9, <1>10 DEF RowsEndHistory, t, q
<1> QED
  BY <1>1, <1>6, <1>8, <1>9, <1>10, <1>11 DEF r, h, w, q

\* They change nothing about the fetch.
LEMMA FetchKept ==
    ASSUME HistoryTypes, RowsEndHistory, FetchState, channel > 0,
           Hidden' = Hidden, Written' = Written,
           Len(messages') \in Nat, Len(messages') >= Len(messages),
           messages # <<>> => messages' # <<>> /\ messages'[1] = messages[1],
           UNCHANGED <<log, logsLoaded, ops, datesCache, messagesCache, fromToken, length, more,
                       unasked>>
    PROVE  FetchState'
<1>1. Asked' = Asked /\ AskedBefore' = AskedBefore /\ Asked \in Int /\ AskedBefore \in Int
  <2>1. ScrollbackLength \in Int /\ MoreLength \in Int /\ more \in Int /\ length \in Int
    BY Constants DEF HistoryTypes
  <2>2. more * MoreLength \in Int
    BY <2>1
  <2> QED
    BY <2>1, <2>2 DEF Asked, AskedBefore
<1>2. \A n \in Int : EnoughOf(n) => EnoughOf(n)'
  <2>1. Len(messages) \in Nat
    BY WhatWasSaid
  <2> QED
    BY <2>1 DEF EnoughOf
<1>3. (FirstRowLogged' <=> FirstRowLogged) /\ (OnlyFirstLogged' <=> OnlyFirstLogged)
  BY DEF FirstRowLogged, OnlyFirstLogged
<1>4. DuringFetch => DuringFetch'
  <2>1. EnoughOf(AskedBefore) => EnoughOf(AskedBefore)'
    BY <1>1, <1>2 DEF EnoughOf
  <2> QED
    BY <1>3, <2>1 DEF DuringFetch
<1>5. DatesAsked => DatesAsked'
  BY DEF DatesAsked
<1>6. \A d : LogsAsked(d) => LogsAsked(d)'
  BY DEF LogsAsked, Searching, Collecting, UpTo
<1>7. logsLoaded \/ ops # <<>>
  BY DEF FetchState, NothingYet
<1>8. EnoughOf(Asked) => EnoughOf(Asked)'
  BY <1>1, <1>2 DEF EnoughOf
<1> QED
  BY <1>3, <1>4, <1>5, <1>6, <1>7, <1>8 DEF FetchState

\* A message that is said now, and shown at the end.
LEMMA OneSaid ==
    ASSUME HistoryTypes, RowsEndHistory, FetchState, channel > 0, NEW m \in Chatted,
           \A x \in ToSet(messages) : x < m,
           messages' = Append(messages, m), unlogged' = Append(unlogged, m),
           UNCHANGED <<log, logsLoaded, ops, datesCache, messagesCache, fromToken, length, more,
                       unasked>>
    PROVE  RowsEndHistory' /\ FetchState'
<1> DEFINE ms == <<m>>
<1>1. m \in Moments /\ messages \in Seq(Moments) /\ unlogged \in Seq(Moments)
  BY Constants, WhatWasSaid
<1>2. ms \in Seq(Moments) /\ ToSet(ms) = {m} /\ InOrder(ms)
  BY <1>1 DEF ToSet, InOrder
<1>3. messages' = messages \o ms /\ unlogged' = unlogged \o ms
  BY <1>1, AppendIsConcat
<1> HIDE DEF ms
<1>4. ToSet(ms) \subseteq Chatted /\ \A x \in ToSet(messages), y \in ToSet(ms) : x < y
  BY <1>2
<1>5. /\ RowsEndHistory' /\ Hidden' = Hidden /\ Written' = Written
      /\ Len(messages') \in Nat /\ Len(messages') >= Len(messages)
      /\ messages # <<>> => messages' # <<>> /\ messages'[1] = messages[1]
  BY <1>2, <1>3, <1>4, MoreSaid
<1>6. FetchState'
  BY <1>5, FetchKept
<1> QED
  BY <1>5, <1>6

LEMMA SentClean ==
    ASSUME HistoryTypes, CleanInv, NEW m \in Outgoing, NEW known \in BOOLEAN, onMessageSent(m, known)
    PROVE  CleanInv'
<1> SUFFICES ASSUME clean' PROVE RowsEndHistory' /\ FetchState'
  BY DEF CleanInv
<1>1. /\ channel > 0 /\ (\A x \in ToSet(messages) : x < m) /\ messages' = Append(messages, m)
      /\ unlogged' = Append(unlogged, m)
      /\ UNCHANGED <<log, logsLoaded, ops, datesCache, messagesCache, fromToken, length, more, clean,
                     unasked>>
  BY DEF onMessageSent, chatVars, fetchVars
<1>2. m \in Chatted /\ RowsEndHistory /\ FetchState
  BY <1>1 DEF Chatted, CleanInv
<1> QED
  BY <1>1, <1>2, OneSaid

LEMMA ReceivedClean ==
    ASSUME HistoryTypes, CleanInv, NEW m \in Incoming, NEW timed \in BOOLEAN, onMessageReceived(m, timed)
    PROVE  CleanInv'
<1> SUFFICES ASSUME clean' PROVE RowsEndHistory' /\ FetchState'
  BY DEF CleanInv
<1>1. /\ channel > 0 /\ MayComeNow({m}, timed) /\ unlogged' = Append(unlogged, m)
      /\ clean' = (clean /\ ~timed)
      /\ UNCHANGED <<log, logsLoaded, ops, datesCache, messagesCache, fromToken, length, more, unasked>>
  BY DEF onMessageReceived, chatVars, fetchVars
<1>2. ~timed /\ m \in Chatted /\ RowsEndHistory /\ FetchState
  BY <1>1 DEF Chatted, CleanInv
<1>3. \A x \in ToSet(messages) : x < m
  BY <1>1, <1>2 DEF MayComeNow
<1>4. messages' = Append(messages, m)
  BY <1>2, ReceivedRows
<1> QED
  BY <1>1, <1>2, <1>3, <1>4, OneSaid

\* What comes with a channel, and the fetch it starts if none has ended.
LEMMA ChannelClean ==
    ASSUME HistoryTypes, CleanInv, NEW K \in SUBSET Incoming, NEW timed \in BOOLEAN,
           setTextChannel(K, timed)
    PROVE  CleanInv'
<1> SUFFICES ASSUME clean' PROVE RowsEndHistory' /\ FetchState'
  BY DEF CleanInv
<1> DEFINE ms == InOrderOfTime(K)
<1>1. /\ MayComeNow(K, timed) /\ channel' = channel + 1 /\ unlogged' = unlogged \o ms
      /\ IF logsLoaded THEN UNCHANGED <<fromToken, ops, logsLoaded, unasked>>
         ELSE fetchHistory(None, ~room)
      /\ clean' = (clean /\ (~timed \/ K = {}) /\ (logsLoaded \/ ops = <<>>) /\ mistaken' = mistaken)
      /\ UNCHANGED <<log, datesCache, messagesCache, length, more>>
  BY DEF setTextChannel
<1>2. /\ ~timed \/ K = {} 
      /\ logsLoaded \/ ops = <<>>
      /\ RowsEndHistory /\ FetchState
  BY <1>1 DEF CleanInv
<1>3. ms \in Seq(Moments) /\ ToSet(ms) = K /\ InOrder(ms) /\ (K = {} => ms = <<>>)
  <2>1. K \in SUBSET Moments /\ IsFiniteSet(K)
    BY Constants, FS_Subset
  <2> QED
    BY <2>1, OrderOfTime
<1>4. \A x \in ToSet(messages), y \in K : x < y
  <2>1. CASE ~timed
    BY <1>1, <2>1 DEF MayComeNow
  <2>2. CASE K = {}
    BY <2>2
  <2> QED
    BY <1>2, <2>1, <2>2
<1>a. Fresh = K
  <2>1. mistaken' = {} /\ queue \subseteq ToSet(messages)
    BY <1>1 DEF HistoryTypes
  <2>2. Fresh = queue' \ ToSet(messages)
    BY <2>1, ChannelShown
  <2>3. queue' = queue \cup K
    BY DEF setTextChannel
  <2>4. ASSUME NEW x \in K, x \in ToSet(messages) PROVE FALSE
    <3>1. x < x /\ x \in Nat
      BY <1>4, <2>4, Constants DEF Moments
    <3> QED
      BY <3>1
  <2> QED
    BY <2>1, <2>2, <2>3, <2>4
<1>5. messages' = messages \o ms
  <2>1. CASE K = {}
    <3>1. messages' = messages /\ ms = <<>> /\ messages \in Seq(Moments)
      BY <1>3, <1>a, <2>1, ChannelRows, WhatWasSaid
    <3> QED
      BY <3>1, ConcatEmptySeq
  <2>2. CASE ~timed
    BY <1>a, <2>2, ChannelRows
  <2> QED
    BY <1>2, <2>1, <2>2
<1> HIDE DEF ms
<1>6. ToSet(ms) \subseteq Chatted /\ \A x \in ToSet(messages), y \in ToSet(ms) : x < y
  BY <1>3, <1>4 DEF Chatted
<1>7. /\ RowsEndHistory' /\ Hidden' = Hidden /\ Written' = Written
      /\ Len(messages') \in Nat /\ Len(messages') >= Len(messages)
      /\ messages # <<>> => messages' # <<>> /\ messages'[1] = messages[1]
  BY <1>1, <1>2, <1>3, <1>5, <1>6, MoreSaid
<1>8. CASE logsLoaded
  <2>1. /\ ops = <<>> /\ messagesCache = <<>> /\ EnoughOf(Asked) /\ FirstRowLogged
        /\ UNCHANGED <<fromToken, ops, logsLoaded, unasked>>
    BY <1>1, <1>2, <1>8 DEF FetchState
  <2>2. Asked' = Asked /\ Asked \in Int
    <3>1. ScrollbackLength \in Int /\ MoreLength \in Int /\ more \in Int
      BY Constants DEF HistoryTypes
    <3>2. more * MoreLength \in Int
      BY <3>1
    <3> QED
      BY <1>1, <3>1, <3>2 DEF Asked
  <2>3. EnoughOf(Asked)' /\ FirstRowLogged'
    <3>1. Len(messages) \in Nat
      BY WhatWasSaid
    <3> QED
      BY <1>7, <2>1, <2>2, <3>1 DEF EnoughOf, FirstRowLogged
  <2>4. Len(ops') <= 1
    BY <2>1
  <2> QED
    BY <1>1, <1>7, <1>8, <2>1, <2>3, <2>4 DEF FetchState
<1>9. CASE ~logsLoaded /\ room
  <2>1. NothingYet /\ ops' = <<>> /\ logsLoaded' /\ unasked'
    BY <1>1, <1>2, <1>9 DEF FetchState, fetchHistory
  <2>2. messagesCache' = <<>> /\ EnoughOf(Asked)' /\ FirstRowLogged'
    BY <1>1, <2>1 DEF NothingYet, EnoughOf, FirstRowLogged
  <2>3. Len(ops') <= 1
    BY <2>1
  <2> QED
    BY <1>7, <2>1, <2>2, <2>3 DEF FetchState
<1>10. CASE ~logsLoaded /\ ~room
  <2>1. /\ NothingYet /\ ops = <<>> /\ fromToken' = None /\ ops' = Append(ops, None)
        /\ ~logsLoaded' /\ unasked' = unasked
    BY <1>1, <1>2, <1>10 DEF FetchState, fetchHistory
  <2>2. ops' = <<None>>
    BY <2>1
  <2>3. Len(ops') = 1 /\ ops'[1] = None /\ ops' # <<>>
    BY <2>2
  <2>4. more' = 0 /\ length' = ScrollbackLength /\ messagesCache' = <<>> /\ Hidden' = Len(Written)'
    BY <1>1, <1>7, <2>1 DEF NothingYet
  <2>5. DuringFetch' /\ DatesAsked'
    BY <2>1, <2>4 DEF DuringFetch, OnlyFirstLogged, DatesAsked
  <2> QED
    BY <1>1, <1>7, <2>1, <2>3, <2>5 DEF FetchState
<1> QED
  BY <1>7, <1>8, <1>9, <1>10

\* A fetch that starts without a channel.
LEMMA ContactDataClean ==
    ASSUME HistoryTypes, CleanInv, NEW named \in BOOLEAN, setContactData(named) PROVE CleanInv'
<1> SUFFICES ASSUME clean' PROVE RowsEndHistory' /\ FetchState'
  BY DEF CleanInv
<1>1. /\ ops = <<>> /\ ~logsLoaded /\ fetchHistory(None, named)
      /\ UNCHANGED <<log, unlogged, channel, messages, datesCache, messagesCache, length, more, clean>>
  BY DEF setContactData, logVars, channelVars, rowVars
<1>2. RowsEndHistory /\ NothingYet
  BY <1>1 DEF CleanInv, FetchState
<1>3. Written' = Written /\ Said' = Said /\ Hidden' = Hidden
  BY <1>1 DEF Written, Said, Hidden
<1>4. RowsEndHistory'
  BY <1>1, <1>2, <1>3 DEF RowsEndHistory
<1>5. more' = 0 /\ length' = ScrollbackLength /\ messagesCache' = <<>> /\ Hidden' = Len(Written)'
  BY <1>1, <1>2, <1>3 DEF NothingYet
<1>6. CASE named
  <2>0. fromToken' = None /\ ops' = Append(ops, None) /\ ~logsLoaded'
    BY <1>1, <1>6 DEF fetchHistory
  <2>1. fromToken' = None /\ ops' = <<None>> /\ ~logsLoaded'
    BY <1>1, <2>0
  <2>2. Len(ops') = 1 /\ ops'[1] = None /\ ops' # <<>>
    BY <2>1
  <2>3. DuringFetch' /\ DatesAsked'
    BY <1>5, <2>1 DEF DuringFetch, OnlyFirstLogged, DatesAsked
  <2> QED
    BY <1>4, <2>1, <2>2, <2>3 DEF FetchState
<1>7. CASE ~named
  <2>1. ops' = <<>> /\ logsLoaded' /\ unasked'
    BY <1>1, <1>7 DEF fetchHistory
  <2>2. EnoughOf(Asked)' /\ FirstRowLogged' /\ Len(ops') <= 1
    BY <2>1 DEF EnoughOf, FirstRowLogged
  <2> QED
    BY <1>4, <1>5, <2>1, <2>2 DEF FetchState
<1> QED
  BY <1>6, <1>7

\* A fetch of what is in front of the first row.
LEMMA FetchMoreClean == ASSUME HistoryTypes, CleanInv, fetchMoreHistory PROVE CleanInv'
<1> SUFFICES ASSUME clean' PROVE RowsEndHistory' /\ FetchState'
  BY DEF CleanInv
<1>1. /\ messages # <<>> /\ logsLoaded /\ more' = more + 1
      /\ length' = MoreLength /\ fetchHistory(messages[1], isValid)
      /\ clean' = (clean /\ ops = <<>>)
      /\ UNCHANGED <<log, unlogged, channel, messages, datesCache, messagesCache>>
  BY DEF fetchMoreHistory, logVars, channelVars, rowVars
<1>2. /\ RowsEndHistory /\ ops = <<>> /\ messagesCache = <<>> /\ EnoughOf(Asked) /\ FirstRowLogged
  BY <1>1 DEF CleanInv, FetchState
<1>3. Written' = Written /\ Said' = Said /\ Hidden' = Hidden
  BY <1>1 DEF Written, Said, Hidden
<1>4. RowsEndHistory'
  BY <1>1, <1>2, <1>3 DEF RowsEndHistory
<1>6. more' \in Nat /\ more' > 0 /\ more' # 0
  BY <1>1 DEF HistoryTypes
<1>7. AskedBefore' = Asked
  <2>1. ScrollbackLength \in Int /\ MoreLength \in Int /\ more \in Int
    BY Constants DEF HistoryTypes
  <2>2. more * MoreLength \in Int /\ (more + 1) * MoreLength = more * MoreLength + MoreLength
    BY <2>1
  <2>3. AskedBefore' = (ScrollbackLength + (more + 1) * MoreLength) - MoreLength
    BY <1>1 DEF AskedBefore, Asked
  <2> QED
    BY <2>1, <2>2, <2>3 DEF Asked
<1>8. EnoughOf(AskedBefore)' /\ FirstRowLogged'
  <2>1. unasked => unasked'
    BY <1>1 DEF fetchHistory
  <2> QED
    BY <1>1, <1>2, <1>3, <1>7, <2>1 DEF EnoughOf, FirstRowLogged
<1>9. messages[1] # None
  <2>1. 1 \in 1 .. Len(messages) /\ messages \in Seq(Moments)
    BY <1>1, WhatWasSaid, EmptySeq
  <2>2. messages[1] \in Moments
    BY <2>1, ElementOfSeq
  <2> QED
    BY <2>2 DEF Moments
<1>10. CASE isValid
  <2>1. fromToken' = messages[1] /\ ops' = Append(<<>>, None) /\ ~logsLoaded'
    BY <1>1, <1>2, <1>10 DEF fetchHistory
  <2>2. Len(ops') = 1 /\ ops'[1] = None /\ ops' # <<>>
    BY <2>1
  <2>3. DuringFetch' /\ DatesAsked'
    BY <1>1, <1>2, <1>6, <1>8, <1>9, <2>1 DEF DuringFetch, DatesAsked
  <2> QED
    BY <1>4, <2>1, <2>2, <2>3 DEF FetchState
<1>11. CASE ~isValid
  <2>1. ops' = <<>> /\ logsLoaded' /\ unasked' /\ messagesCache' = <<>>
    BY <1>1, <1>2, <1>11 DEF fetchHistory
  <2>2. EnoughOf(Asked)' /\ FirstRowLogged' /\ Len(ops') <= 1
    BY <2>1 DEF EnoughOf, FirstRowLogged
  <2> QED
    BY <1>4, <2>1, <2>2 DEF FetchState
<1> QED
  BY <1>10, <1>11

\* The next message is written, in a fetch only the first row.
LEMMA LoggedClean == ASSUME HistoryTypes, CleanInv, Logged PROVE CleanInv'
<1> SUFFICES ASSUME clean' PROVE RowsEndHistory' /\ FetchState'
  BY DEF CleanInv
<1> DEFINE x == Head(unlogged)
           h == Hidden
           w == Len(Written)
<1>1. /\ unlogged # <<>> /\ log' = LoggedTo(log, x) /\ unlogged' = Tail(unlogged)
      /\ clean' = (clean /\ (ops = <<>> \/ x = messages[1]))
      /\ UNCHANGED <<channel, messages, logsLoaded, ops, datesCache, messagesCache, fromToken, length,
                     more, unasked>>
  BY DEF Logged, LoggedTo, chatVars, channelVars, rowVars, fetchVars
<1>2. /\ RowsEndHistory /\ FetchState
      /\ ops = <<>> \/ x = messages[1]
  BY <1>1 DEF CleanInv
<1>3. /\ log \in LogDates /\ Written \in Seq(Moments) /\ unlogged \in Seq(Moments) /\ Said \in Seq(Moments)
      /\ w \in Nat /\ Len(log) \in Nat /\ Len(Said) = w + Len(unlogged) /\ Len(unlogged) \in Nat
      /\ messages \in Seq(Moments)
  BY WhatWasSaid
<1>4. x \in Moments /\ Tail(unlogged) \in Seq(Moments)
  BY <1>1, <1>3, HeadTailProperties
<1>5. Written' = Append(Written, x)
  BY <1>1, <1>3, <1>4, LogGrows DEF Written
<1>6. /\ Len(Written') = w + 1 /\ Written'[w + 1] = x
      /\ \A i \in 1 .. w : Written'[i] = Written[i]
  <2> DEFINE ww == Written
  <2>1. ww \in Seq(Moments)
    BY <1>3
  <2> HIDE DEF ww
  <2>2. /\ Len(Append(ww, x)) = Len(ww) + 1 /\ Append(ww, x)[Len(ww) + 1] = x
        /\ \A i \in 1 .. Len(ww) : Append(ww, x)[i] = ww[i]
    BY <1>4, <2>1, AppendProperties
  <2> QED
    BY <1>5, <2>2 DEF ww
<1>7. Said' = Said
  <2> DEFINE ww == Written
             t == Tail(unlogged)
  <2>1. ww \in Seq(Moments) /\ t \in Seq(Moments) /\ <<x>> \in Seq(Moments)
    BY <1>3, <1>4
  <2>2. unlogged = <<x>> \o t
    BY <1>1, <1>3
  <2>3. Said' = Append(ww, x) \o t /\ Said = ww \o unlogged
    BY <1>1, <1>5 DEF Said
  <2> HIDE DEF ww, t, x
  <2>4. Append(ww, x) = ww \o <<x>>
    BY <1>4, <2>1, AppendIsConcat
  <2>5. (ww \o <<x>>) \o t = ww \o (<<x>> \o t)
    BY <2>1, ConcatAssociative
  <2> QED
    BY <2>2, <2>3, <2>4, <2>5
<1>8. Hidden' = h
  BY <1>1, <1>7 DEF Hidden
<1>9. h \in Nat /\ h <= w /\ Len(messages) = Len(Said) - h
  BY <1>2, HiddenKnown
<1>10. Len(unlogged) # 0 /\ w + 1 \in 1 .. Len(Said)
  <2>1. Len(unlogged) # 0
    BY <1>1, <1>3, EmptySeq
  <2> HIDE DEF w
  <2> QED
    BY <1>3, <2>1
<1>11. Said[w + 1] = x
  <2> DEFINE ww == Written
             u == unlogged
  <2>1. ww \in Seq(Moments) /\ u \in Seq(Moments) /\ Said = ww \o u /\ x = u[1]
    BY <1>1, <1>3, HeadTailProperties DEF Said
  <2>2. Len(ww) \in Nat /\ Len(u) \in Nat /\ Len(u) # 0 /\ Len(ww) = w
    BY <1>3, <1>10
  <2> HIDE DEF ww, u, x, w
  <2>3. \A i \in 1 .. Len(ww) + Len(u) : (ww \o u)[i] = IF i <= Len(ww) THEN ww[i] ELSE u[i - Len(ww)]
    BY <2>1, ConcatProperties
  <2>4. w + 1 \in 1 .. Len(ww) + Len(u) /\ ~(w + 1 <= Len(ww)) /\ (w + 1) - Len(ww) = 1
    BY <2>2
  <2> QED
    BY <2>1, <2>3, <2>4
<1>12. RowsEndHistory'
  BY <1>1, <1>2, <1>6, <1>7, <1>8, <1>9 DEF RowsEndHistory
<1>13. Asked' = Asked /\ AskedBefore' = AskedBefore
  BY <1>1 DEF Asked, AskedBefore
<1>14. (EnoughOf(Asked)' <=> EnoughOf(Asked)) /\ (EnoughOf(AskedBefore)' <=> EnoughOf(AskedBefore))
  BY <1>1, <1>8, <1>13 DEF EnoughOf
<1>15. FirstRowLogged'
  BY <1>6, <1>8, <1>9 DEF FirstRowLogged
<1>16. CASE ops = <<>>
  <2>1. logsLoaded
    BY <1>1, <1>2, <1>16 DEF FetchState, NothingYet
  <2> QED
    BY <1>1, <1>2, <1>12, <1>14, <1>15, <1>16, <2>1 DEF FetchState
<1>17. CASE ops # <<>>
  <2>1. /\ Len(ops) <= 1 /\ ~logsLoaded /\ DuringFetch
        /\ IF ops[1] = None THEN DatesAsked ELSE LogsAsked(ops[1])
        /\ x = messages[1]
    BY <1>2, <1>17 DEF FetchState
  <2>2. w = h
    <3>1. messages # <<>>
      <4>1. Len(messages) # 0
        <5> HIDE DEF w, h
        <5> QED
          BY <1>3, <1>9, <1>10
      <4> QED
        BY <4>1
    <3>2. h + 1 \in 1 .. Len(Said) /\ messages[1] = Said[h + 1]
      BY <1>2, <3>1, HiddenKnown
    <3>3. Said[h + 1] = Said[w + 1]
      BY <1>11, <2>1, <3>2
    <3>4. h + 1 = w + 1
      BY <1>2, <1>10, <3>2, <3>3, HiddenKnown
    <3> QED
      BY <1>3, <1>9, <3>4
  <2>3. OnlyFirstLogged'
    BY <1>6, <1>8, <2>2 DEF OnlyFirstLogged
  <2>4. DuringFetch'
    BY <1>1, <1>14, <1>15, <2>1, <2>3 DEF DuringFetch
  <2>5. DatesAsked => DatesAsked'
    BY <1>1 DEF DatesAsked
  <2>6. ASSUME NEW d, LogsAsked(d) PROVE LogsAsked(d)'
    <3>1. /\ d \in 1 .. Len(log) /\ Len(datesCache) = d - 1
          /\ \A i \in 1 .. Len(datesCache) : datesCache[i] = i
          /\ Searching(d) \/ Collecting(d)
      BY <2>6 DEF LogsAsked
    <3>2. log # <<>>
      <4>1. Len(log) # 0
        BY <1>3, <3>1
      <4> QED
        BY <4>1
    <3>3. /\ Len(log') = Len(log)
          /\ \A k \in 0 .. Len(log) - 1 : Entries(log')[k] = Entries(log)[k]
      BY <1>1, <1>3, <1>4, <3>2, LogGrows
    <3>4. d \in 1 .. Len(log')
      BY <3>1, <3>3
    <3>5. UpTo(d) \in Nat /\ UpTo(d) <= w
      <4>1. d \in 0 .. Len(log)
        BY <3>1
      <4> QED
        BY <1>3, <4>1, DatesInPlace DEF UpTo, Written
    <3>6. CASE Searching(d)
      <4>1. unasked \/ h = 0
        BY <1>3, <1>9, <2>2, <3>5, <3>6 DEF Searching
      <4>2. Searching(d)'
        BY <1>1, <1>8, <3>6, <4>1 DEF Searching
      <4> QED
        BY <1>1, <3>1, <3>4, <4>2 DEF LogsAsked
    <3>7. CASE Collecting(d)
      <4> DEFINE c == Len(messagesCache)
                 a == UpTo(d)
      <4>1. /\ fromToken = None /\ a + c \in {h, h + 1} /\ a + c <= w
            /\ more > 0 => a + c = h /\ d < Len(log)
            /\ \A i \in 1 .. c : messagesCache[i] = Written[a + i]
            /\ c \in Nat
        BY <3>7, LenProperties DEF Collecting, HistoryTypes
      <4>2. CASE d < Len(log)
        <5>1. UpTo(d)' = a
          <6>1. d \in 0 .. Len(log) - 1
            BY <1>3, <3>1, <4>2
          <6> QED
            BY <3>3, <6>1 DEF UpTo
        <5> HIDE DEF a, c, h, w
        <5>2. \A i \in 1 .. c : a + i \in 1 .. w
          BY <1>3, <3>5, <4>1 DEF a
        <5>3. \A i \in 1 .. c : messagesCache[i] = Written'[a + i]
          BY <1>6, <4>1, <5>2
        <5>4. a + c <= w + 1
          BY <1>3, <3>5, <4>1 DEF a
        <5>5. Collecting(d)'
          <6>1. fromToken' = None /\ messagesCache' = messagesCache /\ UpTo(d)' = a
            BY <1>1, <4>1, <5>1
          <6>2. a + c \in {Hidden', Hidden' + 1} /\ a + c <= Len(Written')
            BY <1>6, <1>8, <4>1, <5>4
          <6>3. more' > 0 => a + c = Hidden' /\ d < Len(log')
            BY <1>1, <1>8, <3>3, <4>1
          <6> QED
            BY <5>3, <6>1, <6>2, <6>3 DEF Collecting, c
        <5> QED
          BY <1>1, <3>1, <3>4, <5>5 DEF LogsAsked
      <4>3. CASE ~(d < Len(log))
        <5>1. d = Len(log) /\ ~(more > 0)
          BY <1>3, <3>1, <4>1, <4>3
        <5>2. a = w
          BY <5>1 DEF UpTo, Written, AllEntries
        <5>3. UpTo(d)' = w + 1
          BY <1>6, <3>3, <5>1 DEF UpTo, Written, AllEntries
        <5>4. c = 0
          <6> HIDE DEF c, a, w
          <6> QED
            BY <1>3, <4>1, <5>2
        <5>5. Collecting(d)'
          <6>1. fromToken' = None /\ messagesCache' = messagesCache /\ more' = more
            BY <1>1, <4>1
          <6>2. UpTo(d)' + c = w + 1
            BY <1>3, <5>3, <5>4
          <6>3. w + 1 \in {Hidden', Hidden' + 1} /\ w + 1 <= Len(Written')
            BY <1>3, <1>6, <1>8, <2>2
          <6>4. 1 .. c = {}
            BY <5>4
          <6> QED
            BY <5>1, <6>1, <6>2, <6>3, <6>4 DEF Collecting
        <5> QED
          BY <1>1, <3>1, <3>4, <5>5 DEF LogsAsked
      <4> QED
        BY <4>2, <4>3
    <3> QED
      BY <3>1, <3>6, <3>7
  <2>7. (IF ops[1] = None THEN DatesAsked ELSE LogsAsked(ops[1]))'
    BY <1>1, <2>1, <2>5, <2>6
  <2> QED
    BY <1>1, <1>12, <1>17, <2>1, <2>4, <2>7 DEF FetchState
<1> QED
  BY <1>16, <1>17

\* A query that is answered is the only one.
LEMMA OnlyQuery ==
    ASSUME HistoryTypes, FetchState, NEW i \in DOMAIN ops
    PROVE  /\ i = 1 /\ ops # <<>> /\ Len(ops) = 1 /\ ~logsLoaded /\ DuringFetch
           /\ IF ops[i] = None THEN DatesAsked ELSE LogsAsked(ops[i])
           /\ OpsGood(ops, Len(log)) /\ Len(log) \in Nat
           /\ \A d \in 1 .. Len(log) :
                Len([ops EXCEPT ![1] = d]) = 1 /\ [ops EXCEPT ![1] = d][1] = d
           /\ RemoveAt(ops, 1) = <<>>
<1>1. OpsGood(ops, Len(log)) /\ ops \in Seq(Nat) /\ Len(log) \in Nat
  BY WhatWasSaid DEF HistoryTypes, OpsGood
<1>2. i \in 1 .. Len(ops) /\ Len(ops) \in Nat /\ Len(ops) <= 1
  BY <1>1, LenProperties DEF FetchState
<1>3. i = 1 /\ Len(ops) = 1
  <2> DEFINE k == Len(ops)
  <2>1. i \in 1 .. k /\ k \in Nat /\ k <= 1
    BY <1>2
  <2> HIDE DEF k
  <2>2. i = 1 /\ k = 1
    BY <2>1
  <2> QED
    BY <2>2 DEF k
<1>4. ops # <<>>
  BY <1>3
<1>5. ~logsLoaded /\ DuringFetch /\ IF ops[1] = None THEN DatesAsked ELSE LogsAsked(ops[1])
  BY <1>4 DEF FetchState
<1>6. 1 \in 1 .. Len(ops)
  BY <1>3
<1>7. \A d \in 1 .. Len(log) : Len([ops EXCEPT ![1] = d]) = 1 /\ [ops EXCEPT ![1] = d][1] = d
  BY <1>1, <1>3, <1>6, OpsSteps
<1>8. RemoveAt(ops, 1) \in Seq(Nat) /\ Len(RemoveAt(ops, 1)) = Len(ops) - 1
  BY <1>1, <1>6, OpsSteps DEF OpsGood
<1>9. RemoveAt(ops, 1) = <<>>
  <2>1. Len(RemoveAt(ops, 1)) = 0
    BY <1>3, <1>8
  <2> QED
    BY <1>8, <2>1, EmptySeq
<1> QED
  BY <1>1, <1>3, <1>4, <1>5, <1>7, <1>9

\* The last date is asked first: it ends what is written.
LEMMA DatesClean ==
    ASSUME HistoryTypes, CleanInv, NEW i, NEW failed \in BOOLEAN, onDatesFinished(i, failed)
    PROVE  CleanInv'
<1> SUFFICES ASSUME clean' PROVE RowsEndHistory' /\ FetchState'
  BY DEF CleanInv
<1> DEFINE n == Len(log)
           dates == [d \in 1 .. n |-> d]
<1>1. /\ i \in DOMAIN ops /\ ops[i] = None /\ clean' = (clean /\ ~failed)
      /\ UNCHANGED <<messagesCache, fromToken, length, log, unlogged, channel, more, unasked>>
  BY DEF onDatesFinished, chatVars, logVars, channelVars
<1>2. RowsEndHistory /\ FetchState /\ ~failed
  BY <1>1 DEF CleanInv
<1>3. /\ i = 1 /\ ~logsLoaded /\ DuringFetch /\ DatesAsked
      /\ \A d \in 1 .. n : Len([ops EXCEPT ![1] = d]) = 1 /\ [ops EXCEPT ![1] = d][1] = d
      /\ RemoveAt(ops, 1) = <<>>
  BY <1>1, <1>2, OnlyQuery
<1>4. /\ log \in LogDates /\ n \in Nat /\ Len(Written) \in Nat /\ messages \in Seq(Moments)
  BY WhatWasSaid
<1>5. Dates(failed) = dates
  <2>1. DOMAIN log = 1 .. n
    BY <1>4, LenProperties DEF LogDates
  <2> QED
    BY <1>2, <2>1 DEF Dates
<1>6. dates \in Seq(Nat) /\ Len(dates) = n /\ \A d \in 1 .. n : dates[d] = d
  <2>1. dates \in [1 .. n -> Nat]
    BY <1>4
  <2>2. \A d \in 1 .. n : dates[d] = d
    OBVIOUS
  <2> HIDE DEF dates, n
  <2>3. n \in Nat
    BY <1>4
  <2> QED
    BY <2>1, <2>2, <2>3, SeqOfItems
<1> HIDE DEF dates
<1>7. Written' = Written
  BY <1>1 DEF Written
<1>8. CASE dates = <<>>
  <2>1. Answer(i) /\ onHistoryFetched(<<>>) /\ UNCHANGED datesCache
    BY <1>5, <1>8 DEF onDatesFinished
  <2>2. ops' = <<>> /\ logsLoaded' /\ messages' = messages
    BY <1>3, <1>4, <2>1, NothingFetched DEF Answer, onHistoryFetched
  <2>3. n = 0
    BY <1>6, <1>8
  <2>4. Len(Written) = 0
    BY <1>4, <2>3, DatesInPlace DEF Written, AllEntries
  <2>5. Hidden = 0
    BY <1>2, <2>4, HiddenKnown
  <2>6. Said' = Said /\ Hidden' = Hidden
    BY <1>1, <1>7, <2>2 DEF Said, Hidden
  <2>7. RowsEndHistory'
    BY <1>2, <1>7, <2>2, <2>6 DEF RowsEndHistory
  <2>8. EnoughOf(Asked)' /\ FirstRowLogged'
    BY <2>5, <2>6 DEF EnoughOf, FirstRowLogged
  <2>9. messagesCache' = <<>> /\ Len(ops') <= 1
    BY <1>1, <1>3, <2>2 DEF DatesAsked
  <2> QED
    BY <2>2, <2>7, <2>8, <2>9 DEF FetchState
<1>9. CASE dates # <<>>
  <2>1. /\ datesCache' = Front(dates) /\ ops' = [ops EXCEPT ![i] = Last(dates)]
        /\ UNCHANGED <<messages, logsLoaded>>
    BY <1>5, <1>9 DEF onDatesFinished
  <2>2. /\ Last(dates) = n /\ n \in Nat \ {0} /\ Len(Front(dates)) = n - 1
        /\ \A d \in 1 .. n - 1 : Front(dates)[d] = d
    <3>1. DatesGood(dates, n)
      BY <1>6 DEF DatesGood
    <3>2. /\ Last(dates) = dates[Len(dates)] /\ Len(dates) \in Nat \ {0}
          /\ Len(Front(dates)) = Len(dates) - 1
          /\ \A d \in 1 .. Len(dates) - 1 : Front(dates)[d] = dates[d]
      BY <1>4, <1>9, <3>1, DatesSteps
    <3>3. n \in Nat \ {0} /\ n \in 1 .. n /\ \A d \in 1 .. n - 1 : d \in 1 .. n
      BY <1>4, <1>6, <3>2
    <3> QED
      BY <1>6, <3>2, <3>3
  <2>3. n \in 1 .. n
    BY <2>2
  <2>4. Len(ops') = 1 /\ ops'[1] = n
    BY <1>3, <2>1, <2>2, <2>3
  <2>5. ops' # <<>> /\ ops'[1] # None
    <3>1. ops' # <<>>
      BY <2>4
    <3>2. n # None
      BY <2>2 DEF None
    <3> QED
      BY <2>4, <3>1, <3>2
  <2>6. Said' = Said /\ Hidden' = Hidden /\ AskedBefore' = AskedBefore /\ UpTo(n) = Len(Written)
    BY <1>1, <1>7, <2>1 DEF Said, Hidden, AskedBefore, Asked, UpTo, Written, AllEntries
  <2>7. RowsEndHistory'
    BY <1>2, <1>7, <2>1, <2>6 DEF RowsEndHistory
  <2>8. DuringFetch'
    BY <1>1, <1>3, <1>7, <2>1, <2>6 DEF DuringFetch, OnlyFirstLogged, FirstRowLogged, EnoughOf
  <2>9. Searching(n) \/ Collecting(n)
    <3>1. messagesCache = <<>> /\ Len(messagesCache) = 0 /\ more \in Nat
      BY <1>3 DEF DatesAsked, HistoryTypes
    <3>2. CASE more = 0
      <4>1. fromToken = None /\ Len(Written) \in {Hidden, Hidden + 1}
        BY <1>3, <3>2 DEF DatesAsked, DuringFetch, OnlyFirstLogged
      <4>2. UpTo(n) + Len(messagesCache) = Len(Written)
        BY <1>4, <2>6, <3>1
      <4> QED
        BY <1>4, <3>1, <3>2, <4>1, <4>2 DEF Collecting
    <3>3. CASE more # 0
      <4>1. more > 0 /\ messages # <<>> /\ fromToken = messages[1] /\ FirstRowLogged
        BY <1>3, <3>1, <3>3 DEF DatesAsked, DuringFetch
      <4> QED
        BY <2>6, <3>1, <4>1 DEF Searching, FirstRowLogged
    <3> QED
      BY <3>2, <3>3
  <2>10. Searching(n)' \/ Collecting(n)'
    <3>1. UNCHANGED <<log, more, messages, fromToken, messagesCache, Hidden, Written, unasked>>
      BY <1>1, <1>7, <2>1, <2>6
    <3>2. (Searching(n)' <=> Searching(n)) /\ (Collecting(n)' <=> Collecting(n))
      BY <3>1 DEF Searching, Collecting, UpTo
    <3> QED
      BY <2>9, <3>2
  <2>11. LogsAsked(n)'
    <3>1. Len(datesCache') = n - 1 /\ n \in 1 .. Len(log')
      BY <1>1, <2>1, <2>2, <2>3
    <3>2. \A d \in 1 .. n - 1 : datesCache'[d] = d
      BY <2>1, <2>2
    <3> QED
      BY <1>1, <2>10, <3>1, <3>2 DEF LogsAsked
  <2>12. (IF ops[1] = None THEN DatesAsked ELSE LogsAsked(ops[1]))'
    BY <1>1, <2>4, <2>5, <2>11
  <2>13. Len(ops') <= 1 /\ ~logsLoaded'
    <3>1. ~logsLoaded'
      BY <1>3, <2>1
    <3>2. Len(ops') <= 1
      BY <2>4
    <3> QED
      BY <3>1, <3>2
  <2> QED
    BY <2>5, <2>7, <2>8, <2>12, <2>13 DEF FetchState
<1> QED
  BY <1>8, <1>9

\* What is found of a date, with what was found of later ones: nothing as long as the
\* first row is not, or what was written between the dates before and the first row.
NotFound(logs, d) ==
    /\ Before(logs) \o messagesCache = <<>> /\ TokenAfter(logs) = fromToken
    /\ more > 0 /\ messages # <<>> /\ fromToken = messages[1]
    /\ unasked \/ Hidden = 0 \/ Hidden < UpTo(d - 1)

FoundUpTo(logs, d, e) ==
    /\ e \in {Hidden, Hidden + 1} /\ UpTo(d - 1) <= e /\ e <= Len(Written)
    /\ Between(Before(logs) \o messagesCache, Written, UpTo(d - 1), e)
    /\ TokenAfter(logs) = None
    /\ more > 0 => e = Hidden /\ d - 1 < Len(log)

\* Where the messages of a date are in the log.
LEMMA DateInPlace ==
    ASSUME HistoryTypes, NEW d \in 1 .. Len(log)
    PROVE  /\ log[d] \in Seq(Moments) /\ Len(log[d]) \in Nat /\ DOMAIN log[d] = 1 .. Len(log[d])
           /\ UpTo(d - 1) \in Nat /\ UpTo(d) = UpTo(d - 1) + Len(log[d])
           /\ UpTo(d) <= Len(Written) /\ (d = 1 => UpTo(d - 1) = 0)
           /\ \A i \in 1 .. Len(log[d]) : Written[UpTo(d - 1) + i] = log[d][i]
<1>1. log \in LogDates /\ Len(log) \in Nat
  BY WhatWasSaid
<1>2. d \in 0 .. Len(log) /\ d - 1 \in 0 .. Len(log)
  BY <1>1
<1>3. /\ log[d] \in Seq(Moments) /\ Len(log[d]) \in Nat
      /\ Len(Entries(log)[d]) = Len(Entries(log)[d - 1]) + Len(log[d])
  BY <1>1, DatesInPlace
<1>4. /\ Len(Entries(log)[d - 1]) \in Nat /\ Len(Entries(log)[0]) = 0
      /\ Len(Entries(log)[d]) <= Len(AllEntries(log))
  BY <1>1, <1>2, DatesInPlace
<1>5. \A i \in 1 .. Len(log[d]) : AllEntries(log)[Len(Entries(log)[d - 1]) + i] = log[d][i]
  BY <1>1, DatesInPlace
<1>6. d = 1 => d - 1 = 0
  OBVIOUS
<1>7. DOMAIN log[d] = 1 .. Len(log[d])
  BY <1>3, LenProperties
<1> QED
  BY <1>3, <1>4, <1>5, <1>6, <1>7 DEF UpTo, Written

\* What is found with the logs of one date more.
LEMMA FoundSoFar ==
    ASSUME HistoryTypes, RowsEndHistory, NEW d, LogsAsked(d)
    PROVE  NotFound(log[d], d) \/ \E e : FoundUpTo(log[d], d, e)
<1> DEFINE logs == log[d]
           a == UpTo(d - 1)
           b == UpTo(d)
           l == Len(logs)
           h == Hidden
           w == Len(Written)
           c == Len(messagesCache)
<1>1. d \in 1 .. Len(log) /\ (Searching(d) \/ Collecting(d)) /\ Len(log) \in Nat
  BY WhatWasSaid DEF LogsAsked
<1>2. /\ logs \in Seq(Moments) /\ l \in Nat /\ DOMAIN logs = 1 .. l
      /\ a \in Nat /\ b = a + l /\ b <= w
      /\ \A i \in 1 .. l : Written[a + i] = logs[i]
  BY <1>1, DateInPlace
<1>3. /\ w \in Nat /\ Len(Said) \in Nat /\ w <= Len(Said)
      /\ \A i \in 1 .. w : Said[i] = Written[i]
  <2>1. /\ w \in Nat /\ Len(unlogged) \in Nat /\ Len(Said) = w + Len(unlogged)
        /\ \A i \in 1 .. w : Said[i] = Written[i]
    BY WhatWasSaid
  <2> DEFINE u == Len(unlogged)
  <2>2. w \in Nat /\ u \in Nat /\ Len(Said) = w + u
    BY <2>1
  <2> HIDE DEF w, u
  <2>3. Len(Said) \in Nat /\ w <= Len(Said)
    BY <2>2
  <2> QED
    BY <2>1, <2>3
<1>4. /\ h \in Nat /\ h <= w
      /\ messages # <<>> => h + 1 \in 1 .. Len(Said) /\ messages[1] = Said[h + 1]
      /\ \A i, j \in 1 .. Len(Said) : Said[i] = Said[j] => i = j
  BY HiddenKnown
<1>5. messagesCache \in Seq(Moments) /\ c \in Nat
  BY LenProperties DEF HistoryTypes
<1> HIDE DEF logs, a, b, l, h, w, c
<1>6. ASSUME NEW i \in 1 .. l
      PROVE  a + i \in 1 .. Len(Said) /\ a + i \in a + 1 .. b /\ logs[i] = Said[a + i]
  <2>1. a + i \in 1 .. w /\ a + i \in 1 .. Len(Said) /\ a + i \in a + 1 .. b
    BY <1>2, <1>3
  <2> QED
    BY <1>2, <1>3, <2>1
<1>7. CASE Searching(d)
  <2>1. /\ more > 0 /\ messages # <<>> /\ fromToken = messages[1] /\ messagesCache = <<>>
        /\ unasked \/ h = 0 \/ h < b
        /\ fromToken = Said[h + 1] /\ h + 1 \in 1 .. Len(Said)
    BY <1>4, <1>7 DEF Searching, h, b
  <2>2. fromToken # None
    <3>1. Said \in Seq(Moments)
      BY WhatWasSaid
    <3>2. Said[h + 1] \in Moments
      BY <2>1, <3>1, ElementOfSeq
    <3> QED
      BY <2>1, <3>2 DEF Moments
  <2>3. ASSUME NEW i \in 1 .. l, logs[i] = fromToken PROVE a + i = h + 1
    BY <1>4, <1>6, <2>1, <2>3
  <2>4. Before(logs) \in Seq(Moments)
    BY <1>2, BeforeItems
  <2>5. Before(logs) \o messagesCache = Before(logs)
    BY <2>1, <2>4, ConcatEmptySeq
  <2>6. CASE h + 1 \in a + 1 .. b
    <3> DEFINE p == (h + 1) - a
    <3>1. p \in 1 .. l /\ a + p = h + 1 /\ a <= h /\ p - 1 = h - a
      <4>1. a \in Nat /\ l \in Nat /\ h \in Nat /\ b = a + l
        BY <1>2, <1>4
      <4> QED
        BY <2>6, <4>1
    <3> HIDE DEF p
    <3>2. logs[p] = fromToken
      BY <1>6, <2>1, <3>1
    <3>3. \A j \in 1 .. p - 1 : logs[j] # fromToken
      <4> SUFFICES ASSUME NEW j \in 1 .. p - 1, logs[j] = fromToken PROVE FALSE
        OBVIOUS
      <4>1. j \in 1 .. l /\ a + j # h + 1
        BY <1>2, <1>4, <3>1
      <4> QED
        BY <2>3, <4>1
    <3>4. fromToken \in ToSet(logs) /\ Before(logs) = SubSeq(logs, 1, p - 1)
      BY <1>2, <2>2, <3>1, <3>2, <3>3, BeforeItems DEF l
    <3> DEFINE m == p - 1
    <3>5. m \in Nat /\ m <= l /\ m = h - a
      BY <1>2, <3>1
    <3>6. Before(logs) = SubSeq(logs, 1, m)
      BY <3>4
    <3> HIDE DEF m
    <3>7. Len(Before(logs)) = m /\ \A i \in 1 .. m : Before(logs)[i] = logs[i]
      <4>1. \A i \in 1 .. m : logs[i] \in Moments
        BY <1>2, <3>5, ElementOfSeq DEF l
      <4>2. Len(SubSeq(logs, 1, m)) = m /\ \A i \in 1 .. m : SubSeq(logs, 1, m)[i] = logs[i]
        BY <3>5, <4>1, SubSeqProperties
      <4> QED
        BY <3>6, <4>2
    <3>8. \A i \in 1 .. m : Before(logs)[i] = Written[a + i]
      <4>1. \A i \in 1 .. m : i \in 1 .. l
        BY <1>2, <3>5
      <4> QED
        BY <1>2, <3>7, <4>1
    <3>9. Between(Before(logs), Written, a, h)
      BY <2>4, <3>5, <3>7, <3>8 DEF Between
    <3>10. TokenAfter(logs) = None
      BY <3>4 DEF TokenAfter
    <3>11. d - 1 < Len(log)
      BY <1>1
    <3>12. FoundUpTo(logs, d, h)
      BY <1>4, <2>5, <3>1, <3>9, <3>10, <3>11 DEF FoundUpTo, a, h, w
    <3> QED
      BY <3>12 DEF logs
  <2>7. CASE h + 1 \notin a + 1 .. b
    <3>1. fromToken \notin ToSet(logs)
      <4> SUFFICES ASSUME fromToken \in ToSet(logs) PROVE FALSE
        OBVIOUS
      <4>1. PICK i \in 1 .. l : logs[i] = fromToken
        BY <1>2 DEF ToSet
      <4> QED
        BY <1>6, <2>3, <2>7, <4>1
    <3>2. Before(logs) = <<>> /\ TokenAfter(logs) = fromToken
      BY <1>2, <2>2, <3>1, BeforeItems DEF TokenAfter
    <3>3. unasked \/ h = 0 \/ h < a
      BY <1>2, <1>4, <2>1, <2>7
    <3> QED
      BY <2>1, <2>5, <3>2, <3>3 DEF NotFound, logs, a, h
  <2> QED
    BY <2>6, <2>7
<1>8. CASE Collecting(d)
  <2> DEFINE e == b + c
             all == logs \o messagesCache
  <2>1. /\ fromToken = None /\ e \in {h, h + 1} /\ e <= w
        /\ more > 0 => e = h /\ d < Len(log)
        /\ \A i \in 1 .. c : messagesCache[i] = Written[b + i]
    BY <1>8 DEF Collecting, b, c, h, w
  <2>2. Before(logs) = logs /\ TokenAfter(logs) = None
    BY <1>2, <2>1, BeforeItems DEF TokenAfter
  <2>3. /\ all \in Seq(Moments) /\ Len(all) = l + c
        /\ \A i \in 1 .. l + c : all[i] = IF i <= l THEN logs[i] ELSE messagesCache[i - l]
    <3> DEFINE q == messagesCache
    <3>1. q \in Seq(Moments) /\ logs \in Seq(Moments)
      BY <1>2, <1>5
    <3> HIDE DEF q
    <3>2. /\ logs \o q \in Seq(Moments) /\ Len(logs \o q) = Len(logs) + Len(q)
          /\ \A i \in 1 .. Len(logs) + Len(q) :
               (logs \o q)[i] = IF i <= Len(logs) THEN logs[i] ELSE q[i - Len(logs)]
      BY <3>1, ConcatProperties
    <3> QED
      BY <3>2 DEF q, l, c
  <2>4. e - a = l + c /\ a <= e /\ e \in Nat
    BY <1>2, <1>5
  <2> HIDE DEF all, e
  <2>5. ASSUME NEW i \in 1 .. l + c PROVE all[i] = Written[a + i]
    <3>1. CASE i <= l
      <4>1. i \in 1 .. l
        BY <3>1
      <4> QED
        BY <1>2, <2>3, <3>1, <4>1
    <3>2. CASE ~(i <= l)
      <4>1. i - l \in 1 .. c /\ b + (i - l) = a + i
        BY <1>2, <1>5, <3>2
      <4> QED
        BY <2>1, <2>3, <3>2, <4>1
    <3> QED
      BY <3>1, <3>2
  <2>6. Between(all, Written, a, e)
    BY <2>3, <2>4, <2>5 DEF Between
  <2>7. more > 0 => e = h /\ d - 1 < Len(log)
    BY <1>1, <2>1
  <2>8. FoundUpTo(logs, d, e)
    BY <2>1, <2>2, <2>4, <2>6, <2>7 DEF FoundUpTo, all, a, h, w
  <2> QED
    BY <2>8 DEF logs
<1> QED
  BY <1>1, <1>7, <1>8

\* The fetch ends: it asked for length messages, or there are no more.
LEMMA LastFetched ==
    ASSUME HistoryTypes, RowsEndHistory, FetchState, NEW d \in 1 .. Len(log), NEW e,
           DuringFetch, FoundUpTo(log[d], d, e),
           NEW all, all = Before(log[d]) \o messagesCache, Len(all) >= length \/ d = 1,
           onHistoryFetched(NotPending(LastOf(all, length))), NoneTaken(LastOf(all, length)),
           log' = log, unlogged' = unlogged, more' = more, unasked' = unasked
    PROVE  RowsEndHistory' /\ EnoughOf(Asked)' /\ FirstRowLogged'
<1> DEFINE a == UpTo(d - 1)
           h == Hidden
           w == Len(Written)
           l == Len(all)
           k == InFront(all, length)
           n == a + k
           ms == LastOf(all, length)
<1>1. /\ w \in Nat /\ Len(unlogged) \in Nat /\ Len(Said) = w + Len(unlogged) /\ Said \in Seq(Moments)
      /\ \A i \in 1 .. w : Said[i] = Written[i]
      /\ messages \in Seq(Moments)
  BY WhatWasSaid
<1>2. h \in Nat /\ h <= w /\ Len(messages) = Len(Said) - h /\ RowsEnd(Said, messages, h)
  BY HiddenKnown DEF RowsEndHistory
<1>3. a \in Nat /\ (d = 1 => a = 0) /\ length \in Nat \ {0}
  BY DateInPlace DEF HistoryTypes
<1>4. /\ e \in {h, h + 1} /\ a <= e /\ e <= w /\ all \in Seq(Moments) /\ l = e - a
      /\ \A i \in 1 .. l : all[i] = Written[a + i]
      /\ more > 0 => e = h
  BY DEF FoundUpTo, Between
<1> DEFINE z == length
<1>5. /\ ms \in Seq(Moments) /\ k \in 0 .. l /\ Len(ms) = l - k
      /\ \A i \in 1 .. l - k : ms[i] = all[k + i]
  BY <1>3, <1>4, LastOfItems
<1>6. k = IF l > z THEN l - z ELSE 0
  BY DEF InFront
<1> HIDE DEF a, h, w, l, k, ms, z
<1>7. n \in Nat /\ n <= h /\ n <= e /\ e - n = l - k
  <2>1. n \in Nat /\ n <= e /\ e - n = l - k /\ e \in Nat
    BY <1>2, <1>3, <1>4, <1>5
  <2>2. ASSUME e = h + 1 PROVE n <= h
    <3>1. l # 0
      <4>1. l = 0 => d = 1
        BY <1>3, <1>4 DEF l, z
      <4> QED
        BY <1>2, <1>3, <1>4, <2>2, <4>1
    <3>2. z \in Nat \ {0}
      BY <1>3 DEF z
    <3>3. l - k # 0
      BY <1>2, <1>3, <1>4, <1>6, <3>1, <3>2
    <3> QED
      BY <1>2, <1>5, <2>1, <2>2, <3>3
  <2> QED
    BY <1>2, <1>4, <2>1, <2>2
<1>8. n = 0 \/ n = e - z
  <2>1. z \in Nat \ {0} /\ (l >= z \/ d = 1)
    BY <1>3 DEF z, l
  <2> QED
    BY <1>2, <1>3, <1>4, <1>6, <2>1
<1>9. Between(ms, Said, n, e)
  <2>1. ASSUME NEW i \in 1 .. l - k PROVE ms[i] = Said[n + i]
    <3>1. k \in Int /\ l \in Int /\ a \in Nat /\ a + l = e /\ e <= w /\ e \in Nat /\ w \in Nat
      BY <1>1, <1>2, <1>3, <1>4, <1>5
    <3>2. k >= 0 /\ i \in Nat /\ 1 <= i /\ i <= l - k
      BY <1>5, <2>1
    <3>3. k + i \in 1 .. l /\ a + (k + i) = n + i /\ n + i \in 1 .. w
      <4> HIDE DEF a, k, l, w
      <4> QED
        BY <3>1, <3>2
    <3>4. ms[i] = all[k + i] /\ all[k + i] = Written[a + (k + i)] /\ Said[n + i] = Written[n + i]
      BY <1>1, <1>4, <1>5, <2>1, <3>3
    <3> QED
      BY <3>3, <3>4
  <2> HIDE DEF n
  <2> QED
    BY <1>5, <1>7, <2>1 DEF Between
<1>10. queue \subseteq Chatted
  BY DEF HistoryTypes, Chatted
<1> HIDE DEF n
<1> DEFINE s == Said
<1>11. /\ s \in Seq(Moments) /\ e <= Len(s) /\ e \in {h, h + 1} /\ RowsEnd(s, messages, h)
       /\ Between(ms, s, n, e) /\ Len(s) \in Nat /\ w <= Len(s)
  <2>1. s \in Seq(Moments) /\ RowsEnd(s, messages, h) /\ Between(ms, s, n, e)
    BY <1>1, <1>2, <1>9
  <2>2. e <= Len(s) /\ e \in {h, h + 1} /\ Len(s) \in Nat /\ w <= Len(s)
    <3> DEFINE u == Len(unlogged)
    <3>1. Len(s) = w + u /\ u \in Nat
      BY <1>1
    <3> HIDE DEF s, u
    <3> QED
      BY <1>1, <1>2, <1>4, <3>1
  <2> QED
    BY <2>1, <2>2
<1>12. onHistoryFetched(NotPending(ms)) /\ NoneTaken(ms)
  BY DEF ms
<1> HIDE DEF s
<1>13. RowsEnd(s, messages', n)
  BY <1>1, <1>7, <1>10, <1>11, <1>12, FetchedEnd
<1>14. Said' = s /\ Written' = Written
  BY DEF Said, Written, s
<1>15. Len(messages') = Len(s) - n /\ Len(messages') \in Nat
  <2>1. Len(messages') = Len(s) - n /\ n \in 0 .. Len(s)
    BY <1>13 DEF RowsEnd
  <2> QED
    BY <1>11, <2>1
<1>16. Hidden' = n
  <2>1. Hidden' = Len(s) - Len(messages')
    BY <1>14 DEF Hidden
  <2> QED
    BY <1>7, <1>11, <1>15, <2>1
<1>17. RowsEndHistory'
  <2>1. n <= w
    <3>1. n \in Nat /\ n <= h /\ h \in Nat /\ h <= w /\ w \in Nat
      BY <1>1, <1>2, <1>7
    <3> QED
      BY <3>1
  <2> QED
    BY <1>13, <1>14, <1>16, <2>1 DEF RowsEndHistory, w
<1>18. FirstRowLogged'
  <2>1. n = 0 \/ n < w
    <3>1. z \in Nat \ {0}
      BY <1>3 DEF z
    <3> QED
      BY <1>1, <1>2, <1>4, <1>8, <3>1
  <2> QED
    BY <1>14, <1>16, <2>1 DEF FirstRowLogged, w
<1>19. EnoughOf(Asked)'
  <2> SUFFICES ASSUME n # 0, ~unasked PROVE Len(messages') >= Asked'
    BY <1>16 DEF EnoughOf
  <2>1. n = e - z /\ e \in Nat /\ z \in Nat \ {0}
    BY <1>2, <1>3, <1>4, <1>8 DEF z
  <2>2. Asked' = Asked /\ Asked \in Int /\ AskedBefore = Asked - z
    <3>1. ScrollbackLength \in Int /\ MoreLength \in Int /\ more \in Int
      BY Constants DEF HistoryTypes
    <3>2. more * MoreLength \in Int
      BY <3>1
    <3> QED
      BY <3>1, <3>2 DEF Asked, AskedBefore, z
  <2>3. CASE more = 0
    <3>1. z = ScrollbackLength
      BY <2>3 DEF DuringFetch, z
    <3>2. Asked = z
      <4>1. MoreLength \in Int /\ ScrollbackLength \in Int
        BY Constants
      <4>2. 0 * MoreLength = 0
        BY <4>1
      <4> QED
        BY <2>3, <3>1, <4>1, <4>2 DEF Asked
    <3>3. e <= Len(s)
      BY <1>11
    <3> QED
      BY <1>11, <1>15, <2>1, <2>2, <3>2, <3>3
  <2>4. CASE more # 0
    <3>1. more > 0 /\ EnoughOf(AskedBefore)
      BY <2>4 DEF DuringFetch, HistoryTypes
    <3>2. e = h /\ h # 0
      BY <1>4, <1>7, <2>1, <3>1
    <3>3. Len(messages) >= Asked - z
      BY <2>2, <3>1, <3>2 DEF EnoughOf, h
    <3>4. Len(messages) = Len(s) - h
      BY <1>2 DEF s
    <3> DEFINE b == Len(messages)
               c == Len(messages')
               y == Asked
               q == Len(s)
    <3>5. b = q - h /\ b >= y - z /\ c = q - n /\ n = h - z /\ q \in Nat /\ y \in Int /\ h \in Nat
      BY <1>2, <1>11, <1>15, <2>1, <2>2, <3>2, <3>3, <3>4
    <3> HIDE DEF b, c, y, q
    <3>6. c >= y
      BY <2>1, <3>5
    <3> QED
      BY <2>2, <3>6 DEF c, y
  <2> QED
    BY <2>3, <2>4
<1> QED
  BY <1>17, <1>18, <1>19

\* Nothing was found at the end only when there is nothing before the first row.
LEMMA NoneFetched ==
    ASSUME HistoryTypes, RowsEndHistory, NEW d \in 1 .. Len(log), NotFound(log[d], d), d = 1,
           onHistoryFetched(NotPending(LastOf(Before(log[d]) \o messagesCache, length))),
           log' = log, unlogged' = unlogged, unasked' = unasked
    PROVE  RowsEndHistory' /\ EnoughOf(Asked)' /\ FirstRowLogged'
<1>1. unasked \/ Hidden = 0
  <2>1. UpTo(d - 1) = 0
    BY DateInPlace
  <2>2. Hidden \in Nat
    BY HiddenKnown
  <2> QED
    BY <2>1, <2>2 DEF NotFound
<1>2. LastOf(<<>>, length) = <<>>
  <2>1. /\ LastOf(<<>>, length) \in Seq(Moments)
        /\ Len(LastOf(<<>>, length)) = Len(<<>>) - InFront(<<>>, length)
        /\ InFront(<<>>, length) \in 0 .. Len(<<>>)
    <3>1. <<>> \in Seq(Moments) /\ length \in Nat
      BY DEF HistoryTypes
    <3> QED
      BY <3>1, LastOfItems
  <2>2. Len(LastOf(<<>>, length)) = 0
    BY <2>1
  <2> QED
    BY <2>1, <2>2, EmptySeq
<1>3. NotPending(<<>>) = <<>>
  <2>1. <<>> \in Seq(Moments) /\ \A i \in 1 .. Len(<<>>) : ~TakenFor(<<>>[i], queue)
    OBVIOUS
  <2> QED
    BY <2>1, NotPendingItems
<1>4. messages' = messages
  <2>1. onHistoryFetched(<<>>)
    BY <1>2, <1>3 DEF NotFound
  <2> QED
    BY <2>1, NothingFetched, WhatWasSaid
<1>5. Said' = Said /\ Written' = Written /\ Hidden' = Hidden
  BY <1>4 DEF Said, Written, Hidden
<1> QED
  BY <1>1, <1>4, <1>5 DEF RowsEndHistory, EnoughOf, FirstRowLogged

\* The logs of a date arrive: older ones are queried, or the fetch ends.
LEMMA EventsClean ==
    ASSUME HistoryTypes, CleanInv, NEW i, NEW failed \in BOOLEAN, onEventsFinished(i, failed)
    PROVE  CleanInv'
<1> SUFFICES ASSUME clean' PROVE RowsEndHistory' /\ FetchState'
  BY DEF CleanInv
<1> DEFINE d == ops[i]
           logs == log[d]
           all == Before(logs) \o messagesCache
           further == Len(all) < length /\ datesCache # <<>>
<1>1. /\ i \in DOMAIN ops /\ d # None /\ clean' = (clean /\ ~failed /\ mistaken' = mistaken)
      /\ UNCHANGED <<length, log, unlogged, channel, more, unasked>>
  BY DEF onEventsFinished, chatVars, logVars, channelVars
<1>2. RowsEndHistory /\ FetchState /\ ~failed /\ mistaken' = {}
  BY <1>1 DEF CleanInv, HistoryTypes
<1>3. /\ i = 1 /\ ~logsLoaded /\ DuringFetch /\ LogsAsked(d)
      /\ \A x \in 1 .. Len(log) : Len([ops EXCEPT ![1] = x]) = 1 /\ [ops EXCEPT ![1] = x][1] = x
      /\ RemoveAt(ops, 1) = <<>>
  BY <1>1, <1>2, OnlyQuery
<1>4. fromToken' = TokenAfter(logs)
  BY <1>2 DEF onEventsFinished, Logs
<1>5. further =>
        /\ messagesCache' = all /\ datesCache' = Front(datesCache)
        /\ ops' = [ops EXCEPT ![i] = Last(datesCache)]
        /\ UNCHANGED <<messages, logsLoaded>>
  BY <1>2 DEF onEventsFinished, Logs
<1>6. ~further =>
        /\ messagesCache' = <<>> /\ Answer(i) /\ onHistoryFetched(NotPending(LastOf(all, length)))
        /\ mistaken' = Mistaken(ToSet(LastOf(all, length)), queue)
  BY <1>2 DEF onEventsFinished, Logs
<1>7. /\ d \in 1 .. Len(log) /\ Len(datesCache) = d - 1 /\ Len(log) \in Nat
      /\ \A x \in 1 .. d - 1 : datesCache[x] = x
  BY <1>3, WhatWasSaid DEF LogsAsked
<1> HIDE DEF d
<1>8. NotFound(logs, d) \/ \E e : FoundUpTo(logs, d, e)
  BY <1>2, <1>3, FoundSoFar
<1>9. Written' = Written
  BY <1>1 DEF Written
<1>10. length \in Nat \ {0} /\ DatesGood(datesCache, Len(log))
  BY DEF HistoryTypes
<1>11. CASE ~further
  <2>a. all \in Seq(Moments)
    <3>1. NotFound(logs, d) => all = <<>>
      BY DEF NotFound
    <3>2. (\E e : FoundUpTo(logs, d, e)) => all \in Seq(Moments)
      BY DEF FoundUpTo, Between
    <3>3. <<>> \in Seq(Moments)
      OBVIOUS
    <3> HIDE DEF all, logs
    <3> QED
      BY <1>8, <3>1, <3>2, <3>3
  <2>b. NoneTaken(LastOf(all, length))
    <3> DEFINE last == LastOf(all, length)
    <3>1. mistaken' = Mistaken(ToSet(last), queue)
      BY <1>6, <1>11
    <3>2. last \in Seq(Moments)
      <4> DEFINE ll == all
      <4>1. ll \in Seq(Moments) /\ length \in Nat
        BY <1>10, <2>a
      <4> HIDE DEF ll
      <4>2. LastOf(ll, length) \in Seq(Moments)
        BY <4>1, LastOfItems
      <4> QED
        BY <4>2 DEF ll
    <3> HIDE DEF last
    <3>3. \A m \in ToSet(last) \ queue : ~TakenFor(m, queue)
      BY <1>2, <3>1 DEF Mistaken
    <3>4. \A k \in 1 .. Len(last) : last[k] \in ToSet(last)
      BY <3>2, LenProperties DEF ToSet
    <3>5. NoneTaken(last)
      BY <3>3, <3>4 DEF NoneTaken, TakenFor
    <3> QED
      BY <3>5 DEF last
  <2>1. Len(all) >= length \/ d = 1
    <3>1. CASE datesCache = <<>>
      <4>1. d - 1 = 0
        BY <1>7, <3>1
      <4> QED
        BY <1>7, <4>1
    <3>2. CASE ~(Len(all) < length)
      <4> HIDE DEF all
      <4>1. Len(all) \in Nat
        BY <2>a, LenProperties
      <4> QED
        BY <1>10, <3>2, <4>1
    <3> QED
      BY <1>11, <3>1, <3>2
  <2>2. onHistoryFetched(NotPending(LastOf(all, length))) /\ messagesCache' = <<>>
    BY <1>6, <1>11
  <2>3. RowsEndHistory' /\ EnoughOf(Asked)' /\ FirstRowLogged'
    <3>1. CASE NotFound(logs, d)
      <4>1. Len(all) = 0
        BY <3>1 DEF NotFound
      <4>2. d = 1
        <5> HIDE DEF all
        <5> QED
          BY <1>10, <2>1, <4>1
      <4> QED
        BY <1>1, <1>2, <1>7, <2>2, <3>1, <4>2, NoneFetched
    <3>2. CASE \E e : FoundUpTo(logs, d, e)
      <4>1. PICK e : FoundUpTo(logs, d, e)
        BY <3>2
      <4> DEFINE ll == all
      <4>2. ll = Before(log[d]) \o messagesCache /\ onHistoryFetched(NotPending(LastOf(ll, length)))
            /\ (Len(ll) >= length \/ d = 1) /\ NoneTaken(LastOf(ll, length))
        BY <2>1, <2>2, <2>b
      <4> HIDE DEF ll, further
      <4> QED
        BY <1>1, <1>2, <1>3, <1>7, <4>1, <4>2, LastFetched
    <3> QED
      BY <1>8, <3>1, <3>2
  <2>4. ops' = <<>> /\ logsLoaded'
    BY <1>3, <1>6, <1>11 DEF Answer, onHistoryFetched
  <2>5. Len(ops') <= 1
    BY <2>4
  <2> QED
    BY <2>2, <2>3, <2>4, <2>5 DEF FetchState
<1>12. CASE further
  <2>0. PICK n : n = d - 1
    OBVIOUS
  <2>1. /\ messagesCache' = all /\ datesCache' = Front(datesCache)
        /\ ops' = [ops EXCEPT ![i] = Last(datesCache)]
        /\ UNCHANGED <<messages, logsLoaded>>
    BY <1>5, <1>12
  <2>2. /\ datesCache # <<>> /\ Last(datesCache) = datesCache[n] /\ n \in Nat \ {0}
        /\ Len(Front(datesCache)) = n - 1
        /\ \A x \in 1 .. n - 1 : Front(datesCache)[x] = datesCache[x]
    <3>1. datesCache # <<>>
      BY <1>12
    <3>2. /\ Last(datesCache) = datesCache[Len(datesCache)] /\ Len(datesCache) \in Nat \ {0}
          /\ Len(Front(datesCache)) = Len(datesCache) - 1
          /\ \A x \in 1 .. Len(datesCache) - 1 : Front(datesCache)[x] = datesCache[x]
      BY <1>7, <1>10, <3>1, DatesSteps
    <3> QED
      BY <1>7, <2>0, <3>1, <3>2
  <2>3. n \in 1 .. Len(log) /\ Last(datesCache) = n
    <3>1. n \in 1 .. d - 1 /\ n \in 1 .. Len(log)
      BY <1>7, <2>0, <2>2
    <3> QED
      BY <1>7, <2>0, <2>2, <3>1
  <2>4. \A x \in 1 .. n - 1 : Front(datesCache)[x] = x
    <3>1. \A x \in 1 .. n - 1 : x \in 1 .. d - 1
      BY <1>7, <2>0, <2>2
    <3> QED
      BY <1>7, <2>0, <2>2, <3>1
  <2>5. Len(ops') = 1 /\ ops'[1] = n
    BY <1>3, <2>1, <2>3
  <2>6. ops' # <<>> /\ n # None
    <3>1. ops' # <<>>
      BY <2>5
    <3>2. n # None
      BY <2>2 DEF None
    <3> QED
      BY <3>1, <3>2
  <2>7. Said' = Said /\ Hidden' = Hidden /\ AskedBefore' = AskedBefore /\ UpTo(n)' = UpTo(n)
    BY <1>1, <1>9, <2>1 DEF Said, Hidden, AskedBefore, Asked, UpTo
  <2>8. RowsEndHistory'
    BY <1>2, <1>9, <2>1, <2>7 DEF RowsEndHistory
  <2>9. DuringFetch'
    BY <1>1, <1>3, <1>9, <2>1, <2>7 DEF DuringFetch, OnlyFirstLogged, FirstRowLogged, EnoughOf
  <2>10. Searching(n)' \/ Collecting(n)'
    <3>1. CASE NotFound(logs, d)
      <4>1. /\ messagesCache' = <<>> /\ fromToken' = fromToken /\ more > 0 /\ messages # <<>>
            /\ fromToken = messages[1] /\ (unasked \/ Hidden = 0 \/ Hidden < UpTo(n))
        BY <1>4, <2>0, <2>1, <3>1 DEF NotFound
      <4> QED
        BY <1>1, <2>1, <2>7, <4>1 DEF Searching
    <3>2. CASE \E e : FoundUpTo(logs, d, e)
      <4>1. PICK e : FoundUpTo(logs, d, e)
        BY <3>2
      <4> DEFINE a == UpTo(n)
                 c == Len(messagesCache')
      <4>2. /\ e \in {Hidden, Hidden + 1} /\ a <= e /\ e <= Len(Written)
            /\ fromToken' = None /\ c = e - a
            /\ \A x \in 1 .. c : messagesCache'[x] = Written[a + x]
            /\ more > 0 => e = Hidden /\ n < Len(log)
        BY <1>4, <2>0, <2>1, <4>1 DEF FoundUpTo, Between
      <4>3. a \in Nat /\ Hidden \in Nat
        BY <1>2, <1>7, <2>0, DateInPlace, HiddenKnown
      <4> HIDE DEF a, c
      <4>4. a + c = e
        BY <4>2, <4>3
      <4>5. Collecting(n)'
        BY <1>1, <1>9, <2>7, <4>2, <4>4 DEF Collecting, a, c
      <4> QED
        BY <4>5
    <3> QED
      BY <1>8, <3>1, <3>2
  <2>11. LogsAsked(n)'
    <3>1. Len(datesCache') = n - 1 /\ n \in 1 .. Len(log')
      BY <1>1, <2>1, <2>2, <2>3
    <3>2. \A x \in 1 .. n - 1 : datesCache'[x] = x
      BY <2>1, <2>4
    <3> QED
      BY <2>10, <3>1, <3>2 DEF LogsAsked
  <2>12. (IF ops[1] = None THEN DatesAsked ELSE LogsAsked(ops[1]))'
    BY <2>5, <2>6, <2>11
  <2>13. Len(ops') <= 1 /\ ~logsLoaded'
    <3>1. ~logsLoaded'
      BY <1>3, <2>1
    <3>2. Len(ops') <= 1
      BY <2>5
    <3> QED
      BY <3>1, <3>2
  <2> QED
    BY <2>6, <2>8, <2>9, <2>12, <2>13 DEF FetchState
<1> QED
  BY <1>11, <1>12

\* What a delivery report, a change of the visibility or the end of a pending message does
\* not touch.
LEMMA OthersClean ==
    ASSUME CleanInv, UNCHANGED <<chatVars, logVars, messages, logsLoaded, fetchVars, more, clean, channel>>
    PROVE  CleanInv'
  BY CleanSame DEF chatVars, logVars, fetchVars

\* At first there is nothing but the log.
LEMMA CleanBegins == HistoryInit => HistoryInv
<1> SUFFICES ASSUME HistoryInit PROVE HistoryInv
  OBVIOUS
<1>1. /\ log \in OldLogs /\ unlogged = <<>> /\ messages = <<>> /\ channel = 0 /\ ops = <<>>
      /\ logsLoaded = FALSE /\ datesCache = <<>> /\ messagesCache = <<>>
      /\ length = ScrollbackLength /\ more = 0
  BY DEF HistoryInit
<1>2. HistoryTypes
  BY TypesBegin
<1>3. /\ InOrder(Written) /\ \A x \in ToSet(Written), m \in Chatted : x < m
      /\ Written \in Seq(Moments) /\ Len(Written) \in Nat
  BY <1>1, <1>2, Constants, WhatWasSaid DEF Written
<1>4. Said = Written
  BY <1>1, <1>3, ConcatEmptySeq DEF Said
<1>5. Hidden = Len(Written)
  <2>1. Len(messages) = 0
    BY <1>1
  <2> DEFINE n == Len(Written)
  <2>2. n - 0 = n
    BY <1>3
  <2> HIDE DEF n
  <2> QED
    BY <1>4, <2>1, <2>2 DEF Hidden, n
<1>6. RowsEndHistory
  <2> DEFINE n == Len(Written)
             s == Written
  <2>1. n \in Nat /\ n \in 0 .. n /\ n - n = 0 /\ n <= n /\ s \in Seq(Moments) /\ n = Len(s)
    BY <1>3
  <2>2. \A i \in 1 .. n, m \in Chatted : s[i] < m
    <3> TAKE i \in 1 .. n, m \in Chatted
    <3> HIDE DEF s, n
    <3>1. s[i] \in ToSet(s)
      BY <2>1 DEF ToSet
    <3> QED
      BY <1>3, <3>1 DEF s
  <2>3. Len(<<>>) = 0 /\ \A i \in 1 .. 0 : FALSE
    OBVIOUS
  <2> HIDE DEF n
  <2>4. Len(<<>>) = n - n
    BY <2>1, <2>3
  <2>5. \A i \in 1 .. Len(<<>>) : FALSE
    BY <2>3
  <2> HIDE DEF s
  <2>6. RowsEnd(s, <<>>, n)
    BY <1>3, <2>1, <2>2, <2>4, <2>5 DEF RowsEnd, s
  <2> QED
    BY <1>1, <1>4, <1>5, <2>1, <2>6 DEF RowsEndHistory, s, n
<1>7. FetchState
  BY <1>1, <1>5 DEF FetchState, NothingYet
<1> QED
  BY <1>2, <1>6, <1>7 DEF HistoryInv, CleanInv

\* Each step keeps the invariant.
LEMMA HistoryStep == HistoryInv /\ [HistoryNext]_historyVars => HistoryInv'
<1> SUFFICES ASSUME HistoryTypes, CleanInv, [HistoryNext]_historyVars PROVE HistoryTypes' /\ CleanInv'
  BY DEF HistoryInv
<1>1. Failures \subseteq BOOLEAN
  BY HistoryAssumption
<1>2. ASSUME NEW i \in DOMAIN ops, NEW failed \in Failures, onDatesFinished(i, failed)
      PROVE  HistoryTypes' /\ CleanInv'
  BY <1>1, <1>2, QueriesTyped, DatesClean
<1>3. ASSUME NEW i \in DOMAIN ops, NEW failed \in Failures, onEventsFinished(i, failed)
      PROVE  HistoryTypes' /\ CleanInv'
  BY <1>1, <1>3, EventsTyped, EventsClean
<1>4. ASSUME NEW named \in BOOLEAN, setContactData(named) PROVE HistoryTypes' /\ CleanInv'
  BY <1>4, ContactDataTyped, ContactDataClean
<1>5. ASSUME NEW K \in SUBSET Incoming, NEW timed \in BOOLEAN, setTextChannel(K, timed)
      PROVE  HistoryTypes' /\ CleanInv'
  BY <1>5, ChannelTyped, ChannelClean
<1>6. ASSUME NEW m \in Incoming, NEW timed \in BOOLEAN, onMessageReceived(m, timed)
      PROVE  HistoryTypes' /\ CleanInv'
  BY <1>6, ReceivedTyped, ReceivedClean
<1>7. ASSUME NEW m \in Outgoing, NEW s \in DeliveryStatuses, onDeliveryReport(m, s)
      PROVE  HistoryTypes' /\ CleanInv'
  <2>1. CleanInv'
    BY <1>7, OthersClean DEF onDeliveryReport, channelVars
  <2> QED
    BY <1>7, <2>1, ReportTyped
<1>8. ASSUME NEW m \in Outgoing, NEW known \in BOOLEAN, onMessageSent(m, known)
      PROVE  HistoryTypes' /\ CleanInv'
  BY <1>8, SentTyped, SentClean
<1>9. ASSUME NEW v \in BOOLEAN, setVisibleToUser(v) PROVE HistoryTypes' /\ CleanInv'
  <2>1. CleanInv'
    BY <1>9, OthersClean DEF setVisibleToUser, rowVars
  <2> QED
    BY <1>9, <2>1, VisibleTyped
<1>10. CASE fetchMoreHistory
  BY <1>10, FetchMoreTyped, FetchMoreClean
<1>11. ASSUME NEW m \in Incoming, PendingMessageRemoved(m) PROVE HistoryTypes' /\ CleanInv'
  <2>1. CleanInv'
    BY <1>11, OthersClean DEF PendingMessageRemoved, rowVars
  <2> QED
    BY <1>11, <2>1, RemovedTyped
<1>12. CASE Logged
  BY <1>12, LoggedTyped, LoggedClean
<1>13. CASE UNCHANGED historyVars
  <2>1. CleanInv'
    BY <1>13, OthersClean DEF historyVars, channelVars, rowVars
  <2> QED
    BY <1>13, <2>1, TypesStutter
<1> QED
  BY <1>2, <1>3, <1>4, <1>5, <1>6, <1>7, <1>8, <1>9, <1>10, <1>11, <1>12, <1>13 DEF HistoryNext

\* What the invariant says of what is shown.
LEMMA RowsInOrder == ASSUME HistoryTypes, RowsEndHistory PROVE InOrder(messages)
<1> DEFINE h == Hidden
           n == Len(Said)
           b == Len(messages)
<1>1. /\ h \in Nat /\ n \in Nat /\ b \in Nat /\ b = n - h /\ InOrder(Said)
      /\ \A i \in 1 .. b : messages[i] = Said[h + i]
      /\ DOMAIN messages = 1 .. b /\ DOMAIN Said = 1 .. n
  BY WhatWasSaid, HiddenKnown, LenProperties DEF RowsEndHistory, RowsEnd
<1> HIDE DEF h, n, b
<1>2. \A i \in 1 .. b : h + i \in 1 .. n
  BY <1>1
<1>3. \A i, j \in 1 .. b : i < j => h + i < h + j
  BY <1>1
<1> QED
  BY <1>1, <1>2, <1>3 DEF InOrder

\* A fetch that ended has brought what it asked for.
LEMMA FetchedEnough ==
    ASSUME HistoryTypes, RowsEndHistory, FetchState, logsLoaded, ~unasked PROVE FetchIsComplete
<1> DEFINE w == Len(Written)
           b == Len(messages)
           a == Asked
           S == {a, w}
<1>1. w \in Nat /\ b \in Nat /\ Len(Said) = w + Len(unlogged) /\ Len(unlogged) \in Nat
  BY WhatWasSaid
<1>2. Hidden = 0 \/ b >= a
  BY DEF FetchState, EnoughOf
<1>3. b = Len(Said) - Hidden /\ Hidden \in Nat
  BY HiddenKnown
<1>4. a \in Nat
  <2>1. ScrollbackLength \in Nat /\ MoreLength \in Nat /\ more \in Nat
    BY Constants DEF HistoryTypes
  <2>2. more * MoreLength \in Nat
    BY <2>1
  <2> QED
    BY <2>1, <2>2 DEF Asked
<1> HIDE DEF w, b, a
<1>5. Min(S) \in S /\ \A y \in S : Min(S) <= y
  BY <1>1, <1>4, LeastOf
<1>6. Min(S) \in Nat /\ Min(S) <= a /\ Min(S) <= w
  BY <1>1, <1>4, <1>5
<1> HIDE DEF S
<1>7. b >= Min(S)
  <2>1. CASE Hidden = 0
    BY <1>1, <1>3, <1>6, <2>1
  <2>2. CASE b >= a
    BY <1>1, <1>4, <1>6, <2>2
  <2> QED
    BY <1>2, <2>1, <2>2
<1> QED
  BY <1>7 DEF FetchIsComplete, S, a, w, b, Asked, Written

\* The invariant implies the property.
LEMMA HistoryKept == HistoryInv => HistoryIntact
<1> SUFFICES ASSUME HistoryTypes, CleanInv PROVE HistoryIntact
  BY DEF HistoryInv
<1>1. ReportsFindTheirRow
  BY RowTypes DEF HistoryTypes, ReportsFindTheirRow
<1>2. NothingLost
  BY DEF HistoryTypes, NothingLost
<1>3. ShownInOrder
  BY RowsInOrder DEF CleanInv, ShownInOrder
<1>4. FetchIsComplete
  BY FetchedEnough DEF CleanInv, FetchIsComplete
<1> QED
  BY <1>1, <1>2, <1>3, <1>4 DEF HistoryIntact

\* A conversation shows all that its channel delivered, but for messages without a token
\* that are taken for others, and, unless something went wrong, all that was asked for of
\* what was written before, in order, each message with what was reported of it.
THEOREM HistoryStaysIntact == HistorySpec => []HistoryIntact
<1>1. HistoryInit => HistoryInv
  BY CleanBegins
<1>2. HistoryInv /\ [HistoryNext]_historyVars => HistoryInv'
  BY HistoryStep
<1>3. HistoryInv => HistoryIntact
  BY HistoryKept
<1> QED
  BY <1>1, <1>2, <1>3, PTL DEF HistorySpec

-----------------------------------------------------------------------------
(* How many items of a sequence are in a set.                              *)

HowMany(s, S) == Cardinality({i \in DOMAIN s : s[i] \in S})

\* Places that move keep their number.
LEMMA Moved ==
    ASSUME NEW I \in SUBSET Nat, IsFiniteSet(I), NEW n \in Nat
    PROVE  LET J == {i + n : i \in I}
           IN IsFiniteSet(J) /\ Cardinality(J) = Cardinality(I)
<1> DEFINE J == {i + n : i \in I}
           f == [i \in I |-> i + n]
<1>1. f \in Bijection(I, J)
  <2>1. f \in [I -> J] /\ \A j \in J : \E i \in I : f[i] = j
    OBVIOUS
  <2>2. \A i, j \in I : f[i] = f[j] => i = j
    OBVIOUS
  <2> HIDE DEF f, J
  <2> QED
    BY <2>1, <2>2 DEF Bijection, Injection, IsInjective, Surjection
<1> HIDE DEF f, J
<1>2. ExistsBijection(I, J)
  BY <1>1 DEF ExistsBijection
<1>3. IsFiniteSet(J) /\ Cardinality(J) = Cardinality(I)
  BY <1>2, FS_Bijection
<1> QED
  BY <1>3 DEF J

\* A number, 0 if there is none, and at most 1 if there is no second one.
LEMMA HowManyType ==
    ASSUME NEW A, NEW s \in Seq(A), NEW S
    PROVE  /\ HowMany(s, S) \in Nat /\ IsFiniteSet({i \in 1 .. Len(s) : s[i] \in S})
           /\ HowMany(s, S) = Cardinality({i \in 1 .. Len(s) : s[i] \in S})
           /\ HowMany(s, S) = 0 <=> ~Has(s, S)
           /\ Once(s, S) => HowMany(s, S) <= 1
<1> DEFINE n == Len(s)
           I == {i \in 1 .. n : s[i] \in S}
<1>1. n \in Nat /\ DOMAIN s = 1 .. n
  BY LenProperties
<1> HIDE DEF n
<1>2. IsFiniteSet(I) /\ Cardinality(I) \in Nat
  <2>1. IsFiniteSet(1 .. n)
    BY <1>1, FS_Interval
  <2> QED
    BY <2>1, FS_Subset, FS_CardinalityType
<1>3. HowMany(s, S) = Cardinality(I)
  BY <1>1 DEF HowMany
<1>4. Cardinality(I) = 0 <=> I = {}
  <2> HIDE DEF I
  <2> QED
    BY <1>2, FS_EmptySet
<1>5. I = {} <=> ~Has(s, S)
  BY DEF Has, n
<1>6. ASSUME Once(s, S) PROVE Cardinality(I) <= 1
  <2>1. CASE I = {}
    BY <1>2, <1>4, <2>1
  <2>2. CASE I # {}
    <3>1. PICK k \in I : TRUE
      BY <2>2
    <3>2. I = {k}
      BY <1>6, <3>1 DEF Once, n
    <3> HIDE DEF I
    <3>3. Cardinality(I) = 1
      BY <3>2, FS_Singleton
    <3> QED
      BY <3>3
  <2> QED
    BY <2>1, <2>2
<1> QED
  BY <1>2, <1>3, <1>4, <1>5, <1>6 DEF I, n

\* Those of sequences that are joined.
LEMMA HowManyConcat ==
    ASSUME NEW A, NEW s \in Seq(A), NEW t \in Seq(A), NEW S
    PROVE  s \o t \in Seq(A) /\ HowMany(s \o t, S) = HowMany(s, S) + HowMany(t, S)
<1> DEFINE n == Len(s)
           m == Len(t)
           u == s \o t
           I == {i \in 1 .. n : s[i] \in S}
           J == {i \in 1 .. m : t[i] \in S}
           K == {i + n : i \in J}
<1>1. /\ n \in Nat /\ m \in Nat /\ u \in Seq(A) /\ Len(u) = n + m
      /\ \A i \in 1 .. n + m : u[i] = IF i <= n THEN s[i] ELSE t[i - n]
  BY LenProperties, ConcatProperties
<1>2. /\ IsFiniteSet(I) /\ HowMany(s, S) = Cardinality(I) /\ IsFiniteSet(J)
      /\ HowMany(t, S) = Cardinality(J) /\ Cardinality(I) \in Nat /\ Cardinality(J) \in Nat
  BY HowManyType
<1>3. HowMany(u, S) = Cardinality({i \in 1 .. Len(u) : u[i] \in S})
  <2> HIDE DEF u
  <2> QED
    BY <1>1, HowManyType
<1> HIDE DEF n, m, u
<1>4. {i \in 1 .. n + m : u[i] \in S} = I \cup K
  <2>1. ASSUME NEW i \in 1 .. n + m, u[i] \in S PROVE i \in I \cup K
    <3>1. CASE i <= n
      <4>1. i \in 1 .. n /\ u[i] = s[i]
        BY <1>1, <3>1
      <4>2. i \in I
        BY <2>1, <4>1
      <4> HIDE DEF I, K
      <4> QED
        BY <4>2
    <3>2. CASE ~(i <= n)
      <4>1. i - n \in 1 .. m /\ i = (i - n) + n /\ u[i] = t[i - n]
        BY <1>1, <3>2
      <4> DEFINE j == i - n
      <4>2. j \in J
        BY <2>1, <4>1
      <4>3. i = j + n
        BY <4>1
      <4> HIDE DEF j, J
      <4> QED
        BY <4>2, <4>3
    <3> QED
      BY <3>1, <3>2
  <2>2. ASSUME NEW i \in I PROVE i \in 1 .. n + m /\ u[i] \in S
    BY <1>1
  <2>3. ASSUME NEW j \in J PROVE j + n \in 1 .. n + m /\ u[j + n] \in S
    <3>1. j + n \in 1 .. n + m /\ ~(j + n <= n) /\ (j + n) - n = j
      BY <1>1
    <3> QED
      BY <1>1, <3>1
  <2> QED
    BY <2>1, <2>2, <2>3
<1>5. I \cap K = {}
  BY <1>1
<1>6. IsFiniteSet(K) /\ Cardinality(K) = Cardinality(J)
  <2>1. J \in SUBSET Nat
    OBVIOUS
  <2> HIDE DEF J
  <2> QED
    BY <1>1, <1>2, <2>1, Moved
<1> HIDE DEF I, K
<1>7. Cardinality(I \cup K) = Cardinality(I) + Cardinality(K)
  <2>1. Cardinality(I \cup K) = Cardinality(I) + Cardinality(K) - Cardinality({})
    BY <1>2, <1>5, <1>6, FS_Union
  <2>2. Cardinality({}) = 0
    BY FS_EmptySet
  <2> QED
    BY <1>2, <1>6, <2>1, <2>2
<1> QED
  BY <1>1, <1>2, <1>3, <1>4, <1>6, <1>7 DEF u, n, m

\* One item.
LEMMA HowManyOne ==
    ASSUME NEW x, NEW S PROVE HowMany(<<x>>, S) = IF x \in S THEN 1 ELSE 0
<1>1. DOMAIN <<x>> = {1} /\ <<x>>[1] = x
  OBVIOUS
<1>2. CASE x \in S
  <2>1. {i \in DOMAIN <<x>> : <<x>>[i] \in S} = {1}
    BY <1>1, <1>2
  <2> QED
    BY <1>2, <2>1, FS_Singleton DEF HowMany
<1>3. CASE x \notin S
  <2>1. {i \in DOMAIN <<x>> : <<x>>[i] \in S} = {}
    BY <1>1, <1>3
  <2> QED
    BY <1>3, <2>1, FS_EmptySet DEF HowMany
<1> QED
  BY <1>2, <1>3

\* An item that is appended counts.
LEMMA HowManyAppend ==
    ASSUME NEW A, NEW s \in Seq(A), NEW x \in A, NEW S
    PROVE  /\ Append(s, x) \in Seq(A)
           /\ HowMany(Append(s, x), S) = HowMany(s, S) + (IF x \in S THEN 1 ELSE 0)
<1>1. <<x>> \in Seq(A) /\ Append(s, x) = s \o <<x>>
  BY AppendIsConcat
<1> DEFINE t == <<x>>
<1>2. t \in Seq(A) /\ Append(s, x) = s \o t
  BY <1>1
<1>3. HowMany(t, S) = IF x \in S THEN 1 ELSE 0
  BY HowManyOne
<1> HIDE DEF t
<1>4. s \o t \in Seq(A) /\ HowMany(s \o t, S) = HowMany(s, S) + HowMany(t, S)
  BY <1>2, HowManyConcat
<1> QED
  BY <1>2, <1>3, <1>4

\* An item that is removed counts no more.
LEMMA HowManyRemoved ==
    ASSUME NEW A, NEW s \in Seq(A), NEW i \in 1 .. Len(s), NEW S
    PROVE  /\ RemoveAt(s, i) \in Seq(A)
           /\ HowMany(s, S) = HowMany(RemoveAt(s, i), S) + (IF s[i] \in S THEN 1 ELSE 0)
           /\ Range(RemoveAt(s, i)) \subseteq Range(s)
<1> DEFINE n == Len(s)
           a == SubSeq(s, 1, i - 1)
           b == SubSeq(s, i + 1, n)
           x == s[i]
           t == <<x>>
<1>1. n \in Nat /\ DOMAIN s = 1 .. n /\ \A j \in 1 .. n : s[j] \in A
  BY LenProperties
<1>2. a \in Seq(A)
  <2>1. i - 1 \in Int /\ \A j \in 1 .. i - 1 : s[j] \in A
    BY <1>1
  <2> QED
    BY <2>1, SubSeqProperties
<1>3. b \in Seq(A)
  <2>1. i + 1 \in Int /\ n \in Int /\ \A j \in i + 1 .. n : s[j] \in A
    BY <1>1
  <2> QED
    BY <2>1, SubSeqProperties
<1>4. x \in A /\ t \in Seq(A)
  BY <1>1
<1>5. s = (a \o t) \o b
  <2>1. SubSeq(s, 1, n) = s
    BY SubSeqFull
  <2>2. 1 \in 1 .. n + 1 /\ i \in 0 .. n /\ n \in i .. n /\ 1 \in 1 .. n /\ i \in 1 .. n
    BY <1>1
  <2>3. SubSeq(s, 1, i) \o b = SubSeq(s, 1, n)
    BY <2>2, ConcatAdjacentSubSeq
  <2>4. SubSeq(s, 1, i) = a \o t
    BY <2>2, SubSeqRecursiveSecond
  <2> HIDE DEF a, b, t, n
  <2> QED
    BY <2>1, <2>3, <2>4
<1>6. RemoveAt(s, i) = a \o b
  BY DEF RemoveAt
<1>7. HowMany(t, S) = IF x \in S THEN 1 ELSE 0
  BY HowManyOne
<1> HIDE DEF a, b, x, t, n
<1> DEFINE c == a \o t
<1>8. c \in Seq(A) /\ HowMany(c, S) = HowMany(a, S) + HowMany(t, S)
  BY <1>2, <1>4, HowManyConcat
<1>9. a \o b \in Seq(A) /\ HowMany(a \o b, S) = HowMany(a, S) + HowMany(b, S)
  BY <1>2, <1>3, HowManyConcat
<1> HIDE DEF c
<1>10. HowMany(c \o b, S) = HowMany(c, S) + HowMany(b, S) /\ s = c \o b
  <2>1. HowMany(c \o b, S) = HowMany(c, S) + HowMany(b, S)
    BY <1>3, <1>8, HowManyConcat
  <2> QED
    BY <1>5, <2>1 DEF c
<1>11. HowMany(a, S) \in Nat /\ HowMany(b, S) \in Nat
  BY <1>2, <1>3, HowManyType
<1>12. HowMany(s, S) = HowMany(a \o b, S) + HowMany(t, S)
  BY <1>7, <1>8, <1>9, <1>10, <1>11
<1>13. Range(a \o b) \subseteq Range(s)
  <2>1. Range(c) = Range(a) \cup Range(t)
    BY <1>2, <1>4, RangeConcatenation DEF c
  <2>2. Range(c \o b) = Range(c) \cup Range(b)
    BY <1>3, <1>8, RangeConcatenation
  <2>3. Range(a \o b) = Range(a) \cup Range(b)
    BY <1>2, <1>3, RangeConcatenation
  <2> QED
    BY <1>10, <2>1, <2>2, <2>3
<1> QED
  BY <1>6, <1>7, <1>9, <1>12, <1>13 DEF x

\* An item that is replaced by one that counts as it did.
LEMMA HowManyChanged ==
    ASSUME NEW A, NEW s \in Seq(A), NEW i \in 1 .. Len(s), NEW x \in A, NEW S, s[i] \in S <=> x \in S
    PROVE  [s EXCEPT ![i] = x] \in Seq(A) /\ HowMany([s EXCEPT ![i] = x], S) = HowMany(s, S)
<1>1. [s EXCEPT ![i] = x] \in Seq(A)
  BY ExceptSeq
<1>2. DOMAIN [s EXCEPT ![i] = x] = DOMAIN s
  OBVIOUS
<1>3. \A j \in DOMAIN s : [s EXCEPT ![i] = x][j] \in S <=> s[j] \in S
  OBVIOUS
<1> QED
  BY <1>1, <1>2, <1>3 DEF HowMany

-----------------------------------------------------------------------------
(* Sequences of items that differ.                                         *)

\* The items of a sequence, by their places.
LEMMA RangeOf ==
    ASSUME NEW A, NEW s \in Seq(A)
    PROVE  /\ Range(s) = {s[i] : i \in 1 .. Len(s)} /\ Range(s) \subseteq A
           /\ IsInjective(s) <=> \A i, j \in 1 .. Len(s) : s[i] = s[j] => i = j
<1>1. DOMAIN s = 1 .. Len(s)
  BY LenProperties
<1>2. Range(s) \subseteq A
  BY RangeOfSeq
<1> QED
  BY <1>1, <1>2 DEF Range, IsInjective

\* An item is added if it is not there yet.
LEMMA AddedOnce ==
    ASSUME NEW A, NEW s \in Seq(A), IsInjective(s), NEW x \in A
    PROVE  LET t == IF x \in Range(s) THEN s ELSE Append(s, x)
           IN t \in Seq(A) /\ IsInjective(t) /\ Range(t) = Range(s) \cup {x}
<1>1. CASE x \in Range(s)
  BY <1>1
<1>2. CASE x \notin Range(s)
  <2> DEFINE t == Append(s, x)
             n == Len(s)
  <2>1. /\ t \in Seq(A) /\ Len(t) = n + 1 /\ t[n + 1] = x
        /\ \A i \in 1 .. n : t[i] = s[i]
    BY AppendProperties
  <2>2. n \in Nat
    BY LenProperties
  <2>3. /\ Range(s) = {s[i] : i \in 1 .. n}
        /\ \A i, j \in 1 .. n : s[i] = s[j] => i = j
    BY RangeOf
  <2> HIDE DEF t
  <2>4. /\ Range(t) = {t[i] : i \in 1 .. Len(t)}
        /\ IsInjective(t) <=> \A i, j \in 1 .. Len(t) : t[i] = t[j] => i = j
    BY <2>1, RangeOf
  <2> HIDE DEF n
  <2>5. \A i \in 1 .. n + 1 : i \in 1 .. n \/ i = n + 1
    BY <2>2
  <2>6. \A i \in 1 .. n : i \in 1 .. n + 1
    BY <2>2
  <2>7. n + 1 \in 1 .. n + 1
    BY <2>2
  <2>8. \A i, j \in 1 .. n + 1 : t[i] = t[j] => i = j
    BY <1>2, <2>1, <2>3, <2>5
  <2>9. Range(t) = Range(s) \cup {x}
    <3>1. ASSUME NEW y \in Range(t) PROVE y \in Range(s) \cup {x}
      BY <2>1, <2>3, <2>4, <2>5, <3>1
    <3>2. ASSUME NEW y \in Range(s) PROVE y \in Range(t)
      BY <2>1, <2>3, <2>4, <2>6, <3>2
    <3>3. x \in Range(t)
      BY <2>1, <2>4, <2>7
    <3> QED
      BY <3>1, <3>2, <3>3
  <2>10. IsInjective(t)
    BY <2>1, <2>4, <2>8
  <2> QED
    BY <1>2, <2>1, <2>9, <2>10 DEF t
<1> QED
  BY <1>1, <1>2

\* A list that items are added to has all, each once.
LEMMA JoinedItems ==
    ASSUME NEW A, NEW r \in Seq(A), IsInjective(r), NEW t \in Seq(A)
    PROVE  LET s == JoinedOnce(r, t)
           IN s \in Seq(A) /\ IsInjective(s) /\ Range(s) = Range(r) \cup Range(t)
<1> DEFINE n == Len(t)
           Lists == {s \in Seq(A) : IsInjective(s)}
           Added(i, s) == IF t[i] \in Range(s) THEN s ELSE Append(s, t[i])
           step == [x \in (1 .. n) \X Lists |-> Added(x[1], x[2])]
           def(g) == [i \in 0 .. Len(t) |-> IF i = 0 THEN r
                                            ELSE IF t[i] \in Range(g[i - 1]) THEN g[i - 1]
                                            ELSE Append(g[i - 1], t[i])]
<1>1. n \in Nat /\ DOMAIN t = 1 .. n /\ \A i \in 1 .. n : t[i] \in A
  BY LenProperties
<1>2. \A i \in 1 .. n, s \in Lists : Added(i, s) \in Lists /\ Range(Added(i, s)) = Range(s) \cup {t[i]}
  BY <1>1, AddedOnce
<1>3. step \in [(1 .. n) \X Lists -> Lists]
  BY <1>2
<1>4. \A i \in 1 .. n, s \in Lists : step[<<i, s>>] = Added(i, s)
  OBVIOUS
<1>5. r \in Lists
  OBVIOUS
<1> HIDE DEF step, n, Lists
<1>6. PICK g : StepByStep(g, Lists, r, n, step)
  BY <1>1, <1>3, <1>5, StepsExist
<1> USE DEF n
<1>7. /\ g \in [0 .. n -> Lists] /\ g[0] = r
      /\ \A i \in 1 .. n : g[i] = step[<<i, g[i - 1]>>]
  BY <1>6 DEF StepByStep
<1>8. \A i \in 1 .. n : i - 1 \in 0 .. n /\ i \in 0 .. n
  BY <1>1
<1>9. \A i \in 1 .. n : g[i] = Added(i, g[i - 1])
  BY <1>4, <1>7, <1>8
<1>10. g = def(g)
  <2>1. \A i \in 0 .. n : i = 0 \/ i \in 1 .. n
    BY <1>1
  <2>2. \A i \in 0 .. n : g[i] = def(g)[i]
    BY <1>7, <1>9, <2>1
  <2> QED
    BY <1>7, <2>2
<1> DEFINE k == CHOOSE f : f = def(f)
<1>11. JoinedOnce(r, t) = k[n]
  BY DEF JoinedOnce
<1>12. k = def(k)
  <2> HIDE DEF def
  <2> QED
    BY <1>10
<1>13. 0 \in 0 .. n /\ \A i \in 1 .. n : i \in 0 .. n /\ i # 0
  BY <1>1
<1> HIDE DEF k
<1>14. k[0] = def(k)[0] /\ \A i \in 1 .. n : k[i] = def(k)[i]
  BY <1>12
<1>15. k[0] = r /\ \A i \in 1 .. n : k[i] = Added(i, k[i - 1])
  BY <1>13, <1>14
<1> HIDE DEF n, Added
<1> DEFINE First(i) == {t[j] : j \in 1 .. i}
           Sum(i) == k[i] \in Lists /\ Range(k[i]) = Range(r) \cup First(i)
           S == {i \in Nat : i <= n => Sum(i)}
<1>16. 0 \in S
  <2>1. First(0) = {}
    OBVIOUS
  <2>2. Sum(0)
    BY <1>5, <1>15, <2>1
  <2> QED
    BY <2>2
<1> HIDE DEF Sum
<1>17. ASSUME NEW i \in Nat, i \in S PROVE i + 1 \in S
  <2> SUFFICES ASSUME i + 1 <= n PROVE Sum(i + 1)
    OBVIOUS
  <2>1. i + 1 \in 1 .. n /\ (i + 1) - 1 = i /\ i <= n
    BY <1>1
  <2>2. Sum(i)
    BY <1>17, <2>1
  <2>3. First(i + 1) = First(i) \cup {t[i + 1]}
    BY <1>1
  <2> HIDE DEF First
  <2>4. k[i + 1] = Added(i + 1, k[i])
    BY <1>15, <2>1
  <2> QED
    BY <1>2, <2>1, <2>2, <2>3, <2>4 DEF Sum
<1>18. \A i \in Nat : i \in S
  <2> HIDE DEF S
  <2> QED
    BY <1>16, <1>17, AllNumbers
<1>19. Sum(n)
  BY <1>1, <1>18
<1>20. Range(t) = First(n)
  BY RangeOf DEF n
<1> QED
  BY <1>11, <1>19, <1>20 DEF Sum, Lists

\* A sequence of a set's items, each once, and as many as there are.
LEMMA AllOnce ==
    ASSUME NEW S, NEW n \in Nat, IsFiniteSet(S), Cardinality(S) = n, NEW s \in [1 .. n -> S],
           IsInjective(s)
    PROVE  s \in Seq(S) /\ Len(s) = n /\ Range(s) = S
<1>1. s \in Seq(S) /\ Len(s) = n
  BY SeqOfItems
<1>2. IsFiniteSet(1 .. n) /\ Cardinality(1 .. n) = n
  BY FS_Interval
<1>3. s \in Injection(1 .. n, S)
  BY DEF Injection
<1>4. s \in Surjection(1 .. n, S)
  BY <1>2, <1>3, FS_Injection
<1>5. DOMAIN s = 1 .. n /\ \A x \in S : \E i \in 1 .. n : s[i] = x
  BY <1>4 DEF Surjection
<1> QED
  BY <1>1, <1>5 DEF Range

\* The items of a set, each once.
LEMMA SetInSequence ==
    ASSUME NEW S, IsFiniteSet(S)
    PROVE  SetToSeq(S) \in Seq(S) /\ IsInjective(SetToSeq(S)) /\ Range(SetToSeq(S)) = S
<1> DEFINE n == Cardinality(S)
           s == SetToSeq(S)
<1>1. n \in Nat /\ ExistsBijection(1 .. n, S)
  BY FS_CardinalityType
<1>2. PICK f : f \in Bijection(1 .. n, S)
  BY <1>1 DEF ExistsBijection
<1>3. f \in [1 .. n -> S] /\ IsInjective(f)
  BY <1>2 DEF Bijection, Injection
<1>4. s \in [1 .. n -> S] /\ IsInjective(s)
  BY <1>3 DEF SetToSeq
<1> HIDE DEF s
<1> QED
  BY <1>1, <1>4, AllOnce DEF s

\* Days in order.
LEMMA DaysInOrder ==
    ASSUME NEW S \in SUBSET Moments, IsFiniteSet(S)
    PROVE  /\ InOrderOfDays(S) \in Seq(S) /\ Range(InOrderOfDays(S)) = S
           /\ InOrder(InOrderOfDays(S)) /\ IsInjective(InOrderOfDays(S))
           /\ Len(InOrderOfDays(S)) = Cardinality(S)
<1> DEFINE s == InOrderOfTime(S)
<1>1. InOrderOfDays(S) = s
  BY DEF InOrderOfDays, InOrderOfTime, InOrder
<1>2. s \in Seq(Moments) /\ ToSet(s) = S /\ InOrder(s)
  BY OrderOfTime
<1> HIDE DEF s
<1>3. DOMAIN s = 1 .. Len(s) /\ Len(s) \in Nat /\ \A i \in 1 .. Len(s) : s[i] \in Nat
  BY <1>2, LenProperties DEF Moments
<1>4. \A i, j \in 1 .. Len(s) : s[i] = s[j] => i = j
  <2> SUFFICES ASSUME NEW i \in 1 .. Len(s), NEW j \in 1 .. Len(s), i # j PROVE s[i] # s[j]
    OBVIOUS
  <2>1. i < j \/ j < i
    BY <1>3
  <2>2. s[i] < s[j] \/ s[j] < s[i]
    BY <1>2, <1>3, <2>1 DEF InOrder
  <2> QED
    BY <1>3, <2>2
<1>5. Range(s) = S /\ IsInjective(s)
  BY <1>2, <1>3, <1>4 DEF ToSet, Range, IsInjective
<1>6. s \in Seq(S)
  BY <1>2, <1>5, SeqOfRange
<1>7. Len(s) = Cardinality(S)
  <2>1. s \in Bijection(1 .. Len(s), S)
    <3>1. s \in [1 .. Len(s) -> S]
      BY <1>6, LenProperties
    <3>2. \A x \in S : \E i \in 1 .. Len(s) : s[i] = x
      BY <1>3, <1>5 DEF Range
    <3> QED
      BY <1>5, <3>1, <3>2 DEF Bijection, Injection, Surjection
  <2>2. IsFiniteSet(1 .. Len(s)) /\ Cardinality(1 .. Len(s)) = Len(s)
    BY <1>3, FS_Interval
  <2>3. ExistsBijection(1 .. Len(s), S)
    BY <2>1 DEF ExistsBijection
  <2> QED
    BY <2>2, <2>3, FS_Bijection
<1> QED
  BY <1>1, <1>2, <1>5, <1>6, <1>7

\* How often an item is in a sequence: once if the items differ.
LEMMA TimesOf ==
    ASSUME NEW A, NEW s \in Seq(A)
    PROVE  /\ \A x : Times(s, x) = HowMany(s, {x}) /\ Times(s, x) \in Nat
           /\ \A x : x \in Range(s) <=> Times(s, x) # 0
           /\ IsInjective(s) <=> \A x \in Range(s) : Times(s, x) <= 1
           /\ IsInjective(s) => \A x : Times(s, x) = IF x \in Range(s) THEN 1 ELSE 0
<1> DEFINE n == Len(s)
           At(x) == {i \in 1 .. n : s[i] = x}
<1>1. DOMAIN s = 1 .. n /\ n \in Nat
  BY LenProperties
<1>2. \A x : Times(s, x) = Cardinality(At(x))
  BY <1>1 DEF Times
<1>3. \A x : Times(s, x) = HowMany(s, {x})
  <2> TAKE x
  <2>1. {i \in DOMAIN s : s[i] = x} = {i \in DOMAIN s : s[i] \in {x}}
    OBVIOUS
  <2> QED
    BY <2>1 DEF Times, HowMany
<1>4. \A x : Times(s, x) \in Nat
  <2> TAKE x
  <2>1. HowMany(s, {x}) \in Nat
    BY HowManyType
  <2> QED
    BY <1>3, <2>1
<1>5. \A x : IsFiniteSet(At(x))
  <2> TAKE x
  <2>1. IsFiniteSet(1 .. n)
    BY <1>1, FS_Interval
  <2>2. At(x) \in SUBSET (1 .. n)
    OBVIOUS
  <2> QED
    BY <2>1, <2>2, FS_Subset
<1>6. \A x : x \in Range(s) <=> At(x) # {}
  BY RangeOf
<1>7. IsInjective(s) <=> \A i, j \in 1 .. n : s[i] = s[j] => i = j
  BY RangeOf
<1> HIDE DEF n
<1>8. \A x : At(x) # {} <=> Cardinality(At(x)) # 0
  <2> HIDE DEF At
  <2> QED
    BY <1>5, FS_EmptySet
<1>9. ASSUME IsInjective(s), NEW x, x \in Range(s) PROVE Cardinality(At(x)) = 1
  <2>1. PICK i \in At(x) : TRUE
    BY <1>6, <1>9
  <2>2. At(x) = {i}
    BY <1>7, <1>9, <2>1
  <2> QED
    BY <2>2, FS_Singleton
<1>10. ASSUME \A x \in Range(s) : Cardinality(At(x)) <= 1 PROVE IsInjective(s)
  <2> SUFFICES ASSUME NEW i \in 1 .. n, NEW j \in 1 .. n, s[i] = s[j] PROVE i = j
    BY <1>7
  <2> DEFINE S == At(s[i])
  <2>1. i \in S /\ j \in S
    OBVIOUS
  <2>2. s[i] \in Range(s)
    BY <1>6, <2>1
  <2>3. IsFiniteSet(S) /\ Cardinality(S) \in Nat /\ Cardinality(S) <= 1 /\ Cardinality(S) # 0
    BY <1>2, <1>4, <1>5, <1>8, <1>10, <2>1, <2>2
  <2> HIDE DEF S
  <2>4. Cardinality(S) = 1
    BY <2>3
  <2>5. \E x : S = {x}
    BY <2>3, <2>4, FS_Singleton
  <2> QED
    BY <2>1, <2>5
<1> HIDE DEF At
<1>11. IsInjective(s) => \A x : Times(s, x) = IF x \in Range(s) THEN 1 ELSE 0
  BY <1>2, <1>4, <1>6, <1>8, <1>9
<1> QED
  BY <1>2, <1>3, <1>4, <1>6, <1>8, <1>10, <1>11

\* Sorting puts days that differ in order.
LEMMA SortedDays ==
    ASSUME NEW S \in SUBSET Moments, NEW s \in Seq(S), IsInjective(s)
    PROVE  /\ Sorted(s) \in Seq(S) /\ IsInjective(Sorted(s)) /\ Range(Sorted(s)) = Range(s)
           /\ InOrder(Sorted(s))
<1> DEFINE n == Len(s)
           R == Range(s)
           w == InOrderOfDays(R)
           t == Sorted(s)
           Like(u) == /\ \A x \in R : Times(u, x) = Times(s, x)
                      /\ \A i, j \in 1 .. n : i < j => u[i] <= u[j]
<1>1. n \in Nat /\ DOMAIN s = 1 .. n /\ s \in [1 .. n -> S]
  BY LenProperties
<1>2. R \in SUBSET S /\ s \in Seq(R)
  BY RangeOf, SeqOfRange
<1>3. IsFiniteSet(R) /\ Cardinality(R) = n
  <2>1. s \in [1 .. n -> R]
    BY <1>2, LenProperties
  <2>2. \A x \in R : \E i \in 1 .. n : s[i] = x
    BY <1>1 DEF Range
  <2>3. s \in Bijection(1 .. n, R)
    BY <2>1, <2>2 DEF Bijection, Injection, Surjection
  <2>4. ExistsBijection(1 .. n, R)
    BY <2>3 DEF ExistsBijection
  <2>5. IsFiniteSet(1 .. n) /\ Cardinality(1 .. n) = n
    BY <1>1, FS_Interval
  <2> HIDE DEF R, n
  <2> QED
    BY <2>4, <2>5, FS_Bijection
<1> HIDE DEF n, R
<1>4. \A x \in R : Times(s, x) = 1
  BY TimesOf DEF R
<1>5. w \in [1 .. n -> R] /\ Like(w)
  <2>1. w \in Seq(R) /\ Range(w) = R /\ InOrder(w) /\ IsInjective(w) /\ Len(w) = n
    BY <1>2, <1>3, DaysInOrder
  <2> HIDE DEF w
  <2>2. w \in [1 .. n -> R] /\ DOMAIN w = 1 .. n
    BY <2>1, LenProperties
  <2>3. \A x \in R : Times(w, x) = 1
    BY <2>1, TimesOf
  <2>4. \A i, j \in 1 .. n : i < j => w[i] <= w[j]
    <3> TAKE i, j \in 1 .. n
    <3>1. w[i] \in Nat /\ w[j] \in Nat
      BY <1>2, <2>2 DEF Moments
    <3>2. i < j => w[i] < w[j]
      BY <2>1, <2>2 DEF InOrder
    <3> QED
      BY <3>1, <3>2
  <2> QED
    BY <1>4, <2>2, <2>3, <2>4
<1>6. Sorted(s) = CHOOSE u \in [1 .. n -> R] : Like(u)
  BY <1>1 DEF Sorted, R
<1> HIDE DEF w
<1>7. t \in [1 .. n -> R] /\ Like(t)
  <2> HIDE DEF Like
  <2> QED
    BY <1>5, <1>6
<1> HIDE DEF t
<1>8. t \in Seq(R) /\ Len(t) = n /\ DOMAIN t = 1 .. n
  BY <1>1, <1>7, SeqOfItems
<1>9. Range(t) = R /\ IsInjective(t)
  <2>1. Range(t) \subseteq R
    BY <1>8, RangeOf
  <2>2. \A x \in R : Times(t, x) = 1
    BY <1>4, <1>7
  <2>3. R \subseteq Range(t)
    BY <1>8, <2>2, TimesOf
  <2>4. IsInjective(t)
    BY <1>8, <2>1, <2>2, TimesOf
  <2> QED
    BY <2>1, <2>3, <2>4
<1>10. InOrder(t)
  <2> SUFFICES ASSUME NEW i \in 1 .. n, NEW j \in 1 .. n, i < j PROVE t[i] < t[j]
    BY <1>8 DEF InOrder
  <2>1. t[i] \in Nat /\ t[j] \in Nat /\ t[i] <= t[j]
    BY <1>2, <1>7 DEF Moments
  <2>2. t[i] # t[j]
    BY <1>1, <1>8, <1>9 DEF IsInjective
  <2> QED
    BY <2>1, <2>2
<1>11. t \in Seq(S)
  BY <1>2, <1>8, SeqMonotonic
<1> QED
  BY <1>9, <1>10, <1>11 DEF t, R

-----------------------------------------------------------------------------
(* The last days.                                                          *)

\* A day is among the last ones if few are later.
LEMMA LastOfOrder ==
    ASSUME NEW S \in SUBSET Moments, NEW s \in Seq(S), InOrder(s), IsInjective(s)
    PROVE  /\ LastDays(s) \in Seq(S) /\ IsInjective(LastDays(s))
           /\ Range(LastDays(s)) \subseteq Range(s)
           /\ \A d \in Range(s) :
                d \in Range(LastDays(s)) <=>
                    Cardinality({x \in Range(s) : x > d}) < NumberOfLogs
<1> DEFINE n == Len(s)
           N == NumberOfLogs
           from == IF n <= N THEN 0 ELSE n - N
           t == LastDays(s)
<1>1. n \in Nat /\ DOMAIN s = 1 .. n /\ N \in Nat \ {0} /\ from \in 0 .. n
  <2>1. n \in Nat /\ DOMAIN s = 1 .. n /\ N \in Nat \ {0}
    BY LenProperties, QueriesAssumption
  <2> QED
    BY <2>1
<1>2. \A i \in 1 .. n : s[i] \in S /\ s[i] \in Nat
  BY LenProperties DEF Moments
<1>3. t \in Seq(S) /\ Len(t) = n - from /\ \A i \in 1 .. n - from : t[i] = s[i + from]
  <2>1. CASE n <= N
    <3>1. t = s /\ from = 0 /\ n - from = n /\ \A i \in 1 .. n : i + from = i
      BY <1>1, <2>1 DEF LastDays
    <3> HIDE DEF t, from
    <3> QED
      BY <3>1
  <2>2. CASE ~(n <= N)
    <3> DEFINE a == n - N + 1
    <3>1. t = SubSeq(s, a, n)
      BY <1>1, <2>2 DEF LastDays
    <3>2. a \in 1 .. n /\ n \in Int /\ a \in Int /\ n - a + 1 = n - from /\ a <= n
      BY <1>1, <2>2
    <3>3. \A i \in a .. n : s[i] \in S
      <4> HIDE DEF a
      <4>1. \A i \in a .. n : i \in 1 .. n
        BY <1>1, <3>2
      <4> QED
        BY <1>2, <4>1
    <3>4. \A i \in 1 .. n - from : a + i - 1 = i + from
      BY <1>1, <2>2
    <3> HIDE DEF a, n, t, from
    <3>5. /\ SubSeq(s, a, n) \in Seq(S) /\ Len(SubSeq(s, a, n)) = n - a + 1
          /\ \A i \in 1 .. n - a + 1 : SubSeq(s, a, n)[i] = s[a + i - 1]
      BY <3>2, <3>3, SubSeqProperties
    <3> QED
      BY <3>1, <3>2, <3>4, <3>5
  <2> QED
    BY <2>1, <2>2
<1>4. /\ Range(s) = {s[i] : i \in 1 .. n}
      /\ \A i, j \in 1 .. n : s[i] = s[j] => i = j
  BY RangeOf
<1>5. \A i, j \in 1 .. n : i < j => s[i] < s[j]
  BY <1>1 DEF InOrder
<1> HIDE DEF t
<1>6. /\ Range(t) = {t[i] : i \in 1 .. Len(t)}
      /\ IsInjective(t) <=> \A i, j \in 1 .. Len(t) : t[i] = t[j] => i = j
  BY <1>3, RangeOf
<1> HIDE DEF n
<1>7. \A i \in 1 .. n - from : i + from \in 1 .. n /\ i + from > from
  BY <1>1
<1>8. \A i \in 1 .. n : i > from => i - from \in 1 .. n - from /\ (i - from) + from = i
  BY <1>1
<1>9. \A i, j \in 1 .. n - from : i + from = j + from => i = j
  BY <1>1
<1>10. n - from <= N /\ \A i \in 1 .. n : i > from <=> n - i < N
  BY <1>1
<1> HIDE DEF from, N
<1>11. IsInjective(t) /\ Range(t) \subseteq Range(s)
  BY <1>3, <1>4, <1>6, <1>7, <1>9
<1>12. ASSUME NEW j \in 1 .. n PROVE s[j] \in Range(t) <=> j > from
  <2>1. ASSUME j > from PROVE s[j] \in Range(t)
    BY <1>3, <1>6, <1>8, <2>1
  <2>2. ASSUME s[j] \in Range(t) PROVE j > from
    <3>1. PICK i \in 1 .. n - from : s[j] = s[i + from]
      BY <1>3, <1>6, <2>2
    <3> QED
      BY <1>4, <1>7, <3>1
  <2> QED
    BY <2>1, <2>2
<1>13. ASSUME NEW j \in 1 .. n PROVE Cardinality({x \in Range(s) : x > s[j]}) = n - j
  <2> DEFINE L == {x \in Range(s) : x > s[j]}
             I == j + 1 .. n
             f == [i \in I |-> s[i]]
  <2>1. \A i \in 1 .. n : s[i] > s[j] <=> i > j
    <3> TAKE i \in 1 .. n
    <3>1. i > j \/ i = j \/ i < j
      BY <1>1
    <3>2. s[i] \in Nat /\ s[j] \in Nat
      BY <1>2
    <3>3. i > j => s[i] > s[j]
      BY <1>1, <1>5, <3>2
    <3>4. i < j => s[i] < s[j]
      BY <1>1, <1>5, <3>2
    <3> QED
      BY <1>1, <3>1, <3>2, <3>3, <3>4
  <2>2. \A i : i \in I <=> i \in 1 .. n /\ i > j
    BY <1>1
  <2> HIDE DEF I
  <2>3. \A i \in I : f[i] \in L
    BY <1>4, <2>1, <2>2
  <2>4. \A x \in L : \E i \in I : f[i] = x
    BY <1>4, <2>1, <2>2
  <2>5. \A i, k \in I : f[i] = f[k] => i = k
    BY <1>4, <2>2
  <2> HIDE DEF L
  <2>6. f \in Bijection(I, L)
    BY <2>3, <2>4, <2>5 DEF Bijection, Injection, Surjection, IsInjective
  <2>7. IsFiniteSet(I) /\ Cardinality(I) = n - j
    <3>1. j + 1 \in Int /\ n \in Int /\ (j + 1 > n => n - j = 0) /\ n - (j + 1) + 1 = n - j
      BY <1>1
    <3> QED
      BY <3>1, FS_Interval DEF I
  <2>8. ExistsBijection(I, L)
    BY <2>6 DEF ExistsBijection
  <2>9. Cardinality(L) = n - j
    BY <2>7, <2>8, FS_Bijection
  <2> QED
    BY <2>9 DEF L
<1>14. \A d \in Range(s) : d \in Range(t) <=> Cardinality({x \in Range(s) : x > d}) < N
  <2> TAKE d \in Range(s)
  <2>1. PICK j \in 1 .. n : d = s[j]
    BY <1>4
  <2> QED
    BY <1>10, <1>12, <1>13, <2>1
<1> QED
  BY <1>3, <1>11, <1>14 DEF t, N

\* One of the last days of all is among the last days of some, if it is one of them.
LEMMA LastOfSome ==
    ASSUME NEW U \in SUBSET Moments, IsFiniteSet(U), NEW s \in Seq(U), InOrder(s), IsInjective(s),
           NEW d \in Range(s), d \in Range(LastDays(InOrderOfDays(U)))
    PROVE  d \in Range(LastDays(s))
<1> DEFINE w == InOrderOfDays(U)
           L == {x \in U : x > d}
           K == {x \in Range(s) : x > d}
<1>1. w \in Seq(U) /\ Range(w) = U /\ InOrder(w) /\ IsInjective(w)
  BY DaysInOrder
<1>2. Range(s) \subseteq U
  BY RangeOf
<1> HIDE DEF w
<1>3. Cardinality(L) < NumberOfLogs
  BY <1>1, <1>2, LastOfOrder DEF w
<1>4. IsFiniteSet(L)
  BY FS_Subset
<1>5. K \in SUBSET L
  BY <1>2
<1>6. d \in Range(LastDays(s)) <=> Cardinality(K) < NumberOfLogs
  BY LastOfOrder
<1> HIDE DEF L, K
<1>7. /\ IsFiniteSet(K) /\ Cardinality(K) <= Cardinality(L)
      /\ Cardinality(K) \in Nat /\ Cardinality(L) \in Nat
  BY <1>4, <1>5, FS_Subset, FS_CardinalityType
<1> QED
  BY <1>3, <1>6, <1>7, QueriesAssumption

-----------------------------------------------------------------------------
(* The queries of the logs.                                                *)

\* The messages that plugins may have, the days with a contact, and what queries find.
LogEntries == {LogEntry(x[1], x[2]) : x \in LogContacts \X LogDays}

AllDays(c) == UNION {DaysOf(p, c) : p \in LogPlugins}

Found == LogDays \cup LogContacts \cup LogEntries

QueryRecords ==
    [kind : {"dates", "logs", "entities", "search"}, contact : LogContacts \cup {""},
     day : LogDays \cup {0}, result : Seq(Found), running : SUBSET LogPlugins,
     finishing : BOOLEAN]

\* What a query has so far: dates and entities once, and in the end dates in order; of
\* the logs of a day, its message.
GoodDates(q) ==
    /\ q.contact \in LogContacts /\ q.result \in Seq(LogDays) /\ IsInjective(q.result)
    /\ q.finishing => InOrder(q.result)

GoodLogs(q) ==
    /\ q.contact \in LogContacts /\ q.day \in LogDays /\ q.result \in Seq(LogEntries)
    /\ \A e \in Range(q.result) : e = LogEntry(q.contact, q.day)

GoodEntities(q) == q.result \in Seq(LogContacts) /\ IsInjective(q.result)

GoodHits(q) == q.result \in Seq(LogEntries)

GoodQueries ==
    {q \in QueryRecords :
        /\ q.finishing => q.running = {}
        /\ q.kind = "dates" => GoodDates(q)
        /\ q.kind = "logs" => GoodLogs(q)
        /\ q.kind = "entities" => GoodEntities(q)
        /\ q.kind = "search" => GoodHits(q)}

\* What the plugins that answered without failing have is among the results.
GatheredFrom(p, q) ==
    /\ q.kind = "dates" => DaysOf(p, q.contact) \subseteq Range(q.result)
    /\ q.kind = "entities" => {c \in LogContacts : database[p][c] # {}} \subseteq Range(q.result)

\* How many plugins outside S have an entry, and how many of these never failed.
Most(e, S) == Cardinality(Holding(e) \ S)
Least(e, S) == Cardinality((Holding(e) \ flawed) \ S)

\* The entries that a query looks for; plugins find them by themselves or by the contact.
Sought(q) ==
    {e \in LogEntries :
        q.kind = "search" \/ (q.kind = "logs" /\ e = LogEntry(q.contact, q.day))}
CanBeFound(e, q) == q.kind = "search" \/ e.contact \in Latin

\* An entry was counted once for each plugin that answered and has it.
Counted(q) ==
    \A e \in Sought(q) :
        /\ HowMany(q.result, {e}) <= Most(e, q.running)
        /\ CanBeFound(e, q) => HowMany(q.result, {e}) >= Least(e, q.running)

Gathered(q) ==
    /\ q.kind = "dates" => Range(q.result) \subseteq AllDays(q.contact)
    /\ \A p \in LogPlugins \ flawed : p \in q.running \/ GatheredFrom(p, q)
    /\ Counted(q)

\* Queries that will bring the entry e to the page, if plugins have it.
Bringing(e) ==
    {q \in GoodQueries :
        q.contact = e.contact /\ (q.kind = "dates" \/ (q.kind = "logs" /\ q.day = e.day))}

Asking(e) == HowMany(queries, Bringing(e))

\* How often a page must show an entry.
Wanted(e) ==
    /\ e.contact \in Latin
    /\ e.day \in Range(LastDays(InOrderOfDays(AllDays(e.contact))))
Owed(e) == IF Wanted(e) THEN Least(e, {}) ELSE 0

\* A number: of a times at least m and at most n.
Within(t, a, n, m) == a * m <= t /\ t <= a * n

QueryTypes ==
    /\ database \in [LogPlugins -> [LogContacts -> SUBSET LogDays]]
    /\ accountValid \in BOOLEAN /\ logsDisturbed \in BOOLEAN
    /\ ~logsDisturbed => accountValid
    /\ queries \in Seq(GoodQueries)
    /\ pageRows \in Seq(LogEntries) /\ opened \in Seq(LogContacts)
    /\ answered = NoAnswer \/ (answered \in GoodQueries /\ answered.running = {})

Awaited ==
    \A q \in Range(queries) : q.running = {} /\ ~q.finishing => ~accountValid

AllGathered ==
    ~logsDisturbed =>
        /\ \A q \in Range(queries) : Gathered(q)
        /\ answered # NoAnswer => Gathered(answered)

\* The pages whose queries have ended show each entry as often as they should.
PageFilled(e) ==
    /\ Asking(e) <= HowMany(opened, {e.contact})
    /\ Within(HowMany(pageRows, {e}), HowMany(opened, {e.contact}) - Asking(e),
              Most(e, {}), Owed(e))

PagesFilling == ~logsDisturbed => \A e \in LogEntries : PageFilled(e)

QueriesInv == QueryTypes /\ Awaited /\ AllGathered /\ PagesFilling

\* One time more.
LEMMA WithinMore ==
    ASSUME NEW t \in Nat, NEW a \in Nat, NEW n \in Nat, NEW m \in Nat, Within(t, a, n, m),
           NEW r \in Nat, m <= r, r <= n
    PROVE  Within(t + r, a + 1, n, m)
<1>1. a * m \in Int /\ a * n \in Int /\ (a + 1) * m = a * m + m /\ (a + 1) * n = a * n + n
  OBVIOUS
<1> QED
  BY <1>1 DEF Within

\* At least less.
LEMMA WithinLess ==
    ASSUME NEW t \in Nat, NEW a \in Nat, NEW n \in Nat, NEW m \in Nat, Within(t, a, n, m),
           NEW k \in Nat, k <= m
    PROVE  Within(t, a, n, k)
<1>1. a * m \in Int /\ a * n \in Int /\ a * k \in Int /\ a * k <= a * m
  <2> DEFINE d == m - k
  <2>1. d \in Nat /\ m = k + d
    OBVIOUS
  <2> HIDE DEF d
  <2>2. a * d \in Nat /\ a * (k + d) = a * k + a * d
    BY <2>1
  <2> QED
    BY <2>1, <2>2
<1> QED
  BY <1>1 DEF Within

\* At no time there is nothing.
LEMMA WithinNone == ASSUME NEW n \in Nat, NEW m \in Nat PROVE Within(0, 0, n, m)
  BY DEF Within

\* The numbers of plugins.
LEMMA PluginNumbers ==
    ASSUME NEW e
    PROVE  /\ Holding(e) \in SUBSET LogPlugins /\ IsFiniteSet(Holding(e))
           /\ \A S : Most(e, S) \in Nat /\ Least(e, S) \in Nat
           /\ Owed(e) \in Nat
<1>1. Holding(e) \in SUBSET LogPlugins
  BY DEF Holding
<1>2. IsFiniteSet(Holding(e))
  BY <1>1, QueriesAssumption, FS_Subset
<1>3. \A S : Most(e, S) \in Nat /\ Least(e, S) \in Nat
  <2> TAKE S
  <2> DEFINE H == Holding(e)
  <2> HIDE DEF H
  <2>1. IsFiniteSet(H \ S) /\ IsFiniteSet((H \ flawed) \ S)
    BY <1>2, FS_Subset DEF H
  <2> QED
    BY <2>1, FS_CardinalityType DEF Most, Least, H
<1> QED
  BY <1>1, <1>2, <1>3 DEF Owed

\* Of plugins that none is asked yet, none has answered.
LEMMA NoneAnswered ==
    ASSUME NEW e PROVE Most(e, LogPlugins) \in Nat /\ Least(e, LogPlugins) = 0
<1>1. Most(e, LogPlugins) \in Nat /\ Holding(e) \in SUBSET LogPlugins
  BY PluginNumbers
<1>2. (Holding(e) \ flawed) \ LogPlugins = {}
  BY <1>1
<1> QED
  BY <1>1, <1>2, FS_EmptySet DEF Least

\* The days of a contact are finitely many.
LEMMA DaysType ==
    ASSUME database \in [LogPlugins -> [LogContacts -> SUBSET LogDays]], NEW c \in LogContacts
    PROVE  /\ AllDays(c) \in SUBSET LogDays /\ AllDays(c) \in SUBSET Moments
           /\ IsFiniteSet(AllDays(c))
           /\ \A p \in LogPlugins : /\ DaysOf(p, c) \in SUBSET AllDays(c)
                                    /\ IsFiniteSet(DaysOf(p, c))
<1>1. \A p \in LogPlugins : DaysOf(p, c) \in SUBSET LogDays
  BY DEF DaysOf, toTplEntity
<1>2. AllDays(c) \in SUBSET LogDays
  BY <1>1 DEF AllDays
<1>3. LogDays \in SUBSET Moments /\ IsFiniteSet(LogDays)
  BY QueriesAssumption DEF Moments, None
<1>4. IsFiniteSet(AllDays(c)) /\ \A p \in LogPlugins : IsFiniteSet(DaysOf(p, c))
  BY <1>1, <1>2, <1>3, FS_Subset
<1>5. \A p \in LogPlugins : DaysOf(p, c) \in SUBSET AllDays(c)
  BY DEF AllDays
<1> QED
  BY <1>2, <1>3, <1>4, <1>5

\* What holds of no items.
LEMMA NoItems == IsInjective(<<>>) /\ Range(<<>>) = {} /\ InOrder(<<>>)
<1>1. DOMAIN <<>> = {}
  OBVIOUS
<1> QED
  BY <1>1 DEF IsInjective, Range, InOrder

\* In no items there are none.
LEMMA HowManyOfNone == \A S : HowMany(<<>>, S) = 0
  BY FS_EmptySet DEF HowMany

\* Nothing is counted before a plugin answered.
LEMMA NothingCounted ==
    ASSUME NEW q, \A e : HowMany(q.result, {e}) = 0,
           \A e : Most(e, q.running) \in Nat /\ Least(e, q.running) = 0
    PROVE  Counted(q)
  BY DEF Counted

\* A query that is asked.
LEMMA QueryAsked ==
    ASSUME QueryTypes, NEW q,
           \/ \E c \in LogContacts : q = queryDates(c)
           \/ \E c \in LogContacts, d \in LogDays : q = queryLogs(c, d)
           \/ q = queryEntities \/ q = search
    PROVE  /\ q \in GoodQueries /\ (q.running = {} /\ ~q.finishing => ~accountValid)
           /\ ~logsDisturbed => Gathered(q)
<1> DEFINE AskedAs(k, c, d, a) ==
             /\ k \in {"dates", "logs"} => c \in LogContacts
             /\ k = "logs" => d \in LogDays
             /\ q = [kind |-> k, contact |-> c, day |-> d, result |-> <<>>, running |-> a,
                     finishing |-> LogPlugins = {}]
<1>1. \E k \in {"dates", "logs", "entities", "search"}, c \in LogContacts \cup {""},
         d \in LogDays \cup {0}, a \in {Handling, LogPlugins} : AskedAs(k, c, d, a)
  <2>1. CASE \E c \in LogContacts : q = queryDates(c)
    <3>1. PICK c \in LogContacts : q = queryDates(c)
      BY <2>1
    <3>2. AskedAs("dates", c, 0, Handling)
      BY <3>1 DEF queryDates, Query
    <3> HIDE DEF AskedAs
    <3> QED
      BY <3>2
  <2>2. CASE \E c \in LogContacts, d \in LogDays : q = queryLogs(c, d)
    <3>1. PICK c \in LogContacts, d \in LogDays : q = queryLogs(c, d)
      BY <2>2
    <3>2. AskedAs("logs", c, d, Handling)
      BY <3>1 DEF queryLogs, Query
    <3> HIDE DEF AskedAs
    <3> QED
      BY <3>2
  <2>3. CASE q = queryEntities
    <3>1. AskedAs("entities", "", 0, Handling)
      BY <2>3 DEF queryEntities, Query
    <3> HIDE DEF AskedAs
    <3> QED
      BY <3>1
  <2>4. CASE q = search
    <3>1. AskedAs("search", "", 0, LogPlugins)
      BY <2>4 DEF search, Query
    <3> HIDE DEF AskedAs
    <3> QED
      BY <3>1
  <2> QED
    BY <2>1, <2>2, <2>3, <2>4
<1>2. PICK k \in {"dates", "logs", "entities", "search"}, c \in LogContacts \cup {""},
           d \in LogDays \cup {0}, a \in {Handling, LogPlugins} : AskedAs(k, c, d, a)
  BY <1>1
<1> DEFINE s == q.result
<1>3. /\ q.kind = k /\ q.contact = c /\ q.day = d /\ s = <<>> /\ q.running = a
      /\ q.finishing = (LogPlugins = {})
  BY <1>2
<1>4. a \in SUBSET LogPlugins /\ (a = {} => LogPlugins = {} \/ ~accountValid)
      /\ (accountValid => a = LogPlugins)
  BY DEF Handling, handlesAccount
<1> HIDE DEF s
<1>5. \A A : s \in Seq(A)
  BY <1>3, EmptySeq
<1>6. IsInjective(s) /\ Range(s) = {} /\ InOrder(s)
  BY <1>3, NoItems
<1>7. q \in QueryRecords
  <2>1. s \in Seq(Found)
    BY <1>5
  <2> QED
    BY <1>2, <1>3, <1>4, <2>1 DEF QueryRecords
<1>8. q \in GoodQueries
  <2>1. q.kind = "dates" => GoodDates(q)
    BY <1>2, <1>3, <1>5, <1>6 DEF GoodDates, s
  <2>2. q.kind = "logs" => GoodLogs(q)
    BY <1>2, <1>3, <1>5, <1>6 DEF GoodLogs, s
  <2>3. q.kind = "entities" => GoodEntities(q)
    BY <1>5, <1>6 DEF GoodEntities, s
  <2>4. q.finishing => q.running = {}
    BY <1>3, <1>4
  <2>5. q.kind = "search" => GoodHits(q)
    BY <1>5 DEF GoodHits, s
  <2> QED
    BY <1>7, <2>1, <2>2, <2>3, <2>4, <2>5 DEF GoodQueries
<1>9. ~logsDisturbed => Gathered(q)
  <2> SUFFICES ASSUME ~logsDisturbed PROVE Gathered(q)
    OBVIOUS
  <2>1. q.running = LogPlugins
    BY <1>3, <1>4 DEF QueryTypes
  <2>2. \A e : HowMany(q.result, {e}) = 0
    BY <1>3, HowManyOfNone DEF s
  <2>3. \A e : Most(e, q.running) \in Nat /\ Least(e, q.running) = 0
    BY <2>1, NoneAnswered
  <2>4. Counted(q)
    BY <2>2, <2>3, NothingCounted
  <2> QED
    BY <1>3, <1>6, <2>1, <2>4 DEF Gathered, s
<1> QED
  BY <1>3, <1>4, <1>8, <1>9

\* What stays if the logs stay.
LEMMA SameLogs ==
    ASSUME UNCHANGED database, flawed \subseteq flawed'
    PROVE  /\ \A q \in GoodQueries : Gathered(q) => Gathered(q)'
           /\ \A e : Holding(e)' = Holding(e) /\ Most(e, {})' = Most(e, {})
           /\ \A e : Owed(e)' \in Nat /\ Owed(e)' <= Owed(e)
           /\ \A e, S : Least(e, S)' \in Nat /\ Least(e, S)' <= Least(e, S)
<1>1. \A p, c : DaysOf(p, c)' = DaysOf(p, c)
  BY DEF DaysOf, toTplEntity
<1>2. \A c : AllDays(c)' = AllDays(c)
  BY <1>1 DEF AllDays
<1>3. \A p, q : GatheredFrom(p, q)' <=> GatheredFrom(p, q)
  BY <1>1 DEF GatheredFrom
<1>4. \A e : Holding(e)' = Holding(e)
  BY DEF Holding
<1>5. \A e, S : Most(e, S)' = Most(e, S)
  BY <1>4 DEF Most
<1>6. \A e, S : Least(e, S)' \in Nat /\ Least(e, S)' <= Least(e, S)
  <2> TAKE e, S
  <2> DEFINE A == (Holding(e) \ flawed) \ S
             B == (Holding(e) \ flawed') \ S
  <2>1. IsFiniteSet(A)
    BY PluginNumbers, FS_Subset
  <2>2. B \in SUBSET A
    OBVIOUS
  <2>3. Least(e, S) = Cardinality(A) /\ Least(e, S)' = Cardinality(B)
    BY <1>4 DEF Least
  <2> HIDE DEF A, B
  <2>4. IsFiniteSet(B) /\ Cardinality(B) <= Cardinality(A)
    BY <2>1, <2>2, FS_Subset
  <2>5. Cardinality(B) \in Nat
    BY <2>4, FS_CardinalityType
  <2> QED
    BY <2>3, <2>4, <2>5
<1>7. \A e : Wanted(e)' <=> Wanted(e)
  BY <1>2 DEF Wanted
<1>8. \A e : Owed(e)' \in Nat /\ Owed(e)' <= Owed(e)
  <2> TAKE e
  <2>1. Least(e, {})' \in Nat /\ Least(e, {})' <= Least(e, {})
    BY <1>6
  <2>2. CASE Wanted(e)
    BY <1>7, <2>1, <2>2 DEF Owed
  <2>3. CASE ~Wanted(e)
    BY <1>7, <2>3 DEF Owed
  <2> QED
    BY <2>2, <2>3
<1>9. ASSUME NEW q \in GoodQueries, Counted(q) PROVE Counted(q)'
  <2> SUFFICES ASSUME NEW e \in Sought(q)
               PROVE  /\ HowMany(q.result, {e}) <= Most(e, q.running)'
                      /\ CanBeFound(e, q) => HowMany(q.result, {e}) >= Least(e, q.running)'
    BY DEF Counted, Sought, CanBeFound
  <2> DEFINE h == HowMany(q.result, {e})
             l == Least(e, q.running)
  <2>1. h <= Most(e, q.running) /\ (CanBeFound(e, q) => h >= l)
    BY <1>9 DEF Counted
  <2>2. Most(e, q.running)' = Most(e, q.running) /\ l' \in Nat /\ l' <= l
    BY <1>5, <1>6
  <2>3. l \in Nat /\ h \in Nat
    <3>1. q.result \in Seq(Found)
      BY DEF GoodQueries, QueryRecords
    <3> QED
      BY <3>1, PluginNumbers, HowManyType
  <2>4. \A a, b, c \in Nat : a <= b /\ c >= b => c >= a
    OBVIOUS
  <2> HIDE DEF h, l
  <2>5. CanBeFound(e, q) => h >= l'
    BY <2>1, <2>2, <2>3, <2>4
  <2> QED
    BY <2>1, <2>2, <2>5 DEF h, l
<1>10. \A q \in GoodQueries : Gathered(q) => Gathered(q)'
  BY <1>2, <1>3, <1>9 DEF Gathered
<1> QED
  BY <1>4, <1>5, <1>6, <1>8, <1>10

\* At first nothing is asked, and nothing shown.
LEMMA QueriesBegin == QueriesInit => QueriesInv
<1> SUFFICES ASSUME QueriesInit PROVE QueriesInv
  OBVIOUS
<1> USE DEF QueriesInit
<1>1. queries = <<>> /\ pageRows = <<>> /\ opened = <<>>
  OBVIOUS
<1>2. \A A : <<>> \in Seq(A)
  BY EmptySeq
<1>3. Range(queries) = {}
  BY DEF Range
<1>5. QueryTypes
  BY <1>2, QueriesAssumption DEF QueryTypes
<1>6. Awaited /\ AllGathered
  BY <1>3 DEF Awaited, AllGathered
<1>7. PagesFilling
  <2>1. \A e : HowMany(pageRows, {e}) = 0 /\ HowMany(opened, {e.contact}) = 0 /\ Asking(e) = 0
    BY <1>1, HowManyOfNone DEF Asking
  <2>2. \A e : PageFilled(e)
    <3> TAKE e
    <3>1. Most(e, {}) \in Nat /\ Owed(e) \in Nat
      BY PluginNumbers
    <3>2. Within(0, 0, Most(e, {}), Owed(e))
      BY <3>1, WithinNone
    <3> QED
      BY <2>1, <3>2 DEF PageFilled
  <2> QED
    BY <2>2 DEF PagesFilling
<1> QED
  BY <1>5, <1>6, <1>7 DEF QueriesInv

\* The viewer's answer stays what it is.
LEMMA AnswerStays ==
    ASSUME QueriesInv, UNCHANGED <<database, answered, logsDisturbed>>, flawed \subseteq flawed',
           ~logsDisturbed => \A q \in Range(queries') : Gathered(q)'
    PROVE  AllGathered'
<1> SUFFICES ASSUME ~logsDisturbed, answered # NoAnswer PROVE Gathered(answered)'
  BY DEF AllGathered
<1>1. answered \in GoodQueries /\ Gathered(answered)
  BY DEF QueriesInv, QueryTypes, AllGathered
<1> QED
  BY <1>1, SameLogs

\* Queries are added, removed or go on.
LEMMA QueriesGoOn ==
    ASSUME QueriesInv, UNCHANGED <<database, accountValid, logsDisturbed>>, flawed \subseteq flawed',
           queries' \in Seq(GoodQueries),
           \A q \in Range(queries') :
               \/ q \in Range(queries)
               \/ /\ q.running = {} /\ ~q.finishing => ~accountValid
                  /\ ~logsDisturbed => Gathered(q)'
    PROVE  Awaited' /\ (~logsDisturbed => \A q \in Range(queries') : Gathered(q)')
<1>1. Awaited'
  BY DEF Awaited, QueriesInv
<1>2. Range(queries) \subseteq GoodQueries
  BY RangeOf DEF QueriesInv, QueryTypes
<1>3. ~logsDisturbed => \A q \in Range(queries) : Gathered(q)'
  BY <1>2, SameLogs DEF AllGathered, QueriesInv
<1> QED
  BY <1>1, <1>3

\* What an entry is of.
LEMMA EntryItems ==
    ASSUME NEW e \in LogEntries
    PROVE  e.contact \in LogContacts /\ e.day \in LogDays /\ e = LogEntry(e.contact, e.day)
  BY DEF LogEntries, LogEntry

\* A message of a day is an entry.
LEMMA EntryOf ==
    ASSUME NEW c \in LogContacts, NEW d \in LogDays
    PROVE  LogEntry(c, d) \in LogEntries /\ LogEntry(c, d).contact = c /\ LogEntry(c, d).day = d
<1>1. <<c, d>> \in LogContacts \X LogDays
  OBVIOUS
<1>2. LogEntry(c, d) = LogEntry(<<c, d>>[1], <<c, d>>[2])
  OBVIOUS
<1>3. LogEntry(c, d) \in LogEntries
  BY <1>1, <1>2 DEF LogEntries
<1> QED
  BY <1>3 DEF LogEntry

\* The types of the numbers that PageFilled compares.
LEMMA PageNumbers ==
    ASSUME QueryTypes, NEW e
    PROVE  /\ HowMany(pageRows, {e}) \in Nat /\ HowMany(opened, {e.contact}) \in Nat
           /\ Asking(e) \in Nat /\ Most(e, {}) \in Nat /\ Owed(e) \in Nat
<1>1. /\ pageRows \in Seq(LogEntries) /\ opened \in Seq(LogContacts)
      /\ queries \in Seq(GoodQueries)
  BY DEF QueryTypes
<1>2. /\ HowMany(pageRows, {e}) \in Nat /\ HowMany(opened, {e.contact}) \in Nat
      /\ HowMany(queries, Bringing(e)) \in Nat
  BY <1>1, HowManyType
<1> QED
  BY <1>2, PluginNumbers DEF Asking

\* Pages that are as they were are filled as they were, also if plugins fail.
LEMMA PagesAsBefore ==
    ASSUME QueriesInv, UNCHANGED <<database, pageRows, logsDisturbed>>, flawed \subseteq flawed',
           \A e \in LogEntries :
             /\ Asking(e)' \in Nat /\ HowMany(opened', {e.contact}) \in Nat
             /\ HowMany(opened', {e.contact}) - Asking(e)' = HowMany(opened, {e.contact}) - Asking(e)
    PROVE  PagesFilling'
<1> SUFFICES ASSUME ~logsDisturbed, NEW e \in LogEntries PROVE PageFilled(e)'
  BY DEF PagesFilling
<1> DEFINE n == HowMany(pageRows, {e})
           o == HowMany(opened, {e.contact})
           a == Asking(e)
           x == Most(e, {})
           y == Owed(e)
           z == Owed(e)'
<1>1. a <= o /\ Within(n, o - a, x, y)
  BY DEF QueriesInv, PagesFilling, PageFilled
<1>2. n \in Nat /\ o \in Nat /\ a \in Nat /\ x \in Nat /\ y \in Nat
  BY PageNumbers DEF QueriesInv
<1>3. z \in Nat /\ z <= y /\ Most(e, {})' = x
  BY SameLogs
<1> DEFINE o2 == HowMany(opened', {e.contact})
           a2 == Asking(e)'
<1>4. o2 \in Nat /\ a2 \in Nat /\ o2 - a2 = o - a
  OBVIOUS
<1> HIDE DEF n, o, a, x, y, z, o2, a2
<1>5. o - a \in Nat /\ a2 <= o2
  BY <1>1, <1>2, <1>4
<1>6. Within(n, o - a, x, z)
  BY <1>1, <1>2, <1>3, <1>5, WithinLess
<1> QED
  BY <1>3, <1>4, <1>5, <1>6 DEF PageFilled, n, o, a, x, y, z, o2, a2

\* A query of the chat page or the viewer is added.
LEMMA QueryAdded ==
    ASSUME QueriesInv, NEW q, queries' = Append(queries, q),
           \/ \E c \in LogContacts : q = queryDates(c)
           \/ q = queryEntities \/ q = search,
           UNCHANGED <<database, accountValid, logsDisturbed, flawed>>
    PROVE  /\ queries' \in Seq(GoodQueries) /\ Awaited' /\ q \in GoodQueries
           /\ ~logsDisturbed => \A x \in Range(queries') : Gathered(x)'
           /\ \A S : HowMany(queries', S) = HowMany(queries, S) + (IF q \in S THEN 1 ELSE 0)
           /\ \A S : HowMany(queries, S) \in Nat
<1>1. QueryTypes /\ queries \in Seq(GoodQueries)
  BY DEF QueriesInv, QueryTypes
<1>2. /\ q \in GoodQueries /\ (q.running = {} /\ ~q.finishing => ~accountValid)
      /\ ~logsDisturbed => Gathered(q)
  BY <1>1, QueryAsked
<1>3. queries' \in Seq(GoodQueries)
  BY <1>1, <1>2, AppendProperties
<1>4. Range(queries') = Range(queries) \cup {q}
  <2> DEFINE t == <<q>>
  <2>1. t \in Seq(GoodQueries) /\ queries' = queries \o t
    BY <1>1, <1>2, AppendIsConcat
  <2>2. Range(t) = {q}
    BY DEF Range
  <2> HIDE DEF t
  <2> QED
    BY <1>1, <2>1, <2>2, RangeConcatenation
<1>5. ~logsDisturbed => Gathered(q)'
  BY <1>2, SameLogs
<1>6. Awaited' /\ (~logsDisturbed => \A x \in Range(queries') : Gathered(x)')
  BY <1>2, <1>3, <1>4, <1>5, QueriesGoOn
<1>7. \A S : HowMany(queries', S) = HowMany(queries, S) + (IF q \in S THEN 1 ELSE 0)
  BY <1>1, <1>2, HowManyAppend
<1>8. \A S : HowMany(queries, S) \in Nat
  BY <1>1, HowManyType
<1> QED
  BY <1>2, <1>3, <1>6, <1>7, <1>8

\* A page is opened: the logs of its contact are asked for, and are on the way.
LEMMA WidgetKeeps ==
    ASSUME QueriesInv, NEW c \in LogContacts, createDetailsWidget(c) PROVE QueriesInv'
<1> DEFINE q == queryDates(c)
<1>1. /\ queries' = Append(queries, q) /\ opened' = Append(opened, c)
      /\ UNCHANGED <<database, accountValid, pageRows, answered, lookups, flawed, logsDisturbed>>
  BY DEF createDetailsWidget
<1>2. q.kind = "dates" /\ q.contact = c
  BY DEF queryDates, Query
<1>3. \E x \in LogContacts : q = queryDates(x)
  OBVIOUS
<1> HIDE DEF q
<1>4. /\ queries' \in Seq(GoodQueries) /\ Awaited' /\ q \in GoodQueries
      /\ ~logsDisturbed => \A x \in Range(queries') : Gathered(x)'
      /\ \A S : HowMany(queries', S) = HowMany(queries, S) + (IF q \in S THEN 1 ELSE 0)
      /\ \A S : HowMany(queries, S) \in Nat
  BY <1>1, <1>3, QueryAdded
<1>5. /\ opened' \in Seq(LogContacts)
      /\ \A S : HowMany(opened', S) = HowMany(opened, S) + (IF c \in S THEN 1 ELSE 0)
      /\ \A S : HowMany(opened, S) \in Nat /\ HowMany(pageRows, S) \in Nat
  <2>1. opened \in Seq(LogContacts) /\ pageRows \in Seq(LogEntries)
    BY DEF QueriesInv, QueryTypes
  <2>2. /\ opened' \in Seq(LogContacts)
        /\ \A S : HowMany(opened', S) = HowMany(opened, S) + (IF c \in S THEN 1 ELSE 0)
    BY <1>1, <2>1, HowManyAppend
  <2>3. \A S : HowMany(opened, S) \in Nat /\ HowMany(pageRows, S) \in Nat
    BY <2>1, HowManyType
  <2> QED
    BY <2>2, <2>3
<1>6. QueryTypes'
  BY <1>1, <1>4, <1>5 DEF QueryTypes, QueriesInv
<1>7. AllGathered'
  BY <1>1, <1>4, AnswerStays
<1>8. PagesFilling'
  <2>1. ASSUME NEW e \in LogEntries
        PROVE  /\ Asking(e)' \in Nat /\ HowMany(opened', {e.contact}) \in Nat
               /\ HowMany(opened', {e.contact}) - Asking(e)' = HowMany(opened, {e.contact}) - Asking(e)
    <3>1. q \in Bringing(e) <=> c \in {e.contact}
      BY <1>2, <1>4 DEF Bringing
    <3> DEFINE k == IF c \in {e.contact} THEN 1 ELSE 0
    <3>2. HowMany(queries', Bringing(e)) = HowMany(queries, Bringing(e)) + k
      BY <1>4, <3>1
    <3>3. HowMany(opened', {e.contact}) = HowMany(opened, {e.contact}) + k
      BY <1>5
    <3>4. k \in Nat
      OBVIOUS
    <3>5. HowMany(queries, Bringing(e)) \in Nat /\ HowMany(opened, {e.contact}) \in Nat
      BY <1>4, <1>5
    <3> HIDE DEF k
    <3> QED
      BY <3>2, <3>3, <3>4, <3>5 DEF Asking
  <2> QED
    BY <1>1, <2>1, PagesAsBefore
<1> QED
  BY <1>4, <1>6, <1>7, <1>8 DEF QueriesInv

\* The viewer asks: pages get nothing of that.
LEMMA LookupKeeps ==
    ASSUME QueriesInv, Lookup(queryEntities) \/ Lookup(search) PROVE QueriesInv'
<1>1. PICK q : Lookup(q) /\ (q = queryEntities \/ q = search)
  OBVIOUS
<1>2. /\ queries' = Append(queries, q) /\ answered' = NoAnswer
      /\ UNCHANGED <<database, accountValid, pageRows, opened, flawed, logsDisturbed>>
  BY <1>1 DEF Lookup
<1>3. q.kind \in {"entities", "search"}
  <2>1. CASE q = queryEntities
    BY <2>1 DEF queryEntities, Query
  <2>2. CASE q = search
    BY <2>2 DEF search, Query
  <2> QED
    BY <1>1, <2>1, <2>2
<1>4. /\ queries' \in Seq(GoodQueries) /\ Awaited' /\ q \in GoodQueries
      /\ ~logsDisturbed => \A x \in Range(queries') : Gathered(x)'
      /\ \A S : HowMany(queries', S) = HowMany(queries, S) + (IF q \in S THEN 1 ELSE 0)
      /\ \A S : HowMany(queries, S) \in Nat
  BY <1>1, <1>2, QueryAdded
<1>5. QueryTypes'
  BY <1>2, <1>4 DEF QueryTypes, QueriesInv
<1>6. AllGathered'
  BY <1>2, <1>4 DEF AllGathered
<1>7. \A e : HowMany(queries', Bringing(e)) = HowMany(queries, Bringing(e))
  <2> TAKE e
  <2>1. q \notin Bringing(e)
    BY <1>3 DEF Bringing
  <2> QED
    BY <1>4, <2>1
<1>8. \A e : /\ Asking(e)' \in Nat /\ HowMany(opened', {e.contact}) \in Nat
             /\ Asking(e)' = Asking(e) /\ HowMany(opened', {e.contact}) = HowMany(opened, {e.contact})
  BY <1>2, <1>7, PageNumbers DEF Asking, QueriesInv
<1>9. PagesFilling'
  BY <1>2, <1>8, PagesAsBefore
<1> QED
  BY <1>4, <1>5, <1>6, <1>9 DEF QueriesInv

\* The logs are cleared, or their account is removed.
LEMMA DisturbedKeeps ==
    ASSUME QueriesInv,
           clearAccountLogs \/ AccountRemovedFromManager \/ \E c \in LogContacts : clearContactLogs(c)
    PROVE  QueriesInv'
<1>1. /\ logsDisturbed' = TRUE /\ accountValid' \in BOOLEAN /\ (accountValid' => accountValid)
      /\ UNCHANGED <<queries, pageRows, opened, answered>>
  BY DEF clearAccountLogs, AccountRemovedFromManager, clearContactLogs, QueriesInv, QueryTypes
<1>2. database' \in [LogPlugins -> [LogContacts -> SUBSET LogDays]]
  <2> USE DEF QueriesInv, QueryTypes
  <2>1. CASE clearAccountLogs
    BY <2>1 DEF clearAccountLogs
  <2>2. CASE AccountRemovedFromManager
    BY <2>2 DEF AccountRemovedFromManager
  <2>3. CASE \E c \in LogContacts : clearContactLogs(c)
    BY <2>3 DEF clearContactLogs
  <2> QED
    BY <2>1, <2>2, <2>3
<1>3. QueryTypes'
  BY <1>1, <1>2 DEF QueryTypes, QueriesInv
<1>4. Awaited' /\ AllGathered'
  BY <1>1 DEF Awaited, AllGathered, QueriesInv
<1>6. PagesFilling'
  BY <1>1 DEF PagesFilling
<1> QED
  BY <1>3, <1>4, <1>6 DEF QueriesInv

\* A query that has finished.
LEMMA QueryFinished ==
    ASSUME QueriesInv, NEW i \in DOMAIN queries, NEW kinds, Finished(i, kinds)
    PROVE  LET q == queries[i]
               s == RemoveAt(queries, i)
           IN /\ q \in GoodQueries /\ q.kind \in kinds /\ q.finishing /\ q.running = {}
              /\ ~logsDisturbed => Gathered(q)
              /\ s \in Seq(GoodQueries) /\ Range(s) \subseteq Range(queries)
              /\ \A S : HowMany(queries, S) = HowMany(s, S) + (IF q \in S THEN 1 ELSE 0)
              /\ \A S : HowMany(s, S) \in Nat
<1> DEFINE q == queries[i]
           s == RemoveAt(queries, i)
<1>1. queries \in Seq(GoodQueries)
  BY DEF QueriesInv, QueryTypes
<1>2. i \in 1 .. Len(queries)
  BY <1>1, LenProperties
<1>3. q \in GoodQueries /\ q \in Range(queries)
  BY <1>1, <1>2, RangeOf
<1>4. q.kind \in kinds /\ q.finishing
  BY DEF Finished
<1>5. ~logsDisturbed => Gathered(q)
  BY <1>3 DEF QueriesInv, AllGathered
<1> HIDE DEF s
<1>6. /\ s \in Seq(GoodQueries) /\ Range(s) \subseteq Range(queries)
      /\ \A S : HowMany(queries, S) = HowMany(s, S) + (IF q \in S THEN 1 ELSE 0)
  BY <1>1, <1>2, HowManyRemoved DEF s
<1>7. \A S : HowMany(s, S) \in Nat
  BY <1>6, HowManyType
<1>8. q.running = {}
  BY <1>3, <1>4 DEF GoodQueries
<1> QED
  BY <1>3, <1>4, <1>5, <1>6, <1>7, <1>8 DEF s

\* The viewer's answer is complete.
LEMMA LookupFinishedKeeps ==
    ASSUME QueriesInv, NEW i \in DOMAIN queries, LookupFinished(i) PROVE QueriesInv'
<1> DEFINE s == RemoveAt(queries, i)
<1>0. PICK q : q = queries[i]
  OBVIOUS
<1>1. /\ Finished(i, {"entities", "search"}) /\ answered' = q /\ queries' = s
      /\ UNCHANGED <<database, accountValid, opened, flawed, logsDisturbed, pageRows>>
  BY <1>0 DEF LookupFinished, Finished
<1> HIDE DEF s
<1>2. /\ q \in GoodQueries /\ q.kind \in {"entities", "search"} /\ q.running = {}
      /\ ~logsDisturbed => Gathered(q)
      /\ s \in Seq(GoodQueries) /\ Range(s) \subseteq Range(queries)
      /\ \A S : HowMany(queries, S) = HowMany(s, S) + (IF q \in S THEN 1 ELSE 0)
      /\ \A S : HowMany(s, S) \in Nat
  BY <1>0, <1>1, QueryFinished DEF s
<1>3. QueryTypes'
  BY <1>1, <1>2 DEF QueryTypes, QueriesInv
<1>4. Awaited' /\ (~logsDisturbed => \A x \in Range(queries') : Gathered(x)')
  BY <1>1, <1>2, QueriesGoOn
<1>5. AllGathered'
  BY <1>1, <1>2, <1>4, SameLogs DEF AllGathered
<1>6. \A e : HowMany(queries', Bringing(e)) = HowMany(queries, Bringing(e))
  <2> TAKE e
  <2>1. q \notin Bringing(e)
    BY <1>2 DEF Bringing
  <2> QED
    BY <1>1, <1>2, <2>1
<1>7. \A e : /\ Asking(e)' \in Nat /\ HowMany(opened', {e.contact}) \in Nat
             /\ Asking(e)' = Asking(e) /\ HowMany(opened', {e.contact}) = HowMany(opened, {e.contact})
  BY <1>1, <1>6, PageNumbers DEF Asking, QueriesInv
<1>8. PagesFilling'
  BY <1>1, <1>7, PagesAsBefore
<1> QED
  BY <1>3, <1>4, <1>5, <1>8 DEF QueriesInv

\* Pages get what a query for a day has found.
LEMMA PageEventsKeep ==
    ASSUME QueriesInv, NEW i \in DOMAIN queries, onPageEventsFinished(i) PROVE QueriesInv'
<1> DEFINE s == RemoveAt(queries, i)
<1>0. PICK q : q = queries[i]
  OBVIOUS
<1>1. /\ Finished(i, {"logs"}) /\ pageRows' = pageRows \o q.result /\ queries' = s
      /\ UNCHANGED <<database, accountValid, opened, flawed, logsDisturbed, answered>>
  BY <1>0 DEF onPageEventsFinished, Finished
<1> HIDE DEF s
<1>2. /\ q \in GoodQueries /\ q.kind \in {"logs"} /\ q.running = {}
      /\ ~logsDisturbed => Gathered(q)
      /\ s \in Seq(GoodQueries) /\ Range(s) \subseteq Range(queries)
      /\ \A S : HowMany(queries, S) = HowMany(s, S) + (IF q \in S THEN 1 ELSE 0)
      /\ \A S : HowMany(s, S) \in Nat
  BY <1>0, <1>1, QueryFinished DEF s
<1> DEFINE r == q.result
           z == LogEntry(q.contact, q.day)
<1>3. /\ r \in Seq(LogEntries) /\ q.contact \in LogContacts /\ q.day \in LogDays
      /\ \A e \in Range(r) : e = z
  BY <1>2 DEF GoodQueries, GoodLogs
<1>4. pageRows \in Seq(LogEntries) /\ opened \in Seq(LogContacts)
  BY DEF QueriesInv, QueryTypes
<1> HIDE DEF r
<1>5. /\ pageRows' \in Seq(LogEntries)
      /\ \A S : HowMany(pageRows', S) = HowMany(pageRows, S) + HowMany(r, S)
  BY <1>1, <1>3, <1>4, HowManyConcat DEF r
<1>6. z \in LogEntries /\ z.contact = q.contact /\ z.day = q.day
  BY <1>3, EntryOf
<1>7. \A e : HowMany(r, {e}) \in Nat /\ (e # z => HowMany(r, {e}) = 0)
  <2> TAKE e
  <2>1. HowMany(r, {e}) \in Nat /\ Times(r, e) = HowMany(r, {e})
    BY <1>3, HowManyType, TimesOf
  <2>2. e \in Range(r) <=> Times(r, e) # 0
    BY <1>3, TimesOf
  <2> QED
    BY <1>3, <2>1, <2>2
<1>8. QueryTypes'
  BY <1>1, <1>2, <1>5 DEF QueryTypes, QueriesInv
<1>9. Awaited' /\ (~logsDisturbed => \A x \in Range(queries') : Gathered(x)')
  BY <1>1, <1>2, QueriesGoOn
<1>10. AllGathered'
  BY <1>1, <1>9, AnswerStays
<1>11. PagesFilling'
  <2> SUFFICES ASSUME ~logsDisturbed, NEW e \in LogEntries PROVE PageFilled(e)'
    BY <1>1 DEF PagesFilling
  <2> DEFINE n == HowMany(pageRows, {e})
             o == HowMany(opened, {e.contact})
             a == Asking(e)
             x == Most(e, {})
             y == Owed(e)
             k == IF q \in Bringing(e) THEN 1 ELSE 0
             v == HowMany(r, {e})
  <2>1. a <= o /\ Within(n, o - a, x, y)
    BY DEF QueriesInv, PagesFilling, PageFilled
  <2>2. n \in Nat /\ o \in Nat /\ a \in Nat /\ x \in Nat /\ y \in Nat
    BY PageNumbers DEF QueriesInv
  <2>3. Owed(e)' = y /\ Most(e, {})' = x
    <3>1. \A c : AllDays(c)' = AllDays(c)
      BY <1>1 DEF AllDays, DaysOf, toTplEntity
    <3>2. Holding(e)' = Holding(e)
      BY <1>1 DEF Holding
    <3> QED
      BY <1>1, <3>1, <3>2 DEF Owed, Wanted, Least, Most
  <2>4. a = Asking(e)' + k /\ Asking(e)' \in Nat
    BY <1>1, <1>2 DEF Asking
  <2>5. HowMany(pageRows', {e}) = n + v /\ v \in Nat /\ opened' = opened
    BY <1>1, <1>5, <1>7
  <2>6. q \in Bringing(e) <=> e = z
    <3>1. e = LogEntry(e.contact, e.day)
      BY EntryItems
    <3> QED
      BY <1>2, <1>6, <3>1 DEF Bringing, z
  <2> DEFINE b == Asking(e)'
  <2> HIDE DEF n, o, a, x, y, k, v, b, z
  <2>7. CASE e # z
    <3>1. k = 0 /\ v = 0
      BY <1>7, <2>6, <2>7 DEF k, v
    <3>2. n + v = n /\ a = b
      BY <2>2, <2>4, <3>1 DEF b
    <3> QED
      BY <2>1, <2>3, <2>5, <3>2 DEF PageFilled, n, o, a, x, y, b
  <2>8. CASE e = z
    <3>1. k = 1
      BY <2>6, <2>8 DEF k
    <3>2. o - a \in Nat /\ o - b = (o - a) + 1 /\ b <= o
      BY <2>1, <2>2, <2>4, <3>1 DEF b
    <3>3. e \in Sought(q)
      BY <1>2, <2>8 DEF Sought, z
    <3>4. v <= x /\ (CanBeFound(e, q) => v >= Least(e, {}))
      BY <1>2, <3>3 DEF Gathered, Counted, v, x, r
    <3>5. y <= v
      <4>1. CASE Wanted(e)
        BY <3>4, <4>1 DEF Wanted, CanBeFound, Owed, y
      <4>2. CASE ~Wanted(e)
        BY <2>5, <4>2 DEF Owed, y
      <4> QED
        BY <4>1, <4>2
    <3>6. Within(n + v, (o - a) + 1, x, y)
      BY <2>1, <2>2, <2>5, <3>2, <3>4, <3>5, WithinMore
    <3> QED
      BY <2>3, <2>5, <3>2, <3>6 DEF PageFilled, n, o, a, x, y, b
  <2> QED
    BY <2>7, <2>8
<1> QED
  BY <1>8, <1>9, <1>10, <1>11 DEF QueriesInv

\* Among the last days of the dates found are the days that a page must show.
LEMMA WantedDayFound ==
    ASSUME QueryTypes, ~logsDisturbed, NEW q \in GoodQueries, q.kind = "dates", q.finishing,
           Gathered(q), NEW e \in LogEntries, Wanted(e), q.contact = e.contact, NEW p \in Holding(e) \ flawed
    PROVE  e.day \in Range(LastDays(q.result))
<1> DEFINE U == AllDays(e.contact)
           s == q.result
<1>1. p \in LogPlugins \ flawed /\ e.contact \in LogContacts
  BY EntryItems DEF Holding
<1>2. U \in SUBSET Moments /\ IsFiniteSet(U)
  BY <1>1, DaysType DEF QueryTypes
<1>3. s \in Seq(LogDays) /\ IsInjective(s) /\ InOrder(s)
  BY DEF GoodQueries, GoodDates
<1>4. q.running = {}
  BY DEF GoodQueries
<1>5. GatheredFrom(p, q) /\ Range(s) \subseteq U
  BY <1>1, <1>4 DEF Gathered
<1>6. e.day \in Range(s)
  <2>1. e.day \in DaysOf(p, e.contact)
    BY <1>1 DEF Holding, Wanted, DaysOf, toTplEntity
  <2> QED
    BY <1>5, <2>1 DEF GatheredFrom
<1>7. e.day \in Range(LastDays(InOrderOfDays(U)))
  BY DEF Wanted
<1> HIDE DEF U, s
<1>8. s \in Seq(U)
  <2>1. s \in Seq(Range(s))
    BY <1>3, SeqOfRange
  <2> QED
    BY <1>5, <2>1, SeqMonotonic
<1>9. e.day \in Range(LastDays(s))
  BY <1>2, <1>3, <1>6, <1>7, <1>8, LastOfSome
<1> QED
  BY <1>9 DEF s

\* The dates of a contact's log lead to one query for each of the last days.
LEMMA PendingDatesKeep ==
    ASSUME QueriesInv, NEW i \in DOMAIN queries, onPendingDates(i) PROVE QueriesInv'
<1> DEFINE s == RemoveAt(queries, i)
           days == LastDays(queries[i].result)
           new == [n \in DOMAIN days |-> queryLogs(queries[i].contact, days[n])]
<1>0. PICK q, c, ds, ns : q = queries[i] /\ c = q.contact /\ ds = days /\ ns = new
  OBVIOUS
<1>1. /\ Finished(i, {"dates"}) /\ queries' = s \o ns
      /\ UNCHANGED <<database, accountValid, opened, flawed, logsDisturbed, answered, pageRows>>
  BY <1>0 DEF onPendingDates, Finished
<1>2. ds = LastDays(q.result) /\ ns = [n \in DOMAIN ds |-> queryLogs(c, ds[n])]
  BY <1>0
<1> HIDE DEF s, days, new
<1>3. /\ q \in GoodQueries /\ q.kind \in {"dates"} /\ q.running = {} /\ q.finishing
      /\ ~logsDisturbed => Gathered(q)
      /\ s \in Seq(GoodQueries) /\ Range(s) \subseteq Range(queries)
      /\ \A S : HowMany(queries, S) = HowMany(s, S) + (IF q \in S THEN 1 ELSE 0)
      /\ \A S : HowMany(s, S) \in Nat
  BY <1>0, <1>1, QueryFinished DEF s
<1>4. c \in LogContacts /\ c = q.contact
  BY <1>0, <1>3 DEF GoodQueries, GoodDates
<1>5. ds \in Seq(LogDays) /\ IsInjective(ds)
  <2> DEFINE r == q.result
  <2>1. r \in Seq(LogDays) /\ IsInjective(r) /\ InOrder(r)
    BY <1>3 DEF GoodQueries, GoodDates
  <2>2. LogDays \in SUBSET Moments
    BY QueriesAssumption DEF Moments, None
  <2> HIDE DEF r
  <2>3. LastDays(r) \in Seq(LogDays) /\ IsInjective(LastDays(r))
    BY <2>1, <2>2, LastOfOrder
  <2> QED
    BY <1>2, <2>3 DEF r
<1> DEFINE n == Len(ds)
<1>6. /\ n \in Nat /\ DOMAIN ds = 1 .. n /\ \A j \in 1 .. n : ds[j] \in LogDays
      /\ \A j, k \in 1 .. n : ds[j] = ds[k] => j = k
  BY <1>5, LenProperties, RangeOf
<1>7. QueryTypes
  BY DEF QueriesInv
<1> HIDE DEF n
<1>8. \A j \in 1 .. n : ns[j] = queryLogs(c, ds[j])
  BY <1>2, <1>6
<1>9. ASSUME NEW j \in 1 .. n
      PROVE  /\ ns[j] \in GoodQueries /\ (ns[j].running = {} /\ ~ns[j].finishing => ~accountValid)
             /\ ~logsDisturbed => Gathered(ns[j])
  <2>1. \E x \in LogContacts, d \in LogDays : ns[j] = queryLogs(x, d)
    BY <1>4, <1>6, <1>8
  <2> QED
    BY <1>7, <2>1, QueryAsked
<1>10. ns \in Seq(GoodQueries) /\ Len(ns) = n
  <2>1. ns \in [1 .. n -> GoodQueries]
    BY <1>2, <1>6, <1>9
  <2> QED
    BY <1>6, <2>1, SeqOfItems
<1>11. /\ queries' \in Seq(GoodQueries) /\ Range(queries') = Range(s) \cup Range(ns)
       /\ \A S : HowMany(queries', S) = HowMany(s, S) + HowMany(ns, S)
  BY <1>1, <1>3, <1>10, RangeConcatenation, HowManyConcat
<1>12. QueryTypes'
  BY <1>1, <1>11 DEF QueryTypes, QueriesInv
<1>13. Awaited' /\ (~logsDisturbed => \A x \in Range(queries') : Gathered(x)')
  <2>1. ASSUME NEW x \in Range(queries'), x \notin Range(queries)
        PROVE  /\ x.running = {} /\ ~x.finishing => ~accountValid
               /\ ~logsDisturbed => Gathered(x)'
    <3>1. x \in Range(ns)
      BY <1>3, <1>11, <2>1
    <3>2. PICK j \in 1 .. n : x = ns[j]
      BY <1>10, <3>1, RangeOf
    <3> QED
      BY <1>1, <1>9, <3>2, SameLogs
  <2> QED
    BY <1>1, <1>11, <2>1, QueriesGoOn
<1>14. AllGathered'
  BY <1>1, <1>13, AnswerStays
<1>15. PagesFilling'
  <2> SUFFICES ASSUME ~logsDisturbed, NEW e \in LogEntries PROVE PageFilled(e)'
    BY <1>1 DEF PagesFilling
  <2> DEFINE B == Bringing(e)
             k == IF q \in B THEN 1 ELSE 0
             m == HowMany(ns, B)
  <2>3. q \in B <=> c = e.contact
    BY <1>3, <1>4 DEF Bringing
  <2>4. \A j \in 1 .. n : ns[j] \in B <=> c = e.contact /\ ds[j] = e.day
    <3> TAKE j \in 1 .. n
    <3>1. ns[j].kind = "logs" /\ ns[j].contact = c /\ ns[j].day = ds[j]
      <4> PICK x : x = queryLogs(c, ds[j])
        OBVIOUS
      <4>1. x.kind = "logs" /\ x.contact = c /\ x.day = ds[j]
        BY DEF queryLogs, Query
      <4> QED
        BY <1>8, <4>1
    <3> QED
      BY <1>9, <3>1 DEF Bringing
  <2>5. c = e.contact /\ Owed(e) # 0 => e.day \in Range(ds)
    <3> SUFFICES ASSUME c = e.contact, Owed(e) # 0 PROVE e.day \in Range(ds)
      OBVIOUS
    <3>1. Wanted(e) /\ Least(e, {}) # 0
      BY DEF Owed
    <3>2. Holding(e) \ flawed # {}
      <4>1. (Holding(e) \ flawed) \ {} = Holding(e) \ flawed
        OBVIOUS
      <4> QED
        BY <3>1, <4>1, FS_EmptySet DEF Least
    <3>3. PICK p \in Holding(e) \ flawed : TRUE
      BY <3>2
    <3> QED
      BY <1>2, <1>3, <1>4, <1>7, <3>1, WantedDayFound
  <2> HIDE DEF B
  <2>6. /\ m \in Nat /\ (m = 0 <=> ~Has(ns, B)) /\ (Once(ns, B) => m <= 1)
    BY <1>10, HowManyType
  <2>7. Once(ns, B)
    BY <1>6, <1>10, <2>4 DEF Once
  <2>8. Has(ns, B) => c = e.contact
    BY <1>10, <2>4 DEF Has
  <2>9. c = e.contact /\ e.day \in Range(ds) => Has(ns, B)
    <3> SUFFICES ASSUME c = e.contact, e.day \in Range(ds) PROVE Has(ns, B)
      OBVIOUS
    <3>1. PICK j \in 1 .. n : ds[j] = e.day
      BY <1>5, RangeOf DEF n
    <3> QED
      BY <1>10, <2>4, <3>1 DEF Has
  <2>10. k \in Nat /\ m \in Nat /\ (m = k \/ (k = 1 /\ m = 0 /\ Owed(e) = 0))
    <3> HIDE DEF m
    <3>1. CASE c = e.contact
      BY <2>3, <2>5, <2>6, <2>7, <2>9, <3>1
    <3>2. CASE c # e.contact
      BY <2>3, <2>6, <2>8, <3>2
    <3> QED
      BY <3>1, <3>2
  <2> DEFINE w == HowMany(pageRows, {e})
             o == HowMany(opened, {e.contact})
             a == Asking(e)
             b == Asking(e)'
             x == Most(e, {})
             y == Owed(e)
             l == HowMany(s, B)
  <2>11. a = l + k /\ l \in Nat /\ b = l + m
    <3>1. HowMany(queries, B) = HowMany(s, B) + k /\ HowMany(s, B) \in Nat
      BY <1>3
    <3>2. HowMany(queries', B) = HowMany(s, B) + m
      BY <1>11
    <3>3. a = HowMany(queries, B)
      BY DEF Asking, B
    <3>4. b = HowMany(queries', B)
      <4>1. Bringing(e)' = Bringing(e)
        BY DEF Bringing
      <4> QED
        BY <4>1 DEF Asking, B
    <3> QED
      BY <3>1, <3>2, <3>3, <3>4
  <2>12. a <= o /\ Within(w, o - a, x, y)
    BY DEF QueriesInv, PagesFilling, PageFilled
  <2>13. w \in Nat /\ o \in Nat /\ a \in Nat /\ x \in Nat /\ y \in Nat
    BY <1>7, PageNumbers
  <2>14. Owed(e)' = y /\ Most(e, {})' = x
    <3>1. \A d : AllDays(d)' = AllDays(d)
      BY <1>1 DEF AllDays, DaysOf, toTplEntity
    <3>2. Holding(e)' = Holding(e)
      BY <1>1 DEF Holding
    <3> QED
      BY <1>1, <3>1, <3>2 DEF Owed, Wanted, Least, Most
  <2>15. pageRows' = pageRows /\ opened' = opened
    BY <1>1
  <2> HIDE DEF k, m, w, o, a, b, x, y, l
  <2>16. CASE m = k
    <3>1. a = b
      BY <2>11, <2>16
    <3> QED
      BY <2>12, <2>14, <2>15, <3>1 DEF PageFilled, w, o, a, b, x, y
  <2>17. CASE k = 1 /\ m = 0 /\ Owed(e) = 0
    <3>1. o - a \in Nat /\ o - b = (o - a) + 1 /\ b <= o /\ w + 0 = w
      BY <2>10, <2>11, <2>12, <2>13, <2>17
    <3>2. y <= 0 /\ 0 <= x /\ 0 \in Nat
      BY <2>13, <2>17 DEF y
    <3>3. Within(w + 0, (o - a) + 1, x, y)
      BY <2>12, <2>13, <3>1, <3>2, WithinMore
    <3> QED
      BY <2>14, <2>15, <3>1, <3>3 DEF PageFilled, w, o, a, b, x, y
  <2> QED
    BY <2>10, <2>16, <2>17
<1> QED
  BY <1>12, <1>13, <1>14, <1>15 DEF QueriesInv

\* What the plugins' operations find.
LEMMA DatesFoundItems ==
    ASSUME QueryTypes, NEW p \in LogPlugins, NEW c \in LogContacts, NEW q, q.contact = c
    PROVE  DatesFound(p, q) \in Seq(LogDays) /\ Range(DatesFound(p, q)) = DaysOf(p, c)
<1>1. /\ DaysOf(p, c) \in SUBSET Moments /\ DaysOf(p, c) \in SUBSET LogDays
      /\ IsFiniteSet(DaysOf(p, c))
  BY DaysType DEF QueryTypes
<1> DEFINE s == InOrderOfDays(DaysOf(p, c))
<1>2. s \in Seq(DaysOf(p, c)) /\ Range(s) = DaysOf(p, c)
  BY <1>1, DaysInOrder
<1>3. DatesFound(p, q) = s
  BY DEF DatesFound
<1> HIDE DEF s
<1> QED
  BY <1>1, <1>2, <1>3, SeqMonotonic

\* A plugin finds the message of a day if it has it.
LEMMA LogsFoundItems ==
    ASSUME NEW p \in LogPlugins, NEW q, q.contact \in LogContacts, q.day \in LogDays
    PROVE  LET e == LogEntry(q.contact, q.day)
               s == LogsFound(p, q)
           IN /\ s \in Seq(LogEntries) /\ Range(s) \subseteq {e}
              /\ HowMany(s, {e}) = IF q.day \in DaysOf(p, q.contact) THEN 1 ELSE 0
<1> DEFINE e == LogEntry(q.contact, q.day)
<1>1. e \in LogEntries
  BY EntryOf
<1> HIDE DEF e
<1>2. <<e>> \in Seq(LogEntries) /\ Range(<<e>>) = {e}
  BY <1>1 DEF Range
<1>3. HowMany(<<e>>, {e}) = 1
  BY HowManyOne
<1>4. CASE q.day \in DaysOf(p, q.contact)
  <2>1. LogsFound(p, q) = <<e>>
    BY <1>4 DEF LogsFound, e
  <2> QED
    BY <1>2, <1>3, <1>4, <2>1 DEF e
<1>5. CASE q.day \notin DaysOf(p, q.contact)
  <2>1. LogsFound(p, q) = <<>>
    BY <1>5 DEF LogsFound
  <2>2. <<>> \in Seq(LogEntries)
    BY EmptySeq
  <2>3. HowMany(<<>>, {e}) = 0
    BY FS_EmptySet DEF HowMany
  <2> QED
    BY <1>5, <2>1, <2>2, <2>3, NoItems DEF e
<1> QED
  BY <1>4, <1>5

\* A plugin finds each of its entities.
LEMMA EntitiesFoundItems ==
    ASSUME NEW p \in LogPlugins
    PROVE  /\ EntitiesFound(p) \in Seq(LogContacts)
           /\ Range(EntitiesFound(p)) = {c \in LogContacts : database[p][c] # {}}
<1> DEFINE C == {c \in LogContacts : database[p][c] # {}}
<1>1. C \in SUBSET LogContacts /\ IsFiniteSet(C)
  BY QueriesAssumption, FS_Subset
<1>2. EntitiesFound(p) = SetToSeq(C)
  BY DEF EntitiesFound
<1> HIDE DEF C
<1>3. SetToSeq(C) \in Seq(C) /\ Range(SetToSeq(C)) = C
  BY <1>1, SetInSequence
<1> QED
  BY <1>1, <1>2, <1>3, SeqMonotonic DEF C

\* A plugin finds each message that it has once.
LEMMA HitsFoundItems ==
    ASSUME NEW p \in LogPlugins
    PROVE  /\ HitsFound(p) \in Seq(LogEntries)
           /\ \A e \in LogEntries : HowMany(HitsFound(p), {e}) = IF p \in Holding(e) THEN 1 ELSE 0
<1> DEFINE A == LogContacts \X LogDays
           f == [x \in A |-> LogEntry(x[1], x[2])]
           H == {LogEntry(x[1], x[2]) : x \in {y \in A : y[2] \in database[p][y[1]]}}
<1>1. IsFiniteSet(A)
  BY QueriesAssumption, FS_Product
<1>2. IsFiniteSet(LogEntries)
  <2>1. f \in Surjection(A, LogEntries)
    BY DEF Surjection, LogEntries
  <2> HIDE DEF A, f
  <2> QED
    BY <1>1, <2>1, FS_Surjection
<1>3. H \in SUBSET LogEntries
  BY DEF LogEntries
<1>4. ASSUME NEW e \in LogEntries PROVE e \in H <=> p \in Holding(e)
  <2>1. PICK x \in A : e = LogEntry(x[1], x[2])
    BY DEF LogEntries
  <2>2. e.contact = x[1] /\ e.day = x[2]
    BY <2>1 DEF LogEntry
  <2>3. ASSUME p \in Holding(e) PROVE e \in H
    BY <2>1, <2>2, <2>3 DEF Holding
  <2>4. ASSUME e \in H PROVE p \in Holding(e)
    <3>1. PICK y \in A : y[2] \in database[p][y[1]] /\ e = LogEntry(y[1], y[2])
      BY <2>4
    <3>2. e.contact = y[1] /\ e.day = y[2]
      BY <3>1 DEF LogEntry
    <3> QED
      BY <3>1, <3>2 DEF Holding
  <2> QED
    BY <2>3, <2>4
<1>5. HitsFound(p) = SetToSeq(H)
  BY DEF HitsFound
<1> HIDE DEF H
<1>6. SetToSeq(H) \in Seq(H) /\ IsInjective(SetToSeq(H)) /\ Range(SetToSeq(H)) = H
  <2>1. IsFiniteSet(H)
    BY <1>2, <1>3, FS_Subset
  <2> QED
    BY <2>1, SetInSequence
<1>7. \A e : HowMany(SetToSeq(H), {e}) = IF e \in H THEN 1 ELSE 0
  <2> DEFINE s == SetToSeq(H)
  <2>1. s \in Seq(H) /\ IsInjective(s) /\ Range(s) = H
    BY <1>6
  <2> HIDE DEF s
  <2>2. \A e : HowMany(s, {e}) = Times(s, e) /\ Times(s, e) = IF e \in Range(s) THEN 1 ELSE 0
    BY <2>1, TimesOf
  <2> QED
    BY <2>1, <2>2 DEF s
<1>8. HitsFound(p) \in Seq(LogEntries)
  BY <1>3, <1>5, <1>6, SeqMonotonic
<1> QED
  BY <1>4, <1>5, <1>7, <1>8

\* What a plugin finds of the entries that a query looks for.
LEMMA EntriesFound ==
    ASSUME NEW p \in LogPlugins, NEW q \in GoodQueries, q.kind \in {"logs", "search"}
    PROVE  /\ FoundBy(p, q) \in Seq(LogEntries)
           /\ q.kind = "logs" => Range(FoundBy(p, q)) \subseteq {LogEntry(q.contact, q.day)}
           /\ \A e \in Sought(q) :
                /\ HowMany(FoundBy(p, q), {e}) \in {0, 1}
                /\ HowMany(FoundBy(p, q), {e}) = 1 => p \in Holding(e)
                /\ p \in Holding(e) /\ CanBeFound(e, q) => HowMany(FoundBy(p, q), {e}) = 1
<1>1. CASE q.kind = "search"
  <2>1. FoundBy(p, q) = HitsFound(p)
    BY <1>1 DEF FoundBy
  <2>2. Sought(q) \subseteq LogEntries
    BY DEF Sought
  <2> QED
    BY <1>1, <2>1, <2>2, HitsFoundItems
<1>2. CASE q.kind = "logs"
  <2> DEFINE z == LogEntry(q.contact, q.day)
  <2>1. FoundBy(p, q) = LogsFound(p, q)
    BY <1>2 DEF FoundBy
  <2>2. q.contact \in LogContacts /\ q.day \in LogDays
    BY <1>2 DEF GoodQueries, GoodLogs
  <2>3. \A e \in Sought(q) : e = z
    BY <1>2 DEF Sought
  <2>4. z.contact = q.contact /\ z.day = q.day
    BY <2>2, EntryOf
  <2>5. q.day \in DaysOf(p, q.contact) <=> p \in Holding(z) /\ z.contact \in Latin
    BY <2>2, <2>4 DEF Holding, DaysOf, toTplEntity
  <2>6. /\ LogsFound(p, q) \in Seq(LogEntries) /\ Range(LogsFound(p, q)) \subseteq {z}
        /\ HowMany(LogsFound(p, q), {z}) = IF q.day \in DaysOf(p, q.contact) THEN 1 ELSE 0
    BY <2>2, LogsFoundItems
  <2> HIDE DEF z
  <2>7. CanBeFound(z, q) <=> z.contact \in Latin
    BY <1>2 DEF CanBeFound
  <2>8. /\ HowMany(LogsFound(p, q), {z}) \in {0, 1}
        /\ HowMany(LogsFound(p, q), {z}) = 1 => p \in Holding(z)
        /\ p \in Holding(z) /\ CanBeFound(z, q) => HowMany(LogsFound(p, q), {z}) = 1
    BY <2>5, <2>6, <2>7
  <2> QED
    BY <2>1, <2>3, <2>6, <2>8 DEF z
<1> QED
  BY <1>1, <1>2

\* Without one plugin.
LEMMA OneLess ==
    ASSUME NEW H, IsFiniteSet(H), NEW R, NEW p \in R
    PROVE  /\ IsFiniteSet(H \ R) /\ Cardinality(H \ R) \in Nat
           /\ Cardinality(H \ (R \ {p})) = Cardinality(H \ R) + (IF p \in H THEN 1 ELSE 0)
<1> DEFINE S == H \ R
           T == H \ (R \ {p})
<1>1. IsFiniteSet(S) /\ p \notin S
  BY FS_Subset
<1>2. CASE p \in H
  <2>1. T = S \cup {p}
    BY <1>2
  <2> HIDE DEF S, T
  <2>2. Cardinality(T) = Cardinality(S) + 1 /\ Cardinality(S) \in Nat
    BY <1>1, <2>1, FS_AddElement, FS_CardinalityType
  <2> QED
    BY <1>1, <1>2, <2>2 DEF S, T
<1>3. CASE p \notin H
  <2>1. T = S
    BY <1>3
  <2> HIDE DEF S, T
  <2>2. Cardinality(S) \in Nat
    BY <1>1, FS_CardinalityType
  <2> QED
    BY <1>1, <1>3, <2>1, <2>2 DEF S, T
<1> QED
  BY <1>2, <1>3

\* The numbers of plugins, when one has answered.
LEMMA PluginAnswered ==
    ASSUME NEW e, NEW R, NEW p \in R, database' = database, NEW fails \in BOOLEAN,
           flawed' = IF fails THEN flawed \cup {p} ELSE flawed
    PROVE  /\ Most(e, R \ {p})' = Most(e, R) + (IF p \in Holding(e) THEN 1 ELSE 0)
           /\ Least(e, R \ {p})' \in Nat
           /\ Least(e, R \ {p})' <= Least(e, R) + (IF ~fails /\ p \in Holding(e) THEN 1 ELSE 0)
<1> DEFINE H == Holding(e)
           K == Holding(e) \ flawed
<1>1. IsFiniteSet(H) /\ IsFiniteSet(K)
  BY PluginNumbers, FS_Subset
<1>2. Holding(e)' = Holding(e)
  BY DEF Holding
<1>3. Most(e, R \ {p})' = Cardinality(H \ (R \ {p})) /\ Most(e, R) = Cardinality(H \ R)
  BY <1>2 DEF Most
<1>4. Least(e, R) = Cardinality(K \ R) /\ (p \in K => p \in H)
  BY DEF Least
<1> DEFINE T == (Holding(e) \ flawed') \ (R \ {p})
<1>5. Least(e, R \ {p})' = Cardinality(T)
  BY <1>2 DEF Least
<1>6. CASE fails
  <2>1. T \in SUBSET (K \ R)
    BY <1>6
  <2> HIDE DEF H, K, T
  <2>2. IsFiniteSet(K \ R) /\ Cardinality(K \ R) \in Nat
    BY <1>1, OneLess
  <2>3. IsFiniteSet(T) /\ Cardinality(T) <= Cardinality(K \ R)
    BY <2>1, <2>2, FS_Subset
  <2>4. Cardinality(T) \in Nat
    BY <2>3, FS_CardinalityType
  <2>5. Cardinality(H \ (R \ {p})) = Cardinality(H \ R) + (IF p \in H THEN 1 ELSE 0)
    BY <1>1, OneLess
  <2> QED
    BY <1>3, <1>4, <1>5, <1>6, <2>2, <2>3, <2>4, <2>5 DEF H
<1>7. CASE ~fails
  <2>1. T = K \ (R \ {p})
    BY <1>7
  <2> HIDE DEF H, K, T
  <2>2. /\ Cardinality(K \ R) \in Nat
        /\ Cardinality(K \ (R \ {p})) = Cardinality(K \ R) + (IF p \in K THEN 1 ELSE 0)
    BY <1>1, OneLess
  <2>3. Cardinality(H \ (R \ {p})) = Cardinality(H \ R) + (IF p \in H THEN 1 ELSE 0)
    BY <1>1, OneLess
  <2> QED
    BY <1>3, <1>4, <1>5, <1>7, <2>1, <2>2, <2>3 DEF H
<1> QED
  BY <1>6, <1>7

\* What a plugin's operation adds to a query, and how the query goes on.
MayFind(new, p, q) == new = <<>> \/ new = FoundBy(p, q)

GoesOn(x, q, new, left) ==
    x = [q EXCEPT !.running = left, !.result = Joined(q, new, left), !.finishing = left = {}]

GoodDatesJoined(r, q, p, new, left) ==
    /\ r \in Seq(LogDays) /\ IsInjective(r) /\ (left = {} => InOrder(r))
    /\ Range(r) = Range(q.result) \cup Range(new)
    /\ Range(new) \subseteq AllDays(q.contact)
    /\ new = FoundBy(p, q) => Range(new) = DaysOf(p, q.contact)

StillGood(x, q, p, new, left) ==
    /\ x \in GoodQueries /\ x.kind = q.kind /\ x.contact = q.contact /\ x.day = q.day
    /\ x.running = left /\ (x.finishing <=> left = {})
    /\ q.kind \in {"logs", "search"} => x.result = q.result \o new
    /\ \A o : GatheredFrom(o, q) => GatheredFrom(o, x)
    /\ new = FoundBy(p, q) => GatheredFrom(p, x)
    /\ q.kind = "dates" /\ Range(q.result) \subseteq AllDays(q.contact) =>
         Range(x.result) \subseteq AllDays(q.contact)

\* A query's result, when a plugin's operation has finished.
LEMMA DatesJoined ==
    ASSUME QueryTypes, NEW q \in GoodQueries, q.kind = "dates", NEW p \in LogPlugins,
           NEW new, MayFind(new, p, q), NEW left
    PROVE  GoodDatesJoined(Joined(q, new, left), q, p, new, left)
<1> DEFINE s == q.result
           c == q.contact
           j == JoinedOnce(s, new)
           r == Joined(q, new, left)
<1>1. s \in Seq(LogDays) /\ IsInjective(s) /\ c \in LogContacts
  BY DEF GoodQueries, GoodDates
<1>2. /\ new \in Seq(LogDays) /\ Range(new) \subseteq AllDays(c)
      /\ new = FoundBy(p, q) => Range(new) = DaysOf(p, c)
  <2>1. FoundBy(p, q) = DatesFound(p, q)
    BY DEF FoundBy
  <2>2. DatesFound(p, q) \in Seq(LogDays) /\ Range(DatesFound(p, q)) = DaysOf(p, c)
    BY <1>1, DatesFoundItems
  <2>3. DaysOf(p, c) \subseteq AllDays(c)
    BY <1>1, DaysType DEF QueryTypes
  <2>4. <<>> \in Seq(LogDays)
    BY EmptySeq
  <2>5. CASE new = FoundBy(p, q)
    BY <2>1, <2>2, <2>3, <2>5
  <2>6. CASE new = <<>> /\ new # FoundBy(p, q)
    BY <2>4, <2>6, NoItems
  <2> QED
    BY <2>5, <2>6 DEF MayFind
<1>3. r = IF left = {} THEN Sorted(j) ELSE j
  BY DEF Joined, JoinedDates
<1> HIDE DEF s, c, j, r
<1>4. j \in Seq(LogDays) /\ IsInjective(j) /\ Range(j) = Range(s) \cup Range(new)
  BY <1>1, <1>2, JoinedItems DEF j
<1>5. /\ Sorted(j) \in Seq(LogDays) /\ IsInjective(Sorted(j)) /\ Range(Sorted(j)) = Range(j)
      /\ InOrder(Sorted(j))
  <2>1. LogDays \in SUBSET Moments
    BY QueriesAssumption DEF Moments, None
  <2> QED
    BY <1>4, <2>1, SortedDays
<1>6. /\ r \in Seq(LogDays) /\ IsInjective(r) /\ (left = {} => InOrder(r))
      /\ Range(r) = Range(s) \cup Range(new)
  <2>1. CASE left = {}
    BY <1>3, <1>4, <1>5, <2>1
  <2>2. CASE left # {}
    BY <1>3, <1>4, <2>2
  <2> QED
    BY <2>1, <2>2
<1> QED
  BY <1>2, <1>6 DEF r, s, c, GoodDatesJoined

\* The messages of a day, or hits: what plugins have found, one after the other.
LEMMA EntriesJoined ==
    ASSUME NEW q \in GoodQueries, q.kind \in {"logs", "search"}, NEW p \in LogPlugins,
           NEW new, MayFind(new, p, q), NEW left
    PROVE  LET r == Joined(q, new, left)
           IN /\ r = q.result \o new /\ r \in Seq(LogEntries)
              /\ q.kind = "logs" => \A e \in Range(r) : e = LogEntry(q.contact, q.day)
<1> DEFINE s == q.result
           r == Joined(q, new, left)
           x == LogEntry(q.contact, q.day)
<1>1. s \in Seq(LogEntries) /\ (q.kind = "logs" => Range(s) \subseteq {x})
  BY DEF GoodQueries, GoodLogs, GoodHits
<1> HIDE DEF x
<1>2. new \in Seq(LogEntries) /\ (q.kind = "logs" => Range(new) \subseteq {x})
  <2>1. CASE new = FoundBy(p, q)
    BY <2>1, EntriesFound DEF x
  <2>2. CASE new = <<>> /\ new # FoundBy(p, q)
    <3>1. <<>> \in Seq(LogEntries)
      BY EmptySeq
    <3> QED
      BY <2>2, <3>1, NoItems
  <2> QED
    BY <2>1, <2>2 DEF MayFind
<1>3. r = s \o new
  BY DEF Joined, JoinedLogs, JoinedHits
<1> HIDE DEF r, s
<1>4. r \in Seq(LogEntries) /\ Range(r) = Range(s) \cup Range(new)
  BY <1>1, <1>2, <1>3, ConcatProperties, RangeConcatenation
<1> QED
  BY <1>1, <1>2, <1>3, <1>4 DEF r, s, x

\* The entities: each once.
LEMMA EntitiesJoined ==
    ASSUME NEW q \in GoodQueries, q.kind = "entities", NEW p \in LogPlugins,
           NEW new, MayFind(new, p, q), NEW left
    PROVE  LET r == Joined(q, new, left)
           IN /\ r \in Seq(LogContacts) /\ IsInjective(r)
              /\ Range(r) = Range(q.result) \cup Range(new)
              /\ new = FoundBy(p, q) => Range(new) = {c \in LogContacts : database[p][c] # {}}
<1> DEFINE s == q.result
           r == Joined(q, new, left)
           C == {c \in LogContacts : database[p][c] # {}}
<1>1. s \in Seq(LogContacts) /\ IsInjective(s)
  BY DEF GoodQueries, GoodEntities
<1>2. new \in Seq(LogContacts) /\ (new = FoundBy(p, q) => Range(new) = C)
  <2>1. FoundBy(p, q) = EntitiesFound(p)
    BY DEF FoundBy
  <2>2. EntitiesFound(p) \in Seq(LogContacts) /\ Range(EntitiesFound(p)) = C
    BY EntitiesFoundItems
  <2>3. <<>> \in Seq(LogContacts)
    BY EmptySeq
  <2> HIDE DEF C
  <2>4. CASE new = FoundBy(p, q)
    BY <2>1, <2>2, <2>4
  <2>5. CASE new = <<>> /\ new # FoundBy(p, q)
    BY <2>3, <2>5
  <2> QED
    BY <2>4, <2>5 DEF MayFind
<1>3. r = JoinedOnce(s, new)
  BY DEF Joined, JoinedEntities
<1> HIDE DEF r, s, C
<1>4. r \in Seq(LogContacts) /\ IsInjective(r) /\ Range(r) = Range(s) \cup Range(new)
  BY <1>1, <1>2, <1>3, JoinedItems
<1> QED
  BY <1>2, <1>4 DEF r, s, C

\* Entries of one plugin after those of others.
LEMMA MoreEntries ==
    ASSUME NEW r \in Seq(LogEntries), NEW t \in Seq(LogEntries), NEW e
    PROVE  HowMany(r \o t, {e}) = HowMany(r, {e}) + HowMany(t, {e}) /\ HowMany(r, {e}) \in Nat
<1>1. HowMany(r \o t, {e}) = HowMany(r, {e}) + HowMany(t, {e})
  BY ONLY r \in Seq(LogEntries), t \in Seq(LogEntries), HowManyConcat
<1>2. HowMany(r, {e}) \in Nat
  BY HowManyType
<1> QED
  BY <1>1, <1>2

\* A plugin's answer is counted.
LEMMA CountedOn ==
    ASSUME NEW q \in GoodQueries, NEW p \in LogPlugins, p \in q.running, Counted(q),
           NEW fails \in BOOLEAN, flawed' = IF fails THEN flawed \cup {p} ELSE flawed,
           database' = database, NEW new, new = IF fails THEN <<>> ELSE FoundBy(p, q),
           NEW x, x.kind = q.kind, x.contact = q.contact, x.day = q.day,
           x.running = q.running \ {p},
           q.kind \in {"logs", "search"} => x.result = q.result \o new
    PROVE  Counted(x)'
<1> SUFFICES ASSUME NEW e \in Sought(x)
             PROVE  /\ HowMany(x.result, {e}) <= Most(e, x.running)'
                    /\ CanBeFound(e, x) => HowMany(x.result, {e}) >= Least(e, x.running)'
  BY DEF Counted, Sought, CanBeFound
<1>1. e \in Sought(q) /\ q.kind \in {"logs", "search"} /\ (CanBeFound(e, x) <=> CanBeFound(e, q))
  BY DEF Sought, CanBeFound
<1> DEFINE h == HowMany(q.result, {e})
           v == HowMany(new, {e})
           R == q.running
           a == Most(e, R)
           b == Least(e, R)
<1>2. h <= a /\ (CanBeFound(e, q) => h >= b)
  BY <1>1 DEF Counted
<1>3. q.result \in Seq(LogEntries)
  BY <1>1 DEF GoodQueries, GoodLogs, GoodHits
<1>4. /\ new \in Seq(LogEntries) /\ v \in {0, 1}
      /\ v = 1 => p \in Holding(e)
      /\ ~fails /\ p \in Holding(e) /\ CanBeFound(e, q) => v = 1
  <2>1. CASE ~fails
    BY <1>1, <2>1, EntriesFound
  <2>2. CASE fails
    <3>1. new = <<>>
      BY <2>2
    <3>2. <<>> \in Seq(LogEntries)
      BY EmptySeq
    <3>3. HowMany(<<>>, {e}) = 0
      BY FS_EmptySet DEF HowMany
    <3> QED
      BY <2>2, <3>1, <3>2, <3>3
  <2> QED
    BY <2>1, <2>2
<1>5. HowMany(x.result, {e}) = h + v /\ h \in Nat
  <2> DEFINE r == q.result
  <2>1. r \in Seq(LogEntries) /\ x.result = r \o new
    BY <1>1, <1>3
  <2> HIDE DEF r
  <2>2. new \in Seq(LogEntries)
    BY <1>4
  <2>3. HowMany(r \o new, {e}) = HowMany(r, {e}) + HowMany(new, {e}) /\ HowMany(r, {e}) \in Nat
    BY <2>1, <2>2, MoreEntries
  <2> QED
    BY <2>1, <2>3 DEF r
<1>6. /\ Most(e, R \ {p})' = a + (IF p \in Holding(e) THEN 1 ELSE 0)
      /\ Least(e, R \ {p})' \in Nat
      /\ Least(e, R \ {p})' <= b + (IF ~fails /\ p \in Holding(e) THEN 1 ELSE 0)
  BY PluginAnswered
<1>7. a \in Nat /\ b \in Nat
  BY PluginNumbers
<1> DEFINE c == Most(e, R \ {p})'
           d == Least(e, R \ {p})'
<1>8. Most(e, x.running)' = c /\ Least(e, x.running)' = d
  BY DEF Most, Least
<1> HIDE DEF h, v, a, b, c, d
<1>9. h + v <= c
  BY <1>2, <1>4, <1>5, <1>6, <1>7 DEF c
<1>10. CanBeFound(e, q) => h + v >= d
  BY <1>2, <1>4, <1>5, <1>6, <1>7 DEF d
<1> QED
  BY <1>1, <1>5, <1>8, <1>9, <1>10

\* A query that goes on has what it had, and what the plugin has found.
LEMMA QueryAnswered ==
    ASSUME QueryTypes, NEW q \in GoodQueries, NEW p \in q.running,
           NEW new, MayFind(new, p, q), NEW left, left = q.running \ {p},
           NEW x, GoesOn(x, q, new, left)
    PROVE  StillGood(x, q, p, new, left)
<1> DEFINE r == Joined(q, new, left)
<1>1. /\ q \in QueryRecords /\ p \in LogPlugins /\ left \in SUBSET LogPlugins
      /\ q.kind \in {"dates", "logs", "entities", "search"}
  BY DEF GoodQueries, QueryRecords
<1> HIDE DEF r
<1>2. /\ x.kind = q.kind /\ x.contact = q.contact /\ x.day = q.day /\ x.result = r
      /\ x.running = left /\ x.finishing = (left = {})
  BY <1>1 DEF r, QueryRecords, GoesOn
<1>3. r \in Seq(Found) => x \in QueryRecords
  BY <1>1 DEF r, QueryRecords, GoesOn
<1>4. CASE q.kind = "dates"
  <2>1. GoodDatesJoined(r, q, p, new, left)
    BY <1>1, <1>4, DatesJoined DEF r
  <2> USE DEF GoodDatesJoined
  <2>2. q.contact \in LogContacts
    BY <1>4 DEF GoodQueries, GoodDates
  <2>3. LogDays \subseteq Found
    BY DEF Found
  <2>4. r \in Seq(Found)
    BY <2>1, <2>3, SeqMonotonic
  <2>5. GoodDates(x)
    BY <1>2, <2>1, <2>2 DEF GoodDates
  <2>6. x \in GoodQueries
    BY <1>2, <1>3, <1>4, <2>4, <2>5 DEF GoodQueries
  <2> QED
    BY <1>2, <1>4, <2>1, <2>6 DEF GatheredFrom, StillGood
<1>5. CASE q.kind \in {"logs", "search"}
  <2>1. /\ r = q.result \o new /\ r \in Seq(LogEntries)
        /\ q.kind = "logs" => \A e \in Range(r) : e = LogEntry(q.contact, q.day)
    BY <1>1, <1>5, EntriesJoined DEF r
  <2>2. LogEntries \subseteq Found
    BY DEF Found
  <2>3. r \in Seq(Found)
    BY <2>1, <2>2, SeqMonotonic
  <2>4. q.kind = "logs" => GoodLogs(x)
    BY <1>2, <2>1 DEF GoodLogs, GoodQueries
  <2>5. GoodHits(x)
    BY <1>2, <2>1 DEF GoodHits
  <2>6. x \in GoodQueries
    BY <1>2, <1>3, <1>5, <2>3, <2>4, <2>5 DEF GoodQueries
  <2> QED
    BY <1>2, <1>5, <2>1, <2>6 DEF GatheredFrom, StillGood
<1>6. CASE q.kind = "entities"
  <2>1. /\ r \in Seq(LogContacts) /\ IsInjective(r)
        /\ Range(r) = Range(q.result) \cup Range(new)
        /\ new = FoundBy(p, q) => Range(new) = {c \in LogContacts : database[p][c] # {}}
    BY <1>1, <1>6, EntitiesJoined DEF r
  <2>2. LogContacts \subseteq Found
    BY DEF Found
  <2>3. r \in Seq(Found)
    BY <2>1, <2>2, SeqMonotonic
  <2>4. GoodEntities(x)
    BY <1>2, <2>1 DEF GoodEntities
  <2>5. x \in GoodQueries
    BY <1>2, <1>3, <1>6, <2>3, <2>4 DEF GoodQueries
  <2> QED
    BY <1>2, <1>6, <2>1, <2>5 DEF GatheredFrom, StillGood
<1> QED
  BY <1>1, <1>4, <1>5, <1>6

\* A plugin's operation finishes, well or not.
LEMMA OperationKeeps ==
    ASSUME QueriesInv, NEW i \in DOMAIN queries, NEW p \in LogPlugins, NEW fails \in BOOLEAN,
           operationFinished(i, p, fails)
    PROVE  QueriesInv'
<1> DEFINE left_ == queries[i].running \ {p}
           new_ == IF fails THEN <<>> ELSE FoundBy(p, queries[i])
           x_ == [queries[i] EXCEPT !.running = left_, !.result = Joined(queries[i], new_, left_),
                                    !.finishing = left_ = {}]
<1>0. PICK q, left, new, x : q = queries[i] /\ left = left_ /\ new = new_ /\ x = x_
  OBVIOUS
<1>1. /\ p \in q.running /\ queries' = [queries EXCEPT ![i] = x]
      /\ flawed' = IF fails THEN flawed \cup {p} ELSE flawed
      /\ UNCHANGED <<database, accountValid, pageRows, opened, answered, logsDisturbed>>
  BY <1>0 DEF operationFinished
<1>2. /\ left = q.running \ {p} /\ new = IF fails THEN <<>> ELSE FoundBy(p, q)
      /\ x = [q EXCEPT !.running = left, !.result = Joined(q, new, left), !.finishing = left = {}]
  BY <1>0
<1> HIDE DEF left_, new_, x_
<1>3. QueryTypes /\ queries \in Seq(GoodQueries)
  BY DEF QueriesInv, QueryTypes
<1>4. i \in 1 .. Len(queries) /\ q \in GoodQueries /\ q \in Range(queries)
  BY <1>0, <1>3, LenProperties, RangeOf
<1>6. StillGood(x, q, p, new, left)
  <2>1. MayFind(new, p, q) /\ GoesOn(x, q, new, left)
    BY <1>2 DEF MayFind, GoesOn
  <2>2. left = q.running \ {p}
    BY <1>2
  <2> QED
    BY <1>1, <1>3, <1>4, <2>1, <2>2, QueryAnswered
<1> USE DEF StillGood
<1>7. queries' \in Seq(GoodQueries)
  BY <1>1, <1>3, <1>4, <1>6, ExceptSeq
<1>8. Range(queries') \subseteq Range(queries) \cup {x}
  <2>1. /\ Len(queries') = Len(queries)
        /\ \A j \in 1 .. Len(queries) : queries'[j] = IF j = i THEN x ELSE queries[j]
    BY <1>1, <1>3, <1>4, <1>6, ExceptSeq
  <2>2. Range(queries') = {queries'[j] : j \in 1 .. Len(queries')}
    BY <1>7, RangeOf
  <2>3. Range(queries) = {queries[j] : j \in 1 .. Len(queries)}
    BY <1>3, RangeOf
  <2> QED
    BY <2>1, <2>2, <2>3
<1>9. flawed \subseteq flawed'
  BY <1>1
<1>10. ~logsDisturbed => Gathered(x)'
  <2> SUFFICES ASSUME ~logsDisturbed PROVE Gathered(x)'
    OBVIOUS
  <2>1. Gathered(q)
    BY <1>4 DEF QueriesInv, AllGathered
  <2>2. ASSUME NEW o \in LogPlugins \ flawed', o \notin left PROVE GatheredFrom(o, x)
    <3>1. o \in LogPlugins \ flawed
      BY <1>9, <2>2
    <3>2. CASE o = p
      BY <1>1, <1>2, <1>6, <2>2, <3>2
    <3>3. CASE o # p
      <4>1. o \notin q.running
        BY <1>2, <2>2, <3>3
      <4> QED
        BY <1>6, <2>1, <3>1, <4>1 DEF Gathered
    <3> QED
      BY <3>2, <3>3
  <2>3. x.kind = "dates" => Range(x.result) \subseteq AllDays(x.contact)
    BY <1>6, <2>1 DEF Gathered
  <2>4. \A o, c : DaysOf(o, c)' = DaysOf(o, c)
    BY <1>1 DEF DaysOf, toTplEntity
  <2>5. \A c : AllDays(c)' = AllDays(c)
    BY <2>4 DEF AllDays
  <2>6. \A o : GatheredFrom(o, x)' <=> GatheredFrom(o, x)
    BY <1>1, <2>4 DEF GatheredFrom
  <2>7. Counted(x)'
    <3>1. Counted(q)
      BY <2>1 DEF Gathered
    <3>2. /\ x.kind = q.kind /\ x.contact = q.contact /\ x.day = q.day
          /\ x.running = q.running \ {p}
          /\ q.kind \in {"logs", "search"} => x.result = q.result \o new
      BY <1>2, <1>6
    <3>3. /\ flawed' = IF fails THEN flawed \cup {p} ELSE flawed
          /\ database' = database
      BY <1>1
    <3>4. new = IF fails THEN <<>> ELSE FoundBy(p, q)
      BY <1>2
    <3> QED
      BY <1>1, <1>4, <3>1, <3>2, <3>3, <3>4, CountedOn
  <2> QED
    BY <1>6, <2>2, <2>3, <2>5, <2>6, <2>7 DEF Gathered
<1>11. QueryTypes'
  BY <1>1, <1>7 DEF QueryTypes, QueriesInv
<1>12. Awaited' /\ (~logsDisturbed => \A y \in Range(queries') : Gathered(y)')
  BY <1>1, <1>6, <1>7, <1>8, <1>9, <1>10, QueriesGoOn
<1>13. AllGathered'
  BY <1>1, <1>9, <1>12, AnswerStays
<1>14. \A e : HowMany(queries', Bringing(e)) = HowMany(queries, Bringing(e))
  <2> TAKE e
  <2>1. q \in Bringing(e) <=> x \in Bringing(e)
    BY <1>4, <1>6 DEF Bringing
  <2>2. queries[i] \in Bringing(e) <=> x \in Bringing(e)
    BY <1>0, <2>1
  <2> HIDE DEF Bringing
  <2> DEFINE B == Bringing(e)
  <2> HIDE DEF B
  <2>3. queries[i] \in B <=> x \in B
    BY <2>2 DEF B
  <2>4. HowMany([queries EXCEPT ![i] = x], B) = HowMany(queries, B)
    BY <1>3, <1>4, <1>6, <2>3, HowManyChanged
  <2> QED
    BY <1>1, <2>4 DEF B
<1>15. \A e : /\ Asking(e)' \in Nat /\ HowMany(opened', {e.contact}) \in Nat
             /\ Asking(e)' = Asking(e) /\ HowMany(opened', {e.contact}) = HowMany(opened, {e.contact})
  BY <1>1, <1>14, PageNumbers DEF Asking, QueriesInv
<1>16. PagesFilling'
  BY <1>1, <1>9, <1>15, PagesAsBefore
<1> QED
  BY <1>11, <1>12, <1>13, <1>16 DEF QueriesInv

\* Every step keeps the invariant.
LEMMA QueriesStep == QueriesInv /\ [QueriesNext]_logQueryVars => QueriesInv'
<1> SUFFICES ASSUME QueriesInv, [QueriesNext]_logQueryVars PROVE QueriesInv'
  OBVIOUS
<1>1. CASE \E c \in LogContacts : createDetailsWidget(c)
  BY <1>1, WidgetKeeps
<1>2. CASE \E c \in LogContacts : clearContactLogs(c)
  BY <1>2, DisturbedKeeps
<1>3. CASE \E i \in DOMAIN queries, p \in LogPlugins, fails \in BOOLEAN : operationFinished(i, p, fails)
  BY <1>3, OperationKeeps
<1>4. CASE \E i \in DOMAIN queries : onPendingDates(i)
  BY <1>4, PendingDatesKeep
<1>5. CASE \E i \in DOMAIN queries : onPageEventsFinished(i)
  BY <1>5, PageEventsKeep
<1>6. CASE \E i \in DOMAIN queries : LookupFinished(i)
  BY <1>6, LookupFinishedKeeps
<1>7. CASE Lookup(queryEntities) \/ Lookup(search)
  BY <1>7, LookupKeeps
<1>8. CASE clearAccountLogs \/ AccountRemovedFromManager
  BY <1>8, DisturbedKeeps
<1>9. CASE UNCHANGED logQueryVars
  <2> USE <1>9 DEF logQueryVars
  <2>1. QueryTypes'
    BY DEF QueriesInv, QueryTypes
  <2>2. Awaited' /\ (~logsDisturbed => \A q \in Range(queries') : Gathered(q)')
    BY <2>1, QueriesGoOn DEF QueryTypes
  <2>3. \A e : /\ Asking(e)' \in Nat /\ HowMany(opened', {e.contact}) \in Nat
               /\ Asking(e)' = Asking(e) /\ HowMany(opened', {e.contact}) = HowMany(opened, {e.contact})
    BY PageNumbers DEF Asking, QueriesInv
  <2>4. PagesFilling'
    BY <2>3, PagesAsBefore
  <2> HIDE <1>9
  <2>5. AllGathered'
    BY <1>9, <2>2, AnswerStays DEF logQueryVars
  <2> QED
    BY <2>1, <2>2, <2>4, <2>5 DEF QueriesInv
<1> QED
  BY <1>1, <1>2, <1>3, <1>4, <1>5, <1>6, <1>7, <1>8, <1>9 DEF QueriesNext

\* When no query for pages is left, none is asked for: the pages have it.
LEMMA FilledPages == QueriesInv => PagesShowLogs
<1> SUFFICES ASSUME QueriesInv, ~logsDisturbed
             PROVE  /\ \A e \in Range(pageRows) :
                         Times(pageRows, e) <= Times(opened, e.contact) * Cardinality(Holding(e))
                    /\ PagesAreFilled =>
                         \A c \in Range(opened) \cap Latin :
                            \A d \in Range(LastDays(InOrderOfDays(HeldDays(c)))) :
                                AsOftenAsHeld(pageRows, LogEntry(c, d), Times(opened, c))
  BY DEF PagesShowLogs
<1>1. /\ queries \in Seq(GoodQueries) /\ pageRows \in Seq(LogEntries)
      /\ opened \in Seq(LogContacts)
  BY DEF QueriesInv, QueryTypes
<1>2. /\ \A x : Times(pageRows, x) = HowMany(pageRows, {x}) /\ Times(pageRows, x) \in Nat
      /\ \A x : Times(opened, x) = HowMany(opened, {x}) /\ Times(opened, x) \in Nat
  BY <1>1, TimesOf
<1>3. \A e : Most(e, {}) = Cardinality(Holding(e)) /\ Least(e, {}) = Cardinality(Holding(e) \ flawed)
  <2> TAKE e
  <2>1. Holding(e) \ {} = Holding(e) /\ (Holding(e) \ flawed) \ {} = Holding(e) \ flawed
    OBVIOUS
  <2> QED
    BY <2>1 DEF Most, Least
<1>4. ASSUME NEW e \in LogEntries
      PROVE  /\ Asking(e) <= Times(opened, e.contact) /\ Asking(e) \in Nat
             /\ Within(Times(pageRows, e), Times(opened, e.contact) - Asking(e), Most(e, {}), Owed(e))
             /\ Most(e, {}) \in Nat /\ Owed(e) \in Nat
  <2>1. PageFilled(e)
    BY DEF QueriesInv, PagesFilling
  <2> QED
    BY <1>2, <2>1, PageNumbers DEF PageFilled, QueriesInv
<1>5. ASSUME NEW e \in LogEntries
      PROVE  Times(pageRows, e) <= Times(opened, e.contact) * Cardinality(Holding(e))
  <2> DEFINE n == Times(pageRows, e)
             o == Times(opened, e.contact)
             a == Asking(e)
             x == Most(e, {})
  <2>1. n \in Nat /\ o \in Nat /\ a \in Nat /\ x \in Nat /\ a <= o /\ n <= (o - a) * x
    BY <1>2, <1>4 DEF Within
  <2>2. x = Cardinality(Holding(e))
    BY <1>3
  <2> HIDE DEF n, o, a, x
  <2>3. (o - a) * x = o * x - a * x /\ a * x \in Nat /\ o * x \in Int
    BY <2>1
  <2>4. n <= o * x
    BY <2>1, <2>3
  <2> QED
    BY <2>2, <2>4 DEF n, o
<1>6. ASSUME PagesAreFilled, NEW c \in Range(opened) \cap Latin,
             NEW d \in Range(LastDays(InOrderOfDays(HeldDays(c))))
      PROVE  AsOftenAsHeld(pageRows, LogEntry(c, d), Times(opened, c))
  <2>1. c \in LogContacts /\ c \in Latin
    BY <1>1, RangeOf
  <2>2. HeldDays(c) = AllDays(c)
    BY <2>1 DEF HeldDays, AllDays, DaysOf, toTplEntity
  <2> DEFINE e == LogEntry(c, d)
  <2>3. d \in LogDays
    <3> DEFINE U == AllDays(c)
               s == InOrderOfDays(U)
    <3>1. U \in SUBSET LogDays /\ U \in SUBSET Moments /\ IsFiniteSet(U)
      BY <2>1, DaysType DEF QueriesInv, QueryTypes
    <3> HIDE DEF U
    <3>2. s \in Seq(U) /\ Range(s) = U /\ InOrder(s) /\ IsInjective(s)
      BY <3>1, DaysInOrder
    <3> HIDE DEF s
    <3>3. Range(LastDays(s)) \subseteq Range(s)
      BY <3>1, <3>2, LastOfOrder
    <3>4. d \in Range(LastDays(s))
      BY <2>2 DEF s, U
    <3> QED
      BY <3>1, <3>2, <3>3, <3>4
  <2>4. e \in LogEntries /\ e.contact = c /\ e.day = d
    BY <2>1, <2>3, EntryOf
  <2> HIDE DEF e
  <2>5. Owed(e) = Least(e, {})
    BY <2>1, <2>2, <2>4 DEF Owed, Wanted
  <2>6. Asking(e) = 0
    <3>1. \A i \in 1 .. Len(queries) : queries[i].kind \in {"entities", "search"}
      BY <1>1, <1>6, LenProperties DEF PagesAreFilled
    <3>2. \A i \in 1 .. Len(queries) : queries[i] \notin Bringing(e)
      BY <3>1 DEF Bringing
    <3>3. ~Has(queries, Bringing(e))
      BY <3>2 DEF Has
    <3> QED
      BY <1>1, <3>3, HowManyType DEF Asking
  <2>7. Times(opened, c) - 0 = Times(opened, c)
    BY <1>2
  <2>8. Within(Times(pageRows, e), Times(opened, c), Most(e, {}), Least(e, {}))
    BY <1>4, <2>4, <2>5, <2>6, <2>7
  <2>9. AsOftenAsHeld(pageRows, e, Times(opened, c))
    <3> DEFINE n == Times(pageRows, e)
               o == Times(opened, c)
               x == Cardinality(Holding(e))
               y == Cardinality(Holding(e) \ flawed)
    <3>1. o * y <= n /\ n <= o * x /\ n \in Nat /\ o \in Nat /\ x \in Nat /\ y \in Nat
      BY <1>2, <1>3, <1>4, <2>4, <2>5, <2>8 DEF Within
    <3> HIDE DEF n, o, x, y
    <3>2. n >= o * y /\ n <= o * x
      BY <3>1
    <3> QED
      BY <3>2 DEF AsOftenAsHeld, n, o, x, y
  <2> QED
    BY <2>9 DEF e
<1> QED
  BY <1>1, <1>5, <1>6, RangeOf

\* An answer has been joined of all plugins.
LEMMA LookupsHaveAnswers == QueriesInv => LookupsAreAnswered
<1> SUFFICES ASSUME QueriesInv PROVE LookupsAreAnswered
  OBVIOUS
<1>1. ASSUME answered.kind = "entities", ~logsDisturbed
      PROVE  /\ IsInjective(answered.result)
             /\ {c \in LogContacts : \E p \in LogPlugins \ flawed : database[p][c] # {}}
                  \subseteq Range(answered.result)
  <2>1. answered # NoAnswer
    BY <1>1 DEF NoAnswer
  <2>2. answered \in GoodQueries /\ answered.running = {} /\ Gathered(answered)
    BY <1>1, <2>1 DEF QueriesInv, QueryTypes, AllGathered
  <2>3. IsInjective(answered.result)
    BY <1>1, <2>2 DEF GoodQueries, GoodEntities
  <2>4. \A p \in LogPlugins \ flawed : GatheredFrom(p, answered)
    BY <2>2 DEF Gathered
  <2> QED
    BY <1>1, <2>3, <2>4 DEF GatheredFrom
<1>2. \A i \in DOMAIN queries : queries[i].running = {} /\ ~queries[i].finishing => ~accountValid
  <2>1. \A i \in DOMAIN queries : queries[i] \in Range(queries)
    BY DEF Range
  <2> QED
    BY <2>1 DEF QueriesInv, Awaited
<1>3. ASSUME answered.kind = "search", ~logsDisturbed, NEW c \in LogContacts, NEW d \in LogDays
      PROVE  AsOftenAsHeld(answered.result, LogEntry(c, d), 1)
  <2> DEFINE e == LogEntry(c, d)
             r == answered.result
  <2>1. answered # NoAnswer
    BY <1>3 DEF NoAnswer
  <2>2. answered \in GoodQueries /\ answered.running = {} /\ Gathered(answered)
    BY <1>3, <2>1 DEF QueriesInv, QueryTypes, AllGathered
  <2>3. e \in Sought(answered) /\ CanBeFound(e, answered)
    BY <1>3, EntryOf DEF Sought, CanBeFound
  <2>4. r \in Seq(LogEntries)
    BY <1>3, <2>2 DEF GoodQueries, GoodHits
  <2> HIDE DEF e, r
  <2>5. HowMany(r, {e}) <= Most(e, {}) /\ HowMany(r, {e}) >= Least(e, {})
    BY <2>2, <2>3 DEF Gathered, Counted, r
  <2>6. Times(r, e) = HowMany(r, {e}) /\ Times(r, e) \in Nat
    BY <2>4, TimesOf
  <2>7. Most(e, {}) \in Nat /\ Least(e, {}) \in Nat
    BY PluginNumbers
  <2>8. Most(e, {}) = Cardinality(Holding(e)) /\ Least(e, {}) = Cardinality(Holding(e) \ flawed)
    <3>1. Holding(e) \ {} = Holding(e) /\ (Holding(e) \ flawed) \ {} = Holding(e) \ flawed
      OBVIOUS
    <3> QED
      BY <3>1 DEF Most, Least
  <2>9. /\ Times(r, e) >= 1 * Cardinality(Holding(e) \ flawed)
        /\ Times(r, e) <= 1 * Cardinality(Holding(e))
    <3> DEFINE x == Cardinality(Holding(e))
               y == Cardinality(Holding(e) \ flawed)
    <3>1. x \in Nat /\ y \in Nat /\ Times(r, e) >= y /\ Times(r, e) <= x
      BY <2>5, <2>6, <2>7, <2>8
    <3> HIDE DEF x, y
    <3>2. 1 * x = x /\ 1 * y = y
      BY <3>1
    <3> QED
      BY <3>1, <3>2 DEF x, y
  <2> QED
    BY <2>9 DEF AsOftenAsHeld, e, r
<1> QED
  BY <1>1, <1>2, <1>3 DEF LookupsAreAnswered

\* Logs are found (logger): whichever plugins there are, whatever they have and share, and
\* in whatever order they answer or fail, a page shows each message of its last days as
\* often as plugins have it, a search brings each as often, and the viewer gets all
\* entities, each once.
THEOREM LogsStayFound == QueriesInit /\ [][QueriesNext]_logQueryVars => []LogsAreFound
<1>1. QueriesInv => LogsAreFound
  BY FilledPages, LookupsHaveAnswers DEF LogsAreFound
<1> QED
  BY <1>1, QueriesBegin, QueriesStep, PTL
=============================================================================
