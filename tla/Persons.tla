------------------------------ MODULE Persons ------------------------------
(***************************************************************************)
(* The KPeople data source for instant messaging, KTpAllContacts: address  *)
(* book entries of contacts, made from a cache on disk and then bound to   *)
(* the contacts of the connection of an account; and how the translation   *)
(* proxy reads them.  Of an entry, the presence is modelled.               *)
(*                                                                         *)
(* KTp::Contact emits invalidated() when its connection is invalidated and *)
(* again when that is destroyed.  A contact's object may be kept alive by  *)
(* others, by an open chat for one, after it left the contact list.        *)
(***************************************************************************)
EXTENDS Integers, Sequences, FiniteSets, SequencesExt

CONSTANTS
    Uris,               \* contacts of one account
    MaxPeopleConnections  \* bound: connections of the account

ASSUME PersonsAssumption == MaxPeopleConnections \in Nat

Connections == 1 .. MaxPeopleConnections

\* Presence strings; no presence stands for a null variant.
PresenceStrings == {"available", "away", "offline"}
NoPresence == "null"
NoCard == [cached |-> NoPresence, contact |-> 0, account |-> FALSE, exists |-> FALSE]

VARIABLES
    cacheDb,            \* contacts in cache.db
    ready,              \* the account manager is ready
    peopleConnection,   \* of the account, 0 for none
    connectionState,    \* "new", "up", "invalidated" or "destroyed"
    roster,             \* the contact list of that connection
    presences,          \* connection |-> presence of its contacts
    listenedTo,         \* contact objects, <<uri, connection>>, with connected signals
    m_contactVCards,
    readLast,           \* what the users of the source read last
    crashed             \* a slot used a vcard that is not there

personVars == <<cacheDb, ready, peopleConnection, connectionState, roster, presences, listenedTo,
                m_contactVCards, readLast, crashed>>

\* The presence property: live while the contact's connection exists.
customProperty(card, u, states, live) ==
    IF card.contact # 0 /\ states[card.contact] \in {"up", "invalidated"} /\ card.account
    THEN live[card.contact][u] ELSE card.cached

\* contactAdded or contactChanged makes the users read, contactRemoved forget.
Emit(changed) ==
    readLast' = [u \in Uris |-> IF ~m_contactVCards'[u].exists THEN NoPresence
                                ELSE IF u \in changed
                                     THEN customProperty(m_contactVCards'[u], u, connectionState',
                                                         presences')
                                     ELSE readLast[u]]

Cached(cards, uris) ==
    [u \in Uris |-> IF u \in uris THEN [cards[u] EXCEPT !.cached = "offline", !.exists = TRUE]
                    ELSE cards[u]]

\* The constructor calls loadCache.
PersonsInit ==
    /\ cacheDb \in SUBSET Uris
    /\ ready = FALSE /\ peopleConnection = 0
    /\ connectionState = [n \in Connections |-> "new"]
    /\ roster = {}
    /\ presences = [n \in Connections |-> [u \in Uris |-> "offline"]]
    /\ listenedTo = {}
    /\ m_contactVCards = Cached([u \in Uris |-> NoCard], cacheDb)
    /\ readLast = [u \in Uris |-> IF u \in cacheDb THEN "offline" ELSE NoPresence]
    /\ crashed = FALSE

\* Mutant: an entry that is there already is not announced when a contact is bound to it.
AnnouncedOnlyNew(uris) == {u \in uris : ~m_contactVCards[u].exists}

Announced(uris) == uris

\* onAllKnownContactsChanged for contacts of the current connection n.
Bind(uris, n) ==
    /\ m_contactVCards' = [u \in Uris |->
         IF u \in uris
         THEN [m_contactVCards[u] EXCEPT !.contact = n, !.account = TRUE, !.exists = TRUE]
         ELSE m_contactVCards[u]]
    /\ listenedTo' = listenedTo \cup (uris \X {n})
    /\ Emit(Announced(uris))

readPeopleWhenReady ==
    /\ ~ready /\ ready' = TRUE
    /\ UNCHANGED <<cacheDb, peopleConnection, connectionState, roster, presences, crashed>>
    /\ Bind(roster, peopleConnection)

\* The account connects, and its contact list arrives.
ConnectionUp(n, contacts, online) ==
    /\ peopleConnection = 0 /\ connectionState[n] = "new"
    /\ \A m \in 1 .. n - 1 : connectionState[m] # "new"
    /\ peopleConnection' = n /\ connectionState' = [connectionState EXCEPT ![n] = "up"]
    /\ roster' = contacts
    /\ presences' = [presences EXCEPT ![n] = [u \in Uris |-> IF u \in online THEN "available"
                                                             ELSE "offline"]]
    /\ IF ready THEN Bind(contacts, n) ELSE UNCHANGED <<m_contactVCards, listenedTo, readLast>>
    /\ UNCHANGED <<cacheDb, ready, crashed>>

RosterAdded(u) ==
    /\ peopleConnection # 0 /\ u \notin roster /\ roster' = roster \cup {u}
    /\ UNCHANGED <<cacheDb, ready, peopleConnection, connectionState, presences, crashed>>
    /\ IF ready THEN Bind({u}, peopleConnection)
       ELSE UNCHANGED <<m_contactVCards, listenedTo, readLast>>

\* The entry goes; the signals of the contact stay connected, if it is kept alive.
RosterRemoved(u, kept) ==
    /\ peopleConnection # 0 /\ u \in roster /\ roster' = roster \ {u}
    /\ UNCHANGED <<cacheDb, ready, peopleConnection, connectionState, presences, crashed>>
    /\ listenedTo' = IF kept THEN listenedTo ELSE listenedTo \ {<<u, peopleConnection>>}
    /\ m_contactVCards' = IF ready THEN [m_contactVCards EXCEPT ![u] = NoCard] ELSE m_contactVCards
    /\ Emit({})

\* presenceChanged, onContactChanged; without an entry, a null one is announced.
PresenceChanged(u, p) ==
    /\ peopleConnection # 0 /\ u \in roster
    /\ presences[peopleConnection][u] # p
    /\ presences' = [presences EXCEPT ![peopleConnection][u] = p]
    /\ UNCHANGED <<cacheDb, ready, peopleConnection, connectionState, roster, listenedTo,
                   m_contactVCards, crashed>>
    /\ Emit(IF <<u, peopleConnection>> \in listenedTo THEN {u} ELSE {})

\* onContactInvalidated for each of them.
MarkedOffline(cards, uris) ==
    [u \in Uris |-> IF u \in uris THEN [cards[u] EXCEPT !.cached = "offline"] ELSE cards[u]]

ContactsInvalidated(n) == {u \in Uris : <<u, n>> \in listenedTo}

PeopleConnectionInvalidated ==
    /\ peopleConnection # 0
    /\ connectionState' = [connectionState EXCEPT ![peopleConnection] = "invalidated"]
    /\ peopleConnection' = 0 /\ roster' = {}
    /\ UNCHANGED <<cacheDb, ready, presences, listenedTo>>
    /\ LET gone == ContactsInvalidated(peopleConnection)
       IN /\ crashed' = (\E u \in gone : ~m_contactVCards[u].exists)
          /\ m_contactVCards' = MarkedOffline(m_contactVCards, gone)
          /\ Emit(gone)

\* The account goes offline: loadCache, also of contacts that were removed meanwhile.
onAccountCurrentPresenceChanged ==
    /\ ready /\ peopleConnection = 0
    /\ m_contactVCards' = Cached(m_contactVCards, cacheDb)
    /\ UNCHANGED <<cacheDb, ready, peopleConnection, connectionState, roster, presences, listenedTo,
                   crashed>>
    /\ Emit(cacheDb)

PeopleConnectionDestroyed(n) ==
    /\ connectionState[n] = "invalidated"
    /\ connectionState' = [connectionState EXCEPT ![n] = "destroyed"]
    /\ UNCHANGED <<cacheDb, ready, peopleConnection, roster, presences, listenedTo>>
    /\ LET gone == ContactsInvalidated(n)
       IN /\ crashed' = (\E u \in gone : ~m_contactVCards[u].exists)
          /\ m_contactVCards' = MarkedOffline(m_contactVCards, gone)
          /\ Emit(gone)

PersonsNext ==
    /\ ~crashed
    /\ \/ readPeopleWhenReady
       \/ \E n \in Connections, contacts \in SUBSET Uris : \E online \in SUBSET contacts :
            ConnectionUp(n, contacts, online)
       \/ \E u \in Uris : \/ RosterAdded(u)
                          \/ \E kept \in BOOLEAN : RosterRemoved(u, kept)
                          \/ \E p \in PresenceStrings : PresenceChanged(u, p)
       \/ PeopleConnectionInvalidated \/ onAccountCurrentPresenceChanged
       \/ \E n \in Connections : PeopleConnectionDestroyed(n)

-----------------------------------------------------------------------------
(* KPeopleTranslationProxy.                                                *)

CurrentPresence(u) == customProperty(m_contactVCards[u], u, connectionState, presences)

filterAcceptsRow(u) == CurrentPresence(u) # NoPresence

\* The presence text, the capabilities and the client types of a row are not the entry's:
\* they are of the contact that the account's contact list has now under the entry's id.
dataForKTpContact(u) == IF u \in roster THEN peopleConnection ELSE 0

-----------------------------------------------------------------------------
(* Properties.                                                             *)

\* What was read last of each entry is what it says now, however the connection was lost,
\* destroyed late or replaced meanwhile; every entry has a presence, as one without is
\* not shown at all; and its presence and the other columns are of the same contact.
PersonsCurrent ==
    ~crashed => \A u \in Uris : m_contactVCards[u].exists =>
        /\ readLast[u] = CurrentPresence(u) /\ filterAcceptsRow(u)
        /\ ready /\ dataForKTpContact(u) # 0 => m_contactVCards[u].contact = dataForKTpContact(u)
=============================================================================
