----------------------------- MODULE ModelProofs -----------------------------
(* Proofs about the models that views show, each for any values of its       *)
(* constants: the order and the headers of the contact list, avatars,        *)
(* address book entries, the main log, and a tab of the debugger; and about  *)
(* what is imported into logs and the filters that messages run through.     *)
(* As in DesktopProofs, a theorem is about a component alone.                *)
EXTENDS ContactsFilter, Avatars, Persons, ChatLog, DebugView, LogsImport, MessageFilters,
        SequenceItems, FiniteSetTheorems

Contact == [presence : Types, phone : BOOLEAN, rank : Nat]

\* The priority of every type is a number.
LEMMA PriorityIsNumber == ASSUME NEW t \in Types PROVE sortPriority(t) \in 0 .. 6
  BY DEF Types, sortPriority

\* Available comes before all other types.
LEMMA AvailableIsFirst ==
  ASSUME NEW t \in Types, t # "Available" PROVE sortPriority(t) > 0
  BY DEF Types, sortPriority

\* lessThan is a strict order whatever presences, phones and names contacts have: no
\* contact comes before itself, none of two before each other, and the order is
\* transitive.  Offline contacts and those of unknown presence are not ordered.
THEOREM LessThanIsStrictOrder ==
  /\ \A a \in Contact : ~lessThan(a, a)
  /\ \A a, b \in Contact : lessThan(a, b) => ~lessThan(b, a)
  /\ \A a, b, c \in Contact : lessThan(a, b) /\ lessThan(b, c) => lessThan(a, c)
<1>1. ASSUME NEW a \in Contact PROVE ~lessThan(a, a)
  BY <1>1 DEF lessThan, Contact
<1>2. ASSUME NEW a \in Contact, NEW b \in Contact, lessThan(a, b) PROVE ~lessThan(b, a)
  <2>1. CASE a.presence = b.presence
    BY <1>2, <2>1 DEF lessThan, Contact
  <2>2. CASE a.presence # b.presence
    <3>1. sortPriority(a.presence) \in Int /\ sortPriority(b.presence) \in Int
      BY PriorityIsNumber DEF Contact
    <3>2. a.presence = "Available" => sortPriority(a.presence) < sortPriority(b.presence)
      BY <2>2, AvailableIsFirst DEF Contact, sortPriority
    <3>3. b.presence = "Available" => sortPriority(b.presence) < sortPriority(a.presence)
      BY <2>2, AvailableIsFirst DEF Contact, sortPriority
    <3> QED BY <1>2, <2>2, <3>1, <3>2, <3>3 DEF lessThan
  <2> QED BY <2>1, <2>2
<1>3. ASSUME NEW a \in Contact, NEW b \in Contact, NEW c \in Contact,
             lessThan(a, b), lessThan(b, c)
      PROVE  lessThan(a, c)
  <2>1. CASE a.presence = b.presence /\ b.presence = c.presence
    BY <1>3, <2>1 DEF lessThan, Contact
  <2>2. CASE a.presence = b.presence /\ b.presence # c.presence
    BY <1>3, <2>2 DEF lessThan
  <2>3. CASE a.presence # b.presence /\ b.presence = c.presence
    BY <1>3, <2>3 DEF lessThan
  <2>4. CASE a.presence # b.presence /\ b.presence # c.presence
    <3>1. /\ sortPriority(a.presence) \in 0 .. 6 /\ sortPriority(b.presence) \in 0 .. 6
          /\ sortPriority(c.presence) \in 0 .. 6
      BY PriorityIsNumber DEF Contact
    <3>2. ASSUME a.presence # "Available" PROVE b.presence # "Available"
      <4>1. sortPriority(a.presence) < sortPriority(b.presence)
        BY <1>3, <2>4, <3>2 DEF lessThan
      <4>2. sortPriority("Available") = 0
        BY DEF sortPriority
      <4> QED BY <3>1, <4>1, <4>2
    <3>3. b.presence = "Available" \/ Reachable(b.presence)
      BY <1>3, <2>4 DEF lessThan
    <3>4. sortPriority(b.presence) < sortPriority(c.presence)
      BY <1>3, <2>4, AvailableIsFirst DEF lessThan, Contact, sortPriority
    <3>5. sortPriority(a.presence) < sortPriority(b.presence)
      BY <1>3, <2>4, AvailableIsFirst DEF lessThan, Contact, sortPriority
    <3>6. a.presence # c.presence
      BY <3>1, <3>4, <3>5
    <3> QED BY <1>3, <2>4, <3>1, <3>4, <3>5, <3>6 DEF lessThan
  <2> QED BY <2>1, <2>2, <2>3, <2>4
<1> QED BY <1>1, <1>2, <1>3

\* No other contact has the id of k.
Unique(k) == \A other \in AvatarContacts \ {k} : IdOf[other] # IdOf[k]

\* Whatever presence the contact has, the cache has nothing of it or what it is now.  This
\* is stronger than AvatarsAreCurrent, which looks at the key of the current presence only.
CacheIsCurrent ==
    \A k \in AvatarContacts : \A p \in {"online", "offline"} :
        avatarData[k] # 0 /\ Unique(k) => pixmapCache[<<IdOf[k], p>>] \in {0, avatarData[k]}

CacheType ==
    /\ pixmapCache = [key \in Keys |-> pixmapCache[key]]
    /\ avatarData = [k \in AvatarContacts |-> avatarData[k]]

CacheInv == CacheType /\ CacheIsCurrent

\* The key under which a pixmap is looked up is one of the two of the contact's id.
LEMMA KeyIsKnown ==
    ASSUME NEW k \in AvatarContacts
    PROVE  keyCache(k) \in Keys /\ keyCache(k) \in {<<IdOf[k], "online">>, <<IdOf[k], "offline">>}
  BY DEF keyCache, presenceType, Keys

\* The keys of a contact with an id of its own are nobody else's.
LEMMA KeysDiffer ==
    ASSUME NEW k \in AvatarContacts, Unique(k), NEW other \in AvatarContacts, other # k,
           NEW p \in {"online", "offline"}, NEW q \in {"online", "offline"}
    PROVE  <<IdOf[k], p>> # <<IdOf[other], q>>
  BY DEF Unique

\* A contact with an avatar is shown with it if the cache is current.
LEMMA ShownByCache == CacheInv => AvatarsAreCurrent
<1> SUFFICES ASSUME CacheInv, NEW k \in AvatarContacts, avatarData[k] # 0, Unique(k)
             PROVE  Pixmap(k) = avatarData[k]
  BY DEF AvatarsAreCurrent, Unique
<1>1. Loaded(k) = avatarData[k]
  BY DEF Loaded
<1>2. pixmapCache[keyCache(k)] \in {0, avatarData[k]}
  BY KeyIsKnown DEF CacheInv, CacheIsCurrent
<1> QED
  BY <1>1, <1>2 DEF Pixmap

\* Dropping the pixmaps of k and giving it another avatar, or none, keeps the cache current.
LEMMA InvalidateKeeps ==
    ASSUME CacheInv, NEW k \in AvatarContacts, invalidateAvatarCache(k), CacheType',
           \A other \in AvatarContacts \ {k} : avatarData'[other] = avatarData[other]
    PROVE  CacheIsCurrent'
<1> SUFFICES ASSUME NEW j \in AvatarContacts, NEW p \in {"online", "offline"},
                    avatarData'[j] # 0, Unique(j)
             PROVE  pixmapCache'[<<IdOf[j], p>>] \in {0, avatarData'[j]}
  BY DEF CacheIsCurrent, Unique
<1>1. <<IdOf[j], p>> \in Keys
  BY DEF Keys
<1>2. pixmapCache = [key \in Keys |-> pixmapCache[key]]
  BY DEF CacheInv, CacheType
<1>3. CASE j = k
  BY <1>1, <1>2, <1>3 DEF invalidateAvatarCache, Keys
<1>4. CASE j # k
  <2>1. pixmapCache'[<<IdOf[j], p>>] = pixmapCache[<<IdOf[j], p>>]
    BY <1>1, <1>2, <1>4, KeysDiffer DEF invalidateAvatarCache
  <2>2. avatarData'[j] = avatarData[j]
    BY <1>4
  <2> QED
    BY <2>1, <2>2 DEF CacheInv, CacheIsCurrent
<1> QED
  BY <1>3, <1>4

\* Every step keeps the cache current.
LEMMA NextCacheInv == CacheInv /\ [AvatarsNext]_avatarVars => CacheInv'
<1> SUFFICES ASSUME CacheInv, [AvatarsNext]_avatarVars PROVE CacheInv'
  OBVIOUS
<1> USE DEF CacheInv
<1>1. CacheType'
  BY DEF CacheType, AvatarsNext, avatarPixmap, avatarTokenChanged, PresenceTurns, ConnectionEnds,
         NewContact, avatarDataChanged, Evicted, invalidateAvatarCache, avatarVars
<1>2. ASSUME NEW k \in AvatarContacts, avatarPixmap(k) PROVE CacheIsCurrent'
  <2> SUFFICES ASSUME NEW j \in AvatarContacts, NEW p \in {"online", "offline"},
                      avatarData[j] # 0, Unique(j)
               PROVE  pixmapCache'[<<IdOf[j], p>>] \in {0, avatarData[j]}
    BY <1>2 DEF CacheIsCurrent, Unique, avatarPixmap
  <2>1. pixmapCache' = [pixmapCache EXCEPT ![keyCache(k)] = Pixmap(k)]
    BY <1>2 DEF avatarPixmap
  <2>2. <<IdOf[j], p>> \in Keys /\ pixmapCache = [key \in Keys |-> pixmapCache[key]]
    BY DEF Keys, CacheType
  <2>3. CASE <<IdOf[j], p>> = keyCache(k)
    <3>1. j = k
      BY <2>3, KeyIsKnown, KeysDiffer
    <3>2. Pixmap(k) = avatarData[j]
      BY <3>1, ShownByCache DEF AvatarsAreCurrent, Unique
    <3> QED
      BY <2>1, <2>2, <2>3, <3>2
  <2>4. CASE <<IdOf[j], p>> # keyCache(k)
    BY <2>1, <2>2, <2>4 DEF CacheIsCurrent
  <2> QED
    BY <2>3, <2>4
<1>3. ASSUME NEW k \in AvatarContacts, avatarTokenChanged(k) PROVE CacheIsCurrent'
  BY <1>1, <1>3, InvalidateKeeps DEF avatarTokenChanged
<1>4. ASSUME NEW k \in AvatarContacts, PresenceTurns(k) \/ ConnectionEnds(k)
      PROVE  CacheIsCurrent'
  BY <1>4 DEF CacheIsCurrent, Unique, PresenceTurns, ConnectionEnds
<1>5. ASSUME NEW k \in AvatarContacts, NewContact(k) PROVE CacheIsCurrent'
  <2> SUFFICES ASSUME NEW j \in AvatarContacts, NEW p \in {"online", "offline"},
                      avatarData'[j] # 0, Unique(j)
               PROVE  pixmapCache'[<<IdOf[j], p>>] \in {0, avatarData'[j]}
    BY DEF CacheIsCurrent, Unique
  <2>1. avatarData'[j] = avatarData[j] /\ pixmapCache' = pixmapCache
    BY <1>5 DEF NewContact, CacheType
  <2> QED
    BY <2>1 DEF CacheIsCurrent
<1>6. ASSUME NEW k \in AvatarContacts, NEW version \in 0 .. MaxVersion,
             avatarDataChanged(k, version)
      PROVE  CacheIsCurrent'
  BY <1>1, <1>6, InvalidateKeeps DEF avatarDataChanged, CacheType
<1>7. ASSUME NEW key \in Keys, Evicted(key) PROVE CacheIsCurrent'
  <2> SUFFICES ASSUME NEW j \in AvatarContacts, NEW p \in {"online", "offline"},
                      avatarData[j] # 0, Unique(j)
               PROVE  pixmapCache'[<<IdOf[j], p>>] \in {0, avatarData[j]}
    BY <1>7 DEF CacheIsCurrent, Unique, Evicted
  <2>1. <<IdOf[j], p>> \in Keys /\ pixmapCache = [c \in Keys |-> pixmapCache[c]]
    BY DEF Keys, CacheType
  <2> QED
    BY <1>7, <2>1 DEF CacheIsCurrent, Evicted
<1>8. ASSUME UNCHANGED avatarVars PROVE CacheIsCurrent'
  BY <1>8 DEF CacheIsCurrent, Unique, avatarVars
<1>9. ASSUME AvatarsNext PROVE CacheIsCurrent'
  <2>1. ASSUME NEW k \in AvatarContacts,
               \/ avatarPixmap(k) \/ avatarTokenChanged(k) \/ PresenceTurns(k)
               \/ ConnectionEnds(k) \/ NewContact(k)
               \/ \E version \in 0 .. MaxVersion : avatarDataChanged(k, version)
        PROVE  CacheIsCurrent'
    BY <2>1, <1>2, <1>3, <1>4, <1>5, <1>6, Zenon
  <2> QED
    BY <2>1, <1>7, <1>9, Zenon DEF AvatarsNext
<1>10. CacheIsCurrent'
  BY <1>8, <1>9, Zenon
<1> QED
  BY <1>1, <1>10

AvatarsSpec == AvatarsInit /\ [][AvatarsNext]_avatarVars

\* Contacts are shown with their own and newest avatar (avatarPixmap and the slots that
\* invalidate the cache).
THEOREM AvatarsNeverStale == AvatarsSpec => []AvatarsAreCurrent
<1>1. AvatarsInit => CacheInv
  <2> SUFFICES ASSUME AvatarsInit PROVE CacheInv
    OBVIOUS
  <2>1. CacheType
    BY DEF AvatarsInit, CacheType
  <2>2. CacheIsCurrent
    BY DEF AvatarsInit, CacheIsCurrent
  <2> QED
    BY <2>1, <2>2 DEF CacheInv
<1> QED
  BY <1>1, NextCacheInv, ShownByCache, PTL DEF AvatarsSpec

-----------------------------------------------------------------------------
(***************************************************************************)
(* The data source of KPeople.  The signals of the contact that an entry   *)
(* is bound to are connected, so that whatever changes what the entry says *)
(* makes its users read it again.                                          *)
(***************************************************************************)
ConnectionStates == {"new", "up", "invalidated", "destroyed"}
Cards == [cached : PresenceStrings \cup {NoPresence}, contact : {0} \cup Connections,
          account : BOOLEAN, exists : BOOLEAN]

PersonTypes ==
    /\ ready \in BOOLEAN /\ peopleConnection \in {0} \cup Connections
    /\ cacheDb \subseteq Uris /\ roster \subseteq Uris
    /\ connectionState \in [Connections -> ConnectionStates]
    /\ presences \in [Connections -> [Uris -> PresenceStrings]]
    /\ listenedTo \subseteq Uris \X Connections
    /\ m_contactVCards \in [Uris -> Cards]

\* The account's connection is up, and without one there is no contact list.
ConnectionInv ==
    IF peopleConnection = 0 THEN roster = {} ELSE connectionState[peopleConnection] = "up"

\* A contact that an entry is bound to is listened to.
BoundIsHeard(u) ==
    m_contactVCards[u].contact # 0 =>
        /\ m_contactVCards[u].exists = TRUE /\ m_contactVCards[u].account = TRUE /\ ready
        /\ <<u, m_contactVCards[u].contact>> \in listenedTo
        /\ connectionState[m_contactVCards[u].contact] # "new"

\* An entry whose contact does not exist has a presence of its own.
UnboundIsCached(u) ==
    /\ m_contactVCards[u].exists = TRUE
    /\ m_contactVCards[u].contact = 0 \/ connectionState[m_contactVCards[u].contact] = "destroyed"
    => m_contactVCards[u].cached # NoPresence

BoundToCurrent(u) ==
    ready /\ u \in roster /\ m_contactVCards[u].exists = TRUE =>
        m_contactVCards[u].contact = peopleConnection

ReadIsCurrent(u) == m_contactVCards[u].exists = TRUE => readLast[u] = CurrentPresence(u)

EntryInv(u) == BoundIsHeard(u) /\ UnboundIsCached(u) /\ BoundToCurrent(u) /\ ReadIsCurrent(u)

PersonsInv == PersonTypes /\ ConnectionInv /\ \A u \in Uris : EntryInv(u)

\* What the users read once they were told of some entries.
LEMMA EmitReads ==
    ASSUME NEW changed, Emit(changed), NEW u \in Uris, PersonTypes', m_contactVCards'[u].exists = TRUE,
           u \notin changed =>
             /\ m_contactVCards[u].exists = TRUE /\ ReadIsCurrent(u)
             /\ CurrentPresence(u)' = CurrentPresence(u)
    PROVE  ReadIsCurrent(u)'
<1>1. readLast'[u] = IF u \in changed
                     THEN customProperty(m_contactVCards'[u], u, connectionState', presences')
                     ELSE readLast[u]
  BY DEF Emit
<1>2. CurrentPresence(u)' = customProperty(m_contactVCards'[u], u, connectionState', presences')
  BY DEF CurrentPresence, customProperty
<1> QED
  BY <1>1, <1>2 DEF ReadIsCurrent

\* Contacts of the current connection are bound.
LEMMA BindKeeps ==
    ASSUME PersonsInv, NEW uris \in SUBSET Uris, NEW n \in {0} \cup Connections, Bind(uris, n),
           n = peopleConnection', uris # {} => n # 0 /\ connectionState'[n] = "up",
           ready' = TRUE, PersonTypes' <=> m_contactVCards' \in [Uris -> Cards],
           \A m \in Connections : connectionState[m] # "new" =>
              connectionState'[m] = connectionState[m] /\ presences'[m] = presences[m],
           \A u \in roster' : u \in uris \/ (u \in roster /\ ready /\ peopleConnection = n)
    PROVE  PersonTypes' /\ \A u \in Uris : EntryInv(u)'
<1>1. /\ m_contactVCards \in [Uris -> Cards] /\ connectionState \in [Connections -> ConnectionStates]
      /\ \A u \in Uris : EntryInv(u)
  BY DEF PersonsInv, PersonTypes
<1>2. \A u \in Uris : m_contactVCards'[u] =
        IF u \in uris
        THEN [m_contactVCards[u] EXCEPT !.contact = n, !.account = TRUE, !.exists = TRUE]
        ELSE m_contactVCards[u]
  BY DEF Bind
<1>3. ASSUME NEW u \in Uris
      PROVE  /\ m_contactVCards[u] \in Cards /\ m_contactVCards'[u] \in Cards
             /\ u \in uris => /\ m_contactVCards'[u].contact = n /\ m_contactVCards'[u].account = TRUE
                              /\ m_contactVCards'[u].exists = TRUE
  BY <1>1, <1>2 DEF Cards
<1>4. PersonTypes'
  BY <1>3 DEF Bind
<1>5. listenedTo' = listenedTo \cup (uris \X {n}) /\ Emit(uris)
  BY DEF Bind, Announced
<1>6. ASSUME NEW u \in Uris PROVE EntryInv(u)'
  <2>1. CASE u \in uris
    <3>1. /\ m_contactVCards'[u].contact = n /\ m_contactVCards'[u].account = TRUE
          /\ m_contactVCards'[u].exists = TRUE
          /\ n # 0 /\ connectionState'[n] = "up" /\ <<u, n>> \in listenedTo'
      BY <1>3, <1>5, <2>1
    <3>2. ReadIsCurrent(u)'
      BY <1>4, <1>5, <2>1, <3>1, EmitReads
    <3> QED
      BY <3>1, <3>2 DEF EntryInv, BoundIsHeard, UnboundIsCached, BoundToCurrent
  <2>2. CASE u \notin uris
    <3>1. m_contactVCards'[u] = m_contactVCards[u] /\ EntryInv(u) /\ m_contactVCards[u] \in Cards
      BY <1>1, <1>2, <1>3, <2>2
    <3>2. m_contactVCards[u].contact # 0 =>
            /\ m_contactVCards[u].contact \in Connections
            /\ connectionState[m_contactVCards[u].contact] # "new"
            /\ connectionState'[m_contactVCards[u].contact] = connectionState[m_contactVCards[u].contact]
            /\ presences'[m_contactVCards[u].contact] = presences[m_contactVCards[u].contact]
      BY <3>1 DEF EntryInv, BoundIsHeard, Cards
    <3>3. CurrentPresence(u)' = CurrentPresence(u)
      BY <3>1, <3>2 DEF CurrentPresence, customProperty
    <3>4. ReadIsCurrent(u)'
      <4>1. CASE m_contactVCards[u].exists = TRUE
        BY <4>1, <1>4, <1>5, <2>2, <3>1, <3>3, EmitReads DEF EntryInv
      <4>2. CASE m_contactVCards[u].exists # TRUE
        BY <4>2, <3>1 DEF ReadIsCurrent
      <4> QED
        BY <4>1, <4>2
    <3>5. BoundIsHeard(u)'
      BY <1>5, <3>1, <3>2 DEF EntryInv, BoundIsHeard
    <3>6. UnboundIsCached(u)'
      BY <3>1, <3>2 DEF EntryInv, UnboundIsCached
    <3>7. BoundToCurrent(u)'
      BY <3>1, <2>2 DEF EntryInv, BoundToCurrent
    <3> QED
      BY <3>4, <3>5, <3>6, <3>7 DEF EntryInv
  <2> QED
    BY <2>1, <2>2
<1> QED
  BY <1>4, <1>6

\* Contacts of a connection say that they are invalid.
LEMMA GoneKeeps ==
    ASSUME PersonsInv, NEW n \in Connections, NEW s \in {"invalidated", "destroyed"},
           connectionState' = [connectionState EXCEPT ![n] = s],
           connectionState[n] \in {"up", "invalidated"},
           m_contactVCards' = MarkedOffline(m_contactVCards, ContactsInvalidated(n)),
           Emit(ContactsInvalidated(n)),
           UNCHANGED <<cacheDb, ready, presences, listenedTo>>,
           roster' = {} \/ (roster' = roster /\ peopleConnection' = peopleConnection),
           peopleConnection' \in {0} \cup Connections, ConnectionInv'
    PROVE  PersonsInv'
<1> DEFINE gone == ContactsInvalidated(n)
<1>1. /\ m_contactVCards \in [Uris -> Cards] /\ connectionState \in [Connections -> ConnectionStates]
      /\ \A u \in Uris : EntryInv(u)
  BY DEF PersonsInv, PersonTypes
<1>2. \A u \in Uris : m_contactVCards'[u] =
        IF u \in gone THEN [m_contactVCards[u] EXCEPT !.cached = "offline"] ELSE m_contactVCards[u]
  BY DEF MarkedOffline
<1>3. ASSUME NEW u \in Uris
      PROVE  /\ m_contactVCards[u] \in Cards /\ m_contactVCards'[u] \in Cards
             /\ m_contactVCards'[u].contact = m_contactVCards[u].contact
             /\ m_contactVCards'[u].account = m_contactVCards[u].account
             /\ m_contactVCards'[u].exists = m_contactVCards[u].exists
             /\ u \in gone => m_contactVCards'[u].cached = "offline"
             /\ u \notin gone => m_contactVCards'[u].cached = m_contactVCards[u].cached
  BY <1>1, <1>2 DEF Cards, PresenceStrings
<1>4. PersonTypes'
  <2>1. m_contactVCards' \in [Uris -> Cards]
    BY <1>3 DEF MarkedOffline
  <2>2. connectionState' \in [Connections -> ConnectionStates]
    BY <1>1 DEF ConnectionStates
  <2> QED
    BY <2>1, <2>2 DEF PersonsInv, PersonTypes
<1>5. \A m \in Connections : connectionState'[m] = IF m = n THEN s ELSE connectionState[m]
  BY <1>1
<1>6. ASSUME NEW u \in Uris PROVE EntryInv(u)'
  <2>1. EntryInv(u) /\ m_contactVCards[u].contact \in {0} \cup Connections
    BY <1>1, <1>3 DEF Cards
  <2>2. m_contactVCards[u].contact = n /\ n # 0 => u \in gone
    BY <2>1 DEF EntryInv, BoundIsHeard, ContactsInvalidated
  <2>3. n # 0
    BY DEF Connections
  <2>4. BoundIsHeard(u)'
    BY <1>3, <1>5, <2>1 DEF EntryInv, BoundIsHeard
  <2>5. UnboundIsCached(u)'
    BY <1>3, <1>5, <2>1, <2>2, <2>3 DEF EntryInv, UnboundIsCached, NoPresence
  <2>6. BoundToCurrent(u)'
    BY <1>3, <2>1 DEF EntryInv, BoundToCurrent
  <2>7. u \notin gone => CurrentPresence(u)' = CurrentPresence(u)
    BY <1>3, <1>5, <2>1, <2>2, <2>3 DEF CurrentPresence, customProperty
  <2>8. ReadIsCurrent(u)'
    <3>1. CASE m_contactVCards[u].exists = TRUE
      BY <3>1, <1>3, <1>4, <2>1, <2>7, EmitReads DEF EntryInv
    <3>2. CASE m_contactVCards[u].exists # TRUE
      BY <3>2, <1>3 DEF ReadIsCurrent
    <3> QED
      BY <3>1, <3>2
  <2> QED
    BY <2>4, <2>5, <2>6, <2>8 DEF EntryInv
<1> QED
  BY <1>4, <1>6 DEF PersonsInv

\* Every step keeps the invariant.
LEMMA NextPersonsInv == PersonsInv /\ [PersonsNext]_personVars => PersonsInv'
<1> SUFFICES ASSUME PersonsInv, [PersonsNext]_personVars PROVE PersonsInv'
  OBVIOUS
<1>0. /\ ready \in BOOLEAN /\ peopleConnection \in {0} \cup Connections
      /\ cacheDb \subseteq Uris /\ roster \subseteq Uris
      /\ connectionState \in [Connections -> ConnectionStates]
      /\ presences \in [Connections -> [Uris -> PresenceStrings]]
      /\ listenedTo \subseteq Uris \X Connections
      /\ m_contactVCards \in [Uris -> Cards]
      /\ ConnectionInv /\ \A u \in Uris : EntryInv(u)
      /\ 0 \notin Connections
  BY DEF PersonsInv, PersonTypes, Connections
<1>1. CASE UNCHANGED personVars
  BY <1>1 DEF personVars, PersonsInv, PersonTypes, ConnectionInv, EntryInv, BoundIsHeard, UnboundIsCached,
              BoundToCurrent, ReadIsCurrent, CurrentPresence, customProperty
<1>2. CASE readPeopleWhenReady
  <2>1. /\ ready' = TRUE /\ Bind(roster, peopleConnection)
        /\ UNCHANGED <<cacheDb, peopleConnection, connectionState, roster, presences, crashed>>
    BY <1>2 DEF readPeopleWhenReady
  <2>2. ConnectionInv'
    BY <1>0, <2>1 DEF ConnectionInv
  <2>3. roster # {} => peopleConnection # 0 /\ connectionState'[peopleConnection] = "up"
    BY <1>0, <2>1 DEF ConnectionInv
  <2>4. listenedTo' \subseteq Uris \X Connections
    BY <1>0, <2>1, <2>3 DEF Bind
  <2>5. PersonTypes' <=> m_contactVCards' \in [Uris -> Cards]
    BY <1>0, <2>1, <2>4 DEF PersonTypes
  <2> QED
    BY <1>0, <2>1, <2>2, <2>3, <2>5, BindKeeps DEF PersonsInv
<1>3. ASSUME NEW n \in Connections, NEW contacts \in SUBSET Uris, NEW online \in SUBSET contacts,
             ConnectionUp(n, contacts, online)
      PROVE  PersonsInv'
  <2>1. /\ peopleConnection = 0 /\ connectionState[n] = "new"
        /\ peopleConnection' = n /\ connectionState' = [connectionState EXCEPT ![n] = "up"]
        /\ roster' = contacts
        /\ presences' = [presences EXCEPT ![n] = [u \in Uris |-> IF u \in online THEN "available"
                                                                 ELSE "offline"]]
        /\ UNCHANGED <<cacheDb, ready>>
    BY <1>3 DEF ConnectionUp
  <2>2. /\ connectionState' \in [Connections -> ConnectionStates]
        /\ presences' \in [Connections -> [Uris -> PresenceStrings]]
        /\ connectionState'[n] = "up"
        /\ \A m \in Connections : connectionState[m] # "new" =>
              connectionState'[m] = connectionState[m] /\ presences'[m] = presences[m]
    <3>1. [u \in Uris |-> IF u \in online THEN "available" ELSE "offline"] \in [Uris -> PresenceStrings]
      BY DEF PresenceStrings
    <3> QED
      BY <1>0, <2>1, <3>1 DEF ConnectionStates
  <2>3. ConnectionInv'
    BY <1>0, <2>1, <2>2 DEF ConnectionInv
  <2>4. CASE ready
    <3>1. Bind(contacts, n)
      BY <1>3, <2>4 DEF ConnectionUp
    <3>2. listenedTo' \subseteq Uris \X Connections
      BY <1>0, <3>1 DEF Bind
    <3>3. PersonTypes' <=> m_contactVCards' \in [Uris -> Cards]
      BY <1>0, <2>1, <2>2, <3>2 DEF PersonTypes
    <3>4. ready' = TRUE /\ n # 0
      BY <1>0, <2>1, <2>4
    <3> QED
      BY <2>1, <2>2, <2>3, <3>1, <3>3, <3>4, BindKeeps DEF PersonsInv
  <2>5. CASE ~ready
    <3>1. UNCHANGED <<m_contactVCards, listenedTo, readLast>>
      BY <1>3, <2>5 DEF ConnectionUp
    <3>2. \A u \in Uris : m_contactVCards[u].contact = 0
      BY <1>0, <2>5 DEF EntryInv, BoundIsHeard
    <3>3. PersonTypes'
      BY <1>0, <2>1, <2>2, <3>1 DEF PersonTypes
    <3>4. \A u \in Uris : EntryInv(u)'
      BY <1>0, <2>1, <2>5, <3>1, <3>2 DEF EntryInv, BoundIsHeard, UnboundIsCached, BoundToCurrent,
         ReadIsCurrent, CurrentPresence, customProperty
    <3> QED
      BY <2>3, <3>3, <3>4 DEF PersonsInv
  <2> QED
    BY <2>4, <2>5
<1>4. ASSUME NEW v \in Uris, RosterAdded(v) PROVE PersonsInv'
  <2>1. /\ peopleConnection # 0 /\ roster' = roster \cup {v}
        /\ UNCHANGED <<cacheDb, ready, peopleConnection, connectionState, presences, crashed>>
    BY <1>4 DEF RosterAdded
  <2>2. ConnectionInv' /\ connectionState'[peopleConnection] = "up" /\ peopleConnection \in Connections
    BY <1>0, <2>1 DEF ConnectionInv
  <2>3. CASE ready
    <3>1. Bind({v}, peopleConnection)
      BY <1>4, <2>3 DEF RosterAdded
    <3>2. listenedTo' \subseteq Uris \X Connections
      BY <1>0, <2>2, <3>1 DEF Bind
    <3>3. PersonTypes' <=> m_contactVCards' \in [Uris -> Cards]
      BY <1>0, <2>1, <3>2 DEF PersonTypes
    <3>4. ready' = TRUE
      BY <1>0, <2>1, <2>3
    <3> QED
      BY <1>0, <2>1, <2>2, <2>3, <3>1, <3>3, <3>4, BindKeeps DEF PersonsInv
  <2>4. CASE ~ready
    <3>1. UNCHANGED <<m_contactVCards, listenedTo, readLast>>
      BY <1>4, <2>4 DEF RosterAdded
    <3>2. PersonTypes'
      BY <1>0, <2>1, <3>1 DEF PersonTypes
    <3>3. \A u \in Uris : EntryInv(u)'
      BY <1>0, <2>1, <2>4, <3>1 DEF EntryInv, BoundIsHeard, UnboundIsCached, BoundToCurrent,
         ReadIsCurrent, CurrentPresence, customProperty
    <3> QED
      BY <2>2, <3>2, <3>3 DEF PersonsInv
  <2> QED
    BY <2>3, <2>4
<1>5. ASSUME NEW v \in Uris, NEW kept \in BOOLEAN, RosterRemoved(v, kept) PROVE PersonsInv'
  <2>1. /\ peopleConnection # 0 /\ v \in roster /\ roster' = roster \ {v}
        /\ UNCHANGED <<cacheDb, ready, peopleConnection, connectionState, presences, crashed>>
        /\ listenedTo' = IF kept THEN listenedTo ELSE listenedTo \ {<<v, peopleConnection>>}
        /\ m_contactVCards' = IF ready THEN [m_contactVCards EXCEPT ![v] = NoCard] ELSE m_contactVCards
        /\ Emit({})
    BY <1>5 DEF RosterRemoved
  <2>2. NoCard \in Cards /\ NoCard.contact = 0 /\ NoCard.exists = FALSE
    BY DEF NoCard, Cards
  <2>3. PersonTypes' /\ ConnectionInv'
    BY <1>0, <2>1, <2>2 DEF PersonTypes, ConnectionInv
  <2>4. ASSUME NEW u \in Uris PROVE EntryInv(u)'
    <3>1. CASE u = v /\ ready
      <4>1. m_contactVCards'[u] = NoCard
        BY <1>0, <2>1, <3>1
      <4> QED
        BY <2>2, <4>1 DEF EntryInv, BoundIsHeard, UnboundIsCached, BoundToCurrent, ReadIsCurrent
    <3>2. CASE ~(u = v /\ ready)
      <4>1. m_contactVCards'[u] = m_contactVCards[u] /\ EntryInv(u)
        BY <1>0, <2>1, <3>2
      <4>2. m_contactVCards[u].contact # 0 => <<u, m_contactVCards[u].contact>> \in listenedTo'
        BY <2>1, <3>2, <4>1 DEF EntryInv, BoundIsHeard
      <4>3. CurrentPresence(u)' = CurrentPresence(u)
        BY <2>1, <4>1 DEF CurrentPresence, customProperty
      <4>4. ReadIsCurrent(u)'
        <5>1. CASE m_contactVCards[u].exists = TRUE
          BY <5>1, <2>1, <2>3, <4>1, <4>3, EmitReads DEF EntryInv
        <5>2. CASE m_contactVCards[u].exists # TRUE
          BY <5>2, <4>1 DEF ReadIsCurrent
        <5> QED
          BY <5>1, <5>2
      <4> QED
        BY <2>1, <4>1, <4>2, <4>4 DEF EntryInv, BoundIsHeard, UnboundIsCached, BoundToCurrent
    <3> QED
      BY <3>1, <3>2
  <2> QED
    BY <2>3, <2>4 DEF PersonsInv
<1>6. ASSUME NEW v \in Uris, NEW p \in PresenceStrings, PresenceChanged(v, p) PROVE PersonsInv'
  <2>1. /\ peopleConnection # 0
        /\ presences' = [presences EXCEPT ![peopleConnection][v] = p]
        /\ UNCHANGED <<cacheDb, ready, peopleConnection, connectionState, roster, listenedTo,
                       m_contactVCards, crashed>>
        /\ Emit(IF <<v, peopleConnection>> \in listenedTo THEN {v} ELSE {})
    BY <1>6 DEF PresenceChanged
  <2>2. /\ presences' \in [Connections -> [Uris -> PresenceStrings]]
        /\ \A m \in Connections, u \in Uris : m # peopleConnection \/ u # v => presences'[m][u] = presences[m][u]
    BY <1>0, <2>1
  <2>3. PersonTypes' /\ ConnectionInv'
    BY <1>0, <2>1, <2>2 DEF PersonTypes, ConnectionInv
  <2>4. ASSUME NEW u \in Uris PROVE EntryInv(u)'
    <3>1. EntryInv(u) /\ m_contactVCards[u].contact \in {0} \cup Connections
      BY <1>0 DEF Cards
    <3>2. CurrentPresence(u)' = CurrentPresence(u) \/ (u = v /\ <<v, peopleConnection>> \in listenedTo)
      BY <2>1, <2>2, <3>1 DEF CurrentPresence, customProperty, EntryInv, BoundIsHeard
    <3>3. ReadIsCurrent(u)'
      <4>1. CASE m_contactVCards[u].exists = TRUE
        BY <4>1, <2>1, <2>3, <3>1, <3>2, EmitReads DEF EntryInv
      <4>2. CASE m_contactVCards[u].exists # TRUE
        BY <4>2, <2>1 DEF ReadIsCurrent
      <4> QED
        BY <4>1, <4>2
    <3> QED
      BY <2>1, <3>1, <3>3 DEF EntryInv, BoundIsHeard, UnboundIsCached, BoundToCurrent
  <2> QED
    BY <2>3, <2>4 DEF PersonsInv
<1>7. CASE PeopleConnectionInvalidated
  <2>1. /\ peopleConnection \in Connections /\ peopleConnection' = 0 /\ roster' = {}
        /\ connectionState[peopleConnection] = "up"
        /\ connectionState' = [connectionState EXCEPT ![peopleConnection] = "invalidated"]
        /\ m_contactVCards' = MarkedOffline(m_contactVCards, ContactsInvalidated(peopleConnection))
        /\ Emit(ContactsInvalidated(peopleConnection))
        /\ UNCHANGED <<cacheDb, ready, presences, listenedTo>>
    BY <1>0, <1>7 DEF PeopleConnectionInvalidated, ConnectionInv
  <2>2. ConnectionInv'
    BY <2>1 DEF ConnectionInv
  <2> QED
    BY <2>1, <2>2, GoneKeeps
<1>8. ASSUME NEW n \in Connections, PeopleConnectionDestroyed(n) PROVE PersonsInv'
  <2>1. /\ connectionState[n] = "invalidated"
        /\ connectionState' = [connectionState EXCEPT ![n] = "destroyed"]
        /\ m_contactVCards' = MarkedOffline(m_contactVCards, ContactsInvalidated(n))
        /\ Emit(ContactsInvalidated(n))
        /\ UNCHANGED <<cacheDb, ready, peopleConnection, roster, presences, listenedTo>>
    BY <1>8 DEF PeopleConnectionDestroyed
  <2>2. ConnectionInv'
    BY <1>0, <2>1 DEF ConnectionInv
  <2> QED
    BY <1>0, <2>1, <2>2, GoneKeeps
<1>9. CASE onAccountCurrentPresenceChanged
  <2>1. /\ ready /\ peopleConnection = 0 /\ m_contactVCards' = Cached(m_contactVCards, cacheDb)
        /\ UNCHANGED <<cacheDb, ready, peopleConnection, connectionState, roster, presences, listenedTo,
                       crashed>>
        /\ Emit(cacheDb)
    BY <1>9 DEF onAccountCurrentPresenceChanged
  <2>2. ASSUME NEW u \in Uris
        PROVE  /\ m_contactVCards[u] \in Cards /\ m_contactVCards'[u] \in Cards
               /\ m_contactVCards'[u].contact = m_contactVCards[u].contact
               /\ m_contactVCards'[u].account = m_contactVCards[u].account
               /\ u \in cacheDb => m_contactVCards'[u].cached = "offline" /\ m_contactVCards'[u].exists = TRUE
               /\ u \notin cacheDb => m_contactVCards'[u] = m_contactVCards[u]
    BY <1>0, <2>1 DEF Cached, Cards, PresenceStrings
  <2>3. PersonTypes' /\ ConnectionInv'
    <3>1. m_contactVCards' \in [Uris -> Cards]
      BY <2>1, <2>2 DEF Cached
    <3> QED
      BY <1>0, <2>1, <3>1 DEF PersonTypes, ConnectionInv
  <2>4. ASSUME NEW u \in Uris PROVE EntryInv(u)'
    <3>1. EntryInv(u) /\ roster = {}
      BY <1>0, <2>1 DEF ConnectionInv
    <3>2. u \notin cacheDb => CurrentPresence(u)' = CurrentPresence(u)
      BY <2>1, <2>2 DEF CurrentPresence, customProperty
    <3>3. ReadIsCurrent(u)'
      <4>1. CASE m_contactVCards'[u].exists = TRUE
        BY <4>1, <2>1, <2>2, <2>3, <3>1, <3>2, EmitReads DEF EntryInv
      <4>2. CASE m_contactVCards'[u].exists # TRUE
        BY <4>2 DEF ReadIsCurrent
      <4> QED
        BY <4>1, <4>2
    <3>4. BoundIsHeard(u)'
      BY <2>1, <2>2, <3>1 DEF EntryInv, BoundIsHeard
    <3>5. UnboundIsCached(u)'
      BY <2>1, <2>2, <3>1 DEF EntryInv, UnboundIsCached, NoPresence
    <3>6. BoundToCurrent(u)'
      BY <2>1, <3>1 DEF BoundToCurrent
    <3> QED
      BY <3>3, <3>4, <3>5, <3>6 DEF EntryInv
  <2> QED
    BY <2>3, <2>4 DEF PersonsInv
<1> QED
  BY <1>1, <1>2, <1>3, <1>4, <1>5, <1>6, <1>7, <1>8, <1>9 DEF PersonsNext

\* The invariant holds initially.
LEMMA InitPersonsInv == PersonsInit => PersonsInv
<1> SUFFICES ASSUME PersonsInit PROVE PersonsInv
  OBVIOUS
<1>1. /\ NoCard \in Cards /\ NoCard.contact = 0 /\ NoCard.exists = FALSE
      /\ [NoCard EXCEPT !.cached = "offline", !.exists = TRUE] \in Cards
      /\ [NoCard EXCEPT !.cached = "offline", !.exists = TRUE].contact = 0
      /\ [NoCard EXCEPT !.cached = "offline", !.exists = TRUE].cached = "offline"
  BY DEF NoCard, Cards, PresenceStrings
<1>2. \A u \in Uris : m_contactVCards[u] = IF u \in cacheDb
                                           THEN [NoCard EXCEPT !.cached = "offline", !.exists = TRUE]
                                           ELSE NoCard
  BY DEF PersonsInit, Cached
<1>3. PersonTypes
  <2>1. m_contactVCards \in [Uris -> Cards]
    BY <1>1, <1>2 DEF PersonsInit, Cached
  <2> QED
    BY <2>1 DEF PersonsInit, PersonTypes, ConnectionStates, PresenceStrings
<1>4. ConnectionInv
  BY DEF PersonsInit, ConnectionInv
<1>5. ASSUME NEW u \in Uris PROVE EntryInv(u)
  BY <1>1, <1>2 DEF PersonsInit, EntryInv, BoundIsHeard, UnboundIsCached, BoundToCurrent, ReadIsCurrent,
     CurrentPresence, customProperty, NoPresence
<1> QED
  BY <1>3, <1>4, <1>5 DEF PersonsInv

\* What was read last of an entry is what it says now; it has a presence, and is of the
\* contact that the account has now, for any number of contacts and connections.
THEOREM PersonsStayCurrent == PersonsInit /\ [][PersonsNext]_personVars => []PersonsCurrent
<1>1. ASSUME PersonsInv PROVE PersonsCurrent
  <2> SUFFICES ASSUME NEW u \in Uris, m_contactVCards[u].exists
               PROVE  /\ readLast[u] = CurrentPresence(u) /\ filterAcceptsRow(u)
                      /\ ready /\ dataForKTpContact(u) # 0 =>
                           m_contactVCards[u].contact = dataForKTpContact(u)
    BY DEF PersonsCurrent
  <2>1. m_contactVCards[u] \in Cards /\ EntryInv(u) /\ m_contactVCards[u].exists = TRUE
    BY <1>1 DEF PersonsInv, PersonTypes, Cards
  <2>2. readLast[u] = CurrentPresence(u)
    BY <2>1 DEF EntryInv, ReadIsCurrent
  <2>3. filterAcceptsRow(u)
    <3>1. CASE m_contactVCards[u].contact = 0
      BY <2>1, <3>1 DEF EntryInv, UnboundIsCached, filterAcceptsRow, CurrentPresence, customProperty
    <3>2. CASE m_contactVCards[u].contact # 0
      <4>1. /\ m_contactVCards[u].contact \in Connections
            /\ connectionState[m_contactVCards[u].contact] \in ConnectionStates \ {"new"}
            /\ presences[m_contactVCards[u].contact][u] \in PresenceStrings
            /\ m_contactVCards[u].account = TRUE
        BY <1>1, <2>1, <3>2 DEF EntryInv, BoundIsHeard, Cards, PersonsInv, PersonTypes
      <4> QED
        BY <2>1, <3>2, <4>1 DEF EntryInv, UnboundIsCached, filterAcceptsRow, CurrentPresence,
           customProperty, ConnectionStates, PresenceStrings, NoPresence
    <3> QED
      BY <3>1, <3>2
  <2>4. ready /\ dataForKTpContact(u) # 0 => m_contactVCards[u].contact = dataForKTpContact(u)
    BY <2>1 DEF EntryInv, BoundToCurrent, dataForKTpContact
  <2> QED
    BY <2>2, <2>3, <2>4
<1> QED
  BY <1>1, InitPersonsInv, NextPersonsInv, PTL

-----------------------------------------------------------------------------
(***************************************************************************)
(* The contacts filter.                                                    *)
(***************************************************************************)
Children(h) == {r \in SourceRows : parentOf[r] = h}

\* Header h was painted with the numbers of its rows as they are.
Painted(h) ==
    lastNumbers[h] = [online |-> Cardinality(Children(h) \cap shownRows),
                      total |-> Cardinality(Children(h))]

FilterInv ==
    /\ parentOf \in [SourceRows -> Headers \cup {NoParent}]
    /\ DOMAIN details = SourceRows /\ details = [r \in SourceRows |-> details[r]]
    /\ shownRows = Accepted(parentOf, details, filter)
    /\ \A h \in Headers \cap shownRows : h \in toRepaint \/ Painted(h)

LEMMA FilterBegins == FilterInit => FilterInv
<1> SUFFICES ASSUME FilterInit PROVE FilterInv
  OBVIOUS
<1>1. shownRows = Accepted(parentOf, details, filter)
  BY DEF FilterInit, Accepted, filterAcceptsHeader, Unfiltered
<1>2. \A h \in Headers : Children(h) = {}
  BY FilterAssumption DEF FilterInit, Children
<1>3. \A h \in Headers : Painted(h)
  BY <1>2, FS_EmptySet DEF Painted, FilterInit
<1> QED
  BY <1>1, <1>3 DEF FilterInv, FilterInit

\* What the view reads of a header is the number of its rows after the step.
LEMMA ReadIsPainted ==
    ASSUME NEW h \in Headers, lastNumbers'[h] = HeaderData(h) PROVE Painted(h)'
<1>1. Children(h)' = {r \in SourceRows : parentOf'[r] = h}
  BY DEF Children
<1>2. Children(h)' \cap shownRows' = {r \in SourceRows \cap shownRows' : parentOf'[r] = h}
  BY DEF Children
<1> QED
  BY <1>1, <1>2 DEF Painted, HeaderData

\* A header whose rows stay, shown or not, has the same numbers.
LEMMA SameIsPainted ==
    ASSUME NEW h \in Headers, Painted(h), lastNumbers'[h] = lastNumbers[h],
           \A r \in SourceRows : parentOf'[r] = h <=> parentOf[r] = h,
           \A r \in SourceRows : parentOf[r] = h => (r \in shownRows' <=> r \in shownRows)
    PROVE  Painted(h)'
<1>1. Children(h)' = Children(h) /\ Children(h)' \cap shownRows' = Children(h) \cap shownRows
  BY DEF Children
<1> QED
  BY <1>1 DEF Painted

LEMMA SourceChangesKept ==
    ASSUME FilterInv, NEW r \in SourceRows, NEW parent \in Headers \cup {NoParent},
           NEW d \in ContactDetails, SourceChanges(r, parent, d)
    PROVE  FilterInv'
<1>1. /\ parentOf' = [parentOf EXCEPT ![r] = parent] /\ details' = [details EXCEPT ![r] = d]
      /\ shownRows' = Accepted(parentOf', details', filter) /\ filter' = filter
      /\ sourceModelParentIndexChanged({parentOf[r], parent} \cap Headers)
  BY DEF SourceChanges
<1>2. /\ parentOf' \in [SourceRows -> Headers \cup {NoParent}]
      /\ DOMAIN details' = SourceRows /\ details' = [q \in SourceRows |-> details'[q]]
      /\ shownRows' = Accepted(parentOf', details', filter')
  BY <1>1 DEF FilterInv
<1>3. ASSUME NEW h \in Headers, h \in shownRows', h \notin toRepaint' PROVE Painted(h)'
  <2>1. CASE h \in {parentOf[r], parent}
    <3>1. lastNumbers'[h] = HeaderData(h)
      BY <1>1, <1>3, <2>1 DEF sourceModelParentIndexChanged
    <3> QED
      BY <3>1, ReadIsPainted
  <2>2. CASE h \notin {parentOf[r], parent}
    <3>1. lastNumbers'[h] = lastNumbers[h] /\ h \notin toRepaint
      BY <1>1, <1>3, <2>2 DEF sourceModelParentIndexChanged
    <3>2. \A q \in SourceRows : parentOf'[q] = h <=> parentOf[q] = h
      BY <1>1, <2>2 DEF FilterInv
    <3>3. \A q \in SourceRows : q # r => (q \in shownRows' <=> q \in shownRows)
      <4> SUFFICES ASSUME NEW q \in SourceRows, q # r PROVE q \in shownRows' <=> q \in shownRows
        OBVIOUS
      <4>1. parentOf'[q] = parentOf[q] /\ details'[q] = details[q]
        BY <1>1 DEF FilterInv
      <4> QED
        BY <1>1, <4>1 DEF FilterInv, Accepted
    <3>4. h \in shownRows
      <4>1. h \notin SourceRows
        BY FilterAssumption
      <4> QED
        BY <1>1, <1>3, <4>1 DEF FilterInv, Accepted
    <3>5. Painted(h)
      BY <3>1, <3>4 DEF FilterInv
    <3>6. \A q \in SourceRows : parentOf[q] = h => (q \in shownRows' <=> q \in shownRows)
      BY <2>2, <3>3
    <3> QED
      BY <3>1, <3>2, <3>5, <3>6, SameIsPainted
  <2> QED
    BY <2>1, <2>2
<1> QED
  BY <1>2, <1>3 DEF FilterInv

LEMMA InvalidateKept ==
    ASSUME FilterInv, invalidateFilter, UNCHANGED <<parentOf, details>> PROVE FilterInv'
<1>1. shownRows' = Accepted(parentOf', details', filter')
  BY DEF invalidateFilter
<1>2. ASSUME NEW h \in Headers, h \in shownRows', h \notin toRepaint' PROVE Painted(h)'
  <2>1. CASE h \notin shownRows
    <3>1. lastNumbers'[h] = HeaderData(h)
      BY <1>2, <2>1 DEF invalidateFilter
    <3> QED
      BY <3>1, ReadIsPainted
  <2>2. CASE h \in shownRows
    <3>1. lastNumbers'[h] = lastNumbers[h]
      BY <1>2, <2>2 DEF invalidateFilter
    <3>2. h \notin toRepaint
      BY <1>2, <2>2 DEF invalidateFilter
    <3>3. ASSUME NEW q \in SourceRows, parentOf[q] = h PROVE q \in shownRows' <=> q \in shownRows
      <4>1. q \in Listed
        BY <3>3, FilterAssumption DEF Listed
      <4> QED
        BY <1>2, <2>2, <3>3, <4>1 DEF invalidateFilter
    <3>4. Painted(h)
      BY <2>2, <3>2 DEF FilterInv
    <3> QED
      BY <3>1, <3>3, <3>4, SameIsPainted
  <2> QED
    BY <2>1, <2>2
<1> QED
  BY <1>1, <1>2 DEF FilterInv

LEMMA SetFilterKept == ASSUME FilterInv, NEW setting, setFilter(setting) PROVE FilterInv'
  BY InvalidateKept DEF setFilter

\* The header of a group or an account that is shown has the numbers of its rows, whatever
\* rows come, go, change and move below it and whatever filters are set, unless a setter
\* was the last to change what it shows.
THEOREM HeadersKeepCount == FilterInit /\ [][FilterNext]_filterVars => []HeadersCount
<1>1. FilterInit => FilterInv
  BY FilterBegins
<1>2. FilterInv /\ [FilterNext]_filterVars => FilterInv'
  <2> SUFFICES ASSUME FilterInv, [FilterNext]_filterVars PROVE FilterInv'
    OBVIOUS
  <2>1. CASE \E r \in SourceRows, h \in Headers \cup {NoParent}, d \in ContactDetails :
               SourceChanges(r, h, d)
    BY <2>1, SourceChangesKept
  <2>2. CASE setFilterFlags \/ setGlobalFilter \/ setNameOrGroupsFilter \/ setOtherFilter
    BY <2>2, SetFilterKept
       DEF setFilterFlags, setGlobalFilter, setNameOrGroupsFilter, setOtherFilter
  <2>3. CASE UNCHANGED filterVars
    <3>1. \A h \in Headers : Painted(h)' <=> Painted(h)
      BY <2>3 DEF filterVars, Painted, Children
    <3> QED
      BY <2>3, <3>1 DEF filterVars, FilterInv, Accepted
  <2> QED
    BY <2>1, <2>2, <2>3 DEF FilterNext
<1>3. FilterInv => HeadersCount
  BY DEF FilterInv, HeadersCount, Painted, Children
<1> QED
  BY <1>1, <1>2, <1>3, PTL

-----------------------------------------------------------------------------
(***************************************************************************)
(* The main log.                                                           *)
(***************************************************************************)
LogChannel == [partner : Partners, state : {"offered", "handled", "elsewhere", "closed"},
               unread : BOOLEAN]
LogConversation == [channel : Nat, valid : BOOLEAN]
LogRow == [partner : Partners, conversation : Nat]

LogTypes ==
    /\ logChannels \in Seq(LogChannel) /\ logConversations \in Seq(LogConversation)
    /\ m_logItems \in Seq(LogRow) /\ m_conversations \in [Partners -> Nat]
    /\ DOMAIN rowsRead = 1 .. Len(m_logItems)
    /\ query \in Seq(Partners)
    /\ \A m, n \in 1 .. Len(query) : query[m] = query[n] => m = n

\* Rows have conversations of their own.
LogRefs ==
    /\ \A c \in 1 .. Len(logConversations) : logConversations[c].channel <= Len(logChannels)
    /\ \A i \in 1 .. Len(m_logItems) : m_logItems[i].conversation \in 1 .. Len(logConversations)
    /\ \A i, j \in 1 .. Len(m_logItems) :
         m_logItems[i].conversation = m_logItems[j].conversation => i = j
    /\ \A p \in Partners : m_conversations[p] <= Len(logConversations)

\* The conversation of a row is the one of its contact; before the query is used all rows
\* are early.
LogRows ==
    /\ \A i \in 1 .. Len(m_logItems) :
         m_logItems[i].partner \notin early =>
             m_conversations[m_logItems[i].partner] = m_logItems[i].conversation
    /\ ~accountManagerReady => \A i \in 1 .. Len(m_logItems) : m_logItems[i].partner \in early

LogShown == \A i \in 1 .. Len(m_logItems) : rowData(i).live => rowsRead[i] = rowData(i)

LogInv == LogTypes /\ LogRefs /\ LogRows /\ LogShown

\* What the sequences hold.
LEMMA LogItemTypes ==
    ASSUME LogInv
    PROVE  /\ Len(logChannels) \in Nat /\ Len(logConversations) \in Nat /\ Len(m_logItems) \in Nat
           /\ DOMAIN logChannels = 1 .. Len(logChannels)
           /\ DOMAIN logConversations = 1 .. Len(logConversations)
           /\ \A ch \in 1 .. Len(logChannels) : logChannels[ch] \in LogChannel
           /\ \A c \in 1 .. Len(logConversations) :
                /\ logConversations[c] \in LogConversation
                /\ logConversations[c].channel \in 0 .. Len(logChannels)
           /\ \A i \in 1 .. Len(m_logItems) :
                /\ m_logItems[i].partner \in Partners
                /\ m_logItems[i].conversation \in 1 .. Len(logConversations)
<1>1. /\ Len(logChannels) \in Nat /\ Len(logConversations) \in Nat /\ Len(m_logItems) \in Nat
      /\ DOMAIN logChannels = 1 .. Len(logChannels)
      /\ DOMAIN logConversations = 1 .. Len(logConversations)
  BY LenProperties DEF LogInv, LogTypes
<1>4. \A ch \in 1 .. Len(logChannels) : logChannels[ch] \in LogChannel
  BY ElementOfSeq DEF LogInv, LogTypes
<1>2. \A c \in 1 .. Len(logConversations) : logConversations[c] \in LogConversation
  BY ElementOfSeq DEF LogInv, LogTypes
<1>3. \A i \in 1 .. Len(m_logItems) : m_logItems[i] \in LogRow
  BY ElementOfSeq DEF LogInv, LogTypes
<1> QED
  BY <1>1, <1>2, <1>3, <1>4 DEF LogInv, LogRefs, LogConversation, LogRow

LEMMA LogBegins == ChatLogInit => LogInv
<1> SUFFICES ASSUME ChatLogInit PROVE LogInv
  OBVIOUS
<1>1. db \in SUBSET Partners /\ query \in SetToSeqs(db)
  BY DEF ChatLogInit
<1>2. Cardinality(db) \in Nat
  BY <1>1, ChatLogAssumption, FS_Subset, FS_CardinalityType
<1>3. /\ query \in [1 .. Cardinality(db) -> db]
      /\ \A m, n \in 1 .. Cardinality(db) : m # n => query[m] # query[n]
  BY <1>1, Zenon DEF SetToSeqs
<1>4. query \in Seq(db) /\ Len(query) = Cardinality(db)
  BY <1>2, <1>3, SeqOfItems
<1>5. query \in Seq(Partners)
  BY <1>1, <1>4, SeqOfItems, <1>2, <1>3
<1>6. LogTypes
  BY <1>3, <1>4, <1>5 DEF ChatLogInit, LogTypes
<1> QED
  BY <1>6 DEF ChatLogInit, LogInv, LogRefs, LogRows, LogShown

\* What the view read of a row is right if it is new or announced, or has not changed.
LEMMA ReadRight ==
    ASSUME LogInv, NEW changed, RowsRead(changed), m_logItems' \in Seq(LogRow),
           \A i \in 1 .. Len(m_logItems) :
             i \notin changed => rowData(i)' = rowData(i) \/ ~rowData(i)'.live
    PROVE  DOMAIN rowsRead' = 1 .. Len(m_logItems') /\ LogShown'
<1>1. /\ rowsRead' = [i \in 1 .. Len(m_logItems') |->
                  IF i \in changed \/ i \notin 1 .. Len(m_logItems) THEN rowData(i)' ELSE rowsRead[i]]
  BY DEF RowsRead, LogInv, LogTypes
<1>2. ASSUME NEW i \in 1 .. Len(m_logItems'), rowData(i)'.live PROVE rowsRead'[i] = rowData(i)'
  <2>1. CASE i \in changed \/ i \notin 1 .. Len(m_logItems)
    BY <1>1, <2>1
  <2>2. CASE i \notin changed /\ i \in 1 .. Len(m_logItems)
    <3>1. rowData(i)' = rowData(i)
      BY <1>2, <2>2
    <3>2. rowsRead[i] = rowData(i)
      BY <1>2, <2>2, <3>1 DEF LogInv, LogShown
    <3> QED
      BY <1>1, <2>2, <3>1, <3>2
  <2> QED
    BY <2>1, <2>2
<1> QED
  BY <1>1, <1>2 DEF LogShown

\* New channels come behind the others, which stay as unread as they are.
ChannelsGrow ==
    /\ logChannels' \in Seq(LogChannel) /\ Len(logChannels) <= Len(logChannels')
    /\ \A ch \in 1 .. Len(logChannels) : logChannels'[ch].unread = logChannels[ch].unread

\* A row whose conversation is the same shows the same.
LEMMA SameData ==
    ASSUME LogInv, ChannelsGrow, NEW i \in 1 .. Len(m_logItems), i \in 1 .. Len(m_logItems'),
           m_logItems'[i] = m_logItems[i],
           logConversations'[ConversationAt(i)] = logConversations[ConversationAt(i)]
    PROVE  rowData(i)' = rowData(i)
<1> DEFINE c == logConversations[ConversationAt(i)]
<1>1. ConversationAt(i) \in 1 .. Len(logConversations) /\ ConversationAt(i)' = ConversationAt(i)
  BY DEF LogInv, LogRefs, ConversationAt
<1>2. c \in LogConversation /\ c.channel <= Len(logChannels) /\ logConversations'[ConversationAt(i)'] = c
  BY <1>1 DEF LogInv, LogTypes, LogRefs
<1>3. c.channel # 0 => logChannels'[c.channel].unread = logChannels[c.channel].unread
  BY <1>2 DEF ChannelsGrow, LogInv, LogTypes, LogConversation
<1>4. rowData(i) = [live |-> c.valid, unread |-> c.valid /\ c.channel # 0 /\ logChannels[c.channel].unread]
  BY DEF rowData
<1>5. rowData(i)' = [live |-> c.valid, unread |-> c.valid /\ c.channel # 0 /\ logChannels'[c.channel].unread]
  BY <1>2 DEF rowData
<1> HIDE DEF c
<1>6. (c.valid /\ c.channel # 0 /\ logChannels'[c.channel].unread)
        = (c.valid /\ c.channel # 0 /\ logChannels[c.channel].unread)
  BY <1>3
<1> QED
  BY <1>4, <1>5, <1>6

\* The channels change, but nothing that the rows show.
LEMMA LogQuietKept ==
    ASSUME LogInv, ChannelsGrow,
           UNCHANGED <<query, accountManagerReady, logConversations, m_logItems, m_conversations,
                       rowsRead, early>>
    PROVE  LogInv'
<1>1. \A i \in 1 .. Len(m_logItems) : rowData(i)' = rowData(i)
  BY SameData
<1>2. LogTypes'
  BY DEF LogInv, LogTypes, ChannelsGrow
<1>3. LogRefs'
  <2>1. Len(logChannels') \in Nat /\ Len(logChannels) <= Len(logChannels')
    BY LenProperties DEF ChannelsGrow
  <2> QED
    BY <2>1, LogItemTypes DEF LogInv, LogRefs
<1>4. LogRows'
  BY DEF LogInv, LogRows
<1>5. LogShown'
  BY <1>1 DEF LogInv, LogShown
<1> QED
  BY <1>2, <1>3, <1>4, <1>5 DEF LogInv

\* A row is added for a contact without one, with a new conversation.
LEMMA RowAdded ==
    ASSUME LogInv, ChannelsGrow, UNCHANGED <<query, accountManagerReady>>,
           NEW p \in Partners, RowsOf(p) = {}, NEW c \in LogConversation,
           c.channel <= Len(logChannels'),
           logConversations' = Append(logConversations, c),
           m_logItems' = Append(m_logItems, LogItem(p, Len(logConversations) + 1)),
           m_conversations' = [m_conversations EXCEPT ![p] = Len(logConversations) + 1],
           RowsRead({}),
           early' = IF accountManagerReady THEN early ELSE early \cup {p}
    PROVE  LogInv'
<1> DEFINE n == Len(logConversations) + 1
           k == Len(m_logItems) + 1
<1>0. n \in Nat /\ LogItem(p, n) \in LogRow /\ LogItem(p, n).conversation = n /\ LogItem(p, n).partner = p
  BY DEF LogItem, LogRow, LogInv, LogTypes
<1>1. /\ Len(logConversations') = n /\ logConversations'[n] = c
      /\ \A i \in 1 .. Len(logConversations) : logConversations'[i] = logConversations[i]
      /\ logConversations' \in Seq(LogConversation) /\ Len(logConversations) \in Nat
  BY AppendProperties DEF LogInv, LogTypes
<1>2. /\ Len(m_logItems') = k /\ m_logItems'[k] = LogItem(p, n)
      /\ \A i \in 1 .. Len(m_logItems) : m_logItems'[i] = m_logItems[i]
      /\ m_logItems' \in Seq(LogRow) /\ Len(m_logItems) \in Nat
  BY <1>0, AppendProperties DEF LogInv, LogTypes
<1> HIDE DEF n, k
<1>a. \A i \in 1 .. k : i \in 1 .. Len(m_logItems) \/ i = k
  BY <1>2 DEF k
<1>3. \A i \in 1 .. Len(m_logItems) : rowData(i)' = rowData(i)
  <2> SUFFICES ASSUME NEW i \in 1 .. Len(m_logItems) PROVE rowData(i)' = rowData(i)
    OBVIOUS
  <2>1. ConversationAt(i) \in 1 .. Len(logConversations)
    BY DEF LogInv, LogRefs, ConversationAt
  <2>2. i \in 1 .. Len(m_logItems') /\ m_logItems'[i] = m_logItems[i]
    BY <1>2 DEF k
  <2> QED
    BY <1>1, <2>1, <2>2, SameData
<1>4. DOMAIN rowsRead' = 1 .. Len(m_logItems') /\ LogShown'
  BY <1>2, <1>3, ReadRight
<1>5. LogTypes'
  BY <1>0, <1>1, <1>2, <1>4 DEF LogInv, LogTypes, ChannelsGrow, n
<1>6. LogRefs'
  <2>1. \A i \in 1 .. Len(logConversations') : logConversations'[i].channel <= Len(logChannels')
    <3> SUFFICES ASSUME NEW i \in 1 .. Len(logConversations')
                 PROVE  logConversations'[i].channel <= Len(logChannels')
      OBVIOUS
    <3>1. CASE i = n
      BY <1>1, <3>1
    <3>2. CASE i \in 1 .. Len(logConversations)
      <4>1. logConversations'[i] = logConversations[i] /\ logConversations[i] \in LogConversation
        BY <1>1, <3>2 DEF LogInv, LogTypes
      <4>2. logConversations[i].channel \in Nat /\ logConversations[i].channel <= Len(logChannels)
        BY <3>2, <4>1 DEF LogInv, LogRefs, LogConversation
      <4>3. Len(logChannels) \in Nat /\ Len(logChannels') \in Nat /\ Len(logChannels) <= Len(logChannels')
        BY DEF LogInv, LogTypes, ChannelsGrow
      <4> QED
        BY <4>1, <4>2, <4>3
    <3> QED
      BY <1>1, <3>1, <3>2 DEF n
  <2>2. \A i \in 1 .. Len(m_logItems') : m_logItems'[i].conversation \in 1 .. n
    BY <1>0, <1>1, <1>2, <1>a DEF LogInv, LogRefs, n
  <2>3. \A i \in 1 .. Len(m_logItems) : m_logItems'[i].conversation # n
    BY <1>1, <1>2 DEF LogInv, LogRefs, n
  <2>4. \A i, j \in 1 .. Len(m_logItems') :
          m_logItems'[i].conversation = m_logItems'[j].conversation => i = j
    BY <1>0, <1>2, <1>a, <2>3 DEF LogInv, LogRefs
  <2>5. \A q \in Partners : m_conversations'[q] <= n
    BY <1>1 DEF LogInv, LogTypes, LogRefs, n
  <2> QED
    BY <1>1, <2>1, <2>2, <2>4, <2>5 DEF LogRefs
<1>b. early \subseteq early'
  BY DEF LogInv
<1>7. LogRows'
  <2>1. \A i \in 1 .. Len(m_logItems) : m_logItems'[i].partner # p
    BY <1>2 DEF RowsOf, LogInv, LogTypes
  <2>2. ASSUME NEW i \in 1 .. Len(m_logItems'), m_logItems'[i].partner \notin early'
        PROVE  m_conversations'[m_logItems'[i].partner] = m_logItems'[i].conversation
    <3>1. CASE i = k
      BY <1>0, <1>2, <3>1 DEF LogInv, LogTypes, n
    <3>2. CASE i \in 1 .. Len(m_logItems)
      <4>1. m_logItems[i].partner \in Partners /\ m_logItems[i].partner # p /\ m_logItems[i].partner \notin early
        BY <1>2, <1>b, <2>1, <2>2, <3>2, LogItemTypes
      <4> QED
        BY <1>2, <3>2, <4>1 DEF LogInv, LogTypes, LogRows
    <3> QED
      BY <1>2, <1>a, <3>1, <3>2
  <2>3. ~accountManagerReady' => \A i \in 1 .. Len(m_logItems') : m_logItems'[i].partner \in early'
    BY <1>0, <1>2, <1>a DEF LogInv, LogRows
  <2> QED
    BY <2>2, <2>3 DEF LogRows
<1> QED
  BY <1>4, <1>5, <1>6, <1>7 DEF LogInv

LEMMA WithChannelIsOne ==
    ASSUME NEW c \in LogConversation, NEW ch \in Nat, NEW n \in Nat, ch <= n, c.channel <= n
    PROVE  WithChannel(c, ch) \in LogConversation /\ WithChannel(c, ch).channel <= n
  BY DEF WithChannel, LogConversation

\* The channel goes to the row of its contact, or to a new one.
LEMMA HandleChannelKept ==
    ASSUME LogInv, ChannelsGrow, UNCHANGED <<query, accountManagerReady>>,
           NEW ch \in 1 .. Len(logChannels'), handleChannel(ch)
    PROVE  LogInv'
<1> DEFINE p == logChannels'[ch].partner
<1>1. p \in Partners /\ ch \in Nat /\ Len(logChannels') \in Nat /\ ch <= Len(logChannels')
      /\ Len(logChannels) \in Nat /\ Len(logChannels) <= Len(logChannels')
  <2>1. logChannels'[ch] \in LogChannel
    BY ElementOfSeq DEF ChannelsGrow
  <2> QED
    BY <2>1, LenProperties, LogItemTypes DEF ChannelsGrow, LogChannel
<1>2. CASE RowsOf(p) = {}
  <2>1. NoChannel \in LogConversation /\ NoChannel.channel <= Len(logChannels')
    BY <1>1 DEF NoChannel, LogConversation
  <2>2. WithChannel(NoChannel, ch) \in LogConversation /\ WithChannel(NoChannel, ch).channel <= Len(logChannels')
    BY <1>1, <2>1, WithChannelIsOne
  <2>3. /\ logConversations' = Append(logConversations, WithChannel(NoChannel, ch))
        /\ m_logItems' = Append(m_logItems, LogItem(p, Len(logConversations')))
        /\ m_conversations' = [m_conversations EXCEPT ![p] = Len(logConversations')]
        /\ RowsRead({})
        /\ early' = IF accountManagerReady THEN early ELSE early \cup {p}
    BY <1>2, Zenon DEF handleChannel
  <2>4. Len(logConversations') = Len(logConversations) + 1
    BY <2>2, <2>3, AppendProperties DEF LogInv, LogTypes
  <2> QED
    BY <1>1, <1>2, <2>2, <2>3, <2>4, RowAdded
<1>3. CASE RowsOf(p) # {}
  <2> DEFINE f == FirstRow(p)
             d == ConversationAt(f)
  <2>1. f \in 1 .. Len(m_logItems)
    <3>1. RowsOf(p) \in SUBSET Nat /\ RowsOf(p) \subseteq 1 .. Len(m_logItems)
      BY DEF RowsOf, LogInv, LogTypes
    <3>2. \E i \in RowsOf(p) : \A j \in RowsOf(p) : i <= j
      BY <1>3, <3>1, LeastNumber
    <3> QED
      BY <3>1, <3>2 DEF FirstRow
  <2>2. /\ logConversations' = [logConversations EXCEPT ![d] = WithChannel(@, ch)]
        /\ UNCHANGED <<m_logItems, m_conversations, early>>
        /\ RowsRead(IF logConversations' = logConversations THEN {} ELSE {f})
    BY <1>3, Zenon DEF handleChannel
  <2>3. d \in 1 .. Len(logConversations)
    BY <2>1 DEF ConversationAt, LogInv, LogRefs
  <2>4. logConversations[d] \in LogConversation /\ logConversations[d].channel \in Nat
        /\ logConversations[d].channel <= Len(logChannels)
    BY <2>3, LogItemTypes
  <2>5. /\ WithChannel(logConversations[d], ch) \in LogConversation
        /\ WithChannel(logConversations[d], ch).channel <= Len(logChannels')
    BY <1>1, <2>4, WithChannelIsOne
  <2> HIDE DEF f, d
  <2>6. /\ logConversations' \in Seq(LogConversation) /\ Len(logConversations') = Len(logConversations)
        /\ logConversations'[d] = WithChannel(logConversations[d], ch)
        /\ \A c \in 1 .. Len(logConversations) : c # d => logConversations'[c] = logConversations[c]
    BY <2>2, <2>3, <2>5 DEF LogInv, LogTypes
  <2>7. \A i \in 1 .. Len(m_logItems) :
          i \notin (IF logConversations' = logConversations THEN {} ELSE {f})
            => rowData(i)' = rowData(i)
    <3> SUFFICES ASSUME NEW i \in 1 .. Len(m_logItems), i # f \/ logConversations' = logConversations
                 PROVE  rowData(i)' = rowData(i)
      OBVIOUS
    <3>1. ConversationAt(i) \in 1 .. Len(logConversations) /\ (ConversationAt(i) = d => i = f)
      BY <2>1 DEF LogInv, LogRefs, ConversationAt, d
    <3>2. logConversations'[ConversationAt(i)] = logConversations[ConversationAt(i)]
      BY <2>6, <3>1
    <3> QED
      BY <2>2, <3>2, SameData
  <2>8. DOMAIN rowsRead' = 1 .. Len(m_logItems') /\ LogShown'
    <3>1. m_logItems' \in Seq(LogRow)
      BY <2>2 DEF LogInv, LogTypes
    <3> QED
      BY <2>2, <2>7, <3>1, ReadRight
  <2>9. LogTypes'
    BY <2>2, <2>6, <2>8 DEF LogInv, LogTypes, ChannelsGrow
  <2>10. LogRefs'
    <3>1. \A c \in 1 .. Len(logConversations) : logConversations'[c].channel <= Len(logChannels')
      <4> SUFFICES ASSUME NEW c \in 1 .. Len(logConversations), c # d
                   PROVE  logConversations'[c].channel <= Len(logChannels')
        BY <2>5, <2>6
      <4>1. logConversations'[c] = logConversations[c] /\ logConversations[c].channel \in Nat
            /\ logConversations[c].channel <= Len(logChannels)
        BY <2>6, LogItemTypes
      <4> QED
        BY <1>1, <4>1
    <3> QED
      BY <2>2, <2>6, <3>1 DEF LogInv, LogRefs
  <2>11. LogRows'
    BY <2>2 DEF LogInv, LogRows
  <2> QED
    BY <2>8, <2>9, <2>10, <2>11 DEF LogInv
<1> QED
  BY <1>2, <1>3

\* A channel's state does not matter to the rows.
LEMMA StateChanges ==
    ASSUME LogInv, NEW ch \in 1 .. Len(logChannels), NEW st \in {"offered", "handled", "elsewhere", "closed"},
           logChannels' = [logChannels EXCEPT ![ch].state = st]
    PROVE  ChannelsGrow /\ Len(logChannels') = Len(logChannels)
<1>1. logChannels[ch] \in LogChannel /\ [logChannels[ch] EXCEPT !.state = st] \in LogChannel
  BY LogItemTypes DEF LogChannel
<1>2. logChannels' = [logChannels EXCEPT ![ch] = [logChannels[ch] EXCEPT !.state = st]]
  OBVIOUS
<1>3. logChannels' \in Seq(LogChannel) /\ Len(logChannels') = Len(logChannels) /\ Len(logChannels) \in Nat
  BY <1>1, <1>2 DEF LogInv, LogTypes
<1>4. \A x \in 1 .. Len(logChannels) : logChannels'[x].unread = logChannels[x].unread
  <2> SUFFICES ASSUME NEW x \in 1 .. Len(logChannels) PROVE logChannels'[x].unread = logChannels[x].unread
    OBVIOUS
  <2>1. CASE x = ch
    <3>1. logChannels'[ch] = [logChannels[ch] EXCEPT !.state = st]
      BY <1>2 DEF LogInv, LogTypes
    <3> QED
      BY <1>1, <2>1, <3>1 DEF LogChannel
  <2>2. CASE x # ch
    BY <1>2, <2>2 DEF LogInv, LogTypes
  <2> QED
    BY <2>1, <2>2
<1> QED
  BY <1>3, <1>4 DEF ChannelsGrow

LEMMA ObserveKept ==
    ASSUME LogInv, NEW p \in Partners, NEW unread \in BOOLEAN, observeLogChannel(p, unread)
    PROVE  LogInv'
<1> DEFINE new == [partner |-> p, state |-> "offered", unread |-> unread]
<1>1. /\ logChannels' = Append(logChannels, new) /\ handleChannel(Len(logChannels'))
      /\ UNCHANGED <<query, accountManagerReady>>
  BY DEF observeLogChannel
<1>2. new \in LogChannel
  BY DEF LogChannel
<1>3. ChannelsGrow /\ Len(logChannels') \in 1 .. Len(logChannels')
  BY <1>1, <1>2, AppendProperties DEF ChannelsGrow, LogInv, LogTypes
<1> QED
  BY <1>1, <1>3, HandleChannelKept

LEMMA HandleLogKept ==
    ASSUME LogInv, NEW ch \in 1 .. Len(logChannels), handleLogChannels(ch) PROVE LogInv'
<1> DEFINE p == logChannels[ch].partner
<1>1. /\ logChannels' = [logChannels EXCEPT ![ch].state = "handled"]
      /\ UNCHANGED <<query, accountManagerReady>>
  BY DEF handleLogChannels
<1>2. ChannelsGrow /\ Len(logChannels') = Len(logChannels)
  BY <1>1, StateChanges
<1>3. CASE Found(p)
  <2>1. /\ logConversations' = Append(logConversations, WithChannel(NoChannel, ch))
        /\ m_logItems' = Append(m_logItems, LogItem(p, Len(logConversations) + 1))
        /\ m_conversations' = [m_conversations EXCEPT ![p] = Len(logConversations) + 1]
        /\ RowsRead({})
        /\ early' = IF accountManagerReady THEN early ELSE early \cup {p}
    BY <1>3, Zenon DEF handleLogChannels
  <2>2. RowsOf(p) = {}
    BY <1>3 DEF Found
  <2>3. p \in Partners
    BY LogItemTypes DEF LogChannel
  <2>4. NoChannel \in LogConversation /\ NoChannel.channel <= Len(logChannels') /\ ch <= Len(logChannels')
        /\ ch \in Nat /\ Len(logChannels') \in Nat
    BY <1>2, LogItemTypes DEF NoChannel, LogConversation
  <2>5. WithChannel(NoChannel, ch) \in LogConversation /\ WithChannel(NoChannel, ch).channel <= Len(logChannels')
    BY <2>4, WithChannelIsOne
  <2> QED
    BY <1>1, <1>2, <2>1, <2>2, <2>3, <2>5, RowAdded
<1>4. CASE ~Found(p)
  <2>1. handleChannel(ch)
    BY <1>4, Zenon DEF handleLogChannels
  <2> QED
    BY <1>1, <1>2, <2>1, HandleChannelKept
<1> QED
  BY <1>3, <1>4

LEMMA ChannelsSame == ASSUME LogInv, logChannels' = logChannels PROVE ChannelsGrow
<1>1. logChannels \in Seq(LogChannel) /\ Len(logChannels) \in Nat
  BY LogItemTypes DEF LogInv, LogTypes
<1> QED
  BY <1>1 DEF ChannelsGrow

LEMMA StartChatKept == ASSUME LogInv, NEW p \in Partners, startChat(p) PROVE LogInv'
<1> DEFINE c == m_conversations[p]
           ch == logConversations[c].channel
<1>1. UNCHANGED <<query, accountManagerReady, logConversations, m_logItems, m_conversations,
                  rowsRead, early>>
  BY DEF startChat
<1>2. CASE UNCHANGED logChannels
  BY <1>1, <1>2, ChannelsSame, LogQuietKept
<1>3. CASE c # 0 /\ ch # 0 /\ logChannels' = [logChannels EXCEPT ![ch].state =
                                               IF @ = "offered" THEN "handled" ELSE @]
  <2>1. c \in 1 .. Len(logConversations)
    BY <1>3, LogItemTypes DEF LogInv, LogTypes, LogRefs
  <2>2. ch \in 1 .. Len(logChannels)
    BY <1>3, <2>1, LogItemTypes
  <2>3. logChannels[ch].state \in {"offered", "handled", "elsewhere", "closed"}
    BY <2>2, LogItemTypes DEF LogChannel
  <2>4. ChannelsGrow
    BY <1>3, <2>2, <2>3, StateChanges
  <2> QED
    BY <1>1, <2>4, LogQuietKept
<1> QED
  BY <1>2, <1>3 DEF startChat

LEMMA StartFinishedKept == ASSUME LogInv, NEW p \in Partners, onStartChatFinished(p) PROVE LogInv'
<1>1. UNCHANGED <<query, accountManagerReady>>
  BY DEF onStartChatFinished
<1>2. CASE UNCHANGED <<logChannels, logConversations, m_logItems, m_conversations, rowsRead, early>>
  BY <1>1, <1>2, ChannelsSame, LogQuietKept
<1>3. CASE \E ch \in DOMAIN logChannels :
             /\ logChannels' = [logChannels EXCEPT ![ch].state = "handled"]
             /\ handleChannel(ch)
  <2>1. PICK ch \in 1 .. Len(logChannels) :
             /\ logChannels' = [logChannels EXCEPT ![ch].state = "handled"]
             /\ handleChannel(ch)
    BY <1>3, LogItemTypes
  <2>2. ChannelsGrow /\ Len(logChannels') = Len(logChannels)
    BY <2>1, StateChanges
  <2> QED
    BY <1>1, <2>1, <2>2, HandleChannelKept
<1> QED
  BY <1>2, <1>3 DEF onStartChatFinished

LEMMA GivenKept ==
    ASSUME LogInv, NEW ch \in 1 .. Len(logChannels), GivenToAnother(ch) PROVE LogInv'
  BY StateChanges, LogQuietKept DEF GivenToAnother

LEMMA LoggedKept == ASSUME LogInv, NEW ch \in 1 .. Len(logChannels), Logged(ch) PROVE LogInv'
<1>1. UNCHANGED <<logChannels, query, accountManagerReady, logConversations, m_logItems,
                  m_conversations, rowsRead, early>>
  BY DEF Logged
<1> QED
  BY <1>1, ChannelsSame, LogQuietKept

\* The number of unread messages changes: the rows that are told have the conversation.
LEMMA UnreadKept ==
    ASSUME LogInv, NEW ch \in 1 .. Len(logChannels), unreadMessagesChanged(ch) PROVE LogInv'
<1>1. /\ logChannels' = [logChannels EXCEPT ![ch].unread = ~@]
      /\ UNCHANGED <<query, accountManagerReady, logConversations, m_logItems, m_conversations, early>>
      /\ RowsRead(setupSignals(ch))
  BY DEF unreadMessagesChanged
<1>2. logChannels[ch] \in LogChannel /\ [logChannels[ch] EXCEPT !.unread = ~@] \in LogChannel
  BY LogItemTypes DEF LogChannel
<1>3. logChannels' = [logChannels EXCEPT ![ch] = [logChannels[ch] EXCEPT !.unread = ~@]]
  BY <1>1
<1>4. /\ logChannels' \in Seq(LogChannel) /\ Len(logChannels') = Len(logChannels)
      /\ \A x \in 1 .. Len(logChannels) : x # ch => logChannels'[x] = logChannels[x]
  BY <1>2, <1>3 DEF LogInv, LogTypes
<1>5. \A i \in 1 .. Len(m_logItems) :
        i \notin setupSignals(ch) => rowData(i)' = rowData(i) \/ ~rowData(i)'.live
  <2> SUFFICES ASSUME NEW i \in 1 .. Len(m_logItems), i \notin setupSignals(ch)
               PROVE  rowData(i)' = rowData(i) \/ ~rowData(i)'.live
    OBVIOUS
  <2> DEFINE c == logConversations[ConversationAt(i)]
  <2>1. ConversationAt(i)' = ConversationAt(i) /\ logConversations' = logConversations
    BY <1>1 DEF ConversationAt
  <2>2. c.channel # ch \/ ~c.valid
    BY <1>1, <2>1 DEF setupSignals, LogInv, LogTypes, ConversationAt
  <2>3. c.channel \in 0 .. Len(logChannels)
    BY LogItemTypes DEF ConversationAt
  <2>4. c.channel # 0 /\ c.channel # ch => logChannels'[c.channel] = logChannels[c.channel]
    BY <1>4, <2>3
  <2>5. rowData(i) = [live |-> c.valid, unread |-> c.valid /\ c.channel # 0 /\ logChannels[c.channel].unread]
    BY DEF rowData
  <2>6. rowData(i)' = [live |-> c.valid, unread |-> c.valid /\ c.channel # 0 /\ logChannels'[c.channel].unread]
    BY <2>1 DEF rowData
  <2> HIDE DEF c
  <2>7. CASE ~c.valid
    BY <2>6, <2>7
  <2>8. CASE c.valid
    <3>1. (c.valid /\ c.channel # 0 /\ logChannels'[c.channel].unread)
            = (c.valid /\ c.channel # 0 /\ logChannels[c.channel].unread)
      BY <2>2, <2>4, <2>8
    <3> QED
      BY <2>5, <2>6, <3>1
  <2> QED
    BY <2>7, <2>8
<1>6. DOMAIN rowsRead' = 1 .. Len(m_logItems') /\ LogShown'
  <2>1. m_logItems' \in Seq(LogRow)
    BY <1>1 DEF LogInv, LogTypes
  <2> QED
    BY <1>1, <1>5, <2>1, ReadRight
<1>7. LogTypes' /\ LogRefs' /\ LogRows'
  BY <1>1, <1>4, <1>6 DEF LogInv, LogTypes, LogRefs, LogRows
<1> QED
  BY <1>6, <1>7 DEF LogInv

\* The conversations of the channel are not valid any more, which nothing is said of.
LEMMA ChannelClosesKept ==
    ASSUME LogInv, NEW ch \in 1 .. Len(logChannels), ChannelCloses(ch) PROVE LogInv'
<1>1. /\ logChannels' = [logChannels EXCEPT ![ch].state = "closed"]
      /\ logConversations' = [c \in DOMAIN logConversations |->
           IF logConversations[c].channel = ch THEN [logConversations[c] EXCEPT !.valid = FALSE]
           ELSE logConversations[c]]
      /\ UNCHANGED <<query, accountManagerReady, m_logItems, m_conversations, early>>
      /\ RowsRead(setupSignals(ch))
  BY DEF ChannelCloses
<1>2. ChannelsGrow /\ Len(logChannels') = Len(logChannels)
  BY <1>1, StateChanges
<1>3. \A c \in 1 .. Len(logConversations) :
        /\ logConversations'[c] \in LogConversation
        /\ logConversations'[c].channel = logConversations[c].channel
        /\ logConversations'[c] = logConversations[c] \/ ~logConversations'[c].valid
  <2> SUFFICES ASSUME NEW c \in 1 .. Len(logConversations)
               PROVE  /\ logConversations'[c] \in LogConversation
                      /\ logConversations'[c].channel = logConversations[c].channel
                      /\ logConversations'[c] = logConversations[c] \/ ~logConversations'[c].valid
    OBVIOUS
  <2>1. /\ logConversations'[c] = IF logConversations[c].channel = ch
             THEN [logConversations[c] EXCEPT !.valid = FALSE] ELSE logConversations[c]
        /\ logConversations[c] \in LogConversation
    BY <1>1, LogItemTypes
  <2> QED
    BY <2>1 DEF LogConversation
<1>4. logConversations' \in Seq(LogConversation) /\ Len(logConversations') = Len(logConversations)
  <2>1. DOMAIN logConversations = 1 .. Len(logConversations) /\ Len(logConversations) \in Nat
    BY LenProperties DEF LogInv, LogTypes
  <2>2. logConversations' \in [1 .. Len(logConversations) -> LogConversation]
    BY <1>1, <1>3, <2>1
  <2> QED
    BY <2>1, <2>2, SeqOfItems
<1>5. \A i \in 1 .. Len(m_logItems) : rowData(i)' = rowData(i) \/ ~rowData(i)'.live
  <2> SUFFICES ASSUME NEW i \in 1 .. Len(m_logItems) PROVE rowData(i)' = rowData(i) \/ ~rowData(i)'.live
    OBVIOUS
  <2>1. ConversationAt(i)' = ConversationAt(i) /\ ConversationAt(i) \in 1 .. Len(logConversations)
    BY <1>1, LogItemTypes DEF ConversationAt
  <2>2. CASE logConversations'[ConversationAt(i)] = logConversations[ConversationAt(i)]
    BY <1>1, <1>2, <2>2, SameData
  <2>3. CASE ~logConversations'[ConversationAt(i)].valid
    BY <2>1, <2>3 DEF rowData
  <2> QED
    BY <1>3, <2>1, <2>2, <2>3
<1>6. DOMAIN rowsRead' = 1 .. Len(m_logItems') /\ LogShown'
  <2>1. m_logItems' \in Seq(LogRow)
    BY <1>1 DEF LogInv, LogTypes
  <2> QED
    BY <1>1, <1>5, <2>1, ReadRight
<1>7. LogTypes'
  BY <1>1, <1>2, <1>4, <1>6 DEF LogInv, LogTypes, ChannelsGrow
<1>8. LogRefs'
  BY <1>1, <1>2, <1>3, <1>4 DEF LogInv, LogRefs
<1>9. LogRows'
  BY <1>1 DEF LogInv, LogRows
<1> QED
  BY <1>6, <1>7, <1>8, <1>9 DEF LogInv

\* The results of the query become rows behind those of the channels that came before.
LEMMA ResultsKept == ASSUME LogInv, onAccountManagerReady PROVE LogInv'
<1> DEFINE base == Len(logConversations)
           old == Len(m_logItems)
           k == Len(query)
           convs == [n \in DOMAIN query |-> NoChannel]
           added == [n \in DOMAIN query |-> LogItem(query[n], base + n)]
<1>1. /\ ~accountManagerReady /\ accountManagerReady' = TRUE /\ query' = <<>>
      /\ UNCHANGED <<logChannels, early>> /\ RowsRead({})
      /\ logConversations' = logConversations \o convs
      /\ m_logItems' = m_logItems \o added
      /\ m_conversations' = [p \in Partners |->
            IF p \in ToSet(query)
            THEN base + (CHOOSE n \in DOMAIN query : query[n] = p) ELSE m_conversations[p]]
  BY DEF onAccountManagerReady, processQueryResults
<1>2. base \in Nat /\ old \in Nat /\ k \in Nat /\ DOMAIN query = 1 .. k
      /\ (\A n \in 1 .. k : query[n] \in Partners) /\ logConversations \in Seq(LogConversation)
      /\ m_logItems \in Seq(LogRow)
  BY LogItemTypes, LenProperties, ElementOfSeq DEF LogInv, LogTypes
<1>3. convs \in Seq(LogConversation) /\ Len(convs) = k
  <2>1. convs \in [1 .. k -> LogConversation]
    BY <1>2 DEF NoChannel, LogConversation
  <2> HIDE DEF convs
  <2> QED
    BY <1>2, <2>1, SeqOfItems
<1>4. added \in Seq(LogRow) /\ Len(added) = k
  <2>1. added \in [1 .. k -> LogRow]
    BY <1>2 DEF LogItem, LogRow
  <2> HIDE DEF added
  <2> QED
    BY <1>2, <2>1, SeqOfItems
<1>5. /\ logConversations' \in Seq(LogConversation) /\ Len(logConversations') = base + k
      /\ \A c \in 1 .. base : logConversations'[c] = logConversations[c]
      /\ \A c \in 1 .. base + k : c \notin 1 .. base => logConversations'[c] = NoChannel
  <2>1. \A n \in 1 .. k : convs[n] = NoChannel
    BY <1>2
  <2>2. /\ Len(logConversations) = base /\ logConversations \o convs \in Seq(LogConversation)
        /\ Len(logConversations \o convs) = base + k
        /\ \A i \in 1 .. base + k : (logConversations \o convs)[i] =
              IF i <= base THEN logConversations[i] ELSE convs[i - base]
    BY <1>2, <1>3, ConcatProperties
  <2> HIDE DEF convs, base
  <2>3. /\ logConversations' = logConversations \o convs /\ base \in Nat /\ k \in Nat
    BY <1>1, <1>2
  <2> HIDE DEF k
  <2>4. \A c \in 1 .. base : c \in 1 .. base + k /\ c <= base
    BY <2>3
  <2>5. \A c \in 1 .. base + k : c \notin 1 .. base => ~(c <= base) /\ c - base \in 1 .. k
    BY <2>3
  <2> QED
    BY <2>1, <2>2, <2>3, <2>4, <2>5
<1>6. /\ m_logItems' \in Seq(LogRow) /\ Len(m_logItems') = old + k
      /\ \A i \in 1 .. old : m_logItems'[i] = m_logItems[i]
      /\ \A i \in 1 .. old + k : i \notin 1 .. old =>
            i - old \in 1 .. k /\ m_logItems'[i] = LogItem(query[i - old], base + (i - old))
  <2>1. \A n \in 1 .. k : added[n] = LogItem(query[n], base + n)
    BY <1>2
  <2>2. /\ Len(m_logItems) = old /\ m_logItems \o added \in Seq(LogRow)
        /\ Len(m_logItems \o added) = old + k
        /\ \A i \in 1 .. old + k : (m_logItems \o added)[i] =
              IF i <= old THEN m_logItems[i] ELSE added[i - old]
    BY <1>2, <1>4, ConcatProperties
  <2> HIDE DEF added, old
  <2>3. m_logItems' = m_logItems \o added
    BY <1>1
  <2>4. \A i \in 1 .. old : i \in 1 .. old + k /\ i <= old
    BY <1>2
  <2>5. \A i \in 1 .. old + k : i \notin 1 .. old => i - old \in 1 .. k /\ ~(i <= old)
    BY <1>2
  <2> QED
    BY <2>1, <2>2, <2>3, <2>4, <2>5
<1> HIDE DEF convs, added, base, old, k
<1>7. ChannelsGrow
  BY <1>1, LogItemTypes DEF ChannelsGrow, LogInv, LogTypes
<1>8. \A i \in 1 .. Len(m_logItems) : rowData(i)' = rowData(i)
  <2> SUFFICES ASSUME NEW i \in 1 .. Len(m_logItems) PROVE rowData(i)' = rowData(i)
    OBVIOUS
  <2>1. ConversationAt(i) \in 1 .. base
    BY LogItemTypes DEF ConversationAt, base
  <2>2. i \in 1 .. old /\ i \in 1 .. Len(m_logItems')
    BY <1>2, <1>6 DEF old
  <2> QED
    BY <1>5, <1>6, <1>7, <2>1, <2>2, SameData
<1>9. DOMAIN rowsRead' = 1 .. Len(m_logItems') /\ LogShown'
  BY <1>1, <1>6, <1>8, ReadRight
<1>10. \A n \in 1 .. k : m_conversations'[query[n]] = base + n
  <2> SUFFICES ASSUME NEW n \in 1 .. k PROVE m_conversations'[query[n]] = base + n
    OBVIOUS
  <2>1. query[n] \in ToSet(query)
    BY <1>2 DEF ToSet
  <2>2. \A m \in DOMAIN query : query[m] = query[n] => m = n
    BY <1>2 DEF LogInv, LogTypes, k
  <2>3. (CHOOSE m \in DOMAIN query : query[m] = query[n]) = n
    BY <1>2, <2>2
  <2> QED
    BY <1>1, <1>2, <2>1, <2>3
<1>11. \A p \in Partners : m_conversations'[p] \in 0 .. base + k
  <2> SUFFICES ASSUME NEW p \in Partners PROVE m_conversations'[p] \in 0 .. base + k
    OBVIOUS
  <2>1. CASE p \in ToSet(query)
    <3>1. PICK n \in 1 .. k : query[n] = p
      BY <1>2, <2>1 DEF ToSet
    <3> QED
      BY <1>2, <1>10, <3>1
  <2>2. CASE p \notin ToSet(query)
    BY <1>1, <1>2, <2>2 DEF LogInv, LogTypes, LogRefs, base
  <2> QED
    BY <2>1, <2>2
<1>12. LogTypes'
  <2>1. query' \in Seq(Partners) /\ Len(query') = 0
    BY <1>1
  <2>2. m_conversations' \in [Partners -> Nat]
    <3>1. \A p \in Partners : m_conversations'[p] \in Nat
      BY <1>2, <1>11
    <3>2. \E g : m_conversations' = [p \in Partners |-> g[p]]
      <4> WITNESS m_conversations'
      <4> QED
        BY <1>1
    <3> QED
      BY <3>1, <3>2
  <2>3. \A m, n \in 1 .. Len(query') : query'[m] = query'[n] => m = n
    BY <2>1
  <2>4. logChannels' \in Seq(LogChannel)
    BY <1>1 DEF LogInv, LogTypes
  <2> QED
    BY <1>5, <1>6, <1>9, <2>1, <2>2, <2>3, <2>4 DEF LogTypes
<1>13. LogRefs'
  <2>1. \A c \in 1 .. Len(logConversations') : logConversations'[c].channel <= Len(logChannels')
    <3> SUFFICES ASSUME NEW c \in 1 .. base + k PROVE logConversations'[c].channel <= Len(logChannels)
      BY <1>1, <1>5
    <3>1. CASE c \in 1 .. base
      BY <1>5, <3>1, LogItemTypes DEF base
    <3>2. CASE c \notin 1 .. base
      BY <1>5, <3>2, LogItemTypes DEF NoChannel
    <3> QED
      BY <3>1, <3>2
  <2>2. \A i \in 1 .. old + k :
          /\ i \in 1 .. old => m_logItems'[i].conversation \in 1 .. base
                               /\ m_logItems'[i].conversation = m_logItems[i].conversation
          /\ i \notin 1 .. old => m_logItems'[i].conversation = base + (i - old)
                                  /\ i - old \in 1 .. k
    <3>1. \A i \in 1 .. old : m_logItems'[i] = m_logItems[i] /\ m_logItems[i].conversation \in 1 .. base
      BY <1>6, LogItemTypes DEF old, base
    <3>2. \A n : LogItem(query[n], base + n).conversation = base + n
      BY DEF LogItem
    <3>3. \A i \in 1 .. old + k : i \notin 1 .. old =>
            i - old \in 1 .. k /\ m_logItems'[i].conversation = base + (i - old)
      BY <1>6, <3>2
    <3> QED
      BY <3>1, <3>3
  <2>3. \A i \in 1 .. Len(m_logItems') : m_logItems'[i].conversation \in 1 .. Len(logConversations')
    BY <1>2, <1>5, <1>6, <2>2
  <2>4. \A i, j \in 1 .. old + k : m_logItems'[i].conversation = m_logItems'[j].conversation => i = j
    <3> SUFFICES ASSUME NEW i \in 1 .. old + k, NEW j \in 1 .. old + k,
                        m_logItems'[i].conversation = m_logItems'[j].conversation
                 PROVE  i = j
      OBVIOUS
    <3>1. CASE i \in 1 .. old /\ j \in 1 .. old
      BY <2>2, <3>1 DEF LogInv, LogRefs, old
    <3>2. CASE i \notin 1 .. old /\ j \notin 1 .. old
      <4>1. base + (i - old) = base + (j - old) /\ i - old \in 1 .. k /\ j - old \in 1 .. k
        BY <2>2, <3>2
      <4>2. base \in Nat /\ old \in Nat /\ i \in Int /\ j \in Int
        BY <1>2
      <4> HIDE DEF base, old, k
      <4> QED
        BY <4>1, <4>2
    <3>3. CASE i \in 1 .. old /\ j \notin 1 .. old
      BY <1>2, <2>2, <3>3
    <3>4. CASE i \notin 1 .. old /\ j \in 1 .. old
      BY <1>2, <2>2, <3>4
    <3> QED
      BY <3>1, <3>2, <3>3, <3>4
  <2>5. \A p \in Partners : m_conversations'[p] <= Len(logConversations')
    BY <1>2, <1>5, <1>11
  <2> QED
    BY <1>6, <2>1, <2>3, <2>4, <2>5 DEF LogRefs
<1>14. LogRows'
  <2>1. ASSUME NEW i \in 1 .. old + k, m_logItems'[i].partner \notin early
        PROVE  m_conversations'[m_logItems'[i].partner] = m_logItems'[i].conversation
    <3>1. i \notin 1 .. old
      BY <1>1, <1>6, <2>1 DEF LogInv, LogRows, old
    <3> QED
      BY <1>6, <1>10, <3>1 DEF LogItem
  <2> QED
    BY <1>1, <1>6, <2>1 DEF LogRows
<1> QED
  BY <1>9, <1>12, <1>13, <1>14 DEF LogInv

\* One row for a contact, of the conversation that startChat finds for it, and what the
\* view read of a row with a valid conversation is what it shows; whether chats come from
\* the database, are observed, handled or started here.  Contacts whose channel came
\* before the query of the start was used are excepted, in RowsAndChatsAgree itself.
THEOREM RowsAndChatsKeepAgreeing == ChatLogInit /\ [][ChatLogNext]_logVars => []RowsAndChatsAgree
<1>1. ChatLogInit => LogInv
  BY LogBegins
<1>2. LogInv /\ [ChatLogNext]_logVars => LogInv'
  <2> SUFFICES ASSUME LogInv, [ChatLogNext]_logVars PROVE LogInv'
    OBVIOUS
  <2>1. CASE onAccountManagerReady
    BY <2>1, ResultsKept
  <2>2. ASSUME NEW p \in Partners,
               \/ startChat(p) \/ onStartChatFinished(p)
               \/ \E unread \in BOOLEAN : observeLogChannel(p, unread)
        PROVE  LogInv'
    BY <2>2, StartChatKept, StartFinishedKept, ObserveKept
  <2>3. ASSUME NEW ch \in DOMAIN logChannels,
               \/ handleLogChannels(ch) \/ GivenToAnother(ch) \/ Logged(ch) \/ ChannelCloses(ch)
               \/ unreadMessagesChanged(ch)
        PROVE  LogInv'
    <3>1. ch \in 1 .. Len(logChannels)
      BY DEF LogInv, LogTypes
    <3> QED
      BY <2>3, <3>1, HandleLogKept, GivenKept, LoggedKept, ChannelClosesKept, UnreadKept
  <2>4. CASE UNCHANGED logVars
    BY <2>4, LogQuietKept, LogItemTypes DEF logVars, ChannelsGrow, LogInv, LogTypes
  <2> QED
    BY <2>1, <2>2, <2>3, <2>4 DEF ChatLogNext
<1>3. LogInv => RowsAndChatsAgree
  <2> SUFFICES ASSUME LogInv PROVE RowsAndChatsAgree
    OBVIOUS
  <2>1. DOMAIN m_logItems = 1 .. Len(m_logItems)
    BY DEF LogInv, LogTypes
  <2>2. ASSUME NEW p \in Partners \ early, NEW i \in RowsOf(p)
        PROVE  m_conversations[p] = ConversationAt(i) /\ \A j \in RowsOf(p) : i = j
    <3>1. \A j \in RowsOf(p) : j \in 1 .. Len(m_logItems) /\ m_conversations[p] = m_logItems[j].conversation
      BY <2>1 DEF LogInv, LogRows, RowsOf
    <3> QED
      BY <3>1 DEF LogInv, LogRefs, ConversationAt
  <2> QED
    BY <2>1, <2>2 DEF RowsAndChatsAgree, LogInv, LogShown
<1> QED
  BY <1>1, <1>2, <1>3, PTL

-----------------------------------------------------------------------------
(***************************************************************************)
(* A tab of the debugger.                                                  *)
(***************************************************************************)
ReplyKinds == {"introspection", "monitoring", "messages"}
LinkItems == [what : ReplyKinds \cup {"message", "exit"}, messages : Seq(Nat), error : BOOLEAN]
ReplyItems == {x \in LinkItems : x.what \in ReplyKinds}

\* All numbers up to n.
UpTo(n) == [i \in 1 .. n |-> i]

\* Before item 1 of a link the debugger was told of f[0] messages, and after item i of f[i],
\* which is the number of a message and the length of a list.
NumbersLink(s, f, n) ==
    /\ f \in [0 .. Len(s) -> Nat] /\ f[Len(s)] = n
    /\ \A i \in 1 .. Len(s) :
        /\ s[i].what = "message" => f[i] = f[i - 1] + 1 /\ s[i].messages = <<f[i]>>
        /\ s[i].what # "message" => f[i] = f[i - 1]
        /\ s[i].what = "messages" => s[i].messages = UpTo(f[i])

DebugTypes ==
    /\ emitted \in Nat /\ monitoring \in BOOLEAN /\ exited \in BOOLEAN
    /\ tmpCache \in Seq(Nat) /\ given \in Seq(Nat) /\ editor \in Seq(Nat) /\ delayed \in Seq(Nat)
    /\ fetched \in Nat /\ viewVisible \in BOOLEAN
    /\ receiver \in ReplyKinds \cup {"none", "ready"}
    /\ debugLink \in Seq(LinkItems) /\ Once(debugLink, ReplyItems)
    /\ answered = <<>> \/ \E x \in ReplyItems : answered = <<x>>

\* A reply is one that is waited for.
RepliesAwaited ==
    /\ \A i \in 1 .. Len(debugLink) :
         debugLink[i].what \in ReplyKinds => debugLink[i].what = receiver /\ answered = <<>>
    /\ answered # <<>> => receiver \in ReplyKinds /\ answered[1].what = receiver

\* Messages are signalled once monitoring is enabled.
SignalledWhenAsked ==
    monitoring = FALSE =>
        /\ tmpCache = <<>> /\ receiver \in {"introspection", "monitoring", "none"}
        /\ \A i \in 1 .. Len(debugLink) :
             /\ debugLink[i].what \notin {"message", "messages"}
             /\ debugLink[i].what = "monitoring" => debugLink[i].error = TRUE
        /\ answered # <<>> /\ receiver = "monitoring" => answered[1].error = TRUE

\* Of the b messages that the debugger was told of, what was signalled before the list came
\* is the last.
CacheFollows(b) ==
    /\ Len(tmpCache) <= b
    /\ \A i \in 1 .. Len(tmpCache) : tmpCache[i] = b - Len(tmpCache) + i
    /\ receiver = "ready" => tmpCache = <<>>

\* The list has what came before it, at least.
ListReaches(b) ==
    answered # <<>> /\ receiver = "messages" /\ answered[1].error = FALSE =>
        \E k \in Nat : answered[1].messages = UpTo(k) /\ k <= b /\ b - Len(tmpCache) <= k

\* What the view was given is a list of k messages and what was signalled since some
\* time before.
GivenAs(k, b) ==
    /\ k <= fetched /\ fetched <= Len(given) /\ k <= b /\ b <= Len(given)
    /\ Len(given) <= b + k
    /\ \A i \in 1 .. Len(given) : given[i] = IF i <= k THEN i ELSE b - Len(given) + i
    /\ k = fetched => b = Len(given)

GivenRight(b) ==
    /\ receiver \in ReplyKinds => given = <<>>
    /\ receiver = "ready" => \E k \in Nat : GivenAs(k, b)

Told(b) == CacheFollows(b) /\ ListReaches(b) /\ GivenRight(b)

\* The text.
ViewRight ==
    /\ cleared \in 0 .. Len(given)
    /\ editor \o delayed = SubSeq(given, cleared + 1, Len(given))
    /\ viewVisible = TRUE => delayed = <<>>

DebugInv ==
    /\ DebugTypes /\ RepliesAwaited /\ SignalledWhenAsked /\ ViewRight
    /\ \E f : NumbersLink(debugLink, f, emitted) /\ Told(f[0])

-----------------------------------------------------------------------------
(* Links.                                                                  *)

\* A message is sent.
LEMMA LinkNews ==
    ASSUME NEW s \in Seq(LinkItems), NEW f, NEW n \in Nat, NumbersLink(s, f, n),
           NEW x \in LinkItems, x.what = "message", x.messages = <<n + 1>>
    PROVE  \E g : NumbersLink(Append(s, x), g, n + 1) /\ g[0] = f[0]
<1> DEFINE t == Append(s, x)
           g == [i \in 0 .. Len(s) + 1 |-> IF i = Len(s) + 1 THEN n + 1 ELSE f[i]]
<1>1. /\ Len(s) \in Nat /\ Len(t) = Len(s) + 1
      /\ \A i \in 1 .. Len(s) : t[i] = s[i]
      /\ t[Len(s) + 1] = x
  BY AppendProperties
<1>2. g \in [0 .. Len(s) + 1 -> Nat] /\ g[Len(s) + 1] = n + 1
      /\ \A i \in 0 .. Len(s) : g[i] = f[i]
  BY <1>1 DEF NumbersLink
<1> HIDE DEF t, g
<1>3. \A i \in 1 .. Len(s) + 1 :
        \/ i = Len(s) + 1 /\ i - 1 = Len(s) /\ t[i] = x
        \/ i \in 1 .. Len(s) /\ i \in 0 .. Len(s) /\ i - 1 \in 0 .. Len(s) /\ t[i] = s[i]
  <2> SUFFICES ASSUME NEW i \in 1 .. Len(s) + 1
               PROVE  \/ i = Len(s) + 1 /\ i - 1 = Len(s) /\ t[i] = x
                      \/ i \in 1 .. Len(s) /\ i \in 0 .. Len(s) /\ i - 1 \in 0 .. Len(s) /\ t[i] = s[i]
    OBVIOUS
  <2>1. CASE i = Len(s) + 1
    BY <1>1, <2>1
  <2>2. CASE i # Len(s) + 1
    <3>1. i \in 1 .. Len(s) /\ i \in 0 .. Len(s) /\ i - 1 \in 0 .. Len(s)
      BY <1>1, <2>2
    <3> QED
      BY <1>1, <3>1
  <2> QED
    BY <2>1, <2>2
<1>4. 0 \in 0 .. Len(s) /\ Len(s) \in 0 .. Len(s)
  BY <1>1
<1>5. \A i \in 1 .. Len(s) + 1 :
        /\ t[i].what = "message" => g[i] = g[i - 1] + 1 /\ t[i].messages = <<g[i]>>
        /\ t[i].what # "message" => g[i] = g[i - 1]
        /\ t[i].what = "messages" => t[i].messages = UpTo(g[i])
  <2> SUFFICES ASSUME NEW i \in 1 .. Len(s) + 1
               PROVE  /\ t[i].what = "message" => g[i] = g[i - 1] + 1 /\ t[i].messages = <<g[i]>>
                      /\ t[i].what # "message" => g[i] = g[i - 1]
                      /\ t[i].what = "messages" => t[i].messages = UpTo(g[i])
    OBVIOUS
  <2>1. CASE i = Len(s) + 1 /\ i - 1 = Len(s) /\ t[i] = x
    BY <1>2, <1>4, <2>1 DEF NumbersLink
  <2>2. CASE i \in 1 .. Len(s) /\ i \in 0 .. Len(s) /\ i - 1 \in 0 .. Len(s) /\ t[i] = s[i]
    BY <1>2, <2>2 DEF NumbersLink
  <2> QED
    BY <1>3, <2>1, <2>2
<1>6. NumbersLink(t, g, n + 1) /\ g[0] = f[0]
  BY <1>1, <1>2, <1>4, <1>5 DEF NumbersLink
<1> QED
  BY <1>6 DEF t

\* A reply or the end is sent.
LEMMA LinkOther ==
    ASSUME NEW s \in Seq(LinkItems), NEW f, NEW n \in Nat, NumbersLink(s, f, n),
           NEW x \in LinkItems, x.what # "message", x.what = "messages" => x.messages = UpTo(n)
    PROVE  \E g : NumbersLink(Append(s, x), g, n) /\ g[0] = f[0]
<1> DEFINE t == Append(s, x)
           g == [i \in 0 .. Len(s) + 1 |-> IF i = Len(s) + 1 THEN n ELSE f[i]]
<1>1. /\ Len(s) \in Nat /\ Len(t) = Len(s) + 1
      /\ \A i \in 1 .. Len(s) : t[i] = s[i]
      /\ t[Len(s) + 1] = x
  BY AppendProperties
<1>2. g \in [0 .. Len(s) + 1 -> Nat] /\ g[Len(s) + 1] = n
      /\ \A i \in 0 .. Len(s) : g[i] = f[i]
  BY <1>1 DEF NumbersLink
<1> HIDE DEF t, g
<1>3. \A i \in 1 .. Len(s) + 1 :
        \/ i = Len(s) + 1 /\ i - 1 = Len(s) /\ t[i] = x
        \/ i \in 1 .. Len(s) /\ i \in 0 .. Len(s) /\ i - 1 \in 0 .. Len(s) /\ t[i] = s[i]
  <2> SUFFICES ASSUME NEW i \in 1 .. Len(s) + 1
               PROVE  \/ i = Len(s) + 1 /\ i - 1 = Len(s) /\ t[i] = x
                      \/ i \in 1 .. Len(s) /\ i \in 0 .. Len(s) /\ i - 1 \in 0 .. Len(s) /\ t[i] = s[i]
    OBVIOUS
  <2>1. CASE i = Len(s) + 1
    BY <1>1, <2>1
  <2>2. CASE i # Len(s) + 1
    <3>1. i \in 1 .. Len(s) /\ i \in 0 .. Len(s) /\ i - 1 \in 0 .. Len(s)
      BY <1>1, <2>2
    <3> QED
      BY <1>1, <3>1
  <2> QED
    BY <2>1, <2>2
<1>4. 0 \in 0 .. Len(s) /\ Len(s) \in 0 .. Len(s)
  BY <1>1
<1>5. \A i \in 1 .. Len(s) + 1 :
        /\ t[i].what = "message" => g[i] = g[i - 1] + 1 /\ t[i].messages = <<g[i]>>
        /\ t[i].what # "message" => g[i] = g[i - 1]
        /\ t[i].what = "messages" => t[i].messages = UpTo(g[i])
  <2> SUFFICES ASSUME NEW i \in 1 .. Len(s) + 1
               PROVE  /\ t[i].what = "message" => g[i] = g[i - 1] + 1 /\ t[i].messages = <<g[i]>>
                      /\ t[i].what # "message" => g[i] = g[i - 1]
                      /\ t[i].what = "messages" => t[i].messages = UpTo(g[i])
    OBVIOUS
  <2>1. CASE i = Len(s) + 1 /\ i - 1 = Len(s) /\ t[i] = x
    BY <1>2, <1>4, <2>1 DEF NumbersLink
  <2>2. CASE i \in 1 .. Len(s) /\ i \in 0 .. Len(s) /\ i - 1 \in 0 .. Len(s) /\ t[i] = s[i]
    BY <1>2, <2>2 DEF NumbersLink
  <2> QED
    BY <1>3, <2>1, <2>2
<1>6. NumbersLink(t, g, n) /\ g[0] = f[0]
  BY <1>1, <1>2, <1>4, <1>5 DEF NumbersLink
<1> QED
  BY <1>6 DEF t

\* A message is not signalled: then the debugger was told all that is sent.
LEMMA LinkSilent ==
    ASSUME NEW s \in Seq(LinkItems), NEW n \in Nat,
           \A i \in 1 .. Len(s) : s[i].what \notin {"message", "messages"}
    PROVE  \E g : NumbersLink(s, g, n) /\ g[0] = n
<1> DEFINE g == [i \in 0 .. Len(s) |-> n]
<1>1. Len(s) \in Nat
  BY LenProperties
<1>2. NumbersLink(s, g, n) /\ g[0] = n
  BY <1>1 DEF NumbersLink
<1> QED
  BY <1>2

\* The first item is taken.
LEMMA LinkTaken ==
    ASSUME NEW s \in Seq(LinkItems), s # <<>>, NEW f, NEW n \in Nat, NumbersLink(s, f, n)
    PROVE  /\ \E g : NumbersLink(Tail(s), g, n) /\ g[0] = f[1]
           /\ f[0] \in Nat /\ f[1] \in Nat
           /\ Head(s).what = "message" => f[1] = f[0] + 1 /\ Head(s).messages = <<f[1]>>
           /\ Head(s).what # "message" => f[1] = f[0]
           /\ Head(s).what = "messages" => Head(s).messages = UpTo(f[1])
<1> DEFINE t == Tail(s)
           g == [i \in 0 .. Len(s) - 1 |-> f[i + 1]]
<1>1. /\ Len(s) \in Nat /\ Len(s) # 0 /\ Len(t) = Len(s) - 1 /\ Head(s) = s[1]
      /\ \A i \in 1 .. Len(t) : t[i] = s[i + 1]
  BY HeadTailProperties
<1>2. f \in [0 .. Len(s) -> Nat] /\ f[Len(s)] = n
  BY DEF NumbersLink
<1>3. \A i \in 0 .. Len(s) - 1 : i + 1 \in 0 .. Len(s) /\ g[i] = f[i + 1]
  BY <1>1
<1>4. g \in [0 .. Len(s) - 1 -> Nat]
  BY <1>2, <1>3
<1> HIDE DEF t, g
<1>5. \A i \in 1 .. Len(t) :
        /\ i \in 0 .. Len(s) - 1 /\ i - 1 \in 0 .. Len(s) - 1 /\ (i - 1) + 1 = i
        /\ i + 1 \in 1 .. Len(s) /\ (i + 1) - 1 = i /\ t[i] = s[i + 1]
        /\ g[i] = f[i + 1] /\ g[i - 1] = f[i]
  <2> SUFFICES ASSUME NEW i \in 1 .. Len(t)
               PROVE  /\ i \in 0 .. Len(s) - 1 /\ i - 1 \in 0 .. Len(s) - 1 /\ (i - 1) + 1 = i
                      /\ i + 1 \in 1 .. Len(s) /\ (i + 1) - 1 = i /\ t[i] = s[i + 1]
                      /\ g[i] = f[i + 1] /\ g[i - 1] = f[i]
    OBVIOUS
  <2>1. /\ i \in 0 .. Len(s) - 1 /\ i - 1 \in 0 .. Len(s) - 1 /\ (i - 1) + 1 = i
        /\ i + 1 \in 1 .. Len(s) /\ (i + 1) - 1 = i
    BY <1>1
  <2> QED
    BY <1>1, <1>3, <2>1
<1>6. g[Len(s) - 1] = n /\ g[0] = f[1] /\ 0 \in 0 .. Len(s) /\ 1 \in 1 .. Len(s)
  BY <1>1, <1>2, <1>3
<1>7. NumbersLink(t, g, n)
  <2>1. \A i \in 1 .. Len(t) :
        /\ t[i].what = "message" => g[i] = g[i - 1] + 1 /\ t[i].messages = <<g[i]>>
        /\ t[i].what # "message" => g[i] = g[i - 1]
        /\ t[i].what = "messages" => t[i].messages = UpTo(g[i])
    <3> SUFFICES ASSUME NEW i \in 1 .. Len(t)
                 PROVE  /\ t[i].what = "message" => g[i] = g[i - 1] + 1 /\ t[i].messages = <<g[i]>>
                        /\ t[i].what # "message" => g[i] = g[i - 1]
                        /\ t[i].what = "messages" => t[i].messages = UpTo(g[i])
      OBVIOUS
    <3>1. i + 1 \in 1 .. Len(s) /\ (i + 1) - 1 = i /\ t[i] = s[i + 1] /\ g[i] = f[i + 1] /\ g[i - 1] = f[i]
      BY <1>5
    <3> QED
      BY <3>1 DEF NumbersLink
  <2> QED
    BY <1>1, <1>4, <1>6, <2>1 DEF NumbersLink
<1>8. /\ f[0] \in Nat /\ f[1] \in Nat
      /\ Head(s).what = "message" => f[1] = f[0] + 1 /\ Head(s).messages = <<f[1]>>
      /\ Head(s).what # "message" => f[1] = f[0]
      /\ Head(s).what = "messages" => Head(s).messages = UpTo(f[1])
  <2>1. 1 - 1 = 0 /\ 1 \in 0 .. Len(s)
    BY <1>1
  <2> QED
    BY <1>1, <1>2, <1>6, <2>1 DEF NumbersLink
<1> QED
  BY <1>6, <1>7, <1>8 DEF t

\* One reply at most is on its way.
LEMMA TakenTypes ==
    ASSUME DebugInv, debugLink # <<>>
    PROVE  /\ Head(debugLink) \in LinkItems /\ Tail(debugLink) \in Seq(LinkItems)
           /\ Once(Tail(debugLink), ReplyItems)
           /\ Head(debugLink).what \in ReplyKinds =>
                /\ Head(debugLink) \in ReplyItems
                /\ \A i \in 1 .. Len(Tail(debugLink)) : Tail(debugLink)[i].what \notin ReplyKinds
           /\ \A i \in 1 .. Len(Tail(debugLink)) : \E j \in 1 .. Len(debugLink) :
                Tail(debugLink)[i] = debugLink[j]
           /\ 1 \in 1 .. Len(debugLink) /\ Head(debugLink) = debugLink[1]
<1> DEFINE s == debugLink
           t == Tail(s)
<1>1. s \in Seq(LinkItems) /\ Once(s, ReplyItems)
  BY DEF DebugInv, DebugTypes
<1>2. /\ Len(s) \in Nat /\ Len(s) # 0 /\ Len(t) = Len(s) - 1 /\ Head(s) = s[1]
      /\ \A i \in 1 .. Len(t) : t[i] = s[i + 1]
      /\ t \in Seq(LinkItems) /\ Head(s) \in LinkItems
  BY <1>1, HeadTailProperties
<1>3. Once(t, ReplyItems) /\ (Head(s) \in ReplyItems => ~Has(t, ReplyItems))
  BY <1>1, OnceTail
<1>4. \A i \in 1 .. Len(t) : t[i] \in LinkItems
  BY <1>2, ElementOfSeq
<1>5. \A i \in 1 .. Len(t) : i + 1 \in 1 .. Len(s)
  BY <1>2
<1>6. 1 \in 1 .. Len(s)
  BY <1>2
<1> HIDE DEF s, t
<1>7. Head(s).what \in ReplyKinds =>
        Head(s) \in ReplyItems /\ \A i \in 1 .. Len(t) : t[i].what \notin ReplyKinds
  BY <1>2, <1>3, <1>4 DEF ReplyItems, Has
<1> QED
  BY <1>2, <1>3, <1>5, <1>6, <1>7 DEF s, t

-----------------------------------------------------------------------------
(* The text.                                                               *)

\* The rest of a sequence behind its first c items.
LEMMA RestOf ==
    ASSUME NEW A, NEW s \in Seq(A), NEW c \in 0 .. Len(s)
    PROVE  /\ SubSeq(s, c + 1, Len(s)) \in Seq(A) /\ Len(SubSeq(s, c + 1, Len(s))) = Len(s) - c
           /\ \A i \in 1 .. Len(s) - c : SubSeq(s, c + 1, Len(s))[i] = s[c + i]
<1> DEFINE n == Len(s)
<1>1. n \in Nat /\ c \in Nat /\ c <= n
  BY LenProperties
<1>2. \A i \in c + 1 .. n : s[i] \in A
  <2>1. \A i \in 1 .. n : s[i] \in A
    BY ElementOfSeq
  <2> HIDE DEF n
  <2> QED
    BY <1>1, <2>1
<1> HIDE DEF n
<1>3. /\ SubSeq(s, c + 1, n) \in Seq(A)
      /\ Len(SubSeq(s, c + 1, n)) = IF c + 1 <= n THEN n - (c + 1) + 1 ELSE 0
      /\ \A i \in 1 .. n - (c + 1) + 1 : SubSeq(s, c + 1, n)[i] = s[c + 1 + i - 1]
  BY <1>1, <1>2, SubSeqProperties
<1>4. /\ n - (c + 1) + 1 = n - c /\ (~(c + 1 <= n) => n - c = 0)
      /\ \A i \in 1 .. n - c : c + 1 + i - 1 = c + i
  BY <1>1
<1>5. /\ SubSeq(s, c + 1, n) \in Seq(A) /\ Len(SubSeq(s, c + 1, n)) = n - c
      /\ \A i \in 1 .. n - c : SubSeq(s, c + 1, n)[i] = s[c + i]
  BY <1>3, <1>4
<1> QED
  BY <1>5 DEF n

\* It grows with the sequence.
LEMMA RestOfConcat ==
    ASSUME NEW A, NEW s \in Seq(A), NEW t \in Seq(A), NEW c \in 0 .. Len(s)
    PROVE  SubSeq(s \o t, c + 1, Len(s) + Len(t)) = SubSeq(s, c + 1, Len(s)) \o t
<1> DEFINE n == Len(s)
           m == Len(t)
           a == SubSeq(s, c + 1, Len(s))
           b == SubSeq(s \o t, c + 1, Len(s) + Len(t))
<1>1. /\ n \in Nat /\ m \in Nat /\ c \in Nat /\ c <= n
      /\ s \o t \in Seq(A) /\ Len(s \o t) = n + m
      /\ \A i \in 1 .. n + m : (s \o t)[i] = IF i <= n THEN s[i] ELSE t[i - n]
  BY LenProperties, ConcatProperties
<1>2. a \in Seq(A) /\ Len(a) = n - c /\ \A i \in 1 .. n - c : a[i] = s[c + i]
  BY RestOf
<1>3. b \in Seq(A) /\ Len(b) = n + m - c /\ \A i \in 1 .. n + m - c : b[i] = (s \o t)[c + i]
  <2>1. c \in 0 .. Len(s \o t)
    BY <1>1
  <2> QED
    BY <1>1, <2>1, RestOf
<1> HIDE DEF a, b
<1>4. /\ a \o t \in Seq(A) /\ Len(a \o t) = (n - c) + m
      /\ \A i \in 1 .. (n - c) + m : (a \o t)[i] = IF i <= n - c THEN a[i] ELSE t[i - (n - c)]
  <2>1. /\ a \o t \in Seq(A) /\ Len(a \o t) = Len(a) + Len(t)
        /\ \A i \in 1 .. Len(a) + Len(t) : (a \o t)[i] = IF i <= Len(a) THEN a[i] ELSE t[i - Len(a)]
    BY <1>2, ConcatProperties
  <2> QED
    BY <1>2, <2>1
<1> HIDE DEF n, m
<1>5. \A i \in 1 .. n + m - c : b[i] = (a \o t)[i]
  <2> SUFFICES ASSUME NEW i \in 1 .. n + m - c PROVE b[i] = (a \o t)[i]
    OBVIOUS
  <2>1. /\ c + i \in 1 .. n + m /\ i \in 1 .. (n - c) + m /\ (c + i) - n = i - (n - c)
        /\ c + i <= n => i <= n - c /\ i \in 1 .. n - c
        /\ ~(c + i <= n) => ~(i <= n - c)
    BY <1>1
  <2> QED
    BY <1>1, <1>2, <1>3, <1>4, <2>1
<1>6. Len(b) = Len(a \o t) /\ \A i \in 1 .. Len(b) : b[i] = (a \o t)[i]
  BY <1>1, <1>3, <1>4, <1>5
<1>7. b = a \o t
  BY <1>3, <1>4, <1>6, SeqEqual
<1> QED
  BY <1>7 DEF a, b

LEMMA ViewAppends ==
    ASSUME DebugInv, NEW ms \in Seq(Nat), appendMessages(ms), viewVisible' = viewVisible
    PROVE  /\ given' \in Seq(Nat) /\ editor' \in Seq(Nat) /\ delayed' \in Seq(Nat) /\ ViewRight'
           /\ given' = given \o ms
<1> DEFINE n == Len(given)
           c == cleared
<1>1. /\ given \in Seq(Nat) /\ editor \in Seq(Nat) /\ delayed \in Seq(Nat)
      /\ given' = given \o ms /\ cleared' = c
      /\ c \in Nat /\ c <= n /\ n \in Nat /\ Len(ms) \in Nat
      /\ editor \o delayed = SubSeq(given, c + 1, n)
  BY LenProperties DEF DebugInv, DebugTypes, ViewRight, appendMessages
<1> HIDE DEF n, c
<1>2. editor' \in Seq(Nat) /\ delayed' \in Seq(Nat) /\ editor' \o delayed' = (editor \o delayed) \o ms
  <2>1. CASE viewVisible
    <3>1. editor' = editor \o ms /\ delayed' = delayed /\ delayed = <<>>
      BY <2>1 DEF appendMessages, DebugInv, DebugTypes, ViewRight
    <3>2. editor \o ms \in Seq(Nat)
      BY <1>1, ConcatProperties
    <3>3. editor \o delayed = editor /\ (editor \o ms) \o <<>> = editor \o ms
      BY <1>1, <3>1, <3>2, ConcatEmptySeq
    <3>4. editor' \o delayed' = (editor \o ms) \o <<>> /\ (editor \o delayed) \o ms = editor \o ms
      BY <3>1, <3>3
    <3>5. editor' \in Seq(Nat)
      BY <3>1, <3>2
    <3>6. delayed' \in Seq(Nat)
      <4>1. delayed' = delayed
        BY <3>1
      <4> QED
        BY <1>1, <4>1
    <3>7. editor' \o delayed' = (editor \o delayed) \o ms
      BY <3>3, <3>4, Zenon
    <3> QED
      BY <3>5, <3>6, <3>7, Zenon
  <2>2. CASE ~viewVisible
    <3>1. editor' = editor /\ delayed' = delayed \o ms
      BY <2>2 DEF appendMessages
    <3>2. delayed \o ms \in Seq(Nat)
      BY <1>1, ConcatProperties
    <3>3. editor' \in Seq(Nat)
      <4>1. editor' = editor
        BY <3>1
      <4> QED
        BY <1>1, <4>1
    <3>4. delayed' \in Seq(Nat)
      BY <3>1, <3>2
    <3>5. (editor \o delayed) \o ms = editor \o (delayed \o ms)
      <4>1. editor \in Seq(Nat) /\ delayed \in Seq(Nat) /\ ms \in Seq(Nat)
        BY <1>1
      <4> QED
        BY <4>1, ConcatAssociative
    <3>6. editor' \o delayed' = (editor \o delayed) \o ms
      BY <3>1, <3>5, Zenon
    <3> QED
      BY <3>3, <3>4, <3>6, Zenon
  <2> QED
    BY <2>1, <2>2
<1>3. given \o ms \in Seq(Nat) /\ Len(given \o ms) = n + Len(ms)
  BY <1>1, ConcatProperties DEF n
<1>4. SubSeq(given \o ms, c + 1, n + Len(ms)) = SubSeq(given, c + 1, n) \o ms
  <2>1. c \in 0 .. Len(given) /\ Len(given) = n
    BY <1>1 DEF n
  <2> QED
    BY <1>1, <2>1, RestOfConcat
<1>5. ViewRight'
  <2>1. cleared' \in 0 .. Len(given')
    BY <1>1, <1>3
  <2>2. viewVisible' = TRUE => delayed' = <<>>
    BY DEF appendMessages, DebugInv, ViewRight
  <2> QED
    BY <1>1, <1>2, <1>3, <1>4, <2>1, <2>2 DEF ViewRight
<1> QED
  BY <1>1, <1>2, <1>3, <1>5

-----------------------------------------------------------------------------
(* Steps.                                                                  *)

LEMMA DebugBegins == DebugInit => DebugInv
<1> SUFFICES ASSUME DebugInit PROVE DebugInv
  OBVIOUS
<1>0. /\ <<>> \in Seq(Nat) /\ <<>> \in Seq(LinkItems) /\ Len(<<>>) = 0
      /\ emitted \in Nat /\ debugLink = <<>>
  BY EmptySeq DEF DebugInit
<1>1. DebugTypes
  <2>1. Once(<<>>, ReplyItems)
    BY <1>0 DEF Once
  <2> QED
    BY <1>0, <2>1 DEF DebugInit, DebugTypes, ReplyKinds
<1>2. RepliesAwaited /\ SignalledWhenAsked
  BY DEF DebugInit, RepliesAwaited, SignalledWhenAsked
<1>3. ViewRight
  <2>1. SubSeq(<<>>, 1, 0) = <<>>
    BY SubSeqEmpty
  <2>2. <<>> \o <<>> = <<>>
    BY ConcatEmptySeq, EmptySeq
  <2> QED
    BY <2>1, <2>2 DEF DebugInit, ViewRight
<1>4. \E g : NumbersLink(debugLink, g, emitted) /\ g[0] = emitted
  <2>1. \A i \in 1 .. Len(debugLink) : debugLink[i].what \notin {"message", "messages"}
    BY <1>0
  <2> QED
    BY <1>0, <2>1, LinkSilent
<1>5. Told(emitted)
  BY <1>0 DEF DebugInit, Told, CacheFollows, ListReaches, GivenRight, ReplyKinds
<1> QED
  BY <1>1, <1>2, <1>3, <1>4, <1>5 DEF DebugInv

\* Steps of the process change nothing at the debugger's end.
AtDebugger == <<answered, receiver, tmpCache, viewVars>>

LEMMA DebuggerStays ==
    ASSUME DebugInv, UNCHANGED AtDebugger
    PROVE  ViewRight' /\ \A b : Told(b) => Told(b)'
  BY DEF DebugInv, AtDebugger, viewVars, ViewRight, Told, CacheFollows, ListReaches, GivenRight, GivenAs

LEMMA EmitsKept == ASSUME DebugInv, Emits PROVE DebugInv'
<1>1. /\ emitted' = emitted + 1 /\ emitted \in Nat
      /\ UNCHANGED <<monitoring, exited>> /\ UNCHANGED AtDebugger
      /\ debugLink \in Seq(LinkItems) /\ Once(debugLink, ReplyItems) /\ monitoring \in BOOLEAN
  BY DEF Emits, AtDebugger, DebugInv, DebugTypes
<1>2. ViewRight' /\ \A b : Told(b) => Told(b)'
  BY <1>1, DebuggerStays
<1>3. CASE monitoring = TRUE
  <2> DEFINE x == Item("message", <<emitted + 1>>, FALSE)
  <2>1. debugLink' = Append(debugLink, x)
    BY <1>1, <1>3 DEF Emits
  <2>2. x \in LinkItems /\ x \notin ReplyItems /\ x.what = "message" /\ x.messages = <<emitted + 1>>
    BY <1>1 DEF Item, LinkItems, ReplyItems, ReplyKinds
  <2> HIDE DEF x
  <2>3. /\ debugLink' \in Seq(LinkItems) /\ Len(debugLink') = Len(debugLink) + 1
        /\ \A i \in 1 .. Len(debugLink) : debugLink'[i] = debugLink[i]
        /\ debugLink'[Len(debugLink) + 1] = x /\ Len(debugLink) \in Nat
    BY <1>1, <2>1, <2>2, AppendProperties
  <2>4. Once(debugLink', ReplyItems)
    BY <1>1, <2>1, <2>2, OnceAppend
  <2>5. \E g : NumbersLink(debugLink', g, emitted') /\ Told(g[0])'
    <3>1. PICK f : NumbersLink(debugLink, f, emitted) /\ Told(f[0])
      BY DEF DebugInv
    <3>2. \E g : NumbersLink(debugLink', g, emitted') /\ g[0] = f[0]
      BY <1>1, <2>1, <2>2, <3>1, LinkNews
    <3> QED
      BY <1>2, <3>1, <3>2
  <2>6. RepliesAwaited'
    <3>1. x.what \notin ReplyKinds
      BY <2>2 DEF ReplyKinds
    <3> QED
      BY <1>1, <2>3, <3>1 DEF DebugInv, RepliesAwaited, AtDebugger
  <2>7. DebugTypes' /\ SignalledWhenAsked'
    BY <1>1, <1>3, <2>3, <2>4 DEF DebugInv, DebugTypes, SignalledWhenAsked, AtDebugger, viewVars
  <2> QED
    BY <1>2, <2>5, <2>6, <2>7 DEF DebugInv
<1>4. CASE monitoring = FALSE
  <2>1. debugLink' = debugLink
    BY <1>4 DEF Emits
  <2>2. \A i \in 1 .. Len(debugLink) : debugLink[i].what \notin {"message", "messages"}
    BY <1>4 DEF DebugInv, SignalledWhenAsked
  <2>3. \E g : NumbersLink(debugLink', g, emitted') /\ g[0] = emitted'
    <3>1. emitted' \in Nat
      BY <1>1
    <3> QED
      BY <1>1, <2>1, <2>2, <3>1, LinkSilent
  <2>4. \A b \in Nat : Told(b)'
    <3>1. /\ tmpCache = <<>> /\ receiver \in {"introspection", "monitoring", "none"}
          /\ Len(tmpCache) = 0
      BY <1>4, EmptySeq DEF DebugInv, SignalledWhenAsked
    <3>2. receiver \in ReplyKinds => given = <<>>
      BY DEF DebugInv, Told, GivenRight
    <3> QED
      BY <1>1, <3>1, <3>2
         DEF Told, CacheFollows, ListReaches, GivenRight, AtDebugger, viewVars
  <2>5. DebugTypes' /\ SignalledWhenAsked' /\ RepliesAwaited'
    BY <1>1, <1>4, <2>1
       DEF DebugInv, DebugTypes, SignalledWhenAsked, RepliesAwaited, AtDebugger, viewVars
  <2> QED
    <3>1. emitted' \in Nat
      BY <1>1
    <3>2. \E g : NumbersLink(debugLink', g, emitted') /\ Told(g[0])'
      BY <2>3, <2>4, <3>1
    <3> QED
      BY <1>2, <2>5, <3>2 DEF DebugInv
<1> QED
  BY <1>1, <1>3, <1>4

\* A reply or the exit is sent.
LEMMA SendsKept ==
    ASSUME DebugInv, NEW x \in LinkItems, debugLink' = Append(debugLink, x),
           UNCHANGED AtDebugger, emitted' = emitted, monitoring' \in BOOLEAN, exited' \in BOOLEAN,
           x.what # "message", x.what = "messages" => x.messages = UpTo(emitted),
           x.what \in ReplyKinds =>
             /\ x.what = receiver /\ answered = <<>>
             /\ \A i \in 1 .. Len(debugLink) : debugLink[i].what = "message",
           monitoring' = FALSE =>
             /\ monitoring = FALSE /\ x.what # "messages"
             /\ x.what = "monitoring" => x.error = TRUE
    PROVE  DebugInv'
<1>1. debugLink \in Seq(LinkItems) /\ Once(debugLink, ReplyItems) /\ emitted \in Nat
  BY DEF DebugInv, DebugTypes
<1>2. ViewRight' /\ \A b : Told(b) => Told(b)'
  BY DebuggerStays
<1>3. /\ debugLink' \in Seq(LinkItems) /\ Len(debugLink') = Len(debugLink) + 1
      /\ \A i \in 1 .. Len(debugLink) : debugLink'[i] = debugLink[i]
      /\ debugLink'[Len(debugLink) + 1] = x /\ Len(debugLink) \in Nat
  BY <1>1, AppendProperties
<1>4. Once(debugLink', ReplyItems)
  <2>1. x \in ReplyItems => ~Has(debugLink, ReplyItems)
    BY DEF ReplyItems, Has, ReplyKinds
  <2> QED
    BY <1>1, <2>1, OnceAppend
<1>5. \E g : NumbersLink(debugLink', g, emitted') /\ Told(g[0])'
  <2>1. PICK f : NumbersLink(debugLink, f, emitted) /\ Told(f[0])
    BY DEF DebugInv
  <2>2. \E g : NumbersLink(debugLink', g, emitted') /\ g[0] = f[0]
    BY <1>1, <2>1, LinkOther
  <2> QED
    BY <1>2, <2>1, <2>2
<1>6. RepliesAwaited'
  BY <1>3 DEF DebugInv, RepliesAwaited, AtDebugger
<1>7. DebugTypes'
  BY <1>3, <1>4 DEF DebugInv, DebugTypes, AtDebugger, viewVars
<1>8. SignalledWhenAsked'
  BY <1>3 DEF DebugInv, SignalledWhenAsked, AtDebugger
<1> QED
  BY <1>2, <1>5, <1>6, <1>7, <1>8 DEF DebugInv

LEMMA RepliesKept == ASSUME DebugInv, NEW error \in BOOLEAN, Replies(error) PROVE DebugInv'
<1> DEFINE x == Item(receiver, UpTo(emitted), error)
<1>1. /\ debugLink' = Append(debugLink, x) /\ UNCHANGED AtDebugger /\ emitted' = emitted
      /\ exited' = exited /\ monitoring' = (monitoring \/ (receiver = "monitoring" /\ ~error))
      /\ receiver \in ReplyKinds /\ answered = <<>>
      /\ \A i \in DOMAIN debugLink : debugLink[i].what = "message"
  BY DEF Replies, AtDebugger, UpTo, Waiting, ReplyKinds
<1>2. x \in LinkItems /\ x.what = receiver /\ x.messages = UpTo(emitted) /\ x.error = error
  <2>1. UpTo(emitted) \in Seq(Nat)
    <3>1. UpTo(emitted) \in [1 .. emitted -> Nat] /\ emitted \in Nat
      BY DEF UpTo, DebugInv, DebugTypes
    <3> QED
      BY <3>1, SeqOfItems
  <2> QED
    BY <1>1, <2>1 DEF Item, LinkItems
<1>3. monitoring' = FALSE =>
        monitoring = FALSE /\ receiver # "messages" /\ (receiver = "monitoring" => error = TRUE)
  BY <1>1 DEF DebugInv, DebugTypes, SignalledWhenAsked
<1>4. receiver # "message" /\ monitoring' \in BOOLEAN /\ exited' \in BOOLEAN
      /\ \A i \in 1 .. Len(debugLink) : debugLink[i].what = "message"
  BY <1>1 DEF ReplyKinds, DebugInv, DebugTypes
<1> HIDE DEF x
<1> QED
  BY <1>1, <1>2, <1>3, <1>4, SendsKept

LEMMA ExitsKept == ASSUME DebugInv, Exits PROVE DebugInv'
<1> DEFINE x == Item("exit", <<>>, FALSE)
<1>1. /\ debugLink' = Append(debugLink, x) /\ UNCHANGED AtDebugger /\ emitted' = emitted
      /\ exited' = TRUE /\ monitoring' = monitoring
  BY DEF Exits, AtDebugger
<1>2. x \in LinkItems /\ x.what = "exit" /\ x.what \notin ReplyKinds
  BY DEF Item, LinkItems, ReplyKinds
<1>3. monitoring' \in BOOLEAN /\ exited' \in BOOLEAN
  BY <1>1 DEF DebugInv, DebugTypes
<1> HIDE DEF x
<1> QED
  BY <1>1, <1>2, <1>3, SendsKept

\* The debugger takes the first item.
LEMMA ArrivesTold ==
    ASSUME DebugInv, NEW what, Arrives(what)
    PROVE  \E a \in Nat, b \in Nat : \E g :
             /\ Told(a) /\ NumbersLink(debugLink', g, emitted') /\ g[0] = b
             /\ what = "message" => b = a + 1 /\ Head(debugLink).messages = <<b>>
             /\ what # "message" => b = a
             /\ what = "messages" => Head(debugLink).messages = UpTo(b)
<1>1. /\ debugLink \in Seq(LinkItems) /\ debugLink # <<>> /\ emitted \in Nat
      /\ Head(debugLink).what = what /\ debugLink' = Tail(debugLink) /\ emitted' = emitted
  BY DEF DebugInv, DebugTypes, Arrives, processVars
<1>2. PICK f : NumbersLink(debugLink, f, emitted) /\ Told(f[0])
  BY DEF DebugInv
<1>3. /\ \E g : NumbersLink(Tail(debugLink), g, emitted) /\ g[0] = f[1]
      /\ f[0] \in Nat /\ f[1] \in Nat
      /\ what = "message" => f[1] = f[0] + 1 /\ Head(debugLink).messages = <<f[1]>>
      /\ what # "message" => f[1] = f[0]
      /\ what = "messages" => Head(debugLink).messages = UpTo(f[1])
  BY <1>1, <1>2, LinkTaken
<1> QED
  BY <1>1, <1>2, <1>3

LEMMA ReplyArrivesKept == ASSUME DebugInv, ReplyArrives PROVE DebugInv'
<1> DEFINE x == Head(debugLink)
<1>1. /\ Arrives(receiver) /\ receiver \in ReplyKinds /\ answered = <<>> /\ answered' = <<x>>
      /\ UNCHANGED <<receiver, tmpCache, viewVars, processVars>>
      /\ debugLink # <<>> /\ debugLink' = Tail(debugLink) /\ x.what = receiver
  BY DEF ReplyArrives, Waiting, Arrives, ReplyKinds
<1>2. /\ x \in ReplyItems /\ debugLink' \in Seq(LinkItems) /\ Once(debugLink', ReplyItems)
      /\ \A i \in 1 .. Len(debugLink') : debugLink'[i].what \notin ReplyKinds
      /\ \A i \in 1 .. Len(debugLink') : \E j \in 1 .. Len(debugLink) :
                debugLink'[i] = debugLink[j]
      /\ 1 \in 1 .. Len(debugLink) /\ x = debugLink[1]
  BY <1>1, TakenTypes
<1>3. PICK a \in Nat, b \in Nat : \E g :
             /\ Told(a) /\ NumbersLink(debugLink', g, emitted') /\ g[0] = b
             /\ receiver = "message" => b = a + 1 /\ x.messages = <<b>>
             /\ receiver # "message" => b = a
             /\ receiver = "messages" => x.messages = UpTo(b)
  BY <1>1, ArrivesTold
<1>4. PICK g : NumbersLink(debugLink', g, emitted') /\ g[0] = b
  BY <1>3
<1>5. b = a /\ answered'[1] = x /\ answered' # <<>>
  BY <1>1, <1>3 DEF ReplyKinds
<1>6. tmpCache \in Seq(Nat) /\ Len(tmpCache) \in Nat
  BY LenProperties DEF DebugInv, DebugTypes
<1> HIDE DEF x
<1>7. Told(b)'
  <2>1. CacheFollows(b)' /\ GivenRight(b)'
    BY <1>1, <1>3, <1>5 DEF Told, CacheFollows, GivenRight, GivenAs, viewVars
  <2>2. b <= b /\ b - Len(tmpCache) <= b
    BY <1>6
  <2>3. ListReaches(b)'
    BY <1>1, <1>3, <1>5, <2>2 DEF ListReaches
  <2> QED
    BY <2>1, <2>3 DEF Told
<1>8. DebugTypes'
  BY <1>1, <1>2 DEF DebugInv, DebugTypes, processVars, viewVars
<1>9. RepliesAwaited'
  BY <1>1, <1>2, <1>5 DEF RepliesAwaited
<1>10. SignalledWhenAsked'
  BY <1>1, <1>2, <1>5 DEF DebugInv, SignalledWhenAsked, processVars, ReplyKinds
<1>11. ViewRight'
  BY <1>1 DEF DebugInv, ViewRight, viewVars
<1> QED
  BY <1>7, <1>8, <1>9, <1>10, <1>11, <1>4 DEF DebugInv

LEMMA RequestFailsKept == ASSUME DebugInv, RequestFails PROVE DebugInv'
<1> DEFINE x == Item(receiver, <<>>, TRUE)
<1>1. /\ receiver \in ReplyKinds /\ answered = <<>> /\ answered' = <<x>> /\ debugLink = <<>>
      /\ UNCHANGED <<debugLink, receiver, tmpCache, viewVars, processVars>>
  BY DEF RequestFails, Waiting, ReplyKinds
<1>2. x \in ReplyItems /\ x.what = receiver /\ x.error = TRUE
  <2>1. <<>> \in Seq(Nat)
    BY EmptySeq
  <2> QED
    BY <1>1, <2>1 DEF Item, LinkItems, ReplyItems
<1>3. answered'[1] = x /\ answered' # <<>>
  BY <1>1
<1> HIDE DEF x
<1>4. \A b : Told(b) => Told(b)'
  BY <1>1, <1>2, <1>3 DEF Told, CacheFollows, ListReaches, GivenRight, GivenAs, viewVars
<1>5. \E f : NumbersLink(debugLink', f, emitted') /\ Told(f[0])'
  BY <1>1, <1>4 DEF DebugInv, processVars
<1>6. DebugTypes'
  BY <1>1, <1>2 DEF DebugInv, DebugTypes, processVars, viewVars
<1>7. RepliesAwaited'
  BY <1>1, <1>2, <1>3, EmptySeq DEF RepliesAwaited
<1>8. SignalledWhenAsked'
  BY <1>1, <1>2, <1>3 DEF DebugInv, SignalledWhenAsked, processVars, ReplyKinds
<1>9. ViewRight'
  BY <1>1 DEF DebugInv, ViewRight, viewVars
<1> QED
  BY <1>5, <1>6, <1>7, <1>8, <1>9 DEF DebugInv

\* Steps of the view alone.
AtReceiver == <<processVars, debugLink, answered, receiver, tmpCache, given, fetched>>

LEMMA ReceiverStays ==
    ASSUME DebugInv, UNCHANGED AtReceiver, ViewRight', viewVisible' \in BOOLEAN,
           editor' \in Seq(Nat), delayed' \in Seq(Nat)
    PROVE  DebugInv'
<1>1. \A b : Told(b) => Told(b)'
  BY DEF AtReceiver, Told, CacheFollows, ListReaches, GivenRight, GivenAs
<1>2. \E f : NumbersLink(debugLink', f, emitted') /\ Told(f[0])'
  BY <1>1 DEF DebugInv, AtReceiver, processVars
<1>3. DebugTypes'
  BY DEF DebugInv, DebugTypes, AtReceiver, processVars
<1>4. RepliesAwaited' /\ SignalledWhenAsked'
  BY DEF DebugInv, RepliesAwaited, SignalledWhenAsked, AtReceiver, processVars
<1> QED
  BY <1>2, <1>3, <1>4 DEF DebugInv

LEMMA ShowKept == ASSUME DebugInv, showEvent PROVE DebugInv'
<1>1. /\ UNCHANGED AtReceiver /\ cleared' = cleared /\ viewVisible' = TRUE
      /\ editor' = editor \o delayed /\ delayed' = <<>>
  BY DEF showEvent, AtReceiver
<1>2. editor \in Seq(Nat) /\ delayed \in Seq(Nat)
  BY DEF DebugInv, DebugTypes
<1>3. editor \o delayed \in Seq(Nat) /\ <<>> \in Seq(Nat)
  BY <1>2, ConcatProperties, EmptySeq
<1>4. (editor \o delayed) \o <<>> = editor \o delayed
  BY <1>3, ConcatEmptySeq
<1>5. editor' \in Seq(Nat) /\ delayed' \in Seq(Nat) /\ viewVisible' \in BOOLEAN
  BY <1>1, <1>3
<1>6. editor' \o delayed' = editor \o delayed
  BY <1>1, <1>4, Zenon
<1>7. ViewRight'
  BY <1>1, <1>6 DEF DebugInv, ViewRight, AtReceiver
<1> QED
  BY <1>1, <1>5, <1>7, ReceiverStays

LEMMA HiddenKept == ASSUME DebugInv, Hidden PROVE DebugInv'
<1>1. UNCHANGED AtReceiver /\ UNCHANGED <<cleared, editor, delayed>> /\ viewVisible' = FALSE
  BY DEF Hidden, AtReceiver
<1>2. ViewRight' /\ editor' \in Seq(Nat) /\ delayed' \in Seq(Nat)
  BY <1>1 DEF DebugInv, DebugTypes, ViewRight, AtReceiver
<1> QED
  BY <1>1, <1>2, ReceiverStays

LEMMA ClearKept == ASSUME DebugInv, clear PROVE DebugInv'
<1>1. /\ UNCHANGED AtReceiver /\ editor' = <<>> /\ cleared' = Len(given)
      /\ UNCHANGED <<delayed, viewVisible>> /\ viewVisible
  BY DEF clear, AtReceiver
<1>2. delayed = <<>> /\ given \in Seq(Nat) /\ <<>> \in Seq(Nat) /\ viewVisible \in BOOLEAN
  BY <1>1, EmptySeq DEF DebugInv, DebugTypes, ViewRight
<1> DEFINE r == SubSeq(given, Len(given) + 1, Len(given))
<1>3. Len(given) \in Nat /\ Len(given) \in 0 .. Len(given)
  <2>1. Len(given) \in Nat
    BY <1>2, LenProperties
  <2> QED
    BY <2>1
<1>4. r \in Seq(Nat) /\ Len(r) = Len(given) - Len(given)
  BY <1>2, <1>3, RestOf
<1> HIDE DEF r
<1>5. r = <<>>
  <2>1. Len(r) = 0
    BY <1>3, <1>4
  <2> QED
    BY <1>4, <2>1, EmptySeq
<1>6. <<>> \o <<>> = <<>>
  BY <1>2, ConcatEmptySeq
<1>7. cleared' \in 0 .. Len(given') /\ editor' \o delayed' = r
  BY <1>1, <1>2, <1>3, <1>5, <1>6 DEF AtReceiver
<1>8. r = SubSeq(given', cleared' + 1, Len(given'))
  BY <1>1 DEF AtReceiver, r
<1>9. ViewRight'
  BY <1>1, <1>2, <1>7, <1>8 DEF ViewRight
<1>10. editor' \in Seq(Nat) /\ delayed' \in Seq(Nat) /\ viewVisible' \in BOOLEAN
  BY <1>1, <1>2
<1> QED
  BY <1>1, <1>9, <1>10, ReceiverStays

\* A finished reply was waited for, and nothing else is on its way.
LEMMA FinishedAlone ==
    ASSUME DebugInv, NEW what, Finished(what)
    PROVE  /\ answered[1] \in ReplyItems /\ Head(answered) = answered[1]
           /\ receiver = what /\ receiver \in ReplyKinds /\ given = <<>>
           /\ \A i \in 1 .. Len(debugLink) : debugLink[i].what \notin ReplyKinds
           /\ answered # <<>> /\ answered' = <<>>
           /\ UNCHANGED <<processVars, debugLink, viewVisible, shows>>
<1>1. /\ answered # <<>> /\ Head(answered).what = what /\ answered' = <<>>
      /\ UNCHANGED <<processVars, debugLink, viewVisible, shows>>
  BY DEF Finished
<1>2. PICK x \in ReplyItems : answered = <<x>>
  BY <1>1 DEF DebugInv, DebugTypes
<1>3. answered[1] = x /\ Head(answered) = x
  BY <1>2
<1>4. receiver = what /\ receiver \in ReplyKinds
      /\ \A i \in 1 .. Len(debugLink) : debugLink[i].what \notin ReplyKinds
  BY <1>1, <1>3 DEF DebugInv, RepliesAwaited
<1>5. given = <<>>
  BY <1>4 DEF DebugInv, Told, GivenRight
<1> QED
  BY <1>1, <1>2, <1>3, <1>4, <1>5

\* A reply, or its failure, that brings nothing to print.
LEMMA NothingPrintedKept ==
    ASSUME DebugInv, NEW what, Finished(what), Unprinted,
           receiver' \in {"monitoring", "messages", "none"},
           tmpCache' = tmpCache \/ tmpCache' = <<>>,
           monitoring = FALSE => receiver' \in {"monitoring", "none"}
    PROVE  DebugInv'
<1>1. /\ given = <<>>
      /\ \A i \in 1 .. Len(debugLink) : debugLink[i].what \notin ReplyKinds
      /\ answered' = <<>> /\ UNCHANGED <<processVars, debugLink, viewVisible, shows>>
      /\ UNCHANGED <<delayed, editor, given, fetched, cleared>>
  BY FinishedAlone DEF Unprinted
<1>2. PICK f : NumbersLink(debugLink, f, emitted) /\ Told(f[0])
  BY DEF DebugInv
<1>3. <<>> \in Seq(Nat) /\ Len(<<>>) = 0 /\ f[0] \in Nat
  <2>1. debugLink \in Seq(LinkItems)
    BY DEF DebugInv, DebugTypes
  <2>2. Len(debugLink) \in Nat
    BY <2>1, LenProperties
  <2> QED
    BY <1>2, <2>2, EmptySeq DEF NumbersLink
<1>4. Told(f[0])'
  <2>1. CacheFollows(f[0])'
    <3>1. CASE tmpCache' = tmpCache
      <4>1. receiver' # "ready"
        OBVIOUS
      <4> QED
        BY <1>2, <3>1, <4>1 DEF Told, CacheFollows
    <3>2. CASE tmpCache' = <<>>
      BY <1>3, <3>2 DEF CacheFollows
    <3> QED
      BY <3>1, <3>2
  <2>2. ListReaches(f[0])' /\ GivenRight(f[0])'
    BY <1>1 DEF ListReaches, GivenRight
  <2> QED
    BY <2>1, <2>2 DEF Told
<1>5. \E g : NumbersLink(debugLink', g, emitted') /\ Told(g[0])'
  BY <1>1, <1>2, <1>4 DEF processVars
<1>6. tmpCache' \in Seq(Nat)
  BY <1>3 DEF DebugInv, DebugTypes
<1>7. DebugTypes'
  BY <1>1, <1>6 DEF DebugInv, DebugTypes, processVars, ReplyKinds
<1>8. RepliesAwaited'
  BY <1>1 DEF RepliesAwaited
<1>9. SignalledWhenAsked'
  BY <1>1 DEF DebugInv, SignalledWhenAsked, processVars
<1>10. ViewRight'
  BY <1>1 DEF DebugInv, ViewRight
<1> QED
  BY <1>5, <1>7, <1>8, <1>9, <1>10 DEF DebugInv

LEMMA ReceiverReadyKept == ASSUME DebugInv, onDebugReceiverReady PROVE DebugInv'
  BY NothingPrintedKept DEF onDebugReceiverReady

LEMMA MonitoringEnabledKept ==
    ASSUME DebugInv, onDebugReceiverMonitoringEnabled
    PROVE  DebugInv'
<1>1. /\ Finished("monitoring") /\ Unprinted
      /\ receiver' = IF Head(answered).error THEN "none" ELSE "messages"
      /\ tmpCache' = tmpCache \/ tmpCache' = <<>>
  BY DEF onDebugReceiverMonitoringEnabled
<1>2. receiver = "monitoring" /\ answered # <<>> /\ Head(answered) = answered[1]
  BY <1>1, FinishedAlone
<1>3. monitoring = FALSE => Head(answered).error = TRUE
  BY <1>2 DEF DebugInv, SignalledWhenAsked
<1> QED
  BY <1>1, <1>3, NothingPrintedKept

\* The list, and what was signalled meanwhile.
LEMMA ListWithCache ==
    ASSUME NEW k \in Nat, NEW b \in Nat, NEW cache \in Seq(Nat), k <= b, Len(cache) <= b,
           b - Len(cache) <= k,
           \A i \in 1 .. Len(cache) : cache[i] = b - Len(cache) + i
    PROVE  LET g == UpTo(k) \o cache
           IN  /\ g \in Seq(Nat) /\ b <= Len(g) /\ Len(g) <= b + k /\ k <= Len(g)
               /\ \A i \in 1 .. Len(g) : g[i] = IF i <= k THEN i ELSE b - Len(g) + i
               /\ k = Len(g) => b = Len(g)
<1> DEFINE u == UpTo(k)
           g == u \o cache
           n == Len(cache)
<1>1. u \in Seq(Nat) /\ Len(u) = k /\ \A i \in 1 .. k : u[i] = i
  <2>1. u \in [1 .. k -> Nat]
    BY DEF UpTo
  <2>2. u \in Seq(Nat) /\ Len(u) = k
    BY <2>1, SeqOfItems
  <2> QED
    BY <2>2 DEF UpTo
<1>2. n \in Nat
  BY LenProperties
<1>3. /\ g \in Seq(Nat) /\ Len(g) = k + n
      /\ \A i \in 1 .. k + n : g[i] = IF i <= k THEN u[i] ELSE cache[i - k]
  <2> HIDE DEF u
  <2> QED
    BY <1>1, ConcatProperties
<1> HIDE DEF g, u, n
<1>4. \A i \in 1 .. k + n : g[i] = IF i <= k THEN i ELSE b - (k + n) + i
  <2> SUFFICES ASSUME NEW i \in 1 .. k + n
               PROVE  g[i] = IF i <= k THEN i ELSE b - (k + n) + i
    OBVIOUS
  <2>1. CASE i <= k
    <3>1. i \in 1 .. k
      BY <2>1
    <3> QED
      BY <1>1, <1>3, <2>1, <3>1
  <2>2. CASE ~(i <= k)
    <3>1. i - k \in 1 .. n /\ b - n + (i - k) = b - (k + n) + i
      BY <1>2, <2>2
    <3> QED
      BY <1>3, <2>2, <3>1 DEF n
  <2> QED
    BY <2>1, <2>2
<1>5. b <= k + n /\ k + n <= b + k /\ k <= k + n /\ (k = k + n => b = k + n)
  <2>1. n <= b /\ b - n <= k
    BY DEF n
  <2> QED
    BY <1>2, <2>1
<1> QED
  BY <1>3, <1>4, <1>5 DEF g, u

LEMMA FetchKept == ASSUME DebugInv, onFetchMessagesFinished PROVE DebugInv'
<1>1. /\ receiver = "messages" /\ Head(answered) = answered[1] /\ answered[1] \in ReplyItems
      /\ given = <<>> /\ answered # <<>> /\ answered' = <<>> /\ tmpCache' = <<>>
      /\ \A i \in 1 .. Len(debugLink) : debugLink[i].what \notin ReplyKinds
      /\ UNCHANGED <<processVars, debugLink, viewVisible, shows>>
  BY FinishedAlone DEF onFetchMessagesFinished
<1>2. CASE Head(answered).error
  BY <1>1, <1>2, NothingPrintedKept DEF onFetchMessagesFinished
<1>3. CASE ~Head(answered).error
  <2> DEFINE cache == tmpCache
             ms == Head(answered).messages \o cache
  <2>1. /\ receiver' = "ready" /\ appendMessages(ms) /\ fetched' = Len(given')
    BY <1>3 DEF onFetchMessagesFinished, Fetched
  <2>2. answered[1].error = FALSE
    BY <1>1, <1>3 DEF ReplyItems, LinkItems
  <2>3. PICK f : NumbersLink(debugLink, f, emitted) /\ Told(f[0])
    BY DEF DebugInv
  <2> DEFINE b == f[0]
  <2>4. b \in Nat /\ cache \in Seq(Nat) /\ debugLink \in Seq(LinkItems)
    <3>1. debugLink \in Seq(LinkItems) /\ cache \in Seq(Nat)
      BY DEF DebugInv, DebugTypes
    <3>2. Len(debugLink) \in Nat
      BY <3>1, LenProperties
    <3> QED
      BY <2>3, <3>1, <3>2 DEF NumbersLink
  <2>5. PICK k \in Nat : answered[1].messages = UpTo(k) /\ k <= b /\ b - Len(cache) <= k
    BY <1>1, <2>2, <2>3 DEF Told, ListReaches
  <2>6. Len(cache) <= b /\ \A i \in 1 .. Len(cache) : cache[i] = b - Len(cache) + i
    BY <2>3 DEF Told, CacheFollows
  <2>7. ms = UpTo(k) \o cache
    BY <1>1, <2>5
  <2> HIDE DEF ms, b, cache
  <2>8. /\ ms \in Seq(Nat) /\ b <= Len(ms) /\ Len(ms) <= b + k /\ k <= Len(ms)
        /\ \A i \in 1 .. Len(ms) : ms[i] = IF i <= k THEN i ELSE b - Len(ms) + i
        /\ k = Len(ms) => b = Len(ms)
    BY <2>4, <2>5, <2>6, <2>7, ListWithCache
  <2>9. /\ given' \in Seq(Nat) /\ editor' \in Seq(Nat) /\ delayed' \in Seq(Nat) /\ ViewRight'
        /\ given' = given \o ms
    BY <1>1, <2>1, <2>8, ViewAppends
  <2>10. given' = ms
    <3>1. <<>> \o ms = ms
      BY <2>8, ConcatEmptySeq
    <3>2. given' = <<>> \o ms
      BY <1>1, <2>9
    <3> QED
      BY <3>1, <3>2, Zenon
  <2>11. <<>> \in Seq(Nat) /\ Len(<<>>) = 0 /\ Len(ms) \in Nat
    BY <2>8, EmptySeq, LenProperties
  <2>12. Told(b)'
    <3>1. CacheFollows(b)'
      BY <1>1, <2>4, <2>11 DEF CacheFollows
    <3>2. ListReaches(b)'
      BY <1>1 DEF ListReaches
    <3>3. fetched' = Len(ms) /\ Len(ms) <= Len(ms)
      BY <2>1, <2>10, <2>11
    <3>4. GivenAs(k, b)'
      BY <2>5, <2>8, <2>10, <3>3 DEF GivenAs
    <3>5. GivenRight(b)'
      BY <2>1, <3>4 DEF GivenRight, ReplyKinds
    <3> QED
      BY <3>1, <3>2, <3>5 DEF Told
  <2>13. \E g : NumbersLink(debugLink', g, emitted') /\ Told(g[0])'
    BY <1>1, <2>3, <2>12 DEF processVars, b
  <2>14. DebugTypes'
    <3>1. fetched' \in Nat
      BY <2>1, <2>10, <2>11
    <3> QED
      BY <1>1, <2>1, <2>9, <2>11, <3>1 DEF DebugInv, DebugTypes, processVars
  <2>15. RepliesAwaited' /\ SignalledWhenAsked'
    BY <1>1 DEF DebugInv, RepliesAwaited, SignalledWhenAsked, processVars
  <2> QED
    BY <2>9, <2>13, <2>14, <2>15 DEF DebugInv
<1> QED
  BY <1>2, <1>3

\* A message at the end of a sequence.
LEMMA OneMore ==
    ASSUME NEW s \in Seq(Nat), NEW n \in Nat
    PROVE  /\ <<n>> \in Seq(Nat) /\ s \o <<n>> \in Seq(Nat)
           /\ Len(s \o <<n>>) = Len(s) + 1 /\ Len(s) \in Nat
           /\ \A i \in 1 .. Len(s) : (s \o <<n>>)[i] = s[i]
           /\ (s \o <<n>>)[Len(s) + 1] = n
<1>1. <<n>> \in Seq(Nat) /\ Len(<<n>>) = 1 /\ <<n>>[1] = n
  OBVIOUS
<1> DEFINE t == <<n>>
<1> HIDE DEF t
<1>2. t \in Seq(Nat) /\ Len(t) = 1 /\ t[1] = n
  BY <1>1 DEF t
<1>3. /\ s \o t \in Seq(Nat) /\ Len(s \o t) = Len(s) + 1 /\ Len(s) \in Nat
      /\ \A i \in 1 .. Len(s) + 1 : (s \o t)[i] = IF i <= Len(s) THEN s[i] ELSE t[i - Len(s)]
  <2>1. /\ s \o t \in Seq(Nat) /\ Len(s \o t) = Len(s) + Len(t)
        /\ \A i \in 1 .. Len(s) + Len(t) :
             (s \o t)[i] = IF i <= Len(s) THEN s[i] ELSE t[i - Len(s)]
    BY <1>2, ConcatProperties
  <2>2. Len(s) \in Nat
    BY LenProperties
  <2> QED
    BY <1>2, <2>1, <2>2
<1>4. (s \o t)[Len(s) + 1] = n
  <2>1. Len(s) + 1 \in 1 .. Len(s) + 1 /\ ~(Len(s) + 1 <= Len(s)) /\ (Len(s) + 1) - Len(s) = 1
    BY <1>3
  <2> QED
    BY <1>2, <1>3, <2>1
<1>5. \A i \in 1 .. Len(s) : (s \o t)[i] = s[i]
  <2>1. \A i \in 1 .. Len(s) : i \in 1 .. Len(s) + 1 /\ i <= Len(s)
    BY <1>3
  <2> QED
    BY <1>3, <2>1
<1> QED
  BY <1>2, <1>3, <1>4, <1>5 DEF t

\* What was signalled before the list was fetched is kept.
LEMMA CachedKept ==
    ASSUME DebugInv, NEW a \in Nat, Told(a), receiver # "ready",
           tmpCache' = tmpCache \o <<a + 1>>, UNCHANGED <<answered, receiver, viewVars>>
    PROVE  Told(a + 1)' /\ tmpCache' \in Seq(Nat)
<1> DEFINE n == Len(tmpCache)
<1>1. /\ tmpCache \in Seq(Nat) /\ n \in Nat /\ n <= a /\ a + 1 \in Nat
      /\ \A i \in 1 .. n : tmpCache[i] = a - n + i
  BY LenProperties DEF DebugInv, DebugTypes, Told, CacheFollows
<1>2. /\ tmpCache' \in Seq(Nat) /\ Len(tmpCache') = n + 1
      /\ \A i \in 1 .. n : tmpCache'[i] = tmpCache[i]
      /\ tmpCache'[n + 1] = a + 1
  BY <1>1, OneMore
<1>3. CacheFollows(a + 1)'
  <2> HIDE DEF n
  <2>1. \A i \in 1 .. n + 1 : tmpCache'[i] = (a + 1) - (n + 1) + i
    <3> SUFFICES ASSUME NEW i \in 1 .. n + 1 PROVE tmpCache'[i] = (a + 1) - (n + 1) + i
      OBVIOUS
    <3>1. CASE i \in 1 .. n
      <4>1. (a + 1) - (n + 1) + i = a - n + i
        BY <1>1
      <4> QED
        BY <1>1, <1>2, <3>1, <4>1
    <3>2. CASE i = n + 1
      <4>1. (a + 1) - (n + 1) + i = a + 1
        BY <1>1, <3>2
      <4> QED
        BY <1>2, <3>2, <4>1
    <3>3. i \in 1 .. n \/ i = n + 1
      <4>1. n \in Nat
        BY <1>1
      <4> QED
        BY <4>1
    <3> QED
      BY <3>1, <3>2, <3>3
  <2>2. n + 1 <= a + 1
    BY <1>1
  <2> QED
    BY <1>2, <2>1, <2>2 DEF CacheFollows
<1>4. ListReaches(a + 1)'
  <2> SUFFICES ASSUME answered # <<>>, receiver = "messages", answered[1].error = FALSE
               PROVE  \E k \in Nat : /\ answered[1].messages = UpTo(k) /\ k <= a + 1
                                     /\ (a + 1) - Len(tmpCache') <= k
    BY DEF ListReaches
  <2>1. PICK k \in Nat : answered[1].messages = UpTo(k) /\ k <= a /\ a - n <= k
    BY DEF Told, ListReaches
  <2> HIDE DEF n
  <2>2. k <= a + 1 /\ (a + 1) - (n + 1) <= k
    BY <1>1, <2>1
  <2> QED
    BY <1>2, <2>1, <2>2
<1>5. GivenRight(a + 1)'
  BY DEF Told, GivenRight, viewVars
<1> QED
  BY <1>2, <1>3, <1>4, <1>5 DEF Told

\* What is signalled to a receiver that is ready follows what the view was given.
LEMMA ShownKept ==
    ASSUME DebugInv, NEW a \in Nat, Told(a), receiver = "ready", answered = <<>>,
           given' = given \o <<a + 1>>, UNCHANGED <<answered, receiver, tmpCache, fetched>>
    PROVE  Told(a + 1)'
<1> DEFINE n == Len(given)
<1>1. PICK k \in Nat : GivenAs(k, a)
  BY DEF Told, GivenRight
<1>2. given \in Seq(Nat) /\ n \in Nat /\ a + 1 \in Nat /\ fetched \in Nat /\ tmpCache = <<>>
      /\ Len(<<>>) = 0
  BY LenProperties, EmptySeq DEF DebugInv, DebugTypes, Told, CacheFollows
<1>3. /\ Len(given') = n + 1
      /\ \A i \in 1 .. n : given'[i] = given[i]
      /\ given'[n + 1] = a + 1
  BY <1>2, OneMore
<1>4. /\ k <= fetched /\ fetched <= n /\ k <= a /\ a <= n /\ n <= a + k
      /\ \A i \in 1 .. n : given[i] = IF i <= k THEN i ELSE a - n + i
      /\ k = fetched => a = n
  BY <1>1 DEF GivenAs
<1> HIDE DEF n
<1>5. \A i \in 1 .. n + 1 : given'[i] = IF i <= k THEN i ELSE (a + 1) - (n + 1) + i
  <2> SUFFICES ASSUME NEW i \in 1 .. n + 1
               PROVE  given'[i] = IF i <= k THEN i ELSE (a + 1) - (n + 1) + i
    OBVIOUS
  <2>1. CASE i \in 1 .. n
    <3>1. (a + 1) - (n + 1) + i = a - n + i
      BY <1>2
    <3> QED
      BY <1>3, <1>4, <2>1, <3>1
  <2>2. CASE i = n + 1
    <3>1. ~(i <= k) /\ (a + 1) - (n + 1) + i = a + 1
      <4>1. k <= n
        BY <1>2, <1>4
      <4> QED
        BY <1>2, <2>2, <4>1
    <3> QED
      BY <1>3, <2>2, <3>1
  <2>3. i \in 1 .. n \/ i = n + 1
    <3>1. n \in Nat
      BY <1>2
    <3> QED
      BY <3>1
  <2> QED
    BY <2>1, <2>2, <2>3
<1>6. fetched <= n + 1 /\ k <= a + 1 /\ a + 1 <= n + 1 /\ n + 1 <= a + 1 + k
      /\ (k = fetched => a + 1 = n + 1)
  BY <1>2, <1>4
<1>7. GivenAs(k, a + 1)'
  BY <1>3, <1>4, <1>5, <1>6 DEF GivenAs
<1>8. GivenRight(a + 1)'
  BY <1>7 DEF GivenRight, ReplyKinds
<1>9. CacheFollows(a + 1)' /\ ListReaches(a + 1)'
  BY <1>2 DEF CacheFollows, ListReaches
<1> QED
  BY <1>8, <1>9 DEF Told

\* An item that is not a reply is taken.
LEMMA TakenRest ==
    ASSUME DebugInv, NEW what \in {"message", "exit"}, Arrives(what), answered' = answered,
           receiver' = receiver \/ (receiver' = "none" /\ receiver = "ready"),
           what = "exit" => tmpCache' = tmpCache
    PROVE  /\ debugLink' \in Seq(LinkItems) /\ Once(debugLink', ReplyItems)
           /\ RepliesAwaited' /\ SignalledWhenAsked'
           /\ what = "message" => monitoring = TRUE
           /\ UNCHANGED processVars
<1>1. /\ debugLink # <<>> /\ debugLink' = Tail(debugLink) /\ Head(debugLink).what = what
      /\ UNCHANGED processVars /\ monitoring' = monitoring
  BY DEF Arrives, processVars
<1>2. /\ debugLink' \in Seq(LinkItems) /\ Once(debugLink', ReplyItems)
      /\ \A i \in 1 .. Len(debugLink') : \E j \in 1 .. Len(debugLink) :
                debugLink'[i] = debugLink[j]
      /\ 1 \in 1 .. Len(debugLink) /\ Head(debugLink) = debugLink[1]
  BY <1>1, TakenTypes
<1>3. what = "message" => monitoring = TRUE
  BY <1>1, <1>2 DEF DebugInv, DebugTypes, SignalledWhenAsked
<1>4. RepliesAwaited'
  BY <1>2 DEF DebugInv, RepliesAwaited, ReplyKinds
<1>5. SignalledWhenAsked'
  BY <1>1, <1>2, <1>3 DEF DebugInv, SignalledWhenAsked
<1> QED
  BY <1>1, <1>2, <1>3, <1>4, <1>5

LEMMA NewMessageKept == ASSUME DebugInv, onNewDebugMessage PROVE DebugInv'
<1>1. /\ Arrives("message") /\ receiver # "none"
      /\ UNCHANGED <<answered, receiver, viewVisible, shows>>
  BY DEF onNewDebugMessage, Arrives
<1>2. PICK a \in Nat, b \in Nat : \E g :
             /\ Told(a) /\ NumbersLink(debugLink', g, emitted') /\ g[0] = b
             /\ b = a + 1 /\ Head(debugLink).messages = <<b>>
  <2>1. \E c \in Nat, d \in Nat : \E h :
             /\ Told(c) /\ NumbersLink(debugLink', h, emitted') /\ h[0] = d
             /\ d = c + 1 /\ Head(debugLink).messages = <<d>>
    BY <1>1, ArrivesTold
  <2> QED
    BY <2>1
<1>3. /\ debugLink' \in Seq(LinkItems) /\ Once(debugLink', ReplyItems)
      /\ RepliesAwaited' /\ SignalledWhenAsked' /\ UNCHANGED processVars
  <2>1. "message" # "exit" /\ answered' = answered /\ receiver' = receiver
    BY <1>1
  <2> QED
    BY <1>1, <2>1, TakenRest
<1>4. CASE receiver = "ready"
  <2>1. appendMessages(<<a + 1>>) /\ UNCHANGED <<tmpCache, fetched>>
    BY <1>2, <1>4 DEF onNewDebugMessage, m_ready
  <2>2. <<a + 1>> \in Seq(Nat)
    OBVIOUS
  <2>3. /\ given' \in Seq(Nat) /\ editor' \in Seq(Nat) /\ delayed' \in Seq(Nat) /\ ViewRight'
        /\ given' = given \o <<a + 1>>
    BY <1>1, <2>1, <2>2, ViewAppends
  <2>4. answered = <<>>
    BY <1>4 DEF DebugInv, RepliesAwaited, ReplyKinds
  <2>5. Told(a + 1)'
    BY <1>1, <1>2, <1>4, <2>1, <2>3, <2>4, ShownKept
  <2>6. \E h : NumbersLink(debugLink', h, emitted') /\ Told(h[0])'
    BY <1>2, <2>5
  <2>7. DebugTypes'
    BY <1>1, <1>3, <2>1, <2>3 DEF DebugInv, DebugTypes, processVars
  <2> QED
    BY <1>3, <2>3, <2>6, <2>7 DEF DebugInv
<1>5. CASE receiver # "ready"
  <2>1. tmpCache' = tmpCache \o <<a + 1>> /\ Unprinted
    BY <1>2, <1>5 DEF onNewDebugMessage, m_ready
  <2>2. UNCHANGED viewVars
    BY <1>1, <2>1 DEF Unprinted, viewVars
  <2>3. Told(a + 1)' /\ tmpCache' \in Seq(Nat)
    BY <1>1, <1>2, <1>5, <2>1, <2>2, CachedKept
  <2>4. \E h : NumbersLink(debugLink', h, emitted') /\ Told(h[0])'
    BY <1>2, <2>3
  <2>5. DebugTypes'
    BY <1>1, <1>3, <2>2, <2>3 DEF DebugInv, DebugTypes, processVars, viewVars
  <2>6. ViewRight'
    BY <2>2 DEF DebugInv, ViewRight, viewVars
  <2> QED
    BY <1>3, <2>4, <2>5, <2>6 DEF DebugInv
<1> QED
  BY <1>4, <1>5

LEMMA InvalidatedReceiverKept == ASSUME DebugInv, onDebugReceiverInvalidated PROVE DebugInv'
<1>1. /\ Arrives("exit") /\ receiver' = IF m_ready THEN "none" ELSE receiver
      /\ UNCHANGED <<answered, tmpCache, viewVars>>
  BY DEF onDebugReceiverInvalidated
<1>2. PICK b \in Nat : \E g : Told(b) /\ NumbersLink(debugLink', g, emitted') /\ g[0] = b
  <2>1. \E c \in Nat, d \in Nat : \E h :
             Told(c) /\ NumbersLink(debugLink', h, emitted') /\ h[0] = d /\ d = c
    <3>1. "exit" # "message"
      OBVIOUS
    <3> QED
      BY <1>1, <3>1, ArrivesTold
  <2> QED
    BY <2>1
<1>3. receiver' = receiver \/ (receiver' = "none" /\ receiver = "ready")
  BY <1>1 DEF m_ready
<1>4. /\ debugLink' \in Seq(LinkItems) /\ Once(debugLink', ReplyItems)
      /\ RepliesAwaited' /\ SignalledWhenAsked' /\ UNCHANGED processVars
  BY <1>1, <1>3, TakenRest
<1>5. Told(b)'
  BY <1>1, <1>2, <1>3
     DEF Told, CacheFollows, ListReaches, GivenRight, GivenAs, viewVars, ReplyKinds
<1>6. DebugTypes'
  BY <1>1, <1>3, <1>4 DEF DebugInv, DebugTypes, processVars, viewVars
<1>7. ViewRight'
  BY <1>1 DEF DebugInv, ViewRight, viewVars
<1> QED
  BY <1>2, <1>4, <1>5, <1>6, <1>7 DEF DebugInv

LEMMA DebugStepKept == ASSUME DebugInv, DebugNext PROVE DebugInv'
  BY EmitsKept, RepliesKept, ExitsKept, ReplyArrivesKept, RequestFailsKept, ShowKept, HiddenKept,
     ClearKept, ReceiverReadyKept, MonitoringEnabledKept, FetchKept, NewMessageKept,
     InvalidatedReceiverKept
  DEF DebugNext

LEMMA DebugStutterKept == ASSUME DebugInv, UNCHANGED debugVars PROVE DebugInv'
<1>1. UNCHANGED <<processVars, debugLink>> /\ UNCHANGED AtDebugger
  BY DEF debugVars, AtDebugger
<1>2. ViewRight' /\ \A b : Told(b) => Told(b)'
  BY <1>1, DebuggerStays
<1>3. \E f : NumbersLink(debugLink', f, emitted') /\ Told(f[0])'
  BY <1>1, <1>2 DEF DebugInv, processVars
<1>4. DebugTypes' /\ RepliesAwaited' /\ SignalledWhenAsked'
  BY <1>1 DEF DebugInv, DebugTypes, RepliesAwaited, SignalledWhenAsked, processVars, AtDebugger,
              viewVars
<1> QED
  BY <1>2, <1>3, <1>4 DEF DebugInv

-----------------------------------------------------------------------------
(* The tab is complete.                                                    *)

\* What a list of k messages and a row that ends with message b hold.
LEMMA GivenHolds ==
    ASSUME DebugInv, NEW k \in Nat, NEW b \in Nat, GivenAs(k, b)
    PROVE  /\ Range(given) = 1 .. b /\ Cardinality(Range(given)) = b
           /\ \A i \in fetched + 1 .. Len(given) : i > 1 => given[i] = given[i - 1] + 1
           /\ \A n \in Range(given) : Cardinality({i \in DOMAIN given : given[i] = n}) <= 2
           /\ given # <<>> => Last(given) = b
<1> DEFINE m == Len(given)
<1>1. given \in Seq(Nat) /\ m \in Nat /\ fetched \in Nat /\ DOMAIN given = 1 .. m
  BY LenProperties DEF DebugInv, DebugTypes
<1>2. /\ k <= fetched /\ fetched <= m /\ k <= b /\ b <= m /\ m <= b + k
      /\ \A i \in 1 .. m : given[i] = IF i <= k THEN i ELSE b - m + i
      /\ k = fetched => b = m
  BY DEF GivenAs
<1> HIDE DEF m
<1>3. \A i \in 1 .. m : given[i] \in 1 .. b
  BY <1>1, <1>2
<1>4. \A n \in 1 .. b : \E i \in 1 .. m : given[i] = n
  <2> SUFFICES ASSUME NEW n \in 1 .. b PROVE \E i \in 1 .. m : given[i] = n
    OBVIOUS
  <2>1. CASE n <= k
    <3>1. n \in 1 .. m
      BY <1>1, <1>2, <2>1
    <3> QED
      BY <1>2, <2>1, <3>1
  <2>2. CASE ~(n <= k)
    <3>1. n - b + m \in 1 .. m /\ ~(n - b + m <= k) /\ b - m + (n - b + m) = n
      BY <1>1, <1>2, <2>2
    <3>2. given[n - b + m] = n
      BY <1>2, <3>1
    <3> QED
      BY <3>1, <3>2
  <2> QED
    BY <2>1, <2>2
<1>5. Range(given) = 1 .. b
  BY <1>1, <1>3, <1>4 DEF Range
<1>6. Cardinality(Range(given)) = b
  <2>1. Cardinality(1 .. b) = IF 1 > b THEN 0 ELSE b - 1 + 1
    BY FS_Interval
  <2> QED
    BY <1>5, <2>1
<1>7. \A i \in fetched + 1 .. m : i > 1 => given[i] = given[i - 1] + 1
  <2> SUFFICES ASSUME NEW i \in fetched + 1 .. m, i > 1 PROVE given[i] = given[i - 1] + 1
    OBVIOUS
  <2>1. i \in 1 .. m /\ i - 1 \in 1 .. m /\ ~(i <= k) /\ i \in Nat
    BY <1>1, <1>2
  <2>2. given[i] = b - m + i
    BY <1>2, <2>1
  <2>3. CASE i - 1 <= k
    <3>1. k = fetched /\ b = m
      BY <1>1, <1>2, <2>3
    <3>2. given[i - 1] = i - 1
      BY <1>2, <2>1, <2>3
    <3> QED
      BY <1>1, <2>1, <2>2, <3>1, <3>2
  <2>4. CASE ~(i - 1 <= k)
    <3>1. given[i - 1] = b - m + (i - 1)
      BY <1>2, <2>1, <2>4
    <3> QED
      BY <1>1, <2>1, <2>2, <3>1
  <2> QED
    BY <2>3, <2>4
<1>8. \A n \in Range(given) : Cardinality({i \in DOMAIN given : given[i] = n}) <= 2
  <2> SUFFICES ASSUME NEW n \in 1 .. b
               PROVE  Cardinality({i \in 1 .. m : given[i] = n}) <= 2
    BY <1>1, <1>5
  <2> DEFINE S == {i \in 1 .. m : given[i] = n}
             j == n - b + m
             T == {j} \cup {n}
  <2>1. S \subseteq T
    <3> SUFFICES ASSUME NEW i \in 1 .. m, given[i] = n PROVE i = n \/ i = n - b + m
      OBVIOUS
    <3>1. CASE i <= k
      BY <1>2, <3>1
    <3>2. CASE ~(i <= k)
      <4>1. n = b - m + i
        BY <1>2, <3>2
      <4> QED
        BY <1>1, <4>1
    <3> QED
      BY <3>1, <3>2
  <2> HIDE DEF j, S
  <2>2. IsFiniteSet({j}) /\ Cardinality({j}) = 1
    BY FS_Singleton
  <2>3. IsFiniteSet(T) /\ (Cardinality(T) = Cardinality({j}) \/ Cardinality(T) = Cardinality({j}) + 1)
    BY <2>2, FS_AddElement
  <2> HIDE DEF T
  <2>4. IsFiniteSet(S) /\ Cardinality(S) <= Cardinality(T) /\ Cardinality(S) \in Nat
    BY <2>1, <2>3, FS_Subset, FS_CardinalityType
  <2>5. Cardinality(S) <= 2
    BY <2>2, <2>3, <2>4
  <2> QED
    BY <2>5 DEF S
<1>9. given # <<>> => Last(given) = b
  <2> SUFFICES ASSUME given # <<>> PROVE given[m] = b
    BY DEF Last, m
  <2>1. m # 0
    BY <1>1, EmptySeq DEF m
  <2>2. m \in 1 .. m
    BY <1>1, <2>1
  <2>3. CASE m <= k
    <3>1. given[m] = m
      BY <1>2, <2>2, <2>3
    <3> QED
      BY <1>1, <1>2, <2>3, <3>1
  <2>4. CASE ~(m <= k)
    <3>1. given[m] = b - m + m
      BY <1>2, <2>2, <2>4
    <3> QED
      BY <1>1, <3>1
  <2> QED
    BY <2>3, <2>4
<1> QED
  BY <1>5, <1>6, <1>7, <1>8, <1>9 DEF m

LEMMA DebugInvComplete == DebugInv => TabsComplete
<1> SUFFICES ASSUME DebugInv PROVE TabsComplete
  OBVIOUS
<1>1. editor \o delayed = SubSeq(given, cleared + 1, Len(given)) /\ (viewVisible => delayed = <<>>)
  BY DEF DebugInv, DebugTypes, ViewRight
<1>2. ASSUME m_ready
      PROVE  /\ Range(given) = 1 .. Cardinality(Range(given))
             /\ \A i \in fetched + 1 .. Len(given) : i > 1 => given[i] = given[i - 1] + 1
             /\ \A n \in Range(given) : Cardinality({i \in DOMAIN given : given[i] = n}) <= 2
             /\ debugLink = <<>> /\ given # <<>> => Last(given) = emitted
  <2>1. PICK f : NumbersLink(debugLink, f, emitted) /\ Told(f[0])
    BY DEF DebugInv
  <2>2. f[0] \in Nat /\ (debugLink = <<>> => f[0] = emitted)
    <3>1. debugLink \in Seq(LinkItems)
      BY DEF DebugInv, DebugTypes
    <3>2. Len(debugLink) \in Nat /\ (debugLink = <<>> => Len(debugLink) = 0)
      BY <3>1, LenProperties, EmptySeq
    <3> QED
      BY <2>1, <3>2 DEF NumbersLink
  <2> DEFINE b == f[0]
  <2>3. PICK k \in Nat : GivenAs(k, b)
    BY <1>2, <2>1 DEF Told, GivenRight, m_ready
  <2> HIDE DEF b
  <2>4. b \in Nat /\ (debugLink = <<>> => b = emitted)
    BY <2>2 DEF b
  <2>5. /\ Range(given) = 1 .. b /\ Cardinality(Range(given)) = b
        /\ \A i \in fetched + 1 .. Len(given) : i > 1 => given[i] = given[i - 1] + 1
        /\ \A n \in Range(given) : Cardinality({i \in DOMAIN given : given[i] = n}) <= 2
        /\ given # <<>> => Last(given) = b
    BY <2>3, <2>4, GivenHolds
  <2> QED
    BY <2>4, <2>5
<1> QED
  BY <1>1, <1>2 DEF TabsComplete

\* The tab of a process misses no message, repeats only what was signalled before the list was
\* fetched, and shows what it was given, in order (TelepathyProcess and DebugMessageView).
THEOREM TabsStayComplete == DebugInit /\ [][DebugNext]_debugVars => []TabsComplete
<1>1. DebugInv /\ [DebugNext]_debugVars => DebugInv'
  BY DebugStepKept, DebugStutterKept
<1> QED
  BY <1>1, DebugBegins, DebugInvComplete, PTL

-----------------------------------------------------------------------------
(***************************************************************************)
(* The import of Kopete's logs.  The logs of a day are defined by          *)
(* recursion: DayLogGrows unfolds this once, and all else follows by       *)
(* induction over the messages of a file (AllNumbers).                     *)
(***************************************************************************)
Logs == Seq(KopeteMessages)

\* The log of a day grows by each message of it.
LEMMA DayLogGrows ==
    ASSUME NEW offset, NEW messages \in Logs, NEW day
    PROVE  /\ DayLog(offset, messages, day)[0] = <<>>
           /\ \A i \in 1 .. Len(messages) :
                DayLog(offset, messages, day)[i]
                  = IF IsOfDay(offset, messages[i], day)
                    THEN Append(DayLog(offset, messages, day)[i - 1], messages[i])
                    ELSE DayLog(offset, messages, day)[i - 1]
<1> DEFINE n == Len(messages)
           Next(i, kept) == IF IsOfDay(offset, messages[i], day) THEN Append(kept, messages[i]) ELSE kept
           step == [x \in (1 .. n) \X Logs |-> Next(x[1], x[2])]
           def(g) == [i \in 0 .. Len(messages) |-> IF i = 0 THEN <<>>
                                      ELSE IF IsOfDay(offset, messages[i], day)
                                           THEN Append(g[i - 1], messages[i])
                                           ELSE g[i - 1]]
<1>1. n \in Nat /\ <<>> \in Logs /\ \A i \in 1 .. n : messages[i] \in KopeteMessages
  BY DEF Logs
<1>2. \A i \in 1 .. n, kept \in Logs : Next(i, kept) \in Logs
  BY <1>1, AppendProperties DEF Logs
<1>3. step \in [(1 .. n) \X Logs -> Logs]
  BY <1>2
<1>4. \A i \in 1 .. n, kept \in Logs : step[<<i, kept>>] = Next(i, kept)
  OBVIOUS
<1> HIDE DEF step, n
<1>5. PICK g : StepByStep(g, Logs, <<>>, n, step)
  BY <1>1, <1>3, StepsExist
<1> USE DEF n
<1>6. /\ g \in [0 .. n -> Logs] /\ g[0] = <<>>
      /\ \A i \in 1 .. n : g[i] = step[<<i, g[i - 1]>>]
  BY <1>5 DEF StepByStep
<1>7. \A i \in 1 .. n : i - 1 \in 0 .. n /\ i \in 0 .. n
  BY <1>1
<1>8. \A i \in 1 .. n : g[i] = Next(i, g[i - 1])
  BY <1>4, <1>6, <1>7
<1>9. g = def(g)
  <2>1. \A i \in 0 .. n : i = 0 \/ i \in 1 .. n
    BY <1>1
  <2>2. \A i \in 0 .. n : g[i] = def(g)[i]
    BY <1>6, <1>8, <2>1
  <2> QED
    BY <1>6, <2>2
<1>10. DayLog(offset, messages, day) = CHOOSE f : f = def(f)
  BY DEF DayLog
<1> DEFINE k == DayLog(offset, messages, day)
<1>11. k = def(k)
  <2> HIDE DEF def
  <2> QED
    BY <1>9, <1>10
<1>12. 0 \in 0 .. n /\ \A i \in 1 .. n : i \in 0 .. n /\ i # 0
  BY <1>1
<1>13. k[0] = def(k)[0] /\ \A i \in 1 .. n : k[i] = def(k)[i]
  BY <1>11
<1> HIDE DEF k
<1>14. k[0] = <<>> /\ \A i \in 1 .. n : k[i] = Next(i, k[i - 1])
  BY <1>12, <1>13
<1> QED
  BY <1>14 DEF k

-----------------------------------------------------------------------------
(* The inductive invariant.                                                *)

Saved(file, account, day, content) ==
    PathOf(file, account, day) \in DOMAIN logs /\ logs[PathOf(file, account, day)] = content

WholeIfPrivate(file, account) == file.valid /\ ~file.room => Whole(file, account)

\* The account of the import is still the one it was started for.
Underway == importing # ""

\* What is in the history is what was asked for.
ImportTypes ==
    /\ zone \in {-1, 0, 1} /\ kopete \in KopeteLogs
    /\ thread \in {"idle", "starting", "files", "messages"}
    /\ imported \subseteq ImportAccounts /\ importing \in ImportAccounts \cup {""}
    /\ Underway => m_accountId = importing
    /\ ~Underway /\ thread # "idle" => imported = {}

\* Of the accounts whose import ended all files are whole, except while that of the
\* account runs once more.
EndedAreWhole ==
    \A a \in imported : thread = "idle" \/ a # importing =>
        \A i \in DOMAIN kopete[a] : WholeIfPrivate(kopete[a][i], a)

\* The files that are left are the last ones, and those before them are whole.
FilesDone == Len(kopete[importing]) - Len(files)

FilesBefore ==
    Underway /\ thread \in {"files", "messages"} =>
        /\ files \in Seq(Range(kopete[importing]))
        /\ Len(files) <= Len(kopete[importing])
        /\ \A j \in 1 .. Len(files) : files[j] = kopete[importing][FilesDone + j]
        /\ \A i \in 1 .. FilesDone : WholeIfPrivate(kopete[importing][i], importing)

\* The document is the log of the day of the last good message, up to this message, and
\* the logs of the other days are saved.
InDocument(messages) ==
    /\ position \in 0 .. Len(messages) /\ m_day \in 0 .. LastDay
    /\ m_day = 0 => document = <<>> /\ \A i \in 1 .. position : messages[i].time = "broken"
    /\ m_day # 0 => \E l \in 1 .. position :
                      /\ IsOfDay(zone, messages[l], m_day)
                      /\ \A i \in l + 1 .. position : messages[i].time = "broken"
    /\ m_day # 0 /\ StaysInMonth(zone, messages, m_day) =>
         document = DayLog(zone, messages, m_day)[position]
    /\ \A day \in 1 .. LastDay : DayLog(zone, messages, day)[position] # <<>> =>
         /\ \E i \in 1 .. position : IsOfDay(zone, messages[i], day)
         /\ day # m_day /\ StaysInMonth(zone, messages, day) =>
              Saved(Head(files), importing, day, DayLog(zone, messages, day)[position])

InFile ==
    Underway /\ thread = "messages" => 
        files # <<>> /\ Head(files).valid /\ InDocument(Head(files).messages)

ImportInv == ImportTypes /\ EndedAreWhole /\ FilesBefore /\ InFile

-----------------------------------------------------------------------------
(* Days.                                                                   *)

\* Numbers below a modulus stay the same when it is added.
LEMMA ModuloOnce == ASSUME NEW n \in Nat \ {0}, NEW x \in 0 .. n - 1 PROVE (x + n) % n = x
  OBVIOUS

\* Days are numbers, also shifted ones.
LEMMA ShiftedDay ==
    ASSUME NEW offset \in {-1, 0, 1}, NEW message \in KopeteMessages
    PROVE  /\ LastDay \in Nat \ {0} /\ message.day \in 1 .. LastDay /\ message.day \in Int
           /\ Shift(offset, message) \in {-1, 0, 1}
<1>1. LastDay \in Nat \ {0}
  BY ImportAssumption
<1>2. message.day \in 1 .. LastDay
  BY DEF KopeteMessages
<1>3. Shift(offset, message) \in {-1, 0, 1}
  BY DEF Shift
<1> QED
  BY <1>1, <1>2, <1>3

\* The day is one of the month, and the next or last one unless that is in another month.
LEMMA ParsedDay ==
    ASSUME NEW offset \in {-1, 0, 1}, NEW message \in KopeteMessages
    PROVE  /\ parseKopeteTime(offset, message) \in 1 .. LastDay
           /\ message.day + Shift(offset, message) \in 1 .. LastDay =>
                parseKopeteTime(offset, message) = message.day + Shift(offset, message)
<1> DEFINE x == message.day + Shift(offset, message) - 1
<1>1. LastDay \in Nat \ {0} /\ x \in Int
  BY ShiftedDay
<1>2. (x + LastDay) % LastDay \in 0 .. LastDay - 1
  <2> HIDE DEF x
  <2> QED
    BY <1>1
<1>3. x \in 0 .. LastDay - 1 => (x + LastDay) % LastDay = x
  <2> HIDE DEF x
  <2> QED
    BY <1>1, ModuloOnce
<1>4. message.day \in Int /\ Shift(offset, message) \in Int
  BY ShiftedDay
<1>5. parseKopeteTime(offset, message) = ((x + LastDay) % LastDay) + 1
  BY DEF parseKopeteTime
<1>6. x + 1 = message.day + Shift(offset, message)
  BY <1>4
<1> HIDE DEF x
<1> QED
  BY <1>1, <1>2, <1>3, <1>5, <1>6

\* The time zone keeps the order of the days.
LEMMA ShiftedOrder ==
    ASSUME NEW offset \in {-1, 0, 1}, NEW messages \in Logs, InTimeOrder(messages),
           NEW i \in 1 .. Len(messages), NEW j \in 1 .. Len(messages), i < j,
           messages[i].time # "broken", messages[j].time # "broken"
    PROVE  messages[i].day + Shift(offset, messages[i]) <= messages[j].day + Shift(offset, messages[j])
<1>1. messages[i] \in KopeteMessages /\ messages[j] \in KopeteMessages /\ DOMAIN messages = 1 .. Len(messages)
  BY DEF Logs
<1>2. messages[i].day \in Int /\ messages[j].day \in Int
  BY <1>1, ShiftedDay
<1>3. \/ messages[i].day < messages[j].day
      \/ /\ messages[i].day = messages[j].day
         /\ messages[i].time = "late" => messages[j].time = "late"
         /\ messages[j].time = "early" => messages[i].time = "early"
  BY <1>1 DEF InTimeOrder
<1>4. CASE messages[i].day < messages[j].day
  <2>1. CASE offset = 1
    BY <1>2, <1>4, <2>1 DEF Shift
  <2>2. CASE offset = -1
    BY <1>2, <1>4, <2>2 DEF Shift
  <2>3. CASE offset = 0
    BY <1>2, <1>4, <2>3 DEF Shift
  <2> QED
    BY <2>1, <2>2, <2>3
<1>5. CASE /\ messages[i].day = messages[j].day
           /\ messages[i].time = "late" => messages[j].time = "late"
           /\ messages[j].time = "early" => messages[i].time = "early"
  BY <1>2, <1>5 DEF Shift
<1> QED
  BY <1>3, <1>4, <1>5

\* Between two messages of a day that stays in the month there is none of another day.
LEMMA DaysAreTogether ==
    ASSUME NEW offset \in {-1, 0, 1}, NEW messages \in Logs, InTimeOrder(messages), NEW day,
           StaysInMonth(offset, messages, day),
           NEW i \in 1 .. Len(messages), NEW l \in 1 .. Len(messages), NEW j \in 1 .. Len(messages),
           i <= l, l < j, IsOfDay(offset, messages[i], day), IsOfDay(offset, messages[j], day),
           messages[l].time # "broken"
    PROVE  IsOfDay(offset, messages[l], day)
<1> DEFINE At(k) == messages[k].day + Shift(offset, messages[k])
<1>1. DOMAIN messages = 1 .. Len(messages) /\ \A k \in 1 .. Len(messages) : messages[k] \in KopeteMessages
  BY DEF Logs
<1>2. At(i) \in 1 .. LastDay /\ At(j) \in 1 .. LastDay
  BY <1>1 DEF StaysInMonth
<1>3. At(i) = day /\ At(j) = day
  BY <1>1, <1>2, ParsedDay DEF IsOfDay
<1>4. CASE i = l
  BY <1>4
<1>5. CASE i # l
  <2>1. i < l
    BY <1>5
  <2>2. messages[i].time # "broken" /\ messages[j].time # "broken"
    BY DEF IsOfDay
  <2>3. At(i) <= At(l) /\ At(l) <= At(j)
    BY <2>1, <2>2, ShiftedOrder
  <2>4. At(l) \in Int /\ At(i) \in Int
    <3>1. messages[l] \in KopeteMessages /\ messages[i] \in KopeteMessages
      BY <1>1
    <3> QED
      BY <3>1, ShiftedDay
  <2>5. At(l) = day /\ At(l) \in 1 .. LastDay
    <3>1. day \in Int
      BY <1>3, <2>4
    <3> HIDE DEF At
    <3> QED
      BY <1>2, <1>3, <2>3, <2>4, <3>1
  <2> QED
    BY <1>1, <2>5, ParsedDay DEF IsOfDay
<1> QED
  BY <1>4, <1>5

-----------------------------------------------------------------------------
(* Files.                                                                  *)

\* An account's files, each of which has a path of its own.
LEMMA FilesOf ==
    ASSUME NEW all \in KopeteLogs, NEW a \in ImportAccounts
    PROVE  /\ all[a] \in Seq(Range(all[a])) /\ Len(all[a]) \in Nat /\ DOMAIN all[a] = 1 .. Len(all[a])
           /\ \A i \in 1 .. Len(all[a]) :
                /\ all[a][i] \in Range(all[a])
                /\ all[a][i].messages \in Logs /\ InTimeOrder(all[a][i].messages)
           /\ \A i, j \in 1 .. Len(all[a]) :
                i # j /\ all[a][i].valid /\ all[a][j].valid /\ ~all[a][i].room =>
                  \A d, e : PathOf(all[a][i], a, d) # PathOf(all[a][j], a, e)
<1>1. all[a] \in Seq(Range(all[a]))
  BY ImportAssumption
<1>2. Len(all[a]) \in Nat /\ DOMAIN all[a] = 1 .. Len(all[a])
  BY <1>1, LenProperties
<1>3. \A i \in 1 .. Len(all[a]) : all[a][i].messages \in Logs /\ InTimeOrder(all[a][i].messages)
  BY <1>2, ImportAssumption DEF Logs
<1>4. ASSUME NEW i \in 1 .. Len(all[a]), NEW j \in 1 .. Len(all[a]),
             i # j, all[a][i].valid, all[a][j].valid, ~all[a][i].room, NEW d, NEW e
      PROVE  PathOf(all[a][i], a, d) # PathOf(all[a][j], a, e)
  <2>1. i < j \/ j < i
    BY <1>2, <1>4
  <2>2. \/ all[a][i].contact # all[a][j].contact \/ all[a][i].month # all[a][j].month
        \/ all[a][i].room # all[a][j].room
    <3>1. \A x, y \in DOMAIN all[a] :
            x < y /\ all[a][x].valid /\ all[a][y].valid =>
                \/ all[a][x].contact # all[a][y].contact \/ all[a][x].month # all[a][y].month
                \/ all[a][x].room # all[a][y].room
      BY ImportAssumption
    <3> QED
      BY <1>2, <1>4, <2>1, <3>1
  <2>3. CASE all[a][j].room
    BY <1>4, <2>3, ImportAssumption DEF PathOf
  <2>4. CASE ~all[a][j].room
    <3>1. CASE all[a][i].contact # all[a][j].contact \/ all[a][i].month # all[a][j].month
      BY <3>1 DEF PathOf
    <3>2. CASE all[a][i].room # all[a][j].room
      <4>1. all[a][i].room \in BOOLEAN /\ all[a][j].room \in BOOLEAN
        BY <1>2, ImportAssumption
      <4> QED
        BY <1>4, <2>4, <3>2, <4>1
    <3> QED
      BY <2>2, <3>1, <3>2
  <2> QED
    BY <2>3, <2>4
<1>5. \A i \in 1 .. Len(all[a]) : all[a][i] \in Range(all[a])
  BY <1>2 DEF Range
<1> QED
  BY <1>1, <1>2, <1>3, <1>4, <1>5

\* A file is whole still if the logs of its days are the same.
LEMMA WholeKept ==
    ASSUME zone' = zone, NEW file, NEW a, WholeIfPrivate(file, a),
           file.valid /\ ~file.room => \A day \in 1 .. LastDay : \A content :
                 Saved(file, a, day, content) => Saved(file, a, day, content)'
    PROVE  WholeIfPrivate(file, a)'
<1> SUFFICES ASSUME file.valid, ~file.room PROVE Whole(file, a)'
  BY DEF WholeIfPrivate
<1>1. Whole(file, a)
  BY DEF WholeIfPrivate
<1> SUFFICES ASSUME NEW day \in 1 .. LastDay,
                    DayLog(zone, file.messages, day)[Len(file.messages)] # <<>>,
                    StaysInMonth(zone, file.messages, day)
             PROVE  Saved(file, a, day, DayLog(zone, file.messages, day)[Len(file.messages)])'
  BY DEF Whole, Saved
<1>2. Saved(file, a, day, DayLog(zone, file.messages, day)[Len(file.messages)])
  BY <1>1 DEF Whole, Saved
<1> QED
  BY <1>2

\* So they are when nothing is written.
LEMMA UnwrittenKept ==
    ASSUME zone' = zone, logs' = logs, NEW file, NEW a, WholeIfPrivate(file, a)
    PROVE  WholeIfPrivate(file, a)'
<1>1. \A day \in 1 .. LastDay : \A content :
        Saved(file, a, day, content) => Saved(file, a, day, content)'
  BY DEF Saved
<1> QED
  BY <1>1, WholeKept

\* A file that is written has its content, and others are the same.
LEMMA WrittenKept ==
    ASSUME NEW day, NEW content, saveKTpDocument(day, content)
    PROVE  /\ PathOf(Head(files), m_accountId, day) \in DOMAIN logs'
           /\ logs'[PathOf(Head(files), m_accountId, day)] = content
           /\ \A file, a, d, c :
                PathOf(file, a, d) # PathOf(Head(files), m_accountId, day) /\ Saved(file, a, d, c) =>
                  Saved(file, a, d, c)'
<1> DEFINE path == PathOf(Head(files), m_accountId, day)
<1>1. logs' = [p \in DOMAIN logs \cup {path} |-> IF p = path THEN content ELSE logs[p]]
  BY DEF saveKTpDocument
<1> HIDE DEF path
<1>2. DOMAIN logs' = DOMAIN logs \cup {path} /\ logs'[path] = content
  BY <1>1
<1>3. \A p \in DOMAIN logs : p # path => logs'[p] = logs[p]
  BY <1>1
<1>4. ASSUME NEW file, NEW a, NEW d, NEW c, PathOf(file, a, d) # path, Saved(file, a, d, c)
      PROVE  Saved(file, a, d, c)'
  BY <1>2, <1>3, <1>4 DEF Saved
<1> QED
  BY <1>2, <1>4 DEF path

-----------------------------------------------------------------------------
(* Steps.                                                                  *)

\* The files of the account whose import runs, and the first one that is left.
LEMMA FirstFile ==
    ASSUME ImportInv, Underway, thread \in {"files", "messages"}
    PROVE  /\ importing \in ImportAccounts /\ m_accountId = importing
           /\ kopete[importing] \in Seq(Range(kopete[importing])) /\ Len(kopete[importing]) \in Nat
           /\ DOMAIN kopete[importing] = 1 .. Len(kopete[importing])
           /\ files \in Seq(Range(kopete[importing])) /\ Len(files) \in Nat /\ FilesDone \in Nat
           /\ FilesDone + Len(files) = Len(kopete[importing])
           /\ files # <<>> =>
                /\ FilesDone + 1 \in 1 .. Len(kopete[importing]) /\ Head(files) = kopete[importing][FilesDone + 1]
                /\ Head(files).messages \in Logs /\ InTimeOrder(Head(files).messages)
                /\ Len(files) # 0
<1>1. importing \in ImportAccounts /\ m_accountId = importing /\ kopete \in KopeteLogs
  BY DEF ImportInv, ImportTypes, Underway
<1>2. /\ files \in Seq(Range(kopete[importing])) /\ Len(files) <= Len(kopete[importing])
      /\ \A j \in 1 .. Len(files) : files[j] = kopete[importing][FilesDone + j]
  BY DEF ImportInv, FilesBefore
<1>3. /\ kopete[importing] \in Seq(Range(kopete[importing])) /\ Len(kopete[importing]) \in Nat
      /\ DOMAIN kopete[importing] = 1 .. Len(kopete[importing])
      /\ \A i \in 1 .. Len(kopete[importing]) :
           kopete[importing][i].messages \in Logs /\ InTimeOrder(kopete[importing][i].messages)
  BY <1>1, FilesOf
<1>4. Len(files) \in Nat
  BY <1>2, LenProperties
<1>5. FilesDone \in Nat /\ FilesDone + Len(files) = Len(kopete[importing])
  <2>1. Len(files) <= Len(kopete[importing]) /\ Len(files) \in Nat /\ Len(kopete[importing]) \in Nat
    BY <1>2, <1>3, <1>4
  <2>2. FilesDone = Len(kopete[importing]) - Len(files)
    BY DEF FilesDone
  <2> QED
    BY <2>1, <2>2
<1>6. ASSUME files # <<>>
      PROVE  /\ FilesDone + 1 \in 1 .. Len(kopete[importing]) /\ Head(files) = kopete[importing][FilesDone + 1]
             /\ Len(files) # 0
  <2>1. Len(files) # 0
    BY <1>2, <1>6, EmptySeq
  <2>2. Head(files) = files[1]
    BY <1>2, <1>6, HeadTailProperties
  <2>3. 1 \in 1 .. Len(files) /\ FilesDone + 1 \in 1 .. Len(kopete[importing])
    BY <1>4, <1>5, <2>1
  <2> QED
    BY <1>2, <2>1, <2>2, <2>3
<1> QED
  BY <1>1, <1>2, <1>3, <1>4, <1>5, <1>6

\* Another call of the import changes nothing about files and logs.
LEMMA SameKept ==
    ASSUME ImportInv, UNCHANGED <<kopete, zone, thread, files, position, m_day, document, logs,
                                  importing, imported>>
    PROVE  EndedAreWhole' /\ FilesBefore' /\ InFile'
<1>1. EndedAreWhole /\ FilesBefore /\ InFile
  BY DEF ImportInv
<1>2. EndedAreWhole'
  BY <1>1, UnwrittenKept DEF EndedAreWhole
<1>3. FilesBefore'
  BY <1>1, UnwrittenKept DEF FilesBefore, FilesDone, Underway
<1>4. InFile'
  BY <1>1 DEF InFile, InDocument, Saved, Underway
<1> QED
  BY <1>2, <1>3, <1>4

LEMMA StartKept ==
    ASSUME ImportInv, NEW a \in ImportAccounts, startLogImport(a) PROVE ImportInv'
<1>1. a # "" /\ UNCHANGED <<kopete, zone, files, position, m_day, document, logs>> /\ m_accountId' = a
  BY ImportAssumption DEF startLogImport
<1>2. ImportTypes /\ EndedAreWhole
  BY DEF ImportInv
<1>3. CASE thread = "idle"
  <2>1. thread' = "starting" /\ importing' = a /\ imported' = imported
    BY <1>3 DEF startLogImport
  <2>2. EndedAreWhole'
    BY <1>1, <1>2, <1>3, <2>1, UnwrittenKept DEF EndedAreWhole
  <2>3. ImportTypes'
    BY <1>1, <1>2, <2>1 DEF ImportTypes, Underway
  <2>4. FilesBefore' /\ InFile'
    BY <2>1 DEF FilesBefore, InFile
  <2> QED
    BY <2>2, <2>3, <2>4 DEF ImportInv
<1>4. CASE thread # "idle" /\ a = importing
  <2>1. thread' = thread /\ importing' = importing /\ imported' = imported
    BY <1>4 DEF startLogImport
  <2>2. ImportTypes'
    BY <1>1, <1>2, <1>4, <2>1 DEF ImportTypes, Underway
  <2> QED
    BY <1>1, <2>1, <2>2, SameKept DEF ImportInv
<1>5. CASE thread # "idle" /\ a # importing
  <2>1. thread' = thread /\ importing' = "" /\ imported' = {}
    BY <1>5 DEF startLogImport
  <2>2. ImportTypes'
    BY <1>1, <1>2, <2>1 DEF ImportTypes, Underway
  <2> QED
    BY <2>1, <2>2 DEF ImportInv, EndedAreWhole, FilesBefore, InFile, Underway
<1> QED
  BY <1>3, <1>4, <1>5

LEMMA FindKept ==
    ASSUME ImportInv, findKopeteLogs PROVE ImportInv'
<1>1. /\ thread = "starting" /\ files' = kopete[m_accountId]
      /\ thread' = IF files' = <<>> THEN "idle" ELSE "files"
      /\ UNCHANGED <<kopete, zone, m_accountId, position, m_day, document, logs, importing, imported>>
  BY DEF findKopeteLogs
<1>2. ImportTypes /\ EndedAreWhole
  BY DEF ImportInv
<1>3. ImportTypes'
  BY <1>1, <1>2 DEF ImportTypes, Underway
<1>4. ASSUME Underway
      PROVE  /\ importing \in ImportAccounts /\ files' = kopete[importing]
             /\ kopete[importing] \in Seq(Range(kopete[importing]))
             /\ DOMAIN kopete[importing] = 1 .. Len(kopete[importing])
  BY <1>1, <1>2, <1>4, FilesOf DEF ImportTypes, Underway
<1>5. EndedAreWhole'
  <2> SUFFICES ASSUME NEW b \in imported, NEW i \in DOMAIN kopete[b], thread' = "idle" \/ b # importing
               PROVE  WholeIfPrivate(kopete[b][i], b)'
    BY <1>1 DEF EndedAreWhole
  <2>1. CASE b # importing
    <3>1. WholeIfPrivate(kopete[b][i], b)
      BY <1>2, <2>1 DEF EndedAreWhole
    <3> QED
      BY <1>1, <3>1, UnwrittenKept
  <2>2. CASE b = importing
    <3>1. Underway
      BY <1>2, <2>2, ImportAssumption DEF ImportTypes, Underway
    <3>2. kopete[b] = <<>>
      BY <1>1, <1>4, <2>2, <3>1
    <3> QED
      BY <3>2
  <2> QED
    BY <2>1, <2>2
<1>6. FilesBefore'
  <2> SUFFICES ASSUME Underway
               PROVE  /\ files' \in Seq(Range(kopete[importing]))
                      /\ Len(files') <= Len(kopete[importing])
                      /\ \A j \in 1 .. Len(files') : files'[j] = kopete[importing][FilesDone' + j]
                      /\ \A i \in 1 .. FilesDone' : WholeIfPrivate(kopete[importing][i], importing)'
    BY <1>1 DEF FilesBefore, Underway
  <2>1. files' = kopete[importing] /\ Len(files') \in Nat
    BY <1>4, LenProperties
  <2>2. FilesDone' = Len(files') - Len(files')
    BY <1>1, <2>1 DEF FilesDone
  <2>3. FilesDone' = 0 /\ \A j \in 1 .. Len(files') : 0 + j = j
    BY <2>1, <2>2
  <2>4. 1 .. FilesDone' = {}
    BY <2>3
  <2>5. \A j \in 1 .. Len(files') : files'[j] = kopete[importing][FilesDone' + j]
    BY <2>1, <2>3
  <2>6. files' \in Seq(Range(kopete[importing])) /\ Len(files') <= Len(kopete[importing])
    BY <1>4, <2>1
  <2> QED
    BY <2>4, <2>5, <2>6
<1>7. InFile'
  BY <1>1 DEF InFile
<1> QED
  BY <1>3, <1>5, <1>6, <1>7 DEF ImportInv

\* What the thread writes is no file of another account, nor one it wrote before.
LEMMA OthersKept ==
    ASSUME ImportInv, thread = "messages", UNCHANGED <<kopete, zone, importing>>,
           UNCHANGED logs \/ \E day, content : saveKTpDocument(day, content)
    PROVE  /\ \A b \in imported : b # importing =>
                \A i \in DOMAIN kopete[b] : WholeIfPrivate(kopete[b][i], b)'
           /\ Underway => \A i \in 1 .. FilesDone : WholeIfPrivate(kopete[importing][i], importing)'
<1>1. EndedAreWhole /\ FilesBefore /\ InFile /\ ImportTypes
  BY DEF ImportInv
<1>2. ASSUME NEW b \in imported, b # importing, NEW i \in DOMAIN kopete[b]
      PROVE  WholeIfPrivate(kopete[b][i], b)'
  <2>1. WholeIfPrivate(kopete[b][i], b)
    BY <1>1, <1>2 DEF EndedAreWhole
  <2>2. CASE UNCHANGED logs
    BY <2>1, <2>2, UnwrittenKept
  <2>3. ASSUME NEW day, NEW content, saveKTpDocument(day, content)
        PROVE  WholeIfPrivate(kopete[b][i], b)'
    <3>1. Underway
      BY <1>1, <1>2 DEF ImportTypes
    <3>2. m_accountId = importing /\ b \in ImportAccounts
      BY <1>1, <1>2, <3>1 DEF ImportTypes
    <3>3. ~kopete[b][i].room => \A d : PathOf(kopete[b][i], b, d) # PathOf(Head(files), m_accountId, day)
      BY <1>2, <3>2, ImportAssumption DEF PathOf
    <3>4. ~kopete[b][i].room => \A d \in 1 .. LastDay : \A c :
            Saved(kopete[b][i], b, d, c) => Saved(kopete[b][i], b, d, c)'
      BY <2>3, <3>3, WrittenKept
    <3> DEFINE file == kopete[b][i]
    <3> QED
      BY <2>1, <3>4, WholeKept
  <2> QED
    BY <2>2, <2>3
<1>3. ASSUME Underway, NEW i \in 1 .. FilesDone
      PROVE  WholeIfPrivate(kopete[importing][i], importing)'
  <2>1. WholeIfPrivate(kopete[importing][i], importing)
    BY <1>1, <1>3 DEF FilesBefore
  <2>2. CASE UNCHANGED logs
    BY <2>1, <2>2, UnwrittenKept
  <2>3. ASSUME NEW day, NEW content, saveKTpDocument(day, content)
        PROVE  WholeIfPrivate(kopete[importing][i], importing)'
    <3>1. files # <<>> /\ Head(files).valid
      BY <1>1, <1>3 DEF InFile
    <3>2. /\ importing \in ImportAccounts /\ m_accountId = importing /\ Len(kopete[importing]) \in Nat
          /\ FilesDone \in Nat /\ FilesDone + 1 \in 1 .. Len(kopete[importing])
          /\ Head(files) = kopete[importing][FilesDone + 1]
      BY <1>3, <3>1, FirstFile
    <3>3. i \in 1 .. Len(kopete[importing]) /\ i # FilesDone + 1
      BY <3>2
    <3>4. kopete \in KopeteLogs
      BY <1>1 DEF ImportTypes
    <3>5. kopete[importing][i].valid /\ ~kopete[importing][i].room =>
            \A d : PathOf(kopete[importing][i], importing, d) # PathOf(Head(files), m_accountId, day)
      <4> DEFINE all == kopete
                 k == FilesDone + 1
      <4>1. \A x, y \in 1 .. Len(all[importing]) :
              x # y /\ all[importing][x].valid /\ all[importing][y].valid /\ ~all[importing][x].room =>
                \A d, e : PathOf(all[importing][x], importing, d) # PathOf(all[importing][y], importing, e)
        BY <3>2, <3>4, FilesOf
      <4>2. k \in 1 .. Len(kopete[importing]) /\ i # k /\ Head(files) = kopete[importing][k]
            /\ kopete[importing][k].valid
        BY <3>1, <3>2, <3>3
      <4> HIDE DEF k
      <4> QED
        BY <3>2, <3>3, <4>1, <4>2
    <3>6. kopete[importing][i].valid /\ ~kopete[importing][i].room =>
            \A d \in 1 .. LastDay : \A c :
              Saved(kopete[importing][i], importing, d, c) => Saved(kopete[importing][i], importing, d, c)'
      BY <2>3, <3>5, WrittenKept
    <3> QED
      BY <2>1, <3>6, WholeKept
  <2> QED
    BY <2>2, <2>3
<1> QED
  BY <1>2, <1>3

\* The rest of the files is left when all before are whole.
LEMMA NextFile ==
    ASSUME ImportInv, Underway, thread \in {"files", "messages"}, files # <<>>,
           files' = Tail(files), thread' = "files", UNCHANGED <<kopete, importing>>,
           \A i \in 1 .. FilesDone + 1 : WholeIfPrivate(kopete[importing][i], importing)'
    PROVE  FilesBefore' /\ InFile'
<1>1. /\ files \in Seq(Range(kopete[importing])) /\ Len(files) \in Nat /\ Len(files) # 0
      /\ Len(kopete[importing]) \in Nat /\ FilesDone \in Nat
      /\ FilesDone + Len(files) = Len(kopete[importing])
  BY FirstFile
<1>2. /\ files' \in Seq(Range(kopete[importing])) /\ Len(files') = Len(files) - 1
      /\ \A j \in 1 .. Len(files') : files'[j] = files[j + 1]
  BY <1>1, HeadTailProperties
<1>3. FilesDone' = FilesDone + 1
  <2>1. FilesDone' = Len(kopete[importing]) - Len(files')
    BY DEF FilesDone
  <2> DEFINE all == Len(kopete[importing])
  <2> HIDE DEF all
  <2>2. FilesDone + Len(files) = all /\ FilesDone' = all - Len(files') /\ all \in Nat
    BY <1>1, <2>1 DEF all
  <2> QED
    BY <1>1, <1>2, <2>2
<1>4. \A j \in 1 .. Len(files) : files[j] = kopete[importing][FilesDone + j]
  BY DEF ImportInv, FilesBefore
<1>5. \A j \in 1 .. Len(files') : files'[j] = kopete[importing][FilesDone' + j]
  <2> TAKE j \in 1 .. Len(files')
  <2>1. j \in 1 .. Len(files) - 1 /\ Len(files) \in Nat /\ FilesDone \in Nat
    BY <1>1, <1>2
  <2>2. j + 1 \in 1 .. Len(files) /\ FilesDone + (j + 1) = FilesDone' + j
    BY <1>3, <2>1
  <2> QED
    BY <1>2, <1>4, <2>2
<1>6. Len(files') <= Len(kopete[importing])
  BY <1>1, <1>2
<1>7. FilesBefore'
  BY <1>2, <1>3, <1>5, <1>6 DEF FilesBefore
<1> QED
  BY <1>7 DEF InFile

\* The next file: one without a header is skipped, otherwise no message was read yet.
LEMMA FileKept ==
    ASSUME ImportInv, convertKopeteLog PROVE ImportInv'
<1>1. /\ thread = "files" /\ files # <<>>
      /\ UNCHANGED <<kopete, zone, m_accountId, logs, importing, imported, imports>>
  BY DEF convertKopeteLog
<1>2. ImportTypes /\ EndedAreWhole /\ FilesBefore
  BY DEF ImportInv
<1>3. Underway' = Underway
  BY <1>1 DEF Underway
<1>4. thread' \in {"files", "messages"}
  BY <1>1 DEF convertKopeteLog
<1>5. ImportTypes'
  BY <1>1, <1>2, <1>3, <1>4 DEF ImportTypes
<1>6. EndedAreWhole'
  BY <1>1, <1>2, <1>4, UnwrittenKept DEF EndedAreWhole
<1>7. ASSUME Underway, Head(files).valid PROVE FilesBefore' /\ InFile'
  <2>1. thread' = "messages" /\ position' = 0 /\ m_day' = 0 /\ document' = <<>> /\ files' = files
    BY <1>7 DEF convertKopeteLog
  <2>2. FilesDone' = FilesDone
    BY <1>1, <2>1 DEF FilesDone
  <2>3. FilesBefore'
    BY <1>1, <1>2, <1>3, <1>4, <2>1, <2>2, UnwrittenKept DEF FilesBefore
  <2>4. Head(files).messages \in Logs
    BY <1>1, <1>7, FirstFile
  <2>5. Len(Head(files).messages) \in Nat /\ LastDay \in Nat \ {0}
    <3>1. Len(Head(files).messages) \in Nat
      BY <2>4, LenProperties DEF Logs
    <3> QED
      BY <3>1, ImportAssumption
  <2>6. \A day : DayLog(zone, Head(files).messages, day)[0] = <<>>
    BY <2>4, DayLogGrows
  <2>7. InDocument(Head(files).messages)'
    BY <1>1, <2>1, <2>5, <2>6 DEF InDocument
  <2> QED
    BY <1>1, <1>7, <2>1, <2>3, <2>7 DEF InFile
<1>8. ASSUME Underway, ~Head(files).valid PROVE FilesBefore' /\ InFile'
  <2>1. thread' = "files" /\ files' = Tail(files)
    BY <1>1, <1>8 DEF convertKopeteLog
  <2>2. FilesDone \in Nat /\ Head(files) = kopete[importing][FilesDone + 1]
    BY <1>1, <1>8, FirstFile
  <2>3. ASSUME NEW i \in 1 .. FilesDone + 1, i = FilesDone + 1
        PROVE  WholeIfPrivate(kopete[importing][i], importing)'
    BY <1>1, <1>8, <2>2, <2>3 DEF WholeIfPrivate
  <2>4. \A i \in 1 .. FilesDone : WholeIfPrivate(kopete[importing][i], importing)'
    BY <1>1, <1>2, <1>8, UnwrittenKept DEF FilesBefore
  <2>5. \A i \in 1 .. FilesDone + 1 : i = FilesDone + 1 \/ i \in 1 .. FilesDone
    BY <2>2
  <2> QED
    BY <1>1, <1>8, <2>1, <2>3, <2>4, <2>5, NextFile
<1>9. ASSUME ~Underway PROVE FilesBefore' /\ InFile'
  BY <1>3, <1>9 DEF FilesBefore, InFile
<1> QED
  BY <1>5, <1>6, <1>7, <1>8, <1>9 DEF ImportInv

LEMMA FinishKept ==
    ASSUME ImportInv, ImportFinished PROVE ImportInv'
<1>1. /\ thread = "files" /\ files = <<>> /\ thread' = "idle"
      /\ imported' = imported \cup ({importing} \ {""})
      /\ UNCHANGED <<kopete, zone, m_accountId, files, position, m_day, document, logs, importing>>
  BY DEF ImportFinished
<1>2. ImportTypes /\ EndedAreWhole /\ FilesBefore
  BY DEF ImportInv
<1>3. ImportTypes'
  BY <1>1, <1>2 DEF ImportTypes, Underway
<1>4. EndedAreWhole'
  <2> SUFFICES ASSUME NEW b \in imported', NEW i \in DOMAIN kopete[b]
               PROVE  WholeIfPrivate(kopete[b][i], b)'
    BY <1>1 DEF EndedAreWhole
  <2>1. CASE b # importing
    <3>1. b \in imported
      BY <1>1, <2>1
    <3>2. WholeIfPrivate(kopete[b][i], b)
      BY <1>2, <2>1, <3>1 DEF EndedAreWhole
    <3> QED
      BY <1>1, <3>2, UnwrittenKept
  <2>2. CASE b = importing
    <3>1. Underway
      BY <1>1, <1>2, <2>2, ImportAssumption DEF ImportTypes, Underway
    <3>2. FilesDone = Len(kopete[importing]) /\ DOMAIN kopete[importing] = 1 .. Len(kopete[importing])
      <4>1. /\ Len(files) = 0 /\ FilesDone \in Nat /\ FilesDone + Len(files) = Len(kopete[importing])
            /\ DOMAIN kopete[importing] = 1 .. Len(kopete[importing])
        BY <1>1, <3>1, FirstFile
      <4> QED
        BY <4>1
    <3>3. WholeIfPrivate(kopete[importing][i], importing)
      BY <1>1, <1>2, <2>2, <3>1, <3>2 DEF FilesBefore
    <3> QED
      BY <1>1, <2>2, <3>3, UnwrittenKept
  <2> QED
    BY <2>1, <2>2
<1> QED
  BY <1>1, <1>3, <1>4 DEF ImportInv, FilesBefore, InFile

\* The last document of a file is written: the log of each day is whole.
LEMMA ConvertedKept ==
    ASSUME ImportInv, FileConverted PROVE ImportInv'
<1>1. /\ thread = "messages" /\ position = Len(Head(files).messages)
      /\ saveKTpDocument(m_day, document) /\ files' = Tail(files) /\ thread' = "files"
      /\ UNCHANGED <<kopete, zone, m_accountId, position, m_day, document, importing, imported>>
  BY DEF FileConverted
<1>2. ImportTypes /\ EndedAreWhole /\ FilesBefore /\ InFile
  BY DEF ImportInv
<1>3. Underway' = Underway
  BY <1>1 DEF Underway
<1>4. ImportTypes'
  BY <1>1, <1>2, <1>3 DEF ImportTypes
<1>5. /\ \A b \in imported : b # importing =>
           \A i \in DOMAIN kopete[b] : WholeIfPrivate(kopete[b][i], b)'
      /\ Underway => \A i \in 1 .. FilesDone : WholeIfPrivate(kopete[importing][i], importing)'
  BY <1>1, OthersKept
<1>6. EndedAreWhole'
  BY <1>1, <1>5 DEF EndedAreWhole
<1>7. ASSUME Underway PROVE FilesBefore' /\ InFile'
  <2> DEFINE file == Head(files)
             n == Len(file.messages)
  <2>1. files # <<>> /\ InDocument(file.messages)
    BY <1>1, <1>2, <1>7 DEF InFile
  <2>2. /\ FilesDone \in Nat /\ file = kopete[importing][FilesDone + 1] /\ m_accountId = importing
        /\ file.messages \in Logs
    BY <1>1, <1>7, <2>1, FirstFile
  <2>3. /\ PathOf(file, importing, m_day) \in DOMAIN logs'
        /\ logs'[PathOf(file, importing, m_day)] = document
        /\ \A d, c : PathOf(file, importing, d) # PathOf(file, importing, m_day)
                         /\ Saved(file, importing, d, c) =>
              /\ PathOf(file, importing, d) \in DOMAIN logs'
              /\ logs'[PathOf(file, importing, d)] = c
    BY <1>1, <2>2, WrittenKept DEF Saved
  <2>4. ASSUME NEW day \in 1 .. LastDay, DayLog(zone, file.messages, day)[n] # <<>>,
               StaysInMonth(zone, file.messages, day)
        PROVE  /\ PathOf(file, importing, day) \in DOMAIN logs'
               /\ logs'[PathOf(file, importing, day)] = DayLog(zone, file.messages, day)[n]
    <3>1. CASE day = m_day
      <4>1. m_day # 0
        <5>1. LastDay \in Nat
          BY ImportAssumption
        <5>2. day # 0
          BY <5>1
        <5> QED
          BY <3>1, <5>2
      <4>2. document = DayLog(zone, file.messages, m_day)[position]
        BY <2>1, <2>4, <3>1, <4>1 DEF InDocument
      <4> QED
        BY <1>1, <2>3, <3>1, <4>2
    <3>2. CASE day # m_day
      <4>1. Saved(file, importing, day, DayLog(zone, file.messages, day)[position])
        BY <1>1, <2>1, <2>4, <3>2 DEF InDocument
      <4>2. PathOf(file, importing, day) # PathOf(file, importing, m_day)
        BY <3>2 DEF PathOf
      <4> QED
        BY <1>1, <2>3, <4>1, <4>2
    <3> QED
      BY <3>1, <3>2
  <2>5. ASSUME NEW i \in 1 .. FilesDone + 1, i = FilesDone + 1
        PROVE  WholeIfPrivate(kopete[importing][i], importing)'
    <3>1. kopete[importing][i] = file /\ kopete' = kopete /\ importing' = importing /\ zone' = zone
      BY <1>1, <2>2, <2>5
    <3> HIDE DEF file
    <3>2. ASSUME NEW f, f = file PROVE Whole(f, importing)'
      BY <2>4, <3>1, <3>2 DEF Whole
    <3>3. \A f : f = file => WholeIfPrivate(f, importing)'
      BY <3>2 DEF WholeIfPrivate
    <3> QED
      BY <3>1, <3>3
  <2>6. \A i \in 1 .. FilesDone + 1 : i = FilesDone + 1 \/ i \in 1 .. FilesDone
    BY <2>2
  <2> QED
    BY <1>1, <1>5, <1>7, <2>1, <2>5, <2>6, NextFile
<1>8. ASSUME ~Underway PROVE FilesBefore' /\ InFile'
  BY <1>3, <1>8 DEF FilesBefore, InFile
<1> QED
  BY <1>4, <1>6, <1>7, <1>8 DEF ImportInv

\* A message extends the log of its day, and only this.
LEMMA MessageCounted ==
    ASSUME NEW offset, NEW messages \in Logs, NEW p \in Nat, p + 1 \in 1 .. Len(messages), NEW day
    PROVE  DayLog(offset, messages, day)[p + 1]
             = IF IsOfDay(offset, messages[p + 1], day)
               THEN Append(DayLog(offset, messages, day)[p], messages[p + 1])
               ELSE DayLog(offset, messages, day)[p]
<1> DEFINE kept == DayLog(offset, messages, day)
           i == p + 1
<1>1. \A k \in 1 .. Len(messages) :
        kept[k] = IF IsOfDay(offset, messages[k], day) THEN Append(kept[k - 1], messages[k]) ELSE kept[k - 1]
  BY DayLogGrows
<1>2. i \in 1 .. Len(messages) /\ i - 1 = p
  OBVIOUS
<1> HIDE DEF kept, i
<1>3. kept[i] = IF IsOfDay(offset, messages[i], day) THEN Append(kept[i - 1], messages[i]) ELSE kept[i - 1]
  BY <1>1, <1>2
<1>4. kept[i] = IF IsOfDay(offset, messages[i], day) THEN Append(kept[p], messages[i]) ELSE kept[p]
  BY <1>2, <1>3
<1> QED
  BY <1>4 DEF kept, i

\* The document after the next message.
LEMMA DocumentGrows ==
    ASSUME NEW messages \in Logs, InTimeOrder(messages), Head(files).messages = messages,
           InDocument(messages), convertKopeteMessage, zone \in {-1, 0, 1}, m_accountId = importing
    PROVE  InDocument(messages)'
<1> DEFINE message == messages[position + 1]
           day == parseKopeteTime(zone, message)
<1>1. /\ position' = position + 1 /\ position < Len(messages)
      /\ UNCHANGED <<zone, files, importing>>
  BY DEF convertKopeteMessage
<1>2. /\ position \in 0 .. Len(messages) /\ m_day \in 0 .. LastDay
      /\ Len(messages) \in Nat /\ LastDay \in Nat \ {0}
  <2>1. Len(messages) \in Nat
    BY LenProperties DEF Logs
  <2> QED
    BY <2>1, ImportAssumption DEF InDocument
<1>3. position \in Nat /\ position + 1 \in 1 .. Len(messages) /\ position' \in 0 .. Len(messages)
  BY <1>1, <1>2
<1>4. message \in KopeteMessages
  BY <1>3 DEF Logs
<1>5. \A d : DayLog(zone, messages, d)[position + 1]
             = IF IsOfDay(zone, message, d) THEN Append(DayLog(zone, messages, d)[position], message)
               ELSE DayLog(zone, messages, d)[position]
  BY <1>3, MessageCounted
<1>6. \A i \in 1 .. position + 1 : i = position + 1 \/ i \in 1 .. position
  BY <1>2
<1>7. \A i \in 1 .. position : i \in 1 .. position + 1
  BY <1>2
<1>8. \A d \in 1 .. LastDay : DayLog(zone, messages, d)[position] # <<>> =>
        /\ \E i \in 1 .. position : IsOfDay(zone, messages[i], d)
        /\ d # m_day /\ StaysInMonth(zone, messages, d) =>
             Saved(Head(files), importing, d, DayLog(zone, messages, d)[position])
  BY DEF InDocument
<1>9. CASE message.time = "broken"
  <2>1. UNCHANGED <<m_day, document, logs>>
    BY <1>1, <1>9 DEF convertKopeteMessage
  <2>2. \A d : DayLog(zone, messages, d)[position + 1] = DayLog(zone, messages, d)[position]
    BY <1>5, <1>9 DEF IsOfDay
  <2>3. m_day = 0 => document = <<>> /\ \A i \in 1 .. position + 1 : messages[i].time = "broken"
    BY <1>6, <1>9 DEF InDocument
  <2>4. m_day # 0 => \E l \in 1 .. position + 1 :
                      /\ IsOfDay(zone, messages[l], m_day)
                      /\ \A i \in l + 1 .. position + 1 : messages[i].time = "broken"
    <3> SUFFICES ASSUME m_day # 0
                 PROVE  \E l \in 1 .. position + 1 :
                          /\ IsOfDay(zone, messages[l], m_day)
                          /\ \A i \in l + 1 .. position + 1 : messages[i].time = "broken"
      OBVIOUS
    <3>1. PICK l \in 1 .. position : /\ IsOfDay(zone, messages[l], m_day)
                                     /\ \A i \in l + 1 .. position : messages[i].time = "broken"
      BY DEF InDocument
    <3>2. \A i \in l + 1 .. position + 1 : i = position + 1 \/ i \in l + 1 .. position
      BY <1>2
    <3> QED
      BY <1>7, <1>9, <3>1, <3>2
  <2>5. m_day # 0 /\ StaysInMonth(zone, messages, m_day) =>
          document = DayLog(zone, messages, m_day)[position + 1]
    BY <2>2 DEF InDocument
  <2>6. \A d \in 1 .. LastDay : DayLog(zone, messages, d)[position + 1] # <<>> =>
          /\ \E i \in 1 .. position + 1 : IsOfDay(zone, messages[i], d)
          /\ d # m_day /\ StaysInMonth(zone, messages, d) =>
               Saved(Head(files), importing, d, DayLog(zone, messages, d)[position + 1])
    BY <1>7, <1>8, <2>2
  <2> QED
    BY <1>1, <1>2, <1>3, <2>1, <2>3, <2>4, <2>5, <2>6 DEF InDocument, Saved
<1>10. ASSUME message.time # "broken" PROVE InDocument(messages)'
  <2>1. /\ m_day' = day
        /\ IF m_day \in {0, day} THEN document' = Append(document, message) /\ UNCHANGED logs
           ELSE document' = <<message>> /\ saveKTpDocument(m_day, document)
    BY <1>1, <1>10 DEF convertKopeteMessage, NewDocument
  <2>2. day \in 1 .. LastDay /\ day # 0 /\ IsOfDay(zone, message, day)
    <3>1. day \in 1 .. LastDay /\ IsOfDay(zone, message, day)
      BY <1>4, <1>10, ParsedDay DEF IsOfDay
    <3> HIDE DEF day
    <3> QED
      BY <1>2, <3>1
  <2>3. \A d : IsOfDay(zone, message, d) => d = day
    BY DEF IsOfDay
  <2>4. /\ DayLog(zone, messages, day)[position + 1] = Append(DayLog(zone, messages, day)[position], message)
        /\ \A d : d # day => DayLog(zone, messages, d)[position + 1] = DayLog(zone, messages, d)[position]
    BY <1>5, <2>2, <2>3
  <2> HIDE DEF day
  <2>5. \E l \in 1 .. position + 1 :
          /\ IsOfDay(zone, messages[l], day)
          /\ \A i \in l + 1 .. position + 1 : messages[i].time = "broken"
    <3>1. position + 1 \in 1 .. position + 1 /\ (position + 1) + 1 .. position + 1 = {}
      BY <1>2
    <3> QED
      BY <2>2, <3>1
  <2>6. m_day \in {0, day} /\ StaysInMonth(zone, messages, day) =>
          document = DayLog(zone, messages, day)[position]
    <3>1. CASE m_day = day
      BY <2>2, <3>1 DEF InDocument
    <3>2. CASE m_day = 0
      <4>1. document = <<>> /\ \A i \in 1 .. position : ~IsOfDay(zone, messages[i], day)
        BY <3>2 DEF InDocument, IsOfDay
      <4> QED
        BY <1>8, <2>2, <4>1
    <3> QED
      BY <3>1, <3>2
  <2>7. m_day \notin {0, day} /\ StaysInMonth(zone, messages, day) =>
          DayLog(zone, messages, day)[position] = <<>>
    <3> SUFFICES ASSUME m_day # 0, m_day # day, StaysInMonth(zone, messages, day),
                        NEW i \in 1 .. position, IsOfDay(zone, messages[i], day)
                 PROVE  FALSE
      BY <1>8, <2>2
    <3>1. PICK l \in 1 .. position : /\ IsOfDay(zone, messages[l], m_day)
                                     /\ \A k \in l + 1 .. position : messages[k].time = "broken"
      BY DEF InDocument
    <3>2. i <= l
      <4>1. i \notin l + 1 .. position
        BY <3>1 DEF IsOfDay
      <4> QED
        BY <1>2, <4>1
    <3>3. /\ i \in 1 .. Len(messages) /\ l \in 1 .. Len(messages) /\ l < position + 1
          /\ messages[l].time # "broken"
      BY <1>2, <1>3, <3>1 DEF IsOfDay
    <3>4. IsOfDay(zone, messages[l], day)
      BY <1>3, <2>2, <3>2, <3>3, DaysAreTogether
    <3> QED
      BY <3>1, <3>4 DEF IsOfDay
  <2>8. StaysInMonth(zone, messages, day) => document' = DayLog(zone, messages, day)[position + 1]
    <3>1. CASE m_day \in {0, day}
      BY <2>1, <2>4, <2>6, <3>1
    <3>2. CASE m_day \notin {0, day}
      <4>1. Append(<<>>, message) = <<message>>
        OBVIOUS
      <4> QED
        BY <2>1, <2>4, <2>7, <3>2, <4>1
    <3> QED
      BY <3>1, <3>2
  <2>9. ASSUME NEW d \in 1 .. LastDay, DayLog(zone, messages, d)[position + 1] # <<>>
        PROVE  /\ \E i \in 1 .. position + 1 : IsOfDay(zone, messages[i], d)
               /\ d # day /\ StaysInMonth(zone, messages, d) =>
                    /\ PathOf(Head(files), importing, d) \in DOMAIN logs'
                    /\ logs'[PathOf(Head(files), importing, d)] = DayLog(zone, messages, d)[position + 1]
    <3>1. CASE d = day
      BY <2>5, <3>1
    <3>2. CASE d # day
      <4>1. DayLog(zone, messages, d)[position + 1] = DayLog(zone, messages, d)[position]
        BY <2>4, <3>2
      <4>2. \E i \in 1 .. position + 1 : IsOfDay(zone, messages[i], d)
        BY <1>7, <1>8, <2>9, <4>1
      <4>3. ASSUME StaysInMonth(zone, messages, d)
            PROVE  /\ PathOf(Head(files), importing, d) \in DOMAIN logs'
                   /\ logs'[PathOf(Head(files), importing, d)] = DayLog(zone, messages, d)[position]
        <5>1. d # 0
          BY <1>2
        <5>2. CASE m_day \in {0, day}
          BY <1>8, <2>1, <2>9, <3>2, <4>1, <4>3, <5>1, <5>2 DEF Saved
        <5>3. CASE m_day \notin {0, day} /\ d # m_day
          <6>1. Saved(Head(files), importing, d, DayLog(zone, messages, d)[position])
            BY <1>8, <2>9, <4>1, <4>3, <5>3
          <6>2. PathOf(Head(files), importing, d) # PathOf(Head(files), m_accountId, m_day)
            BY <5>3 DEF PathOf
          <6>3. saveKTpDocument(m_day, document)
            BY <2>1, <5>3
          <6> QED
            BY <1>1, <6>1, <6>2, <6>3, WrittenKept DEF Saved
        <5>4. CASE m_day \notin {0, day} /\ d = m_day
          <6>1. document = DayLog(zone, messages, d)[position]
            BY <4>3, <5>1, <5>4 DEF InDocument
          <6>2. saveKTpDocument(m_day, document)
            BY <2>1, <5>4
          <6> QED
            BY <5>4, <6>1, <6>2, WrittenKept
        <5> QED
          BY <5>2, <5>3, <5>4
      <4> QED
        BY <4>1, <4>2, <4>3
    <3> QED
      BY <3>1, <3>2
  <2> QED
    BY <1>1, <1>2, <1>3, <2>1, <2>2, <2>5, <2>8, <2>9 DEF InDocument, Saved
<1> QED
  BY <1>9, <1>10

LEMMA MessageKept ==
    ASSUME ImportInv, convertKopeteMessage PROVE ImportInv'
<1>1. /\ UNCHANGED logs \/ \E day, content : saveKTpDocument(day, content)
      /\ UNCHANGED <<kopete, zone, m_accountId, thread, files, importing, imported>>
  <2>1. UNCHANGED logs \/ saveKTpDocument(m_day, document)
    BY DEF convertKopeteMessage
  <2> QED
    BY <2>1 DEF convertKopeteMessage
<1>2. ImportTypes /\ FilesBefore /\ InFile
  BY DEF ImportInv
<1>3. Underway' = Underway /\ FilesDone' = FilesDone
  BY <1>1 DEF Underway, FilesDone
<1>4. ImportTypes'
  BY <1>1, <1>2, <1>3 DEF ImportTypes
<1>5. /\ \A b \in imported : b # importing =>
           \A i \in DOMAIN kopete[b] : WholeIfPrivate(kopete[b][i], b)'
      /\ Underway => \A i \in 1 .. FilesDone : WholeIfPrivate(kopete[importing][i], importing)'
  BY <1>1, OthersKept DEF convertKopeteMessage
<1>6. EndedAreWhole'
  BY <1>1, <1>5 DEF EndedAreWhole, convertKopeteMessage
<1>7. FilesBefore'
  BY <1>1, <1>2, <1>3, <1>5 DEF FilesBefore
<1>8. InFile'
  <2> SUFFICES ASSUME Underway PROVE files # <<>> /\ Head(files).valid /\ InDocument(Head(files).messages)'
    BY <1>1, <1>3 DEF InFile
  <2>1. thread = "messages"
    BY DEF convertKopeteMessage
  <2>2. files # <<>> /\ Head(files).valid /\ InDocument(Head(files).messages)
    BY <1>2, <2>1 DEF InFile
  <2>3. m_accountId = importing /\ Head(files).messages \in Logs /\ InTimeOrder(Head(files).messages)
    BY <2>1, <2>2, FirstFile
  <2>4. zone \in {-1, 0, 1}
    BY <1>2 DEF ImportTypes
  <2>5. \A messages : messages = Head(files).messages => InDocument(messages)'
    BY <2>2, <2>3, <2>4, DocumentGrows
  <2> QED
    BY <1>1, <2>2, <2>5
<1> QED
  BY <1>4, <1>6, <1>7, <1>8 DEF ImportInv

LEMMA ImportBegins == ImportInit => ImportInv
  BY ImportAssumption
     DEF ImportInit, ImportInv, ImportTypes, EndedAreWhole, FilesBefore, InFile, Underway

LEMMA ImportStutterKept ==
    ASSUME ImportInv, UNCHANGED importVars PROVE ImportInv'
<1>1. UNCHANGED <<kopete, zone, m_accountId, thread, files, position, m_day, document, logs, importing,
                  imported>>
  BY DEF importVars
<1>2. ImportTypes'
  BY <1>1 DEF ImportInv, ImportTypes, Underway
<1> QED
  BY <1>1, <1>2, SameKept DEF ImportInv

\* After an import the logs have every message of Kopete's private files, each under its day
\* in UTC and in its order, also when files and messages are broken, and whatever imports
\* are started before and after: except where days of two months meet.
THEOREM ImportsAreWhole == ImportInit /\ [][ImportNext]_importVars => []ImportedWhole
<1>1. ImportInv => ImportedWhole
  BY DEF ImportInv, EndedAreWhole, WholeIfPrivate, ImportedWhole
<1>2. ImportInv /\ [ImportNext]_importVars => ImportInv'
  <2> SUFFICES ASSUME ImportInv, [ImportNext]_importVars PROVE ImportInv'
    OBVIOUS
  <2>1. ASSUME NEW a \in ImportAccounts, startLogImport(a) PROVE ImportInv'
    BY <2>1, StartKept
  <2>2. CASE findKopeteLogs
    BY <2>2, FindKept
  <2>3. CASE convertKopeteLog
    BY <2>3, FileKept
  <2>4. CASE convertKopeteMessage
    BY <2>4, MessageKept
  <2>5. CASE FileConverted
    BY <2>5, ConvertedKept
  <2>6. CASE ImportFinished
    BY <2>6, FinishKept
  <2>7. CASE UNCHANGED importVars
    BY <2>7, ImportStutterKept
  <2> QED
    BY <2>1, <2>2, <2>3, <2>4, <2>5, <2>6, <2>7 DEF ImportNext
<1> QED
  BY <1>1, <1>2, ImportBegins, PTL

-----------------------------------------------------------------------------
(***************************************************************************)
(* The filters of messages.  A processor, and a manager that reads the     *)
(* settings, go through the plugins in any order: the lemmas about one     *)
(* plugin are put together by induction over this order.                   *)
(***************************************************************************)

Filters == Plugins \cup {EscapeFilter}

Sorted(list) ==
    \A i, j \in 1 .. Len(list) : i < j => WeightOf(list[i]) <= WeightOf(list[j])

\* The list has the escape filter and what is on and can be loaded, each once, but for
\* those of which it may have another.
ListOf(list, on, twice) ==
    /\ list \in Seq(Filters) /\ Sorted(list)
    /\ Has(list, {EscapeFilter}) /\ Once(list, {EscapeFilter})
    /\ \A p \in Plugins \ twice :
         Once(list, {p}) /\ (Has(list, {p}) <=> p \in on /\ p \in LoadableFilters)

\* The manager knows what is on once it has read the settings, and the processor has it.
FiltersInv ==
    /\ isPluginEnabled \in [Plugins -> BOOLEAN] /\ enabledFilters \subseteq Plugins
    /\ doubled \subseteq Plugins /\ processorExists \in BOOLEAN /\ filters \in Seq(Filters)
    /\ processorExists => ListOf(filters, enabledFilters, doubled)
    /\ ~processorExists => doubled = {}
    /\ ~reloadDue => enabledFilters = {p \in Plugins : isPluginEnabled[p]}

\* What is once in a list is counted once.
LEMMA OccursOnce ==
    ASSUME NEW A, NEW s \in Seq(A), NEW x, Once(s, {x})
    PROVE  Occurrences(s, x) = IF Has(s, {x}) THEN 1 ELSE 0
<1> DEFINE at == {i \in DOMAIN s : s[i] = x}
<1>1. DOMAIN s = 1 .. Len(s)
  BY LenProperties
<1>2. CASE Has(s, {x})
  <2>1. PICK k \in 1 .. Len(s) : s[k] = x
    BY <1>2 DEF Has
  <2>2. at = {k}
    BY <1>1, <2>1 DEF Once
  <2> QED
    BY <1>2, <2>2, FS_Singleton DEF Occurrences
<1>3. CASE ~Has(s, {x})
  <2>1. at = {}
    BY <1>1, <1>3 DEF Has
  <2> QED
    BY <1>3, <2>1, FS_EmptySet DEF Occurrences
<1> QED
  BY <1>2, <1>3

\* A set of the first numbers, with each number all before it, is counted by its last.
LEMMA FirstNumbers ==
    ASSUME NEW n \in Nat, NEW S \in SUBSET (1 .. n), \A i \in S, j \in 1 .. n : j < i => j \in S
    PROVE  Cardinality(S) \in 0 .. n /\ S = 1 .. Cardinality(S)
<1> DEFINE T == (1 .. n + 1) \ S
<1>1. T \subseteq Nat /\ n + 1 \in T
  OBVIOUS
<1>2. PICK m \in T : \A y \in T : m <= y
  <2> HIDE DEF T
  <2> QED
    BY <1>1, LeastNumber
<1>3. m \in 1 .. n + 1 /\ m \notin S
  OBVIOUS
<1>4. ASSUME NEW i \in S PROVE i \in 1 .. m - 1
  <2>1. i \in 1 .. n /\ i # m
    BY <1>3
  <2>2. ~(m < i)
    BY <1>3, <2>1
  <2> QED
    BY <1>3, <2>1, <2>2
<1>5. ASSUME NEW i \in 1 .. m - 1 PROVE i \in S
  <2>1. i \in 1 .. n + 1 /\ ~(m <= i)
    BY <1>3
  <2> QED
    BY <1>2, <2>1
<1>6. S = 1 .. m - 1
  BY <1>4, <1>5
<1>7. Cardinality(1 .. m - 1) = m - 1
  <2>1. m - 1 \in Nat
    BY <1>3
  <2>2. 1 \in Int /\ m - 1 \in Int
    BY <2>1
  <2>3. Cardinality(1 .. m - 1) = IF 1 > m - 1 THEN 0 ELSE (m - 1) - 1 + 1
    BY <2>2, FS_Interval
  <2> QED
    BY <2>1, <2>3
<1> QED
  BY <1>3, <1>6, <1>7

LEMMA Weights ==
    /\ \A f \in Filters : WeightOf(f) \in Int
    /\ \A p \in Plugins : p \in Filters /\ p # EscapeFilter /\ WeightOf(p) = Weight[p]
<1>1. EscapeFilter \notin Plugins /\ Weight \in [Plugins -> Int]
  BY FiltersAssumption DEF EscapeFilter
<1> QED
  BY <1>1 DEF Filters, WeightOf

\* A filter that was not there is there once, among the others by its weight.
LEMMA LoadedList ==
    ASSUME NEW list, NEW on, NEW twice, ListOf(list, on, twice), NEW p \in Plugins, p \in twice \/ p \notin on
    PROVE  ListOf(loadFilter(list, p), on \cup {p}, twice)
<1>1. list \in Seq(Filters) /\ Sorted(list) /\ Len(list) \in Nat /\ DOMAIN list = 1 .. Len(list)
  BY LenProperties DEF ListOf
<1>2. CASE p \notin LoadableFilters
  BY <1>2 DEF ListOf, loadFilter
<1>3. CASE p \in LoadableFilters
  <2> DEFINE S == {i \in DOMAIN list : WeightOf(list[i]) <= Weight[p]}
             n == Cardinality(S)
             t == WithItem(list, n, p)
  <2>1. loadFilter(list, p) = t
    BY <1>3 DEF loadFilter, InsertedByWeight, WithItem
  <2>2. /\ \A i \in 1 .. Len(list) : list[i] \in Filters /\ WeightOf(list[i]) \in Int
        /\ p \in Filters /\ p # EscapeFilter /\ WeightOf(p) = Weight[p] /\ WeightOf(p) \in Int
    BY <1>1, Weights
  <2>3. \A i \in S, j \in 1 .. Len(list) : j < i => j \in S
    <3> SUFFICES ASSUME NEW i \in S, NEW j \in 1 .. Len(list), j < i PROVE j \in S
      OBVIOUS
    <3>1. i \in 1 .. Len(list) /\ WeightOf(list[i]) <= Weight[p]
      BY <1>1
    <3>2. WeightOf(list[j]) <= WeightOf(list[i])
      BY <1>1, <3>1 DEF Sorted
    <3>3. WeightOf(list[j]) <= Weight[p]
      BY <2>2, <3>1, <3>2
    <3> QED
      BY <1>1, <3>3
  <2>4. n \in 0 .. Len(list) /\ S = 1 .. n
    <3>1. S \in SUBSET (1 .. Len(list))
      BY <1>1
    <3> HIDE DEF S
    <3> QED
      BY <1>1, <2>3, <3>1, FirstNumbers
  <2>5. \A i \in 1 .. Len(list) : i <= n <=> WeightOf(list[i]) <= WeightOf(p)
    <3>1. \A i \in 1 .. Len(list) : i \in S <=> WeightOf(list[i]) <= WeightOf(p)
      BY <1>1, <2>2
    <3> HIDE DEF S, n
    <3> QED
      BY <1>1, <2>4, <3>1
  <2> HIDE DEF S, n
  <2>6. /\ t \in Seq(Filters) /\ Len(t) = Len(list) + 1
        /\ \A i \in 1 .. Len(list) + 1 :
             t[i] = IF i <= n THEN list[i] ELSE IF i = n + 1 THEN p ELSE list[i - 1]
    <3>1. list \in Seq(Filters) /\ p \in Filters /\ n \in 0 .. Len(list)
      BY <1>1, <2>2, <2>4
    <3> QED
      BY <3>1, InsertedItems
  <2> HIDE DEF t
  <2>7. n \in Int /\ n <= Len(list) /\ 0 <= n
    BY <1>1, <2>4
  <2>8. \A i \in 1 .. Len(list) + 1 :
          \/ i <= n /\ i \in 1 .. Len(list) /\ t[i] = list[i]
          \/ i = n + 1 /\ t[i] = p
          \/ i > n + 1 /\ i - 1 \in 1 .. Len(list) /\ t[i] = list[i - 1]
    <3> SUFFICES ASSUME NEW i \in 1 .. Len(list) + 1
                 PROVE  \/ i <= n /\ i \in 1 .. Len(list) /\ t[i] = list[i]
                        \/ i = n + 1 /\ t[i] = p
                        \/ i > n + 1 /\ i - 1 \in 1 .. Len(list) /\ t[i] = list[i - 1]
      OBVIOUS
    <3>1. \/ i <= n /\ i \in 1 .. Len(list)
          \/ i = n + 1 /\ ~(i <= n)
          \/ i > n + 1 /\ i - 1 \in 1 .. Len(list) /\ ~(i <= n) /\ i # n + 1
      BY <1>1, <2>7
    <3>2. t[i] = IF i <= n THEN list[i] ELSE IF i = n + 1 THEN p ELSE list[i - 1]
      BY <2>6
    <3> QED
      BY <3>1, <3>2
  <2>9. Sorted(t)
    <3> SUFFICES ASSUME NEW i \in 1 .. Len(list) + 1, NEW j \in 1 .. Len(list) + 1, i < j
                 PROVE  WeightOf(t[i]) <= WeightOf(t[j])
      BY <2>6 DEF Sorted
    <3>1. \A x, y \in 1 .. Len(list) : x < y => WeightOf(list[x]) <= WeightOf(list[y])
      BY <1>1 DEF Sorted
    <3>2. CASE i <= n /\ j <= n
      <4>1. t[i] = list[i] /\ i \in 1 .. Len(list) /\ t[j] = list[j] /\ j \in 1 .. Len(list)
        BY <2>7, <2>8, <3>2
      <4> QED
        BY <3>1, <4>1
    <3>3. CASE i <= n /\ j = n + 1
      <4>1. t[i] = list[i] /\ i \in 1 .. Len(list) /\ t[j] = p
        BY <2>7, <2>8, <3>3
      <4> QED
        BY <2>5, <3>3, <4>1
    <3>4. CASE i <= n /\ j > n + 1
      <4>1. t[i] = list[i] /\ t[j] = list[j - 1] /\ i \in 1 .. Len(list) /\ j - 1 \in 1 .. Len(list) /\ i < j - 1
        BY <2>7, <2>8, <3>4
      <4> QED
        BY <3>1, <4>1
    <3>5. CASE i = n + 1 /\ j > n + 1
      <4>1. t[i] = p /\ t[j] = list[j - 1] /\ j - 1 \in 1 .. Len(list) /\ ~(j - 1 <= n)
        BY <2>7, <2>8, <3>5
      <4>2. ~(WeightOf(list[j - 1]) <= WeightOf(p)) /\ WeightOf(list[j - 1]) \in Int
        BY <2>2, <2>5, <4>1
      <4> QED
        BY <2>2, <4>1, <4>2
    <3>6. CASE i > n + 1 /\ j > n + 1
      <4>1. /\ t[i] = list[i - 1] /\ t[j] = list[j - 1] /\ i - 1 < j - 1
            /\ i - 1 \in 1 .. Len(list) /\ j - 1 \in 1 .. Len(list)
        BY <2>7, <2>8, <3>6
      <4> QED
        BY <3>1, <4>1
    <3> QED
      BY <2>7, <3>2, <3>3, <3>4, <3>5, <3>6
  <2>10. /\ \A i \in 1 .. Len(list) : i <= n => i \in 1 .. Len(list) + 1 /\ t[i] = list[i]
         /\ \A i \in 1 .. Len(list) : i > n => i + 1 \in 1 .. Len(list) + 1 /\ t[i + 1] = list[i]
         /\ n + 1 \in 1 .. Len(list) + 1 /\ t[n + 1] = p
    <3>1. \A i \in 1 .. Len(list) : i <= n => i \in 1 .. Len(list) + 1 /\ t[i] = list[i]
      BY <1>1, <2>7, <2>8
    <3>2. ASSUME NEW i \in 1 .. Len(list), i > n PROVE i + 1 \in 1 .. Len(list) + 1 /\ t[i + 1] = list[i]
      <4>1. i + 1 \in 1 .. Len(list) + 1 /\ (i + 1) - 1 = i /\ i + 1 > n + 1
        BY <1>1, <2>7, <3>2
      <4> QED
        BY <2>6, <2>7, <4>1
    <3>3. n + 1 \in 1 .. Len(list) + 1 /\ t[n + 1] = p
      BY <1>1, <2>4, <2>6, <2>7
    <3> QED
      BY <3>1, <3>2, <3>3
  <2>11. ASSUME NEW x, x # p PROVE (Has(t, {x}) <=> Has(list, {x})) /\ (Once(list, {x}) => Once(t, {x}))
    <3>1. ASSUME Has(list, {x}) PROVE Has(t, {x})
      <4>1. PICK i \in 1 .. Len(list) : list[i] = x
        BY <3>1 DEF Has
      <4>2. i <= n \/ i > n
        BY <2>7
      <4> QED
        BY <2>6, <2>10, <4>1, <4>2 DEF Has
    <3>2. ASSUME Has(t, {x}) PROVE Has(list, {x})
      BY <2>6, <2>8, <2>11, <3>2 DEF Has
    <3>3. ASSUME Once(list, {x}) PROVE Once(t, {x})
      <4> SUFFICES ASSUME NEW i \in 1 .. Len(list) + 1, NEW j \in 1 .. Len(list) + 1, t[i] = x, t[j] = x
                   PROVE  i = j
        BY <2>6 DEF Once
      <4>1. \A k, l \in 1 .. Len(list) : list[k] = x /\ list[l] = x => k = l
        BY <3>3 DEF Once
      <4>2. i # n + 1 /\ j # n + 1
        BY <2>8, <2>7, <2>11
      <4>3. CASE i <= n /\ j <= n
        BY <2>8, <4>1, <4>3, <2>7
      <4>4. CASE i <= n /\ j > n + 1
        <5>1. i \in 1 .. Len(list) /\ j - 1 \in 1 .. Len(list) /\ list[i] = x /\ list[j - 1] = x
          BY <2>7, <2>8, <4>4
        <5>2. i = j - 1
          BY <4>1, <5>1
        <5> QED
          BY <2>7, <4>4, <5>2
      <4>5. CASE i > n + 1 /\ j <= n
        <5>1. j \in 1 .. Len(list) /\ i - 1 \in 1 .. Len(list) /\ list[j] = x /\ list[i - 1] = x
          BY <2>7, <2>8, <4>5
        <5>2. j = i - 1
          BY <4>1, <5>1
        <5> QED
          BY <2>7, <4>5, <5>2
      <4>6. CASE i > n + 1 /\ j > n + 1
        <5>1. /\ i - 1 \in 1 .. Len(list) /\ j - 1 \in 1 .. Len(list)
              /\ list[i - 1] = x /\ list[j - 1] = x
          BY <2>7, <2>8, <4>6
        <5>2. i - 1 = j - 1
          BY <4>1, <5>1
        <5> QED
          BY <5>2
      <4> QED
        BY <2>7, <4>2, <4>3, <4>4, <4>5, <4>6
    <3> QED
      BY <3>1, <3>2, <3>3
  <2>12. Has(t, {p})
    BY <2>6, <2>10 DEF Has
  <2>13. p \notin twice => Once(t, {p})
    <3> SUFFICES ASSUME p \notin twice, NEW i \in 1 .. Len(list) + 1, t[i] = p PROVE i = n + 1
      BY <2>6 DEF Once
    <3>1. ~Has(list, {p})
      BY <1>3 DEF ListOf
    <3> QED
      BY <2>8, <3>1 DEF Has
  <2>14. Has(t, {EscapeFilter}) /\ Once(t, {EscapeFilter})
    BY <2>2, <2>11 DEF ListOf
  <2>15. ASSUME NEW q \in Plugins \ twice
         PROVE  Once(t, {q}) /\ (Has(t, {q}) <=> q \in on \cup {p} /\ q \in LoadableFilters)
    <3>1. CASE q = p
      BY <1>3, <2>12, <2>13, <2>15, <3>1
    <3>2. CASE q # p
      BY <2>11, <2>15, <3>2 DEF ListOf
    <3> QED
      BY <3>1, <3>2
  <2> QED
    BY <2>1, <2>6, <2>9, <2>14, <2>15 DEF ListOf
<1> QED
  BY <1>2, <1>3

\* A list with an element less.
LEMMA RemovedItems ==
    ASSUME NEW A, NEW s \in Seq(A), NEW k \in 1 .. Len(s)
    PROVE  /\ RemoveAt(s, k) \in Seq(A) /\ Len(RemoveAt(s, k)) = Len(s) - 1
           /\ \A i \in 1 .. Len(s) - 1 : RemoveAt(s, k)[i] = IF i < k THEN s[i] ELSE s[i + 1]
<1> DEFINE a == SubSeq(s, 1, k - 1)
           b == SubSeq(s, k + 1, Len(s))
           t == a \o b
<1>1. Len(s) \in Nat /\ k \in Nat /\ 1 <= k /\ k <= Len(s)
  BY LenProperties
<1>2. a \in Seq(A) /\ Len(a) = k - 1 /\ \A i \in 1 .. k - 1 : a[i] = s[i]
  BY <1>1, SubSeqProperties
<1>3. b \in Seq(A) /\ Len(b) = Len(s) - k /\ \A i \in 1 .. Len(s) - k : b[i] = s[k + i]
  BY <1>1, SubSeqProperties
<1> HIDE DEF a, b
<1>4. /\ t \in Seq(A) /\ Len(t) = Len(a) + Len(b)
      /\ \A i \in 1 .. Len(a) + Len(b) : t[i] = IF i <= Len(a) THEN a[i] ELSE b[i - Len(a)]
  BY <1>2, <1>3, ConcatProperties
<1>5. RemoveAt(s, k) = t
  BY DEF RemoveAt, a, b
<1> HIDE DEF t
<1>6. Len(t) = Len(s) - 1 /\ Len(a) + Len(b) = Len(s) - 1
  BY <1>1, <1>2, <1>3, <1>4
<1>7. ASSUME NEW i \in 1 .. Len(s) - 1 PROVE t[i] = IF i < k THEN s[i] ELSE s[i + 1]
  <2>1. t[i] = IF i <= k - 1 THEN a[i] ELSE b[i - (k - 1)]
    BY <1>2, <1>4, <1>6
  <2>2. CASE i < k
    <3>1. i <= k - 1 /\ i \in 1 .. k - 1
      BY <1>1, <2>2
    <3> QED
      BY <1>2, <2>1, <2>2, <3>1
  <2>3. CASE ~(i < k)
    <3>1. ~(i <= k - 1) /\ i - (k - 1) \in 1 .. Len(s) - k /\ k + (i - (k - 1)) = i + 1
      BY <1>1, <2>3
    <3>2. b[i - (k - 1)] = s[i + 1]
      BY <1>3, <3>1
    <3> QED
      BY <2>1, <2>3, <3>1, <3>2
  <2> QED
    BY <2>2, <2>3
<1> QED
  BY <1>4, <1>5, <1>6, <1>7

\* The first of a name is found if there is one.
LEMMA FirstOfName ==
    ASSUME NEW A, NEW list \in Seq(A), NEW p
    PROVE  \/ ~Has(list, {p}) /\ unloadFilter(list, p) = list
           \/ \E k \in 1 .. Len(list) : list[k] = p /\ unloadFilter(list, p) = RemoveAt(list, k)
<1> DEFINE P(j) == /\ j > 0 => list[j] = p /\ p \notin Range(SubSeq(list, 1, j - 1))
                   /\ j = 0 => p \notin Range(list)
           k == CHOOSE j \in 0 .. Len(list) : P(j)
<1>1. Len(list) \in Nat /\ DOMAIN list = 1 .. Len(list)
  BY LenProperties
<1>2. unloadFilter(list, p) = IF k = 0 THEN list ELSE RemoveAt(list, k)
  BY DEF unloadFilter
<1>3. p \in Range(list) <=> Has(list, {p})
  BY <1>1 DEF Range, Has
<1>4. \E j \in 0 .. Len(list) : P(j)
  <2>1. CASE ~Has(list, {p})
    <3>1. 0 \in 0 .. Len(list) /\ P(0)
      BY <1>1, <1>3, <2>1
    <3> HIDE DEF P
    <3> QED
      BY <3>1
  <2>2. CASE Has(list, {p})
    <3> DEFINE S == {i \in 1 .. Len(list) : list[i] = p}
    <3>1. S \in SUBSET Nat /\ S # {}
      BY <2>2 DEF Has
    <3>2. PICK j \in S : \A i \in S : j <= i
      <4> HIDE DEF S
      <4> QED
        BY <3>1, LeastNumber
    <3>3. j \in 1 .. Len(list) /\ list[j] = p /\ j - 1 \in Nat
      OBVIOUS
    <3>4. /\ SubSeq(list, 1, j - 1) \in Seq(A) /\ Len(SubSeq(list, 1, j - 1)) = j - 1
          /\ \A i \in 1 .. j - 1 : SubSeq(list, 1, j - 1)[i] = list[i]
      BY <1>1, <3>3, SubSeqProperties
    <3>5. DOMAIN SubSeq(list, 1, j - 1) = 1 .. j - 1
      BY <3>4, LenProperties
    <3>6. \A i \in 1 .. j - 1 : list[i] # p
      <4> SUFFICES ASSUME NEW i \in 1 .. j - 1, list[i] = p PROVE FALSE
        OBVIOUS
      <4>1. i \in S /\ ~(j <= i)
        BY <1>1, <3>3
      <4> QED
        BY <3>2, <4>1
    <3>7. p \notin Range(SubSeq(list, 1, j - 1))
      BY <3>4, <3>5, <3>6 DEF Range
    <3>8. j \in 0 .. Len(list) /\ P(j)
      BY <1>1, <3>3, <3>7
    <3> HIDE DEF P
    <3> QED
      BY <3>8
  <2> QED
    BY <2>1, <2>2
<1>5. k \in 0 .. Len(list) /\ P(k)
  <2> HIDE DEF P
  <2> QED
    BY <1>4
<1>6. (k > 0 => list[k] = p) /\ (k = 0 => ~Has(list, {p}))
  BY <1>3, <1>5
<1> HIDE DEF k
<1>7. k = 0 \/ (k \in 1 .. Len(list) /\ k > 0)
  BY <1>1, <1>5
<1>8. CASE k = 0
  BY <1>2, <1>6, <1>8
<1>9. CASE k \in 1 .. Len(list) /\ k > 0
  BY <1>2, <1>6, <1>9
<1> QED
  BY <1>7, <1>8, <1>9

\* The filter that was unloaded is gone, if there was one, and the others are as they were.
LEMMA UnloadedList ==
    ASSUME NEW list, NEW on, NEW twice, ListOf(list, on, twice), NEW p \in Plugins
    PROVE  ListOf(unloadFilter(list, p), on \ {p}, twice)
<1>1. list \in Seq(Filters) /\ Sorted(list) /\ Len(list) \in Nat
  BY LenProperties DEF ListOf
<1>2. CASE ~Has(list, {p}) /\ unloadFilter(list, p) = list
  BY <1>2 DEF ListOf
<1>3. ASSUME NEW k \in 1 .. Len(list), list[k] = p, unloadFilter(list, p) = RemoveAt(list, k)
      PROVE  ListOf(unloadFilter(list, p), on \ {p}, twice)
  <2> DEFINE t == RemoveAt(list, k)
  <2>1. /\ t \in Seq(Filters) /\ Len(t) = Len(list) - 1
        /\ \A i \in 1 .. Len(list) - 1 : t[i] = IF i < k THEN list[i] ELSE list[i + 1]
    BY <1>1, RemovedItems
  <2> HIDE DEF t
  <2> DEFINE from(i) == IF i < k THEN i ELSE i + 1
  <2>2. \A i \in 1 .. Len(list) - 1 : from(i) \in 1 .. Len(list) /\ t[i] = list[from(i)] /\ from(i) # k
    BY <1>1, <2>1
  <2>3. \A i, j \in 1 .. Len(list) - 1 : (i < j => from(i) < from(j)) /\ (from(i) = from(j) => i = j)
    BY <1>1
  <2>4. \A i \in 1 .. Len(list) : i # k => \E j \in 1 .. Len(list) - 1 : from(j) = i
    <3> SUFFICES ASSUME NEW i \in 1 .. Len(list), i # k PROVE \E j \in 1 .. Len(list) - 1 : from(j) = i
      OBVIOUS
    <3>1. CASE i < k
      <4>1. i \in 1 .. Len(list) - 1 /\ from(i) = i
        BY <1>1, <3>1
      <4> QED
        BY <4>1
    <3>2. CASE i > k
      <4>1. i - 1 \in 1 .. Len(list) - 1 /\ from(i - 1) = i
        BY <1>1, <3>2
      <4> QED
        BY <4>1
    <3> QED
      BY <1>1, <3>1, <3>2
  <2> HIDE DEF from
  <2>5. Sorted(t)
    BY <1>1, <2>1, <2>2, <2>3 DEF Sorted
  <2>6. ASSUME NEW x, x # p PROVE (Has(t, {x}) <=> Has(list, {x})) /\ (Once(list, {x}) => Once(t, {x}))
    <3>1. ASSUME Has(list, {x}) PROVE Has(t, {x})
      BY <1>3, <2>1, <2>2, <2>4, <2>6, <3>1 DEF Has
    <3>2. ASSUME Has(t, {x}) PROVE Has(list, {x})
      BY <2>1, <2>2, <3>2 DEF Has
    <3>3. ASSUME Once(list, {x}) PROVE Once(t, {x})
      BY <2>1, <2>2, <2>3, <3>3 DEF Once
    <3> QED
      BY <3>1, <3>2, <3>3
  <2>7. Once(list, {p}) => ~Has(t, {p})
    BY <1>3, <2>1, <2>2 DEF Once, Has
  <2>8. p # EscapeFilter
    BY Weights
  <2>9. Has(t, {EscapeFilter}) /\ Once(t, {EscapeFilter})
    BY <2>6, <2>8 DEF ListOf
  <2>10. ASSUME NEW q \in Plugins \ twice
         PROVE  Once(t, {q}) /\ (Has(t, {q}) <=> q \in on \ {p} /\ q \in LoadableFilters)
    <3>1. CASE q = p
      <4>1. ~Has(t, {q})
        BY <2>7, <2>10, <3>1 DEF ListOf
      <4> QED
        BY <3>1, <4>1 DEF Once, Has
    <3>2. CASE q # p
      BY <2>6, <2>10, <3>2 DEF ListOf
    <3> QED
      BY <3>1, <3>2
  <2> QED
    BY <1>3, <2>1, <2>5, <2>9, <2>10 DEF ListOf, t
<1> QED
  BY <1>1, <1>2, <1>3, FirstOfName

\* An order of the plugins has each of them, once.
LEMMA OrderOfPlugins ==
    ASSUME NEW order \in SetToSeqs(Plugins)
    PROVE  /\ order \in Seq(Plugins) /\ Len(order) \in Nat
           /\ \A i \in 1 .. Len(order) : order[i] \in Plugins
           /\ \A i, j \in 1 .. Len(order) : i # j => order[i] # order[j]
           /\ \A p \in Plugins : \E i \in 1 .. Len(order) : order[i] = p
<1> DEFINE n == Cardinality(Plugins)
<1>1. n \in Nat /\ IsFiniteSet(Plugins)
  BY FiltersAssumption, FS_CardinalityType
<1>2. order \in [1 .. n -> Plugins] /\ \A i, j \in 1 .. n : i # j => order[i] # order[j]
  BY Zenon DEF SetToSeqs
<1>3. order \in Seq(Plugins) /\ Len(order) = n
  BY <1>1, <1>2, SeqOfItems
<1>4. order \in Injection(1 .. n, Plugins)
  BY <1>2, Zenon DEF Injection, IsInjective
<1>5. Cardinality(1 .. n) = n
  <2>1. 1 \in Int /\ n \in Int
    BY <1>1
  <2>2. Cardinality(1 .. n) = IF 1 > n THEN 0 ELSE n - 1 + 1
    BY <2>1, FS_Interval
  <2> QED
    BY <1>1, <2>2
<1>6. order \in Surjection(1 .. n, Plugins)
  BY <1>1, <1>4, <1>5, FS_Injection
<1>7. \A p \in Plugins : \E i \in 1 .. n : order[i] = p
  BY <1>6, Zenon DEF Surjection
<1> QED
  BY <1>1, <1>2, <1>3, <1>7

\* A list of filters stays one.
LEMMA LoadedType ==
    ASSUME NEW list \in Seq(Filters), NEW p \in Plugins
    PROVE  loadFilter(list, p) \in Seq(Filters)
<1> DEFINE S == {i \in DOMAIN list : WeightOf(list[i]) <= Weight[p]}
           n == Cardinality(S)
<1>1. DOMAIN list = 1 .. Len(list) /\ Len(list) \in Nat
  BY LenProperties
<1>2. n \in 0 .. Len(list)
  <2>1. 1 \in Int /\ Len(list) \in Int
    BY <1>1
  <2>2. /\ IsFiniteSet(1 .. Len(list))
        /\ Cardinality(1 .. Len(list)) = IF 1 > Len(list) THEN 0 ELSE Len(list) - 1 + 1
    BY <2>1, FS_Interval
  <2>3. Cardinality(1 .. Len(list)) = Len(list)
    BY <1>1, <2>2
  <2>4. S \in SUBSET (1 .. Len(list))
    BY <1>1
  <2> HIDE DEF S
  <2>5. IsFiniteSet(S) /\ n <= Len(list)
    BY <2>2, <2>3, <2>4, FS_Subset
  <2>6. n \in Nat
    BY <2>5, FS_CardinalityType
  <2> QED
    BY <1>1, <2>5, <2>6
<1> HIDE DEF n
<1>3. p \in Filters
  BY Weights
<1>4. WithItem(list, n, p) \in Seq(Filters)
  BY <1>2, <1>3, InsertedItems
<1> QED
  BY <1>4 DEF loadFilter, InsertedByWeight, WithItem, n

\* A new processor has what is on, in the order of the weights.
LEMMA NewList ==
    ASSUME NEW order \in SetToSeqs(Plugins), NEW on \in SUBSET Plugins
    PROVE  ListOf(NewProcessor(order, on), on, {})
<1> DEFINE n == Len(order)
           Next(i, list) == IF order[i] \in on THEN loadFilter(list, order[i]) ELSE list
           step == [x \in (1 .. n) \X Seq(Filters) |-> Next(x[1], x[2])]
           def(g) == [i \in 0 .. Len(order) |->
                        IF i = 0 THEN <<EscapeFilter>>
                        ELSE IF order[i] \in on THEN loadFilter(g[i - 1], order[i])
                        ELSE g[i - 1]]
           k == CHOOSE f : f = def(f)
           seen(i) == {order[j] : j \in 1 .. i}
           S == {i \in Nat : i <= n => ListOf(k[i], on \cap seen(i), {})}
<1>1. /\ n \in Nat /\ \A i \in 1 .. n : order[i] \in Plugins
      /\ \A i, j \in 1 .. n : i # j => order[i] # order[j]
      /\ \A p \in Plugins : \E i \in 1 .. n : order[i] = p
  BY OrderOfPlugins
<1>2. <<EscapeFilter>> \in Seq(Filters)
  BY DEF Filters
<1>3. \A i \in 1 .. n, list \in Seq(Filters) : Next(i, list) \in Seq(Filters)
  BY <1>1, LoadedType
<1>4. step \in [(1 .. n) \X Seq(Filters) -> Seq(Filters)]
  BY <1>3
<1>5. \A i \in 1 .. n, list \in Seq(Filters) : step[<<i, list>>] = Next(i, list)
  OBVIOUS
<1> HIDE DEF step, n
<1>6. PICK g \in [0 .. n -> Seq(Filters)] :
        g[0] = <<EscapeFilter>> /\ \A i \in 1 .. n : g[i] = step[<<i, g[i - 1]>>]
  <2> DEFINE A == Seq(Filters)
             base == <<EscapeFilter>>
  <2>1. base \in A /\ step \in [(1 .. n) \X A -> A] /\ n \in Nat
    BY <1>1, <1>2, <1>4
  <2> HIDE DEF A, base
  <2>2. \E g : StepByStep(g, A, base, n, step)
    BY <2>1, StepsExist
  <2> QED
    BY <2>2 DEF A, base, StepByStep
<1> USE DEF n
<1>7. \A i \in 1 .. n : i - 1 \in 0 .. n /\ i \in 0 .. n
  BY <1>1
<1>8. \A i \in 1 .. n : g[i] = Next(i, g[i - 1])
  BY <1>5, <1>6, <1>7
<1>9. g = def(g)
  <2>1. \A i \in 0 .. n : i = 0 \/ i \in 1 .. n
    BY <1>1
  <2>2. \A i \in 0 .. n : g[i] = def(g)[i]
    BY <1>6, <1>8, <2>1
  <2> QED
    BY <1>6, <2>2
<1>10. NewProcessor(order, on) = k[n]
  BY DEF NewProcessor
<1>11. k = def(k)
  <2> HIDE DEF def
  <2> QED
    BY <1>9
<1>12. 0 \in 0 .. n /\ \A i \in 1 .. n : i \in 0 .. n /\ i # 0
  BY <1>1
<1>13. k[0] = def(k)[0] /\ \A i \in 1 .. n : k[i] = def(k)[i]
  BY <1>11
<1> HIDE DEF k
<1>14. k[0] = <<EscapeFilter>> /\ \A i \in 1 .. n : k[i] = Next(i, k[i - 1])
  BY <1>12, <1>13
<1>15. ListOf(<<EscapeFilter>>, on \cap seen(0), {})
  <2>1. Len(<<EscapeFilter>>) = 1 /\ <<EscapeFilter>>[1] = EscapeFilter
    OBVIOUS
  <2>2. \A i \in 1 .. Len(<<EscapeFilter>>) : i = 1
    BY <2>1
  <2>3. on \cap seen(0) = {} /\ \A p \in Plugins : p # EscapeFilter
    BY Weights
  <2> QED
    BY <1>2, <2>1, <2>2, <2>3 DEF ListOf, Sorted, Has, Once
<1>16. 0 \in S
  BY <1>14, <1>15
<1>17. ASSUME NEW i \in Nat, i \in S PROVE i + 1 \in S
  <2> SUFFICES ASSUME i + 1 <= n PROVE ListOf(k[i + 1], on \cap seen(i + 1), {})
    OBVIOUS
  <2>1. ListOf(k[i], on \cap seen(i), {}) /\ i + 1 \in 1 .. n /\ (i + 1) - 1 = i
    BY <1>1, <1>17
  <2>2. k[i + 1] = Next(i + 1, k[i])
    BY <1>14, <2>1
  <2>3. seen(i + 1) = seen(i) \cup {order[i + 1]}
    <3>1. 1 .. i + 1 = (1 .. i) \cup {i + 1}
      BY <1>17
    <3> QED
      BY <3>1
  <2>4. order[i + 1] \in Plugins /\ order[i + 1] \notin seen(i)
    <3>1. \A j \in 1 .. i : j \in 1 .. n /\ j # i + 1
      BY <1>1, <1>17, <2>1
    <3> QED
      BY <1>1, <2>1, <3>1
  <2> HIDE DEF seen
  <2>5. CASE order[i + 1] \in on
    <3>1. ListOf(loadFilter(k[i], order[i + 1]), (on \cap seen(i)) \cup {order[i + 1]}, {})
      BY <2>1, <2>4, LoadedList
    <3>2. (on \cap seen(i)) \cup {order[i + 1]} = on \cap seen(i + 1)
      BY <2>3, <2>5
    <3> QED
      BY <2>2, <2>5, <3>1, <3>2
  <2>6. CASE order[i + 1] \notin on
    <3>1. on \cap seen(i + 1) = on \cap seen(i)
      BY <2>3, <2>6
    <3> QED
      BY <2>1, <2>2, <2>6, <3>1
  <2> QED
    BY <2>5, <2>6
<1>18. n \in S
  <2> HIDE DEF S
  <2> QED
    BY <1>1, <1>16, <1>17, AllNumbers
<1>19. on \cap seen(n) = on
  BY <1>1
<1>20. ListOf(k[n], on \cap seen(n), {})
  BY <1>1, <1>18
<1> QED
  BY <1>10, <1>19, <1>20

\* The manager, while it goes through the plugins.
Manager == [enabled : SUBSET Plugins, exists : BOOLEAN, filters : Seq(Filters), doubled : SUBSET Plugins]

Agrees(now) ==
    /\ now.exists => ListOf(now.filters, now.enabled, now.doubled)
    /\ ~now.exists => now.doubled = {}

Managers == {now \in Manager : Agrees(now)}

\* For each plugin the list stays the one of what is on, and of the plugins only this
\* one may change.
LEMMA ReloadedOne ==
    ASSUME NEW order \in SetToSeqs(Plugins), NEW now \in Managers, NEW p \in Plugins,
           isPluginEnabled \in [Plugins -> BOOLEAN]
    PROVE  /\ Reloaded(now, order, p) \in Managers
           /\ p \in Reloaded(now, order, p).enabled <=> isPluginEnabled[p]
           /\ \A q \in Plugins \ {p} : q \in Reloaded(now, order, p).enabled <=> q \in now.enabled
<1> DEFINE was == p \in now.enabled
           on == IF was THEN now.enabled \ {p} ELSE now.enabled \cup {p}
           list == IF now.exists THEN now.filters ELSE NewProcessor(order, on)
           twice == IF was \/ now.exists THEN now.doubled ELSE {p}
           end == IF was THEN unloadFilter(list, p) ELSE loadFilter(list, p)
           after == [enabled |-> on, exists |-> TRUE, filters |-> end, doubled |-> twice]
<1>1. /\ now \in Manager /\ now.enabled \in SUBSET Plugins /\ now.doubled \in SUBSET Plugins
      /\ isPluginEnabled[p] \in BOOLEAN
  BY DEF Managers, Manager
<1>2. /\ now.exists => ListOf(now.filters, now.enabled, now.doubled)
      /\ ~now.exists => now.doubled = {}
  BY DEF Managers, Agrees
<1>3. CASE was = isPluginEnabled[p]
  <2>1. Reloaded(now, order, p) = now
    BY <1>3 DEF Reloaded
  <2> QED
    BY <1>3, <2>1
<1>4. CASE was # isPluginEnabled[p]
  <2>1. Reloaded(now, order, p) = after
    BY <1>4, Zenon DEF Reloaded
  <2>2. on \in SUBSET Plugins /\ twice \in SUBSET Plugins
    BY <1>1
  <2>3. ~now.exists => ListOf(list, on, {})
    BY <2>2, NewList
  <2>4. ListOf(end, on, twice)
    <3>1. CASE was /\ now.exists
      <4>1. ListOf(list, now.enabled, now.doubled) /\ twice = now.doubled /\ on = now.enabled \ {p}
        BY <1>2, <3>1
      <4>2. ListOf(unloadFilter(list, p), now.enabled \ {p}, now.doubled)
        BY <4>1, UnloadedList
      <4> QED
        BY <3>1, <4>1, <4>2
    <3>2. CASE was /\ ~now.exists
      <4>1. twice = {} /\ on \ {p} = on
        BY <1>2, <3>2
      <4>2. ListOf(unloadFilter(list, p), on \ {p}, {})
        BY <2>3, <3>2, UnloadedList
      <4> QED
        BY <3>2, <4>1, <4>2
    <3>3. CASE ~was /\ now.exists
      <4>1. ListOf(list, now.enabled, now.doubled) /\ twice = now.doubled /\ on = now.enabled \cup {p}
        BY <1>2, <3>3
      <4>2. ListOf(loadFilter(list, p), now.enabled \cup {p}, now.doubled)
        BY <3>3, <4>1, LoadedList
      <4> QED
        BY <3>3, <4>1, <4>2
    <3>4. CASE ~was /\ ~now.exists
      <4>1. twice = {p} /\ on \cup {p} = on
        BY <3>4
      <4>2. ListOf(list, on, {p})
        BY <2>3, <3>4 DEF ListOf
      <4>3. ListOf(loadFilter(list, p), on \cup {p}, {p})
        BY <4>2, LoadedList
      <4> QED
        BY <3>4, <4>1, <4>3
    <3> QED
      BY <3>1, <3>2, <3>3, <3>4
  <2>5. end \in Seq(Filters)
    BY <2>4 DEF ListOf
  <2>6. p \in on <=> isPluginEnabled[p]
    BY <1>1, <1>4
  <2>7. \A q \in Plugins \ {p} : q \in on <=> q \in now.enabled
    OBVIOUS
  <2> HIDE DEF on, twice, end
  <2>8. after \in Managers
    BY <2>2, <2>4, <2>5 DEF Managers, Manager, Agrees
  <2> QED
    BY <2>1, <2>6, <2>7, <2>8
<1> QED
  BY <1>3, <1>4

\* reloadConfig has seen all plugins at the end.
LEMMA ReloadedTo ==
    ASSUME NEW order \in SetToSeqs(Plugins), NEW now \in Managers,
           isPluginEnabled \in [Plugins -> BOOLEAN]
    PROVE  /\ ReloadedAll(now, order) \in Managers
           /\ ReloadedAll(now, order).enabled = {p \in Plugins : isPluginEnabled[p]}
<1> DEFINE n == Len(order)
           step == [x \in (1 .. n) \X Managers |-> Reloaded(x[2], order, order[x[1]])]
           def(g) == [i \in 0 .. Len(order) |->
                        IF i = 0 THEN now ELSE Reloaded(g[i - 1], order, order[i])]
           k == CHOOSE f : f = def(f)
           S == {i \in Nat : i <= n =>
                   /\ k[i] \in Managers
                   /\ \A j \in 1 .. i : order[j] \in k[i].enabled <=> isPluginEnabled[order[j]]}
<1>1. /\ n \in Nat /\ \A i \in 1 .. n : order[i] \in Plugins
      /\ \A i, j \in 1 .. n : i # j => order[i] # order[j]
      /\ \A p \in Plugins : \E i \in 1 .. n : order[i] = p
  BY OrderOfPlugins
<1>2. \A i \in 1 .. n, m \in Managers : Reloaded(m, order, order[i]) \in Managers
  BY <1>1, ReloadedOne
<1>3. step \in [(1 .. n) \X Managers -> Managers]
  BY <1>2
<1>4. \A i \in 1 .. n, m \in Managers : step[<<i, m>>] = Reloaded(m, order, order[i])
  OBVIOUS
<1> HIDE DEF step, n
<1>5. PICK g : StepByStep(g, Managers, now, n, step)
  BY <1>1, <1>3, StepsExist
<1> USE DEF n
<1>6. /\ g \in [0 .. n -> Managers] /\ g[0] = now
      /\ \A i \in 1 .. n : g[i] = step[<<i, g[i - 1]>>]
  BY <1>5 DEF StepByStep
<1>7. \A i \in 1 .. n : i - 1 \in 0 .. n /\ i \in 0 .. n
  BY <1>1
<1>8. \A i \in 1 .. n : g[i] = Reloaded(g[i - 1], order, order[i])
  BY <1>4, <1>6, <1>7
<1>9. g = def(g)
  <2>1. \A i \in 0 .. n : i = 0 \/ i \in 1 .. n
    BY <1>1
  <2>2. \A i \in 0 .. n : g[i] = def(g)[i]
    BY <1>6, <1>8, <2>1
  <2> QED
    BY <1>6, <2>2
<1>10. ReloadedAll(now, order) = k[n]
  BY DEF ReloadedAll
<1>11. k = def(k)
  <2> HIDE DEF def
  <2> QED
    BY <1>9
<1>12. 0 \in 0 .. n /\ \A i \in 1 .. n : i \in 0 .. n /\ i # 0
  BY <1>1
<1>13. k[0] = def(k)[0] /\ \A i \in 1 .. n : k[i] = def(k)[i]
  BY <1>11
<1> HIDE DEF k
<1>14. k[0] = now /\ \A i \in 1 .. n : k[i] = Reloaded(k[i - 1], order, order[i])
  BY <1>12, <1>13
<1>15. 0 \in S
  BY <1>14
<1>16. ASSUME NEW i \in Nat, i \in S PROVE i + 1 \in S
  <2> SUFFICES ASSUME i + 1 <= n
               PROVE  /\ k[i + 1] \in Managers
                      /\ \A j \in 1 .. i + 1 :
                           order[j] \in k[i + 1].enabled <=> isPluginEnabled[order[j]]
    OBVIOUS
  <2>1. /\ k[i] \in Managers /\ i + 1 \in 1 .. n /\ (i + 1) - 1 = i
        /\ \A j \in 1 .. i : order[j] \in k[i].enabled <=> isPluginEnabled[order[j]]
    BY <1>1, <1>16
  <2>2. k[i + 1] = Reloaded(k[i], order, order[i + 1]) /\ order[i + 1] \in Plugins
    BY <1>1, <1>14, <2>1
  <2>3. /\ k[i + 1] \in Managers
        /\ order[i + 1] \in k[i + 1].enabled <=> isPluginEnabled[order[i + 1]]
        /\ \A q \in Plugins \ {order[i + 1]} : q \in k[i + 1].enabled <=> q \in k[i].enabled
    BY <2>1, <2>2, ReloadedOne
  <2>4. ASSUME NEW j \in 1 .. i + 1
        PROVE  order[j] \in k[i + 1].enabled <=> isPluginEnabled[order[j]]
    <3>1. CASE j = i + 1
      BY <2>3, <3>1
    <3>2. CASE j # i + 1
      <4>1. j \in 1 .. i /\ j \in 1 .. n
        BY <1>1, <1>16, <2>1, <3>2
      <4>2. order[j] \in Plugins \ {order[i + 1]}
        BY <1>1, <2>1, <3>2, <4>1
      <4> QED
        BY <2>1, <2>3, <4>1, <4>2
    <3> QED
      BY <3>1, <3>2
  <2> QED
    BY <2>3, <2>4
<1>17. n \in S
  <2> HIDE DEF S
  <2> QED
    BY <1>1, <1>15, <1>16, AllNumbers
<1>18. k[n] \in Managers /\ \A j \in 1 .. n : order[j] \in k[n].enabled <=> isPluginEnabled[order[j]]
  BY <1>1, <1>17
<1>19. k[n].enabled \in SUBSET Plugins
  BY <1>18 DEF Managers, Manager
<1>20. \A p \in Plugins : p \in k[n].enabled <=> isPluginEnabled[p]
  BY <1>1, <1>18
<1> QED
  BY <1>10, <1>18, <1>19, <1>20

-----------------------------------------------------------------------------

LEMMA FiltersBegin == FiltersInit => FiltersInv
<1> SUFFICES ASSUME FiltersInit PROVE FiltersInv
  OBVIOUS
<1>1. /\ isPluginEnabled \in [Plugins -> BOOLEAN] /\ processorExists = FALSE
      /\ enabledFilters = {p \in Plugins : isPluginEnabled[p]}
      /\ filters = <<>> /\ doubled = {}
  BY DEF FiltersInit
<1>2. filters \in Seq(Filters)
  BY <1>1
<1> QED
  BY <1>1, <1>2 DEF FiltersInv

LEMMA FiltersReload ==
    ASSUME FiltersInv, NEW order \in SetToSeqs(Plugins), reloadConfig(order)
    PROVE  FiltersInv'
<1> DEFINE now == [enabled |-> enabledFilters, exists |-> processorExists,
                   filters |-> filters, doubled |-> doubled]
           after == ReloadedAll(now, order)
<1>1. now \in Managers
  BY DEF FiltersInv, Managers, Manager, Agrees
<1>2. after \in Managers /\ after.enabled = {p \in Plugins : isPluginEnabled[p]}
  <2> HIDE DEF now
  <2> QED
    BY <1>1, ReloadedTo DEF FiltersInv
<1>3. /\ enabledFilters' = after.enabled /\ processorExists' = after.exists
      /\ filters' = after.filters /\ doubled' = after.doubled
      /\ reloadDue' = FALSE /\ isPluginEnabled' = isPluginEnabled
  BY DEF reloadConfig
<1> HIDE DEF after
<1>4. after \in Manager /\ Agrees(after)
  BY <1>2 DEF Managers
<1> QED
  BY <1>2, <1>3, <1>4 DEF FiltersInv, Manager, Agrees

LEMMA FiltersStep == FiltersInv /\ [FiltersNext]_filterPluginVars => FiltersInv'
<1> SUFFICES ASSUME FiltersInv, [FiltersNext]_filterPluginVars PROVE FiltersInv'
  OBVIOUS
<1>1. CASE \E order \in SetToSeqs(Plugins) : reloadConfig(order)
  BY <1>1, FiltersReload
<1>2. ASSUME NEW order \in SetToSeqs(Plugins), instance(order) PROVE FiltersInv'
  <2>1. ~processorExists /\ doubled = {} /\ enabledFilters \in SUBSET Plugins
    BY <1>2 DEF instance, FiltersInv
  <2>2. ListOf(filters', enabledFilters, {})
    BY <1>2, <2>1, NewList DEF instance
  <2>3. filters' \in Seq(Filters)
    BY <2>2 DEF ListOf
  <2> QED
    BY <1>2, <2>1, <2>2, <2>3 DEF instance, FiltersInv
<1>3. CASE \E p \in Plugins : SettingChanged(p)
  <2>1. PICK p \in Plugins : SettingChanged(p)
    BY <1>3
  <2>2. isPluginEnabled' \in [Plugins -> BOOLEAN]
    BY <2>1 DEF SettingChanged, FiltersInv
  <2> QED
    BY <2>1, <2>2 DEF SettingChanged, FiltersInv
<1>4. CASE \E m \in Messages : processMessage(m)
  BY <1>4 DEF processMessage, FiltersInv
<1>5. CASE Taken
  BY <1>5 DEF Taken, FiltersInv
<1>6. CASE UNCHANGED filterPluginVars
  BY <1>6 DEF filterPluginVars, FiltersInv
<1> QED
  BY <1>1, <1>2, <1>3, <1>4, <1>5, <1>6 DEF FiltersNext

LEMMA FiltersRun == FiltersInv => EnabledFiltersRun
<1> SUFFICES ASSUME FiltersInv, processorExists, ~reloadDue
             PROVE  /\ \A p \in Plugins \ doubled :
                         Occurrences(filters, p)
                           = IF isPluginEnabled[p] /\ p \in LoadableFilters THEN 1 ELSE 0
                    /\ Occurrences(filters, EscapeFilter) = 1
                    /\ \A i, j \in DOMAIN filters :
                         i < j => WeightOf(filters[i]) <= WeightOf(filters[j])
  BY DEF EnabledFiltersRun
<1>1. /\ ListOf(filters, enabledFilters, doubled) /\ filters \in Seq(Filters)
      /\ enabledFilters = {p \in Plugins : isPluginEnabled[p]}
  BY DEF FiltersInv
<1>2. DOMAIN filters = 1 .. Len(filters)
  BY <1>1, LenProperties
<1>3. ASSUME NEW p \in Plugins \ doubled
      PROVE  Occurrences(filters, p)
               = IF isPluginEnabled[p] /\ p \in LoadableFilters THEN 1 ELSE 0
  <2>1. Once(filters, {p}) /\ (Has(filters, {p}) <=> p \in enabledFilters /\ p \in LoadableFilters)
    BY <1>1 DEF ListOf
  <2>2. Occurrences(filters, p) = IF Has(filters, {p}) THEN 1 ELSE 0
    BY <1>1, <2>1, OccursOnce
  <2> QED
    BY <1>1, <2>1, <2>2
<1>4. Occurrences(filters, EscapeFilter) = 1
  <2>1. Once(filters, {EscapeFilter}) /\ Has(filters, {EscapeFilter})
    BY <1>1 DEF ListOf
  <2> QED
    BY <1>1, <2>1, OccursOnce
<1> QED
  BY <1>1, <1>2, <1>3, <1>4 DEF ListOf, Sorted

\* Once the settings were read, a message runs through each filter that is on and can be
\* loaded, once and by weight, for any plugins, weights and orders in which the manager
\* goes through them.
THEOREM EnabledFiltersKeepRunning ==
    FiltersInit /\ [][FiltersNext]_filterPluginVars => []EnabledFiltersRun
<1>1. FiltersInit /\ [][FiltersNext]_filterPluginVars => []FiltersInv
  BY FiltersBegin, FiltersStep, PTL
<1> QED
  BY <1>1, FiltersRun, PTL
=============================================================================
