-------------------------------- MODULE Pins --------------------------------
(***************************************************************************)
(* Pinned contacts: PersistentContact, which follows a contact through the *)
(* connections of its account, PinnedContactsModel, a list of these, and   *)
(* FilteredPinnedContactsProxyModel, which shows the pins that are         *)
(* available and have no conversation.                                     *)
(*                                                                         *)
(* Connections are numbered; a contact object belongs to one of them.      *)
(* Results of requests, invalidated() and repaints wait in the queue of    *)
(* the event loop.                                                         *)
(***************************************************************************)
EXTENDS Integers, Sequences, SequencesExt, FiniteSets

CONSTANTS
    People,             \* contact ids
    MaxConnections,     \* bound: connections of the account
    MaxPinnings,        \* bound: pins that the user makes
    MaxPosted           \* bound: repaints wait only in a shorter queue

ASSUME PinsAssumption == MaxConnections \in Nat /\ MaxPinnings \in Nat /\ MaxPosted \in Nat

VARIABLES
    connection,     \* number of the connection, 0 while there is none
    made,           \* connections made so far
    destroyed,      \* connections whose object is gone
    presence,       \* the contacts that are available
    pins,           \* m_pins: persistent contacts in row order
    pinnings,       \* pins made so far
    chatting,       \* contacts with a conversation
    posted,         \* the queue of the event loop
    painted,        \* by contact: the filter accepts the row, as last evaluated
    missed,         \* history: contacts whose change was announced for no or another row
    refused         \* history: contacts that were not found on this connection, or
                    \* were dropped with an old one

pinVars == <<connection, made, destroyed, presence, pins, pinnings, chatting, posted, painted,
             missed, refused>>

PinsInit ==
    /\ connection = 0 /\ made = 0 /\ destroyed = {}
    /\ presence = {}
    /\ pins = <<>> /\ pinnings = 0
    /\ chatting = {}
    /\ posted = <<>>
    /\ painted = [p \in People |-> FALSE] /\ missed = {} /\ refused = {}

\* The PersistentContact that was made as number n.
NewPin(p, n) ==
    [id |-> p, number |-> n, ready |-> FALSE, contact |-> 0, asked |-> 0, linked |-> {}]

Pinned == {pins[i].id : i \in DOMAIN pins}

\* AvailabilityRole and not AlreadyChattingRole (both are false without contact).
Accepts(pin) == pin.contact # 0 /\ pin.id \in presence' /\ pin.id \notin chatting'

\* dataChanged for the rows of these contacts: the filter evaluates them again.
dataChanged(ids) ==
    /\ painted' = [p \in People |->
                     IF p \in ids
                     THEN \E i \in DOMAIN pins' : pins'[i].id = p /\ Accepts(pins'[i])
                     ELSE painted[p]]
    /\ missed' = missed \ ids

-----------------------------------------------------------------------------
(* PersistentContact.                                                      *)

\* The contact is looked up on the connection, if there is one.
Asking(pin) == [pin EXCEPT !.asked = connection']

\* The account is ready.
onAccountReady(i) ==
    /\ ~pins[i].ready
    /\ UNCHANGED <<connection, made, destroyed, presence, pinnings, chatting, posted, painted,
                   missed, refused>>
    /\ pins' = [pins EXCEPT ![i] = Asking([@ EXCEPT !.ready = TRUE])]

\* The account has a new connection.
onContactConnectionChanged ==
    /\ connection = 0 /\ made < MaxConnections
    /\ \A n \in DOMAIN posted : posted[n].event # "invalidated"
    /\ made' = made + 1 /\ connection' = made'
    /\ refused' = {}
    /\ pins' = [i \in DOMAIN pins |-> IF pins[i].ready THEN Asking(pins[i]) ELSE pins[i]]
    /\ UNCHANGED <<destroyed, presence, pinnings, chatting, posted, painted, missed>>

\* The connection manager answers; the result is queued.  Without a contact of
\* that name, or when the connection went away, nothing comes of it.
ContactsAnswered(i) ==
    /\ pins[i].asked # 0
    /\ \/ /\ pins[i].asked = connection
          /\ posted' = Append(posted, [event |-> "contacts", number |-> pins[i].number, of |-> connection])
          /\ UNCHANGED refused
       \/ /\ UNCHANGED posted
          /\ refused' = refused \cup {pins[i].id}
    /\ pins' = [pins EXCEPT ![i].asked = 0]
    /\ UNCHANGED <<connection, made, destroyed, presence, pinnings, chatting, painted, missed>>

NextPosted(event) == posted # <<>> /\ Head(posted).event = event /\ posted' = Tail(posted)

\* The contact is replaced; the model follows its presence and repaints its row.  A
\* persistent contact that was unpinned meanwhile is deleted and gets no result.
onPendingContactsFinished ==
    /\ NextPosted("contacts")
    /\ LET e == Head(posted)
       IN /\ pins' = [i \in DOMAIN pins |->
                        IF pins[i].number = e.number
                        THEN [pins[i] EXCEPT !.contact = e.of, !.linked = @ \cup {e.of}]
                        ELSE pins[i]]
          /\ UNCHANGED <<connection, made, destroyed, presence, pinnings, chatting, refused>>
          /\ dataChanged({pins[i].id : i \in {j \in DOMAIN pins : pins[j].number = e.number}})

\* Mutant: only the contact of a connection is dropped that is in use.
DropContactsCurrent(n) ==
    [i \in DOMAIN pins |->
        IF n = connection /\ n \in pins[i].linked
        THEN [pins[i] EXCEPT !.contact = 0] ELSE pins[i]]

\* A contact object of connection n says that it is invalid.
DropContacts(n) ==
    [i \in DOMAIN pins |->
        IF n \in pins[i].linked THEN [pins[i] EXCEPT !.contact = 0] ELSE pins[i]]

\* Then there is no contact to announce a row for: dataChanged of an invalid index.
onContactInvalid(n) ==
    /\ pins' = DropContacts(n)
    /\ missed' = missed \cup {pins[i].id : i \in {j \in DOMAIN pins : pins'[j] # pins[j]}}
    /\ UNCHANGED <<connection, made, presence, pinnings, chatting, painted>>

ConnectionLost ==
    /\ connection # 0
    /\ connection' = 0
    /\ presence' = {}
    /\ missed' = missed \cup {pins[i].id : i \in DOMAIN pins}
    /\ posted' = Append(posted, [event |-> "invalidated", of |-> connection])
    /\ UNCHANGED <<made, destroyed, pins, pinnings, chatting, painted, refused>>

ConnectionInvalidated ==
    /\ NextPosted("invalidated")
    /\ onContactInvalid(Head(posted).of)
    /\ UNCHANGED <<destroyed, refused>>

\* The object of an old connection is deleted once nobody holds it, which may be
\* after the next one was made: its contacts say again that they are invalid.
ConnectionDestroyed(n) ==
    /\ n # connection /\ n \notin destroyed
    /\ \A k \in DOMAIN posted : posted[k].event # "invalidated"
    /\ destroyed' = destroyed \cup {n}
    /\ onContactInvalid(n)
    /\ refused' = refused \cup {pins[i].id : i \in {j \in DOMAIN pins : pins'[j] # pins[j]}}
    /\ UNCHANGED posted

-----------------------------------------------------------------------------
(* PinnedContactsModel.                                                    *)

\* A pin for a contact that has none yet.  Its row starts without a contact.
appendContactPin(p) ==
    /\ p \notin Pinned
    /\ pins' = Append(pins, NewPin(p, pinnings + 1))
    /\ painted' = [painted EXCEPT ![p] = FALSE]
    /\ missed' = missed \ {p} /\ refused' = refused \ {p}

removeContactPin(i) ==
    /\ pins' = RemoveAt(pins, i)
    /\ painted' = [painted EXCEPT ![pins[i].id] = FALSE]
    /\ UNCHANGED <<missed, refused>>

\* ContactPin::toggle and setPinning.
toggle(p) ==
    /\ \/ /\ pinnings < MaxPinnings /\ pinnings' = pinnings + 1
          /\ appendContactPin(p)
       \/ /\ \E i \in DOMAIN pins : pins[i].id = p /\ removeContactPin(i)
          /\ UNCHANGED pinnings
    /\ UNCHANGED <<connection, made, destroyed, presence, chatting, posted>>

\* The program is started again and setState is given the state of the last time:
\* the first pin, as often as there were pins.
Restart ==
    /\ Len(pins) > 1
    /\ pins' = <<NewPin(pins[1].id, pins[1].number)>>
    /\ connection' = 0 /\ destroyed' = 1 .. made /\ presence' = {} /\ chatting' = {}
    /\ posted' = <<>>
    /\ painted' = [p \in People |-> FALSE] /\ missed' = {} /\ refused' = {}
    /\ UNCHANGED <<made, pinnings>>

\* The contact's presence changes: contactDataChanged, if its pin follows it.
PresenceChanges(p) ==
    /\ connection # 0
    /\ presence' = IF p \in presence THEN presence \ {p} ELSE presence \cup {p}
    /\ UNCHANGED <<connection, made, destroyed, pins, pinnings, chatting, posted, refused>>
    /\ dataChanged(IF \E i \in DOMAIN pins : pins[i].id = p /\ pins[i].contact = connection
                   THEN {p} ELSE {})

\* A conversation with the contact begins or ends: its row, if it has a contact, is
\* repainted from the event loop, by its number.
conversationsStateChanged(p) ==
    /\ Len(posted) < MaxPosted
    /\ chatting' = IF p \in chatting THEN chatting \ {p} ELSE chatting \cup {p}
    /\ LET rows == {i \in DOMAIN pins : pins[i].id = p}
           found == {i \in rows : pins[i].contact # 0}
       IN /\ posted' = IF found = {} THEN posted
                       ELSE Append(posted, [event |-> "dataChanged", id |-> p,
                                            row |-> CHOOSE i \in found : TRUE])
          /\ missed' = IF found = {} THEN missed \cup {pins[i].id : i \in rows} ELSE missed
    /\ UNCHANGED <<connection, made, destroyed, presence, pins, pinnings, painted, refused>>

RowRepainted ==
    /\ NextPosted("dataChanged")
    /\ UNCHANGED <<connection, made, destroyed, presence, pins, pinnings, chatting, refused>>
    /\ LET e == Head(posted)
       IN IF e.row \in DOMAIN pins /\ pins[e.row].id = e.id
          THEN dataChanged({e.id})
          ELSE /\ painted' = [p \in People |->
                    IF e.row \in DOMAIN pins /\ pins[e.row].id = p
                    THEN Accepts(pins[e.row]) ELSE painted[p]]
               /\ missed' = missed \cup {e.id}

PinsNext ==
    \/ \E i \in 1 .. Len(pins) : onAccountReady(i) \/ ContactsAnswered(i)
    \/ onContactConnectionChanged \/ ConnectionLost
    \/ onPendingContactsFinished \/ ConnectionInvalidated \/ RowRepainted
    \/ \E n \in 1 .. made : ConnectionDestroyed(n)
    \/ \E p \in People : toggle(p) \/ PresenceChanges(p) \/ conversationsStateChanged(p)
    \/ Restart

-----------------------------------------------------------------------------
(* Properties.                                                             *)

Awaited(i) == \E n \in DOMAIN posted : posted[n].event = "contacts" /\ posted[n].number = pins[i].number

\* A persistent contact has the contact object of the current connection, never one
\* of an earlier connection, once its account is ready and the answers and signals
\* were delivered; unless the contact was not found, or an old connection was
\* deleted only after the new one was made.
ContactIsCurrent ==
    \A i \in DOMAIN pins :
        /\ (\A n \in DOMAIN posted : posted[n].event # "invalidated") =>
               pins[i].contact \in {0, connection}
        /\ connection # 0 /\ pins[i].ready /\ pins[i].asked = 0 /\ ~Awaited(i)
               /\ pins[i].id \notin refused =>
               pins[i].contact = connection

\* The filtered list shows exactly the pins that are available and have no
\* conversation, however presence, conversations and rows changed; except for rows
\* that could not be announced: those that lost their contact, and those that
\* moved while their repaint was in the queue.
FilterIsCurrent ==
    \A i \in DOMAIN pins :
        LET p == pins[i].id
        IN p \notin missed /\ (\A n \in DOMAIN posted : posted[n].event # "dataChanged") =>
               painted[p] = (pins[i].contact # 0 /\ p \in presence /\ p \notin chatting)

\* A pin has the contact that is there now, and the filtered list shows it by that.
PinsCurrent == ContactIsCurrent /\ FilterIsCurrent
=============================================================================
