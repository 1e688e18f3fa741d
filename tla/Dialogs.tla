------------------------------ MODULE Dialogs ------------------------------
(***************************************************************************)
(* The dialogs that add a contact, start a chat and join a room: each has  *)
(* a list of accounts that follows their connections, and one request      *)
(* under way while it is disabled.                                         *)
(*                                                                         *)
(* To add a contact needs the roster of the connection.  It is not ready     *)
(* by itself, so the dialog asks for those of the connections that are up  *)
(* when it opens, and tells the list when they are.                        *)
(***************************************************************************)
EXTENDS Integers

CONSTANTS
    DialogAccounts,
    Capable,            \* accounts that take subscriptions, or have chat rooms
    DialogRooms,        \* favourite rooms, which all accounts share
    MaxLinks,           \* bound: connections of an account
    MaxAccepts          \* bound: requests

NoAccount == "no account"
NoRoom == "no room"

ASSUME DialogAssumption ==
    /\ Capable \subseteq DialogAccounts /\ NoAccount \notin DialogAccounts
    /\ MaxLinks \in Nat \ {0} /\ MaxAccepts \in Nat

VARIABLES
    dialog,             \* "add", "start" or "join"
    connectionOf, timesConnected,   \* account |-> its connection, 0 for none; how many it had
    rosterReady, upgrading,     \* <<account, connection>>
    offered, selected,  \* accounts of the combo box, and its current one
    acceptInProgress, accepts,
    request,            \* "none", "lookup", its answer "found" or "failed", or "send"
    target, reached,    \* <<account, connection>> of the lookup and of what was sent
    closed,             \* "no", "cancelled", "accepted" or "crashed"
    roomText, currentRow,       \* of the room that is typed, and of the favourites
    clickedRoom, joinedRoom,
    stuck, moved, retyped       \* history: a lookup brought no contact; the current account
                                \* changed during a request; the text after the row

accountVars == <<connectionOf, timesConnected, rosterReady, upgrading>>
typedVars == <<roomText, currentRow, clickedRoom, joinedRoom, retyped>>
requestVars == <<acceptInProgress, accepts, request, target, reached, closed, stuck>>
dialogVars == <<dialog, accountVars, offered, selected, requestVars, typedVars, moved>>

Nowhere == <<NoAccount, 0>>
Up(l) == {<<a, l[a]>> : a \in {b \in DialogAccounts : l[b] # 0}}

\* Whether a connection takes requests for subscriptions is known from its roster.
Subscribable(a, c, rosters) == <<a, c>> \in rosters /\ a \in Capable

\* The filter of the account set: a chat can be started from all accounts that are online.
Matches(a, l, rosters) ==
    /\ l[a] # 0
    /\ dialog = "add" => Subscribable(a, l[a], rosters)
    /\ dialog = "join" => a \in Capable

DialogInit ==
    /\ dialog \in {"add", "start", "join"}
    /\ connectionOf \in [DialogAccounts -> {0, 1}] /\ timesConnected = connectionOf
    /\ rosterReady \in SUBSET Up(connectionOf)
    /\ upgrading = IF dialog = "add" THEN Up(connectionOf) ELSE {}
    /\ offered = {a \in DialogAccounts : Matches(a, connectionOf, rosterReady)}
    /\ selected \in IF offered = {} THEN {NoAccount} ELSE offered
    /\ acceptInProgress = FALSE /\ accepts = 0 /\ request = "none" /\ closed = "no"
    /\ target = Nowhere /\ reached = Nowhere
    /\ roomText = NoRoom /\ currentRow = NoRoom /\ clickedRoom = NoRoom /\ joinedRoom = NoRoom
    /\ stuck = FALSE /\ moved = FALSE /\ retyped = FALSE

-----------------------------------------------------------------------------
(* The accounts.                                                           *)

\* A property of an account changed: the set filters it again, and its row comes or goes.
\* A combo box whose current row goes takes another.
PropertyChange(a) ==
    /\ offered' = IF Matches(a, connectionOf', rosterReady') THEN offered \cup {a}
                  ELSE offered \ {a}
    /\ selected' \in IF selected \in offered' THEN {selected}
                     ELSE IF offered' = {} THEN {NoAccount} ELSE offered'
    /\ moved' = (moved \/ (acceptInProgress /\ selected' # selected))

Connects(a) ==
    /\ connectionOf[a] = 0 /\ timesConnected[a] < MaxLinks
    /\ timesConnected' = [timesConnected EXCEPT ![a] = @ + 1]
    /\ connectionOf' = [connectionOf EXCEPT ![a] = timesConnected'[a]]
    /\ UNCHANGED <<rosterReady, upgrading>>
    /\ PropertyChange(a)
    /\ UNCHANGED <<dialog, requestVars, typedVars>>

Disconnects(a) ==
    /\ connectionOf[a] # 0 /\ connectionOf' = [connectionOf EXCEPT ![a] = 0]
    /\ UNCHANGED <<timesConnected, rosterReady, upgrading>>
    /\ PropertyChange(a)
    /\ UNCHANGED <<dialog, requestVars, typedVars>>

\* The operation that makes a roster ready has ended, perhaps after its connection.
onAccountUpgraded(a, n, error) ==
    /\ <<a, n>> \in upgrading /\ upgrading' = upgrading \ {<<a, n>>}
    /\ error \/ connectionOf[a] = n
    /\ rosterReady' = IF error THEN rosterReady ELSE rosterReady \cup {<<a, n>>}
    /\ UNCHANGED <<connectionOf, timesConnected>>
    /\ PropertyChange(a)
    /\ UNCHANGED <<dialog, requestVars, typedVars>>

SelectAccount(a) ==
    /\ ~acceptInProgress /\ closed = "no"
    /\ a \in offered /\ selected' = a
    /\ UNCHANGED <<dialog, accountVars, offered, requestVars, typedVars, moved>>

-----------------------------------------------------------------------------
(* The requests.                                                           *)

setInProgress(inProgress) == acceptInProgress' = inProgress

IsUp(c) == connectionOf[c[1]] = c[2]

\* OK.  What is wrong with the account or the text is told to the user, and nothing else
\* happens.
lookUpContact ==
    /\ ~acceptInProgress /\ closed = "no"
    /\ accepts < MaxAccepts /\ accepts' = accepts + 1
    /\ selected # NoAccount
    /\ target' = <<selected, connectionOf[selected]>>
    /\ request' = "lookup" /\ setInProgress(TRUE)
    /\ moved' = FALSE
    /\ UNCHANGED <<dialog, accountVars, offered, selected, reached, closed, stuck, typedVars>>

AddContactAccept == dialog = "add" /\ lookUpContact

StartChatAccept == dialog = "start" /\ lookUpContact

closeEvent ==
    /\ ~acceptInProgress /\ closed = "no" /\ closed' = "cancelled"
    /\ UNCHANGED <<dialog, accountVars, offered, selected, acceptInProgress, accepts, request,
                   target, reached, stuck, typedVars, moved>>

\* The answer is told to the dialog some time later.
LookupAnswered(answer) ==
    /\ request = "lookup" /\ request' = answer
    /\ answer = "found" => IsUp(target)
    /\ UNCHANGED <<dialog, accountVars, offered, selected, acceptInProgress, accepts, target,
                   reached, closed, stuck, typedVars, moved>>

\* The request for a subscription goes to the connection of the lookup.
onContactsForIdentifiersFinished ==
    /\ dialog = "add" /\ request \in {"found", "failed"}
    /\ IF request = "failed"
       THEN request' = "none" /\ setInProgress(FALSE) /\ UNCHANGED reached
       ELSE request' = "send" /\ reached' = target /\ UNCHANGED acceptInProgress
    /\ UNCHANGED <<dialog, accountVars, offered, selected, accepts, target, closed, stuck,
                   typedVars, moved>>

\* The chat is started with the account that is current now.  A lookup that brings no
\* contact leaves the dialog disabled.
onPendingContactFinished ==
    /\ dialog = "start"
    /\ \/ /\ request = "failed"
          /\ request' = "none" /\ stuck' = TRUE /\ UNCHANGED <<reached, closed>>
       \/ /\ request = "found" /\ selected # NoAccount
          /\ request' = "send" /\ reached' = <<selected, connectionOf[selected]>>
          /\ UNCHANGED <<stuck, closed>>
       \/ /\ request = "found" /\ selected = NoAccount
          /\ request' = "none" /\ closed' = "crashed" /\ UNCHANGED <<reached, stuck>>
    /\ UNCHANGED <<dialog, accountVars, offered, selected, acceptInProgress, accepts, target,
                   typedVars, moved>>

requestFinished(error) ==
    /\ request = "send" /\ request' = "none"
    /\ closed' = IF error THEN closed ELSE "accepted"
    /\ UNCHANGED <<dialog, accountVars, offered, selected, accepts, target, reached, stuck,
                   typedVars, moved>>

\* Mutant: the dialog stays disabled after an error.
onRequestPresenceSubscriptionFinishedDisabled(error) ==
    /\ dialog = "add" /\ requestFinished(error)
    /\ UNCHANGED acceptInProgress

onRequestPresenceSubscriptionFinished(error) ==
    /\ dialog = "add" /\ requestFinished(error)
    /\ setInProgress(~error)

_k_onStartChatFinished(error) ==
    /\ dialog = "start" /\ requestFinished(error)
    /\ setInProgress(~error)

onJoinFinished(error) ==
    /\ dialog = "join" /\ requestFinished(error)
    /\ setInProgress(FALSE)

-----------------------------------------------------------------------------
(* Rooms.                                                                  *)

\* A row that is current already does not set the text again.
CurrentRow(room) ==
    /\ currentRow' = room
    /\ IF currentRow = room THEN UNCHANGED <<roomText, retyped>>
       ELSE roomText' = room /\ retyped' = FALSE

joinRoom ==
    /\ dialog = "join" /\ ~acceptInProgress /\ closed = "no"
    /\ accepts < MaxAccepts /\ accepts' = accepts + 1
    /\ selected # NoAccount
    /\ setInProgress(TRUE) /\ request' = "send"
    /\ target' = <<selected, connectionOf[selected]>> /\ reached' = target'
    /\ joinedRoom' = roomText' /\ moved' = FALSE
    /\ UNCHANGED <<dialog, accountVars, offered, selected, closed, stuck>>

\* The button is enabled when there is a text.
JoinByButton ==
    /\ roomText # NoRoom /\ clickedRoom' = roomText
    /\ UNCHANGED <<roomText, currentRow, retyped>> /\ joinRoom

JoinByDoubleClick(room) == clickedRoom' = room /\ CurrentRow(room) /\ joinRoom

ClickRow(room) ==
    /\ dialog = "join" /\ ~acceptInProgress /\ closed = "no"
    /\ CurrentRow(room)
    /\ UNCHANGED <<dialog, accountVars, offered, selected, requestVars, clickedRoom, joinedRoom,
                   moved>>

\* Typed, or taken from the list of rooms that a query found.
TextChanged(room) ==
    /\ dialog = "join" /\ ~acceptInProgress /\ closed = "no"
    /\ roomText' = room /\ roomText # room /\ retyped' = TRUE
    /\ UNCHANGED <<dialog, accountVars, offered, selected, requestVars, currentRow, clickedRoom,
                   joinedRoom, moved>>

DialogNext ==
    \/ \E a \in DialogAccounts :
         \/ Connects(a) \/ Disconnects(a) \/ SelectAccount(a)
         \/ \E n \in 1 .. MaxLinks, error \in BOOLEAN : onAccountUpgraded(a, n, error)
    \/ AddContactAccept \/ StartChatAccept \/ closeEvent
    \/ onContactsForIdentifiersFinished \/ onPendingContactFinished
    \/ \E answer \in {"found", "failed"} : LookupAnswered(answer)
    \/ \E error \in BOOLEAN : \/ onRequestPresenceSubscriptionFinished(error)
                              \/ _k_onStartChatFinished(error) \/ onJoinFinished(error)
    \/ JoinByButton
    \/ \E room \in DialogRooms :
         JoinByDoubleClick(room) \/ ClickRow(room) \/ TextChanged(room)

-----------------------------------------------------------------------------
(* Properties.                                                             *)

\* The combo box has the accounts that the dialog can use now, also when connections come
\* and go while rosters are made ready; one of them is current if there is any.
AccountsOffered ==
    /\ offered = {a \in DialogAccounts : Matches(a, connectionOf, rosterReady)}
    /\ IF offered = {} THEN selected = NoAccount ELSE selected \in offered

\* A dialog is disabled exactly while its request is under way, unless a chat's contact
\* was not found, and cannot be cancelled then; it closes when the account that was current
\* at the OK has done what was asked, unless another became current meanwhile; and the room
\* joined is the one that was clicked, unless the text was changed after its row became
\* current.
DialogsServe ==
    /\ AccountsOffered
    /\ closed = "no" => (acceptInProgress <=> request # "none") \/ stuck
    /\ closed = "cancelled" => request = "none"
    /\ closed = "accepted" => moved \/ (reached = target /\ (retyped \/ joinedRoom = clickedRoom))
=============================================================================
