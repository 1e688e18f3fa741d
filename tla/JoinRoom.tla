------------------------------ MODULE JoinRoom ------------------------------
(***************************************************************************)
(* KTp::JoinChatRoomDialog: the query for the rooms of a server, one button*)
(* that starts and stops it, and the favourite and recent rooms, which are *)
(* rows of a model and two groups of the configuration.                    *)
(*                                                                         *)
(* The button's clicked signal is connected and disconnected as queries run*)
(* and its connections are counted: each of them calls its slot.           *)
(***************************************************************************)
EXTENDS Integers, FiniteSets, FiniteSetsExt

CONSTANTS
    MaxQueries,         \* bound: room list channels that are requested
    Rooms,              \* keys: the name of a room with its account
    MaxRoomChanges      \* bound: changes of favourite and recent rooms

ASSUME RoomAssumption == MaxQueries \in Nat /\ MaxRoomChanges \in Nat

QueryIds == 1 .. MaxQueries

VARIABLES
    queryState,         \* of each query and its channel
    pendingRoomListChannel, roomListChannel,    \* queries, 0 for none
    startsQuery, stopsQuery,    \* connections of clicked to getRoomList, stopListing
    foundRooms,         \* queries whose rooms are shown
    unqueryable,        \* a slot used the operation of a query that has no channel
    overlapped,         \* history: a query was started before another had ended
    broken,             \* history: a channel was lost, or could not be closed
    roomRows,           \* room |-> "bookmarked", "plain" or "absent"
    favoriteRoomsGroup, recentRoomsGroup,       \* keys in the configuration
    roomChanges,        \* so far
    renamed             \* history: rooms that are the new or old name of a renamed row

queryVars == <<queryState, pendingRoomListChannel, roomListChannel, startsQuery, stopsQuery,
               foundRooms, unqueryable, overlapped, broken>>
roomVars == <<roomRows, favoriteRoomsGroup, recentRoomsGroup, roomChanges, renamed>>
joinVars == <<queryVars, roomVars>>

\* loadFavoriteRooms.
Row(key, favorites, recents) ==
    CASE key \in favorites -> "bookmarked" [] key \in recents -> "plain" [] OTHER -> "absent"

JoinInit ==
    /\ queryState = [q \in QueryIds |-> "new"]
    /\ pendingRoomListChannel = 0 /\ roomListChannel = 0
    /\ startsQuery = 1 /\ stopsQuery = 0 /\ foundRooms = {}
    /\ unqueryable = FALSE /\ overlapped = FALSE /\ broken = FALSE
    /\ favoriteRoomsGroup \in SUBSET Rooms /\ recentRoomsGroup \in SUBSET Rooms
    /\ favoriteRoomsGroup \cap recentRoomsGroup = {}
    /\ roomRows = [k \in Rooms |-> Row(k, favoriteRoomsGroup, recentRoomsGroup)]
    /\ roomChanges = 0 /\ renamed = {}

-----------------------------------------------------------------------------
(* The query.                                                              *)

Ended == {"new", "failed", "closed"}
UnderWay == {q \in QueryIds : queryState[q] \notin Ended}

Moves(q, from, to) == queryState[q] \in from /\ queryState' = [queryState EXCEPT ![q] = to]

clearRoomInfoList == foundRooms' = {}

\* A click calls the slot once for each connection; Return in the server's field calls
\* it once.
getRoomList(times) ==
    /\ Cardinality({q \in QueryIds : queryState[q] = "new"}) >= times /\ times > 0
    /\ LET first == Min({q \in QueryIds : queryState[q] = "new"})
           new == first .. first + times - 1
       IN /\ queryState' = [q \in QueryIds |-> IF q \in new THEN "requested" ELSE queryState[q]]
          /\ clearRoomInfoList
          /\ pendingRoomListChannel' = Max(new)
    /\ overlapped' = (overlapped \/ UnderWay # {} \/ times > 1)
    /\ UNCHANGED <<roomListChannel, startsQuery, stopsQuery, unqueryable, broken, roomVars>>

\* The channel is that of the query that was requested last, whichever is answered.  The
\* operation of that one may have no channel yet, or have failed and be deleted.
onRoomListChannelReadyForHandling(q, error) ==
    /\ Moves(q, {"requested"}, IF error THEN "failed" ELSE "opened")
    /\ roomListChannel' = IF error THEN roomListChannel ELSE pendingRoomListChannel
    /\ unqueryable' = (~error /\ queryState'[pendingRoomListChannel] \in {"requested", "failed"})
    /\ UNCHANGED <<foundRooms, pendingRoomListChannel, startsQuery, stopsQuery, overlapped,
                   broken, roomVars>>

\* ListRooms is called on roomListChannel.
onRoomListChannelReady(q, error) ==
    /\ queryState[q] = "opened"
    /\ queryState' = IF error THEN [queryState EXCEPT ![q] = "failed"]
                     ELSE [queryState EXCEPT ![q] = "failed", ![roomListChannel] = "asked"]
    /\ UNCHANGED <<foundRooms, pendingRoomListChannel, roomListChannel, startsQuery, stopsQuery,
                   unqueryable, overlapped, broken, roomVars>>

onListingStarted(q) ==
    /\ Moves(q, {"asked"}, "listing")
    /\ startsQuery' = 0 /\ stopsQuery' = stopsQuery + 1
    /\ UNCHANGED <<foundRooms, pendingRoomListChannel, roomListChannel, unqueryable, overlapped,
                   broken, roomVars>>

\* At the end of the list, or after stopListing; the channel that is closed is
\* roomListChannel.
onListingEnded(q) ==
    /\ queryState[q] = "listing"
    /\ queryState' = [queryState EXCEPT ![q] = "listed", ![roomListChannel] = "closing"]
    /\ UNCHANGED <<foundRooms, pendingRoomListChannel, roomListChannel, startsQuery, stopsQuery,
                   unqueryable, overlapped, broken, roomVars>>

\* Mutant: the button still stops the query.
StartsAgainToo == startsQuery' = startsQuery + 1 /\ UNCHANGED stopsQuery

StartsAgain == startsQuery' = startsQuery + 1 /\ stopsQuery' = 0

onRoomListChannelClosed(q, error) ==
    /\ Moves(q, {"closing"}, "closed")
    /\ IF error THEN UNCHANGED <<startsQuery, stopsQuery>> ELSE StartsAgain
    /\ broken' = (broken \/ error)
    /\ UNCHANGED <<foundRooms, pendingRoomListChannel, roomListChannel, unqueryable, overlapped, roomVars>>

\* The connection or its manager goes away; the dialog is told only of what it waits for.
ChannelLost(q) ==
    /\ Moves(q, {"opened", "asked", "listing"}, "closed")
    /\ broken' = TRUE
    /\ UNCHANGED <<foundRooms, pendingRoomListChannel, roomListChannel, startsQuery, stopsQuery,
                   unqueryable, overlapped, roomVars>>

\* GotRooms, also while the query is being stopped.
onGotRooms(q) ==
    /\ queryState[q] = "listing" /\ q \notin foundRooms
    /\ foundRooms' = foundRooms \cup {q}
    /\ UNCHANGED <<queryState, pendingRoomListChannel, roomListChannel, startsQuery, stopsQuery,
                   unqueryable, overlapped, broken, roomVars>>

QueryStep ==
    \/ getRoomList(startsQuery) \/ getRoomList(1)
    \/ \E q \in QueryIds :
         \/ \E error \in BOOLEAN : \/ onRoomListChannelReadyForHandling(q, error)
                                   \/ onRoomListChannelReady(q, error)
                                   \/ onRoomListChannelClosed(q, error)
         \/ onListingStarted(q) \/ onListingEnded(q) \/ onGotRooms(q)
         \/ ChannelLost(q)

-----------------------------------------------------------------------------
(* The rooms.                                                              *)

RoomChange == roomChanges < MaxRoomChanges /\ roomChanges' = roomChanges + 1 /\ UNCHANGED queryVars

onFavoriteRoomDataChanged(key, bookmarked) ==
    IF bookmarked
    THEN /\ recentRoomsGroup' = recentRoomsGroup \ {key}
         /\ favoriteRoomsGroup' = favoriteRoomsGroup \cup {key}
    ELSE /\ favoriteRoomsGroup' = favoriteRoomsGroup \ {key}
         /\ recentRoomsGroup' = recentRoomsGroup \cup {key}

\* setData of the bookmark's column.
Bookmark(key, bookmarked) ==
    /\ RoomChange
    /\ roomRows[key] # "absent"
    /\ roomRows' = [roomRows EXCEPT ![key] = IF bookmarked THEN "bookmarked" ELSE "plain"]
    /\ onFavoriteRoomDataChanged(key, bookmarked)
    /\ UNCHANGED renamed

\* setData of the name's column, which has no check state: the row keeps its bookmark,
\* and is saved without one under its new name and as it was under the old one.
Rename(key, new) ==
    /\ RoomChange
    /\ roomRows[key] # "absent" /\ roomRows[new] = "absent"
    /\ roomRows' = [roomRows EXCEPT ![key] = "absent", ![new] = roomRows[key]]
    /\ onFavoriteRoomDataChanged(new, FALSE)
    /\ renamed' = renamed \cup {key, new}

\* The rows do not change: after the room is joined the dialog closes.
addRecentRoom(key) ==
    /\ RoomChange
    /\ recentRoomsGroup' = IF key \in favoriteRoomsGroup THEN recentRoomsGroup
                           ELSE recentRoomsGroup \cup {key}
    /\ UNCHANGED <<roomRows, favoriteRoomsGroup, renamed>>

\* The recent rooms of all accounts, although one is selected.
clearRecentRooms ==
    /\ RoomChange
    /\ recentRoomsGroup' = {}
    /\ roomRows' = [k \in Rooms |-> Row(k, favoriteRoomsGroup, {})]
    /\ UNCHANGED <<favoriteRoomsGroup, renamed>>

RoomStep ==
    \/ \E key \in Rooms : \/ addRecentRoom(key)
                          \/ \E b \in BOOLEAN : Bookmark(key, b)
                          \/ \E new \in Rooms : Rename(key, new)
    \/ clearRecentRooms

JoinNext == ~unqueryable /\ (QueryStep \/ RoomStep)

-----------------------------------------------------------------------------
(* Properties.                                                             *)

\* When no query is under way, a click on the button starts exactly one and stops none,
\* and while rooms are listed it stops it, after any number of queries that failed, ended
\* or were stopped; and the rooms shown are those of the last query; unless two overlapped
\* or a channel was lost.
QueryButtonWorks ==
    ~overlapped /\ ~broken =>
      /\ foundRooms \subseteq {pendingRoomListChannel}
      /\ UnderWay = {} => startsQuery = 1 /\ stopsQuery = 0
      /\ \A q \in QueryIds : queryState[q] = "listing" => startsQuery = 0 /\ stopsQuery = 1

\* No room is both a favourite and a recent one, and each row is saved as it is shown,
\* except where a row was renamed.
RoomsRemembered ==
    \A k \in Rooms \ renamed :
        /\ ~(k \in favoriteRoomsGroup /\ k \in recentRoomsGroup)
        /\ roomRows[k] # "absent" => roomRows[k] = Row(k, favoriteRoomsGroup, recentRoomsGroup)

\* The dialog's button does what it says, and its rooms are those that were saved.
JoinDialogWorks == QueryButtonWorks /\ RoomsRemembered
=============================================================================
