------------------------------- MODULE Avatars -------------------------------
(***************************************************************************)
(* The avatars of contacts (KTp::Contact).  Pixmaps are kept in one cache  *)
(* of the process under the contact's id and whether it is offline, and    *)
(* are dropped when the contact's token or avatar changes.  A contact      *)
(* without a connection counts as offline; when its account connects again *)
(* there is a new Contact, which knows no avatar yet.                      *)
(*                                                                         *)
(* An avatar is a version, 0 if there is none.                             *)
(***************************************************************************)
EXTENDS Integers, FiniteSets

CONSTANTS
    AvatarContacts,     \* contacts, each of an account of its own
    IdOf,               \* their ids
    StoredTokens,       \* values: the version that the token file has for each id
    MaxVersion          \* bound: versions of an avatar

ASSUME AvatarsAssumption == MaxVersion \in Nat

VARIABLES
    avatarToken,        \* storedToken: id -> version; read only
    connectionAlive,    \* contacts whose connection exists
    avatarOnline,       \* contacts with a presence other than offline
    avatarData,         \* version of the file that the contact object knows
    savedAvatars,       \* versions whose file Telepathy keeps, for each contact
    pixmapCache         \* key -> version, 0 if the key is not there

avatarVars == <<avatarToken, connectionAlive, avatarOnline, avatarData, savedAvatars, pixmapCache>>

Keys == {IdOf[k] : k \in AvatarContacts} \X {"online", "offline"}

AvatarsInit ==
    /\ avatarToken \in StoredTokens
    /\ connectionAlive = AvatarContacts /\ avatarOnline = {}
    /\ avatarData = [k \in AvatarContacts |-> 0]
    /\ savedAvatars = [k \in AvatarContacts |-> {}]
    /\ pixmapCache = [key \in Keys |-> 0]

presenceType(k) == IF k \in connectionAlive \cap avatarOnline THEN "online" ELSE "offline"

keyCache(k) == <<IdOf[k], presenceType(k)>>

\* The file, or the one of the stored token; its path needs the connection.
Loaded(k) ==
    IF avatarData[k] # 0 THEN avatarData[k]
    ELSE IF k \in connectionAlive /\ avatarToken[IdOf[k]] \in savedAvatars[k]
         THEN avatarToken[IdOf[k]]
    ELSE 0

Pixmap(k) == IF pixmapCache[keyCache(k)] # 0 THEN pixmapCache[keyCache(k)] ELSE Loaded(k)

avatarPixmap(k) ==
    /\ pixmapCache' = [pixmapCache EXCEPT ![keyCache(k)] = Pixmap(k)]
    /\ UNCHANGED <<avatarToken, connectionAlive, avatarOnline, avatarData, savedAvatars>>

\* Mutant: only the pixmap in use is dropped.
invalidateCurrent(k) == pixmapCache' = [pixmapCache EXCEPT ![keyCache(k)] = 0]

invalidateAvatarCache(k) ==
    pixmapCache' = [pixmapCache EXCEPT ![<<IdOf[k], "online">>] = 0, ![<<IdOf[k], "offline">>] = 0]

avatarTokenChanged(k) ==
    /\ k \in connectionAlive
    /\ invalidateAvatarCache(k)
    /\ UNCHANGED <<avatarToken, connectionAlive, avatarOnline, avatarData, savedAvatars>>

avatarDataChanged(k, version) ==
    /\ k \in connectionAlive /\ version # avatarData[k]
    /\ avatarData' = [avatarData EXCEPT ![k] = version]
    /\ savedAvatars' = [savedAvatars EXCEPT ![k] = @ \cup ({version} \ {0})]
    /\ invalidateAvatarCache(k)
    /\ UNCHANGED <<avatarToken, connectionAlive, avatarOnline>>

PresenceTurns(k) ==
    /\ k \in connectionAlive
    /\ avatarOnline' = IF k \in avatarOnline THEN avatarOnline \ {k} ELSE avatarOnline \cup {k}
    /\ UNCHANGED <<avatarToken, connectionAlive, avatarData, savedAvatars, pixmapCache>>

ConnectionEnds(k) ==
    /\ k \in connectionAlive
    /\ connectionAlive' = connectionAlive \ {k}
    /\ UNCHANGED <<avatarToken, avatarOnline, avatarData, savedAvatars, pixmapCache>>

\* Another Contact for the same id.
NewContact(k) ==
    /\ k \notin connectionAlive
    /\ connectionAlive' = connectionAlive \cup {k}
    /\ avatarOnline' = avatarOnline \ {k}
    /\ avatarData' = [avatarData EXCEPT ![k] = 0]
    /\ UNCHANGED <<avatarToken, savedAvatars, pixmapCache>>

\* QPixmapCache is limited.
Evicted(key) ==
    /\ pixmapCache[key] # 0
    /\ pixmapCache' = [pixmapCache EXCEPT ![key] = 0]
    /\ UNCHANGED <<avatarToken, connectionAlive, avatarOnline, avatarData, savedAvatars>>

AvatarsNext ==
    \/ \E k \in AvatarContacts :
         \/ avatarPixmap(k) \/ avatarTokenChanged(k) \/ PresenceTurns(k) \/ ConnectionEnds(k)
         \/ NewContact(k)
         \/ \E version \in 0 .. MaxVersion : avatarDataChanged(k, version)
    \/ \E key \in Keys : Evicted(key)

-----------------------------------------------------------------------------
(* Properties.                                                             *)

\* A contact that has an avatar is shown with it, not with what was cached before it
\* changed, went offline or connected again.  Contacts of two accounts with the same
\* id share their cached pixmaps, and are exempt.
AvatarsAreCurrent ==
    \A k \in AvatarContacts :
        avatarData[k] # 0 /\ (\A other \in AvatarContacts \ {k} : IdOf[other] # IdOf[k])
            => Pixmap(k) = avatarData[k]
=============================================================================
