----------------------------- MODULE OtrSession -----------------------------
(***************************************************************************)
(* Trust in the OTR proxy: OTR::Session (one per open channel), the        *)
(* fingerprint store of OTR::Manager with its file on disk, and the trust  *)
(* level each chat client was last told.  All contacts belong to one       *)
(* account, hence to one libotr user state.                                *)
(*                                                                         *)
(* libotr is external: it completes key exchanges, ends conversations and  *)
(* concludes the Socialist Millionaires' Protocol (SMP), and calls back.   *)
(* Its message events, which only produce notices, are left out.           *)
(***************************************************************************)
EXTENDS Integers, FiniteSets

CONSTANTS
    Contacts,       \* remote contacts with an open channel or a known key
    Fps,            \* fingerprints of their keys
    NoFp            \* no active fingerprint

ASSUME SessionAssumption == NoFp \notin Fps

States == {"PLAINTEXT", "ENCRYPTED", "FINISHED"}
Levels == {"NOT_PRIVATE", "UNVERIFIED", "PRIVATE", "FINISHED"}
Keys == Contacts \X Fps

VARIABLES
    open,           \* contacts with an open channel (and thus a Session)
    state,          \* ConnContext::msgstate
    active,         \* ConnContext::active_fingerprint
    smp,            \* contacts with an SMP exchange in progress
    known, trusted, \* the fingerprint list in memory
    disk,           \* the .fingerprints file
    view,           \* trust level last signalled to the client of the channel
    unsaved,        \* history: decided through the service since the last write
    verdict         \* history: keys whose last verdict (user or SMP) was trust

convVars == <<open, state, active, smp>>
vars == <<convVars, known, trusted, disk, view, unsaved, verdict>>

\* utils::getTrustLevel
getTrustLevel(c) ==
    CASE state[c] = "PLAINTEXT" -> "NOT_PRIVATE"
      [] state[c] = "FINISHED"  -> "FINISHED"
      [] state[c] = "ENCRYPTED" -> IF <<c, active[c]>> \in trusted
                                   THEN "PRIVATE" ELSE "UNVERIFIED"

Init ==
    /\ open = {}
    /\ state = [c \in Contacts |-> "PLAINTEXT"]
    /\ active = [c \in Contacts |-> NoFp]
    /\ smp = {}
    /\ known = {}
    /\ trusted = {}
    /\ disk = [known |-> {}, trusted |-> {}]
    /\ view = [c \in Contacts |-> "NOT_PRIVATE"]
    /\ unsaved = {}
    /\ verdict = {}

\* Session::onTrustLevelChanged of the sessions with the contacts in S.
onTrustLevelChanged(S) ==
    view' = [c \in Contacts |-> IF c \in S THEN getTrustLevel(c)' ELSE view[c]]

\* Mutant: the list is not written.
WriteNothing ==
    /\ unsaved' = {}
    /\ UNCHANGED disk

\* otrl_privkey_write_fingerprints writes the list as this step leaves it.
WriteFingerprints ==
    /\ disk' = [known |-> known', trusted |-> trusted']
    /\ unsaved' = {}

SetTrust(k, trust) ==
    /\ trusted' = IF trust THEN trusted \cup {k} ELSE trusted \ {k}
    /\ verdict' = IF trust THEN verdict \cup {k} ELSE verdict \ {k}

-----------------------------------------------------------------------------
(* The conversation: callbacks of libotr.                                  *)

\* A key exchange ends with fingerprint f: new_fingerprint and
\* write_fingerprints for a key seen first, then gone_secure, or still_secure
\* (SessionRefreshed only) when the conversation goes on with the same key.
gone_secure(c, f) ==
    /\ c \in open
    /\ ~(state[c] = "ENCRYPTED" /\ active[c] = f)
    /\ state' = [state EXCEPT ![c] = "ENCRYPTED"]
    /\ active' = [active EXCEPT ![c] = f]
    /\ smp' = smp \ {c}
    /\ known' = known \cup {<<c, f>>}
    /\ UNCHANGED <<open, trusted, verdict>>
    /\ IF <<c, f>> \in known THEN UNCHANGED <<disk, unsaved>> ELSE WriteFingerprints
    /\ onTrustLevelChanged({c})

\* decrypt() sees that the peer ended the conversation: gone_insecure.
gone_insecure(c) ==
    /\ c \in open
    /\ state[c] = "ENCRYPTED"
    /\ state' = [state EXCEPT ![c] = "FINISHED"]
    /\ active' = [active EXCEPT ![c] = NoFp]
    /\ smp' = smp \ {c}
    /\ UNCHANGED <<open, known, trusted, disk, unsaved, verdict>>
    /\ onTrustLevelChanged({c})

-----------------------------------------------------------------------------
(* SMP.                                                                    *)

\* startPeerAuthentication, or the peer's request (onSMPQuery).
StartSMP(c) ==
    /\ c \in open
    /\ state[c] = "ENCRYPTED"
    /\ smp' = smp \cup {c}
    /\ UNCHANGED <<open, state, active, known, trusted, disk, view, unsaved, verdict>>

\* OTRL_SMPEVENT_SUCCESS and _FAILURE: libotr sets the trust of the key and has
\* the list written; handle_smp_event signals the trust level.
onSMPFinished(c, success) ==
    /\ c \in smp
    /\ smp' = smp \ {c}
    /\ SetTrust(<<c, active[c]>>, success)
    /\ UNCHANGED <<open, state, active, known>>
    /\ WriteFingerprints
    /\ onTrustLevelChanged({c})

\* abortPeerAuthentication, and OTRL_SMPEVENT_ABORT, _CHEATED and _ERROR, which
\* abort as well.
abortSMPAuthentiaction(c) ==
    /\ c \in smp
    /\ smp' = smp \ {c}
    /\ UNCHANGED <<open, state, active, known, trusted, disk, view, unsaved, verdict>>

-----------------------------------------------------------------------------
(* Methods of the channel proxy and of the service.                        *)

openChannel(c) ==
    /\ c \notin open
    /\ open' = open \cup {c}
    /\ UNCHANGED <<state, active, smp, known, trusted, disk, unsaved, verdict>>
    /\ onTrustLevelChanged({c})     \* the client reads the property TrustLevel

\* otrl_context_force_plaintext; a conversation that is not private is plain already.
forceUnencrypted(c) ==
    /\ state' = [state EXCEPT ![c] = "PLAINTEXT"]
    /\ active' = [active EXCEPT ![c] = NoFp]
    /\ smp' = smp \ {c}

\* Adaptee::stop
stopSession(c) ==
    /\ c \in open
    /\ forceUnencrypted(c)
    /\ UNCHANGED <<open, known, trusted, disk, unsaved, verdict>>
    /\ onTrustLevelChanged({c})

\* Adaptee::onChannelClosed: forceUnencrypted, silently.  When the last channel
\* closes the process quits; the next one reads the list from the disk.
onChannelClosed(c) ==
    /\ c \in open
    /\ open' = open \ {c}
    /\ forceUnencrypted(c)
    /\ IF open = {c}
       THEN /\ known' = disk.known
            /\ trusted' = disk.trusted
            /\ unsaved' = {}
       ELSE UNCHANGED <<known, trusted, unsaved>>
    /\ UNCHANGED <<disk, view, verdict>>

\* Adaptee::trustFingerprint: only for the key in use; saved.
trustFingerprint(c, f, trust) ==
    /\ c \in open
    /\ active[c] = f
    /\ SetTrust(<<c, f>>, trust)
    /\ UNCHANGED <<convVars, known>>
    /\ WriteFingerprints
    /\ onTrustLevelChanged(IF state[c] # "FINISHED" THEN {c} ELSE {})

\* Mutant: fingerprintTrusted is not emitted.
serviceTrustSilently(c, f, trust) ==
    /\ <<c, f>> \in known
    /\ SetTrust(<<c, f>>, trust)
    /\ unsaved' = unsaved \cup {<<c, f>>}
    /\ UNCHANGED <<convVars, known, disk, view>>

\* The signal fingerprintTrusted reaches all sessions of the account.
onFingerprintTrusted(f) == onTrustLevelChanged({d \in open : active[d] = f})

\* ProxyService::trustFingerprint: any known key; not saved.
serviceTrustFingerprint(c, f, trust) ==
    /\ <<c, f>> \in known
    /\ SetTrust(<<c, f>>, trust)
    /\ unsaved' = unsaved \cup {<<c, f>>}
    /\ UNCHANGED <<convVars, known, disk>>
    /\ onFingerprintTrusted(f)

\* utils::isFingerprintInUse
isFingerprintInUse(c, f) == active[c] = f

forgetFingerprint(c, f) ==
    /\ <<c, f>> \in known
    /\ ~isFingerprintInUse(c, f)
    /\ known' = known \ {<<c, f>>}
    /\ trusted' = trusted \ {<<c, f>>}
    /\ verdict' = verdict \ {<<c, f>>}
    /\ UNCHANGED <<convVars, view>>
    /\ WriteFingerprints

-----------------------------------------------------------------------------
PeerStep(c) ==
    \/ \E f \in Fps : gone_secure(c, f)
    \/ gone_insecure(c)

SMPStep(c) ==
    \/ StartSMP(c)
    \/ \E success \in BOOLEAN : onSMPFinished(c, success)
    \/ abortSMPAuthentiaction(c)

UserStep(c) ==
    \/ openChannel(c)
    \/ stopSession(c)
    \/ onChannelClosed(c)
    \/ \E f \in Fps, trust \in BOOLEAN :
        trustFingerprint(c, f, trust) \/ serviceTrustFingerprint(c, f, trust)
    \/ \E f \in Fps : forgetFingerprint(c, f)

Next == \E c \in Contacts : PeerStep(c) \/ SMPStep(c) \/ UserStep(c)

Spec == Init /\ [][Next]_vars

-----------------------------------------------------------------------------
(* Properties.                                                             *)

\* Every piece of state keeps its type; in particular only real keys are trusted.
TypeOK ==
    /\ open \in SUBSET Contacts
    /\ state \in [Contacts -> States]
    /\ active \in [Contacts -> Fps \cup {NoFp}]
    /\ smp \in SUBSET Contacts
    /\ known \in SUBSET Keys
    /\ trusted \in SUBSET Keys
    /\ disk \in [known : SUBSET Keys, trusted : SUBSET Keys]
    /\ view \in [Contacts -> Levels]
    /\ unsaved \in SUBSET Keys
    /\ verdict \in SUBSET Keys

\* Every client shows the trust level its conversation really has: whatever
\* changes it (the peer, SMP, this or another user interface) is signalled.
ViewMatches == \A c \in open : view[c] = getTrustLevel(c)

\* The key of an encrypted conversation is on the list, so its trust is well
\* defined: no forgetting and no restart takes it away while it is in use.
ActiveKnown ==
    \A c \in Contacts : state[c] = "ENCRYPTED" <=> active[c] # NoFp /\ <<c, active[c]>> \in known

\* The file holds what the memory holds, except for decisions taken through the
\* service since it was last written.
TrustDurable ==
    /\ disk.known = known
    /\ disk.trusted \ unsaved = trusted \ unsaved

\* Trust is never more than the last verdict on the key, restarts included.
TrustedMeansVerdict == trusted \subseteq verdict
=============================================================================
