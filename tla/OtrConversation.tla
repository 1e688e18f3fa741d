-------------------------- MODULE OtrConversation --------------------------
(***************************************************************************)
(* An OTR conversation between two people who both use the proxy: the      *)
(* OTR::Session of each, the callbacks that libotr makes in it             *)
(* (otr-manager.cpp), and what the proxy of the channel sends, shows and   *)
(* tells its client.  The network keeps the order of the messages between  *)
(* two people.                                                             *)
(*                                                                         *)
(* libotr is external, as the code and otr-test.cpp use it.  The four      *)
(* messages of a key exchange are two here: "dh" makes its receiver's      *)
(* conversation private, and the "sig" that answers it the other's.  A     *)
(* message that needs a key is readable under the key it was made with.    *)
(***************************************************************************)
EXTENDS Integers, Sequences, FiniteSets

CONSTANTS
    Talkers,        \* the two people
    TalkPolicies,   \* the OTR policies they choose from
    MaxTexts,       \* bound: texts written
    MaxDisguised,   \* bound: those of them that look like messages of OTR
    MaxTalkCalls    \* bound: other calls of the clients, and heartbeats

ASSUME TalkAssumption ==
    /\ IsFiniteSet(Talkers) /\ Cardinality(Talkers) = 2
    /\ TalkPolicies \subseteq {"never", "manual", "opportunistic", "always"}
    /\ MaxTexts \in Nat /\ MaxDisguised \in Nat /\ MaxTalkCalls \in Nat

Nobody == 0     \* the id of an empty message

VARIABLES
    otrPolicy,      \* Config: the policy of each
    msgstate,       \* ConnContext::msgstate, which the client shows as trust level
    key,            \* the number of the key exchange that made it private
    exchanges,      \* key exchanges begun
    offered,        \* the one that each began last and is not answered, or 0
    lastMessage,    \* libotr's message to send again after the key exchange
    smpStep,        \* ConnContext::smstate
    wire,           \* messages on the way to each
    \* history
    written,        \* texts written so far
    talkCalls,      \* other calls so far, for the bound
    secret,         \* texts of a conversation shown as private, or under "always"
    careless,       \* texts written while the policy was "never"
    disguised,      \* texts that look like messages of OTR
    unsent,         \* texts that a notice says were not sent: the peer had ended the private
                    \* conversation, or libotr could not encrypt
    readable,       \* texts that were sent in the clear
    told,           \* texts that the client showed as sent
    seen,           \* texts that the receiver saw, or was told of by a notice
    raw,            \* something was shown undecrypted, under "never"
    aborting,       \* people who aborted, by hand or by an error, unheard by the other
    echoed          \* people who were told of an abort that the other did not make

exchangeVars == <<exchanges, offered>>
noteVars == <<written, talkCalls, secret, careless, disguised, unsent, readable, told>>
outcomeVars == <<seen, raw, aborting, echoed>>
talkVars == <<otrPolicy, msgstate, key, exchangeVars, lastMessage, smpStep, wire, noteVars,
              outcomeVars>>

Other(p) == CHOOSE q \in Talkers : q # p

TalkInit ==
    /\ otrPolicy \in [Talkers -> TalkPolicies]
    /\ msgstate = [p \in Talkers |-> "PLAINTEXT"]
    /\ key = [p \in Talkers |-> 0]
    /\ exchanges = 0 /\ offered = [p \in Talkers |-> 0]
    /\ lastMessage = [p \in Talkers |-> Nobody]
    /\ smpStep = [p \in Talkers |-> "idle"]
    /\ wire = [p \in Talkers |-> <<>>]
    /\ written = 0 /\ talkCalls = 0
    /\ secret = {} /\ careless = {} /\ disguised = {} /\ unsent = {} /\ readable = {}
    /\ told = {} /\ seen = {} /\ raw = FALSE /\ aborting = {} /\ echoed = {}

\* Policies that answer a whitespace tag and an error with a key exchange.
Eager(p) == otrPolicy[p] \in {"opportunistic", "always"}

Text(t, tagged) == [kind |-> "text", id |-> t, tagged |-> tagged]
Keyed(kind, k, t) == [kind |-> kind, key |-> k, id |-> t]
Bare(kind) == [kind |-> kind]

\* A text of the user's that otrl_proto_message_type takes for one of OTR's messages: for
\* a query, an error, encrypted data, or a message with "?OTR" of a kind it does not know.
Disguised(t, as) == [kind |-> "disguised", id |-> t, as |-> as]
Disguises == {"query", "error", "data", "unknown"}

-----------------------------------------------------------------------------
(* A message arrives: Adaptee::onMessageReceived and Session::decrypt.     *)

Receives(p, kinds) == wire[p] # <<>> /\ Head(wire[p]).kind \in kinds

\* inject_message sends what libotr answers; processOTRmessage also sends a notice of
\* handle_msg_event that has no direction.
Answer(p, answers) ==
    wire' = [wire EXCEPT ![p] = Tail(@), ![Other(p)] = @ \o answers]

\* Under "never" libotr does nothing, and the client shows what arrived as it is.
ShownRaw(p) ==
    /\ wire[p] # <<>>
    /\ otrPolicy[p] = "never"
    /\ LET msg == Head(wire[p])
       IN seen' = IF msg.kind \in {"text", "data", "disguised"} THEN seen \cup {msg.id}
                   ELSE seen
    /\ raw' = TRUE
    /\ Answer(p, <<>>)
    /\ UNCHANGED <<otrPolicy, msgstate, key, exchangeVars, lastMessage, smpStep, noteVars,
                   aborting, echoed>>

\* Mutant: the notice of OTRL_MSGEVENT_RCVDMSG_UNENCRYPTED is left out.
PlainSeenSilently(p, t) == IF msgstate[p] # "PLAINTEXT" THEN seen ELSE seen \cup {t}

\* As a message, or in the notice of OTRL_MSGEVENT_RCVDMSG_UNENCRYPTED.
PlainSeen(p, t) == seen \cup {t}

\* The answer to a query or a whitespace tag: a key exchange.
Begin(p) ==
    /\ exchanges' = exchanges + 1
    /\ offered' = [offered EXCEPT ![p] = exchanges + 1]
    /\ Answer(p, <<Keyed("dh", exchanges + 1, Nobody)>>)

\* The text of a message, and the tag of a peer who would talk privately.
ReceiveText(p) ==
    /\ otrPolicy[p] # "never"
    /\ Receives(p, {"text"})
    /\ seen' = PlainSeen(p, Head(wire[p]).id)
    /\ IF Head(wire[p]).tagged /\ Eager(p) THEN Begin(p)
       ELSE Answer(p, <<>>) /\ UNCHANGED exchangeVars
    /\ UNCHANGED <<otrPolicy, msgstate, key, lastMessage, smpStep, noteVars, raw, aborting, echoed>>

\* A text that looks like OTR's: taken for a query; put into the notice of an error; not
\* read, as OTRL_MSGEVENT_RCVDMSG_NOT_IN_PRIVATE or _MALFORMED say, and answered by an
\* error; or swallowed, when OTRL_MSGEVENT_RCVDMSG_UNRECOGNIZED, which keeps the direction
\* TO_PEER, sends an empty message to the peer.
ReceiveDisguised(p) ==
    /\ otrPolicy[p] # "never"
    /\ Receives(p, {"disguised"})
    /\ LET msg == Head(wire[p])
       IN \/ msg.as = "query" /\ Begin(p) /\ UNCHANGED seen
          \/ /\ msg.as # "query"
             /\ seen' = IF msg.as = "unknown" THEN seen ELSE seen \cup {msg.id}
             /\ Answer(p, CASE msg.as = "error" -> IF Eager(p) THEN <<Bare("query")>> ELSE <<>>
                            [] msg.as = "data" -> <<Bare("error")>>
                            [] msg.as = "unknown" -> <<Text(Nobody, FALSE)>>)
             /\ UNCHANGED exchangeVars
    /\ UNCHANGED <<otrPolicy, msgstate, key, lastMessage, smpStep, noteVars, raw, aborting, echoed>>

ReceiveQuery(p) ==
    /\ otrPolicy[p] # "never"
    /\ Receives(p, {"query"})
    /\ Begin(p)
    /\ UNCHANGED <<otrPolicy, msgstate, key, lastMessage, smpStep,
                   noteVars, outcomeVars>>

\* Of two exchanges that cross, libotr goes on with one.
Agreed(p, msg) == IF msg.kind = "dh" THEN offered[p] < msg.key ELSE offered[p] = msg.key

\* gone_secure or still_secure; a message that waited for encryption is sent again.
ReceiveKey(p) ==
    /\ otrPolicy[p] # "never"
    /\ Receives(p, {"dh", "sig"})
    /\ LET msg == Head(wire[p])
           sig == IF msg.kind = "dh" THEN <<Keyed("sig", msg.key, Nobody)>> ELSE <<>>
           again == IF lastMessage[p] # Nobody
                    THEN <<Keyed("data", msg.key, lastMessage[p])>> ELSE <<>>
       IN /\ Agreed(p, msg)
          /\ key' = [key EXCEPT ![p] = msg.key]
          /\ Answer(p, sig \o again)
    /\ offered' = [offered EXCEPT ![p] = 0]
    /\ msgstate' = [msgstate EXCEPT ![p] = "ENCRYPTED"]
    /\ smpStep' = [smpStep EXCEPT ![p] = IF msgstate[p] = "ENCRYPTED" THEN @ ELSE "idle"]
    /\ lastMessage' = [lastMessage EXCEPT ![p] = Nobody]
    /\ UNCHANGED <<otrPolicy, exchanges, noteVars, outcomeVars>>

OutdatedKey(p) ==
    /\ otrPolicy[p] # "never"
    /\ Receives(p, {"dh", "sig"})
    /\ ~Agreed(p, Head(wire[p]))
    /\ Answer(p, <<>>)
    /\ UNCHANGED <<otrPolicy, msgstate, key, exchangeVars, lastMessage, smpStep,
                   noteVars, outcomeVars>>

Understood(p) == msgstate[p] = "ENCRYPTED" /\ Head(wire[p]).key = key[p]

\* A text is shown, or the notice that it is unreadable, which the peer is told too; a
\* heartbeat is neither.  After a long silence libotr answers with a heartbeat, and its
\* OTRL_MSGEVENT_LOG_HEARTBEAT_SENT becomes an empty message to the peer.
ReceiveData(p) ==
    /\ otrPolicy[p] # "never"
    /\ Receives(p, {"data"})
    /\ LET msg == Head(wire[p])
       IN /\ seen' = seen \cup {msg.id}
          /\ \/ /\ Answer(p, IF Understood(p) \/ msg.id = Nobody THEN <<>>
                             ELSE <<Bare("error")>>)
                /\ UNCHANGED talkCalls
             \/ /\ Understood(p) /\ msg.id # Nobody
                /\ talkCalls < MaxTalkCalls
                /\ talkCalls' = talkCalls + 1
                /\ Answer(p, <<Keyed("data", key[p], Nobody), Text(Nobody, FALSE)>>)
    /\ UNCHANGED <<otrPolicy, msgstate, key, exchangeVars, lastMessage, smpStep, written, secret,
                   careless, disguised, unsent, readable, told, raw, aborting, echoed>>

\* The peer's Stop: OTRL_TLV_DISCONNECTED.
ReceiveEnd(p) ==
    /\ otrPolicy[p] # "never"
    /\ Receives(p, {"end"})
    /\ msgstate' = [msgstate EXCEPT ![p] = IF Understood(p) THEN "FINISHED" ELSE @]
    /\ smpStep' = [smpStep EXCEPT ![p] = IF Understood(p) THEN "idle" ELSE @]
    /\ Answer(p, <<>>)
    /\ UNCHANGED <<otrPolicy, key, exchangeVars, lastMessage, noteVars, outcomeVars>>

\* OTRL_MSGEVENT_RCVDMSG_GENERAL_ERR
ReceiveError(p) ==
    /\ otrPolicy[p] # "never"
    /\ Receives(p, {"error"})
    /\ Answer(p, IF Eager(p) THEN <<Bare("query")>> ELSE <<>>)
    /\ UNCHANGED <<otrPolicy, msgstate, key, exchangeVars, lastMessage, smpStep,
                   noteVars, outcomeVars>>

-----------------------------------------------------------------------------
(* Peer authentication: handle_smp_event.                                  *)

Abort(p) == Keyed("abort", key[p], Nobody)

\* What a step of the protocol expects, and where it leads.
Expected == [smp1 |-> "idle", smp2 |-> "sent1", smp3 |-> "sent2", smp4 |-> "sent3"]
Reached  == [smp1 |-> "asked", smp2 |-> "sent3", smp3 |-> "idle", smp4 |-> "idle"]

SMPAnswer(p, kind) ==
    CASE kind = "smp2" -> <<Keyed("smp3", key[p], Nobody)>>
      [] kind = "smp3" -> <<Keyed("smp4", key[p], Nobody)>>
      [] OTHER -> <<>>

\* OTRL_SMPEVENT_ASK_FOR_SECRET, _IN_PROGRESS, _SUCCESS and _FAILURE.
ReceiveSMP(p) ==
    /\ otrPolicy[p] # "never"
    /\ Receives(p, DOMAIN Expected)
    /\ LET kind == Head(wire[p]).kind
       IN /\ Understood(p) /\ smpStep[p] = Expected[kind]
          /\ smpStep' = [smpStep EXCEPT ![p] = Reached[kind]]
          /\ Answer(p, SMPAnswer(p, kind))
    /\ UNCHANGED <<otrPolicy, msgstate, key, exchangeVars, lastMessage, noteVars, outcomeVars>>

\* OTRL_SMPEVENT_ERROR: a step that was not expected is answered by an abort.
UnexpectedSMP(p) ==
    /\ otrPolicy[p] # "never"
    /\ Receives(p, DOMAIN Expected)
    /\ Understood(p) /\ smpStep[p] # Expected[Head(wire[p]).kind]
    /\ smpStep' = [smpStep EXCEPT ![p] = "idle"]
    /\ aborting' = aborting \cup {p}
    /\ Answer(p, <<Abort(p)>>)
    /\ UNCHANGED <<otrPolicy, msgstate, key, exchangeVars, lastMessage,
                   noteVars, seen, raw, echoed>>

\* Mutant: the exchange stays open.
ReceiveAbortKept(p) ==
    /\ otrPolicy[p] # "never"
    /\ Receives(p, {"abort"})
    /\ Understood(p)
    /\ echoed' = IF Other(p) \in aborting THEN echoed ELSE echoed \cup {p}
    /\ aborting' = aborting \ {Other(p)}
    /\ Answer(p, <<>>)
    /\ UNCHANGED <<otrPolicy, msgstate, key, exchangeVars, lastMessage, smpStep,
                   noteVars, seen, raw>>

\* OTRL_SMPEVENT_ABORT: answered by an abort as well, and signalled.
ReceiveAbort(p) ==
    /\ otrPolicy[p] # "never"
    /\ Receives(p, {"abort"})
    /\ Understood(p)
    /\ smpStep' = [smpStep EXCEPT ![p] = "idle"]
    /\ echoed' = IF Other(p) \in aborting THEN echoed ELSE echoed \cup {p}
    /\ aborting' = aborting \ {Other(p)}
    /\ Answer(p, <<Abort(p)>>)
    /\ UNCHANGED <<otrPolicy, msgstate, key, exchangeVars, lastMessage, noteVars, seen, raw>>

\* libotr ignores a step that it cannot read.
UnreadableSMP(p) ==
    /\ otrPolicy[p] # "never"
    /\ Receives(p, DOMAIN Expected \cup {"abort"})
    /\ ~Understood(p)
    /\ Answer(p, <<>>)
    /\ UNCHANGED <<otrPolicy, msgstate, key, exchangeVars, lastMessage, smpStep,
                   noteVars, outcomeVars>>

-----------------------------------------------------------------------------
(* Calls of the client.                                                    *)

Sends(p, ms) == wire' = [wire EXCEPT ![Other(p)] = @ \o ms]

Call ==
    /\ talkCalls < MaxTalkCalls
    /\ talkCalls' = talkCalls + 1
    /\ UNCHANGED <<written, secret, careless, disguised, unsent, readable, told>>

\* Mutant: the end of the private conversation is taken for its absence.
EncryptedUnlessFinished(p, t) ==
    CASE otrPolicy[p] = "never" \/ msgstate[p] = "FINISHED" -> {Text(t, FALSE)}
      [] otrPolicy[p] # "never" /\ msgstate[p] = "ENCRYPTED" ->
           {Keyed("data", key[p], t), Bare("error")}
      [] otrPolicy[p] # "never" /\ msgstate[p] = "PLAINTEXT" ->
           IF otrPolicy[p] = "always" THEN {Bare("query")}
           ELSE {Text(t, tagged) : tagged \in {FALSE, otrPolicy[p] = "opportunistic"}}

\* What otrl_message_sending can make of text t: the message for the text channel.  With
\* "always" it is a query, and libotr keeps the text; at the end of the private
\* conversation an empty text; an error for the peer when encrypting fails.
Encrypted(p, t) ==
    CASE otrPolicy[p] = "never" -> {Text(t, FALSE)}
      [] otrPolicy[p] # "never" /\ msgstate[p] = "ENCRYPTED" ->
           {Keyed("data", key[p], t), Bare("error")}
      [] otrPolicy[p] # "never" /\ msgstate[p] = "FINISHED" -> {Text(Nobody, FALSE)}
      [] otrPolicy[p] # "never" /\ msgstate[p] = "PLAINTEXT" ->
           IF otrPolicy[p] = "always" THEN {Bare("query")}
           ELSE {Text(t, tagged) : tagged \in {FALSE, otrPolicy[p] = "opportunistic"}}

\* Session::encrypt gives only what does not look like OTR's to libotr; the rest goes out
\* as it is.
Outgoing(p, t) ==
    Encrypted(p, t) \cup
      {m \in {Disguised(t, as) : as \in Disguises} : Cardinality(disguised) < MaxDisguised}

IsQuery(m) == m.kind = "query" \/ (m.kind = "disguised" /\ m.as = "query")

Writes(p) ==
    /\ written < MaxTexts
    /\ written' = written + 1
    /\ secret' = IF msgstate[p] # "PLAINTEXT" \/ otrPolicy[p] = "always"
                 THEN secret \cup {written + 1} ELSE secret
    /\ careless' = IF otrPolicy[p] = "never" THEN careless \cup {written + 1} ELSE careless

\* Adaptee::sendMessage, and onPendingSendFinished with what the text channel says; a
\* query goes out by sendOTRmessage, and nothing tells the client that it was sent.
SendMessage(p) ==
    /\ Writes(p)
    /\ LET t == written + 1
       IN \E m \in Outgoing(p, t), sent \in BOOLEAN :
            /\ Sends(p, IF sent THEN <<m>> ELSE <<>>)
            /\ readable' = IF sent /\ m.kind \in {"text", "disguised"} /\ m.id = t
                           THEN readable \cup {t} ELSE readable
            /\ told' = IF sent /\ ~IsQuery(m) THEN told \cup {t} ELSE told
            /\ lastMessage' = [lastMessage EXCEPT ![p] = IF m.kind = "query" THEN t ELSE @]
            /\ disguised' = IF m.kind = "disguised" THEN disguised \cup {t} ELSE disguised
            /\ unsent' = IF m.kind # "disguised"
                            /\ (m.kind = "error" \/ msgstate[p] = "FINISHED")
                         THEN unsent \cup {t} ELSE unsent
    /\ UNCHANGED <<otrPolicy, msgstate, key, exchangeVars, smpStep, talkCalls, outcomeVars>>

\* CryptResult::ERROR: the client is told of the error, and nothing goes out.
EncryptionFails(p) ==
    /\ Writes(p)
    /\ otrPolicy[p] # "never"
    /\ UNCHANGED <<otrPolicy, msgstate, key, exchangeVars, lastMessage, smpStep, wire, talkCalls,
                   disguised, unsent, readable, told, outcomeVars>>

\* Session::startSession
initialize(p) ==
    /\ Call
    /\ Sends(p, <<Bare("query")>>)
    /\ UNCHANGED <<otrPolicy, msgstate, key, exchangeVars, lastMessage, smpStep, outcomeVars>>

\* Session::stopSession
stop(p) ==
    /\ Call
    /\ msgstate[p] # "PLAINTEXT"
    /\ Sends(p, IF msgstate[p] = "ENCRYPTED" THEN <<Keyed("end", key[p], Nobody)>> ELSE <<>>)
    /\ msgstate' = [msgstate EXCEPT ![p] = "PLAINTEXT"]
    /\ smpStep' = [smpStep EXCEPT ![p] = "idle"]
    /\ UNCHANGED <<otrPolicy, key, exchangeVars, lastMessage, outcomeVars>>

\* ProxyService::setPolicySettings: the conversations stay as they are.
setPolicy(p, policy) ==
    /\ Call
    /\ otrPolicy[p] # policy
    /\ otrPolicy' = [otrPolicy EXCEPT ![p] = policy]
    /\ UNCHANGED <<msgstate, key, exchangeVars, lastMessage, smpStep, wire, outcomeVars>>

startPeerAuthentication(p) ==
    /\ Call
    /\ msgstate[p] = "ENCRYPTED"
    /\ smpStep' = [smpStep EXCEPT ![p] = "sent1"]
    /\ Sends(p, <<Keyed("smp1", key[p], Nobody)>>)
    /\ UNCHANGED <<otrPolicy, msgstate, key, exchangeVars, lastMessage, outcomeVars>>

\* The user answers what peerAuthenticationRequested asks.
respondPeerAuthentication(p) ==
    /\ smpStep[p] = "asked"
    /\ smpStep' = [smpStep EXCEPT ![p] = "sent2"]
    /\ Sends(p, <<Keyed("smp2", key[p], Nobody)>>)
    /\ UNCHANGED <<otrPolicy, msgstate, key, exchangeVars, lastMessage, noteVars, outcomeVars>>

abortPeerAuthentication(p) ==
    /\ Call
    /\ smpStep[p] # "idle"
    /\ smpStep' = [smpStep EXCEPT ![p] = "idle"]
    /\ aborting' = aborting \cup {p}
    /\ Sends(p, <<Abort(p)>>)
    /\ UNCHANGED <<otrPolicy, msgstate, key, exchangeVars, lastMessage, seen, raw, echoed>>

-----------------------------------------------------------------------------
Arrives(p) ==
    \/ ShownRaw(p)
    \/ ReceiveText(p)
    \/ ReceiveDisguised(p)
    \/ ReceiveQuery(p)
    \/ ReceiveKey(p)
    \/ OutdatedKey(p)
    \/ ReceiveData(p)
    \/ ReceiveEnd(p)
    \/ ReceiveError(p)
    \/ ReceiveSMP(p)
    \/ UnexpectedSMP(p)
    \/ ReceiveAbort(p)
    \/ UnreadableSMP(p)

Calls(p) ==
    \/ SendMessage(p)
    \/ EncryptionFails(p)
    \/ initialize(p)
    \/ stop(p)
    \/ \E policy \in TalkPolicies : setPolicy(p, policy)
    \/ startPeerAuthentication(p)
    \/ respondPeerAuthentication(p)
    \/ abortPeerAuthentication(p)

TalkNext == \E p \in Talkers : Arrives(p) \/ Calls(p)

TalkSpec == TalkInit /\ [][TalkNext]_talkVars

-----------------------------------------------------------------------------
(* Properties.                                                             *)

OnWire(t) == \E p \in Talkers : \E i \in DOMAIN wire[p] :
                wire[p][i].kind \in {"text", "data"} /\ wire[p][i].id = t

\* A text written in a conversation that is shown as private or finished, or under the
\* policy "always", is not sent in the clear, whatever else is on the way, unless the
\* user chose "never" before or the text looks like one of OTR's messages.
SecretsAreSealed == secret \cap readable \subseteq careless \cup disguised

\* "Always encrypt outgoing messages", and "the conversation is currently encrypted": the
\* same for every text that is not written under "never".
EncryptsAlways == secret \cap readable \subseteq careless

\* A text that the sender's client showed as sent reaches the receiver, as a message or
\* in a notice, unless a notice told the sender that it was not sent, or it looks like one
\* of OTR's messages.
TextsAreAccounted == \A t \in told \ (unsent \cup disguised) : t \in seen \/ OnWire(t)

\* While a conversation stays private under one key, nobody waits for a step of the
\* authentication that does not come: the other is asked, or a step is on the way.
SMPAlive(p) ==
    \/ smpStep[Other(p)] = "asked"
    \/ \E q \in Talkers : \E i \in DOMAIN wire[q] :
        wire[q][i].kind \in DOMAIN Expected \cup {"abort", "end", "dh", "sig"}

NoVainAuthentication ==
    \A p \in Talkers :
        /\ smpStep[p] \in {"sent1", "sent2", "sent3"} /\ exchanges = 1 /\ ~raw
        /\ \A q \in Talkers : msgstate[q] = "ENCRYPTED"
        => SMPAlive(p)

\* peerAuthenticationAborted is "emitted when the peer authentication process has been
\* aborted by the remote peer": the other, or an error at the other's end, aborted.
AbortedByPeer == echoed = {}
=============================================================================
