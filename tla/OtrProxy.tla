------------------------------ MODULE OtrProxy ------------------------------
(***************************************************************************)
(* The OTR proxy process (otr-proxy/KTpProxy): ProxyService, which installs*)
(* one proxy per text channel and generates private keys on worker         *)
(* threads, and OtrProxyChannel::Adaptee, which stands between the text    *)
(* channel and the chat client.  Every action below is one callback of the *)
(* Qt event loop (a D-Bus method, a signal of the text channel or a signal *)
(* of the service), which runs to its end before the next one starts.      *)
(*                                                                         *)
(* External parts, known from how the code uses them:                      *)
(*   - Tp::TextChannel: a queue of pending messages with increasing ids;   *)
(*     acknowledge() is a request, the message leaves the queue later, with*)
(*     the signal pendingMessageRemoved;                                   *)
(*   - libotr: decrypting yields a text to show or a protocol message, and *)
(*     may change the trust level; its list of key generations in progress *)
(*     is emptied by otrl_privkey_generate_finish only.                    *)
(***************************************************************************)
EXTENDS Integers

CONSTANTS
    Channels,       \* text channels the observer may hand to the service
    Accounts,       \* account ids
    AccountOf,      \* the account each channel belongs to
    Policies,       \* the OTR policies that users choose from
    MaxMsgs,        \* bound: messages arriving on one channel
    MaxConnects,    \* bound: ConnectProxy calls on one channel
    MaxInits,       \* bound: Initialize calls on one channel
    Disconnects,    \* whether clients call DisconnectProxy
    GenErrors       \* whether generating a key may fail

ASSUME OtrAssumption ==
    /\ AccountOf \in [Channels -> Accounts]
    /\ MaxMsgs \in Nat /\ MaxConnects \in Nat /\ MaxInits \in Nat
    /\ Disconnects \in BOOLEAN /\ GenErrors \in BOOLEAN

Never == "NEVER"
Ids == 1 .. MaxMsgs

VARIABLES
    policy,         \* Config: the global OTR policy
    hasKey,         \* accounts with a private key
    gen,            \* libotr's generation in progress, per account
    \* ProxyService::channels and the wrapped text channels
    reg,            \* "absent", "open" or "closed"
    otr,            \* ids of the messages that are OTR protocol messages
    arrived,        \* number of messages that arrived so far
    queue,          \* ids in Tp::TextChannel::messageQueue()
    acked,          \* ids in it whose acknowledgement was requested
    \* OtrProxyChannel::Adaptee
    isConnected,
    slots,          \* how many times each signal is connected to its slot
    connects,       \* ConnectProxy calls (for the bound)
    messages,       \* ids offered to the client as PendingMessages
    enqueued,       \* how often each id sits in enqueuedMessages
    isGenerating,
    aboutToInit,
    private,        \* the session's trust level is not NOT_PRIVATE
    inits,          \* Initialize calls (for the bound)
    queries,        \* history: OTR queries sent for Initialize
    decrypted       \* history: how often each id was given to decrypt()

chanVars == <<reg, arrived, queue>>
connVars == <<isConnected, slots, connects>>
initVars == <<aboutToInit, inits, queries>>
msgVars  == <<messages, acked, enqueued, decrypted, private>>
genVars  == <<gen, isGenerating>>
vars == <<policy, hasKey, otr, chanVars, connVars, initVars, msgVars, genVars>>

Nothing == [i \in Ids |-> 0]

Init ==
    /\ policy \in Policies
    /\ hasKey \in SUBSET Accounts
    /\ gen = [a \in Accounts |-> "idle"]
    /\ reg = [c \in Channels |-> "absent"]
    /\ otr \in [Channels -> SUBSET Ids]
    /\ arrived = [c \in Channels |-> 0]
    /\ queue = [c \in Channels |-> {}]
    /\ acked = [c \in Channels |-> {}]
    /\ isConnected = [c \in Channels |-> FALSE]
    /\ slots = [c \in Channels |-> 0]
    /\ connects = [c \in Channels |-> 0]
    /\ messages = [c \in Channels |-> {}]
    /\ enqueued = [c \in Channels |-> Nothing]
    /\ isGenerating = [c \in Channels |-> FALSE]
    /\ aboutToInit = [c \in Channels |-> FALSE]
    /\ private = [c \in Channels |-> FALSE]
    /\ inits = [c \in Channels |-> 0]
    /\ queries = [c \in Channels |-> 0]
    /\ decrypted = [c \in Channels |-> Nothing]

-----------------------------------------------------------------------------
(* Starting a key generation.                                              *)

\* A proxy whose slots are connected to the service's key generation signals.
Listens(c, a) == slots[c] > 0 /\ AccountOf[c] = a

\* otrl_privkey_generate_start refuses an account that is on libotr's list.
CanStart(a) == gen[a] = "idle"

\* ProxyService::createNewPrivateKey: unless refused, the worker thread starts
\* and keyGenerationStarted reaches onKeyGenerationStarted of every listener.
\* `callers' are the proxies that ask, whose slots are connected by then.
\* Mutant: the thread is never started.
createNewPrivateKeyUnstarted(a, callers) ==
    /\ isGenerating' = [c \in Channels |-> isGenerating[c] \/ c \in callers]
    /\ UNCHANGED gen

createNewPrivateKey(a, callers) ==
    IF CanStart(a)
    THEN /\ gen' = [gen EXCEPT ![a] = "running"]
         /\ isGenerating' = [c \in Channels |->
                isGenerating[c] \/ Listens(c, a) \/ c \in callers]
    ELSE UNCHANGED genVars

\* localFingerprint() is empty although the policy would allow OTR.
LacksKey(a) == a \notin hasKey /\ policy # Never

-----------------------------------------------------------------------------
(* Adaptee::onMessageReceived, run for the messages ms in the order of     *)
(* their ids, `times' times for each.                                      *)

NeedsKey(c, i) == i \in otr[c] /\ LacksKey(AccountOf[c])

\* Messages that go on enqueuedMessages.  The first that needs a key starts a
\* generation if it can, and then the later ones wait for it as well.
Held(c, ms) ==
    {i \in ms : \/ isGenerating[c]
                \/ NeedsKey(c, i)
                \/ /\ CanStart(AccountOf[c])
                   /\ \E j \in ms : j < i /\ NeedsKey(c, j)}

\* What decrypt() may say of the messages in `done': `shown' are text (CHANGED,
\* UNCHANGED), `hidden' are protocol messages or errors (OTR, ERROR).  Only a
\* message decrypted twice (in `twice') can be both.
Outcome(done, twice, shown, hidden) ==
    shown \cup hidden = done /\ shown \cap hidden \subseteq twice

\* Decrypting may end or start the private conversation, if it sees OTR messages.
MayTurnPrivate(c, done, p) == done \cap otr[c] = {} => p = private[c]

onMessageReceived(c, ms, times) ==
    LET held == Held(c, ms)
        done == ms \ held
    IN \E shown \in SUBSET done, hidden \in SUBSET done, p \in BOOLEAN :
        /\ Outcome(done, IF times > 1 THEN done ELSE {}, shown, hidden)
        /\ MayTurnPrivate(c, done, p)
        /\ messages' = [messages EXCEPT ![c] = @ \cup shown]
        /\ acked' = [acked EXCEPT ![c] = @ \cup hidden]
        /\ enqueued' = [enqueued EXCEPT ![c] =
                [i \in Ids |-> @[i] + (IF i \in held THEN times ELSE 0)]]
        /\ decrypted' = [decrypted EXCEPT ![c] =
                [i \in Ids |-> @[i] + (IF i \in done THEN times ELSE 0)]]
        /\ private' = [private EXCEPT ![c] = p]
        /\ IF \E i \in ms : NeedsKey(c, i)
           THEN createNewPrivateKey(AccountOf[c], {c})
           ELSE UNCHANGED genVars

-----------------------------------------------------------------------------
(* The text channel.                                                       *)

\* ProxyService::addChannel: the observer hands over a text channel.
addChannel(c) ==
    /\ reg[c] = "absent"
    /\ reg' = [reg EXCEPT ![c] = "open"]
    /\ UNCHANGED <<policy, hasKey, otr, arrived, queue, connVars, initVars, msgVars, genVars>>

\* A message arrives; messageReceived reaches the adaptee once per connection
\* of its slot.
MessageArrives(c) ==
    LET i == arrived[c] + 1
    IN /\ reg[c] = "open"
       /\ arrived[c] < MaxMsgs
       /\ arrived' = [arrived EXCEPT ![c] = i]
       /\ queue' = [queue EXCEPT ![c] = @ \cup {i}]
       /\ IF slots[c] > 0 THEN onMessageReceived(c, {i}, slots[c])
                          ELSE UNCHANGED <<msgVars, genVars>>
       /\ UNCHANGED <<policy, hasKey, otr, reg, connVars, initVars>>

\* An acknowledged message leaves the queue; Adaptee::onPendingMessageRemoved.
PendingMessageRemoved(c, i) ==
    /\ i \in acked[c] \cap queue[c]
    /\ queue' = [queue EXCEPT ![c] = @ \ {i}]
    /\ acked' = [acked EXCEPT ![c] = @ \ {i}]
    /\ messages' = [messages EXCEPT ![c] = IF slots[c] > 0 THEN @ \ {i} ELSE @]
    /\ UNCHANGED <<policy, hasKey, otr, reg, arrived, connVars, initVars,
                   enqueued, decrypted, private, genVars>>

\* The channel is invalidated: Adaptee::onChannelClosed, then the service drops
\* the proxy.  With the last one the process quits, and a key generation that
\* is still running is lost with it.
onChannelClosed(c) ==
    /\ reg[c] = "open"
    /\ reg' = [reg EXCEPT ![c] = "closed"]
    /\ queue' = [queue EXCEPT ![c] = {}]
    /\ acked' = [acked EXCEPT ![c] = {}]
    /\ messages' = [messages EXCEPT ![c] = {}]
    /\ enqueued' = [enqueued EXCEPT ![c] = Nothing]
    /\ decrypted' = [decrypted EXCEPT ![c] = Nothing]
    /\ private' = [private EXCEPT ![c] = FALSE]
    /\ isConnected' = [isConnected EXCEPT ![c] = FALSE]
    /\ slots' = [slots EXCEPT ![c] = 0]
    /\ isGenerating' = [isGenerating EXCEPT ![c] = FALSE]
    /\ aboutToInit' = [aboutToInit EXCEPT ![c] = FALSE]
    /\ gen' = IF \A d \in Channels \ {c} : reg[d] # "open"
              THEN [a \in Accounts |-> "idle"] ELSE gen
    /\ UNCHANGED <<policy, hasKey, otr, arrived, connects, inits, queries>>

-----------------------------------------------------------------------------
(* The D-Bus methods of the proxy.                                         *)

\* Mutant: the messages already pending are not processed.
connectProxySkipsBacklog(c) ==
    /\ reg[c] = "open"
    /\ connects[c] < MaxConnects
    /\ connects' = [connects EXCEPT ![c] = @ + 1]
    /\ slots' = [slots EXCEPT ![c] = @ + 1]
    /\ isConnected' = [isConnected EXCEPT ![c] = TRUE]
    /\ UNCHANGED <<policy, hasKey, otr, chanVars, initVars, msgVars, genVars>>

\* Mutant: the signals are connected twice.
connectProxyTwice(c) ==
    /\ reg[c] = "open"
    /\ connects[c] < MaxConnects
    /\ connects' = [connects EXCEPT ![c] = @ + 1]
    /\ slots' = [slots EXCEPT ![c] = @ + 2]
    /\ isConnected' = [isConnected EXCEPT ![c] = TRUE]
    /\ onMessageReceived(c, queue[c], 1)
    /\ UNCHANGED <<policy, hasKey, otr, chanVars, initVars>>

connectProxy(c) ==
    /\ reg[c] = "open"
    /\ connects[c] < MaxConnects
    /\ connects' = [connects EXCEPT ![c] = @ + 1]
    /\ slots' = [slots EXCEPT ![c] = @ + 1]
    /\ isConnected' = [isConnected EXCEPT ![c] = TRUE]
    /\ onMessageReceived(c, queue[c], 1)
    /\ UNCHANGED <<policy, hasKey, otr, chanVars, initVars>>

disconnectProxy(c) ==
    /\ Disconnects
    /\ reg[c] = "open"
    /\ private' = [private EXCEPT ![c] = FALSE]
    /\ slots' = [slots EXCEPT ![c] = 0]
    /\ isConnected' = [isConnected EXCEPT ![c] = FALSE]
    /\ messages' = [messages EXCEPT ![c] = {}]
    /\ UNCHANGED <<policy, hasKey, otr, chanVars, connects, initVars,
                   acked, enqueued, decrypted, genVars>>

\* The client acknowledges messages it was offered; an unknown id is refused.
acknowledgePendingMessages(c, ids) ==
    /\ isConnected[c]
    /\ ids \subseteq messages[c]
    /\ acked' = [acked EXCEPT ![c] = @ \cup ids]
    /\ UNCHANGED <<policy, hasKey, otr, chanVars, connVars, initVars,
                   messages, enqueued, decrypted, private, genVars>>

initialize(c) ==
    /\ isConnected[c]
    /\ inits[c] < MaxInits
    /\ inits' = [inits EXCEPT ![c] = @ + 1]
    /\ \/ /\ LacksKey(AccountOf[c])
          /\ aboutToInit' = [aboutToInit EXCEPT ![c] = TRUE]
          /\ createNewPrivateKey(AccountOf[c], {c})
          /\ UNCHANGED queries
       \/ /\ ~LacksKey(AccountOf[c])
          /\ isGenerating[c]
          /\ aboutToInit' = [aboutToInit EXCEPT ![c] = TRUE]
          /\ UNCHANGED <<genVars, queries>>
       \/ /\ ~LacksKey(AccountOf[c])
          /\ ~isGenerating[c]
          /\ queries' = [queries EXCEPT ![c] = @ + 1]
          /\ UNCHANGED <<genVars, aboutToInit>>
    /\ UNCHANGED <<policy, hasKey, otr, chanVars, connVars, msgVars>>

stop(c) ==
    /\ isConnected[c]
    /\ private' = [private EXCEPT ![c] = FALSE]
    /\ UNCHANGED <<policy, hasKey, otr, chanVars, connVars, initVars,
                   messages, acked, enqueued, decrypted, genVars>>

-----------------------------------------------------------------------------
(* The D-Bus methods of the service, and the end of a key generation.      *)

setPolicySettings(p) ==
    /\ policy' = p
    /\ UNCHANGED <<hasKey, otr, chanVars, connVars, initVars, msgVars, genVars>>

generatePrivateKey(a) ==
    /\ CanStart(a)
    /\ createNewPrivateKey(a, {})
    /\ UNCHANGED <<policy, hasKey, otr, chanVars, connVars, initVars, msgVars>>

Waiting(c) == {i \in Ids : enqueued[c][i] > 0}

\* Mutant: only the proxies that wait for a session react to the signal.
WaitingListeners(a) == {c \in Channels : Listens(c, a) /\ aboutToInit[c]}

Listeners(a) == {c \in Channels : Listens(c, a)}

\* What the listeners will replay, as pairs of channel and message.
Replay(a) == {x \in Listeners(a) \X Ids : enqueued[x[1]][x[2]] > 0}

\* Listeners whose private conversation a replayed OTR message may end or start.
Talking(a) == {c \in Listeners(a) : Waiting(c) \cap otr[c] # {}}

\* The replayed messages are shown or acknowledged, as onMessageReceived does it.
HandOn(a, shown, hidden, turned) ==
    /\ Outcome(Replay(a), {x \in Replay(a) : enqueued[x[1]][x[2]] > 1}, shown, hidden)
    /\ messages' = [c \in Channels |-> messages[c] \cup {i \in Ids : <<c, i>> \in shown}]
    /\ acked' = [c \in Channels |-> acked[c] \cup {i \in Ids : <<c, i>> \in hidden}]
    /\ private' = [c \in Channels |-> IF c \in turned THEN ~private[c] ELSE private[c]]

\* The thread is done: libotr's list is left as calculate() or finalizeCreation, which
\* is not called after an error, leaves it.
GenerationEnds(a, left) ==
    /\ gen[a] = "running"
    /\ gen' = [gen EXCEPT ![a] = left]

\* onKeyGenerationThreadFinished without error: the key is written, and
\* onKeyGenerationFinished of every listener replays what it held back, or else
\* sends the query that Initialize asked for.
KeyGenerationFinished(a) ==
    LET L == Listeners(a)
    IN /\ GenerationEnds(a, "idle")
       /\ hasKey' = hasKey \cup {a}
       /\ isGenerating' = [c \in Channels |-> isGenerating[c] /\ c \notin L]
       /\ \E shown \in SUBSET Replay(a), hidden \in SUBSET Replay(a), turned \in SUBSET Talking(a) :
            HandOn(a, shown, hidden, turned)
       /\ decrypted' = [c \in Channels |-> [i \in Ids |->
                decrypted[c][i] + (IF c \in L THEN enqueued[c][i] ELSE 0)]]
       /\ enqueued' = [c \in Channels |-> IF c \in L THEN Nothing ELSE enqueued[c]]
       /\ queries' = [c \in Channels |->
                queries[c] + (IF c \in L /\ Waiting(c) = {} /\ aboutToInit[c] THEN 1 ELSE 0)]
       /\ aboutToInit' = [c \in Channels |-> aboutToInit[c] /\ c \notin L]
       /\ UNCHANGED <<policy, otr, chanVars, connVars, inits>>

\* ... with an error of calculate(), after which libotr keeps the account on its list,
\* or of finalizeCreation.
KeyGenerationFailed(a, left) ==
    /\ GenErrors
    /\ GenerationEnds(a, left)
    /\ isGenerating' = [c \in Channels |-> isGenerating[c] /\ ~Listens(c, a)]
    /\ UNCHANGED <<policy, hasKey, otr, chanVars, connVars, initVars, msgVars>>

-----------------------------------------------------------------------------
ChannelStep(c) ==
    \/ addChannel(c)
    \/ MessageArrives(c)
    \/ \E i \in Ids : PendingMessageRemoved(c, i)
    \/ onChannelClosed(c)

ClientStep(c) ==
    \/ connectProxy(c)
    \/ disconnectProxy(c)
    \/ \E ids \in SUBSET Ids : acknowledgePendingMessages(c, ids)
    \/ initialize(c)
    \/ stop(c)

ServiceStep ==
    \/ \E p \in Policies : setPolicySettings(p)
    \/ \E a \in Accounts : generatePrivateKey(a)
    \/ \E a \in Accounts : KeyGenerationFinished(a)
    \/ \E a \in Accounts, left \in {"idle", "leaked"} : KeyGenerationFailed(a, left)

Next ==
    \/ \E c \in Channels : ChannelStep(c) \/ ClientStep(c)
    \/ ServiceStep

Spec == Init /\ [][Next]_vars

\* The worker thread ends; nothing is assumed of clients, peers and users.
FairSpec == Spec /\ \A a \in Accounts : WF_vars(KeyGenerationFinished(a))

-----------------------------------------------------------------------------
(* Properties.                                                             *)

\* Every piece of state keeps its type; counts of connections and of held copies
\* never become negative.
TypeOK ==
    /\ policy \in Policies
    /\ hasKey \in SUBSET Accounts
    /\ gen \in [Accounts -> {"idle", "running", "leaked"}]
    /\ reg \in [Channels -> {"absent", "open", "closed"}]
    /\ otr \in [Channels -> SUBSET Ids]
    /\ arrived \in [Channels -> 0 .. MaxMsgs]
    /\ queue \in [Channels -> SUBSET Ids]
    /\ acked \in [Channels -> SUBSET Ids]
    /\ isConnected \in [Channels -> BOOLEAN]
    /\ slots \in [Channels -> Nat]
    /\ connects \in [Channels -> Nat]
    /\ messages \in [Channels -> SUBSET Ids]
    /\ enqueued \in [Channels -> [Ids -> Nat]]
    /\ isGenerating \in [Channels -> BOOLEAN]
    /\ aboutToInit \in [Channels -> BOOLEAN]
    /\ private \in [Channels -> BOOLEAN]
    /\ inits \in [Channels -> Nat]
    /\ queries \in [Channels -> Nat]
    /\ decrypted \in [Channels -> [Ids -> Nat]]

\* No message is dropped: while a proxy is connected, every message pending in
\* the text channel is offered to the client, held back for the key, or already
\* acknowledged, whatever the client, the key generation and the other
\* channels did before.
NoMessageLost ==
    \A c \in Channels : isConnected[c] =>
        queue[c] \subseteq messages[c] \cup Waiting(c) \cup acked[c]

\* A private conversation exists only behind a connected proxy: neither a
\* disconnected client nor a closed channel leaves one open.
PrivateOnlyConnected == \A c \in Channels : private[c] => isConnected[c]

\* Each ConnectProxy has a message decrypted at most once: holding it back,
\* replaying it after another channel's key generation and acknowledging it never
\* process it again (a second decryption of an OTR message fails).
DecryptedOnce ==
    \A c \in Channels : \A i \in Ids :
        decrypted[c][i] + enqueued[c][i] <= connects[c]

\* To a client that connects once, PendingMessages lists only messages that are
\* still pending in the text channel, so it can acknowledge what it is offered.
OfferedIsPending ==
    \A c \in Channels : connects[c] <= 1 => messages[c] \subseteq queue[c]

\* When generating never fails and clients stay connected, whatever waits for a
\* key (held messages, a requested session) waits for a generation that runs.
WaitingIsServed ==
    \A c \in Channels :
        Waiting(c) # {} \/ aboutToInit[c] \/ isGenerating[c]
            => gen[AccountOf[c]] = "running"

\* A held message is eventually handed on (or its channel closes).
HeldEventuallyReplayed ==
    \A c \in Channels : \A i \in Ids : enqueued[c][i] > 0 ~> enqueued[c][i] = 0

\* Initialize starts a session: a request that waited for the key is given up
\* only for a query, for a protocol message of the peer that is answered in the
\* same step, or with the channel.
InitializeHonoured ==
    [][\A c \in Channels :
        aboutToInit[c] /\ ~aboutToInit'[c] /\ reg'[c] = "open"
            => \/ queries'[c] > queries[c]
               \/ Waiting(c) \cap otr[c] # {}]_vars

=============================================================================
