--------------------------- MODULE OtrProxyProofs ---------------------------
(* TLAPS proofs about OtrProxy, for any channels, accounts and bounds.      *)
EXTENDS OtrProxy, TLAPS

\* What a step of onMessageReceived does to the variables it changes, as far as
\* their types are concerned.
LEMMA ReceiveType ==
    ASSUME TypeOK, NEW c \in Channels, NEW ms \in SUBSET Ids, NEW times \in Nat,
           onMessageReceived(c, ms, times)
    PROVE  /\ messages' \in [Channels -> SUBSET Ids]
           /\ acked' \in [Channels -> SUBSET Ids]
           /\ enqueued' \in [Channels -> [Ids -> Nat]]
           /\ decrypted' \in [Channels -> [Ids -> Nat]]
           /\ private' \in [Channels -> BOOLEAN]
           /\ gen' \in [Accounts -> {"idle", "running", "leaked"}]
           /\ isGenerating' \in [Channels -> BOOLEAN]
<1> DEFINE held == Held(c, ms)
           done == ms \ held
<1>1. PICK shown \in SUBSET done, hidden \in SUBSET done, p \in BOOLEAN :
        /\ messages' = [messages EXCEPT ![c] = @ \cup shown]
        /\ acked' = [acked EXCEPT ![c] = @ \cup hidden]
        /\ enqueued' = [enqueued EXCEPT ![c] =
                [i \in Ids |-> @[i] + (IF i \in held THEN times ELSE 0)]]
        /\ decrypted' = [decrypted EXCEPT ![c] =
                [i \in Ids |-> @[i] + (IF i \in done THEN times ELSE 0)]]
        /\ private' = [private EXCEPT ![c] = p]
        /\ IF \E i \in ms : NeedsKey(c, i)
           THEN createNewPrivateKey(AccountOf[c], {c})
           ELSE UNCHANGED genVars
  BY DEF onMessageReceived
<1>2. messages' \in [Channels -> SUBSET Ids] /\ acked' \in [Channels -> SUBSET Ids]
  BY <1>1 DEF TypeOK
<1>3. enqueued' \in [Channels -> [Ids -> Nat]]
  BY <1>1 DEF TypeOK
<1>4. decrypted' \in [Channels -> [Ids -> Nat]]
  BY <1>1 DEF TypeOK
<1>5. private' \in [Channels -> BOOLEAN]
  BY <1>1 DEF TypeOK
<1>6. /\ gen' \in [Accounts -> {"idle", "running", "leaked"}]
      /\ isGenerating' \in [Channels -> BOOLEAN]
  BY <1>1 DEF TypeOK, createNewPrivateKey, genVars
<1>7. QED
  BY <1>2, <1>3, <1>4, <1>5, <1>6

\* Nothing that onMessageReceived is given gets lost: each message ends up
\* offered, held back or acknowledged, and what was so before remains so.
LEMMA ReceiveKeeps ==
    ASSUME TypeOK, NEW c \in Channels, NEW ms \in SUBSET Ids, NEW times \in Nat \ {0},
           onMessageReceived(c, ms, times), NEW d \in Channels
    PROVE  LET seen == messages[d] \cup Waiting(d) \cup acked[d]
           IN /\ seen \subseteq (messages[d] \cup Waiting(d) \cup acked[d])'
              /\ d = c => ms \subseteq (messages[d] \cup Waiting(d) \cup acked[d])'
              /\ d # c => private'[d] = private[d]
<1> DEFINE held == Held(c, ms)
           done == ms \ held
<1>1. PICK shown \in SUBSET done, hidden \in SUBSET done, p \in BOOLEAN :
        /\ shown \cup hidden = done
        /\ messages' = [messages EXCEPT ![c] = @ \cup shown]
        /\ acked' = [acked EXCEPT ![c] = @ \cup hidden]
        /\ enqueued' = [enqueued EXCEPT ![c] =
                [i \in Ids |-> @[i] + (IF i \in held THEN times ELSE 0)]]
        /\ private' = [private EXCEPT ![c] = p]
  BY DEF onMessageReceived, Outcome
<1>2. Waiting(d) \subseteq Waiting(d)'
  BY <1>1 DEF TypeOK, Waiting
<1>3. messages[d] \subseteq messages'[d] /\ acked[d] \subseteq acked'[d]
  BY <1>1 DEF TypeOK
<1>4. ASSUME d = c PROVE held \subseteq Waiting(d)'
  BY <1>1, <1>4 DEF TypeOK, Waiting, Held
<1>5. ASSUME d = c PROVE done \subseteq (messages[d] \cup acked[d])'
  BY <1>1, <1>5 DEF TypeOK
<1>6. d # c => private'[d] = private[d]
  BY <1>1 DEF TypeOK
<1>7. QED
  BY <1>2, <1>3, <1>4, <1>5, <1>6

\* A proxy process that has just started is well typed.
LEMMA InitTypeOK == Init => TypeOK
BY OtrAssumption DEF Init, TypeOK, Nothing, Ids

\* Every callback keeps every variable in its type.
LEMMA NextTypeOK == TypeOK /\ [Next]_vars => TypeOK'
<1> SUFFICES ASSUME TypeOK, [Next]_vars PROVE TypeOK'
  OBVIOUS
<1> USE OtrAssumption DEF chanVars, connVars, initVars, msgVars, genVars
<1>1. ASSUME NEW c \in Channels, addChannel(c) PROVE TypeOK'
  BY <1>1 DEF TypeOK, addChannel
<1>2. ASSUME NEW c \in Channels, MessageArrives(c) PROVE TypeOK'
  <2>1. arrived[c] + 1 \in Ids /\ slots[c] \in Nat
    BY <1>2 DEF TypeOK, MessageArrives, Ids
  <2>2. arrived' \in [Channels -> 0 .. MaxMsgs] /\ queue' \in [Channels -> SUBSET Ids]
    BY <1>2, <2>1 DEF TypeOK, MessageArrives, Ids
  <2>3. CASE slots[c] > 0
    <3>1. onMessageReceived(c, {arrived[c] + 1}, slots[c])
      BY <1>2, <2>3 DEF TypeOK, MessageArrives
    <3>2. {arrived[c] + 1} \in SUBSET Ids
      BY <2>1
    <3>3. /\ messages' \in [Channels -> SUBSET Ids]
          /\ acked' \in [Channels -> SUBSET Ids]
          /\ enqueued' \in [Channels -> [Ids -> Nat]]
          /\ decrypted' \in [Channels -> [Ids -> Nat]]
          /\ private' \in [Channels -> BOOLEAN]
          /\ gen' \in [Accounts -> {"idle", "running", "leaked"}]
          /\ isGenerating' \in [Channels -> BOOLEAN]
      BY <2>1, <3>1, <3>2, ReceiveType
    <3> QED
      BY <1>2, <2>2, <3>3 DEF TypeOK, MessageArrives
  <2>4. CASE ~(slots[c] > 0)
    BY <1>2, <2>2, <2>4 DEF TypeOK, MessageArrives
  <2> QED
    BY <2>3, <2>4
<1>3. ASSUME NEW c \in Channels, NEW i \in Ids, PendingMessageRemoved(c, i) PROVE TypeOK'
  BY <1>3 DEF TypeOK, PendingMessageRemoved
<1>4. ASSUME NEW c \in Channels, onChannelClosed(c) PROVE TypeOK'
  BY <1>4 DEF TypeOK, onChannelClosed, Nothing
<1>5. ASSUME NEW c \in Channels, connectProxy(c) PROVE TypeOK'
  <2>1. onMessageReceived(c, queue[c], 1) /\ queue[c] \in SUBSET Ids
    BY <1>5 DEF TypeOK, connectProxy
  <2>2. /\ messages' \in [Channels -> SUBSET Ids]
        /\ acked' \in [Channels -> SUBSET Ids]
        /\ enqueued' \in [Channels -> [Ids -> Nat]]
        /\ decrypted' \in [Channels -> [Ids -> Nat]]
        /\ private' \in [Channels -> BOOLEAN]
        /\ gen' \in [Accounts -> {"idle", "running", "leaked"}]
        /\ isGenerating' \in [Channels -> BOOLEAN]
    BY <2>1, ReceiveType
  <2>3. /\ connects' \in [Channels -> Nat] /\ slots' \in [Channels -> Nat]
        /\ isConnected' \in [Channels -> BOOLEAN]
    BY <1>5 DEF TypeOK, connectProxy
  <2>4. UNCHANGED <<policy, hasKey, otr, reg, arrived, queue, aboutToInit, inits, queries>>
    BY <1>5 DEF connectProxy
  <2> QED
    BY <2>2, <2>3, <2>4 DEF TypeOK
<1>6. ASSUME NEW c \in Channels, disconnectProxy(c) PROVE TypeOK'
  BY <1>6 DEF TypeOK, disconnectProxy
<1>7. ASSUME NEW c \in Channels, NEW ids \in SUBSET Ids, acknowledgePendingMessages(c, ids)
      PROVE  TypeOK'
  BY <1>7 DEF TypeOK, acknowledgePendingMessages
<1>8. ASSUME NEW c \in Channels, initialize(c) PROVE TypeOK'
  <2>1. /\ inits \in [Channels -> Nat] /\ queries \in [Channels -> Nat]
        /\ aboutToInit \in [Channels -> BOOLEAN] /\ isGenerating \in [Channels -> BOOLEAN]
        /\ gen \in [Accounts -> {"idle", "running", "leaked"}]
    BY DEF TypeOK
  <2>2. inits' = [inits EXCEPT ![c] = @ + 1]
    BY <1>8 DEF initialize
  <2>3. \/ UNCHANGED aboutToInit
        \/ aboutToInit' = [aboutToInit EXCEPT ![c] = TRUE]
    BY <1>8 DEF initialize
  <2>4. UNCHANGED queries \/ queries' = [queries EXCEPT ![c] = @ + 1]
    BY <1>8 DEF initialize
  <2>5. createNewPrivateKey(AccountOf[c], {c}) \/ UNCHANGED genVars
    BY <1>8 DEF initialize
  <2>6. inits' \in [Channels -> Nat] /\ queries' \in [Channels -> Nat]
    BY <2>1, <2>2, <2>4
  <2>7. aboutToInit' \in [Channels -> BOOLEAN]
    BY <2>1, <2>3
  <2>8. /\ gen' \in [Accounts -> {"idle", "running", "leaked"}]
        /\ isGenerating' \in [Channels -> BOOLEAN]
    BY <2>1, <2>5 DEF createNewPrivateKey
  <2>9. UNCHANGED <<policy, hasKey, otr, reg, arrived, queue, isConnected, slots, connects,
                    messages, acked, enqueued, decrypted, private>>
    BY <1>8 DEF initialize
  <2> QED
    BY <2>6, <2>7, <2>8, <2>9 DEF TypeOK
<1>9. ASSUME NEW c \in Channels, stop(c) PROVE TypeOK'
  BY <1>9 DEF TypeOK, stop
<1>10. ASSUME NEW p \in Policies, setPolicySettings(p) PROVE TypeOK'
  BY <1>10 DEF TypeOK, setPolicySettings
<1>11. ASSUME NEW a \in Accounts, generatePrivateKey(a) PROVE TypeOK'
  BY <1>11 DEF TypeOK, generatePrivateKey, createNewPrivateKey
<1>12. ASSUME NEW a \in Accounts, KeyGenerationFinished(a) PROVE TypeOK'
  <2>0. PICK shown \in SUBSET Replay(a), hidden \in SUBSET Replay(a), turned \in SUBSET Talking(a) :
            HandOn(a, shown, hidden, turned)
    BY <1>12 DEF KeyGenerationFinished, GenerationEnds
  <2>1. messages' \in [Channels -> SUBSET Ids] /\ acked' \in [Channels -> SUBSET Ids]
    BY <2>0 DEF TypeOK, HandOn
  <2>2. private' \in [Channels -> BOOLEAN]
    BY <2>0 DEF TypeOK, HandOn
  <2>3. decrypted' \in [Channels -> [Ids -> Nat]] /\ enqueued' \in [Channels -> [Ids -> Nat]]
    BY <1>12 DEF TypeOK, KeyGenerationFinished, GenerationEnds, Nothing
  <2>4. queries' \in [Channels -> Nat] /\ aboutToInit' \in [Channels -> BOOLEAN]
    BY <1>12 DEF TypeOK, KeyGenerationFinished, GenerationEnds
  <2>5. isGenerating' \in [Channels -> BOOLEAN] /\ hasKey' \in SUBSET Accounts
    BY <1>12 DEF TypeOK, KeyGenerationFinished, GenerationEnds
  <2>6. gen' \in [Accounts -> {"idle", "running", "leaked"}]
    BY <1>12 DEF TypeOK, KeyGenerationFinished, GenerationEnds
  <2> QED
    BY <1>12, <2>1, <2>2, <2>3, <2>4, <2>5, <2>6 DEF TypeOK, KeyGenerationFinished, GenerationEnds
<1>13. ASSUME NEW a \in Accounts, NEW left \in {"idle", "leaked"}, KeyGenerationFailed(a, left)
       PROVE  TypeOK'
  BY <1>13 DEF TypeOK, KeyGenerationFailed, GenerationEnds
<1>14. CASE UNCHANGED vars
  BY <1>14 DEF TypeOK, vars
<1> QED
  BY <1>1, <1>2, <1>3, <1>4, <1>5, <1>6, <1>7, <1>8, <1>9, <1>10, <1>11, <1>12, <1>13, <1>14
     DEF Next, ChannelStep, ClientStep, ServiceStep

\* Type correctness of the proxy process.
THEOREM TypeCorrect == Spec => []TypeOK
<1>1. Init => TypeOK
  BY InitTypeOK
<1>2. TypeOK /\ [Next]_vars => TypeOK'
  BY NextTypeOK
<1> QED
  BY <1>1, <1>2, PTL DEF Spec

(***************************************************************************)
(* The inductive invariant.  A proxy's slots are connected exactly while   *)
(* isConnected holds; without this the safety properties are not inductive:*)
(* a message could reach an adaptee that counts as disconnected.           *)
(***************************************************************************)

\* connectProxy and disconnectProxy keep isConnected and the signal connections
\* in step.
SlotsMatch == \A c \in Channels : slots[c] > 0 <=> isConnected[c]

\* The inductive invariant: types, SlotsMatch and the two properties to prove.
IInv == TypeOK /\ SlotsMatch /\ NoMessageLost /\ PrivateOnlyConnected

\* Every callback preserves the inductive invariant, one step per callback.
LEMMA NextIInv == IInv /\ [Next]_vars => IInv'
<1> SUFFICES ASSUME IInv, [Next]_vars PROVE IInv'
  OBVIOUS
<1>0. TypeOK /\ TypeOK'
  BY NextTypeOK DEF IInv
<1> SUFFICES ASSUME NEW d \in Channels
             PROVE  /\ slots'[d] > 0 <=> isConnected'[d]
                    /\ isConnected'[d] =>
                         queue'[d] \subseteq (messages[d] \cup Waiting(d) \cup acked[d])'
                    /\ private'[d] => isConnected'[d]
  BY <1>0 DEF IInv, SlotsMatch, NoMessageLost, PrivateOnlyConnected
<1> DEFINE Safe == /\ slots'[d] > 0 <=> isConnected'[d]
                   /\ isConnected'[d] =>
                         queue'[d] \subseteq (messages[d] \cup Waiting(d) \cup acked[d])'
                   /\ private'[d] => isConnected'[d]
<1>a. /\ slots[d] > 0 <=> isConnected[d]
      /\ isConnected[d] => queue[d] \subseteq messages[d] \cup Waiting(d) \cup acked[d]
      /\ private[d] => isConnected[d]
  BY DEF IInv, SlotsMatch, NoMessageLost, PrivateOnlyConnected
<1>b. /\ slots \in [Channels -> Nat] /\ isConnected \in [Channels -> BOOLEAN]
      /\ private \in [Channels -> BOOLEAN] /\ arrived \in [Channels -> 0 .. MaxMsgs]
      /\ queue \in [Channels -> SUBSET Ids] /\ acked \in [Channels -> SUBSET Ids]
      /\ messages \in [Channels -> SUBSET Ids] /\ enqueued \in [Channels -> [Ids -> Nat]]
  BY <1>0 DEF TypeOK
<1> USE DEF chanVars, connVars, initVars, msgVars, genVars
<1>1. ASSUME NEW c \in Channels, addChannel(c) PROVE Safe
  BY <1>1, <1>a DEF addChannel, Waiting
<1>2. ASSUME NEW c \in Channels, MessageArrives(c) PROVE Safe
  <2> DEFINE i == arrived[c] + 1
  <2>1. /\ UNCHANGED <<slots, isConnected>>
        /\ queue' = [queue EXCEPT ![c] = @ \cup {i}]
    BY <1>2 DEF MessageArrives
  <2>2. CASE slots[c] > 0
    <3>1. onMessageReceived(c, {i}, slots[c]) /\ slots[c] \in Nat \ {0} /\ {i} \in SUBSET Ids
      BY <1>2, <1>b, <2>2, OtrAssumption DEF MessageArrives, Ids
    <3>2. /\ messages[d] \cup Waiting(d) \cup acked[d]
               \subseteq (messages[d] \cup Waiting(d) \cup acked[d])'
          /\ d = c => {i} \subseteq (messages[d] \cup Waiting(d) \cup acked[d])'
          /\ d # c => private'[d] = private[d]
      BY <1>0, <3>1, ReceiveKeeps
    <3>3. isConnected[c]
      BY <2>2 DEF IInv, SlotsMatch
    <3>4. queue'[d] \subseteq queue[d] \cup (IF d = c THEN {i} ELSE {})
      BY <2>1, <1>b
    <3> QED
      BY <1>a, <2>1, <3>2, <3>3, <3>4
  <2>3. CASE ~(slots[c] > 0)
    <3>1. UNCHANGED <<messages, acked, enqueued, private>>
      BY <1>2, <2>3 DEF MessageArrives
    <3>2. ~isConnected[c]
      BY <2>3 DEF IInv, SlotsMatch
    <3> QED
      BY <1>a, <1>b, <2>1, <3>1, <3>2 DEF Waiting
  <2> QED
    BY <2>2, <2>3
<1>3. ASSUME NEW c \in Channels, NEW i \in Ids, PendingMessageRemoved(c, i) PROVE Safe
  BY <1>3, <1>a, <1>b DEF PendingMessageRemoved, Waiting
<1>4. ASSUME NEW c \in Channels, onChannelClosed(c) PROVE Safe
  BY <1>4, <1>a, <1>b DEF onChannelClosed, Waiting
<1>5. ASSUME NEW c \in Channels, connectProxy(c) PROVE Safe
  <2>1. /\ onMessageReceived(c, queue[c], 1) /\ queue[c] \in SUBSET Ids
        /\ UNCHANGED queue
        /\ slots' = [slots EXCEPT ![c] = @ + 1]
        /\ isConnected' = [isConnected EXCEPT ![c] = TRUE]
    BY <1>5, <1>b DEF connectProxy
  <2>2. /\ messages[d] \cup Waiting(d) \cup acked[d]
             \subseteq (messages[d] \cup Waiting(d) \cup acked[d])'
        /\ d = c => queue[c] \subseteq (messages[d] \cup Waiting(d) \cup acked[d])'
        /\ d # c => private'[d] = private[d]
    BY <1>0, <2>1, ReceiveKeeps
  <2> QED
    BY <1>a, <1>b, <2>1, <2>2
<1>6. ASSUME NEW c \in Channels, disconnectProxy(c) PROVE Safe
  BY <1>6, <1>a, <1>b DEF disconnectProxy, Waiting
<1>7. ASSUME NEW c \in Channels, NEW ids \in SUBSET Ids, acknowledgePendingMessages(c, ids)
      PROVE  Safe
  BY <1>7, <1>a, <1>b DEF acknowledgePendingMessages, Waiting
<1>8. ASSUME NEW c \in Channels, initialize(c) PROVE Safe
  BY <1>8, <1>a DEF initialize, Waiting
<1>9. ASSUME NEW c \in Channels, stop(c) PROVE Safe
  BY <1>9, <1>a, <1>b DEF stop, Waiting
<1>10. ASSUME NEW p \in Policies, setPolicySettings(p) PROVE Safe
  BY <1>10, <1>a DEF setPolicySettings, Waiting
<1>11. ASSUME NEW a \in Accounts, generatePrivateKey(a) PROVE Safe
  BY <1>11, <1>a DEF generatePrivateKey, Waiting
<1>12. ASSUME NEW a \in Accounts, KeyGenerationFinished(a) PROVE Safe
  <2> DEFINE L == Listeners(a)
  <2>0. PICK shown \in SUBSET Replay(a), hidden \in SUBSET Replay(a), turned \in SUBSET Talking(a) :
            HandOn(a, shown, hidden, turned)
    BY <1>12 DEF KeyGenerationFinished, GenerationEnds
  <2>1. /\ shown \cup hidden = Replay(a)
        /\ messages' = [c \in Channels |-> messages[c] \cup {i \in Ids : <<c, i>> \in shown}]
        /\ acked' = [c \in Channels |-> acked[c] \cup {i \in Ids : <<c, i>> \in hidden}]
        /\ private' = [c \in Channels |-> IF c \in turned THEN ~private[c] ELSE private[c]]
    BY <2>0 DEF HandOn, Outcome
  <2>2. /\ UNCHANGED <<slots, isConnected, queue>>
        /\ enqueued' = [c \in Channels |-> IF c \in L THEN Nothing ELSE enqueued[c]]
    BY <1>12 DEF KeyGenerationFinished, GenerationEnds
  <2>3. Waiting(d) \subseteq (messages[d] \cup Waiting(d) \cup acked[d])'
    <3>1. CASE d \in L
      <4>1. \A i \in Waiting(d) : <<d, i>> \in Replay(a)
        BY <3>1 DEF Waiting, Replay
      <4> QED
        BY <2>1, <4>1 DEF Waiting
    <3>2. CASE d \notin L
      BY <3>2, <2>2 DEF Waiting
    <3> QED
      BY <3>1, <3>2
  <2>4. messages[d] \subseteq messages'[d] /\ acked[d] \subseteq acked'[d]
    BY <2>1
  <2>5. private'[d] => private[d] \/ slots[d] > 0
    BY <2>1 DEF Listens, Listeners, Talking
  <2> QED
    BY <1>a, <2>2, <2>3, <2>4, <2>5
<1>13. ASSUME NEW a \in Accounts, NEW left \in {"idle", "leaked"}, KeyGenerationFailed(a, left)
       PROVE  Safe
  BY <1>13, <1>a DEF KeyGenerationFailed, GenerationEnds, Waiting
<1>14. CASE UNCHANGED vars
  BY <1>14, <1>a DEF vars, Waiting
<1> QED
  BY <1>1, <1>2, <1>3, <1>4, <1>5, <1>6, <1>7, <1>8, <1>9, <1>10, <1>11, <1>12, <1>13, <1>14
     DEF Next, ChannelStep, ClientStep, ServiceStep

\* No message is lost and no private conversation outlives its connection, for
\* any number of channels, accounts, messages and reconnections.
THEOREM ProxySafe == Spec => [](NoMessageLost /\ PrivateOnlyConnected)
<1>1. Init => IInv
  BY InitTypeOK DEF Init, IInv, SlotsMatch, NoMessageLost, PrivateOnlyConnected
<1>2. IInv /\ [Next]_vars => IInv'
  BY NextIInv
<1>3. IInv => NoMessageLost /\ PrivateOnlyConnected
  BY DEF IInv
<1> QED
  BY <1>1, <1>2, <1>3, PTL DEF Spec

(***************************************************************************)
(* Once: what is known of each message of one channel.                     *)
(***************************************************************************)

\* How often message i was or will be decrypted.
Times(c, i) == decrypted[c][i] + enqueued[c][i]

\* A disconnected proxy offers nothing; signals are connected at most once for each
\* ConnectProxy.
Connection(c) ==
    /\ slots[c] > 0 <=> isConnected[c]
    /\ ~isConnected[c] => messages[c] = {}
    /\ slots[c] <= connects[c]

\* Only what arrived is decrypted or held, once for each ConnectProxy; only what was
\* decrypted is offered or acknowledged; and with one ConnectProxy whatever is offered
\* or held is pending.
Once(c) ==
    \A i \in Ids :
        /\ i \in queue[c] => i <= arrived[c]
        /\ i > arrived[c] => Times(c, i) = 0
        /\ Times(c, i) <= connects[c]
        /\ i \in messages[c] \cup acked[c] => decrypted[c][i] > 0
        /\ connects[c] <= 1 /\ (i \in messages[c] \/ enqueued[c][i] > 0) => i \in queue[c]

\* The inductive invariant for DecryptedOnce and OfferedIsPending.
OnceInv == TypeOK /\ \A c \in Channels : Connection(c) /\ Once(c)

\* onMessageReceived counts each message it is given as often as it is given, as
\* decrypted or as held, and offers and acknowledges only what it decrypts.
LEMMA ReceiveCounts ==
    ASSUME TypeOK, NEW c \in Channels, NEW ms \in SUBSET Ids, NEW times \in Nat \ {0},
           onMessageReceived(c, ms, times), NEW d \in Channels, NEW j \in Ids
    PROVE  /\ d = c /\ j \in ms => decrypted'[d][j] + enqueued'[d][j] =
                                  decrypted[d][j] + enqueued[d][j] + times
           /\ ~(d = c /\ j \in ms) => /\ enqueued'[d][j] = enqueued[d][j]
                                      /\ decrypted'[d][j] = decrypted[d][j]
                                      /\ j \in messages'[d] => j \in messages[d]
                                      /\ j \in acked'[d] => j \in acked[d]
           /\ j \in messages'[d] \cup acked'[d] =>
                j \in messages[d] \cup acked[d] \/ decrypted'[d][j] > 0
           /\ decrypted'[d][j] >= decrypted[d][j]
           /\ d # c => messages'[d] = messages[d]
<1> DEFINE held == Held(c, ms)
           done == ms \ held
<1>1. PICK shown \in SUBSET done, hidden \in SUBSET done, p \in BOOLEAN :
        /\ messages' = [messages EXCEPT ![c] = @ \cup shown]
        /\ acked' = [acked EXCEPT ![c] = @ \cup hidden]
        /\ enqueued' = [enqueued EXCEPT ![c] =
                [i \in Ids |-> @[i] + (IF i \in held THEN times ELSE 0)]]
        /\ decrypted' = [decrypted EXCEPT ![c] =
                [i \in Ids |-> @[i] + (IF i \in done THEN times ELSE 0)]]
  BY DEF onMessageReceived
<1>2. /\ messages \in [Channels -> SUBSET Ids] /\ acked \in [Channels -> SUBSET Ids]
      /\ enqueued \in [Channels -> [Ids -> Nat]] /\ decrypted \in [Channels -> [Ids -> Nat]]
  BY DEF TypeOK
<1>3. enqueued[d][j] \in Nat /\ decrypted[d][j] \in Nat
  BY <1>2
<1>4. held \subseteq ms
  BY DEF Held
<1>5. CASE d = c
  <2>1. /\ enqueued'[d][j] = enqueued[d][j] + (IF j \in held THEN times ELSE 0)
        /\ decrypted'[d][j] = decrypted[d][j] + (IF j \in done THEN times ELSE 0)
        /\ messages'[d] = messages[d] \cup shown
        /\ acked'[d] = acked[d] \cup hidden
    BY <1>1, <1>2, <1>5
  <2> HIDE DEF held
  <2> QED
    BY <1>3, <1>4, <1>5, <2>1
<1>6. CASE d # c
  <2>1. /\ enqueued'[d] = enqueued[d] /\ decrypted'[d] = decrypted[d]
        /\ messages'[d] = messages[d] /\ acked'[d] = acked[d]
    BY <1>1, <1>2, <1>6
  <2> QED
    BY <1>3, <1>6, <2>1
<1> QED
  BY <1>5, <1>6

\* Every callback preserves OnceInv, one step per callback, for one channel and one
\* message.
LEMMA NextOnceInv == OnceInv /\ [Next]_vars => OnceInv'
<1> SUFFICES ASSUME OnceInv, [Next]_vars PROVE OnceInv'
  OBVIOUS
<1>0. TypeOK /\ TypeOK'
  BY NextTypeOK DEF OnceInv
<1> SUFFICES ASSUME NEW d \in Channels PROVE Connection(d)' /\ Once(d)'
  BY <1>0 DEF OnceInv
<1>k. Connection(d) /\ Once(d)
  BY DEF OnceInv
<1>t. /\ slots \in [Channels -> Nat] /\ connects \in [Channels -> Nat]
      /\ isConnected \in [Channels -> BOOLEAN] /\ arrived \in [Channels -> 0 .. MaxMsgs]
      /\ queue \in [Channels -> SUBSET Ids] /\ acked \in [Channels -> SUBSET Ids]
      /\ messages \in [Channels -> SUBSET Ids]
      /\ enqueued \in [Channels -> [Ids -> Nat]] /\ decrypted \in [Channels -> [Ids -> Nat]]
      /\ MaxMsgs \in Nat
  BY <1>0, OtrAssumption DEF TypeOK
<1> DEFINE Safe == Connection(d)' /\ Once(d)'
<1> USE DEF chanVars, connVars, initVars, msgVars, genVars
<1>1. ASSUME NEW c \in Channels, addChannel(c) PROVE Safe
  BY <1>1, <1>k DEF addChannel, Connection, Once, Times
<1>4. ASSUME NEW c \in Channels, onChannelClosed(c) PROVE Safe
  <2>1. CASE d = c
    <3>1. /\ queue'[d] = {} /\ messages'[d] = {} /\ acked'[d] = {}
          /\ slots'[d] = 0 /\ isConnected'[d] = FALSE /\ connects'[d] \in Nat
          /\ enqueued'[d] = Nothing /\ decrypted'[d] = Nothing
      BY <1>4, <1>t, <2>1 DEF onChannelClosed
    <3>2. Connection(d)'
      BY <3>1 DEF Connection
    <3>3. Once(d)'
      BY <3>1 DEF Once, Times, Nothing
    <3> QED
      BY <3>2, <3>3
  <2>2. CASE d # c
    BY <1>4, <1>k, <1>t, <2>2 DEF onChannelClosed, Connection, Once, Times
  <2> QED
    BY <2>1, <2>2
<1>6. ASSUME NEW c \in Channels, disconnectProxy(c) PROVE Safe
  <2>1. Connection(d)'
    BY <1>6, <1>k, <1>t DEF disconnectProxy, Connection
  <2>2. UNCHANGED <<queue, arrived, connects, acked, enqueued, decrypted>>
        /\ messages'[d] \subseteq messages[d]
    BY <1>6, <1>t DEF disconnectProxy
  <2> QED
    BY <1>k, <2>1, <2>2 DEF Once, Times
<1>7. ASSUME NEW c \in Channels, NEW ids \in SUBSET Ids, acknowledgePendingMessages(c, ids)
      PROVE  Safe
  <2>1. UNCHANGED <<queue, arrived, slots, isConnected, connects, messages, enqueued, decrypted>>
        /\ acked'[d] \subseteq acked[d] \cup messages[d]
    BY <1>7, <1>t DEF acknowledgePendingMessages
  <2> QED
    BY <1>k, <2>1 DEF Connection, Once, Times
<1>8. ASSUME NEW c \in Channels, initialize(c) PROVE Safe
  BY <1>8, <1>k DEF initialize, Connection, Once, Times
<1>9. ASSUME NEW c \in Channels, stop(c) PROVE Safe
  BY <1>9, <1>k DEF stop, Connection, Once, Times
<1>10. ASSUME NEW p \in Policies, setPolicySettings(p) PROVE Safe
  BY <1>10, <1>k DEF setPolicySettings, Connection, Once, Times
<1>11. ASSUME NEW a \in Accounts, generatePrivateKey(a) PROVE Safe
  BY <1>11, <1>k DEF generatePrivateKey, Connection, Once, Times
<1>13. ASSUME NEW a \in Accounts, NEW left \in {"idle", "leaked"}, KeyGenerationFailed(a, left)
       PROVE  Safe
  BY <1>13, <1>k DEF KeyGenerationFailed, GenerationEnds, Connection, Once, Times
<1>14. CASE UNCHANGED vars
  BY <1>14, <1>k DEF vars, Connection, Once, Times
<1>2. ASSUME NEW c \in Channels, MessageArrives(c) PROVE Safe
  <2> DEFINE i == arrived[c] + 1
  <2>a. /\ UNCHANGED <<slots, isConnected, connects>>
        /\ queue' = [queue EXCEPT ![c] = @ \cup {i}]
        /\ arrived' = [arrived EXCEPT ![c] = i]
        /\ arrived[c] < MaxMsgs
    <3>1. UNCHANGED <<slots, isConnected, connects>>
      BY <1>2 DEF MessageArrives
    <3>2. queue' = [queue EXCEPT ![c] = @ \cup {i}]
      BY <1>2 DEF MessageArrives
    <3>3. arrived' = [arrived EXCEPT ![c] = i] /\ arrived[c] < MaxMsgs
      BY <1>2 DEF MessageArrives
    <3> HIDE DEF i
    <3> QED
      BY <3>1, <3>2, <3>3
  <2>b. i \in Ids
    <3>1. arrived[c] \in 0 .. MaxMsgs /\ MaxMsgs \in Nat
      BY <1>t
    <3>2. arrived[c] < MaxMsgs
      BY <2>a
    <3> QED
      BY <3>1, <3>2 DEF Ids
  <2>1. /\ UNCHANGED <<slots, isConnected, connects>>
        /\ queue' = [queue EXCEPT ![c] = @ \cup {i}]
        /\ arrived' = [arrived EXCEPT ![c] = i]
        /\ i \in Ids
    <3> HIDE DEF i
    <3> QED
      BY <2>a, <2>b
  <2>2. CASE slots[c] > 0
    <3>1. onMessageReceived(c, {i}, slots[c]) /\ slots[c] \in Nat \ {0} /\ {i} \in SUBSET Ids
      BY <1>2, <1>t, <2>1, <2>2 DEF MessageArrives
    <3>2. Connection(d)'
      <4>1. CASE d = c
        BY <1>k, <2>1, <2>2, <4>1 DEF Connection
      <4>2. CASE d # c
        <5>1. messages'[d] = messages[d] \/ Ids = {}
          BY <1>0, <3>1, <4>2, ReceiveCounts
        <5> QED
          BY <1>k, <2>1, <4>2, <5>1 DEF Connection
      <4> QED
        BY <4>1, <4>2
    <3>3. ASSUME NEW j \in Ids
          PROVE  /\ j \in queue'[d] => j <= arrived'[d]
                 /\ j > arrived'[d] => Times(d, j)' = 0
                 /\ Times(d, j)' <= connects'[d]
                 /\ j \in messages'[d] \cup acked'[d] => decrypted'[d][j] > 0
                 /\ connects'[d] <= 1 /\ (j \in messages'[d] \/ enqueued'[d][j] > 0)
                      => j \in queue'[d]
      <4>0. /\ enqueued[d][j] \in Nat /\ decrypted[d][j] \in Nat
            /\ enqueued'[d][j] \in Nat /\ decrypted'[d][j] \in Nat
            /\ connects[d] \in Nat /\ slots[d] \in Nat /\ arrived[d] \in Nat /\ j \in Int
        <5>1. /\ enqueued' \in [Channels -> [Ids -> Nat]] /\ decrypted' \in [Channels -> [Ids -> Nat]]
              /\ arrived[d] \in Nat
          BY <1>0, <1>t DEF TypeOK
        <5>2. j \in Int
          BY <1>t DEF Ids
        <5> QED
          BY <1>t, <5>1, <5>2
      <4>1. /\ d = c /\ j \in {i} => Times(d, j)' = Times(d, j) + slots[c]
            /\ ~(d = c /\ j \in {i}) => /\ enqueued'[d][j] = enqueued[d][j]
                                        /\ decrypted'[d][j] = decrypted[d][j]
                                        /\ j \in messages'[d] => j \in messages[d]
                                        /\ j \in acked'[d] => j \in acked[d]
            /\ j \in messages'[d] \cup acked'[d] =>
                 j \in messages[d] \cup acked[d] \/ decrypted'[d][j] > 0
            /\ decrypted'[d][j] >= decrypted[d][j]
        BY <1>0, <3>1, ReceiveCounts DEF Times
      <4>2. /\ j \in queue[d] => j <= arrived[d]
            /\ j > arrived[d] => Times(d, j) = 0
            /\ Times(d, j) <= connects[d]
            /\ j \in messages[d] \cup acked[d] => decrypted[d][j] > 0
            /\ connects[d] <= 1 /\ (j \in messages[d] \/ enqueued[d][j] > 0) => j \in queue[d]
            /\ slots[d] <= connects[d]
        BY <1>k DEF Once, Connection
      <4>3. CASE d = c /\ j = i
        <5>1. arrived'[d] = j /\ j \in queue'[d] /\ j > arrived[d]
          BY <1>t, <2>1, <4>0, <4>3
        <5>2. Times(d, j)' = slots[d]
          BY <4>0, <4>1, <4>2, <4>3, <5>1
        <5>3. j \in messages'[d] \cup acked'[d] => decrypted'[d][j] > 0
          BY <4>0, <4>1, <4>2
        <5> QED
          BY <2>1, <4>0, <4>2, <5>1, <5>2, <5>3
      <4>4. CASE ~(d = c /\ j = i)
        <5>1. /\ j \in queue'[d] <=> j \in queue[d]
              /\ arrived'[d] \in Int /\ arrived'[d] >= arrived[d]
          BY <1>t, <2>1, <4>0, <4>4
        <5>2. Times(d, j)' = Times(d, j)
          BY <4>1, <4>4 DEF Times
        <5> QED
          BY <2>1, <4>0, <4>1, <4>2, <4>4, <5>1, <5>2
      <4> QED
        BY <4>3, <4>4
    <3> QED
      BY <3>2, <3>3 DEF Once
  <2>3. CASE ~(slots[c] > 0)
    <3>1. UNCHANGED <<messages, acked, enqueued, decrypted>>
      BY <1>2, <2>3 DEF MessageArrives
    <3>2. Connection(d)'
      BY <1>k, <2>1, <3>1 DEF Connection
    <3>3. \A j \in Ids : /\ j \in queue'[d] => j = i \/ j \in queue[d]
                         /\ j \in queue[d] => j \in queue'[d]
      BY <1>t, <2>1
    <3>4. /\ d = c => arrived'[d] = i /\ i > arrived[d]
          /\ d # c => arrived'[d] = arrived[d] /\ queue'[d] = queue[d]
          /\ arrived[d] \in Nat
      BY <1>t, <2>1
    <3>5. Once(d)'
      BY <1>k, <2>1, <3>1, <3>3, <3>4 DEF Once, Times, Ids
    <3> QED
      BY <3>2, <3>5
  <2> QED
    BY <2>2, <2>3
<1>3. ASSUME NEW c \in Channels, NEW i \in Ids, PendingMessageRemoved(c, i) PROVE Safe
  <2>1. /\ UNCHANGED <<arrived, slots, isConnected, connects, enqueued, decrypted>>
        /\ i \in acked[c]
        /\ messages'[d] \subseteq messages[d] /\ acked'[d] \subseteq acked[d]
        /\ queue'[d] \subseteq queue[d]
        /\ \A j \in Ids : j \in queue[d] /\ ~(d = c /\ j = i) => j \in queue'[d]
        /\ d = c /\ slots[d] > 0 => i \notin messages'[d]
    BY <1>3, <1>t DEF PendingMessageRemoved
  <2>2. Connection(d)'
    BY <1>k, <2>1 DEF Connection
  <2>3. ASSUME d = c, connects[d] <= 1 PROVE enqueued[d][i] = 0 /\ i \notin messages'[d]
    <3>1. /\ enqueued[d][i] \in Nat /\ decrypted[d][i] \in Nat /\ connects[d] \in Nat
          /\ slots[d] \in Nat
      BY <1>t
    <3>2. decrypted[d][i] > 0 /\ decrypted[d][i] + enqueued[d][i] <= connects[d]
      BY <1>k, <2>1, <2>3 DEF Once, Times
    <3>3. enqueued[d][i] = 0
      BY <2>3, <3>1, <3>2
    <3>4. i \notin messages'[d]
      BY <1>k, <2>1, <2>3 DEF Connection
    <3> QED
      BY <3>3, <3>4
  <2>4. ASSUME NEW j \in Ids, connects'[d] <= 1, j \in messages'[d] \/ enqueued'[d][j] > 0
        PROVE  j \in queue'[d]
    <3>1. j \in queue[d]
      BY <1>k, <2>1, <2>4 DEF Once
    <3>2. ~(d = c /\ j = i)
      BY <2>1, <2>3, <2>4
    <3> QED
      BY <2>1, <3>1, <3>2
  <2>5. Once(d)'
    BY <1>k, <2>1, <2>4 DEF Once, Times
  <2> QED
    BY <2>2, <2>5
<1>5. ASSUME NEW c \in Channels, connectProxy(c) PROVE Safe
  <2>1. /\ onMessageReceived(c, queue[c], 1) /\ queue[c] \in SUBSET Ids /\ 1 \in Nat \ {0}
        /\ UNCHANGED <<queue, arrived>>
        /\ slots' = [slots EXCEPT ![c] = @ + 1]
        /\ connects' = [connects EXCEPT ![c] = @ + 1]
        /\ isConnected' = [isConnected EXCEPT ![c] = TRUE]
    BY <1>5, <1>t DEF connectProxy
  <2>2. Connection(d)'
    <3>1. CASE d = c
      BY <1>k, <1>t, <2>1, <3>1 DEF Connection
    <3>2. CASE d # c
      <4>1. messages'[d] = messages[d] \/ Ids = {}
        BY <1>0, <2>1, <3>2, ReceiveCounts
      <4>2. messages'[d] \in SUBSET Ids /\ messages[d] \in SUBSET Ids
        BY <1>0 DEF TypeOK
      <4> QED
        BY <1>k, <1>t, <2>1, <3>2, <4>1, <4>2 DEF Connection
    <3> QED
      BY <3>1, <3>2
  <2>3. ASSUME NEW j \in Ids
        PROVE  /\ j > arrived'[d] => Times(d, j)' = 0
               /\ Times(d, j)' <= connects'[d]
               /\ j \in messages'[d] \cup acked'[d] => decrypted'[d][j] > 0
               /\ connects'[d] <= 1 /\ (j \in messages'[d] \/ enqueued'[d][j] > 0)
                    => j \in queue'[d]
    <3>0. /\ enqueued[d][j] \in Nat /\ decrypted[d][j] \in Nat
          /\ enqueued'[d][j] \in Nat /\ decrypted'[d][j] \in Nat
          /\ connects[d] \in Nat /\ arrived[d] \in Nat /\ j \in Int
      <4>1. /\ enqueued' \in [Channels -> [Ids -> Nat]] /\ decrypted' \in [Channels -> [Ids -> Nat]]
            /\ arrived[d] \in Nat
        BY <1>0, <1>t DEF TypeOK
      <4>2. j \in Int
        BY <1>t DEF Ids
      <4> QED
        BY <1>t, <4>1, <4>2
    <3>1. /\ d = c /\ j \in queue[c] => Times(d, j)' = Times(d, j) + 1
          /\ ~(d = c /\ j \in queue[c]) => /\ enqueued'[d][j] = enqueued[d][j]
                                           /\ decrypted'[d][j] = decrypted[d][j]
                                           /\ j \in messages'[d] => j \in messages[d]
                                           /\ j \in acked'[d] => j \in acked[d]
          /\ j \in messages'[d] \cup acked'[d] =>
               j \in messages[d] \cup acked[d] \/ decrypted'[d][j] > 0
          /\ decrypted'[d][j] >= decrypted[d][j]
      <4>1. PICK ms \in SUBSET Ids, times \in Nat \ {0} :
              ms = queue[c] /\ times = 1 /\ onMessageReceived(c, ms, times)
        BY <2>1
      <4>2. /\ d = c /\ j \in ms => Times(d, j)' = Times(d, j) + times
            /\ ~(d = c /\ j \in ms) => /\ enqueued'[d][j] = enqueued[d][j]
                                       /\ decrypted'[d][j] = decrypted[d][j]
                                       /\ j \in messages'[d] => j \in messages[d]
                                       /\ j \in acked'[d] => j \in acked[d]
            /\ j \in messages'[d] \cup acked'[d] =>
                 j \in messages[d] \cup acked[d] \/ decrypted'[d][j] > 0
            /\ decrypted'[d][j] >= decrypted[d][j]
        BY <1>0, <4>1, ReceiveCounts DEF Times
      <4> QED
        BY <4>1, <4>2
    <3>2. /\ j \in queue[d] => j <= arrived[d]
          /\ j > arrived[d] => Times(d, j) = 0
          /\ Times(d, j) <= connects[d]
          /\ j \in messages[d] \cup acked[d] => decrypted[d][j] > 0
          /\ connects[d] <= 1 /\ (j \in messages[d] \/ enqueued[d][j] > 0) => j \in queue[d]
      BY <1>k DEF Once
    <3>3. Times(d, j) \in Nat /\ (j \in messages[d] \cup acked[d] => decrypted'[d][j] > 0)
      BY <3>0, <3>1, <3>2 DEF Times
    <3>4. CASE d = c /\ j \in queue[c]
      <4>1. connects'[d] = connects[d] + 1
        BY <1>t, <2>1, <3>4
      <4> QED
        BY <2>1, <3>0, <3>1, <3>2, <3>3, <3>4, <4>1
    <3>5. CASE ~(d = c /\ j \in queue[c])
      <4>1. connects'[d] \in Nat /\ connects'[d] >= connects[d]
        BY <1>t, <2>1
      <4>2. Times(d, j)' = Times(d, j)
        BY <3>1, <3>5 DEF Times
      <4> QED
        BY <2>1, <3>0, <3>1, <3>2, <3>3, <3>5, <4>1, <4>2
    <3> QED
      BY <3>4, <3>5
  <2>4. Once(d)'
    BY <1>k, <2>1, <2>3 DEF Once
  <2> QED
    BY <2>2, <2>4
<1>12. ASSUME NEW a \in Accounts, KeyGenerationFinished(a) PROVE Safe
  <2> DEFINE L == Listeners(a)
  <2>0. PICK shown \in SUBSET Replay(a), hidden \in SUBSET Replay(a), turned \in SUBSET Talking(a) :
            HandOn(a, shown, hidden, turned)
    BY <1>12 DEF KeyGenerationFinished, GenerationEnds
  <2>1. /\ messages'[d] = messages[d] \cup {i \in Ids : <<d, i>> \in shown}
        /\ acked'[d] = acked[d] \cup {i \in Ids : <<d, i>> \in hidden}
    BY <2>0 DEF HandOn
  <2>2. \A i \in Ids : <<d, i>> \in Replay(a) => d \in L /\ enqueued[d][i] > 0
    BY DEF Replay
  <2>3. UNCHANGED <<queue, arrived, slots, isConnected, connects>>
    BY <1>12 DEF KeyGenerationFinished, GenerationEnds
  <2>4. d \in L => isConnected[d]
    BY <1>k DEF Connection, Listeners, Listens
  <2>5. Connection(d)'
    BY <1>k, <2>0, <2>1, <2>2, <2>3, <2>4 DEF Connection
  <2>6. ASSUME NEW j \in Ids
        PROVE  /\ Times(d, j)' = Times(d, j)
               /\ j \in messages'[d] \cup acked'[d] => decrypted'[d][j] > 0
               /\ j \in messages'[d] \/ enqueued'[d][j] > 0
                    => j \in messages[d] \/ enqueued[d][j] > 0
    <3>0. enqueued[d][j] \in Nat /\ decrypted[d][j] \in Nat
      BY <1>t
    <3>1. /\ decrypted'[d][j] = decrypted[d][j] + (IF d \in L THEN enqueued[d][j] ELSE 0)
          /\ enqueued'[d][j] = IF d \in L THEN 0 ELSE enqueued[d][j]
      BY <1>12 DEF KeyGenerationFinished, GenerationEnds, Nothing
    <3>2. j \in messages[d] \cup acked[d] => decrypted[d][j] > 0
      BY <1>k DEF Once
    <3>3. /\ j \in messages'[d] => j \in messages[d] \/ (d \in L /\ enqueued[d][j] > 0)
          /\ j \in acked'[d] => j \in acked[d] \/ (d \in L /\ enqueued[d][j] > 0)
      BY <2>0, <2>1, <2>2
    <3> HIDE DEF L
    <3> QED
      BY <3>0, <3>1, <3>2, <3>3 DEF Times
  <2>7. Once(d)'
    BY <1>k, <2>3, <2>6 DEF Once
  <2> QED
    BY <2>5, <2>7
<1> QED
  BY <1>1, <1>2, <1>3, <1>4, <1>5, <1>6, <1>7, <1>8, <1>9, <1>10, <1>11, <1>12, <1>13, <1>14
     DEF Next, ChannelStep, ClientStep, ServiceStep

\* No ConnectProxy has a message decrypted twice, and a client that connects once
\* is offered only what it can acknowledge, for any number of channels, accounts
\* and messages.
THEOREM OnceAndPending == Spec => [](DecryptedOnce /\ OfferedIsPending)
<1>1. Init => OnceInv
  <2>1. Init => TypeOK
    BY InitTypeOK
  <2>2. ASSUME Init, NEW c \in Channels PROVE Connection(c) /\ Once(c)
    BY <2>2 DEF Init, Connection, Once, Times, Nothing
  <2> QED
    BY <2>1, <2>2 DEF OnceInv
<1>2. OnceInv /\ [Next]_vars => OnceInv'
  BY NextOnceInv
<1>3. OnceInv => DecryptedOnce /\ OfferedIsPending
  BY DEF OnceInv, Once, Times, DecryptedOnce, OfferedIsPending, TypeOK
<1> QED
  BY <1>1, <1>2, <1>3, PTL DEF Spec

(***************************************************************************)
(* Waiting for the key, if generating never fails and clients stay.        *)
(***************************************************************************)

\* Something of the channel waits for the key of its account.
WaitsForKey(c) == Waiting(c) # {} \/ aboutToInit[c] \/ isGenerating[c]

\* What waits has its slots connected, so that the end of the generation reaches it, in a
\* channel that is open, so that the process does not quit under it; and libotr's list
\* has no entry without a thread.
ServedInv ==
    /\ \A a \in Accounts : gen[a] \in {"idle", "running"}
    /\ \A c \in Channels : WaitsForKey(c) => gen[AccountOf[c]] = "running" /\ slots[c] > 0
    /\ \A c \in Channels : slots[c] > 0 => reg[c] = "open"

\* After createNewPrivateKey the account's key is generated, whoever asked first; the other
\* accounts and the proxies that do not listen are left as they were.
LEMMA CreateServes ==
    ASSUME TypeOK, \A b \in Accounts : gen[b] \in {"idle", "running"},
           NEW a \in Accounts, NEW callers \in SUBSET Channels, createNewPrivateKey(a, callers)
    PROVE  /\ gen'[a] = "running"
           /\ \A b \in Accounts : /\ gen'[b] \in {"idle", "running"}
                                  /\ gen[b] = "running" => gen'[b] = "running"
           /\ \A d \in Channels :
                isGenerating'[d] => isGenerating[d] \/ Listens(d, a) \/ (d \in callers /\ gen[a] = "idle")
<1>1. CASE CanStart(a)
  BY <1>1 DEF createNewPrivateKey, CanStart, TypeOK
<1>2. CASE ~CanStart(a)
  BY <1>2 DEF createNewPrivateKey, CanStart, TypeOK, genVars
<1> QED
  BY <1>1, <1>2

\* Whatever onMessageReceived holds back waits for a generation that runs, also if it was
\* held only because an earlier message of the same backlog needed the key.
LEMMA ReceiveServes ==
    ASSUME TypeOK, ServedInv, NEW c \in Channels, NEW ms \in SUBSET Ids, NEW times \in Nat,
           onMessageReceived(c, ms, times)
    PROVE  /\ \A b \in Accounts : /\ gen'[b] \in {"idle", "running"}
                                  /\ gen[b] = "running" => gen'[b] = "running"
           /\ Waiting(c)' # {} \/ isGenerating'[c] => gen'[AccountOf[c]] = "running" \/ WaitsForKey(c)
           /\ \A d \in Channels \ {c} :
                /\ Waiting(d)' = Waiting(d)
                /\ isGenerating'[d] =>
                     isGenerating[d] \/ (slots[d] > 0 /\ gen'[AccountOf[d]] = "running")
<1> DEFINE held == Held(c, ms)
           needed == \E i \in ms : NeedsKey(c, i)
<1>1. /\ enqueued' = [enqueued EXCEPT ![c] =
                [i \in Ids |-> @[i] + (IF i \in held THEN times ELSE 0)]]
      /\ IF needed THEN createNewPrivateKey(AccountOf[c], {c}) ELSE UNCHANGED genVars
  BY DEF onMessageReceived
<1>2. AccountOf[c] \in Accounts /\ \A b \in Accounts : gen[b] \in {"idle", "running"}
  BY OtrAssumption DEF ServedInv
<1>3. /\ \A b \in Accounts : /\ gen'[b] \in {"idle", "running"}
                             /\ gen[b] = "running" => gen'[b] = "running"
      /\ needed => gen'[AccountOf[c]] = "running"
      /\ ~needed => UNCHANGED genVars
  <2>1. CASE needed
    BY <1>1, <1>2, <2>1, CreateServes
  <2>2. CASE ~needed
    BY <1>1, <1>2, <2>2 DEF genVars
  <2> QED
    BY <2>1, <2>2
<1>4. ASSUME Waiting(c)' # {} \/ isGenerating'[c], ~WaitsForKey(c)
      PROVE  gen'[AccountOf[c]] = "running"
  <2>1. ~needed => held = {}
    BY <1>4 DEF Held, WaitsForKey
  <2>2. held = {} => Waiting(c)' = Waiting(c)
    BY <1>1 DEF TypeOK, Waiting
  <2>3. needed
    BY <1>3, <1>4, <2>1, <2>2 DEF WaitsForKey, genVars
  <2> QED
    BY <1>3, <2>3
<1>5. ASSUME NEW d \in Channels \ {c}
      PROVE  /\ Waiting(d)' = Waiting(d)
             /\ isGenerating'[d] =>
                  isGenerating[d] \/ (slots[d] > 0 /\ gen'[AccountOf[d]] = "running")
  <2>1. Waiting(d)' = Waiting(d)
    BY <1>1 DEF TypeOK, Waiting
  <2>2. CASE needed
    <3>1. isGenerating'[d] => isGenerating[d] \/ Listens(d, AccountOf[c])
      BY <1>1, <1>2, <2>2, CreateServes
    <3> QED
      BY <1>3, <2>1, <2>2, <3>1 DEF Listens
  <2>3. CASE ~needed
    BY <1>3, <2>1, <2>3 DEF genVars
  <2> QED
    BY <2>2, <2>3
<1> QED
  BY <1>3, <1>4, <1>5

\* So whatever waits after onMessageReceived waits for a generation that runs, and other
\* proxies that wait listen.
LEMMA ReceiveKeepsServed ==
    ASSUME TypeOK, ServedInv, NEW c \in Channels, NEW ms \in SUBSET Ids, NEW times \in Nat,
           onMessageReceived(c, ms, times), aboutToInit' = aboutToInit
    PROVE  /\ \A a \in Accounts : gen'[a] \in {"idle", "running"}
           /\ \A d \in Channels :
                WaitsForKey(d)' => gen'[AccountOf[d]] = "running" /\ (d # c => slots[d] > 0)
<1>1. /\ \A b \in Accounts : gen'[b] \in {"idle", "running"}
      /\ \A b \in Accounts : gen[b] = "running" => gen'[b] = "running"
      /\ Waiting(c)' # {} \/ isGenerating'[c] => gen'[AccountOf[c]] = "running" \/ WaitsForKey(c)
      /\ \A d \in Channels \ {c} : Waiting(d)' = Waiting(d)
      /\ \A d \in Channels \ {c} : isGenerating'[d] =>
            isGenerating[d] \/ (slots[d] > 0 /\ gen'[AccountOf[d]] = "running")
  BY ReceiveServes
<1>2. /\ \A d \in Channels : WaitsForKey(d) => gen[AccountOf[d]] = "running" /\ slots[d] > 0
      /\ \A d \in Channels : AccountOf[d] \in Accounts
  BY OtrAssumption DEF ServedInv
<1>3. \A d \in Channels : WaitsForKey(d) => gen'[AccountOf[d]] = "running"
  BY <1>1, <1>2
<1>4. ASSUME NEW d \in Channels, WaitsForKey(d)'
      PROVE  gen'[AccountOf[d]] = "running" /\ (d # c => slots[d] > 0)
  <2>1. Waiting(d)' # {} \/ isGenerating'[d] \/ aboutToInit[d]
    BY <1>4 DEF WaitsForKey
  <2>2. aboutToInit[d] => WaitsForKey(d)
    BY DEF WaitsForKey
  <2>3. CASE d = c
    BY <1>1, <1>3, <2>1, <2>2, <2>3
  <2>4. CASE d # c
    <3>1. Waiting(d)' # {} => WaitsForKey(d)
      BY <1>1, <2>4 DEF WaitsForKey
    <3>2. isGenerating'[d] =>
            WaitsForKey(d) \/ (slots[d] > 0 /\ gen'[AccountOf[d]] = "running")
      BY <1>1, <2>4 DEF WaitsForKey
    <3> QED
      BY <1>2, <1>3, <2>1, <2>2, <3>1, <3>2
  <2> QED
    BY <2>3, <2>4
<1> QED
  BY <1>1, <1>4

\* Every callback keeps what waits served, one step per callback.
LEMMA NextServed ==
    ASSUME ~GenErrors, ~Disconnects, IInv, ServedInv, [Next]_vars
    PROVE  ServedInv'
<1>0. TypeOK /\ SlotsMatch
  BY DEF IInv
<1> DEFINE Served == /\ \A a \in Accounts : gen'[a] \in {"idle", "running"}
                     /\ \A c \in Channels : WaitsForKey(c)' =>
                          gen'[AccountOf[c]] = "running" /\ slots'[c] > 0
                     /\ \A c \in Channels : slots'[c] > 0 => reg'[c] = "open"
<1> SUFFICES Served
  BY DEF ServedInv
<1>a. /\ \A a \in Accounts : gen[a] \in {"idle", "running"}
      /\ \A c \in Channels : WaitsForKey(c) => gen[AccountOf[c]] = "running" /\ slots[c] > 0
      /\ \A c \in Channels : slots[c] > 0 => reg[c] = "open"
      /\ \A c \in Channels : AccountOf[c] \in Accounts
  BY OtrAssumption DEF ServedInv
<1>b. /\ slots \in [Channels -> Nat] /\ isConnected \in [Channels -> BOOLEAN]
      /\ reg \in [Channels -> {"absent", "open", "closed"}]
      /\ aboutToInit \in [Channels -> BOOLEAN] /\ isGenerating \in [Channels -> BOOLEAN]
      /\ arrived \in [Channels -> 0 .. MaxMsgs] /\ queue \in [Channels -> SUBSET Ids]
      /\ enqueued \in [Channels -> [Ids -> Nat]]
      /\ gen \in [Accounts -> {"idle", "running", "leaked"}]
  BY <1>0 DEF TypeOK
<1> USE DEF chanVars, connVars, initVars, msgVars, genVars
<1>1. ASSUME NEW c \in Channels, addChannel(c) PROVE Served
  BY <1>1, <1>a, <1>b DEF addChannel, WaitsForKey, Waiting
<1>2. ASSUME NEW c \in Channels, MessageArrives(c) PROVE Served
  <2>1. UNCHANGED <<slots, reg, aboutToInit>>
    BY <1>2 DEF MessageArrives
  <2>2. CASE slots[c] > 0
    <3>1. /\ onMessageReceived(c, {arrived[c] + 1}, slots[c])
          /\ slots[c] \in Nat /\ {arrived[c] + 1} \in SUBSET Ids
      BY <1>2, <1>b, <2>2, OtrAssumption DEF MessageArrives, Ids
    <3>2. /\ \A a \in Accounts : gen'[a] \in {"idle", "running"}
          /\ \A d \in Channels :
               WaitsForKey(d)' => gen'[AccountOf[d]] = "running" /\ (d # c => slots[d] > 0)
      BY <1>0, <2>1, <3>1, ReceiveKeepsServed
    <3> QED
      BY <1>a, <2>1, <2>2, <3>2
  <2>3. CASE ~(slots[c] > 0)
    BY <1>2, <1>a, <2>1, <2>3 DEF MessageArrives, WaitsForKey, Waiting
  <2> QED
    BY <2>2, <2>3
<1>3. ASSUME NEW c \in Channels, NEW i \in Ids, PendingMessageRemoved(c, i) PROVE Served
  BY <1>3, <1>a DEF PendingMessageRemoved, WaitsForKey, Waiting
<1>4. ASSUME NEW c \in Channels, onChannelClosed(c) PROVE Served
  <2>1. ~WaitsForKey(c)' /\ slots'[c] = 0
    BY <1>4, <1>b DEF onChannelClosed, WaitsForKey, Waiting, Nothing
  <2>2. \A d \in Channels \ {c} : /\ WaitsForKey(d)' <=> WaitsForKey(d)
                                  /\ slots'[d] = slots[d] /\ reg'[d] = reg[d]
    BY <1>4, <1>b DEF onChannelClosed, WaitsForKey, Waiting
  <2>3. CASE \A d \in Channels \ {c} : reg[d] # "open"
    <3>1. gen' = [a \in Accounts |-> "idle"]
      BY <1>4, <2>3 DEF onChannelClosed
    <3> QED
      BY <1>a, <2>1, <2>2, <2>3, <3>1
  <2>4. CASE ~\A d \in Channels \ {c} : reg[d] # "open"
    <3>1. gen' = gen
      BY <1>4, <2>4 DEF onChannelClosed
    <3> QED
      BY <1>a, <2>1, <2>2, <3>1
  <2> QED
    BY <2>3, <2>4
<1>5. ASSUME NEW c \in Channels, connectProxy(c) PROVE Served
  <2>1. /\ onMessageReceived(c, queue[c], 1) /\ queue[c] \in SUBSET Ids /\ reg[c] = "open"
        /\ UNCHANGED <<reg, aboutToInit>>
        /\ slots' = [slots EXCEPT ![c] = @ + 1]
    BY <1>5, <1>b DEF connectProxy
  <2>2. slots'[c] > 0 /\ \A d \in Channels \ {c} : slots'[d] = slots[d]
    BY <1>b, <2>1
  <2>3. /\ \A a \in Accounts : gen'[a] \in {"idle", "running"}
        /\ \A d \in Channels :
             WaitsForKey(d)' => gen'[AccountOf[d]] = "running" /\ (d # c => slots[d] > 0)
    BY <1>0, <2>1, ReceiveKeepsServed
  <2>4. /\ \A d \in Channels : WaitsForKey(d)' => gen'[AccountOf[d]] = "running" /\ slots'[d] > 0
        /\ \A d \in Channels : slots'[d] > 0 => reg'[d] = "open"
    BY <1>a, <2>1, <2>2, <2>3
  <2> QED
    BY <2>3, <2>4
<1>6. ASSUME NEW c \in Channels, disconnectProxy(c) PROVE Served
  BY <1>6 DEF disconnectProxy
<1>7. ASSUME NEW c \in Channels, NEW ids \in SUBSET Ids, acknowledgePendingMessages(c, ids)
      PROVE  Served
  BY <1>7, <1>a DEF acknowledgePendingMessages, WaitsForKey, Waiting
<1>8. ASSUME NEW c \in Channels, initialize(c) PROVE Served
  <2>1. slots[c] > 0 /\ UNCHANGED <<slots, reg, enqueued>>
    BY <1>8, <1>0 DEF initialize, SlotsMatch
  <2>2. \A d \in Channels \ {c} : aboutToInit'[d] = aboutToInit[d]
    BY <1>8, <1>b DEF initialize
  <2>3. CASE LacksKey(AccountOf[c])
    <3>1. createNewPrivateKey(AccountOf[c], {c})
      BY <1>8, <2>3 DEF initialize
    <3>2. /\ gen'[AccountOf[c]] = "running"
          /\ \A b \in Accounts : /\ gen'[b] \in {"idle", "running"}
                                 /\ gen[b] = "running" => gen'[b] = "running"
          /\ \A d \in Channels \ {c} :
               isGenerating'[d] => isGenerating[d] \/ Listens(d, AccountOf[c])
      BY <1>0, <1>a, <3>1, CreateServes
    <3> QED
      BY <1>a, <2>1, <2>2, <3>2 DEF WaitsForKey, Waiting, Listens
  <2>4. CASE ~LacksKey(AccountOf[c])
    <3>1. UNCHANGED <<gen, isGenerating>>
      BY <1>8, <2>4 DEF initialize
    <3>2. aboutToInit'[c] => aboutToInit[c] \/ isGenerating[c]
      BY <1>8, <1>b, <2>4 DEF initialize
    <3> QED
      BY <1>a, <2>1, <2>2, <3>1, <3>2 DEF WaitsForKey, Waiting
  <2> QED
    BY <2>3, <2>4
<1>9. ASSUME NEW c \in Channels, stop(c) PROVE Served
  BY <1>9, <1>a DEF stop, WaitsForKey, Waiting
<1>10. ASSUME NEW p \in Policies, setPolicySettings(p) PROVE Served
  BY <1>10, <1>a DEF setPolicySettings, WaitsForKey, Waiting
<1>11. ASSUME NEW a \in Accounts, generatePrivateKey(a) PROVE Served
  <2>1. createNewPrivateKey(a, {}) /\ UNCHANGED <<slots, reg, enqueued, aboutToInit>>
    BY <1>11 DEF generatePrivateKey
  <2>2. /\ gen'[a] = "running"
        /\ \A b \in Accounts : /\ gen'[b] \in {"idle", "running"}
                               /\ gen[b] = "running" => gen'[b] = "running"
        /\ \A d \in Channels : isGenerating'[d] => isGenerating[d] \/ Listens(d, a)
    BY <1>0, <1>a, <2>1, CreateServes
  <2> QED
    BY <1>a, <2>1, <2>2 DEF WaitsForKey, Waiting, Listens
<1>12. ASSUME NEW a \in Accounts, KeyGenerationFinished(a) PROVE Served
  <2>1. /\ gen' = [gen EXCEPT ![a] = "idle"]
        /\ isGenerating' = [c \in Channels |-> isGenerating[c] /\ c \notin Listeners(a)]
        /\ enqueued' = [c \in Channels |-> IF c \in Listeners(a) THEN Nothing ELSE enqueued[c]]
        /\ aboutToInit' = [c \in Channels |-> aboutToInit[c] /\ c \notin Listeners(a)]
        /\ UNCHANGED <<slots, reg>>
    BY <1>12 DEF KeyGenerationFinished, GenerationEnds
  <2>2. ASSUME NEW c \in Channels, WaitsForKey(c)'
        PROVE  WaitsForKey(c) /\ c \notin Listeners(a)
    <3>1. CASE c \in Listeners(a)
      <4>1. enqueued'[c] = Nothing /\ ~isGenerating'[c] /\ ~aboutToInit'[c]
        BY <2>1, <3>1
      <4>2. Waiting(c)' = {}
        BY <4>1 DEF Waiting, Nothing
      <4> QED
        BY <2>2, <4>1, <4>2 DEF WaitsForKey
    <3>2. CASE c \notin Listeners(a)
      <4>1. enqueued'[c] = enqueued[c] /\ isGenerating'[c] = isGenerating[c]
            /\ aboutToInit'[c] = aboutToInit[c]
        BY <1>b, <2>1, <3>2, Zenon
      <4>2. Waiting(c)' = Waiting(c)
        BY <4>1 DEF Waiting
      <4> QED
        BY <2>2, <3>2, <4>1, <4>2 DEF WaitsForKey
    <3> QED
      BY <3>1, <3>2
  <2>3. ASSUME NEW c \in Channels, WaitsForKey(c)' PROVE AccountOf[c] # a
    BY <1>a, <2>2, <2>3 DEF Listeners, Listens
  <2> QED
    BY <1>a, <1>b, <2>1, <2>2, <2>3
<1>13. ASSUME NEW a \in Accounts, NEW left \in {"idle", "leaked"}, KeyGenerationFailed(a, left)
       PROVE  Served
  BY <1>13 DEF KeyGenerationFailed
<1>14. CASE UNCHANGED vars
  BY <1>14, <1>a DEF vars, WaitsForKey, Waiting
<1> QED
  BY <1>1, <1>2, <1>3, <1>4, <1>5, <1>6, <1>7, <1>8, <1>9, <1>10, <1>11, <1>12, <1>13, <1>14
     DEF Next, ChannelStep, ClientStep, ServiceStep

\* When generating never fails and clients stay connected, nothing waits for a key that
\* nobody generates, for any number of channels that share accounts.
THEOREM WaitersServed ==
    ASSUME ~GenErrors, ~Disconnects
    PROVE  Spec => []WaitingIsServed
<1>1. Init => IInv /\ ServedInv
  <2>1. Init => IInv
    BY InitTypeOK DEF Init, IInv, SlotsMatch, NoMessageLost, PrivateOnlyConnected
  <2>2. Init => ServedInv
    BY DEF Init, ServedInv, WaitsForKey, Waiting, Nothing
  <2> QED
    BY <2>1, <2>2
<1>2. IInv /\ ServedInv /\ [Next]_vars => (IInv /\ ServedInv)'
  BY NextIInv, NextServed
<1>3. IInv /\ ServedInv => WaitingIsServed
  BY DEF ServedInv, WaitsForKey, WaitingIsServed
<1> QED
  BY <1>1, <1>2, <1>3, PTL DEF Spec
=============================================================================
