------------------------ MODULE OtrConversationProofs ------------------------
(* TLAPS proofs about OtrConversation, for any policies and numbers of       *)
(* texts, and about OtrSession, for any contacts and fingerprints.           *)
EXTENDS OtrConversation, OtrSession, SequenceItems, FiniteSetTheorems

\* The two people.
LEMMA TheOther ==
    ASSUME NEW p \in Talkers
    PROVE  Other(p) \in Talkers /\ Other(p) # p
<1> DEFINE others == Talkers \ {p}
<1>1. IsFiniteSet(others) /\ Cardinality(others) = 1
  BY TalkAssumption, FS_RemoveElement
<1> HIDE DEF others
<1>2. \E q : others = {q}
  BY <1>1, FS_Singleton
<1>3. PICK q : others = {q}
  BY <1>2
<1>4. q \in Talkers /\ q # p /\ \A r \in Talkers : r # p => r = q
  BY <1>3 DEF others
<1> QED
  BY <1>4 DEF Other

-----------------------------------------------------------------------------
(* Messages on the way.                                                    *)

SMPKinds == {"smp1", "smp2", "smp3", "smp4"}
KeyedKinds == {"data", "dh", "sig", "end", "abort"} \cup SMPKinds
Messages ==
    [kind : {"text"}, id : Nat, tagged : BOOLEAN]
      \cup [kind : KeyedKinds, key : Nat, id : Nat]
      \cup [kind : {"disguised"}, id : Nat, as : Disguises]
      \cup [kind : {"query", "error"}]

Wires == [Talkers -> Seq(Messages)]
In(s, m) == \E i \in 1 .. Len(s) : s[i] = m
Travels(w, m) == \E q \in Talkers : In(w[q], m)

\* Appending, and taking the first.
LEMMA InConcat ==
    ASSUME NEW s \in Seq(Messages), NEW ms \in Seq(Messages), NEW m
    PROVE  s \o ms \in Seq(Messages) /\ (In(s \o ms, m) <=> In(s, m) \/ In(ms, m))
<1>1. /\ Len(s) \in Nat /\ Len(ms) \in Nat /\ Len(s \o ms) = Len(s) + Len(ms)
      /\ s \o ms \in Seq(Messages)
      /\ \A i \in 1 .. Len(s) + Len(ms) :
            (s \o ms)[i] = IF i <= Len(s) THEN s[i] ELSE ms[i - Len(s)]
  BY ConcatProperties
<1>2. ASSUME In(s, m) PROVE In(s \o ms, m)
  BY <1>1, <1>2 DEF In
<1>3. ASSUME In(ms, m) PROVE In(s \o ms, m)
  <2>1. PICK i \in 1 .. Len(ms) : ms[i] = m
    BY <1>3 DEF In
  <2>2. i + Len(s) \in 1 .. Len(s) + Len(ms) /\ ~(i + Len(s) <= Len(s)) /\ (i + Len(s)) - Len(s) = i
    BY <1>1
  <2>3. (s \o ms)[i + Len(s)] = m
    BY <1>1, <2>1, <2>2
  <2> QED
    BY <1>1, <2>2, <2>3 DEF In
<1>4. ASSUME In(s \o ms, m) PROVE In(s, m) \/ In(ms, m)
  <2>1. PICK i \in 1 .. Len(s) + Len(ms) : (s \o ms)[i] = m
    BY <1>1, <1>4 DEF In
  <2>2. CASE i <= Len(s)
    BY <1>1, <2>1, <2>2 DEF In
  <2>3. CASE ~(i <= Len(s))
    BY <1>1, <2>1, <2>3 DEF In
  <2> QED
    BY <2>2, <2>3
<1> QED
  BY <1>1, <1>2, <1>3, <1>4

\* What is in a tail was in the sequence.
LEMMA InTail ==
    ASSUME NEW s \in Seq(Messages), s # <<>>, NEW m
    PROVE  /\ Tail(s) \in Seq(Messages) /\ Head(s) \in Messages /\ In(s, Head(s))
           /\ In(Tail(s), m) => In(s, m)
           /\ In(s, m) /\ m # Head(s) => In(Tail(s), m)
<1>1. /\ Len(s) \in Nat /\ Len(s) # 0 /\ Len(Tail(s)) = Len(s) - 1 /\ Head(s) = s[1]
      /\ Tail(s) \in Seq(Messages) /\ Head(s) \in Messages
      /\ \A i \in 1 .. Len(Tail(s)) : Tail(s)[i] = s[i + 1]
  BY HeadTailProperties
<1>2. ASSUME In(s, m), m # Head(s) PROVE In(Tail(s), m)
  <2>1. PICK i \in 1 .. Len(s) : s[i] = m
    BY <1>2 DEF In
  <2>2. i - 1 \in 1 .. Len(Tail(s)) /\ (i - 1) + 1 = i
    BY <1>1, <1>2, <2>1
  <2> QED
    BY <1>1, <2>1, <2>2 DEF In
<1> QED
  BY <1>1, <1>2 DEF In

\* A person takes the first message and answers with ms.
LEMMA Answered ==
    ASSUME wire \in Wires, NEW p \in Talkers, wire[p] # <<>>, NEW ms \in Seq(Messages), Answer(p, ms)
    PROVE  /\ wire' \in Wires
           /\ \A m : Travels(wire', m) => Travels(wire, m) \/ In(ms, m)
           /\ \A m : In(ms, m) => Travels(wire', m)
           /\ \A m : Travels(wire, m) /\ m # Head(wire[p]) => Travels(wire', m)
           /\ Travels(wire, Head(wire[p])) /\ Head(wire[p]) \in Messages
<1> DEFINE o == Other(p)
<1>1. o \in Talkers /\ o # p
  BY TheOther
<1>2. \A q \in Talkers : wire[q] \in Seq(Messages)
  BY DEF Wires
<1>3. wire' = [wire EXCEPT ![p] = Tail(wire[p]), ![o] = wire[o] \o ms]
  BY <1>1 DEF Answer, Wires
<1> HIDE DEF o
<1>4. /\ wire'[p] = Tail(wire[p]) /\ wire'[o] = wire[o] \o ms
      /\ \A q \in Talkers \ {p, o} : wire'[q] = wire[q]
  BY <1>1, <1>3 DEF Wires
<1>5. wire' \in Wires
  <2>1. Tail(wire[p]) \in Seq(Messages) /\ wire[o] \o ms \in Seq(Messages)
    BY <1>1, <1>2, HeadTailProperties, ConcatProperties
  <2> QED
    BY <1>3, <2>1 DEF Wires
<1>6. ASSUME NEW m PROVE /\ Travels(wire', m) => Travels(wire, m) \/ In(ms, m)
                         /\ In(ms, m) => Travels(wire', m)
                         /\ Travels(wire, m) /\ m # Head(wire[p]) => Travels(wire', m)
  <2>1. In(wire'[o], m) <=> In(wire[o], m) \/ In(ms, m)
    BY <1>1, <1>2, <1>4, InConcat
  <2>2. /\ In(wire'[p], m) => In(wire[p], m)
        /\ In(wire[p], m) /\ m # Head(wire[p]) => In(wire'[p], m)
    BY <1>2, <1>4, InTail
  <2> QED
    BY <1>1, <1>4, <2>1, <2>2 DEF Travels
<1>7. In(wire[p], Head(wire[p])) /\ Head(wire[p]) \in Messages
  BY <1>2, InTail
<1> QED
  BY <1>5, <1>6, <1>7 DEF Travels

\* A person sends ms.
LEMMA Posted ==
    ASSUME wire \in Wires, NEW p \in Talkers, NEW ms \in Seq(Messages), Sends(p, ms)
    PROVE  /\ wire' \in Wires
           /\ \A m : Travels(wire', m) <=> Travels(wire, m) \/ In(ms, m)
<1> DEFINE o == Other(p)
<1>1. o \in Talkers
  BY TheOther
<1>2. \A q \in Talkers : wire[q] \in Seq(Messages)
  BY DEF Wires
<1>3. wire' = [wire EXCEPT ![o] = wire[o] \o ms]
  BY <1>1 DEF Sends, Wires
<1> HIDE DEF o
<1>4. wire'[o] = wire[o] \o ms /\ \A q \in Talkers \ {o} : wire'[q] = wire[q]
  BY <1>1, <1>3 DEF Wires
<1>5. wire' \in Wires
  BY <1>1, <1>2, <1>3, ConcatProperties DEF Wires
<1>6. ASSUME NEW m PROVE Travels(wire', m) <=> Travels(wire, m) \/ In(ms, m)
  <2>1. In(wire'[o], m) <=> In(wire[o], m) \/ In(ms, m)
    BY <1>1, <1>2, <1>4, InConcat
  <2> QED
    BY <1>1, <1>4, <2>1 DEF Travels
<1> QED
  BY <1>5, <1>6

-----------------------------------------------------------------------------
(* The inductive invariant.                                                *)

Policies == {"never", "manual", "opportunistic", "always"}
Steps == {"idle", "asked", "sent1", "sent2", "sent3"}

TalkTypes ==
    /\ otrPolicy \in [Talkers -> Policies]
    /\ msgstate \in [Talkers -> {"PLAINTEXT", "ENCRYPTED", "FINISHED"}]
    /\ key \in [Talkers -> Nat]
    /\ exchanges \in Nat /\ offered \in [Talkers -> Nat]
    /\ written \in Nat
    /\ lastMessage \in [Talkers -> 0 .. written]
    /\ smpStep \in [Talkers -> Steps]
    /\ wire \in Wires
    /\ talkCalls \in Nat
    /\ secret \subseteq 1 .. written /\ careless \subseteq 1 .. written
    /\ disguised \subseteq 1 .. written /\ unsent \subseteq 1 .. written
    /\ readable \subseteq 1 .. written
    /\ told \subseteq 1 .. written /\ seen \subseteq 0 .. written
    /\ raw \in BOOLEAN
    /\ aborting \subseteq Talkers /\ echoed \subseteq Talkers

\* Texts on the way were written, and those in the clear are known to be.
Fair(m) ==
    /\ m.kind \in {"text", "data", "disguised"} => m.id \in 0 .. written
    /\ m.kind = "text" => m.id \in readable \cup {Nobody}
Legible == \A m : Travels(wire, m) => Fair(m)

TalkInv == TalkTypes /\ Legible /\ SecretsAreSealed /\ TextsAreAccounted

\* A text on the wire is a message that travels, before a step and after it.
Underway(w, t) == \E m : Travels(w, m) /\ m.kind \in {"text", "data"} /\ m.id = t

\* OnWire, in this state and the next, in terms of the messages that travel.
LEMMA OnWireTravels ==
    ASSUME NEW t
    PROVE  /\ wire \in Wires => (OnWire(t) <=> Underway(wire, t))
           /\ wire' \in Wires => (OnWire(t)' <=> Underway(wire', t))
<1>1. ASSUME wire \in Wires PROVE OnWire(t) <=> Underway(wire, t)
  <2>1. \A q \in Talkers : DOMAIN wire[q] = 1 .. Len(wire[q])
    BY <1>1, LenProperties DEF Wires
  <2> QED
    BY <2>1 DEF OnWire, Underway, Travels, In
<1>2. ASSUME wire' \in Wires PROVE OnWire(t)' <=> Underway(wire', t)
  <2>1. \A q \in Talkers : DOMAIN wire'[q] = 1 .. Len(wire'[q])
    BY <1>2, LenProperties DEF Wires
  <2> QED
    BY <2>1 DEF OnWire, Underway, Travels, In
<1> QED
  BY <1>1, <1>2

\* What a person who takes a message must keep.
LEMMA ArrivalKeeps ==
    ASSUME TalkInv, NEW p \in Talkers, wire[p] # <<>>,
           NEW ms \in Seq(Messages), Answer(p, ms),
           \A m : In(ms, m) => Fair(m),
           seen \subseteq seen',
           Head(wire[p]).kind \in {"text", "data"} => Head(wire[p]).id \in seen',
           UNCHANGED <<written, secret, careless, disguised, unsent, readable, told>>
    PROVE  /\ wire' \in Wires
           /\ Legible' /\ SecretsAreSealed' /\ TextsAreAccounted'
<1>1. wire \in Wires /\ Legible /\ SecretsAreSealed /\ TextsAreAccounted
  BY DEF TalkInv, TalkTypes
<1>2. /\ wire' \in Wires
      /\ \A m : Travels(wire', m) => Travels(wire, m) \/ In(ms, m)
      /\ \A m : Travels(wire, m) /\ m # Head(wire[p]) => Travels(wire', m)
  BY <1>1, Answered
<1>3. Legible'
  BY <1>1, <1>2 DEF Legible, Fair
<1>4. SecretsAreSealed'
  BY <1>1 DEF SecretsAreSealed
<1>5. TextsAreAccounted'
  <2> SUFFICES ASSUME NEW t \in told \ (unsent \cup disguised), t \notin seen' PROVE OnWire(t)'
    BY DEF TextsAreAccounted
  <2>1. OnWire(t)
    BY <1>1 DEF TextsAreAccounted
  <2>2. PICK m : Travels(wire, m) /\ m.kind \in {"text", "data"} /\ m.id = t
    BY <1>1, <2>1, OnWireTravels DEF Underway
  <2>3. Travels(wire', m)
    BY <1>2, <2>2
  <2> QED
    BY <1>2, <2>2, <2>3, OnWireTravels DEF Underway
<1> QED
  BY <1>2, <1>3, <1>4, <1>5

\* What a call that sends no text must keep.
LEMMA CallKeeps ==
    ASSUME TalkInv, NEW p \in Talkers, NEW ms \in Seq(Messages), Sends(p, ms),
           \A m : In(ms, m) => m.kind \notin {"text", "data", "disguised"},
           UNCHANGED <<seen, written, secret, careless, disguised, unsent, readable, told>>
    PROVE  /\ wire' \in Wires
           /\ Legible' /\ SecretsAreSealed' /\ TextsAreAccounted'
<1>1. wire \in Wires /\ Legible /\ SecretsAreSealed /\ TextsAreAccounted
  BY DEF TalkInv, TalkTypes
<1>2. wire' \in Wires /\ \A m : Travels(wire', m) <=> Travels(wire, m) \/ In(ms, m)
  BY <1>1, Posted
<1>3. Legible'
  BY <1>1, <1>2 DEF Legible, Fair
<1>4. SecretsAreSealed'
  BY <1>1 DEF SecretsAreSealed
<1>5. TextsAreAccounted'
  BY <1>1, <1>2, OnWireTravels DEF TextsAreAccounted, Underway
<1> QED
  BY <1>2, <1>3, <1>4, <1>5

\* Answers of no message, of one and of two.
LEMMA InFew ==
    /\ <<>> \in Seq(Messages) /\ \A m : ~In(<<>>, m)
    /\ \A x \in Messages : <<x>> \in Seq(Messages) /\ \A m : In(<<x>>, m) <=> m = x
    /\ \A x, y \in Messages :
          <<x, y>> \in Seq(Messages) /\ \A m : In(<<x, y>>, m) <=> m \in {x, y}
BY DEF In

\* What is in a sequence of at most two messages.
LEMMA InPair ==
    ASSUME NEW x \in Messages, NEW y \in Messages, NEW ms,
           ms = <<>> \/ ms = <<x>> \/ ms = <<y>> \/ ms = <<x, y>>
    PROVE  ms \in Seq(Messages) /\ \A m : In(ms, m) => m = x \/ m = y
<1>1. CASE ms = <<>>
  BY <1>1, InFew
<1>2. CASE ms = <<x>> \/ ms = <<y>>
  <2>1. \A z \in Messages : <<z>> \in Seq(Messages) /\ \A m : In(<<z>>, m) <=> m = z
    BY InFew
  <2>2. <<x>> \in Seq(Messages) /\ \A m : In(<<x>>, m) <=> m = x
    BY <2>1
  <2>3. <<y>> \in Seq(Messages) /\ \A m : In(<<y>>, m) <=> m = y
    BY <2>1
  <2> QED
    BY <1>2, <2>2, <2>3
<1>3. CASE ms = <<x, y>>
  BY <1>3, InFew
<1> QED
  BY <1>1, <1>2, <1>3

\* The kinds of messages.
LEMMA MessageTypes ==
    /\ \A t \in Nat, b \in BOOLEAN : Text(t, b) \in Messages /\ Text(t, b).kind = "text" /\ Text(t, b).id = t
    /\ \A kind \in KeyedKinds, k, t \in Nat :
          /\ Keyed(kind, k, t) \in Messages
          /\ Keyed(kind, k, t).kind = kind /\ Keyed(kind, k, t).id = t
    /\ \A kind \in {"query", "error"} : Bare(kind) \in Messages /\ Bare(kind).kind = kind
BY DEF Text, Keyed, Bare, Messages

-----------------------------------------------------------------------------
(* Every step keeps the invariant.                                         *)

\* Taking a message and answering with no text of the user's.
LEMMA PlainAnswer ==
    ASSUME TalkInv, NEW p \in Talkers, wire[p] # <<>>, NEW ms \in Seq(Messages), Answer(p, ms),
           \A m : In(ms, m) => (m.kind \in {"text", "data", "disguised"} => m.id = Nobody),
           Head(wire[p]).kind \notin {"text", "data"},
           UNCHANGED <<otrPolicy, lastMessage, noteVars, seen, raw>>,
           msgstate' \in [Talkers -> {"PLAINTEXT", "ENCRYPTED", "FINISHED"}],
           key' \in [Talkers -> Nat],
           exchanges' \in Nat, offered' \in [Talkers -> Nat],
           smpStep' \in [Talkers -> Steps],
           aborting' \subseteq Talkers, echoed' \subseteq Talkers
    PROVE  TalkInv'
<1>1. /\ wire' \in Wires
      /\ Legible' /\ SecretsAreSealed' /\ TextsAreAccounted'
  <2>1. \A m : In(ms, m) => Fair(m)
    BY DEF Fair, Nobody, TalkInv, TalkTypes
  <2> QED
    BY <2>1, ArrivalKeeps DEF noteVars
<1>2. TalkTypes'
  BY <1>1 DEF TalkInv, TalkTypes, noteVars
<1> QED
  BY <1>1, <1>2 DEF TalkInv

\* Calls of the client other than SendMessage.
LEMMA PlainCall ==
    ASSUME TalkInv, NEW p \in Talkers, NEW ms \in Seq(Messages), Sends(p, ms),
           \A m : In(ms, m) => m.kind \notin {"text", "data", "disguised"},
           UNCHANGED <<otrPolicy, key, lastMessage, exchangeVars, seen, raw, echoed>>,
           UNCHANGED <<written, secret, careless, disguised, unsent, readable, told>>,
           talkCalls' \in Nat,
           msgstate' \in [Talkers -> {"PLAINTEXT", "ENCRYPTED", "FINISHED"}],
           smpStep' \in [Talkers -> Steps], aborting' \subseteq Talkers
    PROVE  TalkInv'
<1>1. /\ wire' \in Wires
      /\ Legible' /\ SecretsAreSealed' /\ TextsAreAccounted'
  BY CallKeeps
<1>2. TalkTypes'
  BY <1>1 DEF TalkInv, TalkTypes, exchangeVars
<1> QED
  BY <1>1, <1>2 DEF TalkInv

\* A message of libotr arrives that is no text.
LEMMA ControlArrives ==
    ASSUME TalkInv, NEW p \in Talkers,
           \/ ReceiveQuery(p) \/ OutdatedKey(p) \/ ReceiveEnd(p) \/ ReceiveError(p)
           \/ ReceiveSMP(p) \/ UnexpectedSMP(p) \/ ReceiveAbort(p) \/ UnreadableSMP(p)
    PROVE  TalkInv'
<1> USE DEF exchangeVars, outcomeVars
<1>t. TalkTypes /\ Nobody = 0
  BY DEF TalkInv, Nobody
<1>1. CASE ReceiveQuery(p)
  <2> DEFINE x == Keyed("dh", exchanges + 1, Nobody)
  <2>1. x \in Messages /\ x.kind = "dh"
    BY <1>t, MessageTypes DEF TalkTypes, KeyedKinds
  <2>2. Answer(p, <<x>>) /\ wire[p] # <<>> /\ Head(wire[p]).kind = "query"
    BY <1>1 DEF ReceiveQuery, Begin, Receives
  <2>3. exchanges' \in Nat /\ offered' \in [Talkers -> Nat]
    BY <1>1, <1>t DEF ReceiveQuery, Begin, TalkTypes
  <2>4. UNCHANGED <<otrPolicy, msgstate, key, lastMessage, smpStep, noteVars, outcomeVars>>
    BY <1>1 DEF ReceiveQuery
  <2> HIDE DEF x
  <2>5. <<x>> \in Seq(Messages) /\ \A m : In(<<x>>, m) <=> m = x
    BY <2>1, InFew
  <2> QED
    BY <2>1, <2>2, <2>3, <2>4, <2>5, <1>t, PlainAnswer DEF TalkTypes
<1>2. CASE OutdatedKey(p) \/ UnreadableSMP(p)
  <2>1. Answer(p, <<>>) /\ wire[p] # <<>> /\ Head(wire[p]).kind \notin {"text", "data"}
    BY <1>2 DEF OutdatedKey, UnreadableSMP, Receives, Expected
  <2>2. UNCHANGED <<otrPolicy, msgstate, key, exchangeVars, lastMessage, smpStep, noteVars, outcomeVars>>
    BY <1>2 DEF OutdatedKey, UnreadableSMP
  <2> QED
    BY <2>1, <2>2, <1>t, InFew, PlainAnswer DEF TalkTypes
<1>3. CASE ReceiveEnd(p)
  <2>1. Answer(p, <<>>) /\ wire[p] # <<>> /\ Head(wire[p]).kind \notin {"text", "data"}
    BY <1>3 DEF ReceiveEnd, Receives
  <2>2. UNCHANGED <<otrPolicy, key, exchangeVars, lastMessage, noteVars, outcomeVars>>
    BY <1>3 DEF ReceiveEnd
  <2>3. /\ msgstate' \in [Talkers -> {"PLAINTEXT", "ENCRYPTED", "FINISHED"}]
        /\ smpStep' \in [Talkers -> Steps]
    BY <1>3, <1>t DEF ReceiveEnd, TalkTypes, Steps
  <2> QED
    BY <2>1, <2>2, <2>3, <1>t, InFew, PlainAnswer DEF TalkTypes
<1>4. CASE ReceiveError(p)
  <2> DEFINE x == Bare("query")
  <2> DEFINE ms == IF Eager(p) THEN <<x>> ELSE <<>>
  <2>1. Answer(p, ms) /\ wire[p] # <<>> /\ Head(wire[p]).kind = "error"
    BY <1>4 DEF ReceiveError, Receives
  <2>2. x \in Messages /\ x.kind = "query"
    BY MessageTypes
  <2>3. UNCHANGED <<otrPolicy, msgstate, key, exchangeVars, lastMessage, smpStep, noteVars, outcomeVars>>
    BY <1>4 DEF ReceiveError
  <2> HIDE DEF x
  <2>4. ms \in Seq(Messages) /\ \A m : In(ms, m) => m = x
    BY <2>2, InFew
  <2> QED
    BY <2>1, <2>2, <2>3, <2>4, <1>t, PlainAnswer DEF TalkTypes
<1>5. CASE ReceiveSMP(p)
  <2> DEFINE kind == Head(wire[p]).kind
  <2> DEFINE ms == SMPAnswer(p, kind)
  <2>1. Answer(p, ms) /\ wire[p] # <<>> /\ kind \in SMPKinds
    BY <1>5 DEF ReceiveSMP, Receives, Expected, SMPKinds
  <2>2. UNCHANGED <<otrPolicy, msgstate, key, exchangeVars, lastMessage, noteVars, outcomeVars>>
    BY <1>5 DEF ReceiveSMP
  <2>3. smpStep' \in [Talkers -> Steps]
    <3>1. Reached[kind] \in Steps
      BY <2>1 DEF Reached, Steps, SMPKinds
    <3> QED
      BY <1>5, <1>t, <3>1 DEF ReceiveSMP, TalkTypes
  <2>4. ms \in Seq(Messages) /\ \A m : In(ms, m) => m.kind \in SMPKinds
    <3> DEFINE x == Keyed("smp3", key[p], Nobody)
               y == Keyed("smp4", key[p], Nobody)
    <3>1. key[p] \in Nat
      BY <1>t DEF TalkTypes
    <3>2. x \in Messages /\ x.kind = "smp3" /\ y \in Messages /\ y.kind = "smp4"
      BY <1>t, <3>1, MessageTypes DEF KeyedKinds, SMPKinds
    <3>3. ms = <<>> \/ ms = <<x>> \/ ms = <<y>>
      BY <2>1 DEF SMPAnswer
    <3> HIDE DEF ms, x, y
    <3> QED
      BY <3>2, <3>3, InPair DEF SMPKinds
  <2> HIDE DEF ms
  <2> QED
    BY <2>1, <2>2, <2>3, <2>4, <1>t, PlainAnswer DEF TalkTypes, SMPKinds
<1>6. CASE UnexpectedSMP(p) \/ ReceiveAbort(p)
  <2> DEFINE x == Abort(p)
  <2>1. Answer(p, <<x>>) /\ wire[p] # <<>> /\ Head(wire[p]).kind \in SMPKinds \cup {"abort"}
    BY <1>6 DEF UnexpectedSMP, ReceiveAbort, Receives, Expected, SMPKinds
  <2>2. UNCHANGED <<otrPolicy, msgstate, key, exchangeVars, lastMessage, noteVars, seen, raw>>
    BY <1>6 DEF UnexpectedSMP, ReceiveAbort
  <2>3. /\ smpStep' \in [Talkers -> Steps] /\ aborting' \subseteq Talkers
        /\ echoed' \subseteq Talkers
    BY <1>6, <1>t DEF UnexpectedSMP, ReceiveAbort, TalkTypes, Steps
  <2>4. x \in Messages /\ x.kind = "abort"
    BY <1>t, MessageTypes DEF TalkTypes, KeyedKinds, Abort
  <2> HIDE DEF x
  <2>5. <<x>> \in Seq(Messages) /\ \A m : In(<<x>>, m) => m = x
    BY <2>4, InFew
  <2> QED
    BY <2>1, <2>2, <2>3, <2>4, <2>5, <1>t, PlainAnswer DEF TalkTypes, SMPKinds
<1> QED
  BY <1>1, <1>2, <1>3, <1>4, <1>5, <1>6

\* A key exchange is completed; the text that waited for it travels under the new key.
LEMMA KeyArrives ==
    ASSUME TalkInv, NEW p \in Talkers, ReceiveKey(p)
    PROVE  TalkInv'
<1> DEFINE msg == Head(wire[p])
           x == Keyed("sig", msg.key, Nobody)
           y == Keyed("data", msg.key, lastMessage[p])
           sig == IF msg.kind = "dh" THEN <<x>> ELSE <<>>
           again == IF lastMessage[p] # Nobody THEN <<y>> ELSE <<>>
<1>t. TalkTypes /\ Nobody = 0
  BY DEF TalkInv, Nobody
<1>1. /\ wire[p] # <<>> /\ msg.kind \in {"dh", "sig"} /\ Answer(p, sig \o again)
      /\ key' = [key EXCEPT ![p] = msg.key]
      /\ offered' = [offered EXCEPT ![p] = 0]
      /\ msgstate' = [msgstate EXCEPT ![p] = "ENCRYPTED"]
      /\ smpStep' = [smpStep EXCEPT ![p] = IF msgstate[p] = "ENCRYPTED" THEN smpStep[p] ELSE "idle"]
      /\ lastMessage' = [lastMessage EXCEPT ![p] = Nobody]
      /\ UNCHANGED <<otrPolicy, exchanges, noteVars, outcomeVars>>
  BY <1>t DEF ReceiveKey, Receives, TalkTypes
<1>2. msg \in Messages /\ msg.key \in Nat
  <2>1. msg \in Messages
    BY <1>t, <1>1, InTail DEF TalkTypes, Wires
  <2> QED
    BY <1>1, <2>1 DEF Messages
<1>3. lastMessage[p] \in 0 .. written /\ written \in Nat
  BY <1>t DEF TalkTypes
<1>4. /\ x \in Messages /\ x.kind = "sig"
      /\ y \in Messages /\ y.kind = "data" /\ y.id = lastMessage[p]
  BY <1>t, <1>2, <1>3, MessageTypes DEF KeyedKinds
<1> HIDE DEF x, y, msg
<1>5. /\ sig \in Seq(Messages) /\ again \in Seq(Messages)
      /\ \A m : In(sig, m) => m = x
      /\ \A m : In(again, m) => m = y
  BY <1>4, InFew
<1> HIDE DEF sig, again
<1>6. sig \o again \in Seq(Messages) /\ \A m : In(sig \o again, m) => m \in {x, y}
  BY <1>5, InConcat
<1>7. \A m : In(sig \o again, m) => Fair(m)
  BY <1>t, <1>3, <1>4, <1>6 DEF Fair, TalkTypes
<1>8. /\ wire' \in Wires
      /\ Legible' /\ SecretsAreSealed' /\ TextsAreAccounted'
  BY <1>1, <1>6, <1>7, ArrivalKeeps DEF noteVars, outcomeVars, msg
<1>9. TalkTypes'
  BY <1>t, <1>1, <1>2, <1>3, <1>8 DEF TalkTypes, noteVars, outcomeVars, Steps
<1> QED
  BY <1>8, <1>9 DEF TalkInv

\* A text arrives, in the clear or encrypted, readable or not: it is seen.
LEMMA TextArrives ==
    ASSUME TalkInv, NEW p \in Talkers,
           ReceiveText(p) \/ ReceiveDisguised(p) \/ ReceiveData(p) \/ ShownRaw(p)
    PROVE  TalkInv'
<1> DEFINE msg == Head(wire[p])
<1>t. TalkTypes /\ Legible /\ Nobody = 0
  BY DEF TalkInv, Nobody
<1>1. /\ wire[p] # <<>>
      /\ msg.kind \in {"text", "data"} => msg.id \in seen'
      /\ seen \subseteq seen'
      /\ seen' = seen \/ (msg.kind \in {"text", "data", "disguised"} /\ seen' = seen \cup {msg.id})
      /\ raw' \in BOOLEAN
      /\ UNCHANGED <<otrPolicy, msgstate, key, lastMessage, smpStep, aborting, echoed>>
      /\ UNCHANGED <<written, secret, careless, disguised, unsent, readable, told>>
  BY <1>t DEF ReceiveText, ReceiveDisguised, ReceiveData, ShownRaw, Receives, PlainSeen, noteVars, TalkTypes
<1>2. talkCalls' \in Nat
  BY <1>t DEF ReceiveText, ReceiveDisguised, ReceiveData, ShownRaw, noteVars, TalkTypes
<1>3. seen' \subseteq 0 .. written
  <2>1. Travels(wire, msg)
    BY <1>t, <1>1, InTail DEF TalkTypes, Wires, Travels
  <2>2. msg.kind \in {"text", "data", "disguised"} => msg.id \in 0 .. written
    BY <1>t, <2>1 DEF Legible, Fair
  <2>3. seen \subseteq 0 .. written
    BY <1>t DEF TalkTypes
  <2> HIDE DEF msg
  <2> QED
    BY <1>1, <2>2, <2>3
<1>4. PICK ms \in Seq(Messages) : Answer(p, ms) /\ \A m : In(ms, m) => Fair(m)
  <2>1. key[p] \in Nat /\ exchanges + 1 \in Nat
    BY <1>t DEF TalkTypes
  <2> DEFINE a == Keyed("dh", exchanges + 1, Nobody)
             b == Bare("error")
             c == Keyed("data", key[p], Nobody)
             d == Text(Nobody, FALSE)
             e == Bare("query")
  <2>2. /\ a \in Messages /\ a.kind = "dh" /\ b \in Messages /\ b.kind = "error"
        /\ c \in Messages /\ c.id = Nobody /\ d \in Messages /\ d.id = Nobody
        /\ e \in Messages /\ e.kind = "query"
    <3>1. a \in Messages /\ a.kind = "dh"
      BY <1>t, <2>1, MessageTypes DEF KeyedKinds
    <3>2. b \in Messages /\ b.kind = "error"
      BY MessageTypes
    <3>3. c \in Messages /\ c.id = Nobody
      BY <1>t, <2>1, MessageTypes DEF KeyedKinds
    <3>4. d \in Messages /\ d.id = Nobody
      BY <1>t, MessageTypes
    <3>5. e \in Messages /\ e.kind = "query"
      BY MessageTypes
    <3> QED
      BY <3>1, <3>2, <3>3, <3>4, <3>5
  <2>3. \/ Answer(p, <<>>) \/ Answer(p, <<a>>) \/ Answer(p, <<b>>) \/ Answer(p, <<c, d>>)
        \/ Answer(p, <<d>>) \/ Answer(p, <<e>>)
    <3>1. CASE ReceiveText(p) \/ ReceiveData(p) \/ ShownRaw(p)
      BY <3>1 DEF ReceiveText, ReceiveData, ShownRaw, Begin
    <3>2. CASE ReceiveDisguised(p)
      <4>1. \/ Begin(p)
            \/ /\ msg.as \in Disguises \ {"query"}
               /\ Answer(p, CASE msg.as = "error" -> IF Eager(p) THEN <<Bare("query")>> ELSE <<>>
                              [] msg.as = "data" -> <<Bare("error")>>
                              [] msg.as = "unknown" -> <<Text(Nobody, FALSE)>>)
        <5>1. msg \in Messages /\ msg.kind = "disguised"
          BY <1>t, <3>2, InTail DEF ReceiveDisguised, Receives, TalkTypes, Wires
        <5>2. msg.as \in Disguises
          BY <5>1 DEF Messages, KeyedKinds, SMPKinds
        <5> QED
          BY <3>2, <5>2 DEF ReceiveDisguised
      <4>2. CASE Begin(p)
        BY <4>2 DEF Begin
      <4>3. CASE msg.as = "error" /\ Answer(p, IF Eager(p) THEN <<Bare("query")>> ELSE <<>>)
        BY <4>3
      <4>4. CASE msg.as = "data" /\ Answer(p, <<Bare("error")>>)
        BY <4>4
      <4>5. CASE msg.as = "unknown" /\ Answer(p, <<Text(Nobody, FALSE)>>)
        BY <4>5
      <4> QED
        BY <4>1, <4>2, <4>3, <4>4, <4>5 DEF Disguises
    <3> QED
      BY <3>1, <3>2
  <2> HIDE DEF a, b, c, d, e
  <2>4. Fair(a) /\ Fair(b) /\ Fair(c) /\ Fair(d) /\ Fair(e)
    BY <1>t, <2>2 DEF Fair, TalkTypes
  <2>5. ASSUME NEW x \in {a, b, c, d, e}, NEW ms, ms = <<>> \/ ms = <<x>> \/ ms = <<x, d>>
        PROVE  ms \in Seq(Messages) /\ \A m : In(ms, m) => Fair(m)
    BY <2>2, <2>4, <2>5, InPair
  <2> QED
    BY <2>3, <2>5
<1>5. exchanges' \in Nat /\ offered' \in [Talkers -> Nat]
  <2>1. \/ UNCHANGED exchangeVars
        \/ exchanges' = exchanges + 1 /\ offered' = [offered EXCEPT ![p] = exchanges + 1]
    BY DEF ReceiveText, ReceiveDisguised, ReceiveData, ShownRaw, Begin
  <2>2. exchanges \in Nat /\ offered \in [Talkers -> Nat]
    BY <1>t DEF TalkTypes
  <2>3. CASE UNCHANGED exchangeVars
    BY <2>2, <2>3 DEF exchangeVars
  <2>4. CASE exchanges' = exchanges + 1 /\ offered' = [offered EXCEPT ![p] = exchanges + 1]
    BY <2>2, <2>4
  <2> QED
    BY <2>1, <2>3, <2>4
<1> HIDE DEF msg
<1>6. /\ wire' \in Wires
      /\ Legible' /\ SecretsAreSealed' /\ TextsAreAccounted'
  BY <1>1, <1>4, ArrivalKeeps DEF msg
<1>7. TalkTypes'
  BY <1>t, <1>1, <1>2, <1>3, <1>5, <1>6 DEF TalkTypes
<1> QED
  BY <1>6, <1>7 DEF TalkInv

\* A text is sent: in the clear where that is known, encrypted, or not at all.
LEMMA TextIsSent ==
    ASSUME TalkInv, NEW p \in Talkers, SendMessage(p)
    PROVE  TalkInv'
<1> DEFINE t == written + 1
<1>t. TalkTypes /\ Legible /\ SecretsAreSealed /\ TextsAreAccounted /\ Nobody = 0
  BY DEF TalkInv, Nobody
<1>1. PICK m \in Outgoing(p, t), sent \in BOOLEAN :
         /\ Sends(p, IF sent THEN <<m>> ELSE <<>>)
         /\ readable' = IF sent /\ m.kind \in {"text", "disguised"} /\ m.id = t
                        THEN readable \cup {t} ELSE readable
         /\ told' = IF sent /\ ~IsQuery(m) THEN told \cup {t} ELSE told
         /\ lastMessage' = [lastMessage EXCEPT ![p] = IF m.kind = "query" THEN t ELSE @]
         /\ disguised' = IF m.kind = "disguised" THEN disguised \cup {t} ELSE disguised
         /\ unsent' = IF m.kind # "disguised"
                         /\ (m.kind = "error" \/ msgstate[p] = "FINISHED")
                      THEN unsent \cup {t} ELSE unsent
  BY DEF SendMessage
<1> DEFINE ms == IF sent THEN <<m>> ELSE <<>>
<1>2. /\ written' = t
      /\ UNCHANGED <<otrPolicy, msgstate, key, exchangeVars, smpStep, talkCalls, outcomeVars>>
      /\ secret' = IF msgstate[p] # "PLAINTEXT" \/ otrPolicy[p] = "always"
                   THEN secret \cup {t} ELSE secret
      /\ careless' = IF otrPolicy[p] = "never" THEN careless \cup {t} ELSE careless
  BY DEF SendMessage, Writes
<1>3. written \in Nat /\ t \in Nat /\ t # Nobody /\ t \notin 1 .. written
  BY <1>t DEF TalkTypes
<1>4. /\ otrPolicy[p] \in Policies /\ msgstate[p] \in {"PLAINTEXT", "ENCRYPTED", "FINISHED"}
      /\ key[p] \in Nat
  BY <1>t DEF TalkTypes
<1> HIDE DEF t
\* What is made of the text.
<1>5. /\ m \in Messages /\ m.kind \in {"text", "data", "query", "error", "disguised"}
      /\ m.kind = "data" => m.id = t
      /\ m.kind = "text" => m.id = t \/ (msgstate[p] = "FINISHED" /\ m.id = Nobody)
      /\ m.kind = "text" /\ m.id = t =>
            otrPolicy[p] = "never" \/ (otrPolicy[p] # "always" /\ msgstate[p] = "PLAINTEXT")
      /\ m.kind = "disguised" => m.id = t
  <2>1. CASE m \in {Disguised(t, as) : as \in Disguises}
    <3>1. PICK as \in Disguises : m = Disguised(t, as)
      BY <2>1
    <3>2. /\ Disguised(t, as) \in Messages
          /\ Disguised(t, as).kind = "disguised" /\ Disguised(t, as).id = t
      <4>1. t \in Nat
        BY <1>3
      <4> QED
        BY <4>1 DEF Disguised, Messages
    <3>3. m \in Messages /\ m.kind = "disguised" /\ m.id = t
      BY <3>1, <3>2
    <3> QED
      BY <3>3
  <2>2. CASE m \in Encrypted(p, t) /\ otrPolicy[p] = "never"
    <3>1. m = Text(t, FALSE)
      BY <2>2 DEF Encrypted
    <3>2. m \in Messages /\ m.kind = "text" /\ m.id = t
      BY <1>3, <3>1, MessageTypes
    <3> QED
      BY <2>2, <3>2
  <2>3. CASE m \in Encrypted(p, t) /\ otrPolicy[p] # "never" /\ msgstate[p] = "ENCRYPTED"
    <3>1. m = Keyed("data", key[p], t) \/ m = Bare("error")
      BY <2>3 DEF Encrypted
    <3>2. /\ Keyed("data", key[p], t) \in Messages
          /\ Keyed("data", key[p], t).kind = "data" /\ Keyed("data", key[p], t).id = t
          /\ Bare("error") \in Messages /\ Bare("error").kind = "error"
      BY <1>3, <1>4, MessageTypes DEF KeyedKinds
    <3>3. CASE m = Keyed("data", key[p], t)
      BY <3>2, <3>3
    <3>4. CASE m = Bare("error")
      BY <3>2, <3>4
    <3> QED
      BY <3>1, <3>3, <3>4
  <2>4. CASE m \in Encrypted(p, t) /\ otrPolicy[p] # "never" /\ msgstate[p] = "FINISHED"
    <3>1. m = Text(Nobody, FALSE)
      BY <2>4 DEF Encrypted
    <3>2. m \in Messages /\ m.kind = "text" /\ m.id = Nobody
      BY <1>t, <3>1, MessageTypes
    <3> QED
      BY <1>3, <2>4, <3>2
  <2>5. CASE m \in Encrypted(p, t) /\ otrPolicy[p] # "never" /\ msgstate[p] = "PLAINTEXT"
    <3>1. m \in IF otrPolicy[p] = "always" THEN {Bare("query")}
               ELSE {Text(t, tagged) : tagged \in {FALSE, otrPolicy[p] = "opportunistic"}}
      BY <2>5 DEF Encrypted
    <3>2. CASE otrPolicy[p] = "always"
      <4>1. m \in Messages /\ m.kind = "query"
        BY <3>1, <3>2, MessageTypes
      <4> QED
        BY <4>1
    <3>3. CASE otrPolicy[p] # "always"
      <4>1. PICK tagged \in BOOLEAN : m = Text(t, tagged)
        BY <3>1, <3>3
      <4>2. m \in Messages /\ m.kind = "text" /\ m.id = t
        BY <1>3, <4>1, MessageTypes
      <4> QED
        BY <2>5, <3>3, <4>2
    <3> QED
      BY <3>2, <3>3
  <2> QED
    BY <1>4, <2>1, <2>2, <2>3, <2>4, <2>5 DEF Outgoing
<1>6. /\ Sends(p, ms)
      /\ lastMessage' = [lastMessage EXCEPT ![p] = IF m.kind = "query" THEN t ELSE lastMessage[p]]
  BY <1>1, <1>t DEF TalkTypes
<1>7. ms \in Seq(Messages) /\ \A x : In(ms, x) <=> sent /\ x = m
  BY <1>5, InFew
<1> HIDE DEF ms
<1>8. wire \in Wires /\ wire' \in Wires /\ \A x : Travels(wire', x) <=> Travels(wire, x) \/ (sent /\ x = m)
  BY <1>t, <1>6, <1>7, Posted DEF TalkTypes
<1>9. TalkTypes'
  BY <1>t, <1>1, <1>2, <1>3, <1>6, <1>8 DEF TalkTypes, exchangeVars, outcomeVars, t
<1>10. Legible'
  <2> SUFFICES ASSUME NEW x, Travels(wire', x) PROVE Fair(x)'
    BY DEF Legible
  <2>1. CASE Travels(wire, x)
    BY <1>t, <1>1, <1>2, <1>3, <2>1 DEF Legible, Fair, TalkTypes, t
  <2>2. CASE sent /\ x = m
    BY <1>t, <1>1, <1>2, <1>3, <1>5, <2>2 DEF Fair
  <2> QED
    BY <1>8, <2>1, <2>2
<1>11. SecretsAreSealed'
  BY <1>t, <1>1, <1>2, <1>3, <1>5 DEF SecretsAreSealed, TalkTypes
<1>12. TextsAreAccounted'
  <2> SUFFICES ASSUME NEW u \in told' \ (unsent' \cup disguised') PROVE u \in seen' \/ Underway(wire', u)
    BY <1>8, OnWireTravels DEF TextsAreAccounted
  <2>1. CASE u \in told
    <3>1. u \in told \ (unsent \cup disguised)
      BY <1>1, <2>1
    <3>2. u \in seen \/ Underway(wire, u)
      BY <1>t, <1>8, <3>1, OnWireTravels DEF TextsAreAccounted
    <3> QED
      BY <1>2, <1>8, <3>2 DEF Underway, outcomeVars
  <2>2. CASE u \notin told
    <3>1. /\ u = t /\ sent /\ m.kind \notin {"query", "disguised", "error"}
          /\ msgstate[p] # "FINISHED"
      BY <1>1, <2>2 DEF IsQuery
    <3> QED
      BY <1>5, <1>8, <3>1 DEF Underway
  <2> QED
    BY <2>1, <2>2
<1> QED
  BY <1>9, <1>10, <1>11, <1>12 DEF TalkInv

\* libotr fails: nothing goes out, and nothing of it is shown as sent.
LEMMA TextIsRefused ==
    ASSUME TalkInv, NEW p \in Talkers, EncryptionFails(p)
    PROVE  TalkInv'
<1>t. TalkTypes /\ Legible /\ SecretsAreSealed /\ TextsAreAccounted
  BY DEF TalkInv
<1>1. /\ written' = written + 1
      /\ secret' \subseteq secret \cup {written + 1}
      /\ careless' \subseteq careless \cup {written + 1} /\ careless \subseteq careless'
      /\ UNCHANGED <<otrPolicy, msgstate, key, exchangeVars, lastMessage, smpStep, wire,
                     talkCalls, disguised, unsent, readable, told, outcomeVars>>
  BY DEF EncryptionFails, Writes
<1>2. TalkTypes'
  BY <1>t, <1>1 DEF TalkTypes, exchangeVars, outcomeVars
<1>3. Legible'
  BY <1>t, <1>1 DEF Legible, Fair, TalkTypes
<1>4. SecretsAreSealed'
  BY <1>t, <1>1 DEF SecretsAreSealed, TalkTypes
<1>5. TextsAreAccounted'
  BY <1>t, <1>1 DEF TextsAreAccounted, OnWire, outcomeVars
<1> QED
  BY <1>2, <1>3, <1>4, <1>5 DEF TalkInv

\* The other calls of the clients.
LEMMA ClientCalls ==
    ASSUME TalkInv, NEW p \in Talkers,
           \/ initialize(p) \/ stop(p) \/ startPeerAuthentication(p)
           \/ respondPeerAuthentication(p) \/ abortPeerAuthentication(p)
    PROVE  TalkInv'
<1>t. TalkTypes /\ Nobody = 0 /\ key[p] \in Nat
  BY DEF TalkInv, TalkTypes, Nobody
<1>1. PICK x \in Messages : x.kind \notin {"text", "data", "disguised"} /\ (Sends(p, <<x>>) \/ Sends(p, <<>>))
  <2>1. CASE initialize(p)
    <3>1. Bare("query") \in Messages /\ Bare("query").kind = "query"
      BY MessageTypes
    <3> QED
      BY <2>1, <3>1 DEF initialize
  <2>2. ASSUME NEW kind \in KeyedKinds \ {"data"},
               Sends(p, <<Keyed(kind, key[p], Nobody)>>) \/ Sends(p, <<>>)
        PROVE  \E x \in Messages : /\ x.kind \notin {"text", "data", "disguised"}
                                   /\ Sends(p, <<x>>) \/ Sends(p, <<>>)
    <3>1. /\ Keyed(kind, key[p], Nobody) \in Messages
          /\ Keyed(kind, key[p], Nobody).kind = kind
      BY <1>t, MessageTypes
    <3>2. kind \notin {"text", "data", "disguised"}
      BY DEF KeyedKinds, SMPKinds
    <3> QED
      BY <2>2, <3>1, <3>2
  <2>3. CASE stop(p)
    <3>1. Sends(p, <<Keyed("end", key[p], Nobody)>>) \/ Sends(p, <<>>)
      BY <2>3 DEF stop
    <3> QED
      BY <2>2, <3>1 DEF KeyedKinds
  <2>4. CASE startPeerAuthentication(p)
    <3>1. Sends(p, <<Keyed("smp1", key[p], Nobody)>>)
      BY <2>4 DEF startPeerAuthentication
    <3> QED
      BY <2>2, <3>1 DEF KeyedKinds, SMPKinds
  <2>5. CASE respondPeerAuthentication(p)
    <3>1. Sends(p, <<Keyed("smp2", key[p], Nobody)>>)
      BY <2>5 DEF respondPeerAuthentication
    <3> QED
      BY <2>2, <3>1 DEF KeyedKinds, SMPKinds
  <2>6. CASE abortPeerAuthentication(p)
    <3>1. Sends(p, <<Keyed("abort", key[p], Nobody)>>)
      BY <2>6 DEF abortPeerAuthentication, Abort
    <3> QED
      BY <2>2, <3>1 DEF KeyedKinds
  <2> QED
    BY <2>1, <2>3, <2>4, <2>5, <2>6
<1>2. PICK ms \in Seq(Messages) : Sends(p, ms) /\ \A m : In(ms, m) => m.kind \notin {"text", "data", "disguised"}
  <2>1. PICK y \in Messages : /\ y.kind \notin {"text", "data", "disguised"}
                              /\ Sends(p, <<y>>) \/ Sends(p, <<>>)
    BY <1>1
  <2>2. /\ <<y>> \in Seq(Messages) /\ \A m : In(<<y>>, m) => m = y
        /\ <<>> \in Seq(Messages) /\ \A m : ~In(<<>>, m)
    BY <2>1, InFew
  <2> QED
    BY <2>1, <2>2
<1>3. /\ UNCHANGED <<otrPolicy, key, lastMessage, exchangeVars, seen, raw, echoed>>
      /\ UNCHANGED <<written, secret, careless, disguised, unsent, readable, told>>
  BY DEF initialize, stop, startPeerAuthentication, respondPeerAuthentication,
         abortPeerAuthentication, Call, noteVars, outcomeVars
<1>4. talkCalls' \in Nat
  BY <1>t DEF initialize, stop, startPeerAuthentication, respondPeerAuthentication,
         abortPeerAuthentication, Call, noteVars, TalkTypes
<1>5. /\ msgstate' \in [Talkers -> {"PLAINTEXT", "ENCRYPTED", "FINISHED"}]
      /\ smpStep' \in [Talkers -> Steps] /\ aborting' \subseteq Talkers
  BY <1>t DEF initialize, stop, startPeerAuthentication, respondPeerAuthentication,
         abortPeerAuthentication, outcomeVars, TalkTypes, Steps
<1> QED
  BY <1>2, <1>3, <1>4, <1>5, PlainCall

\* A change of policy touches nothing that was said.
LEMMA PolicyChanges ==
    ASSUME TalkInv, NEW p \in Talkers, NEW policy \in TalkPolicies, setPolicy(p, policy)
    PROVE  TalkInv'
<1>1. policy \in Policies
  BY TalkAssumption DEF Policies
<1>2. /\ otrPolicy' = [otrPolicy EXCEPT ![p] = policy] /\ talkCalls' = talkCalls + 1
      /\ UNCHANGED <<msgstate, key, exchangeVars, lastMessage, smpStep, wire, outcomeVars>>
      /\ UNCHANGED <<written, secret, careless, disguised, unsent, readable, told>>
  BY DEF setPolicy, Call
<1>3. TalkTypes'
  BY <1>1, <1>2 DEF TalkInv, TalkTypes, exchangeVars, outcomeVars
<1>4. Legible' /\ SecretsAreSealed' /\ TextsAreAccounted'
  BY <1>2 DEF TalkInv, Legible, Fair, SecretsAreSealed, TextsAreAccounted, OnWire, outcomeVars
<1> QED
  BY <1>3, <1>4 DEF TalkInv

\* It holds at first, and every step keeps it.
LEMMA TalkBegins == TalkInit => TalkInv
<1> SUFFICES ASSUME TalkInit PROVE TalkInv
  OBVIOUS
<1>1. \A q \in Talkers : wire[q] = <<>>
  BY DEF TalkInit
<1>2. \A m : ~Travels(wire, m)
  BY <1>1 DEF Travels, In
<1>3. TalkTypes
  <2>1. otrPolicy \in [Talkers -> Policies]
    BY TalkAssumption DEF TalkInit, Policies
  <2>2. wire \in Wires
    <3>1. <<>> \in Seq(Messages)
      BY InFew
    <3> QED
      BY <3>1 DEF TalkInit, Wires
  <2>3. 0 \in 0 .. 0 /\ {} \subseteq 1 .. 0 /\ {} \subseteq 0 .. 0 /\ 0 \in Nat
    OBVIOUS
  <2>4. /\ lastMessage \in [Talkers -> 0 .. written] /\ key \in [Talkers -> Nat]
        /\ offered \in [Talkers -> Nat]
        /\ msgstate \in [Talkers -> {"PLAINTEXT", "ENCRYPTED", "FINISHED"}]
        /\ smpStep \in [Talkers -> Steps]
    BY <2>3 DEF TalkInit, Nobody, Steps
  <2> QED
    BY <2>1, <2>2, <2>3, <2>4 DEF TalkInit, TalkTypes
<1> QED
  BY <1>2, <1>3 DEF TalkInit, TalkInv, Legible, SecretsAreSealed, TextsAreAccounted

LEMMA TalkGoesOn == TalkInv /\ [TalkNext]_talkVars => TalkInv'
<1> SUFFICES ASSUME TalkInv, [TalkNext]_talkVars PROVE TalkInv'
  OBVIOUS
<1>1. ASSUME NEW p \in Talkers, Arrives(p) PROVE TalkInv'
  BY <1>1, ControlArrives, KeyArrives, TextArrives DEF Arrives
<1>2. ASSUME NEW p \in Talkers, Calls(p) PROVE TalkInv'
  BY <1>2, TextIsSent, TextIsRefused, ClientCalls, PolicyChanges DEF Calls
<1>3. CASE UNCHANGED talkVars
  BY <1>3 DEF talkVars, exchangeVars, noteVars, outcomeVars, TalkInv, TalkTypes, Legible, Fair,
              SecretsAreSealed, TextsAreAccounted, OnWire
<1> QED
  BY <1>1, <1>2, <1>3 DEF TalkNext

\* Texts of a private conversation never travel in the clear, and what a client
\* showed as sent is on its way or was shown to the receiver or excused: for any
\* policies, changes of policy, key exchanges and numbers of texts.
THEOREM TextsAreKept == TalkSpec => [](SecretsAreSealed /\ TextsAreAccounted)
<1>1. TalkInv => SecretsAreSealed /\ TextsAreAccounted
  BY DEF TalkInv
<1> QED
  BY <1>1, TalkBegins, TalkGoesOn, PTL DEF TalkSpec

\* Part of it: once a conversation is private, what is written in it goes out encrypted.
THEOREM SecretsStaySealed == TalkSpec => []SecretsAreSealed
BY TextsAreKept, PTL

-----------------------------------------------------------------------------
(* The authentication of a conversation with one key.                      *)

Of(kinds) == {m \in Messages : m.kind \in kinds}
KeyedMessages == Of(KeyedKinds)
OtherKeys == {m \in KeyedMessages : m.key # 1}
Holds(p, kind) == Has(wire[p], Of({kind}))
Unkeyed(p) == ~Has(wire[p], KeyedMessages)
Plain(p) == msgstate[p] = "PLAINTEXT" /\ smpStep[p] = "idle"

\* What p waits for is on its way, or something that ends the authentication.
GoesOn(p) ==
    \/ \E q \in Talkers : Holds(q, "abort")
    \/ /\ smpStep[p] = "sent1" =>
            \/ Holds(p, "smp1") \/ Holds(Other(p), "smp1") \/ smpStep[Other(p)] = "asked"
            \/ Holds(p, "smp2")
       /\ smpStep[p] = "sent2" => Holds(Other(p), "smp2") \/ Holds(p, "smp3")
       /\ smpStep[p] = "sent3" => Holds(Other(p), "smp3") \/ Holds(p, "smp4")

\* The stages of the only key exchange, which b began: none yet; offered; accepted by the
\* other, whose "sig" comes before all that needs the key; agreed.
NoExchange ==
    /\ exchanges = 0
    /\ \A p \in Talkers : offered[p] = 0 /\ Plain(p) /\ Unkeyed(p)

Offering(b) ==
    /\ exchanges = 1 /\ offered[b] = 1 /\ offered[Other(b)] = 0
    /\ \A p \in Talkers : Plain(p)
    /\ Unkeyed(b)
    /\ Once(wire[Other(b)], KeyedMessages)
    /\ ~Has(wire[Other(b)], KeyedMessages \ Of({"dh"}))

Accepted(b) ==
    /\ exchanges = 1 /\ offered[b] = 1 /\ key[Other(b)] = 1
    /\ Plain(b) /\ Unkeyed(Other(b))
    /\ Holds(b, "sig") /\ FirstIn(wire[b], KeyedMessages, Of({"sig"}))
    /\ Once(wire[b], Of({"dh", "sig"})) /\ ~Holds(b, "dh")
    /\ msgstate[Other(b)] = "ENCRYPTED" => GoesOn(Other(b))

Private ==
    /\ exchanges = 1
    /\ \A p \in Talkers : key[p] = 1 /\ ~Has(wire[p], Of({"dh", "sig"}))
    /\ (\A p \in Talkers : msgstate[p] = "ENCRYPTED") => \A p \in Talkers : GoesOn(p)

AuthenticationInv ==
    exchanges <= 1 /\ raw = FALSE =>
        /\ \A p \in Talkers : ~Has(wire[p], OtherKeys)
        /\ NoExchange \/ Private \/ \E b \in Talkers : Offering(b) \/ Accepted(b)

-----------------------------------------------------------------------------
(* Wires.                                                                  *)

\* There are two people.
LEMMA TwoPeople ==
    ASSUME NEW p \in Talkers
    PROVE  /\ Other(p) \in Talkers /\ Other(p) # p /\ Other(Other(p)) = p
           /\ \A q \in Talkers : q = p \/ q = Other(p)
<1> DEFINE others == Talkers \ {p}
<1>1. IsFiniteSet(others) /\ Cardinality(others) = 1
  BY TalkAssumption, FS_RemoveElement
<1> HIDE DEF others
<1>2. \E q : others = {q}
  BY <1>1, FS_Singleton
<1>3. PICK o : others = {o}
  BY <1>2
<1>4. \A q \in Talkers : q = p \/ q = o
  BY <1>3 DEF others
<1>5. Other(p) \in Talkers /\ Other(p) # p
  BY TheOther
<1>6. Other(p) = o
  BY <1>4, <1>5
<1>7. Other(Other(p)) \in Talkers /\ Other(Other(p)) # Other(p)
  BY <1>5, TheOther
<1> QED
  BY <1>4, <1>5, <1>6, <1>7

\* What a person takes, and what the other gets.
LEMMA WiresTaken ==
    ASSUME TalkTypes, NEW p \in Talkers, wire[p] # <<>>, NEW ms \in Seq(Messages), Answer(p, ms)
    PROVE  /\ wire'[p] = Tail(wire[p]) /\ wire'[Other(p)] = wire[Other(p)] \o ms
           /\ \A q \in Talkers : wire[q] \in Seq(Messages)
           /\ Head(wire[p]) \in Messages
<1>1. Other(p) \in Talkers /\ Other(p) # p
  BY TheOther
<1>2. \A q \in Talkers : wire[q] \in Seq(Messages)
  BY DEF TalkTypes, Wires
<1>3. Head(wire[p]) \in Messages
  BY <1>2, HeadTailProperties
<1> QED
  BY <1>1, <1>2, <1>3 DEF TalkTypes, Wires, Answer

LEMMA WiresSent ==
    ASSUME TalkTypes, NEW p \in Talkers, NEW ms, Sends(p, ms)
    PROVE  /\ wire'[p] = wire[p] /\ wire'[Other(p)] = wire[Other(p)] \o ms
           /\ \A q \in Talkers : wire[q] \in Seq(Messages)
<1>1. Other(p) \in Talkers /\ Other(p) # p
  BY TheOther
<1> QED
  BY <1>1 DEF TalkTypes, Wires, Sends

\* What is in short sequences.
LEMMA HasFew ==
    /\ <<>> \in Seq(Messages) /\ \A S : ~Has(<<>>, S)
    /\ \A x \in Messages : <<x>> \in Seq(Messages) /\ \A S : Has(<<x>>, S) <=> x \in S
    /\ \A x, y \in Messages :
          <<x, y>> \in Seq(Messages) /\ \A S : Has(<<x, y>>, S) <=> x \in S \/ y \in S
<1>1. <<>> \in Seq(Messages) /\ \A S : ~Has(<<>>, S)
  BY DEF Has
<1>2. ASSUME NEW x \in Messages PROVE <<x>> \in Seq(Messages) /\ \A S : Has(<<x>>, S) <=> x \in S
  BY DEF Has
<1>3. ASSUME NEW x \in Messages, NEW y \in Messages
      PROVE <<x, y>> \in Seq(Messages) /\ \A S : Has(<<x, y>>, S) <=> x \in S \/ y \in S
  BY DEF Has
<1> QED
  BY <1>1, <1>2, <1>3

\* The kind and the key of a message.
LEMMA KindOf ==
    /\ \A t \in Nat, b \in BOOLEAN : Text(t, b) \in Messages /\ Text(t, b).kind = "text"
    /\ \A kind \in KeyedKinds, k, t \in Nat :
          /\ Keyed(kind, k, t) \in Messages
          /\ Keyed(kind, k, t).kind = kind /\ Keyed(kind, k, t).key = k
    /\ \A kind \in {"query", "error"} : Bare(kind) \in Messages /\ Bare(kind).kind = kind
    /\ \A t \in Nat, as \in Disguises :
          Disguised(t, as) \in Messages /\ Disguised(t, as).kind = "disguised"
  BY DEF Text, Keyed, Bare, Disguised, Messages

\* What is in a part of a set.
LEMMA HasPart ==
    ASSUME NEW s, NEW S, NEW T, S \subseteq T
    PROVE  (Has(s, S) => Has(s, T)) /\ (~Has(s, T) => ~Has(s, S))
  BY DEF Has

LEMMA NeutralPart ==
    ASSUME NEW A, NEW s, NEW t, NEW S, NEW T, T \subseteq S, Neutral(s, t, A, S)
    PROVE  Neutral(s, t, A, T)
  BY DEF Neutral, Has

\* What comes first stays first.
LEMMA FirstStays ==
    ASSUME NEW A, NEW s \in Seq(A), NEW d \in Seq(A), NEW S, NEW T, FirstIn(s, S, T), Has(s, S)
    PROVE  FirstIn(s \o d, S, T)
<1>1. /\ Len(s) \in Nat /\ Len(d) \in Nat /\ Len(s \o d) = Len(s) + Len(d)
      /\ \A i \in 1 .. Len(s) + Len(d) :
            (s \o d)[i] = IF i <= Len(s) THEN s[i] ELSE d[i - Len(s)]
  BY ConcatProperties
<1>2. \A i \in 1 .. Len(s) : i \in 1 .. Len(s \o d) /\ (s \o d)[i] = s[i]
  BY <1>1
<1>3. PICK h \in 1 .. Len(s) : s[h] \in S
  BY DEF Has
<1> SUFFICES ASSUME NEW k \in 1 .. Len(s \o d), (s \o d)[k] \in S,
                    \A j \in 1 .. Len(s \o d) : j < k => (s \o d)[j] \notin S
             PROVE  (s \o d)[k] \in T
  BY DEF FirstIn
<1>4. ~(h < k)
  BY <1>2, <1>3
<1>5. k \in 1 .. Len(s)
  BY <1>1, <1>4
<1> QED
  BY <1>2, <1>5 DEF FirstIn

-----------------------------------------------------------------------------
(* Steps that touch no message that needs a key.                           *)

AuthenticationVars == <<msgstate, key, exchanges, offered, smpStep>>

LEMMA QuietKept ==
    ASSUME AuthenticationInv, TalkTypes, UNCHANGED AuthenticationVars, raw' = raw,
           \A q \in Talkers : Neutral(wire[q], wire'[q], Messages, KeyedMessages)
    PROVE  AuthenticationInv'
<1> SUFFICES ASSUME exchanges <= 1, raw = FALSE PROVE AuthenticationInv'
  BY DEF AuthenticationInv, AuthenticationVars
<1>1. \A q \in Talkers : wire[q] \in Seq(Messages)
  BY DEF TalkTypes, Wires
<1>2. ASSUME NEW q \in Talkers, NEW S, S \subseteq KeyedMessages
      PROVE  /\ Has(wire'[q], S) <=> Has(wire[q], S)
             /\ Once(wire[q], S) => Once(wire'[q], S)
             /\ \A T : FirstIn(wire[q], S, T) => FirstIn(wire'[q], S, T)
  <2>1. Neutral(wire[q], wire'[q], Messages, S)
    BY <1>2, NeutralPart
  <2> QED
    BY <1>1, <2>1, NeutralKeeps
<1>3. /\ Of({"dh"}) \subseteq KeyedMessages /\ Of({"sig"}) \subseteq KeyedMessages
      /\ Of({"dh", "sig"}) \subseteq KeyedMessages /\ OtherKeys \subseteq KeyedMessages
      /\ KeyedMessages \subseteq KeyedMessages
      /\ KeyedMessages \ Of({"dh"}) \subseteq KeyedMessages
      /\ \A kind \in SMPKinds \cup {"abort"} : Of({kind}) \subseteq KeyedMessages
  BY DEF Of, KeyedMessages, KeyedKinds, OtherKeys
<1>4. /\ \A q \in Talkers : Has(wire'[q], OtherKeys) <=> Has(wire[q], OtherKeys)
      /\ \A q \in Talkers : Unkeyed(q)' <=> Unkeyed(q)
      /\ \A q \in Talkers : \A kind \in SMPKinds \cup {"abort", "sig", "dh"} :
           Holds(q, kind)' <=> Holds(q, kind)
  BY <1>2, <1>3 DEF Unkeyed, Holds
<1>5. \A q \in Talkers : GoesOn(q) => GoesOn(q)'
  BY <1>4, TwoPeople DEF GoesOn, SMPKinds, AuthenticationVars
<1>6. \A q \in Talkers : Plain(q)' <=> Plain(q)
  BY DEF Plain, AuthenticationVars
<1>7. NoExchange => NoExchange'
  BY <1>4, <1>6 DEF NoExchange, AuthenticationVars
<1>8. Private => Private'
  BY <1>2, <1>3, <1>5 DEF Private, AuthenticationVars
<1>9. ASSUME NEW b \in Talkers, Offering(b) PROVE Offering(b)'
  BY <1>2, <1>3, <1>4, <1>6, <1>9, TwoPeople DEF Offering, AuthenticationVars
<1>10. ASSUME NEW b \in Talkers, Accepted(b) PROVE Accepted(b)'
  <2>1. Other(b) \in Talkers
    BY TwoPeople
  <2>2. FirstIn(wire'[b], KeyedMessages, Of({"sig"})) /\ Once(wire'[b], Of({"dh", "sig"}))
    BY <1>2, <1>3, <1>10 DEF Accepted
  <2> QED
    BY <1>4, <1>5, <1>6, <1>10, <2>1, <2>2 DEF Accepted, AuthenticationVars
<1> QED
  BY <1>4, <1>7, <1>8, <1>9, <1>10 DEF AuthenticationInv

-----------------------------------------------------------------------------
(* What arrives.                                                           *)

\* What is appended where nothing of its kind is.
LEMMA ConcatAfterNone ==
    ASSUME NEW A, NEW s \in Seq(A), NEW d \in Seq(A), NEW S, ~Has(s, S)
    PROVE  /\ Once(d, S) => Once(s \o d, S)
           /\ \A T : FirstIn(d, S, T) => FirstIn(s \o d, S, T)
<1> DEFINE n == Len(s)
           m == Len(d)
           t == s \o d
<1>1. /\ n \in Nat /\ m \in Nat /\ Len(t) = n + m
      /\ \A i \in 1 .. n + m : t[i] = IF i <= n THEN s[i] ELSE d[i - n]
  BY ConcatProperties
<1> HIDE DEF t
<1>2. \A i \in 1 .. n : s[i] \notin S
  BY DEF Has
<1> HIDE DEF n, m
<1>3. ASSUME NEW i \in 1 .. n + m, t[i] \in S
      PROVE  i - n \in 1 .. m /\ t[i] = d[i - n]
  <2>1. CASE i <= n
    <3>1. i \in 1 .. n
      BY <1>1, <2>1
    <3> QED
      BY <1>1, <1>2, <1>3, <2>1, <3>1
  <2>2. CASE ~(i <= n)
    <3>1. i - n \in 1 .. m
      BY <1>1, <2>2
    <3> QED
      BY <1>1, <2>2, <3>1
  <2> QED
    BY <2>1, <2>2
<1>4. ASSUME NEW j \in 1 .. m PROVE j + n \in 1 .. n + m /\ t[j + n] = d[j]
  <2>1. j + n \in 1 .. n + m /\ ~(j + n <= n) /\ (j + n) - n = j
    BY <1>1
  <2> QED
    BY <1>1, <2>1
<1>5. ASSUME Once(d, S) PROVE Once(t, S)
  <2> SUFFICES ASSUME NEW j \in 1 .. n + m, NEW k \in 1 .. n + m, t[j] \in S, t[k] \in S
               PROVE  j = k
    BY <1>1 DEF Once
  <2>1. j - n \in 1 .. m /\ k - n \in 1 .. m /\ d[j - n] \in S /\ d[k - n] \in S
    BY <1>3
  <2>2. j - n = k - n
    BY <1>5, <2>1 DEF Once, m
  <2> QED
    BY <1>1, <2>2
<1>6. ASSUME NEW T, FirstIn(d, S, T) PROVE FirstIn(t, S, T)
  <2> SUFFICES ASSUME NEW k \in 1 .. n + m, t[k] \in S,
                      \A j \in 1 .. n + m : j < k => t[j] \notin S
               PROVE  t[k] \in T
    BY <1>1 DEF FirstIn
  <2>1. k - n \in 1 .. m /\ t[k] = d[k - n]
    BY <1>3
  <2>2. ASSUME NEW j \in 1 .. m, j < k - n PROVE d[j] \notin S
    <3>1. j + n < k
      BY <1>1, <2>2
    <3> QED
      BY <1>4, <3>1
  <2> QED
    BY <1>6, <2>1, <2>2 DEF FirstIn, m
<1> QED
  BY <1>5, <1>6 DEF t

\* What is on its way after a message was taken, or some were sent.
LEMMA TakenHolds ==
    ASSUME TalkTypes, NEW p \in Talkers, wire[p] # <<>>, NEW ms \in Seq(Messages), Answer(p, ms)
    PROVE  /\ \A kind : Holds(p, kind) /\ Head(wire[p]).kind # kind => Holds(p, kind)'
           /\ \A kind : Holds(Other(p), kind) \/ Has(ms, Of({kind})) => Holds(Other(p), kind)'
           /\ \A S : Has(wire'[p], S) => Has(wire[p], S)
           /\ \A S : Has(wire'[Other(p)], S) <=> Has(wire[Other(p)], S) \/ Has(ms, S)
<1>1. /\ wire'[p] = Tail(wire[p]) /\ wire'[Other(p)] = wire[Other(p)] \o ms
      /\ \A q \in Talkers : wire[q] \in Seq(Messages)
      /\ Head(wire[p]) \in Messages
  BY WiresTaken
<1>2. Other(p) \in Talkers
  BY TwoPeople
<1>3. \A S : Has(wire[p], S) <=> Head(wire[p]) \in S \/ Has(wire'[p], S)
  BY <1>1, HasTail
<1>4. \A S : Has(wire'[Other(p)], S) <=> Has(wire[Other(p)], S) \/ Has(ms, S)
  BY <1>1, <1>2, HasConcat
<1>5. ASSUME NEW kind, Holds(p, kind), Head(wire[p]).kind # kind PROVE Holds(p, kind)'
  <2>1. Has(wire[p], Of({kind})) /\ Head(wire[p]) \notin Of({kind})
    BY <1>5 DEF Holds, Of
  <2>2. Has(wire'[p], Of({kind}))
    BY <1>3, <2>1
  <2> QED
    BY <2>2 DEF Holds
<1>6. ASSUME NEW kind, Holds(Other(p), kind) \/ Has(ms, Of({kind})) PROVE Holds(Other(p), kind)'
  BY <1>4, <1>6 DEF Holds
<1> QED
  BY <1>3, <1>4, <1>5, <1>6

LEMMA SentHolds ==
    ASSUME TalkTypes, NEW p \in Talkers, NEW ms \in Seq(Messages), Sends(p, ms)
    PROVE  /\ \A kind : Holds(p, kind)' <=> Holds(p, kind)
           /\ \A kind : Holds(Other(p), kind)' <=> Holds(Other(p), kind) \/ Has(ms, Of({kind}))
           /\ \A S : Has(wire'[p], S) <=> Has(wire[p], S)
           /\ \A S : Has(wire'[Other(p)], S) <=> Has(wire[Other(p)], S) \/ Has(ms, S)
<1>1. /\ wire'[p] = wire[p] /\ wire'[Other(p)] = wire[Other(p)] \o ms
      /\ \A q \in Talkers : wire[q] \in Seq(Messages)
  BY WiresSent
<1>2. Other(p) \in Talkers
  BY TwoPeople
<1>3. \A S : Has(wire'[Other(p)], S) <=> Has(wire[Other(p)], S) \/ Has(ms, S)
  BY <1>1, <1>2, HasConcat
<1> QED
  BY <1>1, <1>3 DEF Holds

\* Who takes a message that needs a key.
LEMMA KeyedHead ==
    ASSUME AuthenticationInv, TalkTypes, exchanges <= 1, raw = FALSE, NEW p \in Talkers,
           wire[p] # <<>>, Head(wire[p]).kind \in KeyedKinds
    PROVE  /\ Head(wire[p]).key = 1 /\ Head(wire[p]) \in KeyedMessages /\ exchanges = 1
           /\ \/ Private /\ Head(wire[p]).kind \notin {"dh", "sig"}
              \/ Offering(Other(p)) /\ Head(wire[p]).kind = "dh"
              \/ Accepted(p) /\ Head(wire[p]).kind = "sig"
<1> DEFINE h == Head(wire[p])
<1>1. wire[p] \in Seq(Messages) /\ h \in Messages
      /\ \A S : Has(wire[p], S) <=> h \in S \/ Has(Tail(wire[p]), S)
  BY HasTail DEF TalkTypes, Wires
<1> HIDE DEF h
<1>2. h \in KeyedMessages
  BY <1>1 DEF KeyedMessages, Of, h
<1>3. h.key = 1
  BY <1>1, <1>2 DEF AuthenticationInv, OtherKeys
<1>4. ~NoExchange
  BY <1>1, <1>2 DEF NoExchange, Unkeyed
<1>5. CASE Private
  <2>1. h \notin Of({"dh", "sig"})
    BY <1>1, <1>5 DEF Private
  <2>2. h.kind \notin {"dh", "sig"}
    BY <1>1, <2>1 DEF Of
  <2> QED
    BY <1>2, <1>3, <1>5, <2>2 DEF Private, h
<1>6. ASSUME NEW b \in Talkers, Offering(b)
      PROVE  Offering(Other(p)) /\ h.kind = "dh" /\ exchanges = 1
  <2>1. p # b
    BY <1>1, <1>2, <1>6 DEF Offering, Unkeyed
  <2>2. p = Other(b) /\ b = Other(p)
    BY <2>1, TwoPeople
  <2>3. h \in Of({"dh"})
    BY <1>1, <1>2, <1>6, <2>2 DEF Offering
  <2> QED
    BY <1>6, <2>2, <2>3 DEF Offering, Of
<1>7. ASSUME NEW b \in Talkers, Accepted(b)
      PROVE  Accepted(p) /\ h.kind = "sig" /\ exchanges = 1
  <2>1. p # Other(b)
    BY <1>1, <1>2, <1>7 DEF Accepted, Unkeyed
  <2>2. p = b
    BY <2>1, TwoPeople
  <2>3. h \in Of({"sig"})
    BY <1>1, <1>2, <1>7, <2>2, FirstTail DEF Accepted, h
  <2> QED
    BY <1>7, <2>2, <2>3 DEF Accepted, Of
<1> QED
  BY <1>2, <1>3, <1>4, <1>5, <1>6, <1>7 DEF AuthenticationInv, h

\* A step of a private conversation that goes on with its key.
LEMMA PrivateKept ==
    ASSUME AuthenticationInv, TalkTypes, Private, raw = FALSE,
           UNCHANGED <<exchanges, key, raw>>, NEW p \in Talkers, NEW ms \in Seq(Messages),
           (wire[p] # <<>> /\ Answer(p, ms)) \/ Sends(p, ms),
           ~Has(ms, OtherKeys), ~Has(ms, Of({"dh", "sig"})),
           (\A q \in Talkers : msgstate'[q] = "ENCRYPTED") => \A q \in Talkers : GoesOn(q)'
    PROVE  AuthenticationInv'
<1>1. /\ \A S : Has(wire'[p], S) => Has(wire[p], S)
      /\ \A S : Has(wire'[Other(p)], S) => Has(wire[Other(p)], S) \/ Has(ms, S)
  BY TakenHolds, SentHolds
<1>2. exchanges = 1 /\ \A q \in Talkers : ~Has(wire[q], OtherKeys) /\ ~Has(wire[q], Of({"dh", "sig"}))
  BY DEF AuthenticationInv, Private
<1>3. \A q \in Talkers : ~Has(wire'[q], OtherKeys) /\ ~Has(wire'[q], Of({"dh", "sig"}))
  BY <1>1, <1>2, TwoPeople
<1>4. Private'
  BY <1>3 DEF Private
<1> QED
  BY <1>3, <1>4 DEF AuthenticationInv

\* What keeps the authentication going.
LEMMA GoesOnKept ==
    ASSUME smpStep' = smpStep, NEW q \in Talkers, GoesOn(q),
           \A r \in Talkers : \A kind \in SMPKinds \cup {"abort"} : Holds(r, kind) => Holds(r, kind)'
    PROVE  GoesOn(q)'
  BY TwoPeople DEF GoesOn, SMPKinds

LEMMA AbortGoesOn ==
    ASSUME NEW q \in Talkers, Holds(q, "abort")'
    PROVE  \A r \in Talkers : GoesOn(r)'
  BY DEF GoesOn

\* A message with a key.
LEMMA OneKeyed ==
    ASSUME NEW kind \in KeyedKinds, NEW t \in Nat
    PROVE  LET m == Keyed(kind, 1, t)
           IN  /\ <<m>> \in Seq(Messages) /\ m \in Messages /\ ~Has(<<m>>, OtherKeys) /\ m \notin OtherKeys
               /\ \A kinds : Has(<<m>>, Of(kinds)) <=> kind \in kinds
               /\ \A kinds : m \in Of(kinds) <=> kind \in kinds
               /\ Has(<<m>>, Of({kind}))
               /\ kind \notin {"dh", "sig"} =>
                    m \notin Of({"dh", "sig"}) /\ ~Has(<<m>>, Of({"dh", "sig"}))
<1> DEFINE m == Keyed(kind, 1, t)
<1>1. m \in Messages /\ m.kind = kind /\ m.key = 1
  BY KindOf
<1> HIDE DEF m
<1>2. /\ <<m>> \in Seq(Messages) /\ \A S : Has(<<m>>, S) <=> m \in S
  BY <1>1, HasFew
<1>3. m \notin OtherKeys /\ \A kinds : m \in Of(kinds) <=> kind \in kinds
  BY <1>1 DEF OtherKeys, KeyedMessages, Of
<1>4. m \in Of({kind}) /\ (kind \notin {"dh", "sig"} => m \notin Of({"dh", "sig"}))
  BY <1>1 DEF Of
<1> QED
  BY <1>1, <1>2, <1>3, <1>4 DEF m

\* A message that needs no key is taken, and answered with none.
LEMMA UnkeyedArrives ==
    ASSUME AuthenticationInv, TalkTypes, NEW p \in Talkers, wire[p] # <<>>,
           Head(wire[p]).kind \notin KeyedKinds, NEW ms \in Seq(Messages), Answer(p, ms),
           ~Has(ms, KeyedMessages), UNCHANGED AuthenticationVars, raw' = raw
    PROVE  AuthenticationInv'
<1>1. wire'[p] = Tail(wire[p]) /\ wire'[Other(p)] = wire[Other(p)] \o ms
  BY WiresTaken
<1>2. Head(wire[p]) \notin KeyedMessages
  BY DEF KeyedMessages, Of
<1>3. Neutral(wire[p], wire'[p], Messages, KeyedMessages)
  BY <1>1, <1>2 DEF Neutral
<1>4. Neutral(wire[Other(p)], wire'[Other(p)], Messages, KeyedMessages)
  BY <1>1 DEF Neutral
<1>5. \A q \in Talkers : Neutral(wire[q], wire'[q], Messages, KeyedMessages)
  BY <1>3, <1>4, TwoPeople
<1> QED
  BY <1>5, QuietKept

\* A call that sends no message with a key.
LEMMA UnkeyedSent ==
    ASSUME AuthenticationInv, TalkTypes, NEW p \in Talkers, NEW ms \in Seq(Messages),
           Sends(p, ms), ~Has(ms, KeyedMessages), UNCHANGED AuthenticationVars, raw' = raw
    PROVE  AuthenticationInv'
<1>1. wire'[p] = wire[p] /\ wire'[Other(p)] = wire[Other(p)] \o ms
  BY WiresSent
<1>2. \A q \in Talkers : Neutral(wire[q], wire'[q], Messages, KeyedMessages)
  BY <1>1, TwoPeople DEF Neutral
<1> QED
  BY <1>2, QuietKept

\* A message without a key.
LEMMA OneUnkeyed ==
    ASSUME NEW m \in Messages, m.kind \notin KeyedKinds
    PROVE  <<m>> \in Seq(Messages) /\ ~Has(<<m>>, KeyedMessages)
  BY HasFew DEF KeyedMessages, Of

\* The key exchange begins.
LEMMA BeginKept ==
    ASSUME AuthenticationInv, TalkTypes, NEW p \in Talkers, wire[p] # <<>>,
           Head(wire[p]).kind \notin KeyedKinds, Begin(p),
           UNCHANGED <<msgstate, key, smpStep, raw>>
    PROVE  AuthenticationInv'
<1> SUFFICES ASSUME exchanges' <= 1, raw = FALSE PROVE AuthenticationInv'
  BY DEF AuthenticationInv
<1>1. exchanges = 0 /\ exchanges' = 1 /\ offered' = [offered EXCEPT ![p] = 1]
      /\ offered \in [Talkers -> Nat]
  <2>1. exchanges \in Nat /\ exchanges' = exchanges + 1 /\ offered \in [Talkers -> Nat]
        /\ offered' = [offered EXCEPT ![p] = exchanges + 1]
    BY DEF Begin, TalkTypes
  <2>2. exchanges = 0 /\ exchanges + 1 = 1
    BY <2>1
  <2> QED
    BY <2>1, <2>2
<1> DEFINE m == Keyed("dh", 1, Nobody)
           o == Other(p)
<1>2. Answer(p, <<m>>)
  BY <1>1 DEF Begin
<1>3. /\ <<m>> \in Seq(Messages) /\ ~Has(<<m>>, OtherKeys)
      /\ Has(<<m>>, Of({"dh"})) /\ m \in Of({"dh"})
  BY OneKeyed DEF Nobody, KeyedKinds
<1> HIDE DEF m
<1>4. NoExchange
  BY <1>1 DEF AuthenticationInv, Offering, Accepted, Private
<1>5. o \in Talkers /\ o # p /\ \A q \in Talkers : q = p \/ q = o
  BY TwoPeople
<1>6. /\ \A S : Has(wire'[p], S) => Has(wire[p], S)
      /\ \A S : Has(wire'[o], S) <=> Has(wire[o], S) \/ Has(<<m>>, S)
  BY <1>2, <1>3, TakenHolds
<1>7. /\ wire'[o] = wire[o] \o <<m>> /\ wire[o] \in Seq(Messages)
  BY <1>2, <1>3, <1>5, WiresTaken
<1>8. \A q \in Talkers : ~Has(wire[q], KeyedMessages) /\ ~Has(wire[q], OtherKeys)
  BY <1>1, <1>4 DEF NoExchange, Unkeyed, AuthenticationInv
<1>9. Once(wire'[o], KeyedMessages)
  <2>1. Once(<<m>>, KeyedMessages)
    BY DEF Once
  <2> QED
    BY <1>3, <1>5, <1>7, <1>8, <2>1, ConcatAfterNone
<1>10. ~Has(wire'[o], KeyedMessages \ Of({"dh"}))
  <2>1. ~Has(<<m>>, KeyedMessages \ Of({"dh"}))
    <3>1. m \in Messages
      BY <1>3 DEF Of
    <3> QED
      BY <1>3, <3>1, HasFew
  <2>2. ~Has(wire[o], KeyedMessages \ Of({"dh"}))
    BY <1>5, <1>8, HasPart
  <2> QED
    BY <1>6, <2>1, <2>2
<1>11. \A q \in Talkers : ~Has(wire'[q], OtherKeys)
  BY <1>3, <1>5, <1>6, <1>8
<1>12. Unkeyed(p)' /\ \A q \in Talkers : Plain(q)'
  BY <1>4, <1>6, <1>8 DEF Unkeyed, NoExchange, Plain
<1>13. offered'[p] = 1 /\ offered'[o] = 0
  BY <1>1, <1>4, <1>5 DEF NoExchange
<1>14. Offering(p)'
  BY <1>1, <1>9, <1>10, <1>12, <1>13 DEF Offering
<1> QED
  BY <1>11, <1>14 DEF AuthenticationInv

\* What a conversation that gets a key answers with: the "sig" first.
LEMMA KeyAnswers ==
    ASSUME TalkTypes, NEW p \in Talkers, NEW again,
           again = <<>> \/ again = <<Keyed("data", 1, lastMessage[p])>>
    PROVE  LET ms == <<Keyed("sig", 1, Nobody)>> \o again
           IN  /\ again \in Seq(Messages) /\ ~Has(again, OtherKeys)
               /\ ~Has(again, Of({"dh", "sig"}))
               /\ ms \in Seq(Messages) /\ ~Has(ms, OtherKeys) /\ ~Has(ms, Of({"dh"}))
               /\ Has(ms, Of({"sig"})) /\ Once(ms, Of({"dh", "sig"}))
               /\ FirstIn(ms, KeyedMessages, Of({"sig"}))
<1> DEFINE x == Keyed("sig", 1, Nobody)
           y == Keyed("data", 1, lastMessage[p])
<1>1. lastMessage[p] \in Nat
  BY DEF TalkTypes
<1>2. /\ x \in Messages /\ x \notin OtherKeys /\ \A kinds : x \in Of(kinds) <=> "sig" \in kinds
  BY OneKeyed DEF Nobody, KeyedKinds
<1>3. /\ y \in Messages /\ y \notin OtherKeys /\ \A kinds : y \in Of(kinds) <=> "data" \in kinds
  BY <1>1, OneKeyed DEF KeyedKinds
<1> HIDE DEF x, y
<1>4. /\ x \in Of({"sig"}) /\ x \notin Of({"dh"}) /\ y \notin Of({"dh"})
      /\ y \notin Of({"dh", "sig"})
  BY <1>2, <1>3
<1>5. CASE again = <<>>
  <2>1. <<x>> \o again = <<x>>
    BY <1>5
  <2>2. Once(<<x>>, Of({"dh", "sig"})) /\ FirstIn(<<x>>, KeyedMessages, Of({"sig"}))
    BY <1>4 DEF Once, FirstIn
  <2> QED
    BY <1>2, <1>4, <1>5, <2>1, <2>2, HasFew DEF x
<1>6. CASE again = <<y>>
  <2>1. <<x>> \o <<y>> = <<x, y>>
    <3>1. <<x>> \in Seq(Messages) /\ <<y>> \in Seq(Messages) /\ <<x, y>> \in Seq(Messages)
      BY <1>2, <1>3, HasFew
    <3>2. /\ <<x>> \o <<y>> \in Seq(Messages) /\ Len(<<x>> \o <<y>>) = 2
          /\ (<<x>> \o <<y>>)[1] = x /\ (<<x>> \o <<y>>)[2] = y
      BY <3>1, ConcatProperties
    <3>3. \A i \in 1 .. 2 : (<<x>> \o <<y>>)[i] = <<x, y>>[i]
      BY <3>2
    <3> QED
      BY <3>1, <3>2, <3>3, SeqEqual
  <2>2. Once(<<x, y>>, Of({"dh", "sig"}))
    BY <1>4 DEF Once
  <2>3. FirstIn(<<x, y>>, KeyedMessages, Of({"sig"}))
    <3>1. x \in KeyedMessages
      BY <1>2 DEF KeyedMessages, KeyedKinds
    <3> QED
      BY <1>4, <3>1 DEF FirstIn
  <2>4. <<y>> \in Seq(Messages) /\ \A S : Has(<<y>>, S) <=> y \in S
    BY <1>3, HasFew
  <2>5. <<x, y>> \in Seq(Messages) /\ \A S : Has(<<x, y>>, S) <=> x \in S \/ y \in S
    BY <1>2, <1>3, HasFew
  <2>6. /\ ~Has(<<y>>, OtherKeys) /\ ~Has(<<y>>, Of({"dh", "sig"}))
        /\ ~Has(<<x, y>>, OtherKeys) /\ ~Has(<<x, y>>, Of({"dh"})) /\ Has(<<x, y>>, Of({"sig"}))
    BY <1>2, <1>3, <1>4, <2>4, <2>5
  <2>7. <<x>> \o again = <<x, y>>
    BY <1>6, <2>1
  <2> QED
    BY <1>6, <2>2, <2>3, <2>4, <2>5, <2>6, <2>7 DEF x
<1> QED
  BY <1>5, <1>6 DEF y

LEMMA ReceiveKeyKept ==
    ASSUME AuthenticationInv, TalkTypes, NEW p \in Talkers, ReceiveKey(p)
    PROVE  AuthenticationInv'
<1> SUFFICES ASSUME exchanges <= 1, raw = FALSE PROVE AuthenticationInv'
  BY DEF AuthenticationInv, ReceiveKey, outcomeVars
<1> DEFINE h == Head(wire[p])
           o == Other(p)
           x == Keyed("sig", 1, Nobody)
           again == IF lastMessage[p] # Nobody THEN <<Keyed("data", 1, lastMessage[p])>> ELSE <<>>
<1>1. /\ wire[p] # <<>> /\ h.kind \in {"dh", "sig"} /\ raw' = raw /\ exchanges' = exchanges
      /\ offered' = [offered EXCEPT ![p] = 0]
      /\ msgstate' = [msgstate EXCEPT ![p] = "ENCRYPTED"]
      /\ smpStep' = [smpStep EXCEPT ![p] = IF msgstate[p] = "ENCRYPTED" THEN @ ELSE "idle"]
  BY DEF ReceiveKey, Receives, outcomeVars
<1>2. /\ h.key = 1 /\ h \in KeyedMessages /\ exchanges = 1
      /\ \/ Offering(o) /\ h.kind = "dh"
         \/ Accepted(p) /\ h.kind = "sig"
  BY <1>1, KeyedHead DEF KeyedKinds
<1>3. key' = [key EXCEPT ![p] = 1]
      /\ Answer(p, (IF h.kind = "dh" THEN <<x>> ELSE <<>>) \o again)
  BY <1>2 DEF ReceiveKey
<1>4. /\ again \in Seq(Messages) /\ ~Has(again, OtherKeys)
      /\ ~Has(again, Of({"dh", "sig"}))
      /\ <<x>> \o again \in Seq(Messages) /\ ~Has(<<x>> \o again, OtherKeys)
      /\ ~Has(<<x>> \o again, Of({"dh"}))
      /\ Has(<<x>> \o again, Of({"sig"})) /\ Once(<<x>> \o again, Of({"dh", "sig"}))
      /\ FirstIn(<<x>> \o again, KeyedMessages, Of({"sig"}))
  BY KeyAnswers
<1> HIDE DEF again, x, h
<1>5. /\ o \in Talkers /\ o # p /\ Other(o) = p /\ \A q \in Talkers : q = p \/ q = o
  BY TwoPeople
<1>6. \A q \in Talkers : ~Has(wire[q], OtherKeys) /\ wire[q] \in Seq(Messages)
  BY DEF AuthenticationInv, TalkTypes, Wires
<1>7. /\ msgstate'[o] = msgstate[o] /\ smpStep'[o] = smpStep[o] /\ offered'[o] = offered[o]
      /\ key'[p] = 1 /\ key'[o] = key[o] /\ msgstate'[p] = "ENCRYPTED"
      /\ msgstate[p] # "ENCRYPTED" => smpStep'[p] = "idle"
  BY <1>1, <1>3, <1>5 DEF TalkTypes
<1>8. CASE Offering(o) /\ h.kind = "dh"
  <2> DEFINE ms == <<x>> \o again
  <2>1. Answer(p, ms)
    BY <1>3, <1>8
  <2> HIDE DEF ms
  <2>2. ms \in Seq(Messages) /\ ~Has(ms, OtherKeys)
    BY <1>4 DEF ms
  <2>3. /\ \A S : Has(wire'[p], S) => Has(wire[p], S)
        /\ \A S : Has(wire'[o], S) <=> Has(wire[o], S) \/ Has(ms, S)
        /\ wire'[p] = Tail(wire[p]) /\ wire'[o] = wire[o] \o ms
    BY <1>1, <2>1, <2>2, TakenHolds, WiresTaken
  <2>4. \A q \in Talkers : ~Has(wire'[q], OtherKeys)
    BY <1>5, <1>6, <2>2, <2>3
  <2>5. Unkeyed(p)'
    <3>1. Once(wire[p], KeyedMessages)
      BY <1>5, <1>8 DEF Offering
    <3>2. ~Has(Tail(wire[p]), KeyedMessages)
      BY <1>1, <1>2, <1>6, <3>1, OnceTail DEF h
    <3> QED
      BY <2>3, <3>2 DEF Unkeyed
  <2>6. ~Has(wire[o], KeyedMessages) /\ ~Has(wire[o], Of({"dh", "sig"})) /\ ~Has(wire[o], Of({"dh"}))
    <3>1. Of({"dh", "sig"}) \subseteq KeyedMessages /\ Of({"dh"}) \subseteq KeyedMessages
      BY DEF Of, KeyedMessages, KeyedKinds
    <3>2. ~Has(wire[o], KeyedMessages)
      BY <1>8 DEF Offering, Unkeyed
    <3> QED
      BY <3>1, <3>2, HasPart
  <2>7. Holds(o, "sig")' /\ ~Holds(o, "dh")'
    BY <1>4, <2>3, <2>6 DEF Holds, ms
  <2>8. FirstIn(wire'[o], KeyedMessages, Of({"sig"})) /\ Once(wire'[o], Of({"dh", "sig"}))
    <3>1. FirstIn(ms, KeyedMessages, Of({"sig"})) /\ Once(ms, Of({"dh", "sig"}))
      BY <1>4 DEF ms
    <3>2. FirstIn(wire[o] \o ms, KeyedMessages, Of({"sig"}))
      BY <1>5, <1>6, <2>2, <2>6, <3>1, ConcatAfterNone
    <3>3. Once(wire[o] \o ms, Of({"dh", "sig"}))
      BY <1>5, <1>6, <2>2, <2>6, <3>1, ConcatAfterNone
    <3> QED
      BY <2>3, <3>2, <3>3
  <2>9. Plain(o)' /\ GoesOn(p)'
    <3>1. Plain(o) /\ Plain(p)
      BY <1>5, <1>8 DEF Offering
    <3>2. smpStep'[p] = "idle" /\ smpStep'[o] = "idle" /\ msgstate'[o] = "PLAINTEXT"
      BY <1>7, <3>1 DEF Plain
    <3> QED
      BY <3>2 DEF Plain, GoesOn
  <2>10. exchanges' = 1 /\ offered'[o] = 1
    BY <1>1, <1>2, <1>7, <1>8 DEF Offering
  <2>11. Accepted(o)'
    BY <1>5, <1>7, <2>5, <2>7, <2>8, <2>9, <2>10 DEF Accepted
  <2> QED
    BY <1>5, <2>4, <2>11 DEF AuthenticationInv
<1>9. CASE Accepted(p) /\ h.kind = "sig"
  <2>1. Answer(p, again)
    <3>1. <<>> \o again = again
      BY <1>4, ConcatEmptySeq
    <3>2. Answer(p, <<>> \o again)
      BY <1>3, <1>9
    <3> QED
      BY <3>1, <3>2
  <2>2. /\ \A S : Has(wire'[p], S) => Has(wire[p], S)
        /\ \A S : Has(wire'[o], S) <=> Has(wire[o], S) \/ Has(again, S)
        /\ \A kind : Holds(p, kind) /\ h.kind # kind => Holds(p, kind)'
        /\ \A kind : Holds(o, kind) \/ Has(again, Of({kind})) => Holds(o, kind)'
        /\ wire'[p] = Tail(wire[p])
    BY <1>1, <1>4, <2>1, TakenHolds, WiresTaken DEF h
  <2>3. \A q \in Talkers : ~Has(wire'[q], OtherKeys)
    BY <1>4, <1>5, <1>6, <2>2
  <2>4. ~Has(wire'[p], Of({"dh", "sig"}))
    <3>1. Once(wire[p], Of({"dh", "sig"})) /\ h \in Of({"dh", "sig"})
      BY <1>1, <1>2, <1>9 DEF Accepted, KeyedMessages, Of
    <3> QED
      BY <1>1, <1>6, <2>2, <3>1, OnceTail DEF h
  <2>5. ~Has(wire'[o], Of({"dh", "sig"}))
    <3>1. Of({"dh", "sig"}) \subseteq KeyedMessages
      BY DEF Of, KeyedMessages, KeyedKinds
    <3>2. ~Has(wire[o], KeyedMessages)
      BY <1>9 DEF Accepted, Unkeyed
    <3>3. ~Has(wire[o], Of({"dh", "sig"}))
      BY <3>1, <3>2, HasPart
    <3> QED
      BY <1>4, <2>2, <3>3
  <2>6. key[o] = 1 /\ Plain(p) /\ (msgstate[o] = "ENCRYPTED" => GoesOn(o))
    BY <1>9 DEF Accepted
  <2>7. smpStep' = smpStep /\ smpStep'[p] = "idle"
    BY <1>1, <1>7, <2>6 DEF Plain, TalkTypes
  <2>8. \A r \in Talkers : \A kind \in SMPKinds \cup {"abort"} : Holds(r, kind) => Holds(r, kind)'
    BY <1>5, <1>9, <2>2 DEF SMPKinds
  <2>9. msgstate'[o] = "ENCRYPTED" => \A q \in Talkers : GoesOn(q)'
    <3>1. msgstate[o] = "ENCRYPTED" => GoesOn(o)'
      BY <1>5, <2>6, <2>7, <2>8, GoesOnKept
    <3>2. GoesOn(p)'
      BY <2>7 DEF GoesOn
    <3> QED
      BY <1>5, <1>7, <3>1, <3>2
  <2>10. Private'
    BY <1>1, <1>2, <1>5, <1>7, <2>4, <2>5, <2>6, <2>9 DEF Private
  <2> QED
    BY <2>3, <2>10 DEF AuthenticationInv
<1> QED
  BY <1>2, <1>8, <1>9

\* Outdated keys do not come up while there was one exchange.
LEMMA OutdatedKeyKept ==
    ASSUME AuthenticationInv, TalkTypes, NEW p \in Talkers, OutdatedKey(p)
    PROVE  AuthenticationInv'
<1> SUFFICES ASSUME exchanges <= 1, raw = FALSE PROVE FALSE
  BY DEF AuthenticationInv, OutdatedKey, exchangeVars, outcomeVars
<1>1. wire[p] # <<>> /\ Head(wire[p]).kind \in {"dh", "sig"} /\ ~Agreed(p, Head(wire[p]))
  BY DEF OutdatedKey, Receives
<1>2. /\ Head(wire[p]).key = 1
      /\ \/ Offering(Other(p)) /\ Head(wire[p]).kind = "dh"
         \/ Accepted(p) /\ Head(wire[p]).kind = "sig"
  BY <1>1, KeyedHead DEF KeyedKinds
<1>3. Other(Other(p)) = p
  BY TwoPeople
<1> QED
  BY <1>1, <1>2, <1>3 DEF Agreed, Offering, Accepted

\* Other messages with a key arrive in a private conversation only.
LEMMA PrivateHead ==
    ASSUME AuthenticationInv, TalkTypes, exchanges <= 1, raw = FALSE, NEW p \in Talkers,
           wire[p] # <<>>, Head(wire[p]).kind \in {"data", "end", "abort"} \cup SMPKinds
    PROVE  /\ Private /\ key[p] = 1
           /\ Understood(p) <=> msgstate[p] = "ENCRYPTED"
           /\ (\A q \in Talkers : msgstate[q] = "ENCRYPTED") => \A q \in Talkers : GoesOn(q)
<1>1. Head(wire[p]).key = 1 /\ Private
  BY KeyedHead DEF KeyedKinds, SMPKinds
<1> QED
  BY <1>1 DEF Private, Understood

LEMMA ReceiveDataKept ==
    ASSUME AuthenticationInv, TalkTypes, NEW p \in Talkers, ReceiveData(p)
    PROVE  AuthenticationInv'
<1> SUFFICES ASSUME exchanges <= 1, raw = FALSE PROVE AuthenticationInv'
  BY DEF AuthenticationInv, ReceiveData, exchangeVars
<1>1. /\ wire[p] # <<>> /\ Head(wire[p]).kind = "data"
      /\ UNCHANGED <<exchanges, key, raw>> /\ UNCHANGED <<msgstate, smpStep>>
  BY DEF ReceiveData, Receives, exchangeVars
<1>2. /\ Private /\ key[p] = 1
      /\ (\A q \in Talkers : msgstate[q] = "ENCRYPTED") => \A q \in Talkers : GoesOn(q)
  BY <1>1, PrivateHead
<1> DEFINE x == Keyed("data", 1, Nobody)
           y == Text(Nobody, FALSE)
           z == Bare("error")
<1>3. /\ x \in Messages /\ x \notin OtherKeys /\ x \notin Of({"dh", "sig"})
      /\ y \in Messages /\ y \notin OtherKeys /\ y \notin Of({"dh", "sig"})
      /\ z \in Messages /\ z \notin OtherKeys /\ z \notin Of({"dh", "sig"})
  <2>1. x \in Messages /\ x \notin OtherKeys /\ x \notin Of({"dh", "sig"})
    <3>1. "data" \in KeyedKinds /\ Nobody \in Nat /\ "data" \notin {"dh", "sig"}
      BY DEF KeyedKinds, Nobody
    <3> QED
      BY <3>1, OneKeyed
  <2>2. y \in Messages /\ y.kind = "text" /\ z \in Messages /\ z.kind = "error"
    BY KindOf DEF Nobody
  <2> QED
    BY <2>1, <2>2 DEF OtherKeys, KeyedMessages, Of, KeyedKinds, SMPKinds
<1>4. \E ms : Answer(p, ms) /\ ms \in {<<>>, <<z>>, <<x, y>>}
  BY <1>2 DEF ReceiveData
<1>5. PICK ms : Answer(p, ms) /\ ms \in {<<>>, <<z>>, <<x, y>>}
  BY <1>4
<1> HIDE DEF x, y, z
<1>6. ms \in Seq(Messages) /\ ~Has(ms, OtherKeys) /\ ~Has(ms, Of({"dh", "sig"}))
  <2>1. CASE ms = <<>>
    BY <2>1, HasFew
  <2>2. CASE ms = <<z>>
    BY <1>3, <2>2, HasFew
  <2>3. CASE ms = <<x, y>>
    BY <1>3, <2>3, HasFew
  <2> QED
    BY <1>5, <2>1, <2>2, <2>3
<1>7. \A r \in Talkers : \A kind \in SMPKinds \cup {"abort"} : Holds(r, kind) => Holds(r, kind)'
  <2>1. /\ \A kind : Holds(p, kind) /\ Head(wire[p]).kind # kind => Holds(p, kind)'
        /\ \A kind : Holds(Other(p), kind) => Holds(Other(p), kind)'
    BY <1>1, <1>5, <1>6, TakenHolds
  <2>2. \A kind \in SMPKinds \cup {"abort"} : Head(wire[p]).kind # kind
    BY <1>1 DEF SMPKinds
  <2> QED
    BY <2>1, <2>2, TwoPeople
<1>8. (\A q \in Talkers : msgstate'[q] = "ENCRYPTED") => \A q \in Talkers : GoesOn(q)'
  BY <1>1, <1>2, <1>7, GoesOnKept
<1> QED
  BY <1>1, <1>2, <1>5, <1>6, <1>8, PrivateKept

\* A person who is not in private any more.
LEMMA LeftKept ==
    ASSUME AuthenticationInv, TalkTypes, Private, raw = FALSE, UNCHANGED <<exchanges, key, raw>>,
           NEW p \in Talkers, wire[p] # <<>>, Answer(p, <<>>), msgstate'[p] # "ENCRYPTED"
    PROVE  AuthenticationInv'
  BY PrivateKept, HasFew

LEMMA ReceiveEndKept ==
    ASSUME AuthenticationInv, TalkTypes, NEW p \in Talkers, ReceiveEnd(p)
    PROVE  AuthenticationInv'
<1> SUFFICES ASSUME exchanges <= 1, raw = FALSE PROVE AuthenticationInv'
  BY DEF AuthenticationInv, ReceiveEnd, exchangeVars, outcomeVars
<1>1. /\ wire[p] # <<>> /\ Head(wire[p]).kind = "end" /\ Answer(p, <<>>)
      /\ UNCHANGED <<exchanges, key, raw>>
      /\ msgstate' = [msgstate EXCEPT ![p] = IF Understood(p) THEN "FINISHED" ELSE @]
  BY DEF ReceiveEnd, Receives, exchangeVars, outcomeVars
<1>2. Private /\ (Understood(p) <=> msgstate[p] = "ENCRYPTED")
  BY <1>1, PrivateHead
<1>3. msgstate'[p] # "ENCRYPTED"
  BY <1>1, <1>2 DEF TalkTypes
<1> QED
  BY <1>1, <1>2, <1>3, LeftKept

LEMMA UnreadableKept ==
    ASSUME AuthenticationInv, TalkTypes, NEW p \in Talkers, UnreadableSMP(p)
    PROVE  AuthenticationInv'
<1> SUFFICES ASSUME exchanges <= 1, raw = FALSE PROVE AuthenticationInv'
  BY DEF AuthenticationInv, UnreadableSMP, exchangeVars, outcomeVars
<1>1. /\ wire[p] # <<>> /\ Head(wire[p]).kind \in SMPKinds \cup {"abort"} /\ Answer(p, <<>>)
      /\ UNCHANGED <<exchanges, key, raw, msgstate>> /\ ~Understood(p)
  BY DEF UnreadableSMP, Receives, exchangeVars, outcomeVars, Expected, SMPKinds
<1>2. Private /\ (Understood(p) <=> msgstate[p] = "ENCRYPTED")
  BY <1>1, PrivateHead
<1> QED
  BY <1>1, <1>2, LeftKept

\* An abort is sent.
LEMMA AbortedKept ==
    ASSUME AuthenticationInv, TalkTypes, Private, raw = FALSE, UNCHANGED <<exchanges, key, raw>>,
           NEW p \in Talkers, (wire[p] # <<>> /\ Answer(p, <<Abort(p)>>)) \/ Sends(p, <<Abort(p)>>)
    PROVE  AuthenticationInv'
<1> DEFINE ms == <<Keyed("abort", 1, Nobody)>>
<1>1. ms = <<Abort(p)>>
  BY DEF Abort, Private
<1>2. /\ ms \in Seq(Messages) /\ ~Has(ms, OtherKeys) /\ ~Has(ms, Of({"dh", "sig"}))
      /\ Has(ms, Of({"abort"}))
  <2>1. "abort" \in KeyedKinds /\ Nobody \in Nat /\ "abort" \notin {"dh", "sig"}
    BY DEF KeyedKinds, Nobody
  <2> QED
    BY <2>1, OneKeyed
<1> HIDE DEF ms
<1>3. Holds(Other(p), "abort")' /\ Other(p) \in Talkers
  BY <1>1, <1>2, TakenHolds, SentHolds, TwoPeople
<1>4. \A q \in Talkers : GoesOn(q)'
  BY <1>3, AbortGoesOn
<1> QED
  BY <1>1, <1>2, <1>4, PrivateKept

LEMMA UnexpectedKept ==
    ASSUME AuthenticationInv, TalkTypes, NEW p \in Talkers, UnexpectedSMP(p) \/ ReceiveAbort(p)
    PROVE  AuthenticationInv'
<1> SUFFICES ASSUME exchanges <= 1, raw = FALSE PROVE AuthenticationInv'
  BY DEF AuthenticationInv, UnexpectedSMP, ReceiveAbort, exchangeVars
<1>1. /\ wire[p] # <<>> /\ Head(wire[p]).kind \in SMPKinds \cup {"abort"}
      /\ Answer(p, <<Abort(p)>>) /\ UNCHANGED <<exchanges, key, raw>>
  BY DEF UnexpectedSMP, ReceiveAbort, Receives, exchangeVars, Expected, SMPKinds
<1>2. Private
  BY <1>1, PrivateHead
<1> QED
  BY <1>1, <1>2, AbortedKept

LEMMA ReceiveSMPKept ==
    ASSUME AuthenticationInv, TalkTypes, NEW p \in Talkers, ReceiveSMP(p)
    PROVE  AuthenticationInv'
<1> SUFFICES ASSUME exchanges <= 1, raw = FALSE PROVE AuthenticationInv'
  BY DEF AuthenticationInv, ReceiveSMP, exchangeVars, outcomeVars
<1> DEFINE kind == Head(wire[p]).kind
           o == Other(p)
           ms == SMPAnswer(p, kind)
<1>1. /\ wire[p] # <<>> /\ kind \in SMPKinds /\ Understood(p) /\ Answer(p, ms)
      /\ smpStep[p] = Expected[kind] /\ smpStep' = [smpStep EXCEPT ![p] = Reached[kind]]
      /\ UNCHANGED <<exchanges, key, raw, msgstate>>
  BY DEF ReceiveSMP, Receives, exchangeVars, outcomeVars, Expected, SMPKinds
<1>2. /\ Private /\ key[p] = 1
      /\ (\A q \in Talkers : msgstate[q] = "ENCRYPTED") => \A q \in Talkers : GoesOn(q)
  BY <1>1, PrivateHead
<1>3. /\ ms \in Seq(Messages) /\ ~Has(ms, OtherKeys) /\ ~Has(ms, Of({"dh", "sig"}))
      /\ kind = "smp2" => Has(ms, Of({"smp3"}))
      /\ kind = "smp3" => Has(ms, Of({"smp4"}))
  <2>1. \A k \in {"smp3", "smp4"} :
          LET m == Keyed(k, 1, Nobody)
          IN  /\ <<m>> \in Seq(Messages) /\ ~Has(<<m>>, OtherKeys)
              /\ ~Has(<<m>>, Of({"dh", "sig"})) /\ Has(<<m>>, Of({k}))
    <3>1. Nobody \in Nat /\ \A k \in {"smp3", "smp4"} : k \in KeyedKinds /\ k \notin {"dh", "sig"}
      BY DEF KeyedKinds, Nobody, SMPKinds
    <3> QED
      BY <3>1, OneKeyed
  <2>2. CASE kind = "smp2"
    <3>1. ms = <<Keyed("smp3", 1, Nobody)>>
      BY <1>2, <2>2 DEF SMPAnswer
    <3> QED
      BY <2>1, <2>2, <3>1
  <2>3. CASE kind = "smp3"
    <3>1. ms = <<Keyed("smp4", 1, Nobody)>>
      BY <1>2, <2>3 DEF SMPAnswer
    <3> QED
      BY <2>1, <2>3, <3>1
  <2>4. CASE kind \notin {"smp2", "smp3"}
    <3>1. ms = <<>>
      BY <2>4 DEF SMPAnswer
    <3>2. <<>> \in Seq(Messages) /\ \A S : ~Has(<<>>, S)
      BY HasFew
    <3> HIDE DEF ms
    <3> QED
      BY <2>4, <3>1, <3>2
  <2> QED
    BY <2>2, <2>3, <2>4
<1> HIDE DEF ms, kind
<1>4. o \in Talkers /\ o # p /\ Other(o) = p /\ \A q \in Talkers : q = p \/ q = o
  BY TwoPeople
<1>5. /\ \A k : Holds(p, k) /\ kind # k => Holds(p, k)'
      /\ \A k : Holds(o, k) \/ Has(ms, Of({k})) => Holds(o, k)'
  BY <1>1, <1>3, TakenHolds DEF kind
<1>6. smpStep'[p] = Reached[kind] /\ smpStep'[o] = smpStep[o]
  BY <1>1, <1>4 DEF TalkTypes
<1>7. ASSUME \A q \in Talkers : GoesOn(q) PROVE \A q \in Talkers : GoesOn(q)'
  <2>1. CASE \E q \in Talkers : Holds(q, "abort")
    <3>1. \E q \in Talkers : Holds(q, "abort")'
      BY <1>1, <1>4, <1>5, <2>1 DEF SMPKinds
    <3> QED
      BY <3>1, AbortGoesOn
  <2>2. CASE ~\E q \in Talkers : Holds(q, "abort")
    <3>1. /\ smpStep[o] = "sent1" =>
               \/ Holds(o, "smp1") \/ Holds(p, "smp1") \/ smpStep[p] = "asked"
               \/ Holds(o, "smp2")
          /\ smpStep[o] = "sent2" => Holds(p, "smp2") \/ Holds(o, "smp3")
          /\ smpStep[o] = "sent3" => Holds(p, "smp3") \/ Holds(o, "smp4")
      BY <1>4, <1>7, <2>2 DEF GoesOn
    <3>2. CASE kind = "smp1"
      <4>1. smpStep'[p] = "asked"
        BY <1>6, <3>2 DEF Reached
      <4> QED
        BY <1>4, <1>5, <1>6, <3>1, <3>2, <4>1 DEF GoesOn
    <3>3. CASE kind = "smp2"
      <4>1. smpStep[p] = "sent1" /\ smpStep'[p] = "sent3" /\ Holds(o, "smp3")'
        BY <1>1, <1>3, <1>5, <1>6, <3>3 DEF Reached, Expected
      <4> QED
        BY <1>4, <1>5, <1>6, <3>1, <3>3, <4>1 DEF GoesOn
    <3>4. CASE kind = "smp3"
      <4>1. smpStep[p] = "sent2" /\ smpStep'[p] = "idle" /\ Holds(o, "smp4")'
        BY <1>1, <1>3, <1>5, <1>6, <3>4 DEF Reached, Expected
      <4> QED
        BY <1>4, <1>5, <1>6, <3>1, <3>4, <4>1 DEF GoesOn
    <3>5. CASE kind = "smp4"
      <4>1. smpStep[p] = "sent3" /\ smpStep'[p] = "idle"
        BY <1>1, <1>6, <3>5 DEF Reached, Expected
      <4> QED
        BY <1>4, <1>5, <1>6, <3>1, <3>5, <4>1 DEF GoesOn
    <3> QED
      BY <1>1, <3>2, <3>3, <3>4, <3>5 DEF SMPKinds
  <2> QED
    BY <2>1, <2>2
<1>8. (\A q \in Talkers : msgstate'[q] = "ENCRYPTED") => \A q \in Talkers : GoesOn(q)'
  BY <1>1, <1>2, <1>7
<1> QED
  BY <1>1, <1>2, <1>3, <1>8, PrivateKept

\* Queries, errors and texts.
LEMMA PlainArrives ==
    ASSUME AuthenticationInv, TalkTypes, NEW p \in Talkers,
           ReceiveText(p) \/ ReceiveDisguised(p) \/ ReceiveQuery(p) \/ ReceiveError(p)
    PROVE  AuthenticationInv'
<1>1. /\ wire[p] # <<>> /\ Head(wire[p]).kind \in {"text", "disguised", "query", "error"}
      /\ UNCHANGED <<msgstate, key, smpStep>> /\ raw' = raw
  BY DEF ReceiveText, ReceiveDisguised, ReceiveQuery, ReceiveError, Receives, outcomeVars
<1>2. Head(wire[p]).kind \notin KeyedKinds
  BY <1>1 DEF KeyedKinds, SMPKinds
<1>3. CASE Begin(p)
  BY <1>1, <1>2, <1>3, BeginKept
<1> DEFINE answers == {<<>>, <<Bare("query")>>, <<Bare("error")>>, <<Text(Nobody, FALSE)>>}
<1>4. CASE UNCHANGED exchangeVars /\ \E ms \in answers : Answer(p, ms)
  <2>1. PICK ms \in answers : Answer(p, ms)
    BY <1>4
  <2>2. \A m \in {Bare("query"), Bare("error"), Text(Nobody, FALSE)} :
          m \in Messages /\ m.kind \notin KeyedKinds
    BY KindOf DEF KeyedKinds, SMPKinds, Nobody
  <2>3. ms \in Seq(Messages) /\ ~Has(ms, KeyedMessages)
    <3>1. CASE ms = <<>>
      BY <3>1, HasFew
    <3>2. ASSUME NEW m \in {Bare("query"), Bare("error"), Text(Nobody, FALSE)}, ms = <<m>>
          PROVE  ms \in Seq(Messages) /\ ~Has(ms, KeyedMessages)
      BY <2>2, <3>2, OneUnkeyed
    <3> QED
      BY <2>1, <3>1, <3>2
  <2> QED
    BY <1>1, <1>2, <1>4, <2>1, <2>3, UnkeyedArrives DEF AuthenticationVars, exchangeVars
<1>5. Begin(p) \/ (UNCHANGED exchangeVars /\ \E ms \in answers : Answer(p, ms))
  <2>1. CASE ReceiveText(p) \/ ReceiveQuery(p) \/ ReceiveError(p)
    BY <2>1 DEF ReceiveText, ReceiveQuery, ReceiveError
  <2>2. CASE ReceiveDisguised(p)
    <3> DEFINE as == Head(wire[p]).as
    <3>1. Head(wire[p]).kind = "disguised" /\ Head(wire[p]) \in Messages
      BY <1>1, <2>2, InTail DEF ReceiveDisguised, Receives, TalkTypes, Wires
    <3>2. as \in Disguises
      BY <3>1 DEF Messages, KeyedKinds, SMPKinds
    <3>3. \/ Begin(p)
          \/ /\ as \in Disguises \ {"query"} /\ UNCHANGED exchangeVars
             /\ Answer(p, CASE as = "error" -> IF Eager(p) THEN <<Bare("query")>> ELSE <<>>
                            [] as = "data" -> <<Bare("error")>>
                            [] as = "unknown" -> <<Text(Nobody, FALSE)>>)
      BY <2>2, <3>2 DEF ReceiveDisguised
    <3>4. CASE Begin(p)
      BY <3>4
    <3>5. CASE as = "error" /\ UNCHANGED exchangeVars
               /\ Answer(p, IF Eager(p) THEN <<Bare("query")>> ELSE <<>>)
      BY <3>5
    <3>6. CASE as = "data" /\ UNCHANGED exchangeVars /\ Answer(p, <<Bare("error")>>)
      BY <3>6
    <3>7. CASE as = "unknown" /\ UNCHANGED exchangeVars /\ Answer(p, <<Text(Nobody, FALSE)>>)
      BY <3>7
    <3> QED
      BY <3>3, <3>4, <3>5, <3>6, <3>7 DEF Disguises
  <2> QED
    BY <2>1, <2>2
<1> QED
  BY <1>3, <1>4, <1>5

LEMMA ArrivalKept ==
    ASSUME AuthenticationInv, TalkTypes, NEW p \in Talkers, Arrives(p)
    PROVE  AuthenticationInv'
<1>1. CASE ShownRaw(p)
  BY <1>1 DEF ShownRaw, AuthenticationInv
<1> QED
  BY <1>1, PlainArrives, ReceiveKeyKept, OutdatedKeyKept, ReceiveDataKept, ReceiveEndKept,
     ReceiveSMPKept, UnexpectedKept, UnreadableKept
  DEF Arrives

-----------------------------------------------------------------------------
(* What the clients call.                                                  *)

\* Who is in a private conversation, or was, has its key.
LEMMA KeyOfParty ==
    ASSUME AuthenticationInv, TalkTypes, exchanges <= 1, raw = FALSE, NEW p \in Talkers, ~Plain(p)
    PROVE  key[p] = 1 /\ exchanges = 1 /\ (Private \/ Accepted(Other(p)))
<1>1. ~NoExchange /\ \A b \in Talkers : ~Offering(b)
  BY DEF NoExchange, Offering
<1>2. ASSUME NEW b \in Talkers, Accepted(b)
      PROVE  Accepted(Other(p)) /\ key[p] = 1 /\ exchanges = 1
  <2>1. b # p
    BY <1>2 DEF Accepted
  <2>2. b = Other(p) /\ Other(b) = p
    BY <2>1, TwoPeople
  <2> QED
    BY <1>2, <2>2 DEF Accepted
<1> QED
  BY <1>1, <1>2 DEF AuthenticationInv, Private

\* What is sent stays on its way.
LEMMA SentGoesOn ==
    ASSUME TalkTypes, NEW p \in Talkers, NEW ms \in Seq(Messages), Sends(p, ms)
    PROVE  \A r \in Talkers : \A kind : Holds(r, kind) => Holds(r, kind)'
<1>1. /\ \A kind : Holds(p, kind) => Holds(p, kind)'
      /\ \A kind : Holds(Other(p), kind) => Holds(Other(p), kind)'
  BY SentHolds
<1>2. \A r \in Talkers : r = p \/ r = Other(p)
  BY TwoPeople
<1>3. ASSUME NEW r \in Talkers, NEW kind, Holds(r, kind) PROVE Holds(r, kind)'
  <2>1. CASE r = p
    BY <1>1, <1>3, <2>1
  <2>2. CASE r = Other(p)
    BY <1>1, <1>3, <2>2
  <2> QED
    BY <1>2, <2>1, <2>2
<1> QED
  BY <1>3

\* A call of a person who has the key.
LEMMA KeyedCall ==
    ASSUME AuthenticationInv, TalkTypes, exchanges <= 1, raw = FALSE,
           UNCHANGED <<exchanges, offered, key, raw>>, NEW p \in Talkers, ~Plain(p),
           NEW ms \in Seq(Messages), Sends(p, ms),
           ~Has(ms, OtherKeys), ~Has(ms, Of({"dh", "sig"})),
           msgstate'[Other(p)] = msgstate[Other(p)], smpStep'[Other(p)] = smpStep[Other(p)],
           msgstate'[p] = "ENCRYPTED" =>
             msgstate[p] = "ENCRYPTED" /\ \A q \in Talkers : GoesOn(q) => GoesOn(q)'
    PROVE  AuthenticationInv'
<1> DEFINE o == Other(p)
<1>1. o \in Talkers /\ o # p /\ Other(o) = p /\ \A q \in Talkers : q = p \/ q = o
  BY TwoPeople
<1>2. CASE Private
  <2>1. (\A q \in Talkers : msgstate'[q] = "ENCRYPTED") => \A q \in Talkers : GoesOn(q)'
    BY <1>1, <1>2 DEF Private
  <2> QED
    BY <1>2, <2>1, PrivateKept
<1>3. CASE Accepted(o)
  <2>1. /\ exchanges = 1 /\ offered[o] = 1 /\ key[p] = 1 /\ Plain(o) /\ Unkeyed(p)
        /\ Holds(o, "sig") /\ FirstIn(wire[o], KeyedMessages, Of({"sig"}))
        /\ Once(wire[o], Of({"dh", "sig"})) /\ ~Holds(o, "dh")
        /\ msgstate[p] = "ENCRYPTED" => GoesOn(p)
    BY <1>1, <1>3 DEF Accepted
  <2>2. /\ \A kind : Holds(o, kind)' <=> Holds(o, kind) \/ Has(ms, Of({kind}))
        /\ \A S : Has(wire'[p], S) <=> Has(wire[p], S)
        /\ \A S : Has(wire'[o], S) <=> Has(wire[o], S) \/ Has(ms, S)
        /\ wire'[o] = wire[o] \o ms /\ wire[o] \in Seq(Messages)
    BY <1>1, SentHolds, WiresSent
  <2>3. \A q \in Talkers : ~Has(wire'[q], OtherKeys)
    BY <1>1, <2>2 DEF AuthenticationInv
  <2>4. Holds(o, "sig")' /\ ~Holds(o, "dh")' /\ Unkeyed(p)'
    <3>1. Of({"dh"}) \subseteq Of({"dh", "sig"})
      BY DEF Of
    <3>2. ~Has(ms, Of({"dh"}))
      BY <3>1, HasPart
    <3> QED
      BY <2>1, <2>2, <3>2 DEF Unkeyed
  <2>5. FirstIn(wire'[o], KeyedMessages, Of({"sig"}))
    <3>1. Of({"sig"}) \subseteq KeyedMessages
      BY DEF Of, KeyedMessages, KeyedKinds
    <3>2. Has(wire[o], KeyedMessages)
      BY <2>1, <3>1, HasPart DEF Holds
    <3> QED
      BY <2>1, <2>2, <3>2, FirstStays
  <2>6. Once(wire'[o], Of({"dh", "sig"}))
    BY <2>1, <2>2, OnceConcat
  <2>7. Plain(o)' /\ (msgstate'[p] = "ENCRYPTED" => GoesOn(p)')
    BY <2>1 DEF Plain
  <2>8. Accepted(o)'
    BY <1>1, <2>1, <2>4, <2>5, <2>6, <2>7 DEF Accepted
  <2> QED
    BY <1>1, <2>3, <2>8 DEF AuthenticationInv
<1> QED
  BY <1>2, <1>3, KeyOfParty

\* Texts: with the key in a private conversation, without it in others.
LEMMA SendMessageKept ==
    ASSUME AuthenticationInv, TalkTypes, NEW p \in Talkers, SendMessage(p)
    PROVE  AuthenticationInv'
<1> SUFFICES ASSUME exchanges <= 1, raw = FALSE PROVE AuthenticationInv'
  BY DEF AuthenticationInv, SendMessage, exchangeVars, outcomeVars
<1>1. /\ UNCHANGED AuthenticationVars /\ UNCHANGED <<exchanges, offered, key, raw>>
      /\ \E m \in Outgoing(p, written + 1), sent \in BOOLEAN :
           Sends(p, IF sent THEN <<m>> ELSE <<>>)
  BY DEF SendMessage, AuthenticationVars, exchangeVars, outcomeVars
<1>2. PICK m \in Outgoing(p, written + 1), sent \in BOOLEAN :
        Sends(p, IF sent THEN <<m>> ELSE <<>>)
  BY <1>1
<1>3. CASE ~sent
  BY <1>1, <1>2, <1>3, HasFew, UnkeyedSent
<1>4. CASE sent /\ otrPolicy[p] # "never" /\ msgstate[p] = "ENCRYPTED" /\ m = Keyed("data", key[p], written + 1)
  <2> DEFINE d == Keyed("data", 1, written + 1)
  <2>1. ~Plain(p) /\ key[p] = 1
    BY <1>4, KeyOfParty DEF Plain
  <2>2. Sends(p, <<d>>)
    BY <1>2, <1>4, <2>1
  <2>3. <<d>> \in Seq(Messages) /\ ~Has(<<d>>, OtherKeys) /\ ~Has(<<d>>, Of({"dh", "sig"}))
    <3>1. "data" \in KeyedKinds /\ "data" \notin {"dh", "sig"} /\ written + 1 \in Nat
      BY DEF KeyedKinds, TalkTypes
    <3> QED
      BY <3>1, OneKeyed
  <2> HIDE DEF d
  <2>4. \A q \in Talkers : GoesOn(q) => GoesOn(q)'
    BY <1>1, <2>2, <2>3, SentGoesOn, GoesOnKept DEF AuthenticationVars
  <2> QED
    BY <1>1, <1>4, <2>1, <2>2, <2>3, <2>4, KeyedCall DEF AuthenticationVars
<1>5. CASE sent /\ m \in Messages /\ m.kind \in {"text", "query", "error", "disguised"}
  <2>1. <<m>> \in Seq(Messages) /\ ~Has(<<m>>, KeyedMessages)
    BY <1>5, OneUnkeyed DEF KeyedKinds, SMPKinds
  <2> QED
    BY <1>1, <1>2, <1>5, <2>1, UnkeyedSent
<1>6. \/ otrPolicy[p] # "never" /\ msgstate[p] = "ENCRYPTED" /\ m = Keyed("data", key[p], written + 1)
      \/ m \in Messages /\ m.kind \in {"text", "query", "error", "disguised"}
  <2>1. /\ written + 1 \in Nat /\ Nobody \in Nat
        /\ msgstate[p] \in {"PLAINTEXT", "ENCRYPTED", "FINISHED"}
    BY DEF TalkTypes, Nobody
  <2>2. \/ otrPolicy[p] # "never" /\ msgstate[p] = "ENCRYPTED" /\ m = Keyed("data", key[p], written + 1)
        \/ m \in {Bare("query"), Bare("error")}
        \/ m \in {Text(written + 1, b) : b \in BOOLEAN} \/ m = Text(Nobody, FALSE)
        \/ m \in {Disguised(written + 1, as) : as \in Disguises}
    <3>1. CASE m \in Encrypted(p, written + 1)
      <4>1. CASE otrPolicy[p] = "never"
        BY <3>1, <4>1 DEF Encrypted
      <4>2. CASE otrPolicy[p] # "never" /\ msgstate[p] = "ENCRYPTED"
        BY <3>1, <4>2 DEF Encrypted
      <4>3. CASE otrPolicy[p] # "never" /\ msgstate[p] = "FINISHED"
        BY <3>1, <4>3 DEF Encrypted
      <4>4. CASE otrPolicy[p] # "never" /\ msgstate[p] = "PLAINTEXT"
        <5>1. m \in IF otrPolicy[p] = "always" THEN {Bare("query")}
                   ELSE {Text(written + 1, tagged) : tagged \in {FALSE, otrPolicy[p] = "opportunistic"}}
          BY <3>1, <4>4 DEF Encrypted
        <5> QED
          BY <5>1
      <4> QED
        BY <2>1, <4>1, <4>2, <4>3, <4>4
    <3>2. CASE m \notin Encrypted(p, written + 1)
      BY <3>2 DEF Outgoing
    <3> QED
      BY <3>1, <3>2
  <2>3. /\ \A x \in {Bare("query"), Bare("error")} :
              x \in Messages /\ x.kind \in {"query", "error"}
        /\ \A b \in BOOLEAN : /\ Text(written + 1, b) \in Messages
                             /\ Text(written + 1, b).kind = "text"
        /\ Text(Nobody, FALSE) \in Messages /\ Text(Nobody, FALSE).kind = "text"
        /\ \A as \in Disguises : /\ Disguised(written + 1, as) \in Messages
                               /\ Disguised(written + 1, as).kind = "disguised"
    BY <2>1, KindOf
  <2> QED
    BY <2>2, <2>3
<1> QED
  BY <1>3, <1>4, <1>5, <1>6

\* libotr fails: nothing is sent.
LEMMA EncryptionFailsKept ==
    ASSUME AuthenticationInv, TalkTypes, NEW p \in Talkers, EncryptionFails(p)
    PROVE  AuthenticationInv'
<1>1. UNCHANGED AuthenticationVars /\ raw' = raw /\ wire' = wire
  BY DEF EncryptionFails, AuthenticationVars, exchangeVars, outcomeVars
<1> QED
  BY <1>1, QuietKept DEF Neutral

LEMMA InitializeKept ==
    ASSUME AuthenticationInv, TalkTypes, NEW p \in Talkers, initialize(p)
    PROVE  AuthenticationInv'
<1>1. Bare("query") \in Messages /\ Bare("query").kind \notin KeyedKinds
  BY KindOf DEF KeyedKinds, SMPKinds
<1>2. <<Bare("query")>> \in Seq(Messages) /\ ~Has(<<Bare("query")>>, KeyedMessages)
  BY <1>1, OneUnkeyed
<1>3. /\ Sends(p, <<Bare("query")>>) /\ UNCHANGED AuthenticationVars /\ raw' = raw
  BY DEF initialize, AuthenticationVars, exchangeVars, outcomeVars
<1> QED
  BY <1>2, <1>3, UnkeyedSent

LEMMA StopKept ==
    ASSUME AuthenticationInv, TalkTypes, NEW p \in Talkers, stop(p)
    PROVE  AuthenticationInv'
<1> SUFFICES ASSUME exchanges <= 1, raw = FALSE PROVE AuthenticationInv'
  BY DEF AuthenticationInv, stop, exchangeVars, outcomeVars
<1> DEFINE m == Keyed("end", 1, Nobody)
<1>1. /\ msgstate[p] # "PLAINTEXT" /\ UNCHANGED <<exchanges, offered, key, raw>>
      /\ msgstate' = [msgstate EXCEPT ![p] = "PLAINTEXT"]
      /\ smpStep' = [smpStep EXCEPT ![p] = "idle"]
      /\ Sends(p, IF msgstate[p] = "ENCRYPTED" THEN <<Keyed("end", key[p], Nobody)>> ELSE <<>>)
  BY DEF stop, exchangeVars, outcomeVars
<1>2. ~Plain(p) /\ key[p] = 1
  BY <1>1, KeyOfParty DEF Plain
<1>3. <<m>> \in Seq(Messages) /\ ~Has(<<m>>, OtherKeys) /\ ~Has(<<m>>, Of({"dh", "sig"}))
  <2>1. "end" \in KeyedKinds /\ "end" \notin {"dh", "sig"} /\ Nobody \in Nat
    BY DEF KeyedKinds, Nobody
  <2> QED
    BY <2>1, OneKeyed
<1>4. Other(p) \in Talkers /\ Other(p) # p
  BY TwoPeople
<1>5. /\ msgstate'[Other(p)] = msgstate[Other(p)] /\ smpStep'[Other(p)] = smpStep[Other(p)]
      /\ msgstate'[p] # "ENCRYPTED"
  BY <1>1, <1>4 DEF TalkTypes
<1>6. PICK ms \in {<<>>, <<m>>} : Sends(p, ms)
  BY <1>1, <1>2
<1> HIDE DEF m
<1>7. ms \in Seq(Messages) /\ ~Has(ms, OtherKeys) /\ ~Has(ms, Of({"dh", "sig"}))
  <2>1. CASE ms = <<>>
    BY <2>1, HasFew
  <2>2. CASE ms = <<m>>
    BY <1>3, <2>2
  <2> QED
    BY <1>6, <2>1, <2>2
<1> QED
  BY <1>1, <1>2, <1>5, <1>6, <1>7, KeyedCall

\* The steps of the authentication that a user takes.
LEMMA AuthenticationCallsKept ==
    ASSUME AuthenticationInv, TalkTypes, NEW p \in Talkers,
           \/ startPeerAuthentication(p) \/ respondPeerAuthentication(p)
           \/ abortPeerAuthentication(p)
    PROVE  AuthenticationInv'
<1> SUFFICES ASSUME exchanges <= 1, raw = FALSE PROVE AuthenticationInv'
  BY DEF AuthenticationInv, startPeerAuthentication, respondPeerAuthentication,
         abortPeerAuthentication, exchangeVars, outcomeVars
<1> DEFINE o == Other(p)
           Sent(kind) == <<Keyed(kind, 1, Nobody)>>
<1>1. /\ ~Plain(p) /\ UNCHANGED <<exchanges, offered, key, raw, msgstate>>
  BY DEF startPeerAuthentication, respondPeerAuthentication, abortPeerAuthentication, Plain,
         exchangeVars, outcomeVars
<1>2. key[p] = 1
  BY <1>1, KeyOfParty
<1>3. \A kind \in {"smp1", "smp2", "abort"} :
        /\ Sent(kind) \in Seq(Messages) /\ ~Has(Sent(kind), OtherKeys)
        /\ ~Has(Sent(kind), Of({"dh", "sig"})) /\ Has(Sent(kind), Of({kind}))
  <2>1. Nobody \in Nat /\ \A kind \in {"smp1", "smp2", "abort"} :
          kind \in KeyedKinds /\ kind \notin {"dh", "sig"}
    BY DEF KeyedKinds, SMPKinds, Nobody
  <2> QED
    BY <2>1, OneKeyed
<1>4. o \in Talkers /\ o # p /\ Other(o) = p /\ \A q \in Talkers : q = p \/ q = o
  BY TwoPeople
<1>5. \/ smpStep' = [smpStep EXCEPT ![p] = "sent1"] /\ Sends(p, Sent("smp1"))
      \/ smpStep[p] = "asked" /\ smpStep' = [smpStep EXCEPT ![p] = "sent2"] /\ Sends(p, Sent("smp2"))
      \/ smpStep' = [smpStep EXCEPT ![p] = "idle"] /\ Sends(p, Sent("abort"))
  BY <1>2 DEF startPeerAuthentication, respondPeerAuthentication, abortPeerAuthentication, Abort
<1> HIDE DEF Sent
<1>6. PICK kind \in {"smp1", "smp2", "abort"} :
        /\ Sends(p, Sent(kind))
        /\ \/ kind = "smp1" /\ smpStep' = [smpStep EXCEPT ![p] = "sent1"]
           \/ kind = "smp2" /\ smpStep[p] = "asked" /\ smpStep' = [smpStep EXCEPT ![p] = "sent2"]
           \/ kind = "abort" /\ smpStep' = [smpStep EXCEPT ![p] = "idle"]
  BY <1>5
<1>7. /\ \A r \in Talkers : \A k : Holds(r, k) => Holds(r, k)'
      /\ Holds(o, kind)'
  BY <1>3, <1>6, SentGoesOn, SentHolds
<1>8. smpStep'[o] = smpStep[o] /\ msgstate'[o] = msgstate[o]
  BY <1>1, <1>4, <1>6 DEF TalkTypes
<1>9. \A q \in Talkers : GoesOn(q) => GoesOn(q)'
  <2>1. CASE kind = "abort"
    BY <1>4, <1>7, <2>1, AbortGoesOn
  <2>2. CASE \E q \in Talkers : Holds(q, "abort")
    BY <1>7, <2>2, AbortGoesOn
  <2>3. CASE kind # "abort" /\ ~\E q \in Talkers : Holds(q, "abort")
    <3>1. ASSUME GoesOn(p) PROVE GoesOn(p)'
      <4>1. CASE kind = "smp1"
        <5>1. smpStep'[p] = "sent1" /\ Holds(o, "smp1")'
          BY <1>6, <1>7, <4>1 DEF TalkTypes
        <5> QED
          BY <5>1 DEF GoesOn
      <4>2. CASE kind = "smp2"
        <5>1. smpStep'[p] = "sent2" /\ Holds(o, "smp2")'
          BY <1>6, <1>7, <4>2 DEF TalkTypes
        <5> QED
          BY <5>1 DEF GoesOn
      <4> QED
        BY <1>6, <2>3, <4>1, <4>2
    <3>2. ASSUME GoesOn(o) PROVE GoesOn(o)'
      <4>1. /\ smpStep[o] = "sent1" =>
                 \/ Holds(o, "smp1") \/ Holds(p, "smp1") \/ smpStep[p] = "asked"
                 \/ Holds(o, "smp2")
            /\ smpStep[o] = "sent2" => Holds(p, "smp2") \/ Holds(o, "smp3")
            /\ smpStep[o] = "sent3" => Holds(p, "smp3") \/ Holds(o, "smp4")
        BY <1>4, <2>3, <3>2 DEF GoesOn
      <4>2. /\ smpStep'[o] = "sent1" =>
                 \/ Holds(o, "smp1")' \/ Holds(p, "smp1")' \/ Holds(o, "smp2")'
            /\ smpStep'[o] = "sent2" => Holds(p, "smp2")' \/ Holds(o, "smp3")'
            /\ smpStep'[o] = "sent3" => Holds(p, "smp3")' \/ Holds(o, "smp4")'
        BY <1>4, <1>6, <1>7, <1>8, <2>3, <4>1
      <4> QED
        BY <1>4, <4>2 DEF GoesOn
    <3> QED
      BY <1>4, <3>1, <3>2
  <2> QED
    BY <2>1, <2>2, <2>3
<1> QED
  BY <1>1, <1>3, <1>6, <1>8, <1>9, KeyedCall

LEMMA AuthenticationInvKept ==
    ASSUME AuthenticationInv, TalkTypes, [TalkNext]_talkVars PROVE AuthenticationInv'
<1>1. ASSUME NEW p \in Talkers, \E policy \in TalkPolicies : setPolicy(p, policy)
      PROVE  AuthenticationInv'
  <2>1. UNCHANGED AuthenticationVars /\ raw' = raw /\ wire' = wire
    BY <1>1 DEF setPolicy, AuthenticationVars, exchangeVars, outcomeVars
  <2> QED
    BY <2>1, QuietKept DEF Neutral
<1>2. CASE UNCHANGED talkVars
  <2>1. UNCHANGED AuthenticationVars /\ raw' = raw /\ wire' = wire
    BY <1>2 DEF talkVars, AuthenticationVars, exchangeVars, outcomeVars
  <2> QED
    BY <2>1, QuietKept DEF Neutral
<1>3. ASSUME NEW p \in Talkers, Arrives(p) PROVE AuthenticationInv'
  BY <1>3, ArrivalKept
<1>4. ASSUME NEW p \in Talkers, Calls(p) PROVE AuthenticationInv'
  BY <1>1, <1>4, SendMessageKept, EncryptionFailsKept, InitializeKept, StopKept, AuthenticationCallsKept DEF Calls
<1> QED
  BY <1>2, <1>3, <1>4 DEF TalkNext

LEMMA AuthenticationBegins == TalkInit => AuthenticationInv
<1> SUFFICES ASSUME TalkInit PROVE AuthenticationInv
  OBVIOUS
<1>1. \A p \in Talkers : wire[p] = <<>> /\ Plain(p) /\ offered[p] = 0
  BY DEF TalkInit, Plain
<1>2. \A p \in Talkers : \A S : ~Has(wire[p], S)
  BY <1>1, HasFew
<1>3. NoExchange
  BY <1>1, <1>2 DEF NoExchange, Unkeyed, TalkInit
<1> QED
  BY <1>2, <1>3 DEF AuthenticationInv

\* Who waits has a step on the way, or the other is asked.
LEMMA AuthenticationAlive == AuthenticationInv /\ TalkTypes => NoVainAuthentication
<1> SUFFICES ASSUME AuthenticationInv, TalkTypes, NEW p \in Talkers, exchanges = 1, ~raw,
                    smpStep[p] \in {"sent1", "sent2", "sent3"},
                    \A q \in Talkers : msgstate[q] = "ENCRYPTED"
             PROVE  SMPAlive(p)
  BY DEF NoVainAuthentication
<1>1. raw = FALSE /\ exchanges <= 1
  BY DEF TalkTypes
<1>2. ~Plain(p) /\ ~Plain(Other(p)) /\ Other(p) \in Talkers
  BY TwoPeople DEF Plain
<1>3. Private
  BY <1>1, <1>2, KeyOfParty DEF Accepted
<1>4. GoesOn(p)
  BY <1>3 DEF Private
<1>5. ASSUME NEW q \in Talkers, NEW kind \in SMPKinds \cup {"abort"}, Holds(q, kind)
      PROVE  SMPAlive(p)
  <2>1. wire[q] \in Seq(Messages)
    BY DEF TalkTypes, Wires
  <2>2. PICK i \in 1 .. Len(wire[q]) : wire[q][i] \in Of({kind})
    BY <1>5 DEF Holds, Has
  <2>3. i \in DOMAIN wire[q] /\ wire[q][i].kind = kind
    BY <2>1, <2>2, LenProperties DEF Of
  <2>4. kind \in DOMAIN Expected \cup {"abort", "end", "dh", "sig"}
    BY DEF Expected, SMPKinds
  <2> QED
    BY <2>3, <2>4 DEF SMPAlive
<1>6. \/ smpStep[Other(p)] = "asked"
      \/ \E q \in Talkers : \E kind \in SMPKinds \cup {"abort"} : Holds(q, kind)
  BY <1>2, <1>4 DEF GoesOn, SMPKinds
<1> QED
  BY <1>5, <1>6 DEF SMPAlive

\* In a conversation with one key nobody waits in vain for a step of the authentication.
THEOREM AuthenticationNeverVain == TalkSpec => []NoVainAuthentication
<1>1. TalkInit => TalkInv /\ AuthenticationInv
  BY TalkBegins, AuthenticationBegins
<1>2. TalkInv /\ AuthenticationInv /\ [TalkNext]_talkVars => TalkInv' /\ AuthenticationInv'
  BY TalkGoesOn, AuthenticationInvKept DEF TalkInv
<1>3. TalkInv /\ AuthenticationInv => NoVainAuthentication
  BY AuthenticationAlive DEF TalkInv
<1> QED
  BY <1>1, <1>2, <1>3, PTL DEF TalkSpec

-----------------------------------------------------------------------------
(* The sessions and the keys of the contacts: OtrSession.                  *)

\* The key in use is that of an open, encrypted conversation and is on the list;
\* SMP runs only in such a conversation.
InUse ==
    \A c \in Contacts :
        /\ state[c] = "ENCRYPTED" =>
            c \in open /\ active[c] \in Fps /\ <<c, active[c]>> \in known
        /\ state[c] # "ENCRYPTED" => active[c] = NoFp
        /\ c \in smp => state[c] = "ENCRYPTED"

\* The inductive invariant.
IInv == TypeOK /\ InUse /\ TrustDurable /\ ViewMatches

\* All trust levels are of the type that clients are told.
LEMMA LevelType ==
    ASSUME state \in [Contacts -> States]
    PROVE  \A c \in Contacts : getTrustLevel(c) \in Levels
BY DEF getTrustLevel, States, Levels

\* Every callback keeps the types.
LEMMA NextTypeOK == IInv /\ [Next]_vars => TypeOK'
<1> SUFFICES ASSUME IInv, [Next]_vars PROVE TypeOK'
  OBVIOUS
<1> USE DEF convVars
<1>t. TypeOK /\ InUse
  BY DEF IInv
<1>k. \A c \in Contacts, f \in Fps : <<c, f>> \in Keys
  BY DEF Keys
<1>1. ASSUME NEW c \in Contacts, NEW f \in Fps, gone_secure(c, f) PROVE TypeOK'
  <2>1. state' \in [Contacts -> States] /\ known' \in SUBSET Keys
    BY <1>t, <1>1, <1>k DEF TypeOK, gone_secure, States
  <2>2. view' \in [Contacts -> Levels]
    BY <1>t, <1>1, <2>1, LevelType DEF TypeOK, gone_secure, onTrustLevelChanged, getTrustLevel, States, Levels
  <2>3. disk' \in [known : SUBSET Keys, trusted : SUBSET Keys] /\ unsaved' \in SUBSET Keys
    BY <1>t, <1>1, <2>1 DEF TypeOK, gone_secure, WriteFingerprints
  <2> QED
    BY <1>t, <1>1, <2>1, <2>2, <2>3 DEF TypeOK, gone_secure
<1>2. ASSUME NEW c \in Contacts, gone_insecure(c) PROVE TypeOK'
  <2>1. view' \in [Contacts -> Levels]
    BY <1>t, <1>2 DEF TypeOK, gone_insecure, onTrustLevelChanged, getTrustLevel, States, Levels
  <2> QED
    BY <1>t, <1>2, <2>1 DEF TypeOK, gone_insecure, States
<1>3. ASSUME NEW c \in Contacts, StartSMP(c) PROVE TypeOK'
  BY <1>t, <1>3 DEF TypeOK, StartSMP
<1>4. ASSUME NEW c \in Contacts, NEW success \in BOOLEAN, onSMPFinished(c, success) PROVE TypeOK'
  <2>0. <<c, active[c]>> \in Keys
    BY <1>t, <1>4, <1>k DEF TypeOK, InUse, onSMPFinished
  <2>1. view' \in [Contacts -> Levels]
    BY <1>t, <1>4 DEF TypeOK, onSMPFinished, onTrustLevelChanged, getTrustLevel, States, Levels
  <2>2. trusted' \in SUBSET Keys /\ verdict' \in SUBSET Keys
    BY <1>t, <1>4, <2>0 DEF TypeOK, onSMPFinished, SetTrust
  <2> QED
    BY <1>t, <1>4, <2>1, <2>2 DEF TypeOK, onSMPFinished, WriteFingerprints
<1>5. ASSUME NEW c \in Contacts, abortSMPAuthentiaction(c) PROVE TypeOK'
  BY <1>t, <1>5 DEF TypeOK, abortSMPAuthentiaction
<1>6. ASSUME NEW c \in Contacts, openChannel(c) PROVE TypeOK'
  <2>1. view' \in [Contacts -> Levels]
    BY <1>t, <1>6 DEF TypeOK, openChannel, onTrustLevelChanged, getTrustLevel, States, Levels
  <2> QED
    BY <1>t, <1>6, <2>1 DEF TypeOK, openChannel
<1>7. ASSUME NEW c \in Contacts, stopSession(c) PROVE TypeOK'
  <2>1. view' \in [Contacts -> Levels]
    BY <1>t, <1>7 DEF TypeOK, stopSession, forceUnencrypted, onTrustLevelChanged, getTrustLevel, States, Levels
  <2> QED
    BY <1>t, <1>7, <2>1 DEF TypeOK, stopSession, forceUnencrypted, States
<1>8. ASSUME NEW c \in Contacts, onChannelClosed(c) PROVE TypeOK'
  BY <1>t, <1>8 DEF TypeOK, onChannelClosed, forceUnencrypted, States
<1>9. ASSUME NEW c \in Contacts, NEW f \in Fps, NEW trust \in BOOLEAN, trustFingerprint(c, f, trust)
      PROVE TypeOK'
  <2>1. view' \in [Contacts -> Levels]
    BY <1>t, <1>9 DEF TypeOK, trustFingerprint, onTrustLevelChanged, getTrustLevel, States, Levels
  <2>2. trusted' \in SUBSET Keys /\ verdict' \in SUBSET Keys
    BY <1>t, <1>9, <1>k DEF TypeOK, trustFingerprint, SetTrust
  <2> QED
    BY <1>t, <1>9, <2>1, <2>2 DEF TypeOK, trustFingerprint, WriteFingerprints
<1>10. ASSUME NEW c \in Contacts, NEW f \in Fps, NEW trust \in BOOLEAN, serviceTrustFingerprint(c, f, trust)
       PROVE TypeOK'
  <2>1. view' \in [Contacts -> Levels]
    BY <1>t, <1>10 DEF TypeOK, serviceTrustFingerprint, onFingerprintTrusted, onTrustLevelChanged, getTrustLevel, States, Levels
  <2>2. trusted' \in SUBSET Keys /\ verdict' \in SUBSET Keys /\ unsaved' \in SUBSET Keys
    BY <1>t, <1>10, <1>k DEF TypeOK, serviceTrustFingerprint, onFingerprintTrusted, SetTrust
  <2> QED
    BY <1>t, <1>10, <2>1, <2>2 DEF TypeOK, serviceTrustFingerprint, onFingerprintTrusted
<1>11. ASSUME NEW c \in Contacts, NEW f \in Fps, forgetFingerprint(c, f) PROVE TypeOK'
  BY <1>t, <1>11 DEF TypeOK, forgetFingerprint, WriteFingerprints
<1>12. CASE UNCHANGED vars
  BY <1>t, <1>12 DEF TypeOK, vars
<1> QED
  BY <1>1, <1>2, <1>3, <1>4, <1>5, <1>6, <1>7, <1>8, <1>9, <1>10, <1>11, <1>12
     DEF Next, PeerStep, SMPStep, UserStep

\* No callback takes the key in use off the list, and a new process has no keys in use.
LEMMA NextInUse == IInv /\ [Next]_vars => InUse'
<1> SUFFICES ASSUME IInv, [Next]_vars PROVE InUse'
  OBVIOUS
<1> USE DEF convVars
<1>t. TypeOK /\ InUse /\ TrustDurable
  BY DEF IInv
<1>1. ASSUME NEW c \in Contacts, NEW f \in Fps, gone_secure(c, f) PROVE InUse'
  BY <1>t, <1>1 DEF TypeOK, InUse, TrustDurable, isFingerprintInUse, States, gone_secure, Keys
<1>2. ASSUME NEW c \in Contacts, gone_insecure(c) PROVE InUse'
  BY <1>t, <1>2 DEF TypeOK, InUse, TrustDurable, isFingerprintInUse, States, gone_insecure
<1>3. ASSUME NEW c \in Contacts, StartSMP(c) PROVE InUse'
  BY <1>t, <1>3 DEF TypeOK, InUse, TrustDurable, isFingerprintInUse, States, StartSMP
<1>4. ASSUME NEW c \in Contacts, NEW success \in BOOLEAN, onSMPFinished(c, success) PROVE InUse'
  BY <1>t, <1>4 DEF TypeOK, InUse, TrustDurable, isFingerprintInUse, States, onSMPFinished
<1>5. ASSUME NEW c \in Contacts, abortSMPAuthentiaction(c) PROVE InUse'
  BY <1>t, <1>5 DEF TypeOK, InUse, TrustDurable, isFingerprintInUse, States, abortSMPAuthentiaction
<1>6. ASSUME NEW c \in Contacts, openChannel(c) PROVE InUse'
  BY <1>t, <1>6 DEF TypeOK, InUse, TrustDurable, isFingerprintInUse, States, openChannel
<1>7. ASSUME NEW c \in Contacts, stopSession(c) PROVE InUse'
  BY <1>t, <1>7 DEF TypeOK, InUse, TrustDurable, isFingerprintInUse, States, stopSession, forceUnencrypted
<1>8. ASSUME NEW c \in Contacts, onChannelClosed(c) PROVE InUse'
  BY <1>t, <1>8 DEF TypeOK, InUse, TrustDurable, isFingerprintInUse, States, onChannelClosed, forceUnencrypted
<1>9. ASSUME NEW c \in Contacts, NEW f \in Fps, NEW trust \in BOOLEAN, trustFingerprint(c, f, trust) PROVE InUse'
  BY <1>t, <1>9 DEF TypeOK, InUse, TrustDurable, isFingerprintInUse, States, trustFingerprint
<1>10. ASSUME NEW c \in Contacts, NEW f \in Fps, NEW trust \in BOOLEAN, serviceTrustFingerprint(c, f, trust) PROVE InUse'
  BY <1>t, <1>10 DEF TypeOK, InUse, TrustDurable, isFingerprintInUse, States, serviceTrustFingerprint, onFingerprintTrusted
<1>11. ASSUME NEW c \in Contacts, NEW f \in Fps, forgetFingerprint(c, f) PROVE InUse'
  BY <1>t, <1>11 DEF TypeOK, InUse, TrustDurable, isFingerprintInUse, States, forgetFingerprint
<1>12. CASE UNCHANGED vars
  BY <1>t, <1>12 DEF TypeOK, InUse, TrustDurable, isFingerprintInUse, States, vars
<1> QED
  BY <1>1, <1>2, <1>3, <1>4, <1>5, <1>6, <1>7, <1>8, <1>9, <1>10, <1>11, <1>12
     DEF Next, PeerStep, SMPStep, UserStep

\* The file follows the memory: what changes the list writes it, or is noted as unsaved.
LEMMA NextDurable == IInv /\ [Next]_vars => TrustDurable'
<1> SUFFICES ASSUME IInv, [Next]_vars PROVE TrustDurable'
  OBVIOUS
<1> USE DEF convVars
<1>t. TypeOK /\ InUse /\ TrustDurable
  BY DEF IInv
<1>1. ASSUME NEW c \in Contacts, NEW f \in Fps, gone_secure(c, f) PROVE TrustDurable'
  BY <1>t, <1>1 DEF TypeOK, TrustDurable, gone_secure, WriteFingerprints, SetTrust
<1>2. ASSUME NEW c \in Contacts, gone_insecure(c) PROVE TrustDurable'
  BY <1>t, <1>2 DEF TypeOK, TrustDurable, gone_insecure
<1>3. ASSUME NEW c \in Contacts, StartSMP(c) PROVE TrustDurable'
  BY <1>t, <1>3 DEF TypeOK, TrustDurable, StartSMP
<1>4. ASSUME NEW c \in Contacts, NEW success \in BOOLEAN, onSMPFinished(c, success) PROVE TrustDurable'
  BY <1>t, <1>4 DEF TypeOK, TrustDurable, onSMPFinished, WriteFingerprints, SetTrust
<1>5. ASSUME NEW c \in Contacts, abortSMPAuthentiaction(c) PROVE TrustDurable'
  BY <1>t, <1>5 DEF TypeOK, TrustDurable, abortSMPAuthentiaction
<1>6. ASSUME NEW c \in Contacts, openChannel(c) PROVE TrustDurable'
  BY <1>t, <1>6 DEF TypeOK, TrustDurable, openChannel
<1>7. ASSUME NEW c \in Contacts, stopSession(c) PROVE TrustDurable'
  BY <1>t, <1>7 DEF TypeOK, TrustDurable, stopSession, forceUnencrypted
<1>8. ASSUME NEW c \in Contacts, onChannelClosed(c) PROVE TrustDurable'
  BY <1>t, <1>8 DEF TypeOK, TrustDurable, onChannelClosed, forceUnencrypted
<1>9. ASSUME NEW c \in Contacts, NEW f \in Fps, NEW trust \in BOOLEAN, trustFingerprint(c, f, trust) PROVE TrustDurable'
  BY <1>t, <1>9 DEF TypeOK, TrustDurable, trustFingerprint, WriteFingerprints, SetTrust
<1>10. ASSUME NEW c \in Contacts, NEW f \in Fps, NEW trust \in BOOLEAN, serviceTrustFingerprint(c, f, trust) PROVE TrustDurable'
  BY <1>t, <1>10 DEF TypeOK, TrustDurable, serviceTrustFingerprint, onFingerprintTrusted, WriteFingerprints, SetTrust
<1>11. ASSUME NEW c \in Contacts, NEW f \in Fps, forgetFingerprint(c, f) PROVE TrustDurable'
  BY <1>t, <1>11 DEF TypeOK, TrustDurable, forgetFingerprint, WriteFingerprints, SetTrust
<1>12. CASE UNCHANGED vars
  BY <1>t, <1>12 DEF TypeOK, TrustDurable, vars
<1> QED
  BY <1>1, <1>2, <1>3, <1>4, <1>5, <1>6, <1>7, <1>8, <1>9, <1>10, <1>11, <1>12
     DEF Next, PeerStep, SMPStep, UserStep

\* Whoever changes the trust in a conversation tells its client.
LEMMA NextViewMatches == IInv /\ [Next]_vars => ViewMatches'
<1> SUFFICES ASSUME IInv, [Next]_vars PROVE ViewMatches'
  OBVIOUS
<1> USE DEF convVars
<1>t. TypeOK /\ InUse /\ ViewMatches
  BY DEF IInv
<1>1. ASSUME NEW c \in Contacts, NEW f \in Fps, gone_secure(c, f) PROVE ViewMatches'
  BY <1>t, <1>1 DEF TypeOK, InUse, ViewMatches, getTrustLevel, States, gone_secure, onTrustLevelChanged
<1>2. ASSUME NEW c \in Contacts, gone_insecure(c) PROVE ViewMatches'
  BY <1>t, <1>2 DEF TypeOK, InUse, ViewMatches, getTrustLevel, States, gone_insecure, onTrustLevelChanged
<1>3. ASSUME NEW c \in Contacts, StartSMP(c) PROVE ViewMatches'
  BY <1>t, <1>3 DEF TypeOK, InUse, ViewMatches, getTrustLevel, States, StartSMP
<1>4. ASSUME NEW c \in Contacts, NEW success \in BOOLEAN, onSMPFinished(c, success) PROVE ViewMatches'
  BY <1>t, <1>4 DEF TypeOK, InUse, ViewMatches, getTrustLevel, States, onSMPFinished, onTrustLevelChanged, SetTrust
<1>5. ASSUME NEW c \in Contacts, abortSMPAuthentiaction(c) PROVE ViewMatches'
  BY <1>t, <1>5 DEF TypeOK, InUse, ViewMatches, getTrustLevel, States, abortSMPAuthentiaction
<1>6. ASSUME NEW c \in Contacts, openChannel(c) PROVE ViewMatches'
  BY <1>t, <1>6 DEF TypeOK, InUse, ViewMatches, getTrustLevel, States, openChannel, onTrustLevelChanged
<1>7. ASSUME NEW c \in Contacts, stopSession(c) PROVE ViewMatches'
  BY <1>t, <1>7 DEF TypeOK, InUse, ViewMatches, getTrustLevel, States, stopSession, forceUnencrypted, onTrustLevelChanged
<1>8. ASSUME NEW c \in Contacts, onChannelClosed(c) PROVE ViewMatches'
  BY <1>t, <1>8 DEF TypeOK, InUse, ViewMatches, getTrustLevel, States, onChannelClosed, forceUnencrypted
<1>9. ASSUME NEW c \in Contacts, NEW f \in Fps, NEW trust \in BOOLEAN, trustFingerprint(c, f, trust) PROVE ViewMatches'
  BY <1>t, <1>9 DEF TypeOK, InUse, ViewMatches, getTrustLevel, States, trustFingerprint, onTrustLevelChanged, SetTrust
<1>10. ASSUME NEW c \in Contacts, NEW f \in Fps, NEW trust \in BOOLEAN, serviceTrustFingerprint(c, f, trust) PROVE ViewMatches'
  BY <1>t, <1>10 DEF TypeOK, InUse, ViewMatches, getTrustLevel, States, serviceTrustFingerprint, onFingerprintTrusted, onTrustLevelChanged, SetTrust
<1>11. ASSUME NEW c \in Contacts, NEW f \in Fps, forgetFingerprint(c, f) PROVE ViewMatches'
  BY <1>t, <1>11 DEF TypeOK, InUse, ViewMatches, getTrustLevel, States, forgetFingerprint, isFingerprintInUse
<1>12. CASE UNCHANGED vars
  BY <1>t, <1>12 DEF TypeOK, InUse, ViewMatches, getTrustLevel, States, vars
<1> QED
  BY <1>1, <1>2, <1>3, <1>4, <1>5, <1>6, <1>7, <1>8, <1>9, <1>10, <1>11, <1>12
     DEF Next, PeerStep, SMPStep, UserStep

\* Every client of an open channel is shown the trust that its conversation has; the
\* key in use is always on the list; the file holds what the memory does except for
\* what is noted as unsaved: for any contacts, any keys and any restarts.
THEOREM TrustShown == Spec => [](TypeOK /\ ViewMatches /\ ActiveKnown /\ TrustDurable)
<1>1. Init => IInv
  BY SessionAssumption DEF Init, IInv, TypeOK, InUse, TrustDurable, ViewMatches, States, Levels
<1>2. IInv /\ [Next]_vars => IInv'
  BY NextTypeOK, NextInUse, NextDurable, NextViewMatches DEF IInv
<1>3. IInv => TypeOK /\ ViewMatches /\ ActiveKnown /\ TrustDurable
  <2>1. IInv => ActiveKnown
    BY SessionAssumption DEF IInv, InUse, ActiveKnown
  <2> QED
    BY <2>1 DEF IInv
<1> QED
  BY <1>1, <1>2, <1>3, PTL DEF Spec

\* Part of it: the file that a restart reads holds all keys and verdicts, except for the
\* verdicts given through the service since it was last written.
THEOREM TrustSurvives == Spec => []TrustDurable
BY TrustShown, PTL

=============================================================================
