------------------------ MODULE ChannelAdapterProofs ------------------------
(* TLAPS proofs about ChannelAdapter: it implements MessageQueue, for any    *)
(* numbers of messages, events and calls; and when nothing is under way, it  *)
(* shows the messages, the trust level and the fingerprint of the proxy.     *)
EXTENDS ChannelAdapter, SequenceItems, SequenceTheorems, FiniteSetTheorems, TLAPS

Fps == PeerFps \cup {NoPeerFp}

Calls == [op : Properties \cup {"SendMessage"}]
            \cup [op : {"AcknowledgePendingMessages"}, ids : SUBSET Ids]

Items == [kind : {"MessageReceived", "PendingMessagesRemoved"}, id : Ids]
            \cup [kind : {"Notice", "MessageSent"}]
            \cup [kind : {"TrustLevelChanged", "TrustLevel"}, level : PeerLevels]
            \cup [kind : {"RemoteFingerprint"}, fp : Fps]
            \cup [kind : {"PendingMessages"}, ids : SUBSET Ids]

Types ==
    /\ arrived \in 0 .. MaxMsgs
    /\ pending \subseteq 1 .. arrived /\ gone \subseteq 1 .. arrived
    /\ messages \subseteq Ids
    /\ level \in PeerLevels /\ fp \in Fps
    /\ filled \in BOOLEAN
    /\ calls \in Seq(Calls) /\ link \in Seq(Items) /\ posted \in Seq(Items)

(***************************************************************************)
(* Order on the link s, when g are gone and n messages have arrived: a     *)
(* message on its way is not gone, nothing in front of it carries its id,  *)
(* and no item names a message that has not arrived.                       *)
(***************************************************************************)
Naming == {"MessageReceived", "PendingMessagesRemoved"}

Ordered(s, g, n) ==
    /\ \A k \in 1 .. Len(s) : s[k].kind \in Naming => s[k].id <= n
    /\ \A k \in 1 .. Len(s) : s[k].kind = "MessageReceived" => s[k].id \notin g
    /\ \A j, k \in 1 .. Len(s) :
          j < k /\ s[j].kind \in Naming /\ s[k].kind = "MessageReceived" => s[j].id # s[k].id

\* Handling an item leaves the others in order.
LEMMA OrderedTail ==
    ASSUME NEW s \in Seq(Items), s # <<>>, NEW g, NEW n \in Nat, Ordered(s, g, n)
    PROVE  Ordered(Tail(s), g, n)
<1>1. /\ Len(s) \in Nat /\ Len(s) # 0 /\ Len(Tail(s)) = Len(s) - 1
      /\ \A i \in 1 .. Len(Tail(s)) : Tail(s)[i] = s[i + 1]
  BY HeadTailProperties
<1> QED
  BY <1>1 DEF Ordered

\* An item that names no message, or the removal of one that arrived, may follow.
LEMMA OrderedAppend ==
    ASSUME NEW s \in Seq(Items), NEW x \in Items, NEW g, NEW n \in Nat, Ordered(s, g, n),
           x.kind # "MessageReceived", x.kind = "PendingMessagesRemoved" => x.id <= n
    PROVE  Ordered(Append(s, x), g, n)
<1>1. /\ Len(s) \in Nat /\ Len(Append(s, x)) = Len(s) + 1
      /\ \A i \in 1 .. Len(s) : Append(s, x)[i] = s[i]
      /\ Append(s, x)[Len(s) + 1] = x
  BY AppendProperties
<1> QED
  BY <1>1 DEF Ordered, Naming

\* So may the next message, which nothing has named yet.
LEMMA OrderedNext ==
    ASSUME NEW s \in Seq(Items), NEW x \in Items, NEW n \in Nat, NEW g \in SUBSET (1 .. n),
           Ordered(s, g, n), x.kind = "MessageReceived", x.id = n + 1
    PROVE  Ordered(Append(s, x), g, n + 1)
<1>1. /\ Len(s) \in Nat /\ Len(Append(s, x)) = Len(s) + 1
      /\ \A i \in 1 .. Len(s) : Append(s, x)[i] = s[i]
      /\ Append(s, x)[Len(s) + 1] = x
  BY AppendProperties
<1>2. \A i \in 1 .. Len(s) : s[i].kind \in Naming => s[i].id \in Int
  BY DEF Items, Ids, Naming
<1> QED
  BY <1>1, <1>2 DEF Ordered

\* A removal that is handled takes a message that is not on its way.
LEMMA OrderedGone ==
    ASSUME NEW s \in Seq(Items), s # <<>>, NEW g, NEW n \in Nat, Ordered(s, g, n),
           Head(s).kind = "PendingMessagesRemoved"
    PROVE  Ordered(Tail(s), g \cup {Head(s).id}, n)
<1>1. /\ Len(s) \in Nat /\ Len(s) # 0 /\ Len(Tail(s)) = Len(s) - 1 /\ Head(s) = s[1]
      /\ \A i \in 1 .. Len(Tail(s)) : Tail(s)[i] = s[i + 1]
  BY HeadTailProperties
<1> QED
  BY <1>1 DEF Ordered, Naming

(***************************************************************************)
(* The contents of the queue are asked for once: the query is the first    *)
(* call, its reply travels on the link c, p, and then the queue is filled. *)
(***************************************************************************)
Asks(c) == \E k \in 1 .. Len(c) : c[k].op = "PendingMessages"
Carries(s) == \E k \in 1 .. Len(s) : s[k].kind = "PendingMessages"
AsksFirst(c) == \A k \in 1 .. Len(c) : c[k].op = "PendingMessages" => k = 1
CarriesOnce(s) ==
    \A j, k \in 1 .. Len(s) :
        s[j].kind = "PendingMessages" /\ s[k].kind = "PendingMessages" => j = k

OneFill(c, s, p, f) ==
    /\ AsksFirst(c) /\ CarriesOnce(s) /\ CarriesOnce(p)
    /\ Asks(c) => ~Carries(s) /\ ~Carries(p) /\ ~f
    /\ Carries(s) => ~Carries(p) /\ ~f
    /\ Carries(p) => ~f

\* Taking the first call asks no more; it asked itself, or another call did.
LEMMA CallTaken ==
    ASSUME NEW c \in Seq(Calls), c # <<>>, AsksFirst(c)
    PROVE  /\ ~Asks(Tail(c)) /\ AsksFirst(Tail(c))
           /\ Head(c).op = "PendingMessages" => Asks(c)
<1>1. /\ Len(c) \in Nat /\ Len(c) # 0 /\ Len(Tail(c)) = Len(c) - 1 /\ Head(c) = c[1]
      /\ \A i \in 1 .. Len(Tail(c)) : Tail(c)[i] = c[i + 1]
  BY HeadTailProperties
<1> QED
  BY <1>1 DEF Asks, AsksFirst

\* Further calls that do not ask change nothing.
LEMMA CallsAdded ==
    ASSUME NEW c \in Seq(Calls), NEW d \in Seq(Calls), AsksFirst(c), ~Asks(d)
    PROVE  AsksFirst(c \o d) /\ (Asks(c \o d) => Asks(c))
<1>1. /\ Len(c) \in Nat /\ Len(d) \in Nat /\ Len(c \o d) = Len(c) + Len(d)
      /\ \A i \in 1 .. Len(c) + Len(d) :
            (c \o d)[i] = IF i <= Len(c) THEN c[i] ELSE d[i - Len(c)]
  BY ConcatProperties
<1>2. \A i \in 1 .. Len(c) + Len(d) :
        (c \o d)[i].op = "PendingMessages" => i <= Len(c) /\ c[i].op = "PendingMessages"
  BY <1>1 DEF Asks
<1> QED
  BY <1>1, <1>2 DEF Asks, AsksFirst

\* Taking an item from a link that carries the reply once.
LEMMA ItemTaken ==
    ASSUME NEW s \in Seq(Items), s # <<>>, CarriesOnce(s)
    PROVE  /\ CarriesOnce(Tail(s)) /\ (Carries(Tail(s)) => Carries(s))
           /\ Head(s).kind = "PendingMessages" => Carries(s) /\ ~Carries(Tail(s))
<1>1. /\ Len(s) \in Nat /\ Len(s) # 0 /\ Len(Tail(s)) = Len(s) - 1 /\ Head(s) = s[1]
      /\ \A i \in 1 .. Len(Tail(s)) : Tail(s)[i] = s[i + 1]
  BY HeadTailProperties
<1> QED
  BY <1>1 DEF Carries, CarriesOnce

\* Adding an item: the reply, if it is not there, or anything else.
LEMMA ItemAdded ==
    ASSUME NEW s \in Seq(Items), NEW x \in Items, CarriesOnce(s)
    PROVE  /\ x.kind # "PendingMessages" =>
                CarriesOnce(Append(s, x)) /\ (Carries(Append(s, x)) => Carries(s))
           /\ ~Carries(s) => CarriesOnce(Append(s, x))
<1>1. /\ Len(s) \in Nat /\ Len(Append(s, x)) = Len(s) + 1
      /\ \A i \in 1 .. Len(s) : Append(s, x)[i] = s[i]
      /\ Append(s, x)[Len(s) + 1] = x
  BY AppendProperties
<1> QED
  BY <1>1 DEF Carries, CarriesOnce

\* Where the reply may be, if no action adds one.
LEMMA OneFillKept ==
    ASSUME NEW c, NEW s, NEW p, NEW f, NEW c2, NEW s2, NEW p2, OneFill(c, s, p, f),
           AsksFirst(c2), CarriesOnce(s2), CarriesOnce(p2),
           Asks(c2) => Asks(c), Carries(s2) => Carries(s), Carries(p2) => Carries(p)
    PROVE  OneFill(c2, s2, p2, f)
BY DEF OneFill

\* One more call that does not ask.
LEMMA CallAdded ==
    ASSUME NEW c \in Seq(Calls), NEW x \in Calls, AsksFirst(c), x.op # "PendingMessages"
    PROVE  /\ Append(c, x) \in Seq(Calls)
           /\ AsksFirst(Append(c, x)) /\ (Asks(Append(c, x)) => Asks(c))
<1>1. /\ Len(c) \in Nat /\ Len(Append(c, x)) = Len(c) + 1
      /\ \A i \in 1 .. Len(c) : Append(c, x)[i] = c[i]
      /\ Append(c, x)[Len(c) + 1] = x
      /\ Append(c, x) \in Seq(Calls)
  BY AppendProperties
<1> QED
  BY <1>1 DEF Asks, AsksFirst

\* What Announced adds are acknowledgements.
LEMMA AnnouncedCalls ==
    ASSUME Types, AsksFirst(calls), NEW ids \in SUBSET Ids
    PROVE  /\ Announced(ids) \in Seq(Calls)
           /\ AsksFirst(Announced(ids)) /\ (Asks(Announced(ids)) => Asks(calls))
<1> DEFINE acks == [n \in 1 .. Cardinality(ids) |->
                      Acknowledgement(messages \cup First(ids, n))]
<1>1. Cardinality(ids) \in Nat
  <2>1. IsFiniteSet(Ids)
    BY FS_Interval, AdapterAssumption DEF Ids
  <2> QED
    BY <2>1, FS_Subset, FS_CardinalityType
<1>2. \A n \in 1 .. Cardinality(ids) :
        /\ acks[n] \in Calls
        /\ acks[n].op = "AcknowledgePendingMessages"
  BY DEF Types, Acknowledgement, First, Calls
<1>3. acks \in Seq(Calls) /\ Len(acks) = Cardinality(ids)
  <2>1. acks \in [1 .. Cardinality(ids) -> Calls]
    BY <1>2
  <2> HIDE DEF acks
  <2> QED
    BY <1>1, <2>1, SeqDef, LenProperties
<1>4. ~Asks(acks)
  BY <1>2, <1>3 DEF Asks
<1>5. CASE visible
  <2>1. Announced(ids) = calls \o acks
    BY <1>5 DEF Announced
  <2>2. calls \in Seq(Calls)
    BY DEF Types
  <2> HIDE DEF acks
  <2> QED
    BY <1>3, <1>4, <2>1, <2>2, CallsAdded, ConcatProperties
<1>6. CASE ~visible
  BY <1>6 DEF Announced, Types
<1> QED
  BY <1>5, <1>6

\* What a change of the trust level adds are queries of the fingerprint.
LEMMA FingerprintCalls ==
    ASSUME NEW old, NEW new
    PROVE  FingerprintQueries(old, new) \in Seq(Calls) /\ ~Asks(FingerprintQueries(old, new))
<1> DEFINE x == Request("RemoteFingerprint")
<1>1. x \in Calls /\ x.op = "RemoteFingerprint"
  BY DEF Request, Calls, Properties
<1>2. FingerprintQueries(old, new) \in {<<>> \o <<>>, <<>> \o <<x>>, <<x>> \o <<>>, <<x>> \o <<x>>}
  BY DEF FingerprintQueries
<1> HIDE DEF x
<1>3. <<>> \in Seq(Calls) /\ <<x>> \in Seq(Calls) /\ ~Asks(<<>>) /\ ~Asks(<<x>>)
  BY <1>1 DEF Asks
<1>4. \A c, d \in Seq(Calls) : ~Asks(c) /\ ~Asks(d) => c \o d \in Seq(Calls) /\ ~Asks(c \o d)
  <2> SUFFICES ASSUME NEW c \in Seq(Calls), NEW d \in Seq(Calls), ~Asks(c), ~Asks(d)
               PROVE  c \o d \in Seq(Calls) /\ ~Asks(c \o d)
    OBVIOUS
  <2>1. AsksFirst(c)
    BY DEF Asks, AsksFirst
  <2> QED
    BY <2>1, CallsAdded, ConcatProperties
<1> QED
  BY <1>2, <1>3, <1>4

(***************************************************************************)
(* The inductive invariant.  Before the adapter is set up nothing travels. *)
(***************************************************************************)
Unconnected ==
    mode = "new" => calls = <<>> /\ link = <<>> /\ posted = <<>> /\ filled = FALSE

Inv ==
    /\ Types
    /\ Ordered(link, gone, arrived)
    /\ OneFill(calls, link, posted, filled)
    /\ Unconnected

\* A signal that names no new message leaves the invariant of the link.
LEMMA SignalKeeps ==
    ASSUME Inv, NEW x \in Items, Signal(x),
           x.kind \notin {"MessageReceived", "PendingMessages"},
           x.kind = "PendingMessagesRemoved" => x.id <= arrived
    PROVE  /\ link' \in Seq(Items) /\ Ordered(link', gone, arrived)
           /\ CarriesOnce(link') /\ (Carries(link') => Carries(link))
           /\ mode = "new" => link' = link
<1>1. link \in Seq(Items) /\ arrived \in Nat /\ Ordered(link, gone, arrived) /\ CarriesOnce(link)
  BY AdapterAssumption DEF Inv, Types, OneFill
<1>2. CASE mode = "otr"
  <2>1. link' = Append(link, x)
    BY <1>2 DEF Signal
  <2> QED
    BY <1>1, <1>2, <2>1, OrderedAppend, ItemAdded, AppendProperties
<1>3. CASE mode # "otr"
  <2>1. link' = link
    BY <1>3 DEF Signal
  <2> QED
    BY <1>1, <2>1
<1> QED
  BY <1>2, <1>3

\* An item that arrives and is no reply with the contents of the queue.
LEMMA ArrivingKeeps ==
    ASSUME Inv, NEW kind, Arriving(kind)
    PROVE  /\ Head(link) \in Items /\ Head(link).kind = kind /\ mode # "new"
           /\ link' \in Seq(Items) /\ Ordered(link', gone, arrived)
           /\ CarriesOnce(link') /\ (Carries(link') => Carries(link))
           /\ kind = "PendingMessages" => Carries(link) /\ ~Carries(link')
           /\ kind = "PendingMessagesRemoved" =>
                Ordered(link', gone \cup {Head(link).id}, arrived)
           /\ kind \in Naming => Head(link).id <= arrived
           /\ kind = "MessageReceived" => Head(link).id \notin gone
<1>1. /\ link \in Seq(Items) /\ arrived \in Nat /\ Ordered(link, gone, arrived)
      /\ CarriesOnce(link) /\ link # <<>> /\ link' = Tail(link) /\ Head(link).kind = kind
  BY AdapterAssumption DEF Inv, Types, OneFill, Arriving
<1>2. Head(link) \in Items /\ link' \in Seq(Items) /\ mode # "new"
  BY <1>1, HeadTailProperties DEF Inv, Unconnected
<1>3. Ordered(link', gone, arrived)
  BY <1>1, OrderedTail
<1>4. kind = "PendingMessagesRemoved" => Ordered(link', gone \cup {Head(link).id}, arrived)
  BY <1>1, OrderedGone
<1>5. /\ CarriesOnce(link') /\ (Carries(link') => Carries(link))
      /\ kind = "PendingMessages" => Carries(link) /\ ~Carries(link')
  BY <1>1, ItemTaken
<1>6. /\ kind \in Naming => Head(link).id <= arrived
      /\ kind = "MessageReceived" => Head(link).id \notin gone
  <2>1. Head(link) = link[1] /\ 1 \in 1 .. Len(link)
    BY <1>1
  <2> QED
    BY <1>1, <2>1 DEF Ordered
<1> QED
  BY <1>1, <1>2, <1>3, <1>4, <1>5, <1>6

(***************************************************************************)
(* One step of AdapterNext preserves the invariant, and is a step of the   *)
(* queue or leaves it alone.                                               *)
(***************************************************************************)
QueueStep == [Queue!Next]_(Queue!vars)

\* Steps that do not change the queue and only pass on what does not matter to it.
LEMMA Passing ==
    ASSUME Inv,
           arrived' = arrived, pending' \subseteq pending,
           UNCHANGED queueVars,
           level' \in PeerLevels, fp' \in Fps, mode' \in {mode, "otr", "text"},
           mode' = "new" => mode = "new" /\ UNCHANGED <<calls, link, posted>>,
           calls' \in Seq(Calls), link' \in Seq(Items), posted' \in Seq(Items),
           Ordered(link', gone, arrived), OneFill(calls', link', posted', filled)
    PROVE  Inv' /\ QueueStep
<1>1. Types'
  BY DEF Inv, Types, queueVars
<1>2. Ordered(link, gone, arrived)' /\ OneFill(calls, link, posted, filled)'
  BY DEF queueVars
<1>3. Unconnected'
  BY DEF Inv, Unconnected, queueVars
<1>4. QueueStep
  BY DEF QueueStep, Queue!vars, queueVars
<1> QED
  BY <1>1, <1>2, <1>3, <1>4 DEF Inv

\* The parts of the invariant, for the steps below.
LEMMA InvParts ==
    ASSUME Inv
    PROVE  /\ calls \in Seq(Calls) /\ link \in Seq(Items) /\ posted \in Seq(Items)
           /\ arrived \in Nat /\ arrived <= MaxMsgs /\ messages \subseteq Ids
           /\ pending \subseteq 1 .. arrived /\ gone \subseteq 1 .. arrived
           /\ level \in PeerLevels /\ fp \in Fps /\ filled \in BOOLEAN
           /\ Ordered(link, gone, arrived) /\ OneFill(calls, link, posted, filled)
           /\ AsksFirst(calls) /\ CarriesOnce(link) /\ CarriesOnce(posted)
BY AdapterAssumption DEF Inv, Types, OneFill

\* The proxy is told of a new message.
LEMMA MessageReceivedStep == Inv /\ MessageReceived => Inv' /\ QueueStep
<1> SUFFICES ASSUME Inv, MessageReceived PROVE Inv' /\ QueueStep
  OBVIOUS
<1> DEFINE x == [kind |-> "MessageReceived", id |-> arrived + 1]
<1>1. /\ arrived' = arrived + 1 /\ arrived < MaxMsgs /\ pending' = pending \cup {arrived + 1}
      /\ Signal(x)
      /\ UNCHANGED <<ackVars, sessionVars, sending, calls, posted, adapterVars>>
  BY DEF MessageReceived
<1>2. x \in Items /\ x.kind = "MessageReceived" /\ x.id = arrived + 1
  BY <1>1, InvParts, AdapterAssumption DEF Items, Ids
<1> HIDE DEF x
<1>3. /\ link' \in Seq(Items) /\ Ordered(link', gone, arrived + 1)
      /\ CarriesOnce(link') /\ (Carries(link') => Carries(link))
      /\ mode = "new" => link' = link
  <2>1. CASE mode = "otr"
    <3>1. link' = Append(link, x)
      BY <1>1, <2>1 DEF Signal
    <3> QED
      BY <1>2, <2>1, <3>1, InvParts, OrderedNext, ItemAdded, AppendProperties
  <2>2. CASE mode # "otr"
    <3>1. link' = link
      BY <1>1, <2>2 DEF Signal
    <3>2. Ordered(link, gone, arrived + 1)
      <4>1. \A k \in 1 .. Len(link) : link[k].kind \in Naming => link[k].id \in Int
        BY InvParts DEF Items, Ids, Naming
      <4> QED
        BY <4>1, InvParts DEF Ordered
    <3> QED
      BY <3>1, <3>2, InvParts
  <2> QED
    BY <2>1, <2>2
<1>4. /\ UNCHANGED <<messages, gone, filled, calls, posted, mode, level, fp>>
  BY <1>1 DEF adapterVars, queueVars, sessionVars
<1>5. OneFill(calls, link', posted, filled)
  BY <1>3, InvParts, OneFillKept
<1>6. Types'
  BY <1>1, <1>3, <1>4, InvParts, AdapterAssumption DEF Types
<1>7. Unconnected'
  BY <1>3, <1>4 DEF Inv, Unconnected
<1>8. QueueStep
  BY <1>4 DEF QueueStep, Queue!vars
<1> QED
  BY <1>1, <1>3, <1>4, <1>5, <1>6, <1>7, <1>8 DEF Inv

\* The other steps of the proxy.
LEMMA ProxyQueueStep == Inv /\ ProxyStep => Inv' /\ QueueStep
<1> SUFFICES ASSUME Inv, ProxyStep PROVE Inv' /\ QueueStep
  OBVIOUS
<1> USE DEF ackVars, sessionVars
<1>1. CASE MessageReceived
  BY <1>1, MessageReceivedStep
<1>2. ASSUME NEW i \in Ids, PendingMessagesRemoved(i) PROVE Inv' /\ QueueStep
  <2> DEFINE x == [kind |-> "PendingMessagesRemoved", id |-> i]
  <2>1. /\ i \in pending /\ pending' \subseteq pending /\ Signal(x)
        /\ UNCHANGED <<arrived, refused, level, fp, calls, posted, adapterVars>>
    BY <1>2 DEF PendingMessagesRemoved
  <2>2. x \in Items /\ x.kind = "PendingMessagesRemoved" /\ x.id <= arrived
    BY <2>1, InvParts DEF Items
  <2> HIDE DEF x
  <2>3. /\ link' \in Seq(Items) /\ Ordered(link', gone, arrived)
        /\ CarriesOnce(link') /\ (Carries(link') => Carries(link))
        /\ mode = "new" => link' = link
    BY <2>1, <2>2, SignalKeeps
  <2>4. OneFill(calls', link', posted', filled)
    BY <2>1, <2>3, InvParts, OneFillKept
  <2> QED
    BY <2>1, <2>3, <2>4, InvParts, Passing DEF adapterVars
<1>3. CASE Notice
  <2> DEFINE x == [kind |-> "Notice"]
  <2>1. /\ mode = "otr" /\ Signal(x)
        /\ UNCHANGED <<proxyVars, calls, posted, mode, queueVars>>
    BY <1>3 DEF Notice
  <2>2. x \in Items /\ x.kind = "Notice"
    BY DEF Items
  <2> HIDE DEF x
  <2>3. /\ link' \in Seq(Items) /\ Ordered(link', gone, arrived)
        /\ CarriesOnce(link') /\ (Carries(link') => Carries(link))
        /\ mode = "new" => link' = link
    BY <2>1, <2>2, SignalKeeps
  <2>4. OneFill(calls', link', posted', filled)
    BY <2>1, <2>3, InvParts, OneFillKept
  <2> QED
    BY <2>1, <2>3, <2>4, InvParts, Passing DEF proxyVars
<1>4. ASSUME NEW l \in PeerLevels, NEW f \in PeerFps \cup {NoPeerFp}, TrustLevelChanged(l, f)
      PROVE  Inv' /\ QueueStep
  <2> DEFINE x == [kind |-> "TrustLevelChanged", level |-> l]
  <2>1. /\ level' = l /\ fp' = f /\ Signal(x)
        /\ UNCHANGED <<arrived, pending, calls, posted, adapterVars>>
    BY <1>4 DEF TrustLevelChanged
  <2>2. x \in Items /\ x.kind = "TrustLevelChanged"
    BY DEF Items
  <2> HIDE DEF x
  <2>3. /\ link' \in Seq(Items) /\ Ordered(link', gone, arrived)
        /\ CarriesOnce(link') /\ (Carries(link') => Carries(link))
        /\ mode = "new" => link' = link
    BY <2>1, <2>2, SignalKeeps
  <2>4. OneFill(calls', link', posted', filled)
    BY <2>1, <2>3, InvParts, OneFillKept
  <2> QED
    BY <2>1, <2>3, <2>4, InvParts, Passing DEF adapterVars, Fps
<1>5. ASSUME NEW name \in Properties, GetProperty(name) PROVE Inv' /\ QueueStep
  <2> DEFINE x == Property(name)
  <2>1. /\ calls # <<>> /\ Head(calls).op = name /\ calls' = Tail(calls) /\ Signal(x)
        /\ UNCHANGED <<proxyVars, posted, adapterVars>>
    BY <1>5 DEF GetProperty, Called
  <2>2. x \in Items /\ x.kind = name
    BY InvParts, AdapterAssumption DEF Items, Property, Properties, Ids
  <2>3. calls' \in Seq(Calls) /\ AsksFirst(calls') /\ ~Asks(calls') /\ mode # "new"
        /\ (name = "PendingMessages" => Asks(calls))
    BY <2>1, InvParts, CallTaken, HeadTailProperties DEF Inv, Unconnected
  <2>4. name \in {"PendingMessages", "TrustLevel", "RemoteFingerprint"}
    BY DEF Properties
  <2> HIDE DEF x
  <2>5. link' \in Seq(Items) /\ Ordered(link', gone, arrived)
    <3>1. CASE mode = "otr"
      <4>1. link' = Append(link, x)
        BY <2>1, <3>1 DEF Signal
      <4> QED
        BY <2>2, <2>4, <4>1, InvParts, OrderedAppend, AppendProperties
    <3>2. CASE mode # "otr"
      BY <2>1, <3>2, InvParts DEF Signal
    <3> QED
      BY <3>1, <3>2
  <2>6. OneFill(calls', link', posted, filled)
    <3>1. CASE name # "PendingMessages"
      <4>1. CarriesOnce(link') /\ (Carries(link') => Carries(link))
        BY <2>1, <2>2, <2>4, <3>1, SignalKeeps
      <4> QED
        BY <2>3, <4>1, InvParts, OneFillKept
    <3>2. CASE name = "PendingMessages"
      <4>1. ~Carries(link) /\ ~Carries(posted) /\ ~filled
        BY <2>3, <3>2, InvParts DEF OneFill
      <4>2. CarriesOnce(link')
        <5>1. link' = link \/ link' = Append(link, x)
          BY <2>1 DEF Signal
        <5> QED
          BY <2>2, <4>1, <5>1, InvParts, ItemAdded
      <4> QED
        BY <2>3, <4>1, <4>2, InvParts DEF OneFill
    <3> QED
      BY <3>1, <3>2
  <2> QED
    BY <2>1, <2>3, <2>5, <2>6, InvParts, Passing DEF adapterVars, proxyVars
<1>6. CASE sendMessage \/ acknowledgePendingMessages
  <2>1. /\ calls # <<>> /\ calls' = Tail(calls)
        /\ UNCHANGED <<arrived, pending, level, fp, link, posted, adapterVars>>
    BY <1>6 DEF sendMessage, acknowledgePendingMessages, Called
  <2>2. calls' \in Seq(Calls) /\ AsksFirst(calls') /\ ~Asks(calls') /\ mode # "new"
    BY <2>1, InvParts, CallTaken, HeadTailProperties DEF Inv, Unconnected
  <2>3. OneFill(calls', link', posted', filled)
    BY <2>1, <2>2, InvParts, OneFillKept
  <2> QED
    BY <2>1, <2>2, <2>3, InvParts, Passing DEF adapterVars
<1>7. CASE onPendingSendFinished
  <2> DEFINE x == [kind |-> "MessageSent"]
  <2>1. /\ UNCHANGED link \/ Signal(x)
        /\ UNCHANGED <<arrived, pending, level, fp, calls, posted, adapterVars>>
    BY <1>7 DEF onPendingSendFinished
  <2>2. x \in Items /\ x.kind = "MessageSent"
    BY DEF Items
  <2> HIDE DEF x
  <2>3. /\ link' \in Seq(Items) /\ Ordered(link', gone, arrived)
        /\ CarriesOnce(link') /\ (Carries(link') => Carries(link))
        /\ mode = "new" => link' = link
    BY <2>1, <2>2, SignalKeeps, InvParts
  <2>4. OneFill(calls', link', posted', filled)
    BY <2>1, <2>3, InvParts, OneFillKept
  <2> QED
    BY <2>1, <2>3, <2>4, InvParts, Passing DEF adapterVars
<1> QED
  BY <1>1, <1>2, <1>3, <1>4, <1>5, <1>6, <1>7 DEF ProxyStep

\* A finished() that is handled.
LEMMA FinishedKeeps ==
    ASSUME Inv, NEW name, Finished(name)
    PROVE  /\ Head(posted) \in Items /\ Head(posted).kind = name /\ mode # "new"
           /\ posted' \in Seq(Items) /\ CarriesOnce(posted')
           /\ (Carries(posted') => Carries(posted))
           /\ name = "PendingMessages" => Carries(posted) /\ ~Carries(posted')
<1>1. posted # <<>> /\ Head(posted).kind = name /\ posted' = Tail(posted)
  BY DEF Finished
<1>2. mode # "new"
  BY <1>1 DEF Inv, Unconnected
<1> QED
  BY <1>1, <1>2, InvParts, ItemTaken, HeadTailProperties

\* A message is announced, unless it is in the queue already.
LEMMA AnnounceStep == Inv /\ onMessageReceived => Inv' /\ QueueStep
<1> SUFFICES ASSUME Inv, onMessageReceived PROVE Inv' /\ QueueStep
  OBVIOUS
<1> DEFINE i == Head(link).id
<1>1. /\ Arriving("MessageReceived") /\ messages' = messages \cup {i}
      /\ calls' = IF i \in messages THEN calls ELSE Announced({i})
      /\ UNCHANGED <<proxyVars, posted, mode, gone, filled>>
  BY DEF onMessageReceived
<1>2. i \in Ids /\ i <= arrived /\ i \notin gone
  BY <1>1, ArrivingKeeps DEF Items, Naming
<1>3. /\ link' \in Seq(Items) /\ Ordered(link', gone, arrived)
      /\ CarriesOnce(link') /\ (Carries(link') => Carries(link)) /\ mode # "new"
  BY <1>1, ArrivingKeeps
<1> HIDE DEF i
<1>4. calls' \in Seq(Calls) /\ AsksFirst(calls') /\ (Asks(calls') => Asks(calls))
  <2>1. {i} \in SUBSET Ids /\ Types
    BY <1>2 DEF Inv
  <2> QED
    BY <1>1, <2>1, InvParts, AnnouncedCalls
<1>5. OneFill(calls', link', posted, filled)
  BY <1>3, <1>4, InvParts, OneFillKept
<1>6. Types'
  BY <1>1, <1>2, <1>3, <1>4, InvParts DEF Types, proxyVars, sessionVars, Inv
<1>7. Unconnected'
  BY <1>1, <1>3 DEF Unconnected
<1>8. QueueStep
  <2>1. CASE i \in messages
    BY <1>1, <2>1 DEF QueueStep, Queue!vars
  <2>2. CASE i \notin messages
    <3>1. Queue!Announce(i)
      BY <1>1, <1>2, <2>2 DEF Queue!Announce
    <3> QED
      BY <1>2, <3>1 DEF QueueStep, Queue!Next
  <2> QED
    BY <2>1, <2>2
<1>9. Ordered(link', gone', arrived') /\ OneFill(calls', link', posted', filled')
  BY <1>1, <1>3, <1>5 DEF proxyVars
<1> QED
  BY <1>6, <1>7, <1>8, <1>9 DEF Inv

\* A message is removed.
LEMMA RemoveStep == Inv /\ onPendingMessagesRemoved => Inv' /\ QueueStep
<1> SUFFICES ASSUME Inv, onPendingMessagesRemoved PROVE Inv' /\ QueueStep
  OBVIOUS
<1> DEFINE i == Head(link).id
<1>1. /\ Arriving("PendingMessagesRemoved") /\ messages' = messages \ {i}
      /\ gone' = gone \cup {i}
      /\ UNCHANGED <<proxyVars, calls, posted, mode, filled>>
  BY DEF onPendingMessagesRemoved
<1>2. i \in Ids /\ i <= arrived
  BY <1>1, ArrivingKeeps DEF Items, Naming
<1>3. /\ link' \in Seq(Items) /\ Ordered(link', gone \cup {i}, arrived)
      /\ CarriesOnce(link') /\ (Carries(link') => Carries(link)) /\ mode # "new"
  BY <1>1, ArrivingKeeps
<1> HIDE DEF i
<1>4. OneFill(calls, link', posted, filled)
  BY <1>3, InvParts, OneFillKept
<1>5. gone' \subseteq 1 .. arrived
  BY <1>1, <1>2, InvParts DEF Ids
<1>6. Types'
  BY <1>1, <1>3, <1>5, InvParts DEF Types, proxyVars, sessionVars, Inv
<1>7. Unconnected'
  BY <1>1, <1>3 DEF Unconnected
<1>8. QueueStep
  <2>1. Queue!Remove(i)
    BY <1>1 DEF Queue!Remove
  <2> QED
    BY <1>2, <2>1 DEF QueueStep, Queue!Next
<1>9. Ordered(link', gone', arrived') /\ OneFill(calls', link', posted', filled')
  BY <1>1, <1>3, <1>4 DEF proxyVars
<1> QED
  BY <1>6, <1>7, <1>8, <1>9 DEF Inv

\* The queue is filled.
LEMMA FillStep == Inv /\ onPendingMessagesPropertyGet => Inv' /\ QueueStep
<1> SUFFICES ASSUME Inv, onPendingMessagesPropertyGet PROVE Inv' /\ QueueStep
  OBVIOUS
<1> DEFINE ids == Head(posted).ids
<1>1. /\ Finished("PendingMessages") /\ messages' = messages \cup ids
      /\ calls' = Announced(ids \ messages) /\ filled' = TRUE
      /\ UNCHANGED <<proxyVars, link, mode, gone>>
  BY DEF onPendingMessagesPropertyGet
<1>2. ids \in SUBSET Ids
  BY <1>1, FinishedKeeps DEF Items
<1>3. /\ posted' \in Seq(Items) /\ CarriesOnce(posted') /\ Carries(posted)
      /\ ~Carries(posted') /\ mode # "new"
  BY <1>1, FinishedKeeps
<1> HIDE DEF ids
<1>4. calls' \in Seq(Calls) /\ AsksFirst(calls') /\ (Asks(calls') => Asks(calls))
  <2>1. ids \ messages \in SUBSET Ids /\ Types
    BY <1>2 DEF Inv
  <2> QED
    BY <1>1, <2>1, InvParts, AnnouncedCalls
<1>5. ~filled /\ ~Asks(calls') /\ ~Carries(link)
  BY <1>3, <1>4, InvParts DEF OneFill
<1>6. OneFill(calls', link, posted', TRUE)
  BY <1>3, <1>4, <1>5, InvParts DEF OneFill
<1>7. Types'
  BY <1>1, <1>2, <1>3, <1>4, InvParts DEF Types, proxyVars, sessionVars, Inv
<1>8. Unconnected'
  BY <1>1, <1>3 DEF Unconnected
<1>9. QueueStep
  <2>1. Queue!Fill(ids)
    BY <1>1, <1>5 DEF Queue!Fill
  <2> QED
    BY <1>2, <2>1 DEF QueueStep, Queue!Next
<1>10. Ordered(link', gone', arrived') /\ OneFill(calls', link', posted', filled')
  BY <1>1, <1>6, InvParts DEF proxyVars
<1> QED
  BY <1>7, <1>8, <1>9, <1>10 DEF Inv

\* The adapter's steps.
LEMMA AdapterQueueStep == Inv /\ AdapterStep => Inv' /\ QueueStep
<1> SUFFICES ASSUME Inv, AdapterStep PROVE Inv' /\ QueueStep
  OBVIOUS
<1>1. CASE onMessageReceived
  BY <1>1, AnnounceStep
<1>2. CASE onPendingMessagesRemoved
  BY <1>2, RemoveStep
<1>3. CASE onPendingMessagesPropertyGet
  BY <1>3, FillStep
<1>4. CASE onNoticeReceived \/ onMessageSent
  <2>1. /\ \E kind : Arriving(kind)
        /\ calls' = calls \/ calls' = Append(calls, Acknowledgement(messages))
        /\ UNCHANGED <<proxyVars, posted, mode, queueVars>>
    BY <1>4 DEF onNoticeReceived, onMessageSent, acknowledge, adapterVars
  <2>2. /\ link' \in Seq(Items) /\ Ordered(link', gone, arrived)
        /\ CarriesOnce(link') /\ (Carries(link') => Carries(link)) /\ mode # "new"
    BY <2>1, ArrivingKeeps
  <2>3. calls' \in Seq(Calls) /\ AsksFirst(calls') /\ (Asks(calls') => Asks(calls))
    <3>1. Acknowledgement(messages) \in Calls /\ Acknowledgement(messages).op # "PendingMessages"
      BY InvParts DEF Acknowledgement, Calls
    <3> QED
      BY <2>1, <3>1, InvParts, CallAdded
  <2>4. OneFill(calls', link', posted', filled)
    BY <2>1, <2>2, <2>3, InvParts, OneFillKept
  <2> QED
    BY <2>1, <2>2, <2>3, <2>4, InvParts, Passing DEF proxyVars, sessionVars
<1>5. CASE onTrustLevelSignal
  <2> DEFINE more == FingerprintQueries(trustLevel, Head(link).level)
  <2>1. /\ Arriving("TrustLevelChanged") /\ calls' = calls \o more
        /\ UNCHANGED <<proxyVars, posted, mode, queueVars>>
    BY <1>5 DEF onTrustLevelSignal
  <2>2. more \in Seq(Calls) /\ ~Asks(more)
    BY FingerprintCalls
  <2> HIDE DEF more
  <2>3. /\ link' \in Seq(Items) /\ Ordered(link', gone, arrived)
        /\ CarriesOnce(link') /\ (Carries(link') => Carries(link)) /\ mode # "new"
    BY <2>1, ArrivingKeeps
  <2>4. calls' \in Seq(Calls) /\ AsksFirst(calls') /\ (Asks(calls') => Asks(calls))
    BY <2>1, <2>2, InvParts, CallsAdded, ConcatProperties
  <2>5. OneFill(calls', link', posted', filled)
    BY <2>1, <2>3, <2>4, InvParts, OneFillKept
  <2> QED
    BY <2>1, <2>3, <2>4, <2>5, InvParts, Passing DEF proxyVars, sessionVars
<1>6. ASSUME NEW name \in Properties, ReplyArrives(name) PROVE Inv' /\ QueueStep
  <2>1. /\ Arriving(name) /\ posted' = Append(posted, Head(link))
        /\ UNCHANGED <<proxyVars, calls, adapterVars>>
    BY <1>6 DEF ReplyArrives
  <2>2. /\ link' \in Seq(Items) /\ Ordered(link', gone, arrived)
        /\ CarriesOnce(link') /\ (Carries(link') => Carries(link)) /\ mode # "new"
        /\ Head(link) \in Items /\ Head(link).kind = name
        /\ name = "PendingMessages" => Carries(link) /\ ~Carries(link')
    BY <2>1, ArrivingKeeps
  <2>3. posted' \in Seq(Items)
    BY <2>1, <2>2, InvParts, AppendProperties
  <2>4. OneFill(calls, link', posted', filled)
    <3>1. CASE name # "PendingMessages"
      <4>1. CarriesOnce(posted') /\ (Carries(posted') => Carries(posted))
        BY <2>1, <2>2, <3>1, InvParts, ItemAdded
      <4> QED
        BY <2>2, <4>1, InvParts, OneFillKept
    <3>2. CASE name = "PendingMessages"
      <4>1. ~Asks(calls) /\ ~Carries(posted) /\ ~filled /\ ~Carries(link')
        BY <2>2, <3>2, InvParts DEF OneFill
      <4>2. CarriesOnce(posted')
        BY <2>1, <2>2, <4>1, InvParts, ItemAdded
      <4> QED
        BY <2>2, <4>1, <4>2, InvParts DEF OneFill
    <3> QED
      BY <3>1, <3>2
  <2> QED
    BY <2>1, <2>2, <2>3, <2>4, InvParts, Passing DEF proxyVars, sessionVars, adapterVars
<1>7. CASE onTrustLevelPropertyGet \/ onRemoteFingerprintPropertyGet
  <2>1. /\ \E name : Finished(name)
        /\ UNCHANGED <<proxyVars, calls, link, mode, queueVars>>
    BY <1>7 DEF onTrustLevelPropertyGet, onRemoteFingerprintPropertyGet
  <2>2. /\ posted' \in Seq(Items) /\ CarriesOnce(posted')
        /\ (Carries(posted') => Carries(posted)) /\ mode # "new"
    BY <2>1, FinishedKeeps
  <2>3. OneFill(calls, link, posted', filled)
    BY <2>2, InvParts, OneFillKept
  <2> QED
    BY <2>1, <2>2, <2>3, InvParts, Passing DEF proxyVars, sessionVars
<1> QED
  BY <1>1, <1>2, <1>3, <1>4, <1>5, <1>6, <1>7 DEF AdapterStep

\* The user's steps.
LEMMA UserQueueStep == Inv /\ (setChannel \/ setVisibleToUser \/ send) => Inv' /\ QueueStep
<1>1. ASSUME Inv, setChannel PROVE Inv' /\ QueueStep
  <2>1. /\ mode = "new" /\ mode' \in {"otr", "text"}
        /\ calls' = Queries \/ calls' = calls
        /\ UNCHANGED <<proxyVars, link, posted, queueVars>>
    BY <1>1 DEF setChannel
  <2>2. calls = <<>> /\ link = <<>> /\ posted = <<>> /\ filled = FALSE
    BY <1>1, <2>1 DEF Inv, Unconnected
  <2>3. calls' \in Seq(Calls) /\ AsksFirst(calls')
    <3>1. /\ Request("PendingMessages") \in Calls /\ Request("TrustLevel") \in Calls
          /\ Request("RemoteFingerprint") \in Calls
          /\ Request("TrustLevel").op # "PendingMessages"
          /\ Request("RemoteFingerprint").op # "PendingMessages"
      BY DEF Request, Calls, Properties
    <3>2. Queries \in Seq(Calls) /\ AsksFirst(Queries)
      BY <3>1 DEF Queries, AsksFirst
    <3> QED
      BY <1>1, <2>1, <3>2, InvParts
  <2>4. OneFill(calls', link', posted', filled)
    BY <1>1, <2>1, <2>2, <2>3, InvParts DEF OneFill, Carries
  <2> QED
    BY <1>1, <2>1, <2>3, <2>4, InvParts, Passing DEF proxyVars, sessionVars
<1>2. ASSUME Inv, setVisibleToUser \/ send PROVE Inv' /\ QueueStep
  <2>1. /\ mode = "otr"
        /\ \/ calls' = calls
           \/ calls' = Append(calls, Acknowledgement(messages))
           \/ calls' = Append(calls, [op |-> "SendMessage"])
        /\ UNCHANGED <<proxyVars, link, posted, mode, queueVars>>
    BY <1>2 DEF setVisibleToUser, send, acknowledge
  <2>2. calls' \in Seq(Calls) /\ AsksFirst(calls') /\ (Asks(calls') => Asks(calls))
    <3>1. /\ Acknowledgement(messages) \in Calls
          /\ Acknowledgement(messages).op # "PendingMessages"
      BY <1>2, InvParts DEF Acknowledgement, Calls
    <3>2. [op |-> "SendMessage"] \in Calls /\ [op |-> "SendMessage"].op # "PendingMessages"
      BY DEF Calls
    <3> QED
      BY <1>2, <2>1, <3>1, <3>2, InvParts, CallAdded
  <2>3. OneFill(calls', link', posted', filled)
    BY <1>2, <2>1, <2>2, InvParts, OneFillKept
  <2> QED
    BY <1>2, <2>1, <2>2, <2>3, InvParts, Passing DEF proxyVars, sessionVars
<1> QED
  BY <1>1, <1>2

\* The adapter with its link to the proxy implements the queue that a client
\* expects: nothing is announced twice while it is there, and nothing comes back
\* once the queue was read; for any numbers of messages, notices, changes of
\* trust, messages sent and calls.
THEOREM AdapterImplementsQueue == AdapterSpec => QueueSpec
<1>1. AdapterInit => Inv /\ Queue!Init
  <2> SUFFICES ASSUME AdapterInit PROVE Inv /\ Queue!Init
    OBVIOUS
  <2>1. <<>> \in Seq(Calls) /\ <<>> \in Seq(Items)
    OBVIOUS
  <2>2. Types
    <3>1. 0 \in 0 .. MaxMsgs
      BY AdapterAssumption
    <3>2. NoPeerFp \in Fps /\ "NOT_PRIVATE" \in PeerLevels
      BY DEF Fps, PeerLevels
    <3> QED
      BY <2>1, <3>1, <3>2 DEF AdapterInit, Types
  <2>3. Ordered(link, gone, arrived)
    BY DEF AdapterInit, Ordered
  <2>4. OneFill(calls, link, posted, filled)
    BY DEF AdapterInit, OneFill, AsksFirst, CarriesOnce, Asks, Carries
  <2> QED
    BY <2>2, <2>3, <2>4 DEF AdapterInit, Inv, Unconnected, Queue!Init
<1>2. Inv /\ [AdapterNext]_linkVars => Inv' /\ QueueStep
  <2> SUFFICES ASSUME Inv, [AdapterNext]_linkVars PROVE Inv' /\ QueueStep
    OBVIOUS
  <2>1. CASE AdapterNext
    BY <2>1, ProxyQueueStep, AdapterQueueStep, UserQueueStep DEF AdapterNext
  <2>2. CASE UNCHANGED linkVars
    <3>1. UNCHANGED <<arrived, pending, level, fp, calls, link, posted, mode, queueVars>>
      BY <2>2 DEF linkVars, proxyVars, adapterVars, sessionVars
    <3> QED
      BY <3>1, InvParts, Passing
  <2> QED
    BY <2>1, <2>2
<1> QED
  BY <1>1, <1>2, PTL DEF AdapterSpec, QueueSpec, QueueStep, Queue!Spec

-----------------------------------------------------------------------------
(* Nothing under way, nothing missed.  The inductive invariant says where,   *)
(* on the link and in the queue of finished replies, the news is that the    *)
(* adapter has not handled yet.                                              *)

(***************************************************************************)
(* What is under way: queries, replies and signals, for a message i.       *)
(***************************************************************************)
Asking(name) == {c \in Calls : c.op = name}
Acknowledging(i) == {c \in Calls : c.op = "AcknowledgePendingMessages" /\ i \in c.ids}
Replies(name) == {x \in Items : x.kind = name}
News(i) == {x \in Items : x.kind = "MessageReceived" /\ x.id = i}
Removals(i) == {x \in Items : x.kind = "PendingMessagesRemoved" /\ x.id = i}
Contents(i) == {x \in Items : x.kind = "PendingMessages" /\ i \in x.ids}

\* Calls that are announced, for the queries and for the messages of a visible chat.
LEMMA AnnouncedHas ==
    ASSUME Types, NEW ids \in SUBSET Ids
    PROVE  /\ Announced(ids) \in Seq(Calls)
           /\ \A S : Has(calls, S) => Has(Announced(ids), S)
           /\ \A name \in Properties : Neutral(calls, Announced(ids), Calls, Asking(name))
           /\ visible => \A i \in ids : Has(Announced(ids), Acknowledging(i))
<1> DEFINE acks == [n \in 1 .. Cardinality(ids) |->
                      Acknowledgement(messages \cup First(ids, n))]
<1>1. IsFiniteSet(ids) /\ Cardinality(ids) \in Nat
  <2>1. IsFiniteSet(Ids)
    BY FS_Interval, AdapterAssumption DEF Ids
  <2> QED
    BY <2>1, FS_Subset, FS_CardinalityType
<1>2. \A n \in 1 .. Cardinality(ids) :
        /\ acks[n] \in Calls
        /\ acks[n].op = "AcknowledgePendingMessages"
        /\ acks[n].ids = messages \cup First(ids, n)
  BY DEF Types, Acknowledgement, First, Calls
<1>3. acks \in Seq(Calls) /\ Len(acks) = Cardinality(ids)
  <2>1. acks \in [1 .. Cardinality(ids) -> Calls]
    BY <1>2
  <2> HIDE DEF acks
  <2> QED
    BY <1>1, <2>1, SeqDef, LenProperties
<1>c. calls \in Seq(Calls)
  BY DEF Types
<1>a. Announced(ids) = IF visible THEN calls \o acks ELSE calls
  BY DEF Announced
<1>4. \A name \in Properties : ~Has(acks, Asking(name))
  BY <1>2, <1>3 DEF Has, Asking, Properties
<1>5. \A i \in ids : Has(acks, Acknowledging(i))
  <2> SUFFICES ASSUME NEW i \in ids PROVE Has(acks, Acknowledging(i))
    OBVIOUS
  <2> DEFINE before == {j \in ids : j <= i}
  <2>1. IsFiniteSet(before) /\ Cardinality(before) <= Cardinality(ids) /\ Cardinality(before) \in Nat
    BY <1>1, FS_Subset, FS_CardinalityType
  <2>2. Cardinality(ids) # 0
    BY <1>1, FS_EmptySet
  <2>3. Cardinality(ids) \in 1 .. Cardinality(ids)
    BY <1>1, <2>2
  <2>4. i \in First(ids, Cardinality(ids))
    BY <2>1 DEF First
  <2>5. acks[Cardinality(ids)] \in Acknowledging(i)
    BY <1>2, <2>3, <2>4 DEF Acknowledging
  <2> HIDE DEF acks
  <2> QED
    BY <1>3, <2>3, <2>5 DEF Has
<1> HIDE DEF acks
<1>6. CASE visible
  <2>1. Announced(ids) = calls \o acks
    BY <1>a, <1>6
  <2>2. \A S : Has(calls \o acks, S) <=> Has(calls, S) \/ Has(acks, S)
    BY <1>3, <1>c, HasConcat
  <2>3. calls \o acks \in Seq(Calls)
    BY <1>3, <1>c, HasConcat
  <2>4. \A name \in Properties : Neutral(calls, calls \o acks, Calls, Asking(name))
    BY <1>3, <1>4 DEF Neutral
  <2> QED
    BY <1>4, <1>5, <2>1, <2>2, <2>3, <2>4
<1>7. CASE ~visible
  BY <1>a, <1>c, <1>7 DEF Neutral
<1> QED
  BY <1>6, <1>7

\* Before the adapter is connected, and without a proxy, nothing was handled.
Idle ==
    /\ mode \in {"new", "otr", "text"}
    /\ revived \subseteq Ids /\ acking \subseteq Ids /\ refused \subseteq Ids
    /\ trustLevel \in PeerLevels /\ remoteFp \in Fps
    /\ mode # "otr" =>
        /\ calls = <<>> /\ link = <<>> /\ posted = <<>>
        /\ messages = {} /\ gone = {} /\ revived = {}
        /\ trustLevel = "NOT_PRIVATE" /\ outdated = FALSE

(***************************************************************************)
(* The contents of the queue.                                              *)
(***************************************************************************)

\* A pending message is there or comes, and its removal is not under way.
Awaited(i) ==
    /\ i \notin gone /\ ~Has(link, Removals(i))
    /\ \/ i \in messages
       \/ Has(calls, Asking("PendingMessages"))
       \/ Has(link, News(i)) \/ Has(link, Contents(i)) \/ Has(posted, Contents(i))

\* The removal of another message comes after everything that shows it, except for a
\* reply that it overtook.
Leaving(i) ==
    /\ i \in messages => Has(link, Removals(i)) \/ i \in revived
    /\ Has(link, News(i)) => Has(link, Removals(i))
    /\ FollowedBy(link, Contents(i), Removals(i))
    /\ Has(posted, Contents(i)) => Has(link, Removals(i)) \/ i \in gone

QueueInv ==
    /\ revived \subseteq messages \cap gone
    /\ mode = "otr" => \A i \in Ids : IF i \in pending THEN Awaited(i) ELSE Leaving(i)

\* When nothing is under way, what is awaited is there, and what leaves is not.
LEMMA QueueInvImplies == Inv /\ QueueInv => QueueIsCurrent
<1> SUFFICES ASSUME Inv, QueueInv, Quiet PROVE messages = pending \cup revived
  BY DEF QueueIsCurrent
<1>1. mode = "otr" /\ \A S : ~Has(link, S) /\ ~Has(calls, S) /\ ~Has(posted, S)
  BY DEF Quiet, Has
<1>2. pending \subseteq Ids /\ messages \subseteq Ids
  BY InvParts, AdapterAssumption DEF Ids
<1> QED
  BY <1>1, <1>2 DEF QueueInv, Awaited, Leaving

\* Items that concern no message.
Others == {x \in Items : x.kind \notin {"MessageReceived", "PendingMessagesRemoved", "PendingMessages"}}

\* Steps that do not move messages.
LEMMA QueuePassing ==
    ASSUME Inv, QueueInv,
           UNCHANGED <<arrived, pending, mode, queueVars>>,
           Has(calls, Asking("PendingMessages")) => Has(calls', Asking("PendingMessages")),
           \/ link' = link
           \/ \E x \in Others : link' = Append(link, x)
           \/ link # <<>> /\ Head(link) \in Others /\ link' = Tail(link),
           \/ posted' = posted
           \/ \E x \in Others : posted' = Append(posted, x)
           \/ posted # <<>> /\ Head(posted) \in Others /\ posted' = Tail(posted)
    PROVE  QueueInv'
<1>1. link \in Seq(Items) /\ posted \in Seq(Items)
  BY InvParts
<1>2. \A x \in Others : /\ x \in Items
                        /\ \A i : x \notin News(i) /\ x \notin Removals(i) /\ x \notin Contents(i)
  BY DEF Others, News, Removals, Contents
<1>3. ASSUME NEW i, NEW S \in {News(i), Removals(i), Contents(i)} PROVE Has(link', S) <=> Has(link, S)
  <2>1. CASE \E x \in Others : link' = Append(link, x)
    BY <1>1, <1>2, <1>3, <2>1, HasAppend
  <2>2. CASE link # <<>> /\ Head(link) \in Others /\ link' = Tail(link)
    BY <1>1, <1>2, <1>3, <2>2, HasTail
  <2> QED
    BY <2>1, <2>2
<1>4. ASSUME NEW i, FollowedBy(link, Contents(i), Removals(i))
      PROVE  FollowedBy(link', Contents(i), Removals(i))
  <2>1. CASE \E x \in Others : link' = Append(link, x)
    BY <1>1, <1>2, <1>4, <2>1, FollowedAppend
  <2>2. CASE link # <<>> /\ Head(link) \in Others /\ link' = Tail(link)
    BY <1>1, <1>2, <1>4, <2>2, FollowedTail
  <2> QED
    BY <1>4, <2>1, <2>2
<1>5. ASSUME NEW i PROVE Has(posted', Contents(i)) <=> Has(posted, Contents(i))
  <2>1. CASE \E x \in Others : posted' = Append(posted, x)
    BY <1>1, <1>2, <2>1, HasAppend
  <2>2. CASE posted # <<>> /\ Head(posted) \in Others /\ posted' = Tail(posted)
    BY <1>1, <1>2, <2>2, HasTail
  <2> QED
    BY <2>1, <2>2
<1>6. ASSUME NEW i, Awaited(i) PROVE Awaited(i)'
  BY <1>3, <1>5, <1>6 DEF Awaited, queueVars
<1>7. ASSUME NEW i, Leaving(i) PROVE Leaving(i)'
  BY <1>3, <1>4, <1>5, <1>7 DEF Leaving, queueVars
<1> QED
  BY <1>6, <1>7 DEF QueueInv, queueVars

\* A message comes.
LEMMA QueueReceived == Inv /\ QueueInv /\ MessageReceived => QueueInv'
<1> SUFFICES ASSUME Inv, QueueInv, MessageReceived PROVE QueueInv'
  OBVIOUS
<1> DEFINE n == arrived + 1
           x == [kind |-> "MessageReceived", id |-> n]
<1>1. /\ arrived < MaxMsgs /\ pending' = pending \cup {n} /\ Signal(x)
      /\ UNCHANGED <<calls, posted, mode, messages, gone, revived>>
  BY DEF MessageReceived, adapterVars, queueVars
<1>2. CASE mode = "otr"
  <2>1. link' = Append(link, x) /\ link \in Seq(Items) /\ x \in Items
    BY <1>1, <1>2, InvParts, AdapterAssumption DEF Signal, Items, Ids
  <2>2. \A i : x \notin Removals(i) /\ x \notin Contents(i) /\ (x \in News(i) <=> i = n)
    BY <2>1 DEF Removals, Contents, News
  <2>3. n \notin gone /\ ~Has(link, Removals(n))
    <3>1. \A k \in 1 .. Len(link) : link[k].kind \in Naming => link[k].id <= arrived
      BY InvParts DEF Ordered
    <3> QED
      BY <3>1, InvParts DEF Has, Removals, Naming
  <2> HIDE DEF x, n
  <2>4. \A i : /\ Has(link', Removals(i)) <=> Has(link, Removals(i))
               /\ Has(link', Contents(i)) <=> Has(link, Contents(i))
               /\ Has(link', News(i)) <=> Has(link, News(i)) \/ i = n
    BY <2>1, <2>2, HasAppend
  <2>5. \A i : FollowedBy(link, Contents(i), Removals(i)) => FollowedBy(link', Contents(i), Removals(i))
    BY <2>1, <2>2, FollowedAppend
  <2>6. ASSUME NEW i \in Ids PROVE IF i \in pending' THEN Awaited(i)' ELSE Leaving(i)'
    <3>1. CASE i = n
      BY <1>1, <2>3, <2>4, <3>1 DEF Awaited
    <3>2. CASE i # n /\ i \in pending
      <4>1. Awaited(i)
        BY <1>2, <2>6, <3>2 DEF QueueInv
      <4> QED
        BY <1>1, <2>4, <3>2, <4>1 DEF Awaited
    <3>3. CASE i # n /\ i \notin pending
      <4>1. Leaving(i)
        BY <1>2, <2>6, <3>3 DEF QueueInv
      <4> QED
        BY <1>1, <2>4, <2>5, <3>3, <4>1 DEF Leaving
    <3> QED
      BY <3>1, <3>2, <3>3
  <2> QED
    BY <1>1, <2>6 DEF QueueInv
<1>3. CASE mode # "otr"
  BY <1>1, <1>3 DEF QueueInv
<1> QED
  BY <1>2, <1>3

\* A message is removed by the proxy.
LEMMA QueueRemoved ==
    ASSUME Inv, QueueInv, NEW n \in Ids, PendingMessagesRemoved(n) PROVE QueueInv'
<1> DEFINE x == [kind |-> "PendingMessagesRemoved", id |-> n]
<1>1. /\ pending' = pending \ {n} /\ Signal(x)
      /\ UNCHANGED <<calls, posted, mode, messages, gone, revived>>
  BY DEF PendingMessagesRemoved, adapterVars, queueVars
<1>2. CASE mode = "otr"
  <2>1. link' = Append(link, x) /\ link \in Seq(Items) /\ x \in Items
    BY <1>1, <1>2, InvParts DEF Signal, Items
  <2>2. \A i : x \notin News(i) /\ x \notin Contents(i) /\ (x \in Removals(i) <=> i = n)
    BY <2>1 DEF Removals, Contents, News
  <2> HIDE DEF x
  <2>4. \A i : /\ Has(link', Removals(i)) <=> Has(link, Removals(i)) \/ i = n
               /\ Has(link', Contents(i)) <=> Has(link, Contents(i))
               /\ Has(link', News(i)) <=> Has(link, News(i))
    BY <2>1, <2>2, HasAppend
  <2>5. \A i : FollowedBy(link, Contents(i), Removals(i)) \/ i = n =>
                FollowedBy(link', Contents(i), Removals(i))
    BY <2>1, <2>2, FollowedAppend
  <2>6. ASSUME NEW i \in Ids PROVE IF i \in pending' THEN Awaited(i)' ELSE Leaving(i)'
    <3>1. CASE i = n
      BY <1>1, <2>4, <2>5, <3>1 DEF Leaving
    <3>2. CASE i # n /\ i \in pending
      <4>1. Awaited(i)
        BY <1>2, <2>6, <3>2 DEF QueueInv
      <4> QED
        BY <1>1, <2>4, <3>2, <4>1 DEF Awaited
    <3>3. CASE i # n /\ i \notin pending
      <4>1. Leaving(i)
        BY <1>2, <2>6, <3>3 DEF QueueInv
      <4> QED
        BY <1>1, <2>4, <2>5, <3>3, <4>1 DEF Leaving
    <3> QED
      BY <3>1, <3>2, <3>3
  <2> QED
    BY <1>1, <2>6 DEF QueueInv
<1>3. CASE mode # "otr"
  BY <1>1, <1>3 DEF QueueInv
<1> QED
  BY <1>2, <1>3

\* The proxy answers with what is pending.
LEMMA QueueAnswered == Inv /\ QueueInv /\ GetProperty("PendingMessages") => QueueInv'
<1> SUFFICES ASSUME Inv, QueueInv, GetProperty("PendingMessages") PROVE QueueInv'
  OBVIOUS
<1> DEFINE x == [kind |-> "PendingMessages", ids |-> pending]
<1>1. /\ Signal(x)
      /\ UNCHANGED <<pending, posted, mode, messages, gone, revived>>
  BY DEF GetProperty, Property, adapterVars, queueVars, proxyVars
<1>2. CASE mode = "otr"
  <2>1. link' = Append(link, x) /\ link \in Seq(Items) /\ x \in Items
    BY <1>1, <1>2, InvParts, AdapterAssumption DEF Signal, Items, Ids
  <2>2. \A i : x \notin News(i) /\ (x \in Contents(i) <=> i \in pending) /\ x \notin Removals(i)
    BY <2>1 DEF Removals, Contents, News
  <2> HIDE DEF x
  <2>4. \A i : /\ Has(link', Removals(i)) <=> Has(link, Removals(i))
               /\ Has(link', Contents(i)) <=> Has(link, Contents(i)) \/ i \in pending
               /\ Has(link', News(i)) <=> Has(link, News(i))
    BY <2>1, <2>2, HasAppend
  <2>5. \A i : FollowedBy(link, Contents(i), Removals(i)) /\ i \notin pending =>
                FollowedBy(link', Contents(i), Removals(i))
    BY <2>1, <2>2, FollowedAppend
  <2>6. ASSUME NEW i \in Ids PROVE IF i \in pending' THEN Awaited(i)' ELSE Leaving(i)'
    <3>2. CASE i \in pending
      <4>1. Awaited(i)
        BY <1>2, <2>6, <3>2 DEF QueueInv
      <4> QED
        BY <1>1, <2>4, <3>2, <4>1 DEF Awaited
    <3>3. CASE i \notin pending
      <4>1. Leaving(i)
        BY <1>2, <2>6, <3>3 DEF QueueInv
      <4> QED
        BY <1>1, <2>4, <2>5, <3>3, <4>1 DEF Leaving
    <3> QED
      BY <3>2, <3>3
  <2> QED
    BY <1>1, <2>6 DEF QueueInv
<1>3. CASE mode # "otr"
  BY <1>1, <1>3 DEF QueueInv
<1> QED
  BY <1>2, <1>3

\* The first item of the link is taken.
LEMMA LinkTaken ==
    ASSUME Inv, NEW kind, Arriving(kind)
    PROVE  /\ Head(link) \in Items /\ Head(link).kind = kind /\ link' \in Seq(Items)
           /\ \A S : Has(link, S) <=> Head(link) \in S \/ Has(link', S)
           /\ \A S, T : FollowedBy(link, S, T) => FollowedBy(link', S, T)
           /\ \A S, T : FollowedBy(link, S, T) /\ Head(link) \in S => Has(link', T)
BY InvParts, HasTail, FollowedTail DEF Arriving

\* The adapter adds a message.
LEMMA QueueAnnounced == Inv /\ QueueInv /\ onMessageReceived => QueueInv'
<1> SUFFICES ASSUME Inv, QueueInv, onMessageReceived PROVE QueueInv'
  OBVIOUS
<1> DEFINE n == Head(link).id
<1>1. /\ Arriving("MessageReceived") /\ messages' = messages \cup {n}
      /\ calls' = IF n \in messages THEN calls ELSE Announced({n})
      /\ UNCHANGED <<pending, posted, mode, gone, revived>>
  BY DEF onMessageReceived, proxyVars
<1>2. /\ Head(link) \in Items /\ n \in Ids
      /\ \A i : /\ Head(link) \notin Removals(i) /\ Head(link) \notin Contents(i)
                /\ Head(link) \in News(i) <=> i = n
  BY <1>1, LinkTaken DEF Items, News, Removals, Contents
<1>3. \A S : Has(calls, S) => Has(calls', S)
  BY <1>1, <1>2, AnnouncedHas DEF Inv
<1>4. \A i : /\ Has(link, News(i)) <=> i = n \/ Has(link', News(i))
             /\ Has(link, Removals(i)) <=> Has(link', Removals(i))
             /\ Has(link, Contents(i)) <=> Has(link', Contents(i))
             /\ FollowedBy(link, Contents(i), Removals(i)) => FollowedBy(link', Contents(i), Removals(i))
  BY <1>1, <1>2, LinkTaken
<1> HIDE DEF n
<1>5. ASSUME NEW i \in Ids, i \in pending, Awaited(i) PROVE Awaited(i)'
  BY <1>1, <1>3, <1>4, <1>5 DEF Awaited
<1>6. ASSUME NEW i \in Ids, Leaving(i) PROVE Leaving(i)'
  BY <1>1, <1>4, <1>6 DEF Leaving
<1> QED
  BY <1>1, <1>5, <1>6 DEF QueueInv

\* The adapter removes a message, which is pending no more.
LEMMA QueueDropped == Inv /\ QueueInv /\ Idle /\ onPendingMessagesRemoved => QueueInv'
<1> SUFFICES ASSUME Inv, QueueInv, Idle, onPendingMessagesRemoved PROVE QueueInv'
  OBVIOUS
<1> DEFINE n == Head(link).id
<1>1. /\ Arriving("PendingMessagesRemoved") /\ messages' = messages \ {n}
      /\ revived' = revived \ {n} /\ gone' = gone \cup {n}
      /\ UNCHANGED <<pending, calls, posted, mode>>
  BY DEF onPendingMessagesRemoved, proxyVars
<1>2. /\ Head(link) \in Items /\ n \in Ids
      /\ \A i : /\ Head(link) \notin News(i) /\ Head(link) \notin Contents(i)
                /\ Head(link) \in Removals(i) <=> i = n
  BY <1>1, LinkTaken DEF Items, News, Removals, Contents
<1>4. \A i : /\ Has(link, News(i)) <=> Has(link', News(i))
             /\ Has(link, Removals(i)) <=> i = n \/ Has(link', Removals(i))
             /\ Has(link, Contents(i)) <=> Has(link', Contents(i))
             /\ FollowedBy(link, Contents(i), Removals(i)) => FollowedBy(link', Contents(i), Removals(i))
  BY <1>1, <1>2, LinkTaken
<1> HIDE DEF n
<1>7. mode = "otr" => n \notin pending
  BY <1>2, <1>4 DEF QueueInv, Awaited
<1>5. ASSUME NEW i \in Ids, i \in pending, Awaited(i), i # n PROVE Awaited(i)'
  BY <1>1, <1>4, <1>5 DEF Awaited
<1>6. ASSUME NEW i \in Ids, Leaving(i), mode = "otr" PROVE Leaving(i)'
  <2>1. CASE i # n
    BY <1>1, <1>4, <1>6, <2>1 DEF Leaving
  <2>2. CASE i = n
    <3>1. ~Has(link', News(n))
      <4>1. \A k \in 1 .. Len(link) : k # 1 /\ link[k].kind = "MessageReceived" => link[k].id # n
        BY <1>1, InvParts DEF Ordered, Arriving, Naming, n
      <4>2. /\ Len(link) \in Nat /\ Len(link) # 0 /\ Len(link') = Len(link) - 1
            /\ \A k \in 1 .. Len(link') : link'[k] = link[k + 1]
        BY <1>1, InvParts, HeadTailProperties DEF Arriving
      <4> QED
        BY <4>1, <4>2 DEF Has, News
    <3> QED
      BY <1>1, <1>4, <1>6, <2>2, <3>1 DEF Leaving
  <2> QED
    BY <2>1, <2>2
<1> QED
  BY <1>1, <1>5, <1>6, <1>7 DEF QueueInv

\* The reply with the contents arrives.
LEMMA QueueReplied == Inv /\ QueueInv /\ ReplyArrives("PendingMessages") => QueueInv'
<1> SUFFICES ASSUME Inv, QueueInv, ReplyArrives("PendingMessages") PROVE QueueInv'
  OBVIOUS
<1>1. /\ Arriving("PendingMessages") /\ posted' = Append(posted, Head(link))
      /\ UNCHANGED <<pending, calls, mode, messages, gone, revived>>
  BY DEF ReplyArrives, proxyVars, adapterVars, queueVars
<1>2. /\ Head(link) \in Items
      /\ \A i : Head(link) \notin News(i) /\ Head(link) \notin Removals(i)
  BY <1>1, LinkTaken DEF News, Removals
<1>3. \A i : Has(posted', Contents(i)) <=> Has(posted, Contents(i)) \/ Head(link) \in Contents(i)
  BY <1>1, <1>2, InvParts, HasAppend
<1>4. /\ \A S : Has(link, S) <=> Head(link) \in S \/ Has(link', S)
      /\ \A S, T : FollowedBy(link, S, T) => FollowedBy(link', S, T)
      /\ \A S, T : FollowedBy(link, S, T) /\ Head(link) \in S => Has(link', T)
  BY <1>1, LinkTaken
<1>5. ASSUME NEW i \in Ids, i \in pending, Awaited(i) PROVE Awaited(i)'
  BY <1>1, <1>2, <1>3, <1>4, <1>5 DEF Awaited
<1>6. ASSUME NEW i \in Ids, Leaving(i) PROVE Leaving(i)'
  BY <1>1, <1>2, <1>3, <1>4, <1>6 DEF Leaving
<1> QED
  BY <1>1, <1>5, <1>6 DEF QueueInv

\* The queue is filled; messages that are gone already are shown again.
LEMMA QueueFilled == Inv /\ QueueInv /\ onPendingMessagesPropertyGet => QueueInv'
<1> SUFFICES ASSUME Inv, QueueInv, onPendingMessagesPropertyGet PROVE QueueInv'
  OBVIOUS
<1> DEFINE ids == Head(posted).ids
<1>1. /\ Finished("PendingMessages") /\ messages' = messages \cup ids
      /\ revived' = revived \cup (ids \cap gone)
      /\ calls' = Announced(ids \ messages)
      /\ UNCHANGED <<pending, link, mode, gone>>
  BY DEF onPendingMessagesPropertyGet, proxyVars
<1>2. Head(posted) \in Items /\ ids \subseteq Ids /\ \A i : Head(posted) \in Contents(i) <=> i \in ids
  BY <1>1, FinishedKeeps DEF Items, Contents
<1>3. \A i : Has(posted, Contents(i)) <=> i \in ids \/ Has(posted', Contents(i))
  BY <1>1, <1>2, InvParts, HasTail DEF Finished
<1>4. \A S : Has(calls, S) => Has(calls', S)
  BY <1>1, <1>2, AnnouncedHas DEF Inv
<1> HIDE DEF ids
<1>5. ASSUME NEW i \in Ids, i \in pending, Awaited(i) PROVE Awaited(i)'
  BY <1>1, <1>3, <1>4, <1>5 DEF Awaited
<1>6. ASSUME NEW i \in Ids, Leaving(i) PROVE Leaving(i)'
  BY <1>1, <1>3, <1>6 DEF Leaving
<1> QED
  BY <1>1, <1>5, <1>6 DEF QueueInv

\* The adapter connects, and asks for the contents.
LEMMA QueueConnected == Inv /\ QueueInv /\ Idle /\ setChannel => QueueInv'
<1> SUFFICES ASSUME Inv, QueueInv, Idle, setChannel PROVE QueueInv'
  OBVIOUS
<1>1. /\ mode = "new" /\ (mode' = "otr" => calls' = Queries)
      /\ UNCHANGED <<pending, link, posted, messages, gone, revived>>
  BY DEF setChannel, proxyVars, queueVars
<1>2. link = <<>> /\ posted = <<>> /\ messages = {} /\ gone = {}
  BY <1>1 DEF Idle
<1>3. /\ \A S : ~Has(link, S) /\ ~Has(posted, S)
      /\ \A S, T : FollowedBy(link, S, T)
  BY <1>2 DEF Has, FollowedBy
<1>4. mode' = "otr" => Has(calls', Asking("PendingMessages"))
  <2>1. Len(Queries) = 3 /\ Queries[1] \in Asking("PendingMessages")
    BY DEF Queries, Request, Asking, Calls, Properties
  <2> QED
    BY <1>1, <2>1 DEF Has
<1>5. \A i \in Ids : mode' = "otr" => Awaited(i)' /\ Leaving(i)'
  BY <1>1, <1>2, <1>3, <1>4 DEF Awaited, Leaving
<1> QED
  BY <1>1, <1>5 DEF QueueInv

(***************************************************************************)
(* The trust level: signals, and the reply to the one query.               *)
(***************************************************************************)
LevelSignals == {x \in Items : x.kind = "TrustLevelChanged"}
LevelReplies == {x \in Items : x.kind = "TrustLevel"}
LevelItems == LevelSignals \cup LevelReplies
WithLevel(l) == {x \in LevelItems : x.level = l}
FpReplies == {x \in Items : x.kind = "RemoteFingerprint"}
WithFp(f) == {x \in FpReplies : x.fp = f}
LevelAsked == Asking("TrustLevel")
FpAsked == Asking("RemoteFingerprint")

\* A reply that changes nothing for a client that shows l.
Taken(l) == {x \in Items : x \in LevelReplies => l \in {"NOT_PRIVATE", x.level}}

\* A reply carries the level of the last signal before it.
Agreeing(s) ==
    \A j, k \in 1 .. Len(s) :
        /\ j < k /\ s[j] \in LevelItems /\ s[k] \in LevelReplies
        /\ \A m \in 1 .. Len(s) : j < m /\ m < k => s[m] \notin LevelItems
        => s[j].level = s[k].level

OneLevel ==
    /\ Once(calls, LevelAsked) /\ Once(link, LevelReplies) /\ Once(posted, LevelReplies)
    /\ Has(calls, LevelAsked) => ~Has(link, LevelReplies) /\ ~Has(posted, LevelReplies)
    /\ Has(link, LevelReplies) => ~Has(posted, LevelReplies)

\* The reply that waits to be handled leads to the level of the session.
Settling ==
    {x \in Items :
        x \in LevelReplies =>
            /\ ~outdated => /\ trustLevel \in {"NOT_PRIVATE", x.level}
                            /\ Has(link, LevelItems) \/ x.level = level
            /\ outdated => Has(link, LevelItems) \/ trustLevel = level}

TrustInv ==
    /\ outdated \in BOOLEAN
    /\ OneLevel
    /\ LastIn(link, LevelItems, WithLevel(level))
    /\ Agreeing(link)
    /\ FirstIn(link, LevelItems, Taken(trustLevel))
    /\ Has(calls, LevelAsked) \/ Has(link, LevelReplies) => ~outdated
    /\ Has(calls, LevelAsked) /\ ~Has(link, LevelItems) => trustLevel \in {"NOT_PRIVATE", level}
    /\ LastIn(posted, LevelReplies, Settling)
    /\ /\ mode = "otr" /\ ~Has(calls, LevelAsked) /\ ~Has(link, LevelItems)
       /\ ~Has(posted, LevelReplies) /\ ~outdated
       => trustLevel = level

\* The last reply with a fingerprint has that of the session, unless it will be asked again.
FpInv ==
    /\ LastIn(link, LevelSignals, WithLevel(level))
    /\ /\ mode = "otr" /\ level \in Private
       /\ ~Has(link, LevelSignals) /\ ~Has(calls, FpAsked)
       => /\ LastIn(link, FpReplies, WithFp(fp))
          /\ ~Has(link, FpReplies) => LastIn(posted, FpReplies, WithFp(fp))
          /\ ~Has(link, FpReplies) /\ ~Has(posted, FpReplies) => remoteFp = fp

\* A visible chat has every pending message acknowledged, or the call is under way.
AckInv ==
    mode = "otr" /\ visible =>
        \A i \in pending \cap messages : i \in acking \cup refused \/ Has(calls, Acknowledging(i))

CurrentInv == Inv /\ Idle /\ QueueInv /\ TrustInv /\ FpInv /\ AckInv

\* The invariant says that the adapter is current.
LEMMA CurrentInvImplies == CurrentInv => AdapterIsCurrent
<1> SUFFICES ASSUME CurrentInv PROVE QueueIsCurrent /\ TrustIsCurrent /\ ShownIsAcknowledged
  BY DEF AdapterIsCurrent
<1>1. QueueIsCurrent
  BY QueueInvImplies DEF CurrentInv
<1>2. Quiet => mode = "otr" /\ \A S : ~Has(link, S) /\ ~Has(calls, S) /\ ~Has(posted, S)
  BY DEF Quiet, Has
<1>3. TrustIsCurrent
  BY <1>2 DEF CurrentInv, TrustInv, FpInv, TrustIsCurrent
<1>4. ShownIsAcknowledged
  BY <1>1, <1>2 DEF CurrentInv, AckInv, ShownIsAcknowledged, QueueIsCurrent
<1> QED
  BY <1>1, <1>3, <1>4

\* A reply that says what the last signal before it said agrees with it.
LEMMA AgreeingAppend ==
    ASSUME NEW s \in Seq(Items), NEW x \in Items, Agreeing(s),
           x \in LevelReplies => LastIn(s, LevelItems, WithLevel(x.level))
    PROVE  Agreeing(Append(s, x))
<1>1. /\ Len(s) \in Nat /\ Len(Append(s, x)) = Len(s) + 1
      /\ \A i \in 1 .. Len(s) : Append(s, x)[i] = s[i]
      /\ Append(s, x)[Len(s) + 1] = x
  BY AppendProperties
<1> DEFINE t == Append(s, x)
<1> SUFFICES ASSUME NEW j \in 1 .. Len(t), NEW k \in 1 .. Len(t),
                    j < k, t[j] \in LevelItems, t[k] \in LevelReplies,
                    \A m \in 1 .. Len(t) : j < m /\ m < k => t[m] \notin LevelItems
             PROVE  t[j].level = t[k].level
  BY DEF Agreeing
<1> HIDE DEF t
<1>2. CASE k <= Len(s)
  BY <1>1, <1>2 DEF Agreeing, t
<1>3. CASE ~(k <= Len(s))
  <2>1. k = Len(s) + 1 /\ t[k] = x /\ j \in 1 .. Len(s) /\ t[j] = s[j]
    BY <1>1, <1>3 DEF t
  <2>2. \A m \in 1 .. Len(s) : j < m => s[m] \notin LevelItems
    BY <1>1, <2>1 DEF t
  <2>3. LastIn(s, LevelItems, WithLevel(x.level))
    BY <2>1
  <2>4. s[j] \in WithLevel(x.level)
    BY <2>1, <2>2, <2>3 DEF LastIn
  <2> QED
    BY <2>1, <2>4 DEF WithLevel
<1> QED
  BY <1>2, <1>3

\* The tail agrees as the sequence did; the first reply in it says what the head said.
LEMMA AgreeingTail ==
    ASSUME NEW s \in Seq(Items), s # <<>>, Agreeing(s)
    PROVE  /\ Agreeing(Tail(s))
           /\ Head(s) \in LevelItems => FirstIn(Tail(s), LevelItems, Taken(Head(s).level))
<1>1. /\ Len(s) \in Nat /\ Len(s) # 0 /\ Len(Tail(s)) = Len(s) - 1 /\ Head(s) = s[1]
      /\ Tail(s) \in Seq(Items)
      /\ \A i \in 1 .. Len(Tail(s)) : Tail(s)[i] = s[i + 1]
  BY HeadTailProperties
<1>2. \A m \in 1 .. Len(s) : m # 1 => m - 1 \in 1 .. Len(Tail(s)) /\ s[m] = Tail(s)[m - 1]
  BY <1>1
<1> DEFINE t == Tail(s)
<1>3. Agreeing(t)
  <2> SUFFICES ASSUME NEW j \in 1 .. Len(t), NEW k \in 1 .. Len(t),
                      j < k, t[j] \in LevelItems, t[k] \in LevelReplies,
                      \A m \in 1 .. Len(t) : j < m /\ m < k => t[m] \notin LevelItems
               PROVE  t[j].level = t[k].level
    BY DEF Agreeing
  <2> HIDE DEF t
  <2>1. j + 1 \in 1 .. Len(s) /\ k + 1 \in 1 .. Len(s) /\ s[j + 1] = t[j] /\ s[k + 1] = t[k] /\ j + 1 < k + 1
    BY <1>1 DEF t
  <2>2. ASSUME NEW m \in 1 .. Len(s), j + 1 < m, m < k + 1 PROVE s[m] \notin LevelItems
    <3>1. m # 1 /\ j < m - 1 /\ m - 1 < k
      BY <2>2
    <3>2. m - 1 \in 1 .. Len(t) /\ s[m] = t[m - 1]
      BY <1>2, <3>1 DEF t
    <3> QED
      BY <3>1, <3>2
  <2>3. s[j + 1] \in LevelItems /\ s[k + 1] \in LevelReplies
    BY <2>1
  <2>4. s[j + 1].level = s[k + 1].level
    BY <2>1, <2>2, <2>3 DEF Agreeing
  <2> QED
    BY <2>1, <2>4
<1>4. ASSUME Head(s) \in LevelItems PROVE FirstIn(t, LevelItems, Taken(Head(s).level))
  <2> SUFFICES ASSUME NEW k \in 1 .. Len(t), t[k] \in LevelReplies,
                      \A m \in 1 .. Len(t) : m < k => t[m] \notin LevelItems
               PROVE  t[k].level = Head(s).level
    <3>1. \A k \in 1 .. Len(t) : t[k] \in Items
      BY <1>1, ElementOfSeq
    <3> HIDE DEF t
    <3> QED
      BY <3>1 DEF FirstIn, Taken
  <2> HIDE DEF t
  <2>1. k + 1 \in 1 .. Len(s) /\ s[k + 1] = t[k] /\ 1 < k + 1 /\ 1 \in 1 .. Len(s)
    BY <1>1 DEF t
  <2>2. ASSUME NEW m \in 1 .. Len(s), 1 < m, m < k + 1 PROVE s[m] \notin LevelItems
    BY <1>1, <1>2, <2>2 DEF t
  <2>3. s[1].level = s[k + 1].level
    BY <1>1, <1>4, <2>1, <2>2 DEF Agreeing
  <2> QED
    BY <1>1, <2>1, <2>3
<1> QED
  BY <1>3, <1>4

\* The first call is taken.
LEMMA CalledNeutral ==
    ASSUME Inv, NEW op, Called(op)
    PROVE  /\ Head(calls) \in Calls /\ Head(calls).op = op
           /\ \A name \in Properties : name # op => Neutral(calls, calls', Calls, Asking(name))
           /\ \A i : op # "AcknowledgePendingMessages" /\ Has(calls, Acknowledging(i)) =>
                        Has(calls', Acknowledging(i))
<1>1. calls \in Seq(Calls) /\ calls # <<>> /\ Head(calls).op = op /\ calls' = Tail(calls)
  BY InvParts DEF Called
<1>2. Head(calls) \in Calls /\ \A S : Has(calls, S) <=> Head(calls) \in S \/ Has(calls', S)
  BY <1>1, HasTail
<1> QED
  BY <1>1, <1>2 DEF Neutral, Asking, Acknowledging

\* A signal or a reply is sent, or dropped.
LEMMA SignalNeutral ==
    ASSUME NEW x \in Items, Signal(x), NEW S, x \notin S
    PROVE  Neutral(link, link', Items, S)
BY DEF Signal, Neutral

\* An item of another kind arrives.
LEMMA ArrivingNeutral ==
    ASSUME NEW kind, Arriving(kind), NEW S, \A x \in S : x.kind # kind
    PROVE  Neutral(link, link', Items, S)
BY DEF Arriving, Neutral

\* What runs after a reply takes only itself from the posted calls.
LEMMA FinishedNeutral ==
    ASSUME NEW name, Finished(name), NEW S, \A x \in S : x.kind # name
    PROVE  Neutral(posted, posted', Items, S)
BY DEF Finished, Neutral

\* Acknowledgements query nothing.
LEMMA AcknowledgementNeutral ==
    ASSUME Inv, calls' \in {calls, Append(calls, Acknowledgement(messages))}
    PROVE  /\ \A name \in Properties : Neutral(calls, calls', Calls, Asking(name))
           /\ \A S : Has(calls, S) => Has(calls', S)
<1>1. Acknowledgement(messages) \in Calls /\ Acknowledgement(messages).op = "AcknowledgePendingMessages"
  BY InvParts DEF Acknowledgement, Calls
<1>2. \A name \in Properties : Acknowledgement(messages) \notin Asking(name)
  BY <1>1 DEF Asking, Properties
<1>3. calls \in Seq(Calls)
  BY InvParts
<1> QED
  BY <1>1, <1>2, <1>3, HasAppend DEF Neutral

\* Queries of the fingerprint; there is one for a private level.
LEMMA FingerprintQueried ==
    ASSUME NEW old, NEW new
    PROVE  /\ FingerprintQueries(old, new) \in Seq(Calls)
           /\ \A name \in Properties : name # "RemoteFingerprint" =>
                ~Has(FingerprintQueries(old, new), Asking(name))
           /\ new \in Private => Has(FingerprintQueries(old, new), FpAsked)
<1> DEFINE x == Request("RemoteFingerprint")
<1>1. x \in Calls /\ x.op = "RemoteFingerprint" /\ x \in FpAsked
  BY DEF Request, Calls, Properties, FpAsked, Asking
<1>2. \A name \in Properties : name # "RemoteFingerprint" => x \notin Asking(name)
  BY <1>1 DEF Asking
<1>3. \E c, d \in {<<>>, <<x>>} : FingerprintQueries(old, new) = c \o d /\ (new \in Private => d = <<x>>)
  BY DEF FingerprintQueries
<1> HIDE DEF x
<1>4. ASSUME NEW c \in {<<>>, <<x>>} PROVE c \in Seq(Calls) /\ \A S : Has(c, S) <=> x \in S /\ c = <<x>>
  <2>1. CASE c = <<>>
    BY <2>1 DEF Has
  <2>2. CASE c = <<x>>
    BY <1>1, <2>2 DEF Has
  <2> QED
    BY <2>1, <2>2
<1>5. PICK c \in {<<>>, <<x>>}, d \in {<<>>, <<x>>} :
        FingerprintQueries(old, new) = c \o d /\ (new \in Private => d = <<x>>)
  BY <1>3
<1>6. c \in Seq(Calls) /\ d \in Seq(Calls)
  BY <1>4
<1>7. c \o d \in Seq(Calls) /\ \A S : Has(c \o d, S) <=> Has(c, S) \/ Has(d, S)
  BY <1>6, HasConcat
<1> QED
  BY <1>1, <1>2, <1>4, <1>5, <1>7

\* Every step keeps what is said of the contents of the queue.
LEMMA QueueKept == Inv /\ Idle /\ QueueInv /\ AdapterNext => QueueInv'
<1> SUFFICES ASSUME Inv, Idle, QueueInv, AdapterNext PROVE QueueInv'
  OBVIOUS
<1> DEFINE Asked == Asking("PendingMessages")
<1>0. "PendingMessages" \in Properties /\ calls \in Seq(Calls)
  BY InvParts DEF Properties
<1>1. CASE MessageReceived \/ onMessageReceived \/ onPendingMessagesRemoved
            \/ onPendingMessagesPropertyGet \/ setChannel
  BY <1>1, QueueReceived, QueueAnnounced, QueueDropped, QueueFilled, QueueConnected
<1>2. ASSUME NEW i \in Ids, PendingMessagesRemoved(i) PROVE QueueInv'
  BY <1>2, QueueRemoved
<1>3. CASE Notice \/ (\E l \in PeerLevels, f \in PeerFps \cup {NoPeerFp} : TrustLevelChanged(l, f))
            \/ onPendingSendFinished
  <2>1. /\ UNCHANGED <<arrived, pending, calls, posted, mode, queueVars>>
        /\ link' = link \/ \E x \in Others : Signal(x)
    <3>1. CASE Notice
      <4>1. [kind |-> "Notice"] \in Others
        BY DEF Others, Items
      <4> QED
        BY <3>1, <4>1 DEF Notice, proxyVars
    <3>2. ASSUME NEW l \in PeerLevels, NEW f \in PeerFps \cup {NoPeerFp}, TrustLevelChanged(l, f)
          PROVE  /\ UNCHANGED <<arrived, pending, calls, posted, mode, queueVars>>
                 /\ \E x \in Others : Signal(x)
      <4>1. [kind |-> "TrustLevelChanged", level |-> l] \in Others
        BY DEF Others, Items
      <4> QED
        BY <3>2, <4>1 DEF TrustLevelChanged, adapterVars
    <3>3. CASE onPendingSendFinished
      <4>1. [kind |-> "MessageSent"] \in Others
        BY DEF Others, Items
      <4> QED
        BY <3>3, <4>1 DEF onPendingSendFinished, adapterVars
    <3> QED
      BY <1>3, <3>1, <3>2, <3>3
  <2>2. link' = link \/ \E x \in Others : link' = Append(link, x)
    BY <2>1 DEF Signal
  <2> QED
    BY <2>1, <2>2, QueuePassing
<1>4. ASSUME NEW name \in Properties, GetProperty(name) PROVE QueueInv'
  <2>1. CASE name = "PendingMessages"
    BY <1>4, <2>1, QueueAnswered
  <2>2. CASE name # "PendingMessages"
    <3>1. /\ Called(name) /\ Signal(Property(name))
          /\ UNCHANGED <<arrived, pending, posted, mode, queueVars>>
      BY <1>4 DEF GetProperty, proxyVars, adapterVars
    <3>2. Property(name) \in Others
      BY <2>2, InvParts DEF Property, Others, Items, Properties
    <3>3. link' = link \/ \E x \in Others : link' = Append(link, x)
      BY <3>1, <3>2 DEF Signal
    <3>4. Has(calls, Asked) => Has(calls', Asked)
      BY <1>0, <2>2, <3>1, CalledNeutral, NeutralKeeps
    <3> QED
      BY <3>1, <3>3, <3>4, QueuePassing
  <2> QED
    BY <2>1, <2>2
<1>5. CASE sendMessage \/ acknowledgePendingMessages
  <2>1. /\ Called("SendMessage") \/ Called("AcknowledgePendingMessages")
        /\ UNCHANGED <<arrived, pending, link, posted, mode, queueVars>>
    BY <1>5 DEF sendMessage, acknowledgePendingMessages, adapterVars
  <2>2. Has(calls, Asked) => Has(calls', Asked)
    BY <1>0, <2>1, CalledNeutral, NeutralKeeps
  <2> QED
    BY <2>1, <2>2, QueuePassing
<1>6. CASE onNoticeReceived \/ onMessageSent
  <2>1. /\ Arriving("Notice") \/ Arriving("MessageSent")
        /\ calls' \in {calls, Append(calls, Acknowledgement(messages))}
        /\ UNCHANGED <<arrived, pending, posted, mode, queueVars>>
    BY <1>6 DEF onNoticeReceived, onMessageSent, acknowledge, proxyVars, adapterVars
  <2>2. link # <<>> /\ Head(link) \in Others /\ link' = Tail(link)
    BY <2>1, LinkTaken DEF Arriving, Others
  <2> QED
    BY <2>1, <2>2, AcknowledgementNeutral, QueuePassing
<1>7. CASE onTrustLevelSignal
  <2>1. /\ Arriving("TrustLevelChanged")
        /\ calls' = calls \o FingerprintQueries(trustLevel, Head(link).level)
        /\ UNCHANGED <<arrived, pending, posted, mode, queueVars>>
    BY <1>7 DEF onTrustLevelSignal, proxyVars
  <2>2. link # <<>> /\ Head(link) \in Others /\ link' = Tail(link)
    BY <2>1, LinkTaken DEF Arriving, Others
  <2>3. Has(calls, Asked) => Has(calls', Asked)
    BY <1>0, <2>1, FingerprintQueried, HasConcat
  <2> QED
    BY <2>1, <2>2, <2>3, QueuePassing
<1>8. ASSUME NEW name \in Properties, ReplyArrives(name) PROVE QueueInv'
  <2>1. CASE name = "PendingMessages"
    BY <1>8, <2>1, QueueReplied
  <2>2. CASE name # "PendingMessages"
    <3>1. /\ Arriving(name) /\ posted' = Append(posted, Head(link))
          /\ UNCHANGED <<arrived, pending, calls, mode, queueVars>>
      BY <1>8 DEF ReplyArrives, proxyVars, adapterVars
    <3>2. link # <<>> /\ Head(link) \in Others /\ link' = Tail(link)
      BY <2>2, <3>1, LinkTaken DEF Arriving, Others, Properties
    <3> QED
      BY <3>1, <3>2, QueuePassing
  <2> QED
    BY <2>1, <2>2
<1>9. CASE onTrustLevelPropertyGet \/ onRemoteFingerprintPropertyGet
  <2>1. /\ Finished("TrustLevel") \/ Finished("RemoteFingerprint")
        /\ UNCHANGED <<arrived, pending, calls, link, mode, queueVars>>
    BY <1>9 DEF onTrustLevelPropertyGet, onRemoteFingerprintPropertyGet, proxyVars
  <2>2. posted # <<>> /\ Head(posted) \in Others /\ posted' = Tail(posted)
    BY <2>1, FinishedKeeps DEF Finished, Others
  <2> QED
    BY <2>1, <2>2, QueuePassing
<1>10. CASE setVisibleToUser
  <2>1. /\ calls' \in {calls, Append(calls, Acknowledgement(messages))}
        /\ UNCHANGED <<arrived, pending, link, posted, mode, queueVars>>
    BY <1>10 DEF setVisibleToUser, acknowledge, proxyVars
  <2> QED
    BY <2>1, AcknowledgementNeutral, QueuePassing
<1>11. CASE send
  <2>1. /\ calls' = Append(calls, [op |-> "SendMessage"])
        /\ UNCHANGED <<arrived, pending, link, posted, mode, queueVars>>
    BY <1>11 DEF send, proxyVars
  <2>2. [op |-> "SendMessage"] \in Calls
    BY DEF Calls
  <2>3. Has(calls, Asked) => Has(calls', Asked)
    BY <1>0, <2>1, <2>2, HasAppend
  <2> QED
    BY <2>1, <2>3, QueuePassing
<1> QED
  BY <1>1, <1>2, <1>3, <1>4, <1>5, <1>6, <1>7, <1>8, <1>9, <1>10, <1>11
     DEF AdapterNext, ProxyStep, AdapterStep

\* Nothing is handled before the adapter is connected.
LEMMA IdleKept == Inv /\ Idle /\ AdapterNext => Idle'
<1> SUFFICES ASSUME Inv, Idle, AdapterNext PROVE Idle'
  OBVIOUS
<1>0. /\ link \in Seq(Items) /\ posted \in Seq(Items) /\ calls \in Seq(Calls)
      /\ pending \subseteq Ids /\ gone \subseteq Ids /\ messages \subseteq Ids
  BY InvParts, AdapterAssumption DEF Ids
<1>1. \A x : Signal(x) /\ mode # "otr" => link' = link
  BY DEF Signal
<1>2. mode # "otr" => calls = <<>> /\ link = <<>> /\ posted = <<>>
  BY DEF Idle
<1>3. CASE MessageReceived \/ onPendingSendFinished \/ Notice
  BY <1>1, <1>3 DEF Idle, MessageReceived, onPendingSendFinished, Notice, ackVars, adapterVars, queueVars,
        trustVars, proxyVars
<1>4. ASSUME NEW i \in Ids, PendingMessagesRemoved(i) PROVE Idle'
  BY <1>1, <1>4 DEF Idle, PendingMessagesRemoved, adapterVars, queueVars, trustVars
<1>5. ASSUME NEW l, NEW f, TrustLevelChanged(l, f) PROVE Idle'
  BY <1>1, <1>5 DEF Idle, TrustLevelChanged, adapterVars, queueVars, trustVars, ackVars
<1>6. ASSUME NEW name \in Properties, GetProperty(name) PROVE Idle'
  <2>1. mode = "otr"
    BY <1>2, <1>6 DEF GetProperty, Called
  <2> QED
    BY <1>6, <2>1 DEF Idle, GetProperty, adapterVars, queueVars, trustVars, ackVars, proxyVars
<1>7. CASE sendMessage
  BY <1>2, <1>7 DEF sendMessage, Called, Idle, adapterVars, queueVars, trustVars, ackVars
<1>8. CASE acknowledgePendingMessages
  <2>1. Head(calls) \in Calls /\ Head(calls).op = "AcknowledgePendingMessages" /\ mode = "otr"
    BY <1>0, <1>2, <1>8, CalledNeutral DEF acknowledgePendingMessages, Called
  <2>2. Head(calls).ids \subseteq Ids
    BY <2>1 DEF Calls, Properties
  <2> QED
    BY <1>8, <2>1, <2>2 DEF acknowledgePendingMessages, Idle, adapterVars, queueVars, trustVars
<1>9. CASE AdapterStep
  <2>1. mode = "otr" /\ mode' = mode /\ UNCHANGED <<acking, refused>>
    BY <1>2, <1>9 DEF AdapterStep, onMessageReceived, onNoticeReceived, onPendingMessagesRemoved,
       onTrustLevelSignal, onMessageSent, ReplyArrives, onPendingMessagesPropertyGet,
       onTrustLevelPropertyGet, onRemoteFingerprintPropertyGet, Arriving, Finished,
       proxyVars, ackVars, adapterVars
  <2>2. revived' \subseteq Ids
    BY <1>0, <1>9 DEF Idle, AdapterStep, onMessageReceived, onNoticeReceived, onPendingMessagesRemoved,
       onTrustLevelSignal, onMessageSent, ReplyArrives, onPendingMessagesPropertyGet,
       onTrustLevelPropertyGet, onRemoteFingerprintPropertyGet, queueVars, adapterVars
  <2>3. trustLevel' \in PeerLevels
    <3>1. CASE onTrustLevelSignal
      BY <3>1, LinkTaken DEF onTrustLevelSignal, Items
    <3>2. CASE onTrustLevelPropertyGet
      BY <3>2, FinishedKeeps DEF onTrustLevelPropertyGet, Items, Idle
    <3>3. CASE ~onTrustLevelSignal /\ ~onTrustLevelPropertyGet
      BY <1>9, <3>3 DEF Idle, AdapterStep, onMessageReceived, onNoticeReceived, onPendingMessagesRemoved,
        onMessageSent, ReplyArrives, onPendingMessagesPropertyGet,
        onRemoteFingerprintPropertyGet, trustVars, adapterVars
    <3> QED
      BY <3>1, <3>2, <3>3
  <2>4. remoteFp' \in Fps
    <3>1. CASE onRemoteFingerprintPropertyGet
      BY <3>1, FinishedKeeps DEF onRemoteFingerprintPropertyGet, Items
    <3>2. CASE ~onRemoteFingerprintPropertyGet
      BY <1>9, <3>2 DEF Idle, AdapterStep, onMessageReceived, onNoticeReceived, onPendingMessagesRemoved,
        onTrustLevelSignal, onMessageSent, ReplyArrives, onPendingMessagesPropertyGet,
        onTrustLevelPropertyGet, trustVars, adapterVars
    <3> QED
      BY <3>1, <3>2
  <2> QED
    BY <2>1, <2>2, <2>3, <2>4 DEF Idle
<1>10. CASE setChannel \/ setVisibleToUser \/ send
  BY <1>2, <1>10 DEF Idle, setChannel, setVisibleToUser, send, proxyVars, ackVars, queueVars, trustVars
<1> QED
  BY <1>3, <1>4, <1>5, <1>6, <1>7, <1>8, <1>9, <1>10 DEF AdapterNext, ProxyStep

\* Agreement does not depend on what is neither a signal nor a reply of the level.
LEMMA AgreeingNeutral ==
    ASSUME NEW s \in Seq(Items), NEW t,
           \/ t = s
           \/ s # <<>> /\ t = Tail(s)
           \/ \E x \in Items : x \notin LevelReplies /\ t = Append(s, x),
           Agreeing(s)
    PROVE  Agreeing(t)
BY AgreeingTail, AgreeingAppend

\* Steps that do not move the level.
LEMMA TrustPassing ==
    ASSUME Inv, TrustInv,
           UNCHANGED <<level, trustLevel, outdated>>, mode' = "otr" => mode = "otr",
           Neutral(calls, calls', Calls, LevelAsked),
           Neutral(link, link', Items, LevelItems),
           \/ link' = link
           \/ link # <<>> /\ link' = Tail(link)
           \/ \E x \in Items : x \notin LevelReplies /\ link' = Append(link, x),
           Neutral(posted, posted', Items, LevelReplies)
    PROVE  TrustInv'
<1>0. calls \in Seq(Calls) /\ link \in Seq(Items) /\ posted \in Seq(Items)
  BY InvParts
<1>1. /\ Has(calls', LevelAsked) <=> Has(calls, LevelAsked)
      /\ Once(calls', LevelAsked)
  BY <1>0, NeutralKeeps DEF TrustInv, OneLevel
<1>2. /\ Has(link', LevelItems) <=> Has(link, LevelItems)
      /\ LastIn(link', LevelItems, WithLevel(level))
      /\ FirstIn(link', LevelItems, Taken(trustLevel))
  BY <1>0, NeutralKeeps DEF TrustInv
<1>3. /\ Has(link', LevelReplies) <=> Has(link, LevelReplies)
      /\ Once(link', LevelReplies)
  <2>1. Neutral(link, link', Items, LevelReplies)
    BY DEF Neutral, LevelItems, Has
  <2> QED
    BY <1>0, <2>1, NeutralKeeps DEF TrustInv, OneLevel
<1>4. /\ Has(posted', LevelReplies) <=> Has(posted, LevelReplies)
      /\ Once(posted', LevelReplies)
      /\ LastIn(posted', LevelReplies, Settling)
  BY <1>0, NeutralKeeps DEF TrustInv, OneLevel
<1>5. Agreeing(link')
  BY <1>0, AgreeingNeutral DEF TrustInv
<1>6. Settling' = Settling
  BY <1>2 DEF Settling
<1>7. OneLevel'
  BY <1>1, <1>3, <1>4 DEF OneLevel, TrustInv
<1> QED
  BY <1>1, <1>2, <1>3, <1>4, <1>5, <1>6, <1>7 DEF TrustInv

\* A sequence without the items of S.
LEMMA LastNone == ASSUME NEW s, NEW S, NEW T, ~Has(s, S) PROVE LastIn(s, S, T) /\ Once(s, S)
BY DEF LastIn, Has, Once

\* The last item is in every larger set.
LEMMA LastMore ==
    ASSUME NEW A, NEW s \in Seq(A), NEW S, NEW T, NEW U, LastIn(s, S, T), T \subseteq U
    PROVE  LastIn(s, S, U)
BY DEF LastIn

\* The level changes.
LEMMA TrustChanged ==
    ASSUME Inv, Idle, TrustInv, NEW l \in PeerLevels, NEW f, TrustLevelChanged(l, f)
    PROVE  TrustInv'
<1> DEFINE x == [kind |-> "TrustLevelChanged", level |-> l]
<1>0. calls \in Seq(Calls) /\ link \in Seq(Items) /\ posted \in Seq(Items)
  BY InvParts
<1>1. /\ level' = l /\ Signal(x) /\ UNCHANGED <<calls, posted, mode, trustLevel, outdated>>
  BY DEF TrustLevelChanged, adapterVars, trustVars
<1>2. CASE mode = "otr"
  <2>1. link' = Append(link, x) /\ x \in Items /\ x \in LevelItems /\ x \in WithLevel(l)
        /\ x \notin LevelReplies /\ x \in Taken(trustLevel)
    BY <1>1, <1>2 DEF Signal, Items, LevelItems, LevelReplies, LevelSignals, WithLevel, Taken
  <2> HIDE DEF x
  <2>2. Has(link', LevelItems) /\ (Has(link', LevelReplies) <=> Has(link, LevelReplies))
    BY <1>0, <2>1, HasAppend
  <2>3. Once(link', LevelReplies) /\ LastIn(link', LevelItems, WithLevel(l))
    BY <1>0, <2>1, OnceAppend, LastAppend DEF TrustInv, OneLevel
  <2>4. FirstIn(link', LevelItems, Taken(trustLevel)) /\ Agreeing(link')
    BY <1>0, <2>1, FirstAppend, AgreeingAppend DEF TrustInv
  <2>5. Settling \subseteq Settling'
    BY <1>1, <2>2 DEF Settling
  <2>6. LastIn(posted, LevelReplies, Settling')
    BY <1>0, <2>5, LastMore DEF TrustInv
  <2>7. OneLevel'
    BY <1>1, <2>2, <2>3 DEF TrustInv, OneLevel
  <2> QED
    BY <1>1, <2>2, <2>3, <2>4, <2>6, <2>7 DEF TrustInv
<1>3. CASE mode # "otr"
  <2>1. /\ calls = <<>> /\ link = <<>> /\ posted = <<>> /\ link' = link
        /\ trustLevel = "NOT_PRIVATE" /\ outdated = FALSE
    BY <1>1, <1>3 DEF Idle, Signal
  <2>2. TrustInv'
    BY <1>1, <1>3, <2>1 DEF TrustInv, OneLevel, Has, Once, LastIn, FirstIn, Agreeing
  <2> QED
    BY <2>2
<1> QED
  BY <1>2, <1>3

\* The proxy answers with the level.
LEMMA TrustAnswered == Inv /\ Idle /\ TrustInv /\ GetProperty("TrustLevel") => TrustInv'
<1> SUFFICES ASSUME Inv, Idle, TrustInv, GetProperty("TrustLevel") PROVE TrustInv'
  OBVIOUS
<1> DEFINE x == [kind |-> "TrustLevel", level |-> level]
<1>0. calls \in Seq(Calls) /\ link \in Seq(Items) /\ posted \in Seq(Items) /\ level \in PeerLevels
  BY InvParts
<1>1. /\ Called("TrustLevel") /\ Signal(x)
      /\ UNCHANGED <<level, posted, mode, trustLevel, outdated>>
  BY DEF GetProperty, Property, proxyVars, sessionVars, adapterVars, trustVars
<1>2. mode = "otr" /\ calls # <<>> /\ Head(calls).op = "TrustLevel" /\ calls' = Tail(calls)
  BY <1>1 DEF Called, Idle
<1>3. Head(calls) \in LevelAsked
  BY <1>0, <1>2, HasTail DEF LevelAsked, Asking
<1>4. Has(calls, LevelAsked) /\ ~Has(calls', LevelAsked)
  BY <1>0, <1>2, <1>3, HasTail, OnceTail DEF TrustInv, OneLevel
<1>5. ~Has(link, LevelReplies) /\ ~Has(posted, LevelReplies) /\ ~outdated
  BY <1>4 DEF TrustInv, OneLevel
<1>6. link' = Append(link, x) /\ x \in Items /\ x \in LevelItems /\ x \in WithLevel(level)
      /\ x \in LevelReplies /\ x.level = level
  BY <1>0, <1>1, <1>2 DEF Signal, Items, LevelItems, LevelReplies, WithLevel
<1>7. Has(link, LevelItems) \/ x \in Taken(trustLevel)
  BY <1>4, <1>6 DEF TrustInv, Taken
<1> HIDE DEF x
<1>8. Has(link', LevelItems)
  BY <1>0, <1>6, HasAppend
<1>9. Once(link', LevelReplies) /\ LastIn(link', LevelItems, WithLevel(level))
  BY <1>0, <1>5, <1>6, OnceAppend, LastAppend DEF TrustInv, OneLevel
<1>10. FirstIn(link', LevelItems, Taken(trustLevel)) /\ Agreeing(link')
  BY <1>0, <1>6, <1>7, FirstAppend, AgreeingAppend DEF TrustInv
<1>11. OneLevel'
  BY <1>1, <1>4, <1>5, <1>9, LastNone DEF TrustInv, OneLevel
<1>12. LastIn(posted, LevelReplies, Settling')
  BY <1>5, LastNone
<1> QED
  BY <1>1, <1>4, <1>5, <1>8, <1>9, <1>10, <1>11, <1>12 DEF TrustInv

\* A change of the level is handled.
LEMMA TrustTaken == Inv /\ Idle /\ TrustInv /\ onTrustLevelSignal => TrustInv'
<1> SUFFICES ASSUME Inv, Idle, TrustInv, onTrustLevelSignal PROVE TrustInv'
  OBVIOUS
<1> DEFINE l == Head(link).level
<1>0. calls \in Seq(Calls) /\ link \in Seq(Items) /\ posted \in Seq(Items)
  BY InvParts
<1>1. /\ Arriving("TrustLevelChanged") /\ trustLevel' = l
      /\ outdated' = \E n \in DOMAIN posted : posted[n].kind = "TrustLevel"
      /\ calls' = calls \o FingerprintQueries(trustLevel, l)
      /\ UNCHANGED <<level, posted, mode>>
  BY DEF onTrustLevelSignal, proxyVars, sessionVars
<1>2. /\ link # <<>> /\ link' = Tail(link) /\ Head(link) \in LevelItems
      /\ Head(link) \notin LevelReplies
  BY <1>1, LinkTaken DEF Arriving, LevelItems, LevelSignals, LevelReplies
<1>3. outdated' = Has(posted, LevelReplies)
  <2>1. DOMAIN posted = 1 .. Len(posted) /\ \A n \in 1 .. Len(posted) : posted[n] \in Items
    BY <1>0
  <2> QED
    BY <1>1, <2>1 DEF Has, LevelReplies
<1>4. (Has(calls', LevelAsked) <=> Has(calls, LevelAsked)) /\ Once(calls', LevelAsked)
  <2>1. "TrustLevel" \in Properties /\ "TrustLevel" # "RemoteFingerprint"
    BY DEF Properties
  <2>2. FingerprintQueries(trustLevel, l) \in Seq(Calls) /\ ~Has(FingerprintQueries(trustLevel, l), LevelAsked)
    BY <2>1, FingerprintQueried DEF LevelAsked
  <2> QED
    BY <1>0, <1>1, <2>2, HasConcat, OnceConcat DEF TrustInv, OneLevel
<1>5. /\ Has(link', LevelReplies) <=> Has(link, LevelReplies)
      /\ Once(link', LevelReplies)
  BY <1>0, <1>2, HasTail, OnceTail DEF TrustInv, OneLevel
<1>6. LastIn(link', LevelItems, WithLevel(level)) /\ (Has(link', LevelItems) \/ l = level)
  <2>1. Has(link', LevelItems) \/ Head(link) \in WithLevel(level)
    BY <1>0, <1>2, LastTail DEF TrustInv
  <2> QED
    BY <1>0, <1>2, <2>1, LastTail DEF TrustInv, WithLevel
<1>7. Agreeing(link') /\ FirstIn(link', LevelItems, Taken(l))
  BY <1>0, <1>2, AgreeingTail DEF TrustInv
<1> HIDE DEF l
<1>8. OneLevel'
  BY <1>1, <1>4, <1>5 DEF TrustInv, OneLevel
<1>9. LastIn(posted, LevelReplies, Settling')
  <2>1. CASE Has(posted, LevelReplies)
    <3>1. Items \subseteq Settling'
      BY <1>1, <1>3, <1>6, <2>1 DEF Settling
    <3> QED
      BY <1>0, <3>1 DEF LastIn
  <2>2. CASE ~Has(posted, LevelReplies)
    BY <2>2, LastNone
  <2> QED
    BY <2>1, <2>2
<1>10. Has(calls', LevelAsked) \/ Has(link', LevelReplies) => ~outdated'
  BY <1>3, <1>4, <1>5 DEF TrustInv, OneLevel
<1>11. outdated' \in BOOLEAN
  BY <1>1
<1> QED
  BY <1>1, <1>3, <1>4, <1>5, <1>6, <1>7, <1>8, <1>9, <1>10, <1>11 DEF TrustInv

\* The reply with the level arrives.
LEMMA TrustReplied == Inv /\ Idle /\ TrustInv /\ ReplyArrives("TrustLevel") => TrustInv'
<1> SUFFICES ASSUME Inv, Idle, TrustInv, ReplyArrives("TrustLevel") PROVE TrustInv'
  OBVIOUS
<1> DEFINE x == Head(link)
<1>0. calls \in Seq(Calls) /\ link \in Seq(Items) /\ posted \in Seq(Items)
  BY InvParts
<1>1. /\ Arriving("TrustLevel") /\ posted' = Append(posted, x)
      /\ UNCHANGED <<calls, level, mode, trustLevel, outdated>>
  BY DEF ReplyArrives, proxyVars, sessionVars, adapterVars, trustVars
<1>2. link # <<>> /\ link' = Tail(link) /\ x \in Items /\ x \in LevelItems /\ x \in LevelReplies
  BY <1>1, LinkTaken DEF Arriving, LevelItems, LevelReplies
<1>3. Has(link, LevelReplies) /\ ~Has(link', LevelReplies)
  BY <1>0, <1>2, HasTail, OnceTail DEF TrustInv, OneLevel
<1>4. ~Has(calls, LevelAsked) /\ ~Has(posted, LevelReplies) /\ ~outdated
  BY <1>3 DEF TrustInv, OneLevel
<1>5. trustLevel \in {"NOT_PRIVATE", x.level}
  <2>1. x \in Taken(trustLevel)
    BY <1>0, <1>2, FirstTail DEF TrustInv
  <2> QED
    BY <1>2, <2>1 DEF Taken
<1>6. LastIn(link', LevelItems, WithLevel(level)) /\ (Has(link', LevelItems) \/ x.level = level)
  <2>1. Has(link', LevelItems) \/ x \in WithLevel(level)
    BY <1>0, <1>2, LastTail DEF TrustInv
  <2> QED
    BY <1>0, <1>2, <2>1, LastTail DEF TrustInv, WithLevel
<1>7. Agreeing(link')
  BY <1>0, <1>2, AgreeingTail DEF TrustInv
<1>8. link' \in Seq(Items)
  BY <1>0, <1>2, HasTail
<1>9. FirstIn(link', LevelItems, Taken(trustLevel))
  <2>1. ASSUME NEW k \in 1 .. Len(link') PROVE link'[k] \in Items /\ link'[k] \notin LevelReplies
    BY <1>3, <1>8, <2>1 DEF Has
  <2> QED
    BY <2>1 DEF FirstIn, Taken
<1>10. x \in Settling'
  BY <1>1, <1>2, <1>4, <1>5, <1>6 DEF Settling
<1> HIDE DEF x
<1>11. /\ Has(posted', LevelReplies) /\ Once(posted', LevelReplies)
       /\ LastIn(posted', LevelReplies, Settling')
  BY <1>0, <1>1, <1>2, <1>4, <1>10, HasAppend, OnceAppend, LastAppend DEF TrustInv, OneLevel
<1>12. OneLevel'
  BY <1>1, <1>3, <1>4, <1>11, LastNone DEF TrustInv, OneLevel
<1> QED
  BY <1>1, <1>3, <1>4, <1>6, <1>7, <1>9, <1>11, <1>12 DEF TrustInv

\* It is handled.
LEMMA TrustSettled == Inv /\ Idle /\ TrustInv /\ onTrustLevelPropertyGet => TrustInv'
<1> SUFFICES ASSUME Inv, Idle, TrustInv, onTrustLevelPropertyGet PROVE TrustInv'
  OBVIOUS
<1> DEFINE x == Head(posted)
<1>0. calls \in Seq(Calls) /\ link \in Seq(Items) /\ posted \in Seq(Items)
  BY InvParts
<1>1. /\ Finished("TrustLevel")
      /\ IF trustLevel = "NOT_PRIVATE"
         THEN trustLevel' = x.level /\ outdated' = outdated
         ELSE outdated' = FALSE /\ trustLevel' = trustLevel
      /\ UNCHANGED <<calls, link, level, mode>>
  BY DEF onTrustLevelPropertyGet, proxyVars, sessionVars
<1>2. posted # <<>> /\ posted' = Tail(posted) /\ x \in LevelReplies
  BY <1>1, FinishedKeeps DEF Finished, LevelReplies
<1>3. Has(posted, LevelReplies) /\ ~Has(posted', LevelReplies)
  BY <1>0, <1>2, HasTail, OnceTail DEF TrustInv, OneLevel
<1>4. ~Has(calls, LevelAsked) /\ ~Has(link, LevelReplies)
  BY <1>3 DEF TrustInv, OneLevel
<1>5. x \in Settling
  BY <1>0, <1>2, <1>3, LastTail DEF TrustInv
<1>6. FirstIn(link, LevelItems, Taken(trustLevel'))
  <2>1. ASSUME NEW k \in 1 .. Len(link) PROVE link[k] \in Items /\ link[k] \notin LevelReplies
    BY <1>0, <1>4, <2>1 DEF Has
  <2> QED
    BY <2>1 DEF FirstIn, Taken
<1>7. outdated' \in BOOLEAN
  BY <1>1 DEF TrustInv
<1>8. ~outdated' /\ ~Has(link, LevelItems) => trustLevel' = level
  BY <1>1, <1>2, <1>5 DEF Settling, TrustInv
<1> HIDE DEF x
<1>9. LastIn(posted', LevelReplies, Settling') /\ Once(posted', LevelReplies)
  BY <1>3, LastNone
<1>10. OneLevel'
  BY <1>1, <1>3, <1>4, <1>9 DEF TrustInv, OneLevel
<1> QED
  BY <1>1, <1>3, <1>4, <1>6, <1>7, <1>8, <1>9, <1>10 DEF TrustInv

\* The adapter connects, and asks once.
LEMMA TrustConnected == Inv /\ Idle /\ TrustInv /\ setChannel => TrustInv'
<1> SUFFICES ASSUME Inv, Idle, TrustInv, setChannel PROVE TrustInv'
  OBVIOUS
<1>1. /\ mode = "new"
      /\ (mode' = "otr" /\ calls' = Queries) \/ (mode' = "text" /\ calls' = calls)
      /\ UNCHANGED <<link, posted, level, trustLevel, outdated>>
  BY DEF setChannel, proxyVars, sessionVars, trustVars
<1>2. link = <<>> /\ posted = <<>> /\ trustLevel = "NOT_PRIVATE" /\ outdated = FALSE
  BY <1>1 DEF Idle
<1>3. CASE mode' = "text"
  <2>1. UNCHANGED <<calls, link, posted, level, trustLevel, outdated>> /\ mode' # "otr"
    BY <1>1, <1>3
  <2> QED
    BY <2>1 DEF TrustInv, OneLevel, Settling
<1>4. CASE mode' = "otr"
  <2>1. Len(Queries) = 3 /\ Queries[1].op = "PendingMessages" /\ Queries[2] \in LevelAsked
        /\ Queries[3].op = "RemoteFingerprint"
    BY DEF Queries, Request, LevelAsked, Asking, Calls, Properties
  <2>2. Queries[1] \notin LevelAsked /\ Queries[3] \notin LevelAsked
    BY <2>1 DEF LevelAsked, Asking
  <2>3. Has(Queries, LevelAsked) /\ Once(Queries, LevelAsked)
    BY <2>1, <2>2 DEF Has, Once
  <2>4. calls' = Queries
    BY <1>1, <1>4
  <2> QED
    BY <1>1, <1>2, <2>3, <2>4 DEF TrustInv, OneLevel, Has, Once, LastIn, FirstIn, Agreeing
<1> QED
  BY <1>1, <1>3, <1>4

\* Every step keeps what is said of the level.
LEMMA TrustKept == Inv /\ Idle /\ TrustInv /\ AdapterNext => TrustInv'
<1> SUFFICES ASSUME Inv, Idle, TrustInv, AdapterNext PROVE TrustInv'
  OBVIOUS
<1>0. "TrustLevel" \in Properties /\ "TrustLevel" # "PendingMessages" /\ calls \in Seq(Calls)
  BY InvParts DEF Properties
<1>a. \A s, A, S : Neutral(s, s, A, S)
  BY DEF Neutral
<1>b. ASSUME NEW x \in Items, x \notin LevelItems, Signal(x)
      PROVE  /\ Neutral(link, link', Items, LevelItems)
             /\ link' = link \/ \E y \in Items : y \notin LevelReplies /\ link' = Append(link, y)
  BY <1>b, SignalNeutral DEF Signal, LevelItems
<1>c. ASSUME NEW kind, kind \notin {"TrustLevelChanged", "TrustLevel"}, Arriving(kind)
      PROVE  Neutral(link, link', Items, LevelItems) /\ link # <<>> /\ link' = Tail(link)
  BY <1>c, ArrivingNeutral DEF Arriving, LevelItems, LevelSignals, LevelReplies
<1>1. CASE onTrustLevelSignal \/ onTrustLevelPropertyGet \/ setChannel
  BY <1>1, TrustTaken, TrustSettled, TrustConnected
<1>2. ASSUME NEW l \in PeerLevels, NEW f \in PeerFps \cup {NoPeerFp}, TrustLevelChanged(l, f)
      PROVE  TrustInv'
  BY <1>2, TrustChanged
<1>3. ASSUME NEW name \in Properties, GetProperty(name) PROVE TrustInv'
  <2>1. CASE name = "TrustLevel"
    BY <1>3, <2>1, TrustAnswered
  <2>2. CASE name # "TrustLevel"
    <3>1. /\ Called(name) /\ Signal(Property(name))
          /\ UNCHANGED <<level, posted, mode, trustLevel, outdated>>
      BY <1>3 DEF GetProperty, proxyVars, sessionVars, adapterVars, trustVars
    <3>2. Property(name) \in Items /\ Property(name) \notin LevelItems
      <4>1. pending \subseteq Ids
        BY InvParts, AdapterAssumption DEF Ids
      <4> QED
        BY <2>2, <4>1, InvParts DEF Property, Items, Properties, LevelItems, LevelSignals, LevelReplies
    <3>3. Neutral(calls, calls', Calls, LevelAsked)
      BY <1>0, <2>2, <3>1, CalledNeutral DEF LevelAsked
    <3> QED
      BY <1>a, <1>b, <3>1, <3>2, <3>3, TrustPassing
  <2> QED
    BY <2>1, <2>2
<1>4. CASE sendMessage \/ acknowledgePendingMessages
  <2>1. /\ Called("SendMessage") \/ Called("AcknowledgePendingMessages")
        /\ UNCHANGED <<level, link, posted, mode, trustLevel, outdated>>
    BY <1>4 DEF sendMessage, acknowledgePendingMessages, sessionVars, adapterVars, trustVars
  <2>2. Neutral(calls, calls', Calls, LevelAsked)
    BY <1>0, <2>1, CalledNeutral DEF LevelAsked
  <2> QED
    BY <1>a, <2>1, <2>2, TrustPassing
<1>5. CASE MessageReceived \/ (\E i \in Ids : PendingMessagesRemoved(i)) \/ Notice
            \/ onPendingSendFinished
  <2>1. /\ UNCHANGED <<level, calls, posted, mode, trustLevel, outdated>>
        /\ link' = link \/ \E x \in Items : x \notin LevelItems /\ Signal(x)
    <3>1. CASE MessageReceived
      <4> DEFINE x == [kind |-> "MessageReceived", id |-> arrived + 1]
      <4>1. Signal(x) /\ arrived < MaxMsgs
        BY <3>1 DEF MessageReceived
      <4>2. x \in Items /\ x \notin LevelItems
        BY <4>1, InvParts, AdapterAssumption DEF Items, Ids, LevelItems, LevelSignals, LevelReplies
      <4> HIDE DEF x
      <4> QED
        BY <3>1, <4>1, <4>2 DEF MessageReceived, sessionVars, adapterVars, trustVars
    <3>2. ASSUME NEW i \in Ids, PendingMessagesRemoved(i)
          PROVE  /\ UNCHANGED <<level, calls, posted, mode, trustLevel, outdated>>
                 /\ \E x \in Items : x \notin LevelItems /\ Signal(x)
      <4> DEFINE x == [kind |-> "PendingMessagesRemoved", id |-> i]
      <4>2. x \in Items /\ x \notin LevelItems
        BY DEF Items, LevelItems, LevelSignals, LevelReplies
      <4>3. Signal(x)
        BY <3>2 DEF PendingMessagesRemoved
      <4> HIDE DEF x
      <4> QED
        BY <3>2, <4>2, <4>3 DEF PendingMessagesRemoved, sessionVars, adapterVars, trustVars
    <3>3. CASE Notice
      <4>1. [kind |-> "Notice"] \in Items /\ [kind |-> "Notice"] \notin LevelItems
        BY DEF Items, LevelItems, LevelSignals, LevelReplies
      <4> QED
        BY <3>3, <4>1 DEF Notice, proxyVars, sessionVars, trustVars
    <3>4. CASE onPendingSendFinished
      <4>1. [kind |-> "MessageSent"] \in Items /\ [kind |-> "MessageSent"] \notin LevelItems
        BY DEF Items, LevelItems, LevelSignals, LevelReplies
      <4> QED
        BY <3>4, <4>1 DEF onPendingSendFinished, sessionVars, adapterVars, trustVars
    <3> QED
      BY <1>5, <3>1, <3>2, <3>3, <3>4
  <2>2. CASE link' = link
    BY <1>a, <2>1, <2>2, TrustPassing
  <2>3. ASSUME NEW x \in Items, x \notin LevelItems, Signal(x) PROVE TrustInv'
    BY <1>a, <1>b, <2>1, <2>3, TrustPassing
  <2> QED
    BY <2>1, <2>2, <2>3
<1>6. CASE onMessageReceived \/ onNoticeReceived \/ onPendingMessagesRemoved \/ onMessageSent
  <2>1. \E kind : /\ kind \notin {"TrustLevelChanged", "TrustLevel"}
                  /\ Arriving(kind)
    BY <1>6 DEF onMessageReceived, onNoticeReceived, onPendingMessagesRemoved, onMessageSent
  <2>2. UNCHANGED <<level, posted, mode, trustLevel, outdated>>
    BY <1>6 DEF onMessageReceived, onNoticeReceived, onPendingMessagesRemoved, onMessageSent,
        proxyVars, sessionVars, adapterVars, trustVars
  <2>3. Neutral(calls, calls', Calls, LevelAsked)
    <3>1. CASE onMessageReceived
      <4>1. Head(link).id \in Ids
        BY <3>1, LinkTaken DEF onMessageReceived, Items
      <4>2. Neutral(calls, Announced({Head(link).id}), Calls, LevelAsked)
        BY <1>0, <4>1, AnnouncedHas DEF LevelAsked, Inv
      <4> QED
        BY <1>a, <3>1, <4>2 DEF onMessageReceived
    <3>2. CASE ~onMessageReceived
      <4>1. calls' \in {calls, Append(calls, Acknowledgement(messages))}
        BY <1>6, <3>2 DEF onNoticeReceived, onPendingMessagesRemoved, onMessageSent, acknowledge
      <4> QED
        BY <1>0, <4>1, AcknowledgementNeutral DEF LevelAsked
    <3> QED
      BY <3>1, <3>2
  <2> QED
    BY <1>a, <1>c, <2>1, <2>2, <2>3, TrustPassing
<1>7. ASSUME NEW name \in Properties, ReplyArrives(name) PROVE TrustInv'
  <2>1. CASE name = "TrustLevel"
    BY <1>7, <2>1, TrustReplied
  <2>2. CASE name # "TrustLevel"
    <3>1. /\ Arriving(name) /\ posted' = Append(posted, Head(link))
          /\ UNCHANGED <<calls, level, mode, trustLevel, outdated>>
      BY <1>7 DEF ReplyArrives, proxyVars, sessionVars, adapterVars, trustVars
    <3>2. Head(link) \in Items /\ Head(link) \notin LevelReplies
      BY <2>2, <3>1, LinkTaken DEF LevelReplies
    <3>3. Neutral(posted, posted', Items, LevelReplies)
      BY <3>1, <3>2 DEF Neutral
    <3>4. name \notin {"TrustLevelChanged", "TrustLevel"}
      BY <2>2 DEF Properties
    <3> QED
      BY <1>a, <1>c, <3>1, <3>3, <3>4, TrustPassing
  <2> QED
    BY <2>1, <2>2
<1>8. CASE onPendingMessagesPropertyGet
  <2>1. /\ Finished("PendingMessages") /\ calls' = Announced(Head(posted).ids \ messages)
        /\ UNCHANGED <<level, link, mode, trustLevel, outdated>>
    BY <1>8 DEF onPendingMessagesPropertyGet, proxyVars, sessionVars, trustVars
  <2>2. Head(posted).ids \subseteq Ids
    BY <2>1, FinishedKeeps DEF Items
  <2>3. Neutral(calls, calls', Calls, LevelAsked)
    BY <1>0, <2>1, <2>2, AnnouncedHas DEF LevelAsked, Inv
  <2>4. Neutral(posted, posted', Items, LevelReplies)
    BY <2>1, FinishedNeutral DEF LevelReplies
  <2> QED
    BY <1>a, <2>1, <2>3, <2>4, TrustPassing
<1>9. CASE onRemoteFingerprintPropertyGet
  <2>1. /\ Finished("RemoteFingerprint")
        /\ UNCHANGED <<level, calls, link, mode, trustLevel, outdated>>
    BY <1>9 DEF onRemoteFingerprintPropertyGet, proxyVars, sessionVars
  <2>4. Neutral(posted, posted', Items, LevelReplies)
    BY <2>1, FinishedNeutral DEF LevelReplies
  <2> QED
    BY <1>a, <2>1, <2>4, TrustPassing
<1>10. CASE setVisibleToUser
  <2>1. /\ calls' \in {calls, Append(calls, Acknowledgement(messages))}
        /\ UNCHANGED <<level, link, posted, mode, trustLevel, outdated>>
    BY <1>10 DEF setVisibleToUser, acknowledge, proxyVars, sessionVars, trustVars
  <2>2. Neutral(calls, calls', Calls, LevelAsked)
    BY <1>0, <2>1, AcknowledgementNeutral DEF LevelAsked
  <2> QED
    BY <1>a, <2>1, <2>2, TrustPassing
<1>11. CASE send
  <2>1. /\ calls' = Append(calls, [op |-> "SendMessage"])
        /\ UNCHANGED <<level, link, posted, mode, trustLevel, outdated>>
    BY <1>11 DEF send, proxyVars, sessionVars, trustVars
  <2>2. [op |-> "SendMessage"] \in Calls /\ [op |-> "SendMessage"] \notin LevelAsked
    BY DEF Calls, LevelAsked, Asking
  <2>3. Neutral(calls, calls', Calls, LevelAsked)
    BY <2>1, <2>2 DEF Neutral
  <2> QED
    BY <1>a, <2>1, <2>3, TrustPassing
<1> QED
  BY <1>1, <1>2, <1>3, <1>4, <1>5, <1>6, <1>7, <1>8, <1>9, <1>10, <1>11
     DEF AdapterNext, ProxyStep, AdapterStep

(***************************************************************************)
(* The fingerprint.                                                        *)
(***************************************************************************)

\* Steps that do not move a fingerprint; more queries may be made.
LEMMA FpPassing ==
    ASSUME Inv, FpInv,
           UNCHANGED <<level, fp, remoteFp>>, mode' = "otr" => mode = "otr",
           Has(calls, FpAsked) => Has(calls', FpAsked),
           Neutral(link, link', Items, LevelSignals),
           Neutral(link, link', Items, FpReplies),
           Neutral(posted, posted', Items, FpReplies)
    PROVE  FpInv'
<1>0. link \in Seq(Items) /\ posted \in Seq(Items)
  BY InvParts
<1>1. /\ Has(link', LevelSignals) <=> Has(link, LevelSignals)
      /\ LastIn(link', LevelSignals, WithLevel(level))
  BY <1>0, NeutralKeeps DEF FpInv
<1>2. /\ Has(link', FpReplies) <=> Has(link, FpReplies)
      /\ \A T : LastIn(link, FpReplies, T) => LastIn(link', FpReplies, T)
  BY <1>0, NeutralKeeps
<1>3. /\ Has(posted', FpReplies) <=> Has(posted, FpReplies)
      /\ \A T : LastIn(posted, FpReplies, T) => LastIn(posted', FpReplies, T)
  BY <1>0, NeutralKeeps
<1> QED
  BY <1>1, <1>2, <1>3 DEF FpInv

\* A change of the level, or of the peer, is signalled.
LEMMA FpChanged ==
    ASSUME Inv, Idle, FpInv, NEW l \in PeerLevels, NEW f, TrustLevelChanged(l, f)
    PROVE  FpInv'
<1> DEFINE x == [kind |-> "TrustLevelChanged", level |-> l]
<1>0. link \in Seq(Items)
  BY InvParts
<1>1. level' = l /\ Signal(x) /\ mode' = mode
  BY DEF TrustLevelChanged, adapterVars
<1>2. CASE mode = "otr"
  <2>1. link' = Append(link, x) /\ x \in Items /\ x \in LevelSignals /\ x \in WithLevel(l)
    BY <1>1, <1>2 DEF Signal, Items, LevelSignals, LevelItems, WithLevel
  <2> HIDE DEF x
  <2>2. Has(link', LevelSignals) /\ LastIn(link', LevelSignals, WithLevel(l))
    BY <1>0, <2>1, HasAppend, LastAppend
  <2> QED
    BY <1>1, <2>2 DEF FpInv
<1>3. CASE mode # "otr"
  BY <1>1, <1>3 DEF Idle, Signal, FpInv, LastIn
<1> QED
  BY <1>2, <1>3

\* The proxy answers with the fingerprint.
LEMMA FpAnswered == Inv /\ Idle /\ FpInv /\ GetProperty("RemoteFingerprint") => FpInv'
<1> SUFFICES ASSUME Inv, Idle, FpInv, GetProperty("RemoteFingerprint") PROVE FpInv'
  OBVIOUS
<1> DEFINE x == [kind |-> "RemoteFingerprint", fp |-> fp]
<1>0. calls \in Seq(Calls) /\ link \in Seq(Items) /\ fp \in Fps
  BY InvParts
<1>1. /\ Called("RemoteFingerprint") /\ Signal(x)
      /\ UNCHANGED <<level, fp, mode>>
  BY DEF GetProperty, Property, proxyVars, sessionVars, adapterVars
<1>2. link' = Append(link, x) /\ x \in Items /\ x \notin LevelSignals /\ x \in FpReplies /\ x \in WithFp(fp)
  BY <1>0, <1>1 DEF Called, Idle, Signal, Items, LevelSignals, FpReplies, WithFp
<1> HIDE DEF x
<1>3. /\ Has(link', FpReplies) /\ LastIn(link', FpReplies, WithFp(fp))
      /\ LastIn(link', LevelSignals, WithLevel(level))
  BY <1>0, <1>2, HasAppend, LastAppend DEF FpInv
<1> QED
  BY <1>1, <1>3 DEF FpInv

\* A change of the level is handled: in a private conversation the fingerprint is asked again.
LEMMA FpTaken == Inv /\ FpInv /\ onTrustLevelSignal => FpInv'
<1> SUFFICES ASSUME Inv, FpInv, onTrustLevelSignal PROVE FpInv'
  OBVIOUS
<1> DEFINE l == Head(link).level
<1>0. calls \in Seq(Calls) /\ link \in Seq(Items)
  BY InvParts
<1>1. /\ Arriving("TrustLevelChanged")
      /\ calls' = calls \o FingerprintQueries(trustLevel, l)
      /\ UNCHANGED <<level, fp, mode>>
  BY DEF onTrustLevelSignal, proxyVars, sessionVars
<1>2. link # <<>> /\ link' = Tail(link) /\ Head(link) \in LevelSignals
  BY <1>1, LinkTaken DEF Arriving, LevelSignals
<1>3. /\ LastIn(link', LevelSignals, WithLevel(level))
      /\ Has(link', LevelSignals) \/ Head(link) \in WithLevel(level)
  BY <1>0, <1>2, LastTail DEF FpInv
<1>4. l \in Private => Has(calls', FpAsked)
  BY <1>0, <1>1, FingerprintQueried, HasConcat
<1>5. ~Has(link', LevelSignals) /\ level \in Private => Has(calls', FpAsked)
  BY <1>3, <1>4 DEF WithLevel
<1> QED
  BY <1>1, <1>3, <1>5 DEF FpInv

\* The reply with the fingerprint arrives.
LEMMA FpReplied == Inv /\ FpInv /\ ReplyArrives("RemoteFingerprint") => FpInv'
<1> SUFFICES ASSUME Inv, FpInv, ReplyArrives("RemoteFingerprint") PROVE FpInv'
  OBVIOUS
<1> DEFINE x == Head(link)
<1>0. link \in Seq(Items) /\ posted \in Seq(Items)
  BY InvParts
<1>1. /\ Arriving("RemoteFingerprint") /\ posted' = Append(posted, x)
      /\ UNCHANGED <<calls, level, fp, mode, remoteFp>>
  BY DEF ReplyArrives, proxyVars, sessionVars, adapterVars, trustVars
<1>2. link # <<>> /\ link' = Tail(link) /\ x \in Items /\ x \in FpReplies /\ x \notin LevelSignals
  BY <1>1, LinkTaken DEF Arriving, LevelSignals, FpReplies
<1> HIDE DEF x
<1>3. /\ LastIn(link', LevelSignals, WithLevel(level))
      /\ Has(link', LevelSignals) <=> Has(link, LevelSignals)
      /\ \A T : LastIn(link, FpReplies, T) =>
                  LastIn(link', FpReplies, T) /\ (Has(link', FpReplies) \/ x \in T)
  BY <1>0, <1>2, HasTail, LastTail DEF FpInv, x
<1>4. /\ Has(posted', FpReplies)
      /\ \A T : x \in T => LastIn(posted', FpReplies, T)
  BY <1>0, <1>1, <1>2, HasAppend, LastAppend
<1> QED
  BY <1>1, <1>3, <1>4 DEF FpInv

\* It is shown.
LEMMA FpShown == Inv /\ FpInv /\ onRemoteFingerprintPropertyGet => FpInv'
<1> SUFFICES ASSUME Inv, FpInv, onRemoteFingerprintPropertyGet PROVE FpInv'
  OBVIOUS
<1> DEFINE x == Head(posted)
<1>0. posted \in Seq(Items)
  BY InvParts
<1>1. /\ Finished("RemoteFingerprint") /\ remoteFp' = x.fp
      /\ UNCHANGED <<calls, link, level, fp, mode>>
  BY DEF onRemoteFingerprintPropertyGet, proxyVars, sessionVars
<1>2. posted # <<>> /\ posted' = Tail(posted) /\ x \in FpReplies
  BY <1>1, FinishedKeeps DEF Finished, FpReplies
<1>3. \A T : LastIn(posted, FpReplies, T) =>
                LastIn(posted', FpReplies, T) /\ (Has(posted', FpReplies) \/ x \in T)
  BY <1>0, <1>2, LastTail
<1> HIDE DEF x
<1>4. x \in WithFp(fp) => remoteFp' = fp
  BY <1>1 DEF WithFp
<1> QED
  BY <1>1, <1>3, <1>4 DEF FpInv

\* Every step keeps what is said of the fingerprint.
LEMMA FpKept == Inv /\ Idle /\ FpInv /\ AdapterNext => FpInv'
<1> SUFFICES ASSUME Inv, Idle, FpInv, AdapterNext PROVE FpInv'
  OBVIOUS
<1>0. /\ "RemoteFingerprint" \in Properties
      /\ calls \in Seq(Calls) /\ link \in Seq(Items) /\ posted \in Seq(Items)
  BY InvParts DEF Properties
<1>a. \A s, A, S : Neutral(s, s, A, S)
  BY DEF Neutral
<1>b. ASSUME NEW x \in Items, x.kind \notin {"TrustLevelChanged", "RemoteFingerprint"}, Signal(x)
      PROVE  Neutral(link, link', Items, LevelSignals) /\ Neutral(link, link', Items, FpReplies)
  BY <1>b, SignalNeutral DEF LevelSignals, FpReplies
<1>c. ASSUME NEW kind, kind \notin {"TrustLevelChanged", "RemoteFingerprint"}, Arriving(kind)
      PROVE  Neutral(link, link', Items, LevelSignals) /\ Neutral(link, link', Items, FpReplies)
  BY <1>c, ArrivingNeutral DEF LevelSignals, FpReplies
<1>1. CASE onTrustLevelSignal \/ onRemoteFingerprintPropertyGet
  BY <1>1, FpTaken, FpShown
<1>2. ASSUME NEW l \in PeerLevels, NEW f \in PeerFps \cup {NoPeerFp}, TrustLevelChanged(l, f)
      PROVE  FpInv'
  BY <1>2, FpChanged
<1>3. ASSUME NEW name \in Properties, GetProperty(name) PROVE FpInv'
  <2>1. CASE name = "RemoteFingerprint"
    BY <1>3, <2>1, FpAnswered
  <2>2. CASE name # "RemoteFingerprint"
    <3>1. /\ Called(name) /\ Signal(Property(name))
          /\ UNCHANGED <<level, fp, posted, mode, remoteFp>>
      BY <1>3 DEF GetProperty, proxyVars, sessionVars, adapterVars, trustVars
    <3>2. Property(name) \in Items /\ Property(name).kind \notin {"TrustLevelChanged", "RemoteFingerprint"}
      <4>1. pending \subseteq Ids
        BY InvParts, AdapterAssumption DEF Ids
      <4> QED
        BY <2>2, <4>1, InvParts DEF Property, Items, Properties
    <3>3. Has(calls, FpAsked) => Has(calls', FpAsked)
      BY <1>0, <2>2, <3>1, CalledNeutral, NeutralKeeps DEF FpAsked
    <3> QED
      BY <1>a, <1>b, <3>1, <3>2, <3>3, FpPassing
  <2> QED
    BY <2>1, <2>2
<1>4. CASE sendMessage \/ acknowledgePendingMessages
  <2>1. /\ Called("SendMessage") \/ Called("AcknowledgePendingMessages")
        /\ UNCHANGED <<level, fp, link, posted, mode, remoteFp>>
    BY <1>4 DEF sendMessage, acknowledgePendingMessages, sessionVars, adapterVars, trustVars
  <2>2. Has(calls, FpAsked) => Has(calls', FpAsked)
    BY <1>0, <2>1, CalledNeutral, NeutralKeeps DEF FpAsked
  <2> QED
    BY <1>a, <2>1, <2>2, FpPassing
<1>5. CASE MessageReceived \/ (\E i \in Ids : PendingMessagesRemoved(i)) \/ Notice
            \/ onPendingSendFinished
  <2>1. /\ UNCHANGED <<level, fp, calls, posted, mode, remoteFp>>
        /\ \/ link' = link
           \/ \E x \in Items : x.kind \notin {"TrustLevelChanged", "RemoteFingerprint"} /\ Signal(x)
    <3>1. CASE MessageReceived
      <4> DEFINE x == [kind |-> "MessageReceived", id |-> arrived + 1]
      <4>1. Signal(x) /\ arrived < MaxMsgs
        BY <3>1 DEF MessageReceived
      <4>2. x \in Items /\ x.kind = "MessageReceived"
        BY <4>1, InvParts, AdapterAssumption DEF Items, Ids
      <4> HIDE DEF x
      <4> QED
        BY <3>1, <4>1, <4>2 DEF MessageReceived, sessionVars, adapterVars, trustVars
    <3>2. ASSUME NEW i \in Ids, PendingMessagesRemoved(i)
          PROVE  /\ UNCHANGED <<level, fp, calls, posted, mode, remoteFp>>
                 /\ \E x \in Items : x.kind \notin {"TrustLevelChanged", "RemoteFingerprint"} /\ Signal(x)
      <4> DEFINE x == [kind |-> "PendingMessagesRemoved", id |-> i]
      <4>2. x \in Items /\ x.kind = "PendingMessagesRemoved"
        BY DEF Items
      <4>3. Signal(x)
        BY <3>2 DEF PendingMessagesRemoved
      <4> HIDE DEF x
      <4> QED
        BY <3>2, <4>2, <4>3 DEF PendingMessagesRemoved, sessionVars, adapterVars, trustVars
    <3>3. CASE Notice
      <4>1. [kind |-> "Notice"] \in Items
        BY DEF Items
      <4> QED
        BY <3>3, <4>1 DEF Notice, proxyVars, sessionVars, trustVars
    <3>4. CASE onPendingSendFinished
      <4>1. [kind |-> "MessageSent"] \in Items
        BY DEF Items
      <4> QED
        BY <3>4, <4>1 DEF onPendingSendFinished, sessionVars, adapterVars, trustVars
    <3> QED
      BY <1>5, <3>1, <3>2, <3>3, <3>4
  <2>2. CASE link' = link
    BY <1>a, <2>1, <2>2, FpPassing
  <2>3. ASSUME NEW x \in Items, x.kind \notin {"TrustLevelChanged", "RemoteFingerprint"}, Signal(x)
        PROVE  FpInv'
    BY <1>a, <1>b, <2>1, <2>3, FpPassing
  <2> QED
    BY <2>1, <2>2, <2>3
<1>6. CASE onMessageReceived \/ onNoticeReceived \/ onPendingMessagesRemoved \/ onMessageSent
  <2>1. \E kind : /\ kind \notin {"TrustLevelChanged", "RemoteFingerprint"}
                  /\ Arriving(kind)
    BY <1>6 DEF onMessageReceived, onNoticeReceived, onPendingMessagesRemoved, onMessageSent
  <2>2. UNCHANGED <<level, fp, posted, mode, remoteFp>>
    BY <1>6 DEF onMessageReceived, onNoticeReceived, onPendingMessagesRemoved, onMessageSent,
        proxyVars, sessionVars, adapterVars, trustVars
  <2>3. Has(calls, FpAsked) => Has(calls', FpAsked)
    <3>1. CASE onMessageReceived
      <4>1. Head(link).id \in Ids
        BY <3>1, LinkTaken DEF onMessageReceived, Items
      <4>2. Has(calls, FpAsked) => Has(Announced({Head(link).id}), FpAsked)
        BY <4>1, AnnouncedHas DEF Inv
      <4> QED
        BY <3>1, <4>2 DEF onMessageReceived
    <3>2. CASE ~onMessageReceived
      <4>1. calls' \in {calls, Append(calls, Acknowledgement(messages))}
        BY <1>6, <3>2 DEF onNoticeReceived, onPendingMessagesRemoved, onMessageSent, acknowledge
      <4> QED
        BY <4>1, AcknowledgementNeutral
    <3> QED
      BY <3>1, <3>2
  <2> QED
    BY <1>a, <1>c, <2>1, <2>2, <2>3, FpPassing
<1>7. ASSUME NEW name \in Properties, ReplyArrives(name) PROVE FpInv'
  <2>1. CASE name = "RemoteFingerprint"
    BY <1>7, <2>1, FpReplied
  <2>2. CASE name # "RemoteFingerprint"
    <3>1. /\ Arriving(name) /\ posted' = Append(posted, Head(link))
          /\ UNCHANGED <<calls, level, fp, mode, remoteFp>>
      BY <1>7 DEF ReplyArrives, proxyVars, sessionVars, adapterVars, trustVars
    <3>2. Head(link) \in Items /\ Head(link) \notin FpReplies
      BY <2>2, <3>1, LinkTaken DEF FpReplies
    <3>3. Neutral(posted, posted', Items, FpReplies)
      BY <3>1, <3>2 DEF Neutral
    <3>4. name \notin {"TrustLevelChanged", "RemoteFingerprint"}
      BY <2>2 DEF Properties
    <3> QED
      BY <1>a, <1>c, <3>1, <3>3, <3>4, FpPassing
  <2> QED
    BY <2>1, <2>2
<1>8. CASE onPendingMessagesPropertyGet
  <2>1. /\ Finished("PendingMessages") /\ calls' = Announced(Head(posted).ids \ messages)
        /\ UNCHANGED <<level, fp, link, mode, remoteFp>>
    BY <1>8 DEF onPendingMessagesPropertyGet, proxyVars, sessionVars, trustVars
  <2>2. Head(posted).ids \subseteq Ids
    BY <2>1, FinishedKeeps DEF Items
  <2>3. Has(calls, FpAsked) => Has(calls', FpAsked)
    BY <2>1, <2>2, AnnouncedHas DEF Inv
  <2>4. Neutral(posted, posted', Items, FpReplies)
    BY <2>1, FinishedNeutral DEF FpReplies
  <2> QED
    BY <1>a, <2>1, <2>3, <2>4, FpPassing
<1>9. CASE onTrustLevelPropertyGet
  <2>1. /\ Finished("TrustLevel")
        /\ UNCHANGED <<level, fp, calls, link, mode, remoteFp>>
    BY <1>9 DEF onTrustLevelPropertyGet, proxyVars, sessionVars
  <2>4. Neutral(posted, posted', Items, FpReplies)
    BY <2>1, FinishedNeutral DEF FpReplies
  <2> QED
    BY <1>a, <2>1, <2>4, FpPassing
<1>10. CASE setVisibleToUser
  <2>1. /\ calls' \in {calls, Append(calls, Acknowledgement(messages))}
        /\ UNCHANGED <<level, fp, link, posted, mode, remoteFp>>
    BY <1>10 DEF setVisibleToUser, acknowledge, proxyVars, sessionVars, trustVars
  <2> QED
    BY <1>a, <2>1, AcknowledgementNeutral, FpPassing
<1>11. CASE send
  <2>1. /\ calls' = Append(calls, [op |-> "SendMessage"])
        /\ UNCHANGED <<level, fp, link, posted, mode, remoteFp>>
    BY <1>11 DEF send, proxyVars, sessionVars, trustVars
  <2>2. [op |-> "SendMessage"] \in Calls
    BY DEF Calls
  <2>3. Has(calls, FpAsked) => Has(calls', FpAsked)
    BY <1>0, <2>1, <2>2, HasAppend
  <2> QED
    BY <1>a, <2>1, <2>3, FpPassing
<1>12. CASE setChannel
  <2>1. /\ mode' = "text" \/ (mode' = "otr" /\ calls' = Queries)
        /\ UNCHANGED <<link, level>>
    BY <1>12 DEF setChannel, proxyVars, sessionVars
  <2>2. Has(Queries, FpAsked)
    <3>1. Len(Queries) = 3 /\ Queries[3] \in FpAsked
      BY DEF Queries, Request, FpAsked, Asking, Calls, Properties
    <3> QED
      BY <3>1 DEF Has
  <2> QED
    BY <2>1, <2>2 DEF FpInv
<1> QED
  BY <1>1, <1>2, <1>3, <1>4, <1>5, <1>6, <1>7, <1>8, <1>9, <1>10, <1>11, <1>12
     DEF AdapterNext, ProxyStep, AdapterStep

(***************************************************************************)
(* The acknowledgements of a visible chat.                                 *)
(***************************************************************************)

\* Steps that show no message and take no acknowledgement.
LEMMA AckPassing ==
    ASSUME AckInv,
           mode' = mode, visible' = visible,
           pending' \subseteq pending, messages' \subseteq messages,
           \A i \in pending' : i \in acking \cup refused => i \in acking' \cup refused',
           \A i : Has(calls, Acknowledging(i)) => Has(calls', Acknowledging(i))
    PROVE  AckInv'
BY DEF AckInv

\* The proxy acknowledges the messages, or refuses all of them.
LEMMA AckTaken == Inv /\ AckInv /\ acknowledgePendingMessages => AckInv'
<1> SUFFICES ASSUME Inv, AckInv, acknowledgePendingMessages PROVE AckInv'
  OBVIOUS
<1> DEFINE ids == Head(calls).ids
<1>1. /\ Called("AcknowledgePendingMessages")
      /\ acking \cup ids \subseteq acking' \cup refused' \/ ids \subseteq refused'
      /\ acking \subseteq acking' /\ refused \subseteq refused'
      /\ UNCHANGED <<pending, mode, visible, messages>>
  BY DEF acknowledgePendingMessages, adapterVars, queueVars
<1>2. \A i : Has(calls, Acknowledging(i)) => i \in ids \/ Has(calls', Acknowledging(i))
  <2>1. calls # <<>> /\ calls' = Tail(calls) /\ calls \in Seq(Calls)
    BY <1>1, InvParts DEF Called
  <2> QED
    BY <2>1, HasTail DEF Acknowledging
<1> HIDE DEF ids
<1> QED
  BY <1>1, <1>2 DEF AckInv

\* A new message is not in the adapter's queue yet.
LEMMA AckReceived == Inv /\ QueueInv /\ AckInv /\ MessageReceived => AckInv'
<1> SUFFICES ASSUME Inv, QueueInv, AckInv, MessageReceived, mode = "otr" PROVE AckInv'
  BY DEF AckInv, MessageReceived, adapterVars
<1>1. /\ arrived < MaxMsgs /\ pending' = pending \cup {arrived + 1}
      /\ UNCHANGED <<acking, refused, calls, mode, visible, messages>>
  BY DEF MessageReceived, ackVars, adapterVars, queueVars
<1>2. arrived + 1 \in Ids /\ arrived + 1 \notin pending /\ arrived + 1 \notin gone
  BY <1>1, InvParts, AdapterAssumption DEF Ids
<1>3. ~Has(link, Removals(arrived + 1))
  <2>1. \A k \in 1 .. Len(link) : link[k].kind \in Naming => link[k].id <= arrived
    BY InvParts DEF Ordered
  <2> QED
    BY <2>1, InvParts DEF Has, Removals, Naming
<1>4. arrived + 1 \notin messages
  BY <1>2, <1>3 DEF QueueInv, Leaving
<1> QED
  BY <1>1, <1>4 DEF AckInv

\* A message is shown; a visible chat acknowledges it.
LEMMA AckAnnounced == Inv /\ AckInv /\ onMessageReceived => AckInv'
<1> SUFFICES ASSUME Inv, AckInv, onMessageReceived PROVE AckInv'
  OBVIOUS
<1> DEFINE n == Head(link).id
<1>1. /\ Arriving("MessageReceived") /\ messages' = messages \cup {n}
      /\ calls' = IF n \in messages THEN calls ELSE Announced({n})
      /\ UNCHANGED <<pending, acking, refused, mode, visible>>
  BY DEF onMessageReceived, proxyVars, ackVars
<1>2. n \in Ids
  BY <1>1, LinkTaken DEF Items
<1> HIDE DEF n
<1>3. \A i : Has(calls, Acknowledging(i)) => Has(calls', Acknowledging(i))
  BY <1>1, <1>2, AnnouncedHas DEF Inv
<1>4. visible => n \in messages \/ Has(calls', Acknowledging(n))
  BY <1>1, <1>2, AnnouncedHas DEF Inv
<1> QED
  BY <1>1, <1>3, <1>4 DEF AckInv

\* So it does with the first contents.
LEMMA AckFilled == Inv /\ AckInv /\ onPendingMessagesPropertyGet => AckInv'
<1> SUFFICES ASSUME Inv, AckInv, onPendingMessagesPropertyGet PROVE AckInv'
  OBVIOUS
<1> DEFINE ids == Head(posted).ids \ messages
<1>1. /\ Finished("PendingMessages") /\ messages' = messages \cup ids
      /\ calls' = Announced(ids)
      /\ UNCHANGED <<pending, acking, refused, mode, visible>>
  BY DEF onPendingMessagesPropertyGet, proxyVars, ackVars
<1>2. ids \in SUBSET Ids
  BY <1>1, FinishedKeeps DEF Items
<1> HIDE DEF ids
<1>3. \A i : Has(calls, Acknowledging(i)) => Has(calls', Acknowledging(i))
  BY <1>1, <1>2, AnnouncedHas DEF Inv
<1>4. visible => \A i \in ids : Has(calls', Acknowledging(i))
  BY <1>1, <1>2, AnnouncedHas DEF Inv
<1> QED
  BY <1>1, <1>3, <1>4 DEF AckInv

\* A chat that is shown acknowledges its whole queue.
LEMMA AckShown == Inv /\ AckInv /\ setVisibleToUser => AckInv'
<1> SUFFICES ASSUME Inv, AckInv, setVisibleToUser, visible' PROVE AckInv'
  BY DEF AckInv
<1>1. /\ messages = {} \/ calls' = Append(calls, Acknowledgement(messages))
      /\ UNCHANGED <<pending, mode, messages>>
  BY DEF setVisibleToUser, messageQueueEmpty, acknowledge, proxyVars, queueVars
<1>2. calls \in Seq(Calls) /\ Acknowledgement(messages) \in Calls
  BY InvParts DEF Acknowledgement, Calls
<1>3. \A i \in messages : Acknowledgement(messages) \in Acknowledging(i)
  BY <1>2 DEF Acknowledgement, Acknowledging
<1>4. ASSUME NEW i \in messages PROVE Has(calls', Acknowledging(i))
  <2>1. calls' = Append(calls, Acknowledgement(messages))
    BY <1>1, <1>4
  <2> QED
    BY <1>2, <1>3, <1>4, <2>1, HasAppend
<1> QED
  BY <1>1, <1>4 DEF AckInv

\* Every step keeps what is said of the acknowledgements.
LEMMA AckKept == Inv /\ Idle /\ QueueInv /\ AckInv /\ AdapterNext => AckInv'
<1> SUFFICES ASSUME Inv, Idle, QueueInv, AckInv, AdapterNext PROVE AckInv'
  OBVIOUS
<1>0. calls \in Seq(Calls)
  BY InvParts
<1>1. CASE acknowledgePendingMessages \/ MessageReceived \/ onMessageReceived
            \/ onPendingMessagesPropertyGet \/ setVisibleToUser
  BY <1>1, AckTaken, AckReceived, AckAnnounced, AckFilled, AckShown
<1>2. CASE setChannel
  <2>1. mode = "new" /\ messages' = messages
    BY <1>2 DEF setChannel, queueVars
  <2>2. messages' = {}
    BY <2>1 DEF Idle
  <2> QED
    BY <2>2 DEF AckInv
<1>3. CASE (\E i \in Ids : PendingMessagesRemoved(i)) \/ onPendingSendFinished \/ Notice
           \/ (\E l \in PeerLevels, f \in PeerFps \cup {NoPeerFp} : TrustLevelChanged(l, f))
  <2>1. /\ pending' \subseteq pending /\ UNCHANGED <<calls, mode, visible, messages>>
        /\ \A i \in pending' : i \in acking \cup refused => i \in acking' \cup refused'
    BY <1>3 DEF PendingMessagesRemoved, onPendingSendFinished, Notice, TrustLevelChanged,
        ackVars, proxyVars, adapterVars, queueVars
  <2> QED
    BY <2>1, AckPassing
<1>4. CASE (\E name \in Properties : GetProperty(name)) \/ sendMessage
  <2>1. /\ \E op : Called(op) /\ op # "AcknowledgePendingMessages"
        /\ UNCHANGED <<pending, acking, refused, mode, visible, messages>>
    BY <1>4 DEF GetProperty, sendMessage, Properties, ackVars, proxyVars, adapterVars, queueVars
  <2> QED
    BY <2>1, CalledNeutral, AckPassing
<1>5. CASE onNoticeReceived \/ onPendingMessagesRemoved \/ onMessageSent
            \/ (\E name \in Properties : ReplyArrives(name))
            \/ onTrustLevelPropertyGet \/ onRemoteFingerprintPropertyGet
  <2>1. /\ UNCHANGED <<pending, acking, refused, mode, visible>> /\ messages' \subseteq messages
        /\ calls' \in {calls, Append(calls, Acknowledgement(messages))}
    BY <1>5 DEF onNoticeReceived, onPendingMessagesRemoved, onMessageSent, ReplyArrives,
        onTrustLevelPropertyGet, onRemoteFingerprintPropertyGet, acknowledge,
        ackVars, proxyVars, adapterVars, queueVars
  <2> QED
    BY <2>1, AcknowledgementNeutral, AckPassing
<1>6. CASE onTrustLevelSignal
  <2>1. /\ calls' = calls \o FingerprintQueries(trustLevel, Head(link).level)
        /\ UNCHANGED <<pending, acking, refused, mode, visible, messages>>
    BY <1>6 DEF onTrustLevelSignal, ackVars, proxyVars, queueVars
  <2> QED
    BY <1>0, <2>1, FingerprintQueried, HasConcat, AckPassing
<1>7. CASE send
  <2>1. /\ calls' = Append(calls, [op |-> "SendMessage"])
        /\ UNCHANGED <<pending, acking, refused, mode, visible, messages>>
    BY <1>7 DEF send, ackVars, proxyVars, queueVars
  <2>2. [op |-> "SendMessage"] \in Calls
    BY DEF Calls
  <2> QED
    BY <1>0, <2>1, <2>2, HasAppend, AckPassing
<1> QED
  BY <1>1, <1>2, <1>3, <1>4, <1>5, <1>6, <1>7 DEF AdapterNext, ProxyStep, AdapterStep

\* The invariant holds initially.
LEMMA CurrentInit == AdapterInit => CurrentInv
<1> SUFFICES ASSUME AdapterInit PROVE CurrentInv
  OBVIOUS
<1>1. Inv
  <2>1. <<>> \in Seq(Calls) /\ <<>> \in Seq(Items) /\ 0 \in 0 .. MaxMsgs
    BY AdapterAssumption
  <2>2. NoPeerFp \in Fps /\ "NOT_PRIVATE" \in PeerLevels
    BY DEF Fps, PeerLevels
  <2>3. Types
    BY <2>1, <2>2 DEF AdapterInit, Types
  <2>4. Ordered(link, gone, arrived)
    BY DEF AdapterInit, Ordered
  <2>5. OneFill(calls, link, posted, filled)
    BY DEF AdapterInit, OneFill, AsksFirst, CarriesOnce, Asks, Carries
  <2> QED
    BY <2>3, <2>4, <2>5 DEF AdapterInit, Inv, Unconnected
<1>2. Idle
  BY DEF AdapterInit, Idle, PeerLevels, Fps
<1>3. QueueInv /\ AckInv
  BY DEF AdapterInit, QueueInv, AckInv
<1>4. TrustInv
  <2>1. calls = <<>> /\ link = <<>> /\ posted = <<>> /\ mode # "otr" /\ outdated = FALSE
    BY DEF AdapterInit
  <2>2. OneLevel
    BY <2>1 DEF OneLevel, Has, Once
  <2>3. Agreeing(link)
    BY <2>1 DEF Agreeing
  <2>4. /\ \A S : ~Has(calls, S) /\ ~Has(link, S) /\ ~Has(posted, S)
        /\ \A S, T : LastIn(link, S, T) /\ FirstIn(link, S, T) /\ LastIn(posted, S, T)
    BY <2>1 DEF Has, LastIn, FirstIn
  <2> QED
    BY <2>1, <2>2, <2>3, <2>4 DEF TrustInv
<1>5. FpInv
  BY DEF AdapterInit, FpInv, LastIn
<1> QED
  BY <1>1, <1>2, <1>3, <1>4, <1>5 DEF CurrentInv

\* Once every signal and reply came, the adapter shows the messages, the trust level
\* and the fingerprint that the proxy has, and a visible chat has acknowledged what it
\* shows: whatever overtook what, for any numbers of messages, changes and calls.
THEOREM AdapterStaysCurrent == AdapterSpec => []AdapterIsCurrent
<1>1. CurrentInv /\ [AdapterNext]_linkVars => CurrentInv'
  <2> SUFFICES ASSUME CurrentInv, [AdapterNext]_linkVars PROVE CurrentInv'
    OBVIOUS
  <2>1. CASE AdapterNext
    BY <2>1, ProxyQueueStep, AdapterQueueStep, UserQueueStep, QueueKept, IdleKept, TrustKept, FpKept,
       AckKept DEF CurrentInv, AdapterNext
  <2>2. CASE UNCHANGED linkVars
    <3>1. UNCHANGED <<arrived, pending, level, fp, acking, refused, calls, link, posted, mode,
                      queueVars, trustVars, visible>>
      BY <2>2 DEF linkVars, proxyVars, adapterVars, sessionVars, ackVars
    <3>2. Inv'
      BY <3>1, InvParts, Passing DEF CurrentInv
    <3>3. Idle' /\ QueueInv' /\ AckInv' /\ FpInv'
      BY <3>1 DEF CurrentInv, Idle, QueueInv, AckInv, FpInv, Awaited, Leaving, queueVars, trustVars
    <3>4. TrustInv'
      BY <3>1 DEF CurrentInv, TrustInv, OneLevel, Settling, trustVars
    <3> QED
      BY <3>2, <3>3, <3>4 DEF CurrentInv
  <2> QED
    BY <2>1, <2>2
<1> QED
  BY <1>1, CurrentInit, CurrentInvImplies, PTL DEF AdapterSpec
=============================================================================
