---------------------------- MODULE DesktopProofs ----------------------------
(* Proofs about the accounts, services, channels and dialogs that share no   *)
(* state, each for any values of its constants.  A theorem is about a        *)
(* component alone: its Init and its Next, without the others that MCDesktop *)
(* puts beside it.                                                           *)
EXTENDS AccountRows, Wallet, ServiceChecker, Migration, JoinRoom, Conversations,
        Pins, ChannelWatcher, ContactActions, Dialogs, SequenceItems, FiniteSetTheorems

(***************************************************************************)
(* The service checker.  What the bus sent last about the service is what  *)
(* it does, and the answer to ListNames says what the signal before it     *)
(* said.                                                                   *)
(***************************************************************************)
Queried == {"ListActivatableNames", "ListNames"}
BusItems == [event : {"ownerChanged"}, old : BOOLEAN, new : BOOLEAN]
                \cup [event : Queried, error : BOOLEAN, contains : BOOLEAN]
OwnerSignals == {x \in BusItems : x.event = "ownerChanged"}
Answers(call) == {x \in BusItems : x.event = call}
Errors(call) == {x \in Answers(call) : x.error = TRUE}
OwnerNews == OwnerSignals \cup Answers("ListNames")

\* News that the service runs, or does not.
Running(b) ==
    {x \in BusItems : /\ x \in OwnerSignals => x.new = b
                      /\ x \in Answers("ListNames") => x.contains = b}

\* An answer that leaves a checker right that saw the service run, if it did.
Fitting(seen) == {x \in BusItems : x \in Answers("ListNames") /\ seen = TRUE => x.contains = TRUE}

\* Answers that are wrong, or errors that nobody noted.
Unsound ==
    {x \in BusItems :
        \/ x \in Answers("ListActivatableNames") /\ x.contains # activatable
        \/ \E call \in Queried : x \in Answers(call) /\ x.error = TRUE /\ call \notin failed}

\* An answer agrees with the news before it.
Consistent(s) ==
    \A j, k \in 1 .. Len(s) :
        /\ j < k /\ s[j] \in OwnerSignals /\ s[k] \in Answers("ListNames")
        /\ \A m \in 1 .. Len(s) : j < m /\ m < k => s[m] \notin OwnerNews
        => s[k].contains = s[j].new

CheckerTypes ==
    /\ owned \in BOOLEAN /\ activatable \in BOOLEAN /\ watching \in BOOLEAN
    /\ serviceAvailable \in BOOLEAN /\ serviceActivatable \in BOOLEAN
    /\ queried \subseteq Queried /\ stream \in Seq(BusItems)

\* Each query is answered once.
OneAnswer(call) ==
    /\ Once(stream, Answers(call))
    /\ call \in queried => ~Has(stream, Answers(call))

CheckerInv ==
    /\ CheckerTypes
    /\ ~Has(stream, Unsound)
    /\ \A call \in Queried : OneAnswer(call)
    /\ ~watching => /\ queried = {} /\ stream = <<>> /\ failed = {}
                    /\ serviceAvailable = FALSE /\ serviceActivatable = FALSE
    /\ LastIn(stream, OwnerNews, Running(owned))
    /\ Consistent(stream)
    /\ FirstIn(stream, OwnerNews, Fitting(serviceAvailable))
    /\ "ListNames" \in queried /\ ~Has(stream, OwnerNews) /\ serviceAvailable = TRUE => owned = TRUE
    /\ /\ watching /\ "ListNames" \notin queried /\ "ListNames" \notin failed
       /\ ~Has(stream, OwnerNews)
       => serviceAvailable = owned
    /\ /\ watching /\ "ListActivatableNames" \notin queried \cup failed
       /\ ~Has(stream, Answers("ListActivatableNames"))
       => serviceActivatable = activatable

\* The parts of the invariant that the steps cite.
LEMMA CheckerParts ==
    ASSUME CheckerInv
    PROVE  /\ stream \in Seq(BusItems) /\ queried \subseteq Queried
           /\ serviceAvailable \in BOOLEAN /\ serviceActivatable \in BOOLEAN
           /\ owned \in BOOLEAN /\ activatable \in BOOLEAN /\ watching \in BOOLEAN
           /\ ~Has(stream, Unsound)
           /\ \A call \in Queried : OneAnswer(call)
           /\ LastIn(stream, OwnerNews, Running(owned))
           /\ Consistent(stream)
           /\ FirstIn(stream, OwnerNews, Fitting(serviceAvailable))
BY DEF CheckerInv, CheckerTypes

\* An answer that says what the last signal before it said is consistent with it.
LEMMA ConsistentAppend ==
    ASSUME NEW s \in Seq(BusItems), NEW x \in BusItems, Consistent(s),
           x \in Answers("ListNames") => LastIn(s, OwnerNews, Running(x.contains))
    PROVE  Consistent(Append(s, x))
<1> DEFINE t == Append(s, x)
<1>1. /\ Len(s) \in Nat /\ Len(t) = Len(s) + 1
      /\ \A i \in 1 .. Len(s) : t[i] = s[i]
      /\ t[Len(s) + 1] = x
  BY AppendProperties
<1> SUFFICES ASSUME NEW j \in 1 .. Len(t), NEW k \in 1 .. Len(t),
                    j < k, t[j] \in OwnerSignals, t[k] \in Answers("ListNames"),
                    \A m \in 1 .. Len(t) : j < m /\ m < k => t[m] \notin OwnerNews
             PROVE  t[k].contains = t[j].new
  BY DEF Consistent
<1> HIDE DEF t
<1>2. CASE k <= Len(s)
  <2>1. j \in 1 .. Len(s) /\ k \in 1 .. Len(s) /\ t[j] = s[j] /\ t[k] = s[k]
    BY <1>1, <1>2
  <2>2. \A m \in 1 .. Len(s) : m \in 1 .. Len(t) /\ t[m] = s[m]
    BY <1>1
  <2>3. \A m \in 1 .. Len(s) : j < m /\ m < k => s[m] \notin OwnerNews
    BY <2>2
  <2> QED
    BY <2>1, <2>3 DEF Consistent
<1>3. CASE ~(k <= Len(s))
  <2>1. k = Len(s) + 1 /\ t[k] = x /\ j \in 1 .. Len(s) /\ t[j] = s[j]
    BY <1>1, <1>3
  <2>2. \A m \in 1 .. Len(s) : j < m => s[m] \notin OwnerNews
    BY <1>1, <2>1
  <2>3. s[j] \in Running(x.contains)
    BY <2>1, <2>2 DEF LastIn, OwnerNews
  <2> QED
    BY <2>1, <2>3 DEF Running
<1> QED
  BY <1>2, <1>3

\* A tail is consistent; the first answer in it says what the head said.
LEMMA ConsistentTail ==
    ASSUME NEW s \in Seq(BusItems), s # <<>>, Consistent(s)
    PROVE  /\ Consistent(Tail(s))
           /\ Head(s) \in OwnerSignals => FirstIn(Tail(s), OwnerNews, Fitting(Head(s).new))
<1> DEFINE t == Tail(s)
<1>1. /\ Len(s) \in Nat /\ Len(s) # 0 /\ Len(t) = Len(s) - 1 /\ Head(s) = s[1]
      /\ t \in Seq(BusItems)
      /\ \A i \in 1 .. Len(t) : t[i] = s[i + 1]
  BY HeadTailProperties
<1>2. \A m \in 1 .. Len(s) : m # 1 => m - 1 \in 1 .. Len(t) /\ s[m] = t[m - 1]
  BY <1>1
<1> HIDE DEF t
<1>3. Consistent(t)
  <2> SUFFICES ASSUME NEW j \in 1 .. Len(t), NEW k \in 1 .. Len(t),
                      j < k, t[j] \in OwnerSignals, t[k] \in Answers("ListNames"),
                      \A m \in 1 .. Len(t) : j < m /\ m < k => t[m] \notin OwnerNews
               PROVE  t[k].contains = t[j].new
    BY DEF Consistent
  <2>1. j + 1 \in 1 .. Len(s) /\ k + 1 \in 1 .. Len(s) /\ s[j + 1] = t[j] /\ s[k + 1] = t[k] /\ j + 1 < k + 1
    BY <1>1
  <2>2. ASSUME NEW m \in 1 .. Len(s), j + 1 < m, m < k + 1 PROVE s[m] \notin OwnerNews
    BY <1>1, <1>2, <2>2
  <2> QED
    BY <2>1, <2>2 DEF Consistent
<1>4. ASSUME Head(s) \in OwnerSignals PROVE FirstIn(t, OwnerNews, Fitting(Head(s).new))
  <2>a. \A k \in 1 .. Len(t) : t[k] \in BusItems
    BY <1>1, ElementOfSeq
  <2> SUFFICES ASSUME NEW k \in 1 .. Len(t), t[k] \in Answers("ListNames"),
                      \A m \in 1 .. Len(t) : m < k => t[m] \notin OwnerNews
               PROVE  t[k].contains = Head(s).new
    BY <2>a DEF FirstIn, Fitting
  <2>1. k + 1 \in 1 .. Len(s) /\ s[k + 1] = t[k] /\ 1 < k + 1 /\ 1 \in 1 .. Len(s)
    BY <1>1
  <2>2. ASSUME NEW m \in 1 .. Len(s), 1 < m, m < k + 1 PROVE s[m] \notin OwnerNews
    BY <1>1, <1>2, <2>2
  <2> QED
    BY <1>1, <1>4, <2>1, <2>2 DEF Consistent
<1> QED
  BY <1>3, <1>4 DEF t

\* The owner changes: the signal is the last news.
LEMMA OwnerChangeKeeps ==
    ASSUME CheckerInv, NEW present \in BOOLEAN, OwnerChanges(present) PROVE CheckerInv'
<1> DEFINE x == [event |-> "ownerChanged", old |-> owned, new |-> present]
<1>1. /\ owned' = present /\ stream' = IF watching THEN Append(stream, x) ELSE stream
      /\ UNCHANGED <<activatable, watching, queried, serviceAvailable, serviceActivatable, failed>>
  BY DEF OwnerChanges
<1>0. stream \in Seq(BusItems)
  BY CheckerParts
<1>2. CASE watching
  <2>1. /\ x \in BusItems /\ x \in OwnerSignals /\ x \in OwnerNews /\ x \in Running(present)
        /\ x \in Fitting(serviceAvailable) /\ x \notin Unsound
        /\ \A call \in Queried : x \notin Answers(call)
    BY CheckerParts DEF BusItems, OwnerSignals, OwnerNews, Running, Answers, Queried, Fitting, Unsound
  <2>2. stream' = Append(stream, x)
    BY <1>1, <1>2
  <2> HIDE DEF x
  <2>h. stream' \in Seq(BusItems) /\ \A S : Has(stream', S) <=> Has(stream, S) \/ x \in S
    BY <1>0, <2>1, <2>2, HasAppend
  <2>3. /\ stream' \in Seq(BusItems) /\ Has(stream', OwnerNews) /\ ~Has(stream', Unsound)
        /\ \A call \in Queried : Has(stream', Answers(call)) <=> Has(stream, Answers(call))
    BY <2>h, <2>1, CheckerParts
  <2>4. \A call \in Queried : Once(stream', Answers(call))
    BY <1>0, <2>1, <2>2, <2>3, CheckerParts, OnceAppend DEF OneAnswer
  <2>5. LastIn(stream', OwnerNews, Running(present))
    BY <1>0, <2>1, <2>2, LastAppend
  <2>6. Consistent(stream')
    BY <1>0, <2>1, <2>2, CheckerParts, ConsistentAppend DEF Queried
  <2>7. FirstIn(stream', OwnerNews, Fitting(serviceAvailable))
    BY <1>0, <2>1, <2>2, CheckerParts, FirstAppend
  <2>8. Unsound' = Unsound
    BY <1>1 DEF Unsound
  <2> QED
    BY <1>1, <1>2, <2>3, <2>4, <2>5, <2>6, <2>7, <2>8 DEF CheckerInv, CheckerTypes, OneAnswer, Queried
<1>3. CASE ~watching
  <2>1. stream = <<>> /\ stream' = stream
    BY <1>1, <1>3 DEF CheckerInv
  <2>2. LastIn(stream', OwnerNews, Running(owned'))
    BY <2>1 DEF LastIn
  <2>3. Unsound' = Unsound
    BY <1>1 DEF Unsound
  <2> QED
    BY <1>1, <1>3, <2>1, <2>2, <2>3 DEF CheckerInv, CheckerTypes, OneAnswer
<1> QED
  BY <1>2, <1>3 DEF CheckerInv, CheckerTypes

\* The bus answers a query, with what is so now.
LEMMA BusAnswerKeeps ==
    ASSUME CheckerInv, NEW call \in Queried, NEW error \in BOOLEAN, BusAnswers(call, error)
    PROVE  CheckerInv'
<1> DEFINE content == IF call = "ListNames" THEN owned ELSE activatable
           x == [event |-> call, error |-> error, contains |-> content]
<1>1. /\ call \in queried /\ queried' = queried \ {call} /\ stream' = Append(stream, x)
      /\ failed' = IF error THEN failed \cup {call} ELSE failed
      /\ UNCHANGED <<owned, activatable, watching, serviceAvailable, serviceActivatable>>
  BY DEF BusAnswers
<1>0. stream \in Seq(BusItems) /\ watching /\ ~Has(stream, Answers(call)) /\ content \in BOOLEAN
  BY <1>1, CheckerParts DEF CheckerInv, OneAnswer
<1>2. x \in BusItems /\ x \in Answers(call) /\ \A other \in Queried : other # call => x \notin Answers(other)
  BY <1>0 DEF BusItems, Answers
<1>3. /\ x \notin OwnerSignals /\ (x \in OwnerNews <=> call = "ListNames")
      /\ x \in Running(owned)
  BY <1>0, <1>2 DEF Answers, OwnerSignals, OwnerNews, Queried, Running
<1>4. call = "ListNames" => x.contains = owned /\ (Has(stream, OwnerNews) \/ x \in Fitting(serviceAvailable))
  BY <1>1, <1>2 DEF Fitting, CheckerInv
<1>5. Unsound' \subseteq Unsound /\ x \notin Unsound'
  <2>1. failed \subseteq failed' /\ (error => call \in failed') /\ activatable' = activatable
    BY <1>1
  <2>2. x.contains = content /\ x.error = error /\ (call = "ListActivatableNames" => content = activatable)
    BY DEF Queried
  <2> HIDE DEF x
  <2> QED
    BY <1>2, <2>1, <2>2 DEF Unsound, Queried
<1> HIDE DEF x, content
<1>6. /\ stream' \in Seq(BusItems)
      /\ \A S : Has(stream', S) <=> Has(stream, S) \/ x \in S
  BY <1>0, <1>1, <1>2, HasAppend
<1>7. ~Has(stream', Unsound')
  BY <1>5, <1>6, CheckerParts DEF Has
<1>8. \A other \in Queried : OneAnswer(other)'
  <2>1. \A other \in Queried : Once(stream', Answers(other))
    BY <1>0, <1>1, <1>2, CheckerParts, OnceAppend DEF OneAnswer
  <2> QED
    BY <1>0, <1>1, <1>2, <1>6, <2>1, CheckerParts DEF OneAnswer
<1>9. LastIn(stream', OwnerNews, Running(owned))
  BY <1>0, <1>1, <1>2, <1>3, CheckerParts, LastAppend
<1>10. Consistent(stream')
  <2>1. x \in Answers("ListNames") => call = "ListNames"
    BY <1>2 DEF Queried
  <2> QED
    BY <1>0, <1>1, <1>2, <1>4, <2>1, CheckerParts, ConsistentAppend
<1>11. FirstIn(stream', OwnerNews, Fitting(serviceAvailable))
  BY <1>0, <1>1, <1>2, <1>3, <1>4, CheckerParts, FirstAppend
<1>12. call = "ListNames" => Has(stream', OwnerNews)
  BY <1>3, <1>6
<1>13. CheckerTypes'
  BY <1>1, <1>6 DEF CheckerInv, CheckerTypes
<1>14. failed \subseteq failed'
  BY <1>1
<1>15. /\ "ListNames" \in queried' /\ ~Has(stream', OwnerNews) /\ serviceAvailable = TRUE => owned = TRUE
       /\ watching /\ "ListNames" \notin queried' \cup failed' /\ ~Has(stream', OwnerNews)
            => serviceAvailable = owned
  BY <1>1, <1>6, <1>12, <1>14 DEF CheckerInv
<1>16. watching /\ "ListActivatableNames" \notin queried' \cup failed'
          /\ ~Has(stream', Answers("ListActivatableNames")) => serviceActivatable = activatable
  BY <1>1, <1>2, <1>6, <1>14 DEF CheckerInv
<1> QED
  BY <1>0, <1>1, <1>7, <1>8, <1>9, <1>10, <1>11, <1>13, <1>15, <1>16 DEF CheckerInv

\* The checker asks.
LEMMA IntrospectKeeps == CheckerInv /\ introspect => CheckerInv'
<1> SUFFICES ASSUME CheckerInv, introspect PROVE CheckerInv'
  OBVIOUS
<1>1. /\ ~watching /\ watching' = TRUE /\ queried' = Queried
      /\ UNCHANGED <<owned, activatable, stream, serviceAvailable, serviceActivatable, failed>>
  BY DEF introspect, Queried
<1>2. stream = <<>> /\ serviceAvailable = FALSE
  BY <1>1 DEF CheckerInv
<1>3. Unsound' = Unsound
  BY <1>1 DEF Unsound
<1> QED
  BY <1>1, <1>2, <1>3 DEF CheckerInv, CheckerTypes, OneAnswer, Has, Queried

\* The first item of the stream is taken.
LEMMA BusItemTaken ==
    ASSUME CheckerInv, NEW event, Next1(event)
    PROVE  /\ Head(stream) \in BusItems /\ Head(stream).event = event /\ watching
           /\ stream' \in Seq(BusItems) /\ Consistent(stream')
           /\ LastIn(stream', OwnerNews, Running(owned))
           /\ Head(stream) \in OwnerNews => Has(stream', OwnerNews) \/ Head(stream) \in Running(owned)
           /\ Head(stream) \in OwnerNews => Head(stream) \in Fitting(serviceAvailable)
           /\ Head(stream) \notin OwnerNews => FirstIn(stream', OwnerNews, Fitting(serviceAvailable))
           /\ Head(stream) \in OwnerSignals => FirstIn(stream', OwnerNews, Fitting(Head(stream).new))
           /\ \A S : Has(stream, S) <=> Head(stream) \in S \/ Has(stream', S)
           /\ \A call \in Queried : Once(stream', Answers(call))
           /\ \A call \in Queried : Head(stream) \in Answers(call) => ~Has(stream', Answers(call))
           /\ Head(stream) \notin Unsound /\ ~Has(stream', Unsound)
<1>1. /\ stream \in Seq(BusItems) /\ stream # <<>> /\ Head(stream).event = event
      /\ stream' = Tail(stream)
  BY CheckerParts DEF Next1
<1>2. /\ Head(stream) \in BusItems /\ stream' \in Seq(BusItems)
      /\ \A S : Has(stream, S) <=> Head(stream) \in S \/ Has(stream', S)
  BY <1>1, HasTail
<1>3. watching
  BY <1>1 DEF CheckerInv
<1>4. /\ LastIn(stream', OwnerNews, Running(owned))
      /\ Head(stream) \in OwnerNews => Has(stream', OwnerNews) \/ Head(stream) \in Running(owned)
  BY <1>1, CheckerParts, LastTail
<1>5. /\ Head(stream) \in OwnerNews => Head(stream) \in Fitting(serviceAvailable)
      /\ Head(stream) \notin OwnerNews => FirstIn(stream', OwnerNews, Fitting(serviceAvailable))
  BY <1>1, CheckerParts, FirstTail
<1>6. /\ Consistent(stream')
      /\ Head(stream) \in OwnerSignals => FirstIn(stream', OwnerNews, Fitting(Head(stream).new))
  BY <1>1, CheckerParts, ConsistentTail
<1>7. /\ \A call \in Queried : Once(stream', Answers(call))
      /\ \A call \in Queried : Head(stream) \in Answers(call) => ~Has(stream', Answers(call))
  BY <1>1, CheckerParts, OnceTail DEF OneAnswer
<1> QED
  BY <1>1, <1>2, <1>3, <1>4, <1>5, <1>6, <1>7, CheckerParts

\* A change of the owner is handled.
LEMMA OwnerSignalKeeps == CheckerInv /\ onServiceOwnerChanged => CheckerInv'
<1> SUFFICES ASSUME CheckerInv, onServiceOwnerChanged PROVE CheckerInv'
  OBVIOUS
<1> DEFINE x == Head(stream)
<1>1. /\ Next1("ownerChanged") /\ serviceAvailable' = x.new
      /\ UNCHANGED <<owned, activatable, watching, queried, serviceActivatable, failed>>
  BY DEF onServiceOwnerChanged, AvailableAfter
<1>a. x \in BusItems /\ x.event = "ownerChanged"
  BY <1>1, BusItemTaken
<1>b. x.new \in BOOLEAN
  BY <1>a DEF BusItems, Queried
<1>2. x \in OwnerSignals /\ x \in OwnerNews /\ x.new \in BOOLEAN /\ \A call \in Queried : x \notin Answers(call)
  <2> HIDE DEF x
  <2>1. x \in OwnerSignals /\ x \in OwnerNews
    BY <1>a DEF OwnerSignals, OwnerNews
  <2>2. \A call \in Queried : x \notin Answers(call)
    BY <1>a DEF Queried, Answers
  <2> QED BY <2>1, <2>2, <1>b
<1>3. Has(stream', OwnerNews) \/ x.new = owned
  BY <1>1, <1>2, BusItemTaken DEF Running
<1>4. FirstIn(stream', OwnerNews, Fitting(serviceAvailable'))
  BY <1>1, <1>2, BusItemTaken
<1>5. \A call \in Queried : Has(stream, Answers(call)) <=> Has(stream', Answers(call))
  BY <1>1, <1>2, BusItemTaken
<1>6. \A call \in Queried : OneAnswer(call)'
  BY <1>1, <1>5, BusItemTaken, CheckerParts DEF OneAnswer
<1>7. Unsound' = Unsound
  BY <1>1 DEF Unsound
<1>8. CheckerTypes'
  BY <1>1, <1>2, BusItemTaken, CheckerParts DEF CheckerTypes
<1>9. /\ stream' \in Seq(BusItems) /\ Consistent(stream') /\ LastIn(stream', OwnerNews, Running(owned))
      /\ ~Has(stream', Unsound) /\ watching
  BY <1>1, BusItemTaken
<1> HIDE DEF x
<1> QED
  BY <1>1, <1>3, <1>4, <1>5, <1>6, <1>7, <1>8, <1>9 DEF CheckerInv, Queried

\* An answer is handled.
LEMMA CallFinishedKeeps == CheckerInv /\ onCallFinished => CheckerInv'
<1> SUFFICES ASSUME CheckerInv, onCallFinished PROVE CheckerInv'
  OBVIOUS
<1> DEFINE x == Head(stream)
<1>1. PICK call \in Queried :
        /\ Next1(call)
        /\ serviceActivatable' = IF ~x.error /\ call = "ListActivatableNames"
                                 THEN x.contains ELSE serviceActivatable
        /\ serviceAvailable' = IF ~x.error /\ call = "ListNames" /\ ~serviceAvailable
                               THEN x.contains ELSE serviceAvailable
        /\ UNCHANGED <<owned, activatable, watching, queried, failed>>
  BY DEF onCallFinished, Queried
<1>2. /\ x \in Answers(call) /\ x.error \in BOOLEAN /\ x.contains \in BOOLEAN
      /\ x \notin OwnerSignals /\ (x \in OwnerNews <=> call = "ListNames")
      /\ \A other \in Queried : x \in Answers(other) => other = call
  BY <1>1, BusItemTaken DEF Answers, OwnerSignals, OwnerNews, BusItems, Queried
<1>3. \A S : Has(stream, S) <=> x \in S \/ Has(stream', S)
  BY <1>1, BusItemTaken
<1>4. ~Has(stream', Answers(call)) /\ call \notin queried
  BY <1>1, <1>2, <1>3, BusItemTaken, CheckerParts DEF OneAnswer
<1>5. \A other \in Queried : OneAnswer(other)'
  BY <1>1, <1>3, BusItemTaken, CheckerParts DEF OneAnswer
<1>6. Unsound' = Unsound
  BY <1>1 DEF Unsound
<1>7. /\ stream' \in Seq(BusItems) /\ Consistent(stream') /\ LastIn(stream', OwnerNews, Running(owned))
      /\ ~Has(stream', Unsound) /\ watching
  BY <1>1, BusItemTaken
<1>8. CheckerTypes'
  BY <1>1, <1>2, <1>7, CheckerParts DEF CheckerTypes
<1>9. x.error = TRUE => call \in failed
  BY <1>1, <1>2, BusItemTaken DEF Unsound
<1>10. call = "ListActivatableNames" => x.contains = activatable
  BY <1>1, <1>2, BusItemTaken DEF Unsound
<1>11. call = "ListNames" => /\ Has(stream', OwnerNews) \/ x.contains = owned
                             /\ serviceAvailable = TRUE => x.contains = TRUE
  BY <1>1, <1>2, BusItemTaken DEF Running, Fitting
<1>12. call # "ListNames" => FirstIn(stream', OwnerNews, Fitting(serviceAvailable))
  BY <1>1, <1>2, BusItemTaken
<1> HIDE DEF x
<1>13. CASE call = "ListNames"
  <2>1. serviceActivatable' = serviceActivatable /\ ~Has(stream', Answers("ListNames"))
    BY <1>1, <1>4, <1>13
  <2>2. FirstIn(stream', OwnerNews, Fitting(serviceAvailable'))
    <3>1. ASSUME NEW k \in 1 .. Len(stream') PROVE stream'[k] \in Fitting(serviceAvailable')
      BY <1>7, <2>1, <3>1 DEF Fitting, Has
    <3> QED
      BY <3>1 DEF FirstIn
  <2>3. "ListNames" \notin failed /\ ~Has(stream', OwnerNews) => serviceAvailable' = owned
    BY <1>1, <1>2, <1>9, <1>11, <1>13, CheckerParts
  <2>4. x \notin Answers("ListActivatableNames")
    BY <1>2, <1>13 DEF Queried
  <2>5. watching /\ "ListActivatableNames" \notin queried \cup failed
          /\ ~Has(stream', Answers("ListActivatableNames")) => serviceActivatable = activatable
    BY <1>3, <2>4 DEF CheckerInv
  <2> QED
    BY <1>1, <1>4, <1>5, <1>6, <1>7, <1>8, <1>13, <2>1, <2>2, <2>3, <2>5 DEF CheckerInv
<1>14. CASE call = "ListActivatableNames"
  <2>1. serviceAvailable' = serviceAvailable /\ x \notin OwnerNews
    BY <1>1, <1>2, <1>14
  <2>2. FirstIn(stream', OwnerNews, Fitting(serviceAvailable'))
    BY <1>12, <1>14, <2>1
  <2>3. "ListActivatableNames" \notin failed => serviceActivatable' = activatable
    BY <1>1, <1>2, <1>9, <1>10, <1>14
  <2>4. Has(stream, OwnerNews) <=> Has(stream', OwnerNews)
    BY <1>3, <2>1
  <2> QED
    BY <1>1, <1>4, <1>5, <1>6, <1>7, <1>8, <1>14, <2>1, <2>2, <2>3, <2>4 DEF CheckerInv
<1> QED
  BY <1>13, <1>14 DEF Queried

\* Once everything that the bus sent is handled, the checker knows whether the service is
\* there, for any number of starts, stops and takeovers.
THEOREM CheckerKnows == CheckerInit /\ [][CheckerNext]_checkerVars => []AvailabilityIsCurrent
<1>1. CheckerInit => CheckerInv
  <2> SUFFICES ASSUME CheckerInit PROVE CheckerInv
    OBVIOUS
  <2>1. <<>> \in Seq(BusItems) /\ stream = <<>>
    BY DEF CheckerInit
  <2>2. \A S, T : ~Has(stream, S) /\ Once(stream, S) /\ LastIn(stream, S, T) /\ FirstIn(stream, S, T)
    BY <2>1 DEF Has, Once, LastIn, FirstIn
  <2>3. Consistent(stream)
    BY <2>1 DEF Consistent
  <2> QED
    BY <2>1, <2>2, <2>3 DEF CheckerInit, CheckerInv, CheckerTypes, OneAnswer
<1>2. CheckerInv /\ [CheckerNext]_checkerVars => CheckerInv'
  <2> SUFFICES ASSUME CheckerInv, [CheckerNext]_checkerVars PROVE CheckerInv'
    OBVIOUS
  <2>1. CASE UNCHANGED checkerVars
    <3>1. UNCHANGED <<owned, activatable, watching, queried, stream, serviceAvailable,
                      serviceActivatable, failed>>
      BY <2>1 DEF checkerVars
    <3>2. Unsound' = Unsound
      BY <3>1 DEF Unsound
    <3> QED
      BY <3>1, <3>2 DEF CheckerInv, CheckerTypes, OneAnswer
  <2> QED
    BY <2>1, OwnerChangeKeeps, BusAnswerKeeps, IntrospectKeeps, OwnerSignalKeeps, CallFinishedKeeps
       DEF CheckerNext, Queried
<1>3. CheckerInv => AvailabilityIsCurrent
  <2> SUFFICES ASSUME CheckerInv, watching, queried = {}, stream = <<>>, failed = {}
               PROVE  isAvailable = (owned \/ activatable)
    BY DEF AvailabilityIsCurrent
  <2>1. \A S : ~Has(stream, S)
    BY DEF Has
  <2>2. serviceAvailable = owned /\ serviceActivatable = activatable
    BY <2>1 DEF CheckerInv
  <2> QED
    BY <2>2 DEF isAvailable
<1> QED
  BY <1>1, <1>2, <1>3, PTL

\* A sequence without its item number i.
LEMMA RemoveAtItems ==
    ASSUME NEW A, NEW s \in Seq(A), NEW i \in 1 .. Len(s)
    PROVE  /\ RemoveAt(s, i) \in Seq(A) /\ Len(RemoveAt(s, i)) = Len(s) - 1
           /\ \A k \in 1 .. Len(s) - 1 : RemoveAt(s, i)[k] = IF k < i THEN s[k] ELSE s[k + 1]
<1> DEFINE p == SubSeq(s, 1, i - 1)
           q == SubSeq(s, i + 1, Len(s))
<1>1. Len(s) \in Nat
  BY LenProperties
<1>2. /\ p \in Seq(A) /\ Len(p) = i - 1
      /\ \A k \in 1 .. i - 1 : p[k] = s[k]
  <2>1. \A k \in 1 .. i - 1 : s[k] \in A
    BY <1>1, ElementOfSeq
  <2>2. /\ p \in Seq(A) /\ Len(p) = IF 1 <= i - 1 THEN i - 1 - 1 + 1 ELSE 0
        /\ \A k \in 1 .. i - 1 - 1 + 1 : p[k] = s[1 + k - 1]
    BY <1>1, <2>1, SubSeqProperties
  <2> QED
    BY <1>1, <2>2
<1>3. /\ q \in Seq(A) /\ Len(q) = Len(s) - i
      /\ \A k \in 1 .. Len(s) - i : q[k] = s[i + k]
  <2>1. \A k \in i + 1 .. Len(s) : s[k] \in A
    BY <1>1, ElementOfSeq
  <2>2. /\ q \in Seq(A) /\ Len(q) = IF i + 1 <= Len(s) THEN Len(s) - (i + 1) + 1 ELSE 0
        /\ \A k \in 1 .. Len(s) - (i + 1) + 1 : q[k] = s[i + 1 + k - 1]
    BY <1>1, <2>1, SubSeqProperties
  <2> QED
    BY <1>1, <2>2
<1> HIDE DEF p, q
<1>4. /\ p \o q \in Seq(A) /\ Len(p \o q) = Len(p) + Len(q)
      /\ \A k \in 1 .. Len(p) + Len(q) : (p \o q)[k] = IF k <= Len(p) THEN p[k] ELSE q[k - Len(p)]
  BY <1>2, <1>3, ConcatProperties
<1>5. /\ p \o q \in Seq(A) /\ Len(p \o q) = Len(s) - 1
  BY <1>1, <1>2, <1>3, <1>4
<1>6. \A k \in 1 .. Len(s) - 1 : (p \o q)[k] = IF k < i THEN s[k] ELSE s[k + 1]
  <2> TAKE k \in 1 .. Len(s) - 1
  <2>1. (p \o q)[k] = IF k <= i - 1 THEN p[k] ELSE q[k - (i - 1)]
    BY <1>1, <1>2, <1>3, <1>4
  <2>2. CASE k < i
    BY <1>1, <1>2, <2>1, <2>2
  <2>3. CASE ~(k < i)
    <3>1. k - (i - 1) \in 1 .. Len(s) - i /\ i + (k - (i - 1)) = k + 1
      BY <1>1, <2>3
    <3> QED
      BY <1>1, <1>3, <2>1, <2>3, <3>1
  <2> QED
    BY <2>2, <2>3
<1> QED
  BY <1>5, <1>6 DEF RemoveAt, p, q

(***************************************************************************)
(* The text channel watcher.  The channel that a contact is watched on has *)
(* a watcher and is one of its own.                                        *)
(***************************************************************************)
Kinds == {"text", "report"}
WatchedChannels == [buddy : Buddies, open : BOOLEAN, queue : Seq(Kinds)]

WatcherTypes ==
    /\ listed \in Seq(Buddies) /\ textChannels \in Seq(WatchedChannels)
    /\ currentChannels \in [Buddies -> Nat] /\ shownUnread \in [Buddies -> Nat]
    /\ DOMAIN m_index \subseteq 1 .. Len(textChannels)
    /\ \A ch \in DOMAIN m_index : m_index[ch] # NoRow => m_index[ch] \in Buddies
    /\ firstUpdates \subseteq DOMAIN m_index

CurrentIsOwn ==
    \A b \in Buddies : currentChannels[b] # 0 =>
        currentChannels[b] \in DOMAIN m_index /\ textChannels[currentChannels[b]].buddy = b

WatcherInv == WatcherTypes /\ CurrentIsOwn /\ UnreadIsShown

\* Removing one of them leaves a sequence of messages.
LEMMA RemovedQueue ==
    ASSUME NEW q \in Seq(Kinds), NEW n \in DOMAIN q PROVE RemoveAt(q, n) \in Seq(Kinds)
<1>1. Len(q) \in Nat /\ n \in 1 .. Len(q)
  BY LenProperties
<1>2. SubSeq(q, 1, n - 1) \in Seq(Kinds) /\ SubSeq(q, n + 1, Len(q)) \in Seq(Kinds)
  BY <1>1, SubSeqProperties
<1> QED
  BY <1>2, ConcatProperties DEF RemoveAt

\* The parts of the invariant that the steps cite.
LEMMA WatcherParts ==
    ASSUME WatcherInv
    PROVE  /\ listed \in Seq(Buddies) /\ textChannels \in Seq(WatchedChannels)
           /\ Len(listed) \in Nat /\ DOMAIN listed = 1 .. Len(listed)
           /\ \A i \in 1 .. Len(listed) : listed[i] \in Buddies
           /\ Len(textChannels) \in Nat /\ DOMAIN textChannels = 1 .. Len(textChannels)
           /\ \A c \in 1 .. Len(textChannels) :
                textChannels[c] \in WatchedChannels /\ textChannels[c].queue \in Seq(Kinds)
           /\ currentChannels \in [Buddies -> Nat] /\ shownUnread \in [Buddies -> Nat]
           /\ DOMAIN m_index \subseteq 1 .. Len(textChannels)
           /\ \A ch \in DOMAIN m_index : m_index[ch] # NoRow => m_index[ch] \in Buddies
           /\ firstUpdates \subseteq DOMAIN m_index
           /\ \A b \in Buddies : currentChannels[b] # 0 =>
                currentChannels[b] \in DOMAIN m_index /\ textChannels[currentChannels[b]].buddy = b
           /\ Range(listed) \subseteq Buddies
<1>1. listed \in Seq(Buddies) /\ textChannels \in Seq(WatchedChannels)
  BY DEF WatcherInv, WatcherTypes
<1>2. /\ Len(listed) \in Nat /\ DOMAIN listed = 1 .. Len(listed)
      /\ \A i \in 1 .. Len(listed) : listed[i] \in Buddies
  BY <1>1, LenProperties, ElementOfSeq
<1>3. /\ Len(textChannels) \in Nat /\ DOMAIN textChannels = 1 .. Len(textChannels)
      /\ \A c \in 1 .. Len(textChannels) : textChannels[c] \in WatchedChannels
  BY <1>1, LenProperties, ElementOfSeq
<1>4. \A c \in 1 .. Len(textChannels) : textChannels[c].queue \in Seq(Kinds)
  BY <1>3 DEF WatchedChannels
<1>5. Range(listed) \subseteq Buddies
  BY <1>2 DEF Range
<1> QED
  BY <1>1, <1>2, <1>3, <1>4, <1>5 DEF WatcherInv, WatcherTypes, CurrentIsOwn

\* What a contact's row should show.
LEMMA ShownRight ==
    ASSUME WatcherInv, NEW b \in Range(listed), b \notin unsignalled, b \notin Misplaced,
           currentChannels[b] \notin firstUpdates
    PROVE  shownUnread[b] = IF currentChannels[b] = 0 THEN 0
                            ELSE Len(textChannels[currentChannels[b]].queue)
BY DEF WatcherInv, UnreadIsShown

\* A channel in the place of another.
LEMMA ChangedChannel ==
    ASSUME WatcherInv, NEW ch \in 1 .. Len(textChannels), NEW t \in WatchedChannels,
           textChannels' = [textChannels EXCEPT ![ch] = t]
    PROVE  /\ textChannels' \in Seq(WatchedChannels) /\ Len(textChannels') = Len(textChannels)
           /\ \A c \in 1 .. Len(textChannels) : textChannels'[c] = IF c = ch THEN t ELSE textChannels[c]
BY WatcherParts, ExceptSeq

\* A channel with another queue.
LEMMA ChangedQueue ==
    ASSUME WatcherInv, NEW ch \in 1 .. Len(textChannels), NEW q \in Seq(Kinds),
           textChannels' = [textChannels EXCEPT ![ch].queue = q]
    PROVE  /\ textChannels' \in Seq(WatchedChannels) /\ Len(textChannels') = Len(textChannels)
           /\ \A c \in 1 .. Len(textChannels) :
                /\ textChannels'[c].buddy = textChannels[c].buddy
                /\ textChannels'[c].queue \in Seq(Kinds)
                /\ c # ch => textChannels'[c].queue = textChannels[c].queue
<1> DEFINE t == [textChannels[ch] EXCEPT !.queue = q]
<1>1. t \in WatchedChannels /\ t.buddy = textChannels[ch].buddy /\ t.queue = q
  BY WatcherParts DEF WatchedChannels
<1>2. textChannels' = [textChannels EXCEPT ![ch] = t]
  OBVIOUS
<1> HIDE DEF t
<1>3. /\ textChannels' \in Seq(WatchedChannels) /\ Len(textChannels') = Len(textChannels)
      /\ \A c \in 1 .. Len(textChannels) : textChannels'[c] = IF c = ch THEN t ELSE textChannels[c]
  BY <1>1, <1>2, ChangedChannel
<1> QED
  BY <1>1, <1>3, WatcherParts

\* A step that changes the queue of a channel, and announces the row of its watcher or
\* notes that it was not announced.
LEMMA QueueChangeKeeps ==
    ASSUME WatcherInv, NEW ch \in 1 .. Len(textChannels), NEW q \in Seq(Kinds),
           NEW F \in SUBSET firstUpdates,
           textChannels' = [textChannels EXCEPT ![ch].queue = q],
           listed' = listed, currentChannels' = currentChannels, m_index' = m_index,
           firstUpdates' = F, firstUpdates \ F \subseteq {ch},
           \/ Announce(ch)
           \/ /\ unsignalled' = unsignalled \cup {textChannels[ch].buddy}
              /\ shownUnread' = shownUnread
    PROVE  WatcherInv'
<1> DEFINE b0 == textChannels[ch].buddy
<1>1. b0 \in Buddies
  BY WatcherParts DEF WatchedChannels
<1>2. /\ textChannels' \in Seq(WatchedChannels) /\ Len(textChannels') = Len(textChannels)
      /\ \A c \in 1 .. Len(textChannels) :
            /\ textChannels'[c].buddy = textChannels[c].buddy
            /\ textChannels'[c].queue \in Seq(Kinds)
            /\ c # ch => textChannels'[c].queue = textChannels[c].queue
  BY ChangedQueue
<1>3. CurrentIsOwn'
  <2>1. \A b \in Buddies : currentChannels[b] # 0 => currentChannels[b] \in 1 .. Len(textChannels)
    BY WatcherParts
  <2> QED
    BY <1>2, <2>1, WatcherParts DEF CurrentIsOwn
<1>4. \A b \in Buddies : UnreadRole(b) \in Nat
  <2> TAKE b \in Buddies
  <2>1. currentChannels[b] # 0 => currentChannels[b] \in 1 .. Len(textChannels)
    BY WatcherParts
  <2>2. currentChannels[b] # 0 => Len(textChannels'[currentChannels[b]].queue) \in Nat
    BY <1>2, <2>1, LenProperties
  <2> QED
    BY <2>2 DEF UnreadRole
<1>5. /\ shownUnread' \in [Buddies -> Nat]
      /\ \A b \in Buddies : \/ shownUnread'[b] = UnreadRole(b)
                            \/ shownUnread'[b] = shownUnread[b] /\ (b \in unsignalled => b \in unsignalled')
      /\ \A b \in Buddies : ch \in DOMAIN m_index /\ m_index[ch] = b
                            => shownUnread'[b] = UnreadRole(b) \/ b0 \in unsignalled'
  <2>1. CASE Announce(ch) /\ ch \in DOMAIN m_index /\ m_index[ch] # NoRow
    <3> DEFINE r == m_index[ch]
    <3>1. r \in Buddies /\ UnreadRole(r) \in Nat
      BY <1>4, <2>1, WatcherParts
    <3>2. shownUnread' = [shownUnread EXCEPT ![r] = UnreadRole(r)] /\ unsignalled' = unsignalled \ {r}
      BY <2>1 DEF Announce, Read
    <3> HIDE DEF r
    <3>3. /\ shownUnread' \in [Buddies -> Nat] /\ shownUnread'[r] = UnreadRole(r)
          /\ \A b \in Buddies : b # r => shownUnread'[b] = shownUnread[b]
      BY <3>1, <3>2, WatcherParts
    <3> QED
      BY <3>2, <3>3 DEF r
  <2>2. CASE Announce(ch) /\ ~(ch \in DOMAIN m_index /\ m_index[ch] # NoRow)
    BY <2>2, WatcherParts, WatcherAssumption DEF Announce
  <2>3. CASE ~Announce(ch)
    <3>1. unsignalled' = unsignalled \cup {b0} /\ shownUnread' = shownUnread
      BY <2>3
    <3>2. shownUnread \in [Buddies -> Nat]
      BY WatcherParts
    <3> QED
      BY <3>1, <3>2
  <2> QED
    BY <2>1, <2>2, <2>3
<1> HIDE DEF b0
<1>6. UnreadIsShown'
  <2> SUFFICES ASSUME NEW b \in Range(listed), b \notin unsignalled', b \notin Misplaced',
                      currentChannels[b] \notin F
               PROVE  shownUnread'[b] = IF currentChannels[b] = 0 THEN 0
                                        ELSE Len(textChannels'[currentChannels[b]].queue)
    BY DEF UnreadIsShown
  <2>1. /\ b \in Buddies /\ b \notin Misplaced
        /\ currentChannels[b] # 0 => /\ currentChannels[b] \in 1 .. Len(textChannels)
                                     /\ currentChannels[b] \in DOMAIN m_index
                                     /\ m_index[currentChannels[b]] = b
                                     /\ textChannels[currentChannels[b]].buddy = b
    <3>1. b \in Buddies
      BY WatcherParts
    <3>2. currentChannels[b] # 0 => m_index[currentChannels[b]] = b
      BY <3>1 DEF Misplaced
    <3> QED
      BY <3>1, <3>2, WatcherParts DEF Misplaced
  <2>2. CASE shownUnread'[b] = UnreadRole(b)
    BY <2>2 DEF UnreadRole
  <2>3. CASE shownUnread'[b] # UnreadRole(b)
    <3>1. shownUnread'[b] = shownUnread[b] /\ b \notin unsignalled
      BY <1>5, <2>1, <2>3
    <3>2. currentChannels[b] # ch
      <4>1. ch # 0
        OBVIOUS
      <4>2. currentChannels[b] = ch => ch \in DOMAIN m_index /\ m_index[ch] = b /\ b0 = b
        BY <2>1, <4>1 DEF b0
      <4> QED
        BY <1>5, <2>1, <2>3, <4>2
    <3>3. currentChannels[b] \notin firstUpdates
      BY <3>2
    <3>4. shownUnread[b] = IF currentChannels[b] = 0 THEN 0
                           ELSE Len(textChannels[currentChannels[b]].queue)
      <4>1. b \in Range(listed) /\ b \notin Misplaced /\ b \notin unsignalled
        BY <2>1, <3>1
      <4> QED
        BY <3>3, <4>1, ShownRight
    <3> QED
      BY <1>2, <2>1, <3>1, <3>2, <3>4
  <2> QED
    BY <2>2, <2>3
<1> QED
  BY <1>2, <1>3, <1>5, <1>6, WatcherParts DEF WatcherInv, WatcherTypes

\* A contact comes.
LEMMA ListedKeeps ==
    ASSUME WatcherInv, NEW b0 \in Buddies, ContactListed(b0) PROVE WatcherInv'
<1>1. /\ textChannels' = textChannels /\ currentChannels' = currentChannels /\ m_index' = m_index
      /\ firstUpdates' = firstUpdates /\ listed' = Append(listed, b0)
      /\ shownUnread' = [shownUnread EXCEPT ![b0] = UnreadRole(b0)] /\ unsignalled' = unsignalled \ {b0}
  BY DEF ContactListed, Read
<1>2. UnreadRole(b0) \in Nat
  <2>1. currentChannels[b0] # 0 => currentChannels[b0] \in 1 .. Len(textChannels)
    BY WatcherParts
  <2>2. currentChannels[b0] # 0 => Len(textChannels[currentChannels[b0]].queue) \in Nat
    BY <2>1, WatcherParts, LenProperties
  <2> QED
    BY <1>1, <2>2 DEF UnreadRole
<1>3. /\ shownUnread' \in [Buddies -> Nat] /\ shownUnread'[b0] = UnreadRole(b0)
      /\ \A b \in Buddies : b # b0 => shownUnread'[b] = shownUnread[b]
  BY <1>1, <1>2, WatcherParts
<1>4. listed' \in Seq(Buddies) /\ \A b \in Range(listed') : b = b0 \/ b \in Range(listed)
  <2>1. /\ listed' \in Seq(Buddies) /\ DOMAIN listed' = 1 .. Len(listed) + 1
        /\ \A i \in 1 .. Len(listed) : listed'[i] = listed[i]
        /\ listed'[Len(listed) + 1] = b0
    <3>1. /\ listed' \in Seq(Buddies) /\ Len(listed') = Len(listed) + 1
          /\ \A i \in 1 .. Len(listed) : listed'[i] = listed[i]
          /\ listed'[Len(listed) + 1] = b0
      BY <1>1, WatcherParts, AppendProperties
    <3>2. DOMAIN listed' = 1 .. Len(listed')
      BY <3>1, LenProperties
    <3> QED
      BY <3>1, <3>2
  <2>2. Len(listed) \in Nat /\ \A j \in 1 .. Len(listed) : listed[j] \in Range(listed)
    BY WatcherParts DEF Range
  <2>3. \A k \in 1 .. Len(listed) + 1 : listed'[k] = b0 \/ listed'[k] \in Range(listed)
    <3> TAKE k \in 1 .. Len(listed) + 1
    <3>1. k = Len(listed) + 1 \/ k \in 1 .. Len(listed)
      BY <2>2
    <3> QED
      BY <2>1, <2>2, <3>1
  <2>4. \A b \in Range(listed') : \E k \in 1 .. Len(listed) + 1 : b = listed'[k]
    BY <2>1 DEF Range
  <2> QED
    BY <2>1, <2>3, <2>4
<1>5. CurrentIsOwn' /\ Misplaced' = Misplaced
  BY <1>1, WatcherParts DEF CurrentIsOwn, Misplaced
<1>6. UnreadIsShown'
  <2> SUFFICES ASSUME NEW b \in Range(listed'), b \notin unsignalled', b \notin Misplaced,
                      currentChannels[b] \notin firstUpdates
               PROVE  shownUnread'[b] = IF currentChannels[b] = 0 THEN 0
                                        ELSE Len(textChannels[currentChannels[b]].queue)
    BY <1>1, <1>5 DEF UnreadIsShown
  <2>1. CASE b = b0
    BY <1>1, <1>3, <2>1 DEF UnreadRole
  <2>2. CASE b # b0
    <3>1. b \in Range(listed) /\ b \in Buddies /\ b \notin unsignalled /\ shownUnread'[b] = shownUnread[b]
      BY <1>1, <1>3, <1>4, <2>2, WatcherParts
    <3> QED
      BY <3>1, ShownRight
  <2> QED
    BY <2>1, <2>2
<1> QED
  BY <1>1, <1>3, <1>4, <1>5, <1>6, WatcherParts DEF WatcherInv, WatcherTypes

\* A contact goes: its watchers have no row any more.
LEMMA UnlistedKeeps ==
    ASSUME WatcherInv, NEW i \in 1 .. Len(listed), ContactUnlisted(i) PROVE WatcherInv'
<1> DEFINE b0 == listed[i]
<1>1. /\ textChannels' = textChannels /\ currentChannels' = currentChannels
      /\ m_index' = [ch \in DOMAIN m_index |-> IF m_index[ch] = b0 THEN NoRow ELSE m_index[ch]]
      /\ firstUpdates' = firstUpdates /\ listed' = RemoveAt(listed, i)
      /\ shownUnread' = [shownUnread EXCEPT ![b0] = 0] /\ unsignalled' = unsignalled
      /\ b0 \in Buddies
  BY WatcherParts DEF ContactUnlisted
<1> HIDE DEF b0
<1>2. /\ shownUnread' \in [Buddies -> Nat] /\ shownUnread'[b0] = 0
      /\ \A b \in Buddies : b # b0 => shownUnread'[b] = shownUnread[b]
  BY <1>1, WatcherParts
<1>3. listed' \in Seq(Buddies) /\ \A b \in Range(listed') : b \in Range(listed)
  <2>1. /\ listed' \in Seq(Buddies) /\ Len(listed') = Len(listed) - 1
        /\ \A k \in 1 .. Len(listed) - 1 : listed'[k] = IF k < i THEN listed[k] ELSE listed[k + 1]
    <3>1. listed \in Seq(Buddies) /\ listed' = RemoveAt(listed, i)
      BY <1>1, WatcherParts
    <3> QED
      BY <3>1, RemoveAtItems
  <2>2. DOMAIN listed' = 1 .. Len(listed) - 1
    BY <2>1, LenProperties
  <2>3. \A k \in 1 .. Len(listed) - 1 : k \in 1 .. Len(listed) /\ k + 1 \in 1 .. Len(listed)
    BY WatcherParts
  <2>4. \A k \in 1 .. Len(listed) - 1 : \E j \in 1 .. Len(listed) : listed'[k] = listed[j]
    <3> TAKE k \in 1 .. Len(listed) - 1
    <3>1. CASE k < i
      BY <2>1, <2>3, <3>1
    <3>2. CASE ~(k < i)
      BY <2>1, <2>3, <3>2
    <3> QED
      BY <3>1, <3>2
  <2>5. \A b \in Range(listed') : \E k \in 1 .. Len(listed) - 1 : b = listed'[k]
    BY <2>2 DEF Range
  <2>6. \A j \in 1 .. Len(listed) : listed[j] \in Range(listed)
    BY WatcherParts DEF Range
  <2> QED
    BY <2>1, <2>4, <2>5, <2>6
<1>4. /\ DOMAIN m_index' = DOMAIN m_index
      /\ \A ch \in DOMAIN m_index : \/ m_index[ch] = b0 /\ m_index'[ch] = NoRow
                                    \/ m_index[ch] # b0 /\ m_index'[ch] = m_index[ch]
  BY <1>1
<1>5. CurrentIsOwn'
  BY <1>1, <1>4, WatcherParts DEF CurrentIsOwn
<1>6. UnreadIsShown'
  <2> SUFFICES ASSUME NEW b \in Range(listed'), b \notin unsignalled, b \notin Misplaced',
                      currentChannels[b] \notin firstUpdates
               PROVE  shownUnread'[b] = IF currentChannels[b] = 0 THEN 0
                                        ELSE Len(textChannels[currentChannels[b]].queue)
    BY <1>1 DEF UnreadIsShown
  <2>1. b \in Range(listed) /\ b \in Buddies /\ b # NoRow
    BY <1>3, WatcherParts, WatcherAssumption
  <2>2. currentChannels[b] # 0 => currentChannels[b] \in DOMAIN m_index /\ m_index'[currentChannels[b]] = b
    BY <1>1, <2>1, WatcherParts DEF Misplaced
  <2>3. currentChannels[b] # 0 => b # b0 /\ m_index[currentChannels[b]] = b
    BY <1>4, <2>1, <2>2
  <2>4. b \notin Misplaced
    BY <2>3 DEF Misplaced
  <2>5. CASE b = b0
    BY <1>2, <2>3, <2>5
  <2>6. CASE b # b0
    BY <1>2, <2>1, <2>4, <2>6, ShownRight
  <2> QED
    BY <2>5, <2>6
<1>7. WatcherTypes'
  BY <1>1, <1>2, <1>3, <1>4, WatcherParts DEF WatcherTypes
<1> QED
  BY <1>5, <1>6, <1>7 DEF WatcherInv

\* The connection of a contact that has gone ends.
LEMMA RenewedKeeps ==
    ASSUME WatcherInv, NEW b0 \in Buddies, ContactRenewed(b0) PROVE WatcherInv'
<1>1. /\ b0 \notin Range(listed) /\ currentChannels' = [currentChannels EXCEPT ![b0] = 0]
      /\ textChannels' = [ch \in 1 .. Len(textChannels) |->
                          IF textChannels[ch].buddy = b0
                          THEN [textChannels[ch] EXCEPT !.open = FALSE] ELSE textChannels[ch]]
      /\ listed' = listed /\ m_index' = m_index /\ firstUpdates' = firstUpdates
      /\ shownUnread' = shownUnread /\ unsignalled' = unsignalled
  BY WatcherParts DEF ContactRenewed
<1>2. /\ textChannels' \in Seq(WatchedChannels) /\ Len(textChannels') = Len(textChannels)
      /\ \A c \in 1 .. Len(textChannels) : /\ textChannels'[c].buddy = textChannels[c].buddy
                                           /\ textChannels'[c].queue = textChannels[c].queue
  <2>1. \A c \in 1 .. Len(textChannels) :
          /\ textChannels'[c] \in WatchedChannels
          /\ textChannels'[c].buddy = textChannels[c].buddy
          /\ textChannels'[c].queue = textChannels[c].queue
    BY <1>1, WatcherParts DEF WatchedChannels
  <2>2. textChannels' \in [1 .. Len(textChannels) -> WatchedChannels]
    BY <1>1, <2>1
  <2> QED
    BY <2>1, <2>2, WatcherParts, SeqOfItems
<1>3. /\ currentChannels' \in [Buddies -> Nat] /\ currentChannels'[b0] = 0
      /\ \A b \in Buddies : b # b0 => currentChannels'[b] = currentChannels[b]
  BY <1>1, WatcherParts
<1>4. CurrentIsOwn'
  <2>1. \A b \in Buddies : currentChannels[b] # 0 => currentChannels[b] \in 1 .. Len(textChannels)
    BY WatcherParts
  <2> QED
    BY <1>1, <1>2, <1>3, <2>1, WatcherParts DEF CurrentIsOwn
<1>5. UnreadIsShown'
  <2> SUFFICES ASSUME NEW b \in Range(listed), b \notin unsignalled, b \notin Misplaced',
                      currentChannels'[b] \notin firstUpdates
               PROVE  shownUnread[b] = IF currentChannels'[b] = 0 THEN 0
                                       ELSE Len(textChannels'[currentChannels'[b]].queue)
    BY <1>1 DEF UnreadIsShown
  <2>1. b \in Buddies /\ currentChannels'[b] = currentChannels[b]
    BY <1>1, <1>3, WatcherParts
  <2>2. b \notin Misplaced
    BY <1>1, <2>1 DEF Misplaced
  <2>3. currentChannels[b] # 0 => currentChannels[b] \in 1 .. Len(textChannels)
    BY <2>1, WatcherParts
  <2> QED
    BY <1>2, <2>1, <2>2, <2>3, ShownRight
<1> QED
  BY <1>1, <1>2, <1>3, <1>4, <1>5, WatcherParts DEF WatcherInv, WatcherTypes

\* The first match is one of the contacts.
LEMMA FirstMatchListed ==
    ASSUME WatcherInv, NEW b \in Buddies, matchedContacts(b) # {} PROVE FirstMatch(b) \in Buddies
<1> DEFINE S == matchedContacts(b)
<1>1. S \in SUBSET Nat /\ S # {} /\ S \subseteq 1 .. Len(listed)
  BY WatcherParts DEF matchedContacts
<1> HIDE DEF S
<1>2. \E x \in S : \A y \in S : x <= y
  BY <1>1, LeastNumber
<1>3. PICK k : k = CHOOSE x \in S : \A y \in S : x <= y
  OBVIOUS
<1>4. k \in S
  BY <1>2, <1>3
<1> QED
  BY <1>1, <1>3, <1>4, WatcherParts DEF FirstMatch, S

\* A channel is observed.
LEMMA ObserveKeeps ==
    ASSUME WatcherInv, NEW b0 \in Buddies, NEW queue \in Queues, observeChannels(b0, queue)
    PROVE  WatcherInv'
<1> DEFINE x == [buddy |-> b0, open |-> TRUE, queue |-> queue]
           n == Len(textChannels) + 1
<1>1. queue \in Seq(Kinds)
  <2>1. \A k \in Kinds : <<>> \in Seq(Kinds) /\ <<k>> \in Seq(Kinds)
    OBVIOUS
  <2> QED
    BY <2>1 DEF Queues, Kinds
<1>2. x \in WatchedChannels /\ x.buddy = b0
  BY <1>1 DEF WatchedChannels
<1>3. textChannels' = Append(textChannels, x)
  BY DEF observeChannels
<1> HIDE DEF x
<1>4. /\ textChannels' \in Seq(WatchedChannels) /\ Len(textChannels') = n
      /\ \A c \in 1 .. Len(textChannels) : textChannels'[c] = textChannels[c]
      /\ textChannels'[n].buddy = b0
  BY <1>2, <1>3, WatcherParts, AppendProperties
<1>5. n \in Nat /\ n # 0 /\ n \in 1 .. n /\ n \notin DOMAIN m_index /\ n \notin 1 .. Len(textChannels)
      /\ \A c \in 1 .. Len(textChannels) : c \in 1 .. n
  BY WatcherParts
<1> HIDE DEF n
<1>6. listed' = listed /\ shownUnread' = shownUnread /\ unsignalled' = unsignalled
  BY DEF observeChannels
<1>7. \A b \in Buddies : currentChannels[b] # 0 =>
        currentChannels[b] \in 1 .. Len(textChannels) /\ currentChannels[b] \in DOMAIN m_index
        /\ textChannels[currentChannels[b]].buddy = b
  BY WatcherParts
<1>8. CASE sourceModel /\ matchedContacts(b0) # {}
  <2> DEFINE old == currentChannels[b0]
             D == (DOMAIN m_index \ {old}) \cup {n}
  <2>1. /\ currentChannels' = [currentChannels EXCEPT ![b0] = n]
        /\ m_index' = [ch \in D |-> IF ch = n THEN FirstMatch(b0) ELSE m_index[ch]]
        /\ firstUpdates' = (firstUpdates \ {old}) \cup {n}
    BY <1>4, <1>8 DEF observeChannels
  <2>2. FirstMatch(b0) \in Buddies
    BY <1>8, FirstMatchListed
  <2>3. /\ currentChannels' \in [Buddies -> Nat] /\ currentChannels'[b0] = n
        /\ \A b \in Buddies : b # b0 => currentChannels'[b] = currentChannels[b]
    BY <1>5, <2>1, WatcherParts
  <2> HIDE DEF D
  <2>4. /\ DOMAIN m_index' = D /\ m_index'[n] = FirstMatch(b0)
        /\ \A ch \in D : ch # n => m_index'[ch] = m_index[ch] /\ ch \in DOMAIN m_index
        /\ n \in D /\ D \subseteq 1 .. n /\ firstUpdates' \subseteq D
    BY <1>5, <2>1, WatcherParts DEF D
  <2>5. \A b \in Buddies : b # b0 /\ currentChannels[b] # 0 =>
          /\ currentChannels[b] # old /\ currentChannels[b] # n /\ currentChannels[b] \in D
    BY <1>5, <1>7 DEF D
  <2>6. CurrentIsOwn'
    <3> SUFFICES ASSUME NEW b \in Buddies, currentChannels'[b] # 0
                 PROVE  currentChannels'[b] \in DOMAIN m_index' /\ textChannels'[currentChannels'[b]].buddy = b
      BY DEF CurrentIsOwn
    <3>1. CASE b = b0
      BY <1>4, <2>3, <2>4, <3>1
    <3>2. CASE b # b0
      BY <1>4, <1>7, <2>3, <2>4, <2>5, <3>2
    <3> QED
      BY <3>1, <3>2
  <2>7. UnreadIsShown'
    <3> SUFFICES ASSUME NEW b \in Range(listed), b \notin unsignalled, b \notin Misplaced',
                        currentChannels'[b] \notin firstUpdates'
                 PROVE  shownUnread[b] = IF currentChannels'[b] = 0 THEN 0
                                         ELSE Len(textChannels'[currentChannels'[b]].queue)
      BY <1>6 DEF UnreadIsShown
    <3>1. b \in Buddies /\ b # b0 /\ currentChannels'[b] = currentChannels[b]
      BY <2>1, <2>3, WatcherParts
    <3>2. currentChannels[b] \notin firstUpdates
      <4>1. CASE currentChannels[b] = 0
        BY <4>1, WatcherParts
      <4>2. CASE currentChannels[b] # 0
        BY <2>1, <2>5, <3>1, <4>2
      <4> QED
        BY <4>1, <4>2
    <3>3. b \notin Misplaced
      BY <2>4, <2>5, <3>1 DEF Misplaced
    <3>4. shownUnread[b] = IF currentChannels[b] = 0 THEN 0
                           ELSE Len(textChannels[currentChannels[b]].queue)
      BY <3>1, <3>2, <3>3, ShownRight
    <3> QED
      BY <1>4, <1>7, <3>1, <3>4
  <2>8. \A ch \in DOMAIN m_index' : m_index'[ch] # NoRow => m_index'[ch] \in Buddies
    BY <2>2, <2>4, WatcherParts
  <2>9. WatcherTypes'
    BY <1>4, <1>6, <2>3, <2>4, <2>8, WatcherParts DEF WatcherTypes
  <2> QED
    BY <2>6, <2>7, <2>9 DEF WatcherInv
<1>9. CASE ~(sourceModel /\ matchedContacts(b0) # {})
  <2>1. currentChannels' = currentChannels /\ firstUpdates' = firstUpdates /\ m_index' = m_index
    BY <1>9 DEF observeChannels
  <2>2. WatcherTypes'
    BY <1>4, <1>5, <1>6, <2>1, WatcherParts DEF WatcherTypes
  <2>3. CurrentIsOwn'
    BY <1>4, <1>7, <2>1 DEF CurrentIsOwn
  <2>4. UnreadIsShown'
    <3> SUFFICES ASSUME NEW b \in Range(listed), b \notin unsignalled, b \notin Misplaced',
                        currentChannels[b] \notin firstUpdates
                 PROVE  shownUnread[b] = IF currentChannels[b] = 0 THEN 0
                                         ELSE Len(textChannels'[currentChannels[b]].queue)
      BY <1>6, <2>1 DEF UnreadIsShown
    <3>1. b \notin Misplaced /\ b \in Buddies
      BY <2>1, WatcherParts DEF Misplaced
    <3> QED
      BY <1>4, <1>7, <3>1, ShownRight
  <2> QED
    BY <2>2, <2>3, <2>4 DEF WatcherInv
<1> QED
  BY <1>8, <1>9

\* A step that only announces a row, perhaps for the first time.
LEMMA AnnounceKeeps ==
    ASSUME WatcherInv, NEW ch \in 1 .. Len(textChannels), NEW F \in SUBSET firstUpdates,
           textChannels' = textChannels, listed' = listed, currentChannels' = currentChannels,
           m_index' = m_index, firstUpdates' = F, firstUpdates \ F \subseteq {ch}, Announce(ch)
    PROVE  WatcherInv'
<1>1. textChannels[ch] \in WatchedChannels /\ ch \in DOMAIN textChannels
  BY WatcherParts
<1> DEFINE q == textChannels[ch].queue
<1>2. q \in Seq(Kinds) /\ [textChannels[ch] EXCEPT !.queue = q] = textChannels[ch]
  BY <1>1 DEF WatchedChannels
<1>3. [textChannels EXCEPT ![ch] = textChannels[ch]] = textChannels
  <2>1. textChannels = [c \in 1 .. Len(textChannels) |-> textChannels[c]]
    BY DEF WatcherInv, WatcherTypes
  <2> QED
    BY <2>1, <1>1
<1>4. textChannels' = [textChannels EXCEPT ![ch].queue = q]
  BY <1>2, <1>3
<1> HIDE DEF q
<1> QED
  BY <1>2, <1>4, QueueChangeKeeps

\* A channel is invalidated, or the model set.
LEMMA InvalidatedKeeps ==
    ASSUME WatcherInv, NEW ch \in 1 .. Len(textChannels), invalidated(ch) PROVE WatcherInv'
<1>1. /\ textChannels' \in Seq(WatchedChannels) /\ Len(textChannels') = Len(textChannels)
      /\ \A c \in 1 .. Len(textChannels) : /\ textChannels'[c].buddy = textChannels[c].buddy
                                           /\ textChannels'[c].queue = textChannels[c].queue
  <2> DEFINE t == [textChannels[ch] EXCEPT !.open = FALSE]
  <2>1. t \in WatchedChannels /\ t.buddy = textChannels[ch].buddy /\ t.queue = textChannels[ch].queue
    BY WatcherParts DEF WatchedChannels
  <2>2. textChannels' = [textChannels EXCEPT ![ch] = t]
    BY DEF invalidated
  <2> HIDE DEF t
  <2>3. /\ textChannels' \in Seq(WatchedChannels) /\ Len(textChannels') = Len(textChannels)
        /\ \A c \in 1 .. Len(textChannels) : textChannels'[c] = IF c = ch THEN t ELSE textChannels[c]
    BY <2>1, <2>2, WatcherParts, ExceptSeq
  <2> QED
    BY <2>1, <2>3
<1>2. /\ listed' = listed /\ currentChannels' = currentChannels /\ firstUpdates' = firstUpdates
      /\ shownUnread' = shownUnread /\ unsignalled' = unsignalled /\ m_index' = m_index
  BY DEF invalidated
<1>3. \A b \in Buddies : currentChannels[b] # 0 => currentChannels[b] \in 1 .. Len(textChannels)
  BY WatcherParts
<1>4. WatcherTypes' /\ CurrentIsOwn'
  BY <1>1, <1>2, <1>3, WatcherParts DEF WatcherTypes, CurrentIsOwn
<1>5. UnreadIsShown'
  <2> SUFFICES ASSUME NEW b \in Range(listed), b \notin unsignalled, b \notin Misplaced',
                      currentChannels[b] \notin firstUpdates
               PROVE  shownUnread[b] = IF currentChannels[b] = 0 THEN 0
                                       ELSE Len(textChannels'[currentChannels[b]].queue)
    BY <1>2 DEF UnreadIsShown
  <2>1. b \notin Misplaced /\ b \in Buddies
    BY <1>2, WatcherParts DEF Misplaced
  <2> QED
    BY <1>1, <1>3, <2>1, ShownRight
<1> QED
  BY <1>4, <1>5 DEF WatcherInv

\* Every step keeps the invariant.
LEMMA NextWatcherInv == WatcherInv /\ [WatcherNext]_watcherVars => WatcherInv'
<1> SUFFICES ASSUME WatcherInv, [WatcherNext]_watcherVars PROVE WatcherInv'
  OBVIOUS
<1>0. /\ DOMAIN textChannels = 1 .. Len(textChannels) /\ DOMAIN listed = 1 .. Len(listed)
      /\ \A ch \in 1 .. Len(textChannels) : textChannels[ch].queue \in Seq(Kinds)
  BY WatcherParts
<1>1. ASSUME \/ setSourceModel \/ UNCHANGED watcherVars PROVE WatcherInv'
  BY <1>1 DEF setSourceModel, watcherVars, WatcherInv, WatcherTypes, CurrentIsOwn, UnreadIsShown, Misplaced
<1>2. ASSUME NEW ch \in 1 .. Len(textChannels), FirstUpdate(ch) PROVE WatcherInv'
  <2>1. firstUpdates \ {ch} \in SUBSET firstUpdates /\ firstUpdates \ (firstUpdates \ {ch}) \subseteq {ch}
    OBVIOUS
  <2> QED
    BY <1>2, <2>1, AnnounceKeeps DEF FirstUpdate
<1>3. ASSUME NEW ch \in 1 .. Len(textChannels), onMessageSent(ch) PROVE WatcherInv'
  <2>1. firstUpdates \in SUBSET firstUpdates /\ firstUpdates \ firstUpdates \subseteq {ch}
    OBVIOUS
  <2> QED
    BY <1>3, <2>1, AnnounceKeeps DEF onMessageSent
<1>4. ASSUME NEW ch \in 1 .. Len(textChannels), NEW kind \in Kinds, onMessageReceived(ch, kind)
      PROVE  WatcherInv'
  <2> DEFINE q == Append(textChannels[ch].queue, kind)
  <2>1. q \in Seq(Kinds) /\ textChannels' = [textChannels EXCEPT ![ch].queue = q]
    <3>1. textChannels[ch].queue \in Seq(Kinds) /\ kind \in Kinds
      BY <1>0, <1>4
    <3>2. q \in Seq(Kinds)
      BY <3>1
    <3> QED
      BY <3>2, <1>4 DEF onMessageReceived
  <2> HIDE DEF q
  <2>2. firstUpdates \in SUBSET firstUpdates /\ firstUpdates \ firstUpdates \subseteq {ch}
    OBVIOUS
  <2> QED
    BY <1>4, <2>1, <2>2, QueueChangeKeeps DEF onMessageReceived
<1>5. ASSUME NEW ch \in 1 .. Len(textChannels), NEW n \in 1 .. MaxQueue, pendingMessageRemoved(ch, n)
      PROVE  WatcherInv'
  <2> DEFINE q == RemoveAt(textChannels[ch].queue, n)
  <2>1. q \in Seq(Kinds) /\ textChannels' = [textChannels EXCEPT ![ch].queue = q] /\ Announce(ch)
    BY <1>0, <1>5, RemovedQueue DEF pendingMessageRemoved, RemovalAnnounced
  <2> HIDE DEF q
  <2>2. firstUpdates \in SUBSET firstUpdates /\ firstUpdates \ firstUpdates \subseteq {ch}
    OBVIOUS
  <2> QED
    BY <1>5, <2>1, <2>2, QueueChangeKeeps DEF pendingMessageRemoved
<1> QED
  BY <1>0, <1>1, <1>2, <1>3, <1>4, <1>5, InvalidatedKeeps, ListedKeeps, UnlistedKeeps, RenewedKeeps,
     ObserveKeeps DEF WatcherNext, Kinds

\* A view shows how many messages are unread in the channel that a contact is watched on,
\* once the first updates are delivered, as long as the watcher has the contact's row:
\* for any contacts and ids that begin alike, channels, queues and reconnects.
THEOREM UnreadStaysShown == WatcherInit /\ [][WatcherNext]_watcherVars => []UnreadIsShown
<1>1. WatcherInit => WatcherInv
  <2> SUFFICES ASSUME WatcherInit PROVE WatcherInv
    OBVIOUS
  <2>1. /\ listed \in Seq(Buddies) /\ textChannels \in Seq(WatchedChannels) /\ DOMAIN m_index = {}
        /\ Range(listed) = {}
    BY EmptySeq DEF WatcherInit, Range
  <2> QED
    BY <2>1 DEF WatcherInit, WatcherInv, WatcherTypes, CurrentIsOwn, UnreadIsShown
<1>2. WatcherInv => UnreadIsShown
  BY DEF WatcherInv
<1> QED
  BY <1>1, <1>2, NextWatcherInv, PTL

(***************************************************************************)
(* The dialog that joins a room.  As long as queries do not overlap, the   *)
(* one under way is the last, and the button is set by its state.          *)
(***************************************************************************)
QueryStates == {"new", "requested", "opened", "asked", "listing", "listed", "closing",
                "closed", "failed"}

QueryTypes ==
    /\ queryState \in [QueryIds -> QueryStates]
    /\ startsQuery \in Nat /\ stopsQuery \in Nat

\* The query under way is the last one, and its channel is the one that is used.
OneQuery ==
    /\ UnderWay \subseteq {pendingRoomListChannel}
    /\ foundRooms \subseteq {pendingRoomListChannel}
    /\ \A q \in QueryIds :
         /\ queryState[q] \in {"opened", "asked", "listing"} => roomListChannel = q
         /\ queryState[q] # "listed"

\* The button stops a query that lists or that was stopped, and otherwise starts one.
ButtonFollows ==
    IF \E q \in QueryIds : queryState[q] \in {"listing", "closing"}
    THEN startsQuery = 0 /\ stopsQuery = 1 ELSE startsQuery = 1 /\ stopsQuery = 0

QueryInv ==
    /\ QueryTypes
    /\ ~overlapped => OneQuery
    /\ ~overlapped /\ ~broken => ButtonFollows

RoomsInv ==
    /\ roomRows \in [Rooms -> {"bookmarked", "plain", "absent"}]
    /\ RoomsRemembered

JoinInv == QueryInv /\ RoomsInv

\* A set of numbers that is not empty has a least one.
LEMMA LeastOfSome ==
    ASSUME NEW S \in SUBSET Nat, S # {} PROVE Min(S) \in S /\ \A y \in S : Min(S) <= y
<1>1. IsWellFoundedOn({ss \in Nat \X Nat : ss[1] < ss[2]}, Nat)
  BY NatLessThanWellFounded DEF OpToRel
<1>2. PICK x \in S : \A y \in S : <<y, x>> \notin {ss \in Nat \X Nat : ss[1] < ss[2]}
  BY <1>1, WFMin
<1>3. \A y \in S : x <= y
  <2> SUFFICES ASSUME NEW y \in S PROVE x <= y
    OBVIOUS
  <2>1. <<y, x>> \notin {ss \in Nat \X Nat : ss[1] < ss[2]}
    BY <1>2
  <2>2. <<y, x>> \in Nat \X Nat /\ <<y, x>>[1] = y /\ <<y, x>>[2] = x
    OBVIOUS
  <2>3. ~(y < x)
    BY <2>1, <2>2
  <2>4. y \in Nat /\ x \in Nat
    OBVIOUS
  <2> QED
    BY <2>3, <2>4
<1> QED
  BY <1>3 DEF Min

\* A query is started.
LEMMA GetRoomListKeeps ==
    ASSUME QueryInv, NEW times \in Nat, getRoomList(times) PROVE QueryInv'
<1> DEFINE unasked == {q \in QueryIds : queryState[q] = "new"}
           new == Min(unasked) .. Min(unasked) + times - 1
<1>1. /\ times > 0
      /\ queryState' = [q \in QueryIds |-> IF q \in new THEN "requested" ELSE queryState[q]]
      /\ foundRooms' = {} /\ pendingRoomListChannel' = Max(new)
      /\ overlapped' = (overlapped \/ UnderWay # {} \/ times > 1)
      /\ UNCHANGED <<roomListChannel, startsQuery, stopsQuery, broken>>
      /\ Cardinality(unasked) >= times
  BY DEF getRoomList, clearRoomInfoList
<1>2. QueryTypes'
  BY <1>1 DEF QueryInv, QueryTypes, QueryStates
<1>3. ASSUME ~overlapped' PROVE OneQuery' /\ (~broken' => ButtonFollows')
  <2>1. ~overlapped /\ UnderWay = {} /\ ~(times > 1)
    BY <1>1, <1>3
  <2>2. unasked # {} /\ unasked \in SUBSET Nat
    <3>1. unasked # {}
      <4> SUFFICES ASSUME unasked = {} PROVE FALSE
        OBVIOUS
      <4>1. Cardinality(unasked) = 0
        BY FS_EmptySet
      <4> QED
        BY <4>1, <1>1, <2>1
    <3> QED
      BY <3>1 DEF QueryIds
  <2>3. Min(unasked) \in unasked /\ Min(unasked) \in Nat
    BY <2>2, LeastOfSome
  <2> DEFINE m == Min(unasked)
  <2>4. new = {m} /\ m \in QueryIds /\ queryState[m] = "new"
    <3>1. times = 1
      BY <1>1, <2>1
    <3>2. m \in Nat /\ m \in unasked
      BY <2>3
    <3> HIDE DEF m
    <3>3. m .. (m + times) - 1 = {m}
      BY <3>1, <3>2
    <3> QED
      BY <3>2, <3>3 DEF m
  <2>5. Max(new) = m
    BY <2>3, <2>4 DEF Max
  <2> HIDE DEF m, new, unasked
  <2>6. \A q \in QueryIds : q # m => queryState[q] \in Ended
    BY <2>1 DEF UnderWay
  <2>7. /\ \A q \in QueryIds : queryState'[q] = IF q = m THEN "requested" ELSE queryState[q]
        /\ pendingRoomListChannel' = m
    BY <1>1, <2>4, <2>5
  <2>8. UnderWay' \subseteq {m}
    BY <2>6, <2>7 DEF UnderWay
  <2>9. OneQuery'
    BY <1>1, <2>6, <2>7, <2>8 DEF OneQuery, Ended
  <2>10. ASSUME ~broken' PROVE ButtonFollows'
    <3>1. \A q \in QueryIds : queryState[q] \in Ended
      BY <2>4, <2>6 DEF Ended
    <3>2. startsQuery' = 1 /\ stopsQuery' = 0
      BY <1>1, <2>1, <2>10, <3>1 DEF QueryInv, ButtonFollows, Ended
    <3> QED
      BY <2>7, <3>1, <3>2 DEF ButtonFollows, Ended
  <2> QED
    BY <2>9, <2>10
<1> QED
  BY <1>2, <1>3 DEF QueryInv

\* A query, or its channel, goes on.
LEMMA QueryStepKeeps == QueryInv /\ QueryStep => QueryInv'
<1> SUFFICES ASSUME QueryInv, QueryStep PROVE QueryInv'
  OBVIOUS
<1>0. /\ queryState \in [QueryIds -> QueryStates] /\ startsQuery \in Nat /\ stopsQuery \in Nat
      /\ ~overlapped => OneQuery
      /\ ~overlapped /\ ~broken => ButtonFollows
  BY DEF QueryInv, QueryTypes
<1>1. ASSUME NEW q \in QueryIds, NEW error \in BOOLEAN, onRoomListChannelReadyForHandling(q, error)
      PROVE  QueryInv'
  <2>1. /\ queryState[q] = "requested"
        /\ queryState' = [queryState EXCEPT ![q] = IF error THEN "failed" ELSE "opened"]
        /\ roomListChannel' = IF error THEN roomListChannel ELSE pendingRoomListChannel
        /\ UNCHANGED <<foundRooms, pendingRoomListChannel, startsQuery, stopsQuery, overlapped, broken>>
    BY <1>1 DEF onRoomListChannelReadyForHandling, Moves
  <2>2. QueryTypes'
    BY <1>0, <2>1 DEF QueryTypes, QueryStates
  <2>3. ASSUME ~overlapped PROVE OneQuery'
    <3>1. q = pendingRoomListChannel
      BY <1>0, <2>1, <2>3 DEF OneQuery, UnderWay, Ended
    <3>2. \A r \in QueryIds : r # q => queryState[r] \in Ended
      BY <1>0, <2>3, <3>1 DEF OneQuery, UnderWay
    <3> QED
      BY <1>0, <2>1, <2>3, <3>1, <3>2 DEF OneQuery, UnderWay, Ended
  <2>4. ASSUME ~overlapped, ~broken PROVE ButtonFollows'
    <3>1. \A r \in QueryIds : queryState'[r] \in {"listing", "closing"} <=> queryState[r] \in {"listing", "closing"}
      BY <1>0, <2>1
    <3> QED
      BY <1>0, <2>1, <2>4, <3>1 DEF ButtonFollows
  <2> QED
    BY <2>1, <2>2, <2>3, <2>4 DEF QueryInv
<1>2. ASSUME NEW q \in QueryIds, NEW error \in BOOLEAN, onRoomListChannelReady(q, error)
      PROVE  QueryInv'
  <2>1. /\ queryState[q] = "opened"
        /\ queryState' = IF error THEN [queryState EXCEPT ![q] = "failed"]
                         ELSE [queryState EXCEPT ![q] = "failed", ![roomListChannel] = "asked"]
        /\ UNCHANGED <<roomListChannel, foundRooms, pendingRoomListChannel, startsQuery, stopsQuery,
                       overlapped, broken>>
    BY <1>2 DEF onRoomListChannelReady
  <2>2. QueryTypes'
    BY <1>0, <2>1 DEF QueryTypes, QueryStates
  <2>3. ASSUME ~overlapped
        PROVE  /\ q = pendingRoomListChannel /\ roomListChannel = q
               /\ \A r \in QueryIds : r # q => queryState[r] \in Ended /\ queryState'[r] = queryState[r]
               /\ queryState'[q] \in {"failed", "asked"}
    BY <1>0, <2>1, <2>3 DEF OneQuery, UnderWay, Ended
  <2>4. ASSUME ~overlapped PROVE OneQuery'
    BY <1>0, <2>1, <2>3, <2>4 DEF OneQuery, UnderWay, Ended
  <2>5. ASSUME ~overlapped, ~broken PROVE ButtonFollows'
    <3>1. \A r \in QueryIds : queryState'[r] \in {"listing", "closing"} <=> queryState[r] \in {"listing", "closing"}
      BY <2>1, <2>3, <2>5
    <3> QED
      BY <1>0, <2>1, <2>5, <3>1 DEF ButtonFollows
  <2> QED
    BY <2>1, <2>2, <2>4, <2>5 DEF QueryInv
<1>3. ASSUME NEW q \in QueryIds, onListingStarted(q) PROVE QueryInv'
  <2>1. /\ queryState[q] = "asked" /\ queryState' = [queryState EXCEPT ![q] = "listing"]
        /\ startsQuery' = 0 /\ stopsQuery' = stopsQuery + 1
        /\ UNCHANGED <<roomListChannel, foundRooms, pendingRoomListChannel, overlapped, broken>>
    BY <1>3 DEF onListingStarted, Moves
  <2>2. QueryTypes'
    BY <1>0, <2>1 DEF QueryTypes, QueryStates
  <2>3. ASSUME ~overlapped
        PROVE  /\ q = pendingRoomListChannel /\ roomListChannel = q
               /\ \A r \in QueryIds : r # q => queryState[r] \in Ended /\ queryState'[r] = queryState[r]
               /\ queryState'[q] = "listing"
    BY <1>0, <2>1, <2>3 DEF OneQuery, UnderWay, Ended
  <2>4. ASSUME ~overlapped PROVE OneQuery'
    BY <1>0, <2>1, <2>3, <2>4 DEF OneQuery, UnderWay, Ended
  <2>5. ASSUME ~overlapped, ~broken PROVE ButtonFollows'
    <3>1. stopsQuery = 0
      BY <1>0, <2>1, <2>3, <2>5 DEF ButtonFollows, Ended
    <3> QED
      BY <2>1, <2>3, <2>5, <3>1 DEF ButtonFollows
  <2> QED
    BY <2>1, <2>2, <2>4, <2>5 DEF QueryInv
<1>4. ASSUME NEW q \in QueryIds, onListingEnded(q) PROVE QueryInv'
  <2>1. /\ queryState[q] = "listing"
        /\ queryState' = [queryState EXCEPT ![q] = "listed", ![roomListChannel] = "closing"]
        /\ UNCHANGED <<roomListChannel, foundRooms, pendingRoomListChannel, startsQuery, stopsQuery,
                       overlapped, broken>>
    BY <1>4 DEF onListingEnded
  <2>2. QueryTypes'
    BY <1>0, <2>1 DEF QueryTypes, QueryStates
  <2>3. ASSUME ~overlapped
        PROVE  /\ q = pendingRoomListChannel /\ roomListChannel = q
               /\ \A r \in QueryIds : r # q => queryState[r] \in Ended /\ queryState'[r] = queryState[r]
               /\ queryState'[q] = "closing"
    BY <1>0, <2>1, <2>3 DEF OneQuery, UnderWay, Ended
  <2>4. ASSUME ~overlapped PROVE OneQuery'
    BY <1>0, <2>1, <2>3, <2>4 DEF OneQuery, UnderWay, Ended
  <2>5. ASSUME ~overlapped, ~broken PROVE ButtonFollows'
    BY <1>0, <2>1, <2>3, <2>5 DEF ButtonFollows
  <2> QED
    BY <2>1, <2>2, <2>4, <2>5 DEF QueryInv
<1>5. ASSUME NEW q \in QueryIds, NEW error \in BOOLEAN, onRoomListChannelClosed(q, error)
      PROVE  QueryInv'
  <2>1. /\ queryState[q] = "closing" /\ queryState' = [queryState EXCEPT ![q] = "closed"]
        /\ broken' = (broken \/ error)
        /\ IF error THEN startsQuery' = startsQuery /\ stopsQuery' = stopsQuery
           ELSE startsQuery' = startsQuery + 1 /\ stopsQuery' = 0
        /\ UNCHANGED <<roomListChannel, foundRooms, pendingRoomListChannel, overlapped>>
    BY <1>5 DEF onRoomListChannelClosed, Moves, StartsAgain
  <2>2. QueryTypes'
    BY <1>0, <2>1 DEF QueryTypes, QueryStates
  <2>3. ASSUME ~overlapped
        PROVE  /\ q = pendingRoomListChannel
               /\ \A r \in QueryIds : r # q => queryState[r] \in Ended /\ queryState'[r] = queryState[r]
               /\ queryState'[q] = "closed"
    BY <1>0, <2>1, <2>3 DEF OneQuery, UnderWay, Ended
  <2>4. ASSUME ~overlapped PROVE OneQuery'
    BY <1>0, <2>1, <2>3, <2>4 DEF OneQuery, UnderWay, Ended
  <2>5. ASSUME ~overlapped, ~broken' PROVE ButtonFollows'
    <3>1. startsQuery = 0
      BY <1>0, <2>1, <2>5 DEF ButtonFollows
    <3>2. startsQuery' = 1 /\ stopsQuery' = 0
      BY <2>1, <2>5, <3>1
    <3> QED
      BY <2>3, <2>5, <3>2 DEF ButtonFollows, Ended
  <2> QED
    BY <2>1, <2>2, <2>4, <2>5 DEF QueryInv
<1>6. ASSUME NEW q \in QueryIds, onGotRooms(q) PROVE QueryInv'
  <2>1. /\ queryState[q] = "listing" /\ foundRooms' = foundRooms \cup {q}
        /\ UNCHANGED <<queryState, roomListChannel, pendingRoomListChannel, startsQuery, stopsQuery,
                       overlapped, broken>>
    BY <1>6 DEF onGotRooms
  <2>2. ~overlapped => q = pendingRoomListChannel
    BY <1>0, <2>1 DEF OneQuery, UnderWay, Ended
  <2> QED
    BY <2>1, <2>2 DEF QueryInv, QueryTypes, OneQuery, UnderWay, ButtonFollows
<1>7. ASSUME NEW q \in QueryIds, ChannelLost(q) PROVE QueryInv'
  <2>1. /\ queryState[q] \in {"opened", "asked", "listing"}
        /\ queryState' = [queryState EXCEPT ![q] = "closed"]
        /\ broken' = TRUE
        /\ UNCHANGED <<roomListChannel, foundRooms, pendingRoomListChannel, startsQuery, stopsQuery,
                       overlapped>>
    BY <1>7 DEF ChannelLost, Moves
  <2>2. QueryTypes'
    BY <1>0, <2>1 DEF QueryTypes, QueryStates
  <2>3. ASSUME ~overlapped PROVE OneQuery'
    BY <1>0, <2>1, <2>3 DEF OneQuery, UnderWay, Ended
  <2> QED
    BY <2>1, <2>2, <2>3 DEF QueryInv
<1>8. ASSUME getRoomList(startsQuery) \/ getRoomList(1) PROVE QueryInv'
  BY <1>0, <1>8, GetRoomListKeeps
<1> QED
  BY <1>1, <1>2, <1>3, <1>4, <1>5, <1>6, <1>7, <1>8 DEF QueryStep

\* A room is marked, renamed, joined, or the recent ones are cleared.
LEMMA RoomStepKeeps == RoomsInv /\ RoomStep => RoomsInv'
<1> SUFFICES ASSUME RoomsInv, RoomStep PROVE RoomsInv'
  OBVIOUS
<1>0. roomRows \in [Rooms -> {"bookmarked", "plain", "absent"}]
  BY DEF RoomsInv
<1>1. ASSUME NEW key \in Rooms, NEW b \in BOOLEAN, Bookmark(key, b) PROVE RoomsInv'
  BY <1>0, <1>1 DEF Bookmark, onFavoriteRoomDataChanged, RoomsInv, RoomsRemembered, Row
<1>2. ASSUME NEW key \in Rooms, NEW new \in Rooms, Rename(key, new) PROVE RoomsInv'
  BY <1>0, <1>2 DEF Rename, onFavoriteRoomDataChanged, RoomsInv, RoomsRemembered, Row
<1>3. ASSUME NEW key \in Rooms, addRecentRoom(key) PROVE RoomsInv'
  BY <1>0, <1>3 DEF addRecentRoom, RoomsInv, RoomsRemembered, Row
<1>4. ASSUME clearRecentRooms PROVE RoomsInv'
  BY <1>0, <1>4 DEF clearRecentRooms, RoomsInv, RoomsRemembered, Row
<1> QED
  BY <1>1, <1>2, <1>3, <1>4 DEF RoomStep

\* Every step keeps the invariant.
LEMMA NextJoinInv == JoinInv /\ [JoinNext]_joinVars => JoinInv'
<1> SUFFICES ASSUME JoinInv, [JoinNext]_joinVars PROVE JoinInv'
  OBVIOUS
<1>1. ASSUME QueryStep PROVE RoomsInv'
  <2>1. UNCHANGED roomVars
    BY <1>1 DEF QueryStep, getRoomList, onRoomListChannelReadyForHandling, onRoomListChannelReady,
                onListingStarted, onListingEnded, onRoomListChannelClosed, onGotRooms, ChannelLost
  <2> QED
    BY <2>1 DEF JoinInv, RoomsInv, RoomsRemembered, Row, roomVars
<1>2. ASSUME RoomStep PROVE UNCHANGED queryVars
  BY <1>2 DEF RoomStep, addRecentRoom, Bookmark, Rename, clearRecentRooms, RoomChange
<1>3. ASSUME UNCHANGED queryVars PROVE QueryInv'
  BY <1>3 DEF queryVars, JoinInv, QueryInv, QueryTypes, OneQuery, UnderWay, ButtonFollows
<1>4. ASSUME UNCHANGED joinVars PROVE JoinInv'
  <2>1. UNCHANGED queryVars /\ UNCHANGED roomVars
    BY <1>4 DEF joinVars
  <2> QED
    BY <1>3, <2>1 DEF JoinInv, RoomsInv, RoomsRemembered, Row, roomVars
<1> QED
  BY <1>1, <1>2, <1>3, <1>4, QueryStepKeeps, RoomStepKeeps DEF JoinNext, JoinInv

\* The button of the dialog that joins rooms starts and stops what it should, and the rooms
\* are saved as they are shown, for any number of queries and rooms.
THEOREM JoinDialogKeepsWorking == JoinInit /\ [][JoinNext]_joinVars => []JoinDialogWorks
<1>1. JoinInit => JoinInv
  BY DEF JoinInit, JoinInv, QueryInv, QueryTypes, QueryStates, OneQuery, UnderWay, Ended,
         ButtonFollows, RoomsInv, RoomsRemembered, Row
<1>2. JoinInv => JoinDialogWorks
  BY DEF JoinInv, QueryInv, QueryTypes, OneQuery, ButtonFollows, RoomsInv, UnderWay, Ended,
         JoinDialogWorks, QueryButtonWorks
<1> QED
  BY <1>1, <1>2, NextJoinInv, PTL

(***************************************************************************)
(* The dialogs.  A request is under way only in a dialog that is open and  *)
(* disabled, and it is for the account that was current at the OK, unless  *)
(* another became current.                                                 *)
(***************************************************************************)
DialogTypes ==
    /\ dialog \in {"add", "start", "join"}
    /\ connectionOf \in [DialogAccounts -> Nat] /\ timesConnected \in [DialogAccounts -> Nat]
    /\ acceptInProgress \in BOOLEAN /\ stuck \in BOOLEAN /\ moved \in BOOLEAN /\ retyped \in BOOLEAN

\* What was asked of the account and the room that the user had chosen.
AskedAsChosen == moved \/ (reached = target /\ (retyped \/ joinedRoom = clickedRoom))

RequestInv ==
    /\ closed # "no" => request = "none"
    /\ stuck => request = "none" /\ acceptInProgress
    /\ request # "none" => acceptInProgress
    /\ closed = "no" /\ acceptInProgress /\ ~stuck => request # "none"
    /\ request = "send" \/ closed = "accepted" => AskedAsChosen
    /\ dialog = "start" /\ request \in {"lookup", "found"} =>
         moved \/ (selected \in DialogAccounts /\ target = <<selected, connectionOf[selected]>>)

RoomInv ==
    /\ dialog # "join" => joinedRoom = clickedRoom
    /\ dialog # "start" => ~stuck
    /\ ~retyped => roomText = currentRow

DialogInv == DialogTypes /\ AccountsOffered /\ RequestInv /\ RoomInv

\* The filter is applied to the account that changed.
LEMMA PropertyKeepsOffered ==
    ASSUME AccountsOffered, NEW a0 \in DialogAccounts, PropertyChange(a0), dialog' = dialog,
           \A b \in DialogAccounts : b # a0 =>
              (Matches(b, connectionOf', rosterReady') <=> Matches(b, connectionOf, rosterReady))
    PROVE  /\ AccountsOffered'
           /\ selected \in offered' => selected' = selected
           /\ selected \notin offered' => selected' \in offered' \/ selected' = NoAccount
<1>1. \A b \in DialogAccounts : Matches(b, connectionOf, rosterReady)' <=> Matches(b, connectionOf', rosterReady')
  BY DEF Matches, Subscribable
<1>2. offered' = IF Matches(a0, connectionOf', rosterReady') THEN offered \cup {a0} ELSE offered \ {a0}
  BY DEF PropertyChange
<1>3. offered = {b \in DialogAccounts : Matches(b, connectionOf, rosterReady)}
  BY DEF AccountsOffered
<1>4. \A b \in DialogAccounts : b \in offered' <=> Matches(b, connectionOf', rosterReady')
  BY <1>2, <1>3
<1>5. offered' \subseteq DialogAccounts
  BY <1>2, <1>3
<1>6. offered' = {b \in DialogAccounts : Matches(b, connectionOf, rosterReady)'}
  BY <1>1, <1>4, <1>5
<1>7. selected' \in IF selected \in offered' THEN {selected}
                    ELSE IF offered' = {} THEN {NoAccount} ELSE offered'
  BY DEF PropertyChange
<1> QED
  BY <1>6, <1>7 DEF AccountsOffered

\* An account that stays on the list keeps its connection.
LEMMA AccountStepKeeps ==
    ASSUME DialogInv, NEW a0 \in DialogAccounts, PropertyChange(a0),
           dialog' = dialog, UNCHANGED requestVars, UNCHANGED typedVars,
           connectionOf' \in [DialogAccounts -> Nat], timesConnected' \in [DialogAccounts -> Nat],
           \A b \in DialogAccounts : b # a0 =>
              (Matches(b, connectionOf', rosterReady') <=> Matches(b, connectionOf, rosterReady)),
           \A b \in DialogAccounts : connectionOf'[b] # 0 /\ connectionOf[b] # 0 =>
              connectionOf'[b] = connectionOf[b]
    PROVE  DialogInv'
<1>1. AccountsOffered' /\ (selected \in offered' => selected' = selected)
  BY PropertyKeepsOffered DEF DialogInv
<1>2. moved' \in BOOLEAN /\ (moved => moved') /\ (acceptInProgress /\ selected' # selected => moved')
  BY DEF PropertyChange, DialogInv, DialogTypes
<1>3. DialogTypes'
  BY <1>2 DEF DialogInv, DialogTypes, requestVars, typedVars
<1>4. ASSUME dialog = "start", request \in {"lookup", "found"}, ~moved'
      PROVE  selected' \in DialogAccounts /\ target = <<selected', connectionOf'[selected']>>
  <2>1. selected' = selected /\ selected \in DialogAccounts
        /\ target = <<selected, connectionOf[selected]>>
    BY <1>2, <1>4 DEF DialogInv, RequestInv
  <2>2. selected \in offered /\ selected \in offered'
    BY <1>1, <2>1, DialogAssumption DEF DialogInv, AccountsOffered
  <2>3. connectionOf[selected] # 0 /\ connectionOf'[selected] # 0
    BY <1>1, <2>2 DEF DialogInv, AccountsOffered, Matches
  <2> QED
    BY <2>1, <2>3
<1>5. RequestInv'
  BY <1>2, <1>4 DEF DialogInv, RequestInv, AskedAsChosen, requestVars, typedVars
<1>6. RoomInv'
  BY DEF DialogInv, RoomInv, requestVars, typedVars
<1> QED
  BY <1>1, <1>3, <1>5, <1>6 DEF DialogInv

\* Accounts connect, disconnect and have their contact lists upgraded.
LEMMA AccountsKeep ==
    ASSUME DialogInv, NEW a \in DialogAccounts,
           \/ Connects(a) \/ Disconnects(a)
           \/ \E n \in 1 .. MaxLinks, error \in BOOLEAN : onAccountUpgraded(a, n, error)
    PROVE  DialogInv'
<1>0. connectionOf \in [DialogAccounts -> Nat] /\ timesConnected \in [DialogAccounts -> Nat]
  BY DEF DialogInv, DialogTypes
<1>1. ASSUME Connects(a) PROVE DialogInv'
  <2>1. /\ connectionOf' \in [DialogAccounts -> Nat] /\ timesConnected' \in [DialogAccounts -> Nat]
        /\ \A b \in DialogAccounts : b # a => connectionOf'[b] = connectionOf[b]
        /\ connectionOf[a] = 0 /\ rosterReady' = rosterReady
    BY <1>0, <1>1 DEF Connects
  <2>2. \A b \in DialogAccounts : b # a =>
          (Matches(b, connectionOf', rosterReady') <=> Matches(b, connectionOf, rosterReady))
    BY <2>1 DEF Matches, Subscribable
  <2> QED
    BY <1>1, <2>1, <2>2, AccountStepKeeps DEF Connects
<1>2. ASSUME Disconnects(a) PROVE DialogInv'
  <2>1. /\ connectionOf' \in [DialogAccounts -> Nat] /\ timesConnected' = timesConnected
        /\ \A b \in DialogAccounts : b # a => connectionOf'[b] = connectionOf[b]
        /\ connectionOf'[a] = 0 /\ rosterReady' = rosterReady
    BY <1>0, <1>2 DEF Disconnects
  <2>2. \A b \in DialogAccounts : b # a =>
          (Matches(b, connectionOf', rosterReady') <=> Matches(b, connectionOf, rosterReady))
    BY <2>1 DEF Matches, Subscribable
  <2> QED
    BY <1>0, <1>2, <2>1, <2>2, AccountStepKeeps DEF Disconnects
<1>3. ASSUME NEW n \in 1 .. MaxLinks, NEW error \in BOOLEAN, onAccountUpgraded(a, n, error)
      PROVE  DialogInv'
  <2>1. /\ connectionOf' = connectionOf /\ timesConnected' = timesConnected
        /\ rosterReady' = IF error THEN rosterReady ELSE rosterReady \cup {<<a, n>>}
    BY <1>3 DEF onAccountUpgraded
  <2>2. \A b \in DialogAccounts : b # a =>
          (Matches(b, connectionOf', rosterReady') <=> Matches(b, connectionOf, rosterReady))
    BY <2>1 DEF Matches, Subscribable
  <2> QED
    BY <1>0, <1>3, <2>1, <2>2, AccountStepKeeps DEF onAccountUpgraded
<1> QED
  BY <1>1, <1>2, <1>3

\* Steps that leave the accounts alone.
LEMMA OfferedKept ==
    ASSUME AccountsOffered, UNCHANGED <<dialog, accountVars, offered, selected>>
    PROVE  AccountsOffered'
<1>1. \A b \in DialogAccounts : Matches(b, connectionOf, rosterReady)' <=> Matches(b, connectionOf, rosterReady)
  BY DEF Matches, Subscribable, accountVars
<1> QED
  BY <1>1 DEF AccountsOffered

\* The account is selected, and requests are made and answered.
LEMMA RequestsKeep ==
    ASSUME DialogInv,
           \/ \E a \in DialogAccounts : SelectAccount(a)
           \/ (lookUpContact /\ dialog \in {"add", "start"}) \/ closeEvent
           \/ onContactsForIdentifiersFinished \/ onPendingContactFinished
           \/ \E answer \in {"found", "failed"} : LookupAnswered(answer)
           \/ \E error \in BOOLEAN : \/ onRequestPresenceSubscriptionFinished(error)
                                     \/ _k_onStartChatFinished(error) \/ onJoinFinished(error)
    PROVE  DialogInv'
<1>0. /\ dialog \in {"add", "start", "join"}
      /\ acceptInProgress \in BOOLEAN /\ stuck \in BOOLEAN /\ moved \in BOOLEAN /\ retyped \in BOOLEAN
      /\ AccountsOffered /\ RequestInv /\ RoomInv
      /\ connectionOf \in [DialogAccounts -> Nat] /\ timesConnected \in [DialogAccounts -> Nat]
      /\ offered \subseteq DialogAccounts
  BY DEF DialogInv, DialogTypes, AccountsOffered
<1>1. ASSUME NEW a \in DialogAccounts, SelectAccount(a) PROVE DialogInv'
  <2>1. /\ ~acceptInProgress /\ closed = "no" /\ a \in offered /\ selected' = a
        /\ UNCHANGED <<dialog, connectionOf, timesConnected, rosterReady, offered, moved,
                       acceptInProgress, request, target, reached, closed, stuck,
                       roomText, currentRow, clickedRoom, joinedRoom, retyped>>
    BY <1>1 DEF SelectAccount, accountVars, requestVars, typedVars
  <2>2. \A b \in DialogAccounts : Matches(b, connectionOf, rosterReady)' <=> Matches(b, connectionOf, rosterReady)
    BY <2>1 DEF Matches, Subscribable
  <2>3. AccountsOffered'
    BY <1>0, <2>1, <2>2 DEF AccountsOffered
  <2>4. RequestInv'
    BY <1>0, <2>1 DEF RequestInv, AskedAsChosen
  <2> QED
    BY <1>0, <2>1, <2>3, <2>4 DEF DialogInv, DialogTypes, RoomInv
<1>2. ASSUME lookUpContact, dialog \in {"add", "start"} PROVE DialogInv'
  <2>1. /\ ~acceptInProgress /\ closed = "no" /\ selected # NoAccount
        /\ target' = <<selected, connectionOf[selected]>> /\ request' = "lookup"
        /\ acceptInProgress' = TRUE /\ moved' = FALSE
        /\ UNCHANGED <<dialog, accountVars, offered, selected, reached, closed, stuck,
                       roomText, currentRow, clickedRoom, joinedRoom, retyped>>
    BY <1>2 DEF lookUpContact, setInProgress, typedVars
  <2>2. AccountsOffered'
    BY <1>0, <2>1, OfferedKept
  <2>3. selected \in DialogAccounts
    BY <1>0, <2>1 DEF AccountsOffered
  <2>4. RequestInv'
    BY <1>0, <2>1, <2>3 DEF RequestInv, accountVars
  <2> QED
    BY <1>0, <2>1, <2>2, <2>4 DEF DialogInv, DialogTypes, RoomInv, accountVars
<1>3. ASSUME closeEvent PROVE DialogInv'
  <2>1. /\ ~acceptInProgress /\ closed = "no" /\ closed' = "cancelled"
        /\ UNCHANGED <<dialog, accountVars, offered, selected, moved,
                       acceptInProgress, request, target, reached, stuck,
                       roomText, currentRow, clickedRoom, joinedRoom, retyped>>
    BY <1>3 DEF closeEvent, typedVars
  <2>2. AccountsOffered'
    BY <1>0, <2>1, OfferedKept
  <2>3. RequestInv'
    BY <1>0, <2>1 DEF RequestInv, AskedAsChosen, accountVars
  <2> QED
    BY <1>0, <2>1, <2>2, <2>3 DEF DialogInv, DialogTypes, RoomInv, accountVars
<1>4. ASSUME onContactsForIdentifiersFinished PROVE DialogInv'
  <2>1. /\ dialog = "add" /\ request \in {"found", "failed"}
        /\ \/ request' = "none" /\ acceptInProgress' = FALSE /\ reached' = reached
           \/ request' = "send" /\ reached' = target /\ acceptInProgress' = acceptInProgress
        /\ UNCHANGED <<dialog, accountVars, offered, selected, moved, target, closed, stuck,
                       roomText, currentRow, clickedRoom, joinedRoom, retyped>>
    BY <1>4 DEF onContactsForIdentifiersFinished, setInProgress, typedVars
  <2>2. AccountsOffered'
    BY <1>0, <2>1, OfferedKept
  <2>3. RequestInv'
    BY <1>0, <2>1 DEF RequestInv, AskedAsChosen, RoomInv
  <2> QED
    BY <1>0, <2>1, <2>2, <2>3 DEF DialogInv, DialogTypes, RoomInv, accountVars
<1>5. ASSUME onPendingContactFinished PROVE DialogInv'
  <2>1. /\ dialog = "start" /\ acceptInProgress' = acceptInProgress
        /\ \/ /\ request = "failed"
              /\ request' = "none" /\ stuck' = TRUE /\ reached' = reached /\ closed' = closed
           \/ /\ request = "found" /\ selected # NoAccount
              /\ request' = "send" /\ reached' = <<selected, connectionOf[selected]>>
              /\ stuck' = stuck /\ closed' = closed
           \/ /\ request = "found" /\ selected = NoAccount
              /\ request' = "none" /\ closed' = "crashed" /\ reached' = reached /\ stuck' = stuck
        /\ UNCHANGED <<dialog, accountVars, offered, selected, moved, target,
                       roomText, currentRow, clickedRoom, joinedRoom, retyped>>
    BY <1>5 DEF onPendingContactFinished, typedVars
  <2>2. AccountsOffered'
    BY <1>0, <2>1, OfferedKept
  <2>3. RequestInv'
    BY <1>0, <2>1 DEF RequestInv, AskedAsChosen, RoomInv
  <2> QED
    BY <1>0, <2>1, <2>2, <2>3 DEF DialogInv, DialogTypes, RoomInv, accountVars
<1>6. ASSUME NEW answer \in {"found", "failed"}, LookupAnswered(answer) PROVE DialogInv'
  <2>1. /\ request = "lookup" /\ request' = answer
        /\ UNCHANGED <<dialog, accountVars, offered, selected, moved, target, closed, stuck,
                       acceptInProgress, reached,
                       roomText, currentRow, clickedRoom, joinedRoom, retyped>>
    BY <1>6 DEF LookupAnswered, typedVars
  <2>2. AccountsOffered'
    BY <1>0, <2>1, OfferedKept
  <2>3. RequestInv'
    BY <1>0, <2>1 DEF RequestInv, AskedAsChosen, accountVars
  <2> QED
    BY <1>0, <2>1, <2>2, <2>3 DEF DialogInv, DialogTypes, RoomInv, accountVars
<1>7. ASSUME NEW error \in BOOLEAN,
             \/ onRequestPresenceSubscriptionFinished(error)
             \/ _k_onStartChatFinished(error) \/ onJoinFinished(error)
      PROVE  DialogInv'
  <2>1. /\ request = "send" /\ request' = "none"
        /\ closed' = IF error THEN closed ELSE "accepted"
        /\ acceptInProgress' \in BOOLEAN /\ (error => acceptInProgress' = FALSE)
        /\ UNCHANGED <<dialog, accountVars, offered, selected, moved, target, stuck, reached,
                       roomText, currentRow, clickedRoom, joinedRoom, retyped>>
    BY <1>7 DEF onRequestPresenceSubscriptionFinished, _k_onStartChatFinished, onJoinFinished,
                requestFinished, setInProgress, typedVars
  <2>2. AccountsOffered'
    BY <1>0, <2>1, OfferedKept
  <2>3. RequestInv'
    BY <1>0, <2>1 DEF RequestInv, AskedAsChosen, accountVars
  <2> QED
    BY <1>0, <2>1, <2>2, <2>3 DEF DialogInv, DialogTypes, RoomInv, accountVars
<1> QED
  BY <1>1, <1>2, <1>3, <1>4, <1>5, <1>6, <1>7

\* Rooms are typed, clicked and joined.
LEMMA RoomsKeep ==
    ASSUME DialogInv,
           \/ JoinByButton
           \/ \E room \in DialogRooms : JoinByDoubleClick(room) \/ ClickRow(room) \/ TextChanged(room)
    PROVE  DialogInv'
<1>0. /\ dialog \in {"add", "start", "join"}
      /\ acceptInProgress \in BOOLEAN /\ stuck \in BOOLEAN /\ moved \in BOOLEAN /\ retyped \in BOOLEAN
      /\ AccountsOffered /\ RequestInv /\ RoomInv
      /\ connectionOf \in [DialogAccounts -> Nat] /\ timesConnected \in [DialogAccounts -> Nat]
  BY DEF DialogInv, DialogTypes
<1>1. ASSUME joinRoom, retyped' \in BOOLEAN, ~retyped' => roomText' = currentRow',
             retyped' \/ roomText' = clickedRoom'
      PROVE  DialogInv'
  <2>1. /\ dialog = "join" /\ ~acceptInProgress /\ closed = "no" /\ acceptInProgress' = TRUE
        /\ request' = "send" /\ reached' = target' /\ joinedRoom' = roomText' /\ moved' = FALSE
        /\ UNCHANGED <<dialog, accountVars, offered, selected, closed, stuck>>
    BY <1>1 DEF joinRoom, setInProgress
  <2>2. AccountsOffered'
    BY <1>0, <2>1, OfferedKept
  <2>3. RequestInv'
    BY <1>0, <1>1, <2>1 DEF RequestInv, AskedAsChosen
  <2> QED
    BY <1>0, <1>1, <2>1, <2>2, <2>3 DEF DialogInv, DialogTypes, RoomInv, accountVars
<1>2. ASSUME JoinByButton PROVE DialogInv'
  BY <1>0, <1>1, <1>2 DEF JoinByButton, RoomInv
<1>3. ASSUME NEW room \in DialogRooms, JoinByDoubleClick(room) PROVE DialogInv'
  BY <1>0, <1>1, <1>3 DEF JoinByDoubleClick, CurrentRow, RoomInv
<1>4. ASSUME NEW room \in DialogRooms, ClickRow(room) \/ TextChanged(room) PROVE DialogInv'
  <2>1. /\ dialog = "join" /\ ~acceptInProgress /\ closed = "no"
        /\ retyped' \in BOOLEAN /\ (~retyped' => roomText' = currentRow')
        /\ UNCHANGED <<dialog, accountVars, offered, selected, moved, acceptInProgress, request,
                       target, reached, closed, stuck, clickedRoom, joinedRoom>>
    BY <1>0, <1>4 DEF ClickRow, TextChanged, CurrentRow, RoomInv, requestVars
  <2>2. AccountsOffered'
    BY <1>0, <2>1, OfferedKept
  <2>3. RequestInv'
    BY <1>0, <2>1 DEF RequestInv
  <2> QED
    BY <1>0, <2>1, <2>2, <2>3 DEF DialogInv, DialogTypes, RoomInv, accountVars
<1> QED
  BY <1>2, <1>3, <1>4

\* Every step keeps the invariant.
LEMMA NextDialogInv == DialogInv /\ [DialogNext]_dialogVars => DialogInv'
<1> SUFFICES ASSUME DialogInv, [DialogNext]_dialogVars PROVE DialogInv'
  OBVIOUS
<1>1. ASSUME UNCHANGED dialogVars PROVE DialogInv'
  <2>1. AccountsOffered'
    BY <1>1, OfferedKept DEF dialogVars, DialogInv
  <2> QED
    BY <1>1, <2>1 DEF dialogVars, accountVars, requestVars, typedVars, DialogInv, DialogTypes,
                      RequestInv, AskedAsChosen, RoomInv
<1>2. AddContactAccept \/ StartChatAccept => lookUpContact /\ dialog \in {"add", "start"}
  BY DEF AddContactAccept, StartChatAccept
<1>3. DialogNext =>
        \/ \E a \in DialogAccounts :
             \/ Connects(a) \/ Disconnects(a)
             \/ \E n \in 1 .. MaxLinks, error \in BOOLEAN : onAccountUpgraded(a, n, error)
        \/ \E a \in DialogAccounts : SelectAccount(a)
        \/ (lookUpContact /\ dialog \in {"add", "start"}) \/ closeEvent
        \/ onContactsForIdentifiersFinished \/ onPendingContactFinished
        \/ \E answer \in {"found", "failed"} : LookupAnswered(answer)
        \/ \E error \in BOOLEAN : \/ onRequestPresenceSubscriptionFinished(error)
                                  \/ _k_onStartChatFinished(error) \/ onJoinFinished(error)
        \/ JoinByButton
        \/ \E room \in DialogRooms : JoinByDoubleClick(room) \/ ClickRow(room) \/ TextChanged(room)
  BY <1>2 DEF DialogNext
<1> QED
  BY <1>1, <1>3, AccountsKeep, RequestsKeep, RoomsKeep

\* The dialogs offer the accounts that can be used, are disabled while a request is under
\* way, and do what was asked, for any number of accounts, rooms and requests.
THEOREM DialogsKeepServing == DialogInit /\ [][DialogNext]_dialogVars => []DialogsServe
<1>1. ASSUME DialogInit PROVE DialogInv
  <2>1. DialogTypes
    <3>1. connectionOf \in [DialogAccounts -> Nat] /\ timesConnected = connectionOf
      BY <1>1 DEF DialogInit
    <3> QED
      BY <1>1, <3>1 DEF DialogInit, DialogTypes
  <2>2. AccountsOffered
    BY <1>1 DEF DialogInit, AccountsOffered
  <2>3. RequestInv /\ RoomInv
    BY <1>1 DEF DialogInit, RequestInv, RoomInv
  <2> QED
    BY <2>1, <2>2, <2>3 DEF DialogInv
<1>2. DialogInv => DialogsServe
  BY DEF DialogInv, DialogTypes, RequestInv, AskedAsChosen, DialogsServe
<1> QED
  BY <1>1, <1>2, NextDialogInv, PTL

-----------------------------------------------------------------------------
(***************************************************************************)
(* The migration of accounts.  The counter is the number of accounts that  *)
(* are being dealt with, and each of the others is where it should end.    *)
(***************************************************************************)
MigrationTypes ==
    /\ tpAccounts \in [OldAccounts -> {"plain", "sso", "removed"}]
    /\ mapped \in [OldAccounts -> {"none", "kaccount", "missing"}]
    /\ kaccounts \in [OldAccounts -> Nat]
    /\ logsOf \in [OldAccounts -> {"old", "new", "both"}]
    /\ removing \subseteq OldAccounts /\ disturbed \subseteq OldAccounts
    /\ asked \subseteq OldAccounts /\ syncing \subseteq OldAccounts /\ stored \subseteq OldAccounts
    /\ migration2Done \in BOOLEAN /\ migrationRef \in Int
    /\ process \in {"starting", "running", "ended"}

Counted == asked \cup syncing \cup stored

RefCounts ==
    /\ asked \cap syncing = {} /\ asked \cap stored = {} /\ syncing \cap stored = {}
    /\ process = "starting" => Counted = {} /\ migrationRef = 0
    /\ process = "running" => migrationRef = Cardinality(Counted)
    /\ migration2Done = TRUE => Counted = {}

\* What is true of an account that met no failure and no restart midway.
SsoUntouched(a) ==
    tpAccounts[a] = "sso" =>
        kaccounts[a] = 0 /\ logsOf[a] = "old" /\ mapped[a] = "none"
        /\ a \notin syncing \cup stored \cup removing

GoneIsMade(a) ==
    tpAccounts[a] = "removed" =>
        kaccounts[a] = 1 /\ logsOf[a] # "old" /\ a \notin Counted \cup removing

PlainIsFollowed(a) ==
    tpAccounts[a] = "plain" =>
        /\ kaccounts[a] = IF a \in stored \cup removing \/ mapped[a] = "kaccount" THEN 1 ELSE 0
        /\ a \in removing => logsOf[a] # "old" /\ process # "starting" /\ a \notin Counted
        /\ process # "starting" \/ migration2Done = TRUE =>
              mapped[a] = "none" /\ a \in Counted \cup removing

WellHandled(a) == SsoUntouched(a) /\ GoneIsMade(a) /\ PlainIsFollowed(a)

MigrationInv ==
    MigrationTypes /\ RefCounts /\ \A a \in OldAccounts \ disturbed : WellHandled(a)

\* One account fewer.
LEMMA OneFewer ==
    ASSUME NEW S, S \subseteq OldAccounts, NEW a \in S
    PROVE  /\ Cardinality(S) \in Nat /\ Cardinality(S \ {a}) = Cardinality(S) - 1
           /\ Cardinality(S) - 1 = 0 => S \ {a} = {}
<1>1. IsFiniteSet(S) /\ IsFiniteSet(S \ {a})
  BY MigrationAssumption, FS_Subset
<1>2. Cardinality(S) \in Nat
  BY <1>1, FS_CardinalityType
<1>3. Cardinality(S \ {a}) = Cardinality(S) - 1
  BY <1>1, FS_RemoveElement
<1>4. Cardinality(S \ {a}) = 0 => S \ {a} = {}
  BY <1>1, FS_EmptySet
<1> QED
  BY <1>2, <1>3, <1>4

\* The parts of the invariant that the steps cite.
LEMMA MigrationParts ==
    ASSUME MigrationInv
    PROVE  /\ tpAccounts \in [OldAccounts -> {"plain", "sso", "removed"}]
           /\ mapped \in [OldAccounts -> {"none", "kaccount", "missing"}]
           /\ kaccounts \in [OldAccounts -> Nat]
           /\ logsOf \in [OldAccounts -> {"old", "new", "both"}]
           /\ removing \subseteq OldAccounts /\ disturbed \subseteq OldAccounts
           /\ asked \subseteq OldAccounts /\ syncing \subseteq OldAccounts /\ stored \subseteq OldAccounts
           /\ migration2Done \in BOOLEAN /\ migrationRef \in Int
           /\ process \in {"starting", "running", "ended"}
           /\ asked \cap syncing = {} /\ asked \cap stored = {} /\ syncing \cap stored = {}
           /\ process = "starting" => Counted = {} /\ migrationRef = 0
           /\ process = "running" => migrationRef = Cardinality(Counted)
           /\ migration2Done = TRUE => Counted = {}
           /\ \A a \in OldAccounts \ disturbed : WellHandled(a)
BY DEF MigrationInv, MigrationTypes, RefCounts

\* The counter goes down for an account that leaves.
LEMMA Dereferenced ==
    ASSUME MigrationInv, process = "running", NEW a \in Counted, Counted' = Counted \ {a},
           removing' \subseteq OldAccounts,
           derefMigrationCount \/ DerefFailed(a)
    PROVE  /\ migrationRef' \in Int /\ migrationRef' = Cardinality(Counted') /\ migration2Done' \in BOOLEAN
           /\ migration2Done' = TRUE => Counted' = {}
           /\ disturbed \subseteq disturbed' /\ disturbed' \subseteq OldAccounts
           /\ DerefFailed(a) => a \in disturbed'
<1>1. /\ removing \subseteq OldAccounts /\ disturbed \subseteq OldAccounts /\ Counted \subseteq OldAccounts
      /\ migrationRef = Cardinality(Counted) /\ migration2Done \in BOOLEAN /\ migration2Done # TRUE
  BY MigrationParts DEF Counted
<1>2. /\ migrationRef \in Nat /\ migrationRef' = migrationRef - 1
      /\ migrationRef' = Cardinality(Counted') /\ migrationRef' \in Int
      /\ migrationRef' = 0 => Counted' = {}
  <2>1. migrationRef' = migrationRef - 1
    BY DEF derefMigrationCount, DerefFailed
  <2>2. /\ Cardinality(Counted) \in Nat /\ Cardinality(Counted \ {a}) = Cardinality(Counted) - 1
        /\ Cardinality(Counted) - 1 = 0 => Counted \ {a} = {}
    BY <1>1, OneFewer
  <2> QED
    BY <1>1, <2>1, <2>2
<1>3. migration2Done' \in BOOLEAN /\ (migration2Done' = TRUE => migrationRef' = 0)
  BY <1>1 DEF derefMigrationCount, DerefFailed
<1>4. disturbed \subseteq disturbed' /\ disturbed' \subseteq OldAccounts
  BY <1>1 DEF derefMigrationCount, DerefFailed
<1>5. DerefFailed(a) => a \in disturbed'
  BY DEF DerefFailed
<1> QED
  BY <1>2, <1>3, <1>4, <1>5

\* The storage provider of an account is known.
LEMMA ProviderKept ==
    ASSUME MigrationInv, process # "ended", NEW a \in OldAccounts, NEW error \in BOOLEAN,
           onStorageProviderRetrieved(a, error)
    PROVE  MigrationInv'
<1>1. /\ a \in asked /\ asked' = asked \ {a}
      /\ UNCHANGED <<tpAccounts, mapped, kaccounts, logsOf, removing, process, restarts, stored>>
  BY DEF onStorageProviderRetrieved
<1>2. process = "running" /\ a \in Counted /\ migration2Done # TRUE
  BY <1>1, MigrationParts DEF Counted
<1>3. CASE UNCHANGED syncing /\ (DerefFailed(a) \/ (tpAccounts[a] = "sso" /\ derefMigrationCount))
  <2>1. Counted' = Counted \ {a}
    BY <1>1, <1>3, MigrationParts DEF Counted
  <2>2. /\ migrationRef' \in Int /\ migrationRef' = Cardinality(Counted') /\ migration2Done' \in BOOLEAN
        /\ migration2Done' = TRUE => Counted' = {}
        /\ disturbed \subseteq disturbed' /\ disturbed' \subseteq OldAccounts
        /\ DerefFailed(a) => a \in disturbed'
    <3>1. removing' \subseteq OldAccounts
      BY <1>1, MigrationParts
    <3> QED
      BY <1>2, <1>3, <2>1, <3>1, Dereferenced
  <2>3. MigrationTypes'
    BY <1>1, <1>3, <2>2, MigrationParts DEF MigrationTypes
  <2>4. RefCounts'
    BY <1>1, <1>2, <1>3, <2>2, MigrationParts DEF RefCounts
  <2>5. ASSUME NEW b \in OldAccounts \ disturbed' PROVE WellHandled(b)'
    <3>1. WellHandled(b)
      BY <2>2, <2>5, MigrationParts
    <3>2. tpAccounts[b] = "plain" => b # a
      BY <1>3, <2>2, <2>5
    <3>3. tpAccounts[b] = "plain" => b \in Counted' \cup removing
      BY <1>2, <2>1, <3>1, <3>2 DEF WellHandled, PlainIsFollowed
    <3>4. SsoUntouched(b)' /\ GoneIsMade(b)'
      BY <1>1, <1>3, <3>1, <2>1 DEF WellHandled, SsoUntouched, GoneIsMade
    <3>5. PlainIsFollowed(b)'
      BY <1>1, <1>2, <1>3, <2>1, <3>1, <3>3 DEF WellHandled, PlainIsFollowed
    <3> QED
      BY <3>4, <3>5 DEF WellHandled
  <2> QED
    BY <2>3, <2>4, <2>5 DEF MigrationInv
<1>4. CASE /\ syncing' = syncing \cup {a} /\ UNCHANGED <<migrationRef, migration2Done>>
           /\ disturbed' = disturbed \/ disturbed' = disturbed \cup {a}
           /\ tpAccounts[a] = "plain" \/ a \in disturbed'
  <2>1. Counted' = Counted
    BY <1>1, <1>4 DEF Counted
  <2>2. MigrationTypes'
    BY <1>1, <1>4, MigrationParts DEF MigrationTypes
  <2>3. RefCounts'
    BY <1>1, <1>2, <1>4, <2>1, MigrationParts DEF RefCounts
  <2>4. ASSUME NEW b \in OldAccounts \ disturbed' PROVE WellHandled(b)'
    <3>1. WellHandled(b)
      BY <1>4, <2>4, MigrationParts
    <3>2. SsoUntouched(b)'
      BY <1>1, <1>4, <2>4, <3>1 DEF WellHandled, SsoUntouched
    <3>3. GoneIsMade(b)' /\ PlainIsFollowed(b)'
      BY <1>1, <1>4, <2>1, <3>1 DEF WellHandled, GoneIsMade, PlainIsFollowed
    <3> QED
      BY <3>2, <3>3 DEF WellHandled
  <2> QED
    BY <2>2, <2>3, <2>4 DEF MigrationInv
<1> QED
  BY <1>3, <1>4 DEF onStorageProviderRetrieved, CountedLater

\* The database stores an account.
LEMMA StoredKept == ASSUME MigrationInv, NEW a \in OldAccounts, AccountStored(a) PROVE MigrationInv'
<1>1. /\ a \in syncing /\ syncing' = syncing \ {a} /\ stored' = stored \cup {a}
      /\ kaccounts' = [kaccounts EXCEPT ![a] = kaccounts[a] + 1]
      /\ UNCHANGED <<tpAccounts, mapped, logsOf, removing, migration2Done, process, restarts,
                     migrationRef, asked, disturbed>>
  BY DEF AccountStored
<1>2. Counted' = Counted /\ a \in Counted
  BY <1>1 DEF Counted
<1>3. process # "starting" /\ migration2Done # TRUE /\ a \notin stored
  BY <1>1, <1>2, MigrationParts
<1>4. kaccounts' \in [OldAccounts -> Nat] /\ kaccounts'[a] = kaccounts[a] + 1
      /\ \A b \in OldAccounts \ {a} : kaccounts'[b] = kaccounts[b]
  BY <1>1, MigrationParts
<1>5. MigrationTypes'
  BY <1>1, <1>4, MigrationParts DEF MigrationTypes
<1>6. RefCounts'
  BY <1>1, <1>2, MigrationParts DEF RefCounts
<1>7. ASSUME NEW b \in OldAccounts \ disturbed' PROVE WellHandled(b)'
  <2>1. WellHandled(b)
    BY <1>1, <1>7, MigrationParts
  <2>2. SsoUntouched(b)' /\ GoneIsMade(b)'
    BY <1>1, <1>2, <1>4, <2>1 DEF WellHandled, SsoUntouched, GoneIsMade
  <2>3. PlainIsFollowed(b)'
    <3>1. CASE b # a
      BY <1>1, <1>2, <1>3, <1>4, <2>1, <3>1 DEF WellHandled, PlainIsFollowed
    <3>2. CASE b = a
      BY <1>1, <1>2, <1>3, <1>4, <2>1, <3>2, MigrationParts DEF WellHandled, PlainIsFollowed
    <3> QED
      BY <3>1, <3>2
  <2> QED
    BY <2>2, <2>3 DEF WellHandled
<1> QED
  BY <1>5, <1>6, <1>7 DEF MigrationInv

\* An account is stored.
LEMMA SyncedKept ==
    ASSUME MigrationInv, process # "ended", NEW a \in OldAccounts, onAccountSynced(a)
    PROVE  MigrationInv'
<1>1. /\ a \in stored /\ stored' = stored \ {a} /\ migrateLogs({a})
      /\ UNCHANGED <<tpAccounts, mapped, kaccounts, restarts, asked, syncing>>
  BY DEF onAccountSynced
<1>2. process = "running" /\ a \in Counted /\ migration2Done # TRUE /\ Counted' = Counted \ {a}
  BY <1>1, MigrationParts DEF Counted
<1>3. /\ logsOf' \in [OldAccounts -> {"old", "new", "both"}]
      /\ \A b \in OldAccounts \ {a} : logsOf'[b] = logsOf[b]
      /\ logsOf'[a] = "old" => tpAccounts[a] = "removed"
  BY <1>1, MigrationParts DEF migrateLogs, Present
<1>4. CASE /\ tpAccounts[a] = "removed" /\ process' = "ended" /\ disturbed' = disturbed \cup {a}
           /\ UNCHANGED <<removing, migrationRef, migration2Done>>
  <2>1. MigrationTypes'
    BY <1>1, <1>3, <1>4, MigrationParts DEF MigrationTypes
  <2>2. RefCounts'
    BY <1>1, <1>2, <1>4, MigrationParts DEF RefCounts
  <2>3. ASSUME NEW b \in OldAccounts \ disturbed' PROVE WellHandled(b)'
    <3>1. WellHandled(b) /\ b # a
      BY <1>4, <2>3, MigrationParts
    <3> QED
      BY <1>1, <1>2, <1>3, <1>4, <3>1 DEF WellHandled, SsoUntouched, GoneIsMade, PlainIsFollowed
  <2> QED
    BY <2>1, <2>2, <2>3 DEF MigrationInv
<1>5. CASE /\ tpAccounts[a] # "removed" /\ removing' = removing \cup {a} /\ derefMigrationCount
           /\ UNCHANGED process
  <2>1. /\ migrationRef' \in Int /\ migrationRef' = Cardinality(Counted') /\ migration2Done' \in BOOLEAN
        /\ migration2Done' = TRUE => Counted' = {}
        /\ disturbed \subseteq disturbed' /\ disturbed' \subseteq OldAccounts
    <3>1. removing' \subseteq OldAccounts
      BY <1>5, MigrationParts
    <3> QED
      BY <1>2, <1>5, <3>1, Dereferenced
  <2>2. MigrationTypes'
    BY <1>1, <1>3, <1>5, <2>1, MigrationParts DEF MigrationTypes
  <2>3. RefCounts'
    BY <1>1, <1>2, <1>5, <2>1, MigrationParts DEF RefCounts
  <2>4. ASSUME NEW b \in OldAccounts \ disturbed' PROVE WellHandled(b)'
    <3>1. WellHandled(b)
      BY <2>1, <2>4, MigrationParts
    <3>2. SsoUntouched(b)' /\ GoneIsMade(b)'
      <4>1. b = a => tpAccounts[b] = "plain"
        BY <1>1, <1>5, <3>1, MigrationParts DEF WellHandled, SsoUntouched
      <4> QED
        BY <1>1, <1>2, <1>3, <1>5, <3>1, <4>1 DEF WellHandled, SsoUntouched, GoneIsMade
    <3>3. PlainIsFollowed(b)'
      <4>1. CASE b # a
        BY <1>1, <1>2, <1>3, <1>5, <3>1, <4>1 DEF WellHandled, PlainIsFollowed
      <4>2. CASE b = a
        <5>1. b \notin Counted' /\ b \in removing' /\ process' # "starting"
          BY <1>2, <1>5, <4>2
        <5>2. tpAccounts[b] = "plain" => kaccounts[b] = 1 /\ mapped[b] = "none" /\ logsOf'[b] # "old"
          BY <1>1, <1>2, <1>3, <3>1, <4>2 DEF WellHandled, PlainIsFollowed
        <5> QED
          BY <1>1, <5>1, <5>2 DEF PlainIsFollowed
      <4> QED
        BY <4>1, <4>2
    <3> QED
      BY <3>2, <3>3 DEF WellHandled
  <2> QED
    BY <2>2, <2>3, <2>4 DEF MigrationInv
<1> QED
  BY <1>4, <1>5 DEF onAccountSynced

\* The accounts are looked at.
LEMMA MigrateKept == ASSUME MigrationInv, migrateWhenReady PROVE MigrationInv'
<1>1. /\ process = "starting" /\ process' = "running"
      /\ UNCHANGED <<tpAccounts, kaccounts, restarts, syncing, stored>>
  BY DEF migrateWhenReady
<1>2. Counted = {} /\ asked = {} /\ syncing = {} /\ stored = {} /\ migrationRef = 0
  BY <1>1, MigrationParts DEF Counted
<1>3. CASE migration2Done = TRUE /\ UNCHANGED <<mapped, logsOf, removing, migration2Done, migrationRef, asked, disturbed>>
  <2>1. Counted' = {} /\ Cardinality(Counted') = 0
    BY <1>1, <1>2, <1>3, FS_EmptySet DEF Counted
  <2>2. MigrationTypes'
    BY <1>1, <1>3, MigrationParts DEF MigrationTypes
  <2>3. RefCounts'
    BY <1>1, <1>2, <1>3, <2>1 DEF RefCounts
  <2>4. ASSUME NEW b \in OldAccounts \ disturbed' PROVE WellHandled(b)'
    <3>1. WellHandled(b)
      BY <1>3, <2>4, MigrationParts
    <3> QED
      BY <1>1, <1>2, <1>3, <2>1, <3>1 DEF WellHandled, SsoUntouched, GoneIsMade, PlainIsFollowed
  <2> QED
    BY <2>2, <2>3, <2>4 DEF MigrationInv
<1>4. CASE migration2Done # TRUE /\ migrateTelepathyAccounts
  <2> DEFINE linked == {a \in Present : mapped[a] = "kaccount"}
             missing == {a \in Present : mapped[a] = "missing"}
             rest == Present \ (linked \cup missing)
  <2>1. /\ migrationRef' = Cardinality(Present) - Cardinality(linked \cup missing)
        /\ mapped' = [a \in OldAccounts |-> IF a \in Present THEN "none" ELSE mapped[a]]
        /\ migrateLogs(linked \cup missing)
        /\ removing' = removing \cup linked
        /\ asked' = rest
        /\ disturbed \cup missing \subseteq disturbed' /\ disturbed' \subseteq disturbed \cup missing \cup removing'
        /\ migration2Done' \in BOOLEAN /\ (migration2Done' = TRUE => migrationRef' = 0)
    BY <1>4, MigrationParts DEF migrateTelepathyAccounts
  <2>2. Present \subseteq OldAccounts /\ linked \cup missing \subseteq Present
    BY DEF Present
  <2>3. /\ migrationRef' \in Int /\ migrationRef' = Cardinality(rest)
        /\ migrationRef' = 0 => rest = {}
    <3>1. IsFiniteSet(Present) /\ IsFiniteSet(linked \cup missing) /\ IsFiniteSet(rest)
      BY <2>2, MigrationAssumption, FS_Subset
    <3>2. Cardinality(rest) = Cardinality(Present) - Cardinality(Present \cap (linked \cup missing))
      BY <3>1, FS_Difference
    <3>3. Present \cap (linked \cup missing) = linked \cup missing
      BY <2>2
    <3>4. Cardinality(Present) \in Nat /\ Cardinality(linked \cup missing) \in Nat
      BY <3>1, FS_CardinalityType
    <3>5. Cardinality(rest) = 0 => rest = {}
      BY <3>1, FS_EmptySet
    <3>6. migrationRef' = Cardinality(Present) - Cardinality(linked \cup missing)
      BY <2>1
    <3>7. migrationRef' = Cardinality(rest)
      BY <3>2, <3>3, <3>6
    <3>8. migrationRef' \in Int
      BY <3>4, <3>6
    <3> HIDE DEF linked, missing, rest
    <3> QED
      BY <3>5, <3>7, <3>8
  <2>4. Counted' = rest
    BY <1>1, <1>2, <2>1 DEF Counted
  <2>5. /\ mapped' \in [OldAccounts -> {"none", "kaccount", "missing"}]
        /\ \A b \in OldAccounts : mapped'[b] = IF b \in Present THEN "none" ELSE mapped[b]
        /\ logsOf' \in [OldAccounts -> {"old", "new", "both"}]
        /\ \A b \in OldAccounts : logsOf'[b] = IF b \in (linked \cup missing) \cap Present /\ logsOf[b] = "old"
                                               THEN "new" ELSE logsOf[b]
    BY <2>1, MigrationParts DEF migrateLogs
  <2>6. MigrationTypes'
    <3>1. /\ removing' \subseteq OldAccounts /\ disturbed' \subseteq OldAccounts /\ asked' \subseteq OldAccounts
      BY <2>1, <2>2, MigrationParts
    <3> QED
      BY <1>1, <2>1, <2>3, <2>5, <3>1, MigrationParts DEF MigrationTypes
  <2>7. RefCounts'
    <3>1. asked' \cap syncing' = {} /\ asked' \cap stored' = {} /\ syncing' \cap stored' = {}
      BY <1>1, <1>2
    <3> HIDE DEF rest
    <3> QED
      BY <1>1, <2>1, <2>3, <2>4, <3>1 DEF RefCounts
  <2>8. ASSUME NEW b \in OldAccounts \ disturbed' PROVE WellHandled(b)'
    <3>1. WellHandled(b) /\ b \notin missing
      BY <2>1, <2>8, MigrationParts
    <3>2. SsoUntouched(b)'
      <4>1. tpAccounts[b] = "sso" => b \notin linked /\ b \notin missing
        BY <3>1 DEF WellHandled, SsoUntouched
      <4>2. tpAccounts[b] = "sso" => mapped'[b] = "none" /\ logsOf'[b] = logsOf[b] /\ b \notin removing'
        BY <2>1, <2>5, <3>1, <4>1 DEF WellHandled, SsoUntouched
      <4> QED
        BY <1>1, <1>2, <3>1, <4>2 DEF WellHandled, SsoUntouched
    <3>3. GoneIsMade(b)'
      <4>1. tpAccounts[b] = "removed" => b \notin Present /\ b \notin linked
        BY DEF Present
      <4>2. tpAccounts[b] = "removed" => logsOf'[b] = logsOf[b] /\ b \notin removing' /\ b \notin Counted'
        BY <2>1, <2>4, <2>5, <3>1, <4>1 DEF WellHandled, GoneIsMade
      <4> QED
        BY <1>1, <3>1, <4>2 DEF WellHandled, GoneIsMade
    <3>4. PlainIsFollowed(b)'
      <4> SUFFICES ASSUME tpAccounts[b] = "plain" PROVE PlainIsFollowed(b)'
        BY <1>1 DEF PlainIsFollowed
      <4>1. /\ b \in Present /\ mapped'[b] = "none" /\ b \notin removing
            /\ kaccounts[b] = IF mapped[b] = "kaccount" THEN 1 ELSE 0
        BY <1>1, <1>2, <2>5, <3>1 DEF Present, WellHandled, PlainIsFollowed
      <4>2. CASE b \in linked
        <5>1. b \in removing' /\ b \notin Counted' /\ logsOf'[b] # "old" /\ kaccounts[b] = 1
          BY <2>1, <2>4, <2>5, <4>1, <4>2
        <5> QED
          BY <1>1, <4>1, <5>1 DEF PlainIsFollowed
      <4>3. CASE b \notin linked
        <5>1. b \in Counted' /\ b \notin removing' /\ kaccounts[b] = 0
          BY <2>1, <2>4, <3>1, <4>1, <4>3, MigrationParts
        <5> QED
          BY <1>1, <1>2, <4>1, <5>1 DEF PlainIsFollowed
      <4> QED
        BY <4>2, <4>3
    <3> QED
      BY <3>2, <3>3, <3>4 DEF WellHandled
  <2> QED
    BY <2>6, <2>7, <2>8 DEF MigrationInv
<1> QED
  BY <1>3, <1>4, MigrationParts DEF migrateWhenReady

\* Accounts are removed, logged to and forgotten, and the process starts again.
LEMMA AroundMigrationKept ==
    ASSUME MigrationInv,
           \/ \E a \in OldAccounts : AccountRemoved(a) \/ Unheard(a) \/ LoggedMeanwhile(a)
           \/ Relogin \/ UNCHANGED migrationVars
    PROVE  MigrationInv'
<1>1. ASSUME NEW a \in OldAccounts, AccountRemoved(a) PROVE MigrationInv'
  <2>1. /\ tpAccounts[a] # "removed" /\ tpAccounts' = [tpAccounts EXCEPT ![a] = "removed"]
        /\ disturbed' = IF a \in removing THEN disturbed ELSE disturbed \cup {a}
        /\ removing' = removing \ {a}
        /\ UNCHANGED <<mapped, kaccounts, logsOf, migration2Done, process, restarts, migrationRef,
                       asked, syncing, stored>>
    BY <1>1 DEF AccountRemoved
  <2>2. /\ tpAccounts' \in [OldAccounts -> {"plain", "sso", "removed"}] /\ tpAccounts'[a] = "removed"
        /\ \A b \in OldAccounts \ {a} : tpAccounts'[b] = tpAccounts[b]
    BY <2>1, MigrationParts
  <2>3. Counted' = Counted
    BY <2>1 DEF Counted
  <2>4. MigrationTypes'
    BY <2>1, <2>2, MigrationParts DEF MigrationTypes
  <2>5. RefCounts'
    BY <2>1, <2>3, MigrationParts DEF RefCounts
  <2>6. ASSUME NEW b \in OldAccounts \ disturbed' PROVE WellHandled(b)'
    <3>1. WellHandled(b) /\ (b = a => a \in removing)
      BY <2>1, <2>6, MigrationParts
    <3>2. CASE b # a
      BY <2>1, <2>2, <2>3, <3>1, <3>2 DEF WellHandled, SsoUntouched, GoneIsMade, PlainIsFollowed
    <3>3. CASE b = a
      <4>1. tpAccounts[a] = "plain"
        BY <2>1, <3>1, <3>3, MigrationParts DEF WellHandled, SsoUntouched
      <4>2. kaccounts[a] = 1 /\ logsOf[a] # "old" /\ a \notin Counted
        BY <3>1, <3>3, <4>1 DEF WellHandled, PlainIsFollowed
      <4> QED
        BY <2>1, <2>2, <2>3, <3>3, <4>2 DEF WellHandled, SsoUntouched, GoneIsMade, PlainIsFollowed
    <3> QED
      BY <3>2, <3>3
  <2> QED
    BY <2>4, <2>5, <2>6 DEF MigrationInv
<1>2. ASSUME NEW a \in OldAccounts, Unheard(a) PROVE MigrationInv'
  <2>1. /\ a \in disturbed /\ removing' = removing \ {a}
        /\ UNCHANGED <<tpAccounts, mapped, kaccounts, logsOf, migration2Done, process, restarts,
                       migrationRef, asked, syncing, stored, disturbed>>
    BY <1>2 DEF Unheard, diskVars
  <2>2. Counted' = Counted
    BY <2>1 DEF Counted
  <2>3. MigrationTypes' /\ RefCounts'
    BY <2>1, <2>2, MigrationParts DEF MigrationTypes, RefCounts
  <2>4. ASSUME NEW b \in OldAccounts \ disturbed' PROVE WellHandled(b)'
    <3>1. WellHandled(b) /\ b # a
      BY <2>1, <2>4, MigrationParts
    <3> QED
      BY <2>1, <2>2, <3>1 DEF WellHandled, SsoUntouched, GoneIsMade, PlainIsFollowed
  <2> QED
    BY <2>3, <2>4 DEF MigrationInv
<1>3. ASSUME NEW a \in OldAccounts, LoggedMeanwhile(a) PROVE MigrationInv'
  <2>1. /\ (logsOf[a] = "old" /\ kaccounts[a] > 0) \/ logsOf[a] = "new"
        /\ logsOf' = [logsOf EXCEPT ![a] = "both"]
        /\ UNCHANGED <<tpAccounts, mapped, kaccounts, migration2Done, removing, process, restarts,
                       migrationRef, asked, syncing, stored, disturbed>>
    BY <1>3 DEF LoggedMeanwhile
  <2>2. Counted' = Counted
    BY <2>1 DEF Counted
  <2>3. /\ logsOf' \in [OldAccounts -> {"old", "new", "both"}] /\ logsOf'[a] = "both"
        /\ \A b \in OldAccounts \ {a} : logsOf'[b] = logsOf[b]
    BY <2>1, MigrationParts
  <2>4. MigrationTypes' /\ RefCounts'
    BY <2>1, <2>2, <2>3, MigrationParts DEF MigrationTypes, RefCounts
  <2>5. ASSUME NEW b \in OldAccounts \ disturbed' PROVE WellHandled(b)'
    <3>1. WellHandled(b)
      BY <2>1, <2>5, MigrationParts
    <3>2. SsoUntouched(b)'
      <4>1. tpAccounts[a] = "sso" => b # a
        BY <2>1, <3>1 DEF WellHandled, SsoUntouched
      <4> QED
        BY <2>1, <2>3, <3>1, <4>1 DEF WellHandled, SsoUntouched
    <3>3. GoneIsMade(b)' /\ PlainIsFollowed(b)'
      BY <2>1, <2>2, <2>3, <3>1 DEF WellHandled, GoneIsMade, PlainIsFollowed
    <3> QED
      BY <3>2, <3>3 DEF WellHandled
  <2> QED
    BY <2>4, <2>5 DEF MigrationInv
<1>4. ASSUME Relogin PROVE MigrationInv'
  <2>1. /\ process' = "starting" /\ disturbed' = disturbed \cup syncing \cup stored \cup removing
        /\ asked' = {} /\ syncing' = {} /\ stored' = {} /\ migrationRef' = 0
        /\ UNCHANGED <<tpAccounts, mapped, kaccounts, logsOf, migration2Done, removing>>
    BY <1>4 DEF Relogin, diskVars
  <2>2. Counted' = {}
    BY <2>1 DEF Counted
  <2>3. MigrationTypes' /\ RefCounts'
    BY <2>1, <2>2, MigrationParts DEF MigrationTypes, RefCounts
  <2>4. ASSUME NEW b \in OldAccounts \ disturbed' PROVE WellHandled(b)'
    <3>1. WellHandled(b) /\ b \notin syncing /\ b \notin stored /\ b \notin removing
      BY <2>1, <2>4, MigrationParts
    <3>2. SsoUntouched(b)' /\ GoneIsMade(b)'
      BY <2>1, <2>2, <3>1 DEF WellHandled, SsoUntouched, GoneIsMade
    <3>3. PlainIsFollowed(b)'
      <4>1. tpAccounts[b] = "plain" /\ migration2Done = TRUE => b \in removing
        BY <3>1, MigrationParts DEF WellHandled, PlainIsFollowed
      <4> QED
        BY <2>1, <2>2, <3>1, <4>1 DEF WellHandled, PlainIsFollowed
    <3> QED
      BY <3>2, <3>3 DEF WellHandled
  <2> QED
    BY <2>3, <2>4 DEF MigrationInv
<1>5. CASE UNCHANGED migrationVars
  <2>1. Counted' = Counted
    BY <1>5 DEF Counted, migrationVars
  <2> QED
    BY <1>5, <2>1 DEF MigrationInv, MigrationTypes, RefCounts, WellHandled, SsoUntouched, GoneIsMade,
                      PlainIsFollowed, migrationVars, diskVars
<1> QED
  BY <1>1, <1>2, <1>3, <1>4, <1>5

\* Every step keeps the invariant.
LEMMA NextMigrationInv == MigrationInv /\ [MigrationNext]_migrationVars => MigrationInv'
BY ProviderKept, StoredKept, SyncedKept, MigrateKept, AroundMigrationKept DEF MigrationNext

\* When the migration is marked as done, every old account was handled, once: for any
\* accounts of any kinds, and any number of restarts and failures.
THEOREM MigrationHandlesAll == MigrationInit /\ [][MigrationNext]_migrationVars => []DoneMeansHandled
<1>1. MigrationInit => MigrationInv
  <2> SUFFICES ASSUME MigrationInit PROVE MigrationInv
    OBVIOUS
  <2>1. Counted = {}
    BY DEF MigrationInit, Counted
  <2>2. MigrationTypes
    <3>1. tpAccounts \in [OldAccounts -> {"plain", "sso", "removed"}]
      BY DEF MigrationInit
    <3>2. mapped \in [OldAccounts -> {"none", "kaccount", "missing"}]
      BY DEF MigrationInit
    <3>3. kaccounts \in [OldAccounts -> Nat] /\ logsOf \in [OldAccounts -> {"old", "new", "both"}]
      BY DEF MigrationInit
    <3>4. /\ removing = {} /\ disturbed = {} /\ asked = {} /\ syncing = {} /\ stored = {}
          /\ migrationRef = 0 /\ process = "starting"
      BY DEF MigrationInit
    <3>5. migration2Done \in BOOLEAN
      BY DEF MigrationInit
    <3> QED
      BY <3>1, <3>2, <3>3, <3>4, <3>5 DEF MigrationTypes
  <2>3. RefCounts
    BY <2>1 DEF MigrationInit, RefCounts
  <2>4. ASSUME NEW a \in OldAccounts PROVE WellHandled(a)
    <3>1. /\ tpAccounts[a] \in {"plain", "sso"} /\ logsOf[a] = "old" /\ removing = {} /\ stored = {} /\ syncing = {}
          /\ kaccounts[a] = IF mapped[a] = "kaccount" THEN 1 ELSE 0
          /\ tpAccounts[a] = "sso" => mapped[a] = "none"
          /\ process = "starting" /\ migration2Done = FALSE
      BY DEF MigrationInit
    <3> QED
      BY <3>1 DEF WellHandled, SsoUntouched, GoneIsMade, PlainIsFollowed
  <2> QED
    BY <2>2, <2>3, <2>4 DEF MigrationInv
<1>2. MigrationInv => DoneMeansHandled
  <2> SUFFICES ASSUME MigrationInv, migration2Done
               PROVE  /\ asked = {} /\ syncing = {} /\ stored = {}
                      /\ \A a \in OldAccounts \ disturbed :
                           IF tpAccounts[a] = "sso" THEN kaccounts[a] = 0 /\ logsOf[a] = "old"
                           ELSE kaccounts[a] = 1 /\ logsOf[a] # "old" /\ (tpAccounts[a] = "removed" \/ a \in removing)
    BY DEF DoneMeansHandled
  <2>1. Counted = {} /\ migration2Done = TRUE
    BY MigrationParts
  <2>2. asked = {} /\ syncing = {} /\ stored = {}
    BY <2>1 DEF Counted
  <2>3. ASSUME NEW a \in OldAccounts \ disturbed
        PROVE  IF tpAccounts[a] = "sso" THEN kaccounts[a] = 0 /\ logsOf[a] = "old"
               ELSE kaccounts[a] = 1 /\ logsOf[a] # "old" /\ (tpAccounts[a] = "removed" \/ a \in removing)
    <3>1. WellHandled(a) /\ tpAccounts[a] \in {"plain", "sso", "removed"}
      BY <2>3, MigrationParts
    <3> QED
      BY <2>1, <3>1 DEF WellHandled, SsoUntouched, GoneIsMade, PlainIsFollowed
  <2> QED
    BY <2>2, <2>3
<1> QED
  BY <1>1, <1>2, NextMigrationInv, PTL

(***************************************************************************)
(* Conversations.  Whatever channels a conversation ever had are of its    *)
(* chat.  One that has an open channel is valid until the end of another   *)
(* of its channels is told.                                                *)
(***************************************************************************)
ChannelRecords == [account : ChatAccounts, chat : Chats, state : {"open", "closed", "told"}]
Objects == [account : ChatAccounts \cup {"none"}, channel : Nat, watched : SUBSET Nat,
            valid : BOOLEAN, misled : BOOLEAN, delegated : BOOLEAN, requested : BOOLEAN,
            typing : BOOLEAN, gone : BOOLEAN]

ConversationTypes ==
    /\ channels \in Seq(ChannelRecords) /\ objects \in Seq(Objects)
    /\ conversations \in Seq(Nat) /\ activeChatIndex \in Int

\* What is true of an object that lives, when the channels are chs.
Sound(o, chs) ==
    o.gone # TRUE =>
        /\ o.account \in ChatAccounts /\ o.channel \in o.watched
        /\ \A w \in o.watched : w \in 1 .. Len(chs) /\ chs[w].chat = chs[o.channel].chat
        /\ chs[o.channel].state = "open" => o.valid = TRUE \/ o.misled = TRUE
        /\ chs[o.channel].state = "told" => o.valid = FALSE

RowsLive == \A i \in 1 .. Len(conversations) :
    conversations[i] \in 1 .. Len(objects) /\ objects[conversations[i]].gone = FALSE

RowsDiffer == \A i, j \in 1 .. Len(conversations) :
    channels[objects[conversations[i]].channel].chat = channels[objects[conversations[j]].channel].chat => i = j

ConversationsInv ==
    /\ ConversationTypes /\ RowsLive /\ RowsDiffer
    /\ \A c \in 1 .. Len(objects) : Sound(objects[c], channels)

\* The parts of the invariant that the steps cite.
LEMMA ConversationsParts ==
    ASSUME ConversationsInv
    PROVE  /\ channels \in Seq(ChannelRecords) /\ objects \in Seq(Objects)
           /\ conversations \in Seq(Nat) /\ activeChatIndex \in Int
           /\ Len(channels) \in Nat /\ Len(objects) \in Nat /\ Len(conversations) \in Nat
           /\ DOMAIN channels = 1 .. Len(channels) /\ DOMAIN objects = 1 .. Len(objects)
           /\ DOMAIN conversations = 1 .. Len(conversations)
           /\ \A x \in 1 .. Len(channels) : channels[x] \in ChannelRecords
           /\ \A c \in 1 .. Len(objects) : objects[c] \in Objects /\ Sound(objects[c], channels)
           /\ \A i \in 1 .. Len(conversations) :
                conversations[i] \in 1 .. Len(objects) /\ objects[conversations[i]].gone = FALSE
           /\ RowsDiffer
BY LenProperties, ElementOfSeq DEF ConversationsInv, ConversationTypes, RowsLive

\* An object with its chat's channel ch, in place of the channel that it had.
LEMMA ChannelSet ==
    ASSUME NEW o \in Objects, NEW ch \in Nat, Sound(o, channels'), o.gone = FALSE,
           ch \in 1 .. Len(channels'), channels'[ch].state # "told", channels'[ch].chat = channels'[o.channel].chat
    PROVE  /\ setTextChannel(o, ch) \in Objects /\ Sound(setTextChannel(o, ch), channels')
           /\ setTextChannel(o, ch).gone = FALSE /\ setTextChannel(o, ch).channel = ch
<1>1. CASE o.channel = ch
  BY <1>1 DEF setTextChannel
<1>2. CASE o.channel # ch
  <2> DEFINE v == (channels'[ch].state = "open")
             n == [o EXCEPT !.channel = ch, !.watched = o.watched \cup {ch}, !.valid = v, !.misled = FALSE]
  <2>1. setTextChannel(o, ch) = n
    BY <1>2 DEF setTextChannel, IsOpen
  <2>2. v \in BOOLEAN /\ (channels'[ch].state = "open" <=> v = TRUE)
    OBVIOUS
  <2> HIDE DEF v
  <2>3. /\ n \in Objects /\ n.gone = FALSE /\ n.channel = ch /\ n.watched = o.watched \cup {ch}
        /\ n.valid = v /\ n.account = o.account
    BY <2>2 DEF Objects
  <2> HIDE DEF n
  <2>4. \A w \in n.watched : w \in 1 .. Len(channels') /\ channels'[w].chat = channels'[n.channel].chat
    BY <2>3 DEF Sound
  <2>5. (channels'[n.channel].state = "open" => n.valid = TRUE) /\ (channels'[n.channel].state = "told" => n.valid = FALSE)
    BY <2>2, <2>3
  <2> QED
    BY <2>1, <2>3, <2>4, <2>5 DEF Sound
<1> QED
  BY <1>1, <1>2

\* The dispatcher has a channel for a chat.
LEMMA ChannelForChat ==
    ASSUME ConversationsInv, NEW account \in ChatAccounts, NEW chat \in Chats, NEW ch,
           ChannelFor(account, chat, ch)
    PROVE  /\ channels' \in Seq(ChannelRecords)
           /\ Len(channels') \in Nat /\ ch \in 1 .. Len(channels') /\ ch \in Nat
           /\ channels'[ch].chat = chat /\ channels'[ch].state # "told"
           /\ channels'[ch].account \in ChatAccounts
           /\ Len(channels) <= Len(channels')
           /\ \A x \in 1 .. Len(channels) : channels'[x] = channels[x]
<1>0. /\ channels \in Seq(ChannelRecords) /\ Len(channels) \in Nat /\ DOMAIN channels = 1 .. Len(channels)
  BY ConversationsParts
<1>1. CASE /\ ch \in DOMAIN channels /\ channels[ch].account = account /\ channels[ch].chat = chat
           /\ channels[ch].state # "told" /\ UNCHANGED channels
  BY <1>0, <1>1
<1>2. CASE /\ ch = Len(channels) + 1
           /\ channels' = Append(channels, [account |-> account, chat |-> chat, state |-> "open"])
  <2> DEFINE x == [account |-> account, chat |-> chat, state |-> "open"]
  <2>1. x \in ChannelRecords /\ x.account = account /\ x.chat = chat /\ x.state = "open"
    BY DEF ChannelRecords
  <2> HIDE DEF x
  <2>2. /\ channels' \in Seq(ChannelRecords) /\ Len(channels') = Len(channels) + 1
        /\ \A i \in 1 .. Len(channels) : channels'[i] = channels[i]
        /\ channels'[ch] = x
    BY <1>0, <1>2, <2>1, AppendProperties DEF x
  <2> QED
    BY <1>0, <1>2, <2>1, <2>2
<1> QED
  BY <1>1, <1>2 DEF ChannelFor

\* The objects stay sound when channels are added.
LEMMA SoundWithMore ==
    ASSUME NEW o, NEW s, NEW t, Len(s) \in Nat, Len(t) \in Nat, Len(s) <= Len(t),
           \A x \in 1 .. Len(s) : t[x] = s[x], Sound(o, s)
    PROVE  Sound(o, t)
BY DEF Sound

\* Steps that change objects one by one, and keep the chat of each that lives.
LEMMA ObjectsStep ==
    ASSUME ConversationsInv, channels' \in Seq(ChannelRecords),
           objects' \in Seq(Objects), Len(objects') = Len(objects),
           \A c \in 1 .. Len(objects) :
             /\ Sound(objects'[c], channels')
             /\ objects'[c].gone = objects[c].gone
             /\ objects[c].gone = FALSE =>
                  channels'[objects'[c].channel].chat = channels[objects[c].channel].chat,
           UNCHANGED conversations, activeChatIndex' \in Int
    PROVE  ConversationsInv'
<1>1. ConversationTypes'
  BY ConversationsParts DEF ConversationTypes
<1>2. RowsLive'
  BY ConversationsParts DEF RowsLive
<1>3. RowsDiffer'
  <2> SUFFICES ASSUME NEW i \in 1 .. Len(conversations), NEW j \in 1 .. Len(conversations),
                      channels'[objects'[conversations[i]].channel].chat
                          = channels'[objects'[conversations[j]].channel].chat
               PROVE  i = j
    BY DEF RowsDiffer
  <2>1. \A k \in 1 .. Len(conversations) :
          conversations[k] \in 1 .. Len(objects) /\ objects[conversations[k]].gone = FALSE
    BY ConversationsParts
  <2>2. \A k \in 1 .. Len(conversations) :
          channels'[objects'[conversations[k]].channel].chat = channels[objects[conversations[k]].channel].chat
    BY <2>1
  <2> QED
    BY <2>2, ConversationsParts DEF RowsDiffer
<1> QED
  BY <1>1, <1>2, <1>3 DEF ConversationsInv

\* The end of a channel is told to all that ever had it.
LEMMA InvalidatedKept ==
    ASSUME ConversationsInv, NEW ch \in 1 .. Len(channels), onChannelInvalidated(ch)
    PROVE  ConversationsInv'
<1>1. /\ channels[ch].state = "closed" /\ channels' = [channels EXCEPT ![ch].state = "told"]
      /\ objects' = [c \in DOMAIN objects |->
                       IF c \in Living /\ ch \in objects[c].watched
                       THEN Told(objects[c], ch) ELSE objects[c]]
      /\ UNCHANGED <<conversations, activeChatIndex>>
  BY DEF onChannelInvalidated
<1>2. /\ channels' \in Seq(ChannelRecords) /\ Len(channels') = Len(channels)
      /\ channels'[ch].state = "told"
      /\ \A x \in 1 .. Len(channels) : channels'[x].chat = channels[x].chat
      /\ \A x \in 1 .. Len(channels) : x # ch => channels'[x] = channels[x]
  <2> DEFINE r == [channels[ch] EXCEPT !.state = "told"]
  <2>1. channels' = [channels EXCEPT ![ch] = r]
    BY <1>1
  <2>2. r \in ChannelRecords /\ r.state = "told" /\ r.chat = channels[ch].chat
    BY ConversationsParts DEF ChannelRecords
  <2> HIDE DEF r
  <2> QED
    BY <2>1, <2>2, ConversationsParts, ExceptSeq
<1>4. objects' \in Seq(Objects) /\ Len(objects') = Len(objects)
  <2> DEFINE At(c) == IF c \in Living /\ ch \in objects[c].watched THEN Told(objects[c], ch) ELSE objects[c]
  <2>1. \A c \in 1 .. Len(objects) : Told(objects[c], ch) \in Objects
    <3> SUFFICES ASSUME NEW c \in 1 .. Len(objects) PROVE Told(objects[c], ch) \in Objects
      OBVIOUS
    <3> DEFINE o == objects[c]
               m == IF o.channel = ch THEN o.misled ELSE TRUE
    <3>1. o \in Objects
      BY ConversationsParts
    <3>2. m \in BOOLEAN /\ Told(o, ch) = [o EXCEPT !.valid = FALSE, !.misled = m]
      BY <3>1 DEF Objects, Told
    <3> HIDE DEF o, m
    <3>3. [o EXCEPT !.valid = FALSE, !.misled = m] \in Objects
      BY <3>1, <3>2 DEF Objects
    <3> QED
      BY <3>2, <3>3 DEF o
  <2>2. objects' = [c \in 1 .. Len(objects) |-> At(c)]
    BY <1>1, ConversationsParts
  <2>3. \A c \in 1 .. Len(objects) : At(c) \in Objects
    BY <2>1, ConversationsParts
  <2> HIDE DEF At
  <2> QED
    BY <2>2, <2>3, ConversationsParts, SeqOfItems, LenProperties
<1>5. ASSUME NEW c \in 1 .. Len(objects)
      PROVE  /\ Sound(objects'[c], channels') /\ objects'[c].gone = objects[c].gone
             /\ objects[c].gone = FALSE =>
                  channels'[objects'[c].channel].chat = channels[objects[c].channel].chat
  <2> DEFINE o == objects[c]
  <2>1. o \in Objects /\ Sound(o, channels) /\ (c \in Living <=> o.gone # TRUE)
    BY ConversationsParts DEF Living, Objects
  <2>2. objects'[c] = IF o.gone # TRUE /\ ch \in o.watched
                       THEN Told(o, ch) ELSE o
    BY <1>1, <2>1, ConversationsParts
  <2> HIDE DEF o
  <2>3. CASE o.gone = TRUE
    BY <2>1, <2>2, <2>3 DEF Sound, o
  <2>4. CASE o.gone # TRUE /\ ch \in o.watched
    <3>1. /\ objects'[c].valid = FALSE /\ objects'[c].channel = o.channel
          /\ objects'[c].watched = o.watched /\ objects'[c].gone = o.gone
          /\ objects'[c].account = o.account
          /\ o.channel # ch => objects'[c].misled = TRUE
      BY <2>1, <2>2, <2>4 DEF Objects, Told
    <3>2. channels'[o.channel].state = "open" => objects'[c].misled = TRUE
      BY <1>2, <3>1
    <3> QED
      BY <1>2, <2>1, <2>4, <3>1, <3>2 DEF Sound, o
  <2>5. CASE o.gone # TRUE /\ ch \notin o.watched
    BY <1>2, <2>1, <2>2, <2>5 DEF Sound, o
  <2> QED
    BY <2>3, <2>4, <2>5
<1> QED
  BY <1>1, <1>2, <1>4, <1>5, ConversationsParts, ObjectsStep

\* The connection goes, and the user closes a chat.
LEMMA ClosedKept ==
    ASSUME ConversationsInv,
           (\E account \in ChatAccounts : Disconnect(account)) \/ \E c \in DOMAIN objects : requestClose(c)
    PROVE  ConversationsInv'
<1>1. PICK S \in SUBSET (1 .. Len(channels)) :
        /\ \A x \in S : channels[x].state = "open"
        /\ channels' = [x \in 1 .. Len(channels) |->
                          IF x \in S THEN [channels[x] EXCEPT !.state = "closed"] ELSE channels[x]]
        /\ UNCHANGED <<objects, conversations, activeChatIndex>>
  <2>1. ASSUME NEW account \in ChatAccounts, Disconnect(account)
        PROVE  \E S \in SUBSET (1 .. Len(channels)) :
                 /\ \A x \in S : channels[x].state = "open"
                 /\ channels' = [x \in 1 .. Len(channels) |->
                                   IF x \in S THEN [channels[x] EXCEPT !.state = "closed"] ELSE channels[x]]
                 /\ UNCHANGED <<objects, conversations, activeChatIndex>>
    <3> DEFINE S == {x \in Alive : channels[x].account = account}
    <3>1. S \in SUBSET (1 .. Len(channels)) /\ \A x \in S : channels[x].state = "open"
      BY ConversationsParts DEF Alive
    <3>2. channels' = [x \in 1 .. Len(channels) |->
                         IF x \in S THEN [channels[x] EXCEPT !.state = "closed"] ELSE channels[x]]
      BY <2>1, ConversationsParts DEF Disconnect
    <3> HIDE DEF S
    <3> QED
      BY <2>1, <3>1, <3>2 DEF Disconnect
  <2>2. ASSUME NEW c \in DOMAIN objects, requestClose(c)
        PROVE  \E x \in 1 .. Len(channels) :
                 /\ channels[x].state = "open" /\ channels' = [channels EXCEPT ![x].state = "closed"]
                 /\ UNCHANGED <<objects, conversations, activeChatIndex>>
    BY <2>2, ConversationsParts DEF requestClose, Alive
  <2>3. ASSUME NEW x \in 1 .. Len(channels), channels' = [channels EXCEPT ![x].state = "closed"]
        PROVE  channels' = [y \in 1 .. Len(channels) |->
                          IF y \in {x} THEN [channels[y] EXCEPT !.state = "closed"] ELSE channels[y]]
    BY <2>3, ConversationsParts
  <2>4. ASSUME NEW c \in DOMAIN objects, requestClose(c)
        PROVE  \E S \in SUBSET (1 .. Len(channels)) :
                 /\ \A x \in S : channels[x].state = "open"
                 /\ channels' = [x \in 1 .. Len(channels) |->
                                   IF x \in S THEN [channels[x] EXCEPT !.state = "closed"] ELSE channels[x]]
                 /\ UNCHANGED <<objects, conversations, activeChatIndex>>
    <3>1. PICK x \in 1 .. Len(channels) :
            /\ channels[x].state = "open" /\ channels' = [channels EXCEPT ![x].state = "closed"]
            /\ UNCHANGED <<objects, conversations, activeChatIndex>>
      BY <2>2, <2>4
    <3>2. {x} \in SUBSET (1 .. Len(channels)) /\ \A y \in {x} : channels[y].state = "open"
      BY <3>1
    <3>3. channels' = [y \in 1 .. Len(channels) |->
                          IF y \in {x} THEN [channels[y] EXCEPT !.state = "closed"] ELSE channels[y]]
      BY <2>3, <3>1
    <3> QED
      BY <3>1, <3>2, <3>3
  <2> QED
    BY <2>1, <2>4
<1>2. /\ channels' \in Seq(ChannelRecords) /\ Len(channels') = Len(channels)
  <2>1. \A x \in 1 .. Len(channels) : (IF x \in S THEN [channels[x] EXCEPT !.state = "closed"] ELSE channels[x]) \in ChannelRecords
    BY ConversationsParts DEF ChannelRecords
  <2> QED
    BY <1>1, <2>1, ConversationsParts, SeqOfItems, LenProperties
<1>3. \A x \in 1 .. Len(channels) :
        /\ channels'[x].chat = channels[x].chat
        /\ channels'[x].state = "open" => channels[x].state = "open"
        /\ channels'[x].state = "told" <=> channels[x].state = "told"
  <2> TAKE x \in 1 .. Len(channels)
  <2>1. channels'[x] = IF x \in S THEN [channels[x] EXCEPT !.state = "closed"] ELSE channels[x]
    BY <1>1
  <2>2. channels[x] \in ChannelRecords /\ (x \in S => channels[x].state = "open")
    BY <1>1, ConversationsParts
  <2> QED
    BY <2>1, <2>2 DEF ChannelRecords
<1>5. ASSUME NEW c \in 1 .. Len(objects)
      PROVE  /\ Sound(objects[c], channels')
             /\ objects[c].gone = FALSE =>
                  channels'[objects[c].channel].chat = channels[objects[c].channel].chat
  <2> DEFINE o == objects[c]
  <2>1. o \in Objects /\ Sound(o, channels)
    BY ConversationsParts
  <2> HIDE DEF o
  <2>2. o.gone # TRUE => o.channel \in 1 .. Len(channels)
    BY <2>1 DEF Sound
  <2> QED
    BY <1>2, <1>3, <2>1, <2>2 DEF Sound, o
<1> QED
  BY <1>1, <1>2, <1>5, ConversationsParts, ObjectsStep

\* The connection returns, and the user types: only what is asked for or announced changes.
LEMMA FlagsKept ==
    ASSUME ConversationsInv, UNCHANGED <<channels, conversations, activeChatIndex>>,
           objects' \in Seq(Objects), Len(objects') = Len(objects),
           \A c \in 1 .. Len(objects) : /\ objects'[c].channel = objects[c].channel
                                        /\ objects'[c].watched = objects[c].watched
                                        /\ objects'[c].valid = objects[c].valid
                                        /\ objects'[c].account = objects[c].account
                                        /\ objects'[c].misled = objects[c].misled
                                        /\ objects'[c].gone = objects[c].gone
    PROVE  ConversationsInv'
<1>1. ASSUME NEW c \in 1 .. Len(objects) PROVE Sound(objects'[c], channels')
  <2>1. Sound(objects[c], channels) /\ channels' = channels
    BY ConversationsParts
  <2>2. /\ objects'[c].channel = objects[c].channel /\ objects'[c].watched = objects[c].watched
        /\ objects'[c].valid = objects[c].valid /\ objects'[c].gone = objects[c].gone
        /\ objects'[c].account = objects[c].account /\ objects'[c].misled = objects[c].misled
    OBVIOUS
  <2> QED
    BY <2>1, <2>2 DEF Sound
<1> QED
  BY <1>1, ConversationsParts, ObjectsStep

\* The connection returns, or the user types, in one chat.
LEMMA QuietKept ==
    ASSUME ConversationsInv,
           \/ \E account \in ChatAccounts : onAccountConnectionChanged(account)
           \/ \E c \in DOMAIN objects : onChatPausedTimerExpired(c) \/ \E empty \in BOOLEAN : updateTextChanged(c, empty)
    PROVE  ConversationsInv'
<1>1. ASSUME NEW account \in ChatAccounts, onAccountConnectionChanged(account) PROVE ConversationsInv'
  <2> DEFINE b(c) == c \in Living /\ ~objects[c].delegated
             At(c) == IF objects[c].account = account THEN [objects[c] EXCEPT !.requested = b(c)] ELSE objects[c]
  <2>1. /\ UNCHANGED <<channels, conversations, activeChatIndex>>
        /\ objects' = [c \in 1 .. Len(objects) |-> At(c)]
    BY <1>1, ConversationsParts DEF onAccountConnectionChanged
  <2>2. ASSUME NEW c \in 1 .. Len(objects)
        PROVE  /\ At(c) \in Objects
               /\ At(c).channel = objects[c].channel /\ At(c).watched = objects[c].watched
               /\ At(c).valid = objects[c].valid /\ At(c).gone = objects[c].gone
               /\ At(c).account = objects[c].account /\ At(c).misled = objects[c].misled
    <3> DEFINE o == objects[c]
               v == b(c)
    <3>1. v \in BOOLEAN /\ o \in Objects
      BY ConversationsParts
    <3>2. At(c) = IF o.account = account THEN [o EXCEPT !.requested = v] ELSE o
      OBVIOUS
    <3> HIDE DEF v, o, b, At
    <3>3. [o EXCEPT !.requested = v] \in Objects
      BY <3>1 DEF Objects
    <3> QED
      BY <3>1, <3>2, <3>3 DEF Objects, o
  <2> HIDE DEF At
  <2>3. objects' \in Seq(Objects) /\ Len(objects') = Len(objects)
    BY <2>1, <2>2, ConversationsParts, SeqOfItems, LenProperties
  <2>4. \A c \in 1 .. Len(objects) : objects'[c] = At(c)
    BY <2>1
  <2> QED
    BY <2>1, <2>2, <2>3, <2>4, FlagsKept
<1>2. ASSUME NEW c \in DOMAIN objects, NEW b \in BOOLEAN, objects' = [objects EXCEPT ![c].typing = b],
             UNCHANGED <<channels, conversations, activeChatIndex>>
      PROVE  ConversationsInv'
  <2> DEFINE r == [objects[c] EXCEPT !.typing = b]
  <2>1. objects' = [objects EXCEPT ![c] = r] /\ c \in 1 .. Len(objects)
    BY <1>2, ConversationsParts
  <2>2. /\ r \in Objects /\ r.channel = objects[c].channel /\ r.watched = objects[c].watched
        /\ r.valid = objects[c].valid /\ r.gone = objects[c].gone
        /\ r.account = objects[c].account /\ r.misled = objects[c].misled
    BY <2>1, ConversationsParts DEF Objects
  <2> HIDE DEF r
  <2>3. objects' \in Seq(Objects) /\ Len(objects') = Len(objects)
        /\ \A d \in 1 .. Len(objects) : objects'[d] = IF d = c THEN r ELSE objects[d]
    BY <2>1, <2>2, ConversationsParts, ExceptSeq
  <2> QED
    BY <1>2, <2>2, <2>3, FlagsKept
<1>3. ASSUME NEW c \in DOMAIN objects, onChatPausedTimerExpired(c) PROVE ConversationsInv'
  BY <1>2, <1>3 DEF onChatPausedTimerExpired
<1>4. ASSUME NEW c \in DOMAIN objects, NEW empty \in BOOLEAN, updateTextChanged(c, empty) PROVE ConversationsInv'
  <2>1. (~empty) \in BOOLEAN
    OBVIOUS
  <2> QED
    BY <1>2, <1>4, <2>1 DEF updateTextChanged
<1> QED
  BY <1>1, <1>3, <1>4

\* A conversation gets a channel of its chat.
LEMMA UpdatedKept ==
    ASSUME ConversationsInv, NEW c \in 1 .. Len(objects), objects[c].gone = FALSE, NEW ch,
           NEW account \in ChatAccounts, ChannelFor(account, TargetOf(c), ch), NEW o \in Objects,
           o.account = objects[c].account, o.misled = objects[c].misled,
           o.channel = objects[c].channel, o.watched = objects[c].watched, o.valid = objects[c].valid,
           o.gone = FALSE,
           objects' = [objects EXCEPT ![c] = setTextChannel(o, ch)],
           UNCHANGED conversations, activeChatIndex' \in Int
    PROVE  ConversationsInv'
<1>1. Sound(objects[c], channels) /\ objects[c].channel \in 1 .. Len(channels)
      /\ TargetOf(c) = channels[objects[c].channel].chat /\ TargetOf(c) \in Chats
  BY ConversationsParts DEF Sound, TargetOf, ChannelRecords
<1>2. /\ channels' \in Seq(ChannelRecords) /\ channels'[ch].account \in ChatAccounts
      /\ Len(channels') \in Nat /\ ch \in 1 .. Len(channels') /\ ch \in Nat
      /\ channels'[ch].chat = TargetOf(c) /\ channels'[ch].state # "told"
      /\ Len(channels) <= Len(channels')
      /\ \A x \in 1 .. Len(channels) : channels'[x] = channels[x]
  BY <1>1, ChannelForChat
<1>3. \A d \in 1 .. Len(objects) : Sound(objects[d], channels')
  BY <1>2, ConversationsParts, SoundWithMore
<1>4. Sound(o, channels')
  <2>1. Sound(objects[c], channels')
    BY <1>3
  <2> QED
    BY <2>1 DEF Sound
<1> DEFINE n == setTextChannel(o, ch)
<1>5. n \in Objects /\ Sound(n, channels') /\ n.gone = FALSE /\ n.channel = ch
  <2>1. channels'[ch].chat = channels'[o.channel].chat
    BY <1>1, <1>2
  <2> QED
    BY <1>2, <1>4, <2>1, ChannelSet
<1>6. objects' = [objects EXCEPT ![c] = n]
  OBVIOUS
<1> HIDE DEF n
<1>7. /\ objects' \in Seq(Objects) /\ Len(objects') = Len(objects)
      /\ \A d \in 1 .. Len(objects) : objects'[d] = IF d = c THEN n ELSE objects[d]
  BY <1>5, <1>6, ConversationsParts, ExceptSeq
<1>8. ASSUME NEW d \in 1 .. Len(objects)
      PROVE  /\ Sound(objects'[d], channels') /\ objects'[d].gone = objects[d].gone
             /\ objects[d].gone = FALSE =>
                  channels'[objects'[d].channel].chat = channels[objects[d].channel].chat
  <2>1. CASE d = c
    BY <1>1, <1>2, <1>5, <1>7, <2>1
  <2>2. CASE d # c
    <3>1. objects[d].gone = FALSE => objects[d].channel \in 1 .. Len(channels)
      BY ConversationsParts DEF Sound
    <3> QED
      BY <1>2, <1>3, <1>7, <2>2, <3>1
  <2> QED
    BY <2>1, <2>2
<1> QED
  BY <1>2, <1>7, <1>8, ObjectsStep

\* A request for a channel ends: the conversation has a channel again, or none.
LEMMA RequestKept ==
    ASSUME ConversationsInv, NEW c \in DOMAIN objects, onCreateChannelFinished(c)
    PROVE  ConversationsInv'
<1> DEFINE done == [objects[c] EXCEPT !.requested = FALSE]
<1>1. c \in 1 .. Len(objects) /\ objects[c].gone = FALSE /\ UNCHANGED <<conversations, activeChatIndex>>
  BY ConversationsParts DEF onCreateChannelFinished, Living, Objects
<1>2. /\ done \in Objects /\ done.channel = objects[c].channel /\ done.watched = objects[c].watched
      /\ done.valid = objects[c].valid /\ done.gone = objects[c].gone
      /\ done.account = objects[c].account /\ done.misled = objects[c].misled
      /\ objects[c].account \in ChatAccounts
  BY <1>1, ConversationsParts DEF Objects, Sound
<1>3. \/ objects' = [objects EXCEPT ![c] = done] /\ UNCHANGED channels
      \/ \E ch \in 1 .. MaxChannels :
           /\ ChannelFor(objects[c].account, TargetOf(c), ch)
           /\ objects' = [objects EXCEPT ![c] = setTextChannel(done, ch)]
  BY DEF onCreateChannelFinished
<1> HIDE DEF done
<1>4. CASE objects' = [objects EXCEPT ![c] = done] /\ UNCHANGED channels
  <2>1. objects' \in Seq(Objects) /\ Len(objects') = Len(objects)
        /\ \A d \in 1 .. Len(objects) : objects'[d] = IF d = c THEN done ELSE objects[d]
    BY <1>1, <1>2, <1>4, ConversationsParts, ExceptSeq
  <2> QED
    BY <1>1, <1>2, <1>4, <2>1, FlagsKept
<1>5. ASSUME NEW ch \in 1 .. MaxChannels, ChannelFor(objects[c].account, TargetOf(c), ch),
             objects' = [objects EXCEPT ![c] = setTextChannel(done, ch)]
      PROVE  ConversationsInv'
  <2>1. activeChatIndex' \in Int
    BY <1>1, ConversationsParts
  <2> QED
    BY <1>1, <1>2, <1>5, <2>1, UpdatedKept
<1> QED
  BY <1>3, <1>4, <1>5

\* The dispatcher hands over a channel.
LEMMA DispatchedKept ==
    ASSUME ConversationsInv, NEW account \in ChatAccounts, NEW chat \in Chats,
           NEW requested \in BOOLEAN, NEW delegate \in BOOLEAN,
           ChannelDispatched(account, chat, requested, delegate)
    PROVE  ConversationsInv'
<1>1. PICK ch \in 1 .. MaxChannels : ChannelFor(account, chat, ch) /\ handleChannels(ch, requested, delegate)
  BY DEF ChannelDispatched
<1>2. /\ channels' \in Seq(ChannelRecords) /\ channels'[ch].account \in ChatAccounts
      /\ Len(channels') \in Nat /\ ch \in 1 .. Len(channels') /\ ch \in Nat
      /\ channels'[ch].chat = chat /\ channels'[ch].state # "told"
      /\ Len(channels) <= Len(channels')
      /\ \A x \in 1 .. Len(channels) : channels'[x] = channels[x]
  BY <1>1, ChannelForChat
<1>3. \A c \in 1 .. Len(objects) :
        /\ Sound(objects[c], channels')
        /\ objects[c].gone = FALSE => /\ objects[c].channel \in 1 .. Len(channels)
                                      /\ channels'[objects[c].channel] = channels[objects[c].channel]
  <2>1. \A c \in 1 .. Len(objects) : Sound(objects[c], channels')
    BY <1>2, ConversationsParts, SoundWithMore
  <2>2. \A c \in 1 .. Len(objects) : objects[c].gone = FALSE => objects[c].channel \in 1 .. Len(channels)
    BY ConversationsParts DEF Sound
  <2> QED
    BY <1>2, <2>1, <2>2
<1>4. CASE UNCHANGED <<objects, conversations, activeChatIndex>>
  BY <1>2, <1>3, <1>4, ConversationsParts, ObjectsStep
<1>5. CASE RowsFor(ch) = {} /\ AddConversation(ch, requested)
  <2> DEFINE n == NewConversation(ch)
             v == (channels'[ch].state = "open")
             k == Len(objects) + 1
  <2>1. /\ objects' = Append(objects, n) /\ conversations' = Append(conversations, Len(objects'))
        /\ activeChatIndex' = Len(conversations') - 1 \/ activeChatIndex' = activeChatIndex
    BY <1>5 DEF AddConversation, SetActive
  <2>2. /\ n \in Objects /\ n.channel = ch /\ n.watched = {ch} /\ n.gone = FALSE /\ n.valid = v
        /\ n.account \in ChatAccounts
    <3>1. v \in BOOLEAN
      OBVIOUS
    <3>2. n = [NoObject EXCEPT !.account = channels'[ch].account, !.channel = ch,
                               !.watched = {} \cup {ch}, !.valid = v, !.misled = FALSE]
      BY <1>2 DEF NewConversation, setTextChannel, NoObject, IsOpen
    <3> HIDE DEF v, n
    <3> QED
      BY <1>2, <3>1, <3>2 DEF NoObject, Objects
  <2>3. Sound(n, channels')
    <3>1. (channels'[ch].state = "open" => v = TRUE) /\ (channels'[ch].state = "told" => v = FALSE)
      BY <1>2
    <3> HIDE DEF v, n
    <3> QED
      BY <1>2, <2>2, <3>1 DEF Sound
  <2> HIDE DEF n
  <2>4. /\ objects' \in Seq(Objects) /\ Len(objects') = k /\ objects'[k] = n /\ k \in Nat
        /\ \A c \in 1 .. Len(objects) : objects'[c] = objects[c]
    BY <2>1, <2>2, ConversationsParts, AppendProperties
  <2>5. /\ conversations' \in Seq(Nat) /\ Len(conversations') = Len(conversations) + 1
        /\ conversations'[Len(conversations) + 1] = k
        /\ \A i \in 1 .. Len(conversations) : conversations'[i] = conversations[i]
    BY <2>1, <2>4, ConversationsParts, AppendProperties
  <2>6. ConversationTypes'
    BY <1>2, <2>1, <2>4, <2>5, ConversationsParts DEF ConversationTypes
  <2>7. RowsLive'
    <3> SUFFICES ASSUME NEW i \in 1 .. Len(conversations')
                 PROVE  conversations'[i] \in 1 .. Len(objects') /\ objects'[conversations'[i]].gone = FALSE
      BY DEF RowsLive
    <3>1. CASE i \in 1 .. Len(conversations)
      <4>1. conversations[i] \in 1 .. Len(objects) /\ objects[conversations[i]].gone = FALSE
        BY <3>1, ConversationsParts
      <4>2. conversations'[i] = conversations[i] /\ objects'[conversations[i]] = objects[conversations[i]]
        BY <2>4, <2>5, <3>1, <4>1
      <4>3. 1 .. Len(objects) \subseteq 1 .. Len(objects')
        BY <2>4, ConversationsParts
      <4> QED
        BY <4>1, <4>2, <4>3
    <3>2. CASE i = Len(conversations) + 1
      <4>1. conversations'[i] = k /\ objects'[k] = n /\ k \in 1 .. Len(objects')
        BY <2>4, <2>5, <3>2, ConversationsParts
      <4>2. n.gone = FALSE
        BY <2>2
      <4>3. conversations'[i] \in 1 .. Len(objects') /\ objects'[conversations'[i]] = n
        BY <4>1
      <4> QED
        BY <4>2, <4>3
    <3>3. i \in 1 .. Len(conversations) \/ i = Len(conversations) + 1
      BY <2>5, ConversationsParts
    <3> QED
      BY <3>1, <3>2, <3>3
  <2>8. \A i \in 1 .. Len(conversations) :
          /\ channels'[objects'[conversations'[i]].channel].chat = channels[objects[conversations[i]].channel].chat
          /\ channels[objects[conversations[i]].channel].chat # chat
    <3> TAKE i \in 1 .. Len(conversations)
    <3>1. conversations'[i] = conversations[i] /\ objects'[conversations[i]] = objects[conversations[i]]
          /\ channels'[objects[conversations[i]].channel] = channels[objects[conversations[i]].channel]
      BY <1>3, <2>4, <2>5, ConversationsParts
    <3>2. TargetOf(conversations[i]) # chat
      BY <1>2, <1>5, ConversationsParts DEF RowsFor
    <3> QED
      BY <3>1, <3>2 DEF TargetOf
  <2>9. channels'[objects'[conversations'[Len(conversations) + 1]].channel].chat = chat
    BY <1>2, <2>2, <2>4, <2>5
  <2>10. RowsDiffer'
    <3> SUFFICES ASSUME NEW i \in 1 .. Len(conversations'), NEW j \in 1 .. Len(conversations'),
                        channels'[objects'[conversations'[i]].channel].chat
                            = channels'[objects'[conversations'[j]].channel].chat
                 PROVE  i = j
      BY DEF RowsDiffer
    <3>1. CASE i \in 1 .. Len(conversations) /\ j \in 1 .. Len(conversations)
      <4>1. channels[objects[conversations[i]].channel].chat
              = channels[objects[conversations[j]].channel].chat
        BY <2>8, <3>1
      <4>2. RowsDiffer
        BY DEF ConversationsInv
      <4> QED
        BY <3>1, <4>1, <4>2 DEF RowsDiffer
    <3>2. CASE i = Len(conversations) + 1 /\ j \in 1 .. Len(conversations)
      BY <2>8, <2>9, <3>2
    <3>3. CASE j = Len(conversations) + 1 /\ i \in 1 .. Len(conversations)
      BY <2>8, <2>9, <3>3
    <3>4. Len(conversations) \in Nat /\ Len(conversations') = Len(conversations) + 1
      BY <2>5, ConversationsParts
    <3>5. \A row \in 1 .. Len(conversations') :
            row \in 1 .. Len(conversations) \/ row = Len(conversations) + 1
      BY <3>4
    <3>6. /\ i \in 1 .. Len(conversations) \/ i = Len(conversations) + 1
          /\ j \in 1 .. Len(conversations) \/ j = Len(conversations) + 1
      BY <3>5
    <3> QED
      BY <3>1, <3>2, <3>3, <3>6, Zenon
  <2>11. ASSUME NEW c \in 1 .. Len(objects') PROVE Sound(objects'[c], channels')
    <3>1. CASE c \in 1 .. Len(objects)
      BY <1>3, <2>4, <3>1
    <3>2. CASE c = k
      BY <2>3, <2>4, <3>2
    <3> QED
      BY <2>4, <3>1, <3>2, ConversationsParts
  <2> QED
    BY <1>2, <2>6, <2>7, <2>10, <2>11 DEF ConversationsInv
<1>6. ASSUME NEW i \in RowsFor(ch), UpdateConversation(i, ch) PROVE ConversationsInv'
  <2>1. i \in 1 .. Len(conversations) /\ TargetOf(conversations[i]) = chat
    BY <1>2, ConversationsParts DEF RowsFor
  <2>2. conversations[i] \in 1 .. Len(objects) /\ objects[conversations[i]].gone = FALSE
        /\ objects[conversations[i]] \in Objects
    BY <2>1, ConversationsParts
  <2>3. /\ objects' = [objects EXCEPT ![conversations[i]] = setTextChannel(objects[conversations[i]], ch)]
        /\ UNCHANGED conversations /\ activeChatIndex' \in Int
    BY <1>6, <2>1 DEF UpdateConversation, SetActive
  <2>4. ChannelFor(account, TargetOf(conversations[i]), ch)
    BY <1>1, <2>1
  <2> QED
    BY <2>2, <2>3, <2>4, UpdatedKept
<1>7. ASSUME NEW i \in RowsFor(ch), delegateToProperClient(i) PROVE ConversationsInv'
  <2> DEFINE n == [NoObject EXCEPT !.delegated = TRUE, !.gone = TRUE]
             c == conversations[i]
  <2>1. i \in 1 .. Len(conversations) /\ c \in 1 .. Len(objects)
    BY ConversationsParts DEF RowsFor
  <2>2. objects' = [objects EXCEPT ![c] = n] /\ conversations' = RemoveAt(conversations, i) /\ UNCHANGED activeChatIndex
    BY <1>7 DEF delegateToProperClient, removeConversation
  <2>3. n \in Objects /\ n.gone = TRUE
    BY DEF NoObject, Objects
  <2> HIDE DEF n, c
  <2>4. /\ objects' \in Seq(Objects) /\ Len(objects') = Len(objects)
        /\ \A d \in 1 .. Len(objects) : objects'[d] = IF d = c THEN n ELSE objects[d]
    BY <2>1, <2>2, <2>3, ConversationsParts, ExceptSeq
  <2>5. /\ conversations' \in Seq(Nat) /\ Len(conversations') = Len(conversations) - 1
        /\ \A k \in 1 .. Len(conversations') :
             /\ conversations'[k] = conversations[IF k < i THEN k ELSE k + 1]
             /\ (IF k < i THEN k ELSE k + 1) \in 1 .. Len(conversations)
             /\ (IF k < i THEN k ELSE k + 1) # i
    <3>1. conversations \in Seq(Nat) /\ Len(conversations) \in Nat
      BY ConversationsParts
    <3>2. /\ conversations' \in Seq(Nat) /\ Len(conversations') = Len(conversations) - 1
          /\ \A k \in 1 .. Len(conversations) - 1 :
                conversations'[k] = IF k < i THEN conversations[k] ELSE conversations[k + 1]
      BY <2>1, <2>2, <3>1, RemoveAtItems
    <3>3. \A k \in 1 .. Len(conversations) - 1 :
             /\ (IF k < i THEN k ELSE k + 1) \in 1 .. Len(conversations)
             /\ (IF k < i THEN k ELSE k + 1) # i
      BY <2>1, <3>1
    <3>4. \A k \in 1 .. Len(conversations) - 1 :
             conversations'[k] = conversations[IF k < i THEN k ELSE k + 1]
      BY <3>2
    <3> QED
      BY <3>2, <3>3, <3>4
  <2>6. \A k \in 1 .. Len(conversations) : k # i =>
           /\ conversations[k] # c /\ objects'[conversations[k]] = objects[conversations[k]]
           /\ channels'[objects'[conversations[k]].channel].chat = channels[objects[conversations[k]].channel].chat
    <3> SUFFICES ASSUME NEW k \in 1 .. Len(conversations), k # i
                 PROVE  /\ conversations[k] # c /\ objects'[conversations[k]] = objects[conversations[k]]
                        /\ channels'[objects'[conversations[k]].channel].chat = channels[objects[conversations[k]].channel].chat
      OBVIOUS
    <3>1. conversations[k] # c
      BY <2>1, ConversationsParts DEF RowsDiffer, c
    <3>2. conversations[k] \in 1 .. Len(objects) /\ objects[conversations[k]].gone = FALSE
      BY ConversationsParts
    <3> QED
      BY <1>3, <2>4, <3>1, <3>2
  <2>7. ConversationTypes'
    BY <1>2, <2>2, <2>4, <2>5, ConversationsParts DEF ConversationTypes
  <2>8. RowsLive'
    <3> SUFFICES ASSUME NEW k \in 1 .. Len(conversations')
                 PROVE  conversations'[k] \in 1 .. Len(objects') /\ objects'[conversations'[k]].gone = FALSE
      BY DEF RowsLive
    <3>1. PICK m \in 1 .. Len(conversations) : m # i /\ conversations'[k] = conversations[m]
      BY <2>5
    <3>2. conversations[m] \in 1 .. Len(objects) /\ objects[conversations[m]].gone = FALSE
          /\ objects'[conversations[m]] = objects[conversations[m]]
      BY <2>6, <3>1, ConversationsParts
    <3> QED
      BY <2>4, <3>1, <3>2
  <2>9. RowsDiffer'
    <3> SUFFICES ASSUME NEW j \in 1 .. Len(conversations'), NEW k \in 1 .. Len(conversations'),
                        channels'[objects'[conversations'[j]].channel].chat
                            = channels'[objects'[conversations'[k]].channel].chat
                 PROVE  j = k
      BY DEF RowsDiffer
    <3> DEFINE p == IF j < i THEN j ELSE j + 1
               q == IF k < i THEN k ELSE k + 1
    <3>1. /\ conversations'[j] = conversations[p] /\ p \in 1 .. Len(conversations) /\ p # i
          /\ conversations'[k] = conversations[q] /\ q \in 1 .. Len(conversations) /\ q # i
      BY <2>5
    <3>2. p = q => j = k
      <4>1. j \in Nat /\ k \in Nat /\ i \in Nat
        BY <2>1, <2>5, ConversationsParts
      <4> QED
        BY <4>1
    <3> HIDE DEF p, q
    <3>3. channels[objects[conversations[p]].channel].chat = channels[objects[conversations[q]].channel].chat
      BY <2>6, <3>1
    <3>4. p = q
      BY <3>1, <3>3, ConversationsParts DEF RowsDiffer
    <3> QED
      BY <3>2, <3>4
  <2>10. ASSUME NEW d \in 1 .. Len(objects') PROVE Sound(objects'[d], channels')
    <3>1. Sound(n, channels')
      BY <2>3 DEF Sound
    <3> QED
      BY <1>3, <2>4, <3>1
  <2> QED
    BY <1>2, <2>7, <2>8, <2>9, <2>10 DEF ConversationsInv
<1>8. RowsFor(ch) # {} => (CHOOSE row \in RowsFor(ch) : \A other \in RowsFor(ch) : row <= other) \in RowsFor(ch)
  <2> SUFFICES ASSUME RowsFor(ch) # {} PROVE \E row \in RowsFor(ch) : \A other \in RowsFor(ch) : row <= other
    OBVIOUS
  <2>1. RowsFor(ch) \subseteq Nat
    BY ConversationsParts DEF RowsFor
  <2> QED
    BY <2>1, LeastOfSome
<1> QED
  BY <1>1, <1>4, <1>5, <1>6, <1>7, <1>8 DEF handleChannels

\* Every step keeps the invariant.
LEMMA NextConversationsInv == ConversationsInv /\ [ConversationsNext]_conversationVars => ConversationsInv'
<1> SUFFICES ASSUME ConversationsInv, [ConversationsNext]_conversationVars PROVE ConversationsInv'
  OBVIOUS
<1>1. ASSUME NEW ch \in DOMAIN channels, onChannelInvalidated(ch) PROVE ConversationsInv'
  BY <1>1, ConversationsParts, InvalidatedKept
<1>2. CASE closeAllConversations
  <2>1. conversations' = <<>> /\ UNCHANGED <<channels, objects, activeChatIndex>>
    BY <1>2 DEF closeAllConversations
  <2>2. conversations' \in Seq(Nat) /\ 1 .. Len(conversations') = {}
    BY <2>1, EmptySeq
  <2>3. RowsLive' /\ RowsDiffer'
    BY <2>2 DEF RowsLive, RowsDiffer
  <2>4. \A c \in 1 .. Len(objects') : Sound(objects'[c], channels')
    BY <2>1 DEF ConversationsInv
  <2>5. ConversationTypes'
    BY <2>1, <2>2 DEF ConversationsInv, ConversationTypes
  <2> QED
    BY <2>3, <2>4, <2>5 DEF ConversationsInv
<1>3. CASE UNCHANGED conversationVars
  BY <1>3 DEF conversationVars, ConversationsInv, ConversationTypes, RowsLive, RowsDiffer
<1> QED
  BY <1>1, <1>2, <1>3, ClosedKept, QuietKept, RequestKept, DispatchedKept DEF ConversationsNext

\* A conversation is valid as its channel is, unless it was told of the end of another
\* since, and contacts with one id have one row: for any accounts and chats, any number
\* of channels and conversations, and any order of drops, requests and late signals.
THEOREM ConversationsStaySound ==
    ConversationsInit /\ [][ConversationsNext]_conversationVars => []ConversationsSound
<1>1. ConversationsInit => ConversationsInv
  <2> SUFFICES ASSUME ConversationsInit PROVE ConversationsInv
    OBVIOUS
  <2>1. channels = <<>> /\ objects = <<>> /\ conversations = <<>> /\ activeChatIndex = -1
    BY DEF ConversationsInit
  <2>2. /\ channels \in Seq(ChannelRecords) /\ objects \in Seq(Objects) /\ conversations \in Seq(Nat)
        /\ Len(channels) = 0 /\ Len(objects) = 0 /\ Len(conversations) = 0
    BY <2>1, EmptySeq
  <2> QED
    BY <2>1, <2>2 DEF ConversationsInv, ConversationTypes, RowsLive, RowsDiffer
<1>2. ConversationsInv => ConversationsSound
  <2> SUFFICES ASSUME ConversationsInv PROVE ConversationsSound
    OBVIOUS
  <2>1. ValidityMatches
    <3> SUFFICES ASSUME NEW c \in Living
                 PROVE  /\ objects[c].channel \in Alive => objects[c].valid \/ objects[c].misled
                        /\ channels[objects[c].channel].state = "told" => ~objects[c].valid
      BY DEF ValidityMatches
    <3>1. c \in 1 .. Len(objects) /\ objects[c].gone # TRUE /\ Sound(objects[c], channels)
      BY ConversationsParts DEF Living
    <3> QED
      BY <3>1, ConversationsParts DEF Sound, Alive
  <2>2. OneRowPerChat
    BY ConversationsParts DEF OneRowPerChat, RowsDiffer, TargetOf
  <2> QED
    BY <2>1, <2>2 DEF ConversationsSound
<1> QED
  BY <1>1, <1>2, NextConversationsInv, PTL

(***************************************************************************)
(* Pinned contacts.  The queue of the event loop holds nothing of an       *)
(* earlier connection, and what it holds of a lost one is followed by the  *)
(* end of that; so a pin's contact is of the connection that is there, and *)
(* its row is shown by what was announced for it.                          *)
(***************************************************************************)
PinRecords == [id : People, number : Nat, ready : BOOLEAN, contact : Nat, asked : Nat,
               linked : SUBSET Nat]
PinEvents == [event : {"contacts"}, number : Nat, of : Nat]
                 \cup [event : {"invalidated"}, of : Nat]
                 \cup [event : {"dataChanged"}, id : People, row : Nat]

FoundEvents == {e \in PinEvents : e.event = "contacts"}
FoundFor(n) == {e \in PinEvents : e.event = "contacts" /\ e.number = n}
LostEvents == {e \in PinEvents : e.event = "invalidated"}
EarlierEvents(m) == {e \in PinEvents : e.event # "dataChanged" /\ e.of # m}
RepaintsOf(p) == {e \in PinEvents : e.event = "dataChanged" /\ e.id = p}

PinTypes ==
    /\ pins \in Seq(PinRecords) /\ posted \in Seq(PinEvents)
    /\ connection \in Nat /\ made \in Nat /\ pinnings \in Nat
    /\ painted \in [People -> BOOLEAN]

PinsDiffer ==
    \A i, j \in 1 .. Len(pins) :
        /\ pins[i].number <= pinnings
        /\ (pins[i].id = pins[j].id \/ pins[i].number = pins[j].number) => i = j

\* Of the connection c, when m were made and the queue is q.
QueueRight(c, m, q) ==
    /\ c \in {0, m}
    /\ c # 0 => ~Has(q, LostEvents)
    /\ c = 0 => FollowedBy(q, FoundEvents, LostEvents)
    /\ ~Has(q, EarlierEvents(m))

\* The contact of a pin is of the connection; rf: the contacts that were refused.
Follows(pin, c, m, q, rf) ==
    /\ pin.contact # 0 => pin.contact \in pin.linked
    /\ c # 0 => pin.contact \in {0, c} /\ pin.asked \in {0, c}
    /\ c = 0 /\ pin.contact # 0 => pin.contact = m /\ Has(q, LostEvents)
    /\ pin.asked # 0 => pin.ready = TRUE
    /\ c # 0 /\ pin.ready = TRUE /\ pin.asked = 0 /\ ~Has(q, FoundFor(pin.number)) /\ pin.id \notin rf
           => pin.contact = c

\* A row was evaluated last, pt, by the presence pr and the conversations ch, unless its
\* change was not announced, ms, or is in the queue.
Shows(pin, ms, q, pt, pr, ch) ==
    pin.id \notin ms /\ ~Has(q, RepaintsOf(pin.id)) =>
        (pt[pin.id] = TRUE <=> (pin.contact # 0 /\ pin.id \in pr /\ pin.id \notin ch))

PinsInv ==
    /\ PinTypes /\ PinsDiffer /\ QueueRight(connection, made, posted)
    /\ \A i \in 1 .. Len(pins) : /\ Follows(pins[i], connection, made, posted, refused)
                                 /\ Shows(pins[i], missed, posted, painted, presence, chatting)

\* The parts of the invariant that the steps cite.
LEMMA PinsParts ==
    ASSUME PinsInv
    PROVE  /\ pins \in Seq(PinRecords) /\ posted \in Seq(PinEvents)
           /\ Len(pins) \in Nat /\ DOMAIN pins = 1 .. Len(pins)
           /\ Len(posted) \in Nat /\ DOMAIN posted = 1 .. Len(posted)
           /\ connection \in Nat /\ made \in Nat /\ pinnings \in Nat
           /\ painted \in [People -> BOOLEAN]
           /\ PinsDiffer /\ QueueRight(connection, made, posted)
           /\ \A i \in 1 .. Len(pins) : /\ pins[i] \in PinRecords
                                        /\ Follows(pins[i], connection, made, posted, refused)
                                        /\ Shows(pins[i], missed, posted, painted, presence, chatting)
BY LenProperties, ElementOfSeq DEF PinsInv, PinTypes

\* Steps that change pins one by one.
LEMMA PinsMapped ==
    ASSUME PinsInv, pins' \in Seq(PinRecords), Len(pins') = Len(pins), posted' \in Seq(PinEvents),
           connection' \in Nat, made' \in Nat, pinnings' = pinnings, painted' \in [People -> BOOLEAN],
           QueueRight(connection', made', posted'),
           \A i \in 1 .. Len(pins) :
             /\ pins'[i].id = pins[i].id /\ pins'[i].number = pins[i].number
             /\ Follows(pins'[i], connection', made', posted', refused')
             /\ Shows(pins'[i], missed', posted', painted', presence', chatting')
    PROVE  PinsInv'
<1>1. PinTypes'
  BY PinsParts DEF PinTypes
<1>2. PinsDiffer'
  BY PinsParts DEF PinsDiffer
<1> QED
  BY <1>1, <1>2 DEF PinsInv

\* Nothing of the end of a connection is in a queue that has no such event.
LEMMA NotInQueue ==
    ASSUME NEW q \in Seq(PinEvents), NEW kind,
           \A n \in DOMAIN q : q[n].event # kind
    PROVE  ~Has(q, {e \in PinEvents : e.event = kind})
BY LenProperties DEF Has

\* The head of the queue is taken: what is said of other events stays.
LEMMA QueueTail ==
    ASSUME PinsInv, posted # <<>>
    PROVE  /\ Tail(posted) \in Seq(PinEvents) /\ Head(posted) \in PinEvents
           /\ \A S : Head(posted) \notin S => (Has(Tail(posted), S) <=> Has(posted, S))
           /\ \A S : Head(posted) \in S => Has(posted, S)
           /\ Head(posted).event # "dataChanged" => Head(posted).of = made
           /\ Head(posted).event # "invalidated" => QueueRight(connection, made, Tail(posted))
           /\ connection = 0 => QueueRight(connection, made, Tail(posted))
           /\ Head(posted).event = "contacts" /\ connection = 0 => Has(Tail(posted), LostEvents)
<1>1. posted \in Seq(PinEvents) /\ QueueRight(connection, made, posted)
  BY PinsParts
<1>2. /\ Tail(posted) \in Seq(PinEvents) /\ Head(posted) \in PinEvents
      /\ \A S : Has(posted, S) <=> Head(posted) \in S \/ Has(Tail(posted), S)
  BY <1>1, HasTail
<1>3. Head(posted).event # "dataChanged" => Head(posted).of = made
  BY <1>1, <1>2 DEF QueueRight, EarlierEvents
<1>4. connection = 0 => /\ FollowedBy(Tail(posted), FoundEvents, LostEvents)
                        /\ Head(posted) \in FoundEvents => Has(Tail(posted), LostEvents)
  BY <1>1, FollowedTail DEF QueueRight
<1>5. Head(posted).event = "contacts" => Head(posted) \in FoundEvents
  BY <1>2 DEF FoundEvents
<1>6. QueueRight(connection, made, Tail(posted))
  BY <1>1, <1>2, <1>4 DEF QueueRight
<1> QED
  BY <1>2, <1>3, <1>4, <1>5, <1>6

\* An event is added to the queue.
LEMMA QueueAppend ==
    ASSUME PinsInv, NEW x \in PinEvents
    PROVE  /\ Append(posted, x) \in Seq(PinEvents)
           /\ \A S : x \notin S => (Has(Append(posted, x), S) <=> Has(posted, S))
           /\ \A S : x \in S => Has(Append(posted, x), S)
           /\ x.event = "dataChanged" => QueueRight(connection, made, Append(posted, x))
           /\ x.event = "contacts" /\ connection # 0 /\ x.of = connection
                  => QueueRight(connection, made, Append(posted, x))
           /\ x.event = "invalidated" /\ connection # 0 /\ x.of = connection
                  => QueueRight(0, made, Append(posted, x))
<1>1. posted \in Seq(PinEvents) /\ QueueRight(connection, made, posted)
  BY PinsParts
<1>2. /\ Append(posted, x) \in Seq(PinEvents)
      /\ \A S : Has(Append(posted, x), S) <=> Has(posted, S) \/ x \in S
  BY <1>1, HasAppend
<1>3. CASE x.event = "dataChanged"
  <2>1. x \notin LostEvents /\ x \notin FoundEvents /\ x \notin EarlierEvents(made)
    BY <1>3 DEF LostEvents, FoundEvents, EarlierEvents
  <2>2. connection = 0 => FollowedBy(Append(posted, x), FoundEvents, LostEvents)
    BY <1>1, <2>1, FollowedAppend DEF QueueRight
  <2> QED
    BY <1>1, <1>2, <1>3, <2>1, <2>2 DEF QueueRight
<1>4. CASE x.event = "contacts" /\ connection # 0 /\ x.of = connection
  <2>1. x \notin LostEvents /\ x \notin EarlierEvents(made)
    BY <1>1, <1>4 DEF LostEvents, EarlierEvents, QueueRight
  <2> QED
    BY <1>1, <1>2, <1>4, <2>1 DEF QueueRight
<1>5. CASE x.event = "invalidated" /\ connection # 0 /\ x.of = connection
  <2>1. x \in LostEvents /\ x \notin FoundEvents /\ x \notin EarlierEvents(made)
    BY <1>1, <1>5 DEF LostEvents, FoundEvents, EarlierEvents, QueueRight
  <2>2. FollowedBy(Append(posted, x), FoundEvents, LostEvents)
    BY <1>1, <2>1, FollowedAppend
  <2> QED
    BY <1>1, <1>2, <1>5, <2>1, <2>2 DEF QueueRight
<1> QED
  BY <1>2, <1>3, <1>4, <1>5

\* What the rows show after dataChanged for some of them.
LEMMA RowsRepainted ==
    ASSUME PinsInv, NEW ids, dataChanged(ids), Len(pins') = Len(pins),
           \A i \in 1 .. Len(pins) : pins'[i].id = pins[i].id, DOMAIN pins' = 1 .. Len(pins)
    PROVE  /\ painted' \in [People -> BOOLEAN]
           /\ \A i \in 1 .. Len(pins) : pins[i].id \in ids =>
                Shows(pins'[i], missed', posted', painted', presence', chatting')
           /\ \A i \in 1 .. Len(pins) : pins[i].id \notin ids =>
                painted'[pins[i].id] = painted[pins[i].id] /\ (pins[i].id \in missed' <=> pins[i].id \in missed)
<1>1. /\ painted' = [p \in People |->
                       IF p \in ids
                       THEN \E i \in DOMAIN pins' : pins'[i].id = p /\ Accepts(pins'[i])
                       ELSE painted[p]]
      /\ missed' = missed \ ids
  BY DEF dataChanged
<1>2. painted' \in [People -> BOOLEAN]
  BY <1>1, PinsParts
<1>3. ASSUME NEW i \in 1 .. Len(pins), pins[i].id \in ids
      PROVE  Shows(pins'[i], missed', posted', painted', presence', chatting')
  <2>1. pins[i].id \in People /\ pins'[i].id = pins[i].id
    BY PinsParts DEF PinRecords
  <2>2. painted'[pins[i].id] = (\E k \in 1 .. Len(pins) : pins'[k].id = pins[i].id /\ Accepts(pins'[k]))
    BY <1>1, <1>3, <2>1
  <2>3. \A k \in 1 .. Len(pins) : pins'[k].id = pins[i].id => k = i
    BY PinsParts DEF PinsDiffer
  <2>4. painted'[pins[i].id] = TRUE <=> Accepts(pins'[i])
    BY <2>1, <2>2, <2>3
  <2> QED
    BY <2>1, <2>4 DEF Shows, Accepts
<1>4. ASSUME NEW i \in 1 .. Len(pins), pins[i].id \notin ids
      PROVE  painted'[pins[i].id] = painted[pins[i].id] /\ (pins[i].id \in missed' <=> pins[i].id \in missed)
  <2>1. pins[i].id \in People
    BY PinsParts DEF PinRecords
  <2> QED
    BY <1>1, <1>4, <2>1
<1> QED
  BY <1>2, <1>3, <1>4

\* A pin in place of another one, of the same contact.
LEMMA PinReplaced ==
    ASSUME PinsInv, NEW i \in 1 .. Len(pins), NEW r \in PinRecords, pins' = [pins EXCEPT ![i] = r]
    PROVE  /\ pins' \in Seq(PinRecords) /\ Len(pins') = Len(pins)
           /\ \A k \in 1 .. Len(pins) : pins'[k] = IF k = i THEN r ELSE pins[k]
BY PinsParts, ExceptSeq

\* The account is ready.
LEMMA ReadyKept ==
    ASSUME PinsInv, NEW i \in 1 .. Len(pins), onAccountReady(i)
    PROVE  PinsInv'
<1> DEFINE r == [[pins[i] EXCEPT !.ready = TRUE] EXCEPT !.asked = connection]
<1>1. /\ UNCHANGED <<connection, made, destroyed, presence, pinnings, chatting, posted, painted, missed, refused>>
      /\ pins' = [pins EXCEPT ![i] = r]
  BY DEF onAccountReady, Asking
<1>2. /\ r \in PinRecords /\ r.ready = TRUE /\ r.asked = connection
      /\ r.id = pins[i].id /\ r.number = pins[i].number /\ r.contact = pins[i].contact /\ r.linked = pins[i].linked
  BY PinsParts DEF PinRecords
<1> HIDE DEF r
<1>3. /\ pins' \in Seq(PinRecords) /\ Len(pins') = Len(pins)
      /\ \A k \in 1 .. Len(pins) : pins'[k] = IF k = i THEN r ELSE pins[k]
  BY <1>1, <1>2, PinReplaced
<1>4. Follows(r, connection, made, posted, refused)
  BY <1>2, PinsParts DEF Follows
<1>5. Shows(r, missed, posted, painted, presence, chatting)
  BY <1>2, PinsParts DEF Shows
<1> QED
  BY <1>1, <1>2, <1>3, <1>4, <1>5, PinsParts, PinsMapped

\* Only a pin's request ends.
LEMMA AnsweredKept ==
    ASSUME PinsInv, NEW i \in 1 .. Len(pins), ContactsAnswered(i)
    PROVE  PinsInv'
<1> DEFINE r == [pins[i] EXCEPT !.asked = 0]
           x == [event |-> "contacts", number |-> pins[i].number, of |-> connection]
<1>1. /\ UNCHANGED <<connection, made, destroyed, presence, pinnings, chatting, painted, missed>>
      /\ pins' = [pins EXCEPT ![i] = r] /\ pins[i].asked # 0
      /\ \/ pins[i].asked = connection /\ posted' = Append(posted, x) /\ UNCHANGED refused
         \/ UNCHANGED posted /\ refused' = refused \cup {pins[i].id}
  BY DEF ContactsAnswered
<1>2. /\ r \in PinRecords /\ r.ready = pins[i].ready /\ r.asked = 0
      /\ r.id = pins[i].id /\ r.number = pins[i].number /\ r.contact = pins[i].contact /\ r.linked = pins[i].linked
  BY PinsParts DEF PinRecords
<1>3. x \in PinEvents /\ x.event = "contacts" /\ x.number = pins[i].number /\ x.of = connection
  BY PinsParts DEF PinEvents, PinRecords
<1> HIDE DEF r, x
<1>4. /\ pins' \in Seq(PinRecords) /\ Len(pins') = Len(pins)
      /\ \A k \in 1 .. Len(pins) : pins'[k] = IF k = i THEN r ELSE pins[k]
  BY <1>1, <1>2, PinReplaced
<1>5. CASE pins[i].asked = connection /\ posted' = Append(posted, x) /\ UNCHANGED refused
  <2>1. x \notin LostEvents /\ x \in FoundFor(pins[i].number) /\ \A p : x \notin RepaintsOf(p)
    BY <1>3 DEF LostEvents, FoundFor, RepaintsOf
  <2>2. /\ posted' \in Seq(PinEvents) /\ QueueRight(connection, made, posted') /\ connection # 0
        /\ \A S : x \notin S => (Has(posted', S) <=> Has(posted, S))
        /\ Has(posted', FoundFor(pins[i].number))
    BY <1>1, <1>3, <1>5, <2>1, QueueAppend
  <2>3. ASSUME NEW k \in 1 .. Len(pins)
        PROVE  /\ pins'[k].id = pins[k].id /\ pins'[k].number = pins[k].number
               /\ Follows(pins'[k], connection', made', posted', refused')
               /\ Shows(pins'[k], missed', posted', painted', presence', chatting')
    <3>1. /\ Follows(pins[k], connection, made, posted, refused)
          /\ Shows(pins[k], missed, posted, painted, presence, chatting)
      BY PinsParts
    <3>2. Has(posted', RepaintsOf(pins[k].id)) <=> Has(posted, RepaintsOf(pins[k].id))
      BY <2>1, <2>2
    <3>3. Has(posted, FoundFor(pins[k].number)) => Has(posted', FoundFor(pins[k].number))
      BY <1>3, <1>5, PinsParts, HasAppend
    <3>4. CASE k = i
      <4>1. Follows(r, connection, made, posted', refused)
        BY <1>2, <2>2, <3>1, <3>4 DEF Follows
      <4>2. Shows(r, missed, posted', painted, presence, chatting)
        BY <1>2, <3>1, <3>2, <3>4 DEF Shows
      <4> QED
        BY <1>1, <1>2, <1>4, <1>5, <3>4, <4>1, <4>2
    <3>5. CASE k # i
      <4>1. Follows(pins[k], connection, made, posted', refused)
        BY <2>2, <3>1, <3>3 DEF Follows
      <4>2. Shows(pins[k], missed, posted', painted, presence, chatting)
        BY <3>1, <3>2 DEF Shows
      <4> QED
        BY <1>1, <1>4, <1>5, <3>5, <4>1, <4>2
    <3> QED
      BY <3>4, <3>5
  <2> QED
    BY <1>1, <1>4, <2>2, <2>3, PinsParts, PinsMapped
<1>6. CASE UNCHANGED posted /\ refused' = refused \cup {pins[i].id}
  <2>1. Follows(r, connection, made, posted, refused')
    BY <1>2, <1>6, PinsParts DEF Follows
  <2>2. Shows(r, missed, posted, painted, presence, chatting)
    BY <1>2, PinsParts DEF Shows
  <2>3. \A k \in 1 .. Len(pins) : Follows(pins[k], connection, made, posted, refused')
    BY <1>6, PinsParts DEF Follows
  <2> QED
    BY <1>1, <1>2, <1>4, <1>6, <2>1, <2>2, <2>3, PinsParts, PinsMapped
<1> QED
  BY <1>1, <1>5, <1>6

\* A new connection: nothing is left of the one before it, and all that are ready ask.
LEMMA ConnectedKept ==
    ASSUME PinsInv, onContactConnectionChanged
    PROVE  PinsInv'
<1>1. /\ connection = 0 /\ made' = made + 1 /\ connection' = made' /\ refused' = {}
      /\ \A n \in DOMAIN posted : posted[n].event # "invalidated"
      /\ pins' = [i \in 1 .. Len(pins) |->
                    IF pins[i].ready THEN [pins[i] EXCEPT !.asked = connection'] ELSE pins[i]]
      /\ UNCHANGED <<destroyed, presence, pinnings, chatting, posted, painted, missed>>
  BY PinsParts DEF onContactConnectionChanged, Asking
<1>2. ~Has(posted, LostEvents)
  BY <1>1, PinsParts, NotInQueue DEF LostEvents
<1>3. ~Has(posted, FoundEvents)
  BY <1>1, <1>2, PinsParts DEF QueueRight, FollowedBy, Has
<1>4. QueueRight(connection', made', posted')
  <2>1. made + 1 \in Nat /\ made + 1 # 0 /\ connection' = made + 1 /\ made' = made + 1 /\ posted' = posted
    BY <1>1, PinsParts
  <2>2. ~Has(posted, EarlierEvents(made + 1))
    BY <1>2, <1>3 DEF Has, EarlierEvents, LostEvents, FoundEvents, PinEvents
  <2> QED
    BY <1>2, <2>1, <2>2 DEF QueueRight
<1>5. ASSUME NEW k \in 1 .. Len(pins)
      PROVE  /\ pins'[k] \in PinRecords
             /\ pins'[k].id = pins[k].id /\ pins'[k].number = pins[k].number
             /\ Follows(pins'[k], connection', made', posted', refused')
             /\ Shows(pins'[k], missed', posted', painted', presence', chatting')
  <2>1. /\ pins[k] \in PinRecords /\ Follows(pins[k], connection, made, posted, refused)
        /\ Shows(pins[k], missed, posted, painted, presence, chatting)
    BY PinsParts
  <2>2. connection' \in Nat /\ connection' # 0
    BY <1>1, PinsParts
  <2>3. pins[k].contact = 0 /\ (pins[k].asked # 0 => pins[k].ready = TRUE)
    BY <1>1, <1>2, <2>1 DEF Follows
  <2>4. CASE pins[k].ready
    <3> DEFINE r == [pins[k] EXCEPT !.asked = connection']
    <3>1. pins'[k] = r
      BY <1>1, <2>4
    <3>2. /\ r \in PinRecords /\ r.id = pins[k].id /\ r.number = pins[k].number /\ r.contact = 0
          /\ r.asked = connection' /\ r.ready = TRUE
      BY <2>1, <2>2, <2>3, <2>4 DEF PinRecords
    <3> HIDE DEF r
    <3>3. Follows(r, connection', made', posted', refused')
      BY <2>2, <3>2 DEF Follows
    <3>4. Shows(r, missed, posted, painted, presence, chatting)
      BY <2>1, <2>3, <3>2 DEF Shows
    <3> QED
      BY <1>1, <3>1, <3>2, <3>3, <3>4
  <2>5. CASE ~pins[k].ready
    <3>1. pins'[k] = pins[k] /\ pins[k].ready # TRUE /\ pins[k].asked = 0
      BY <1>1, <2>3, <2>5
    <3>2. Follows(pins[k], connection', made', posted', refused')
      BY <2>2, <2>3, <3>1 DEF Follows
    <3> QED
      BY <1>1, <2>1, <3>1, <3>2
  <2> QED
    BY <2>4, <2>5
<1>6. pins' \in Seq(PinRecords) /\ Len(pins') = Len(pins)
  <2>1. DOMAIN pins' = 1 .. Len(pins) /\ Len(pins) \in Nat
    BY <1>1, PinsParts
  <2>2. pins' = [i \in 1 .. Len(pins) |-> pins'[i]]
    BY <1>1
  <2> QED
    BY <1>5, <2>1, <2>2, SeqOfItems, LenProperties
<1>7. connection' \in Nat /\ made' \in Nat
  BY <1>1, PinsParts
<1> QED
  BY <1>1, <1>4, <1>5, <1>6, <1>7, PinsParts, PinsMapped

\* A contact was found: the pin of the request, if it is there still, has it.
LEMMA FoundKept ==
    ASSUME PinsInv, onPendingContactsFinished
    PROVE  PinsInv'
<1> DEFINE e == Head(posted)
           ids == {pins[i].id : i \in {j \in DOMAIN pins : pins[j].number = e.number}}
<1>1. /\ posted # <<>> /\ e.event = "contacts" /\ posted' = Tail(posted)
      /\ pins' = [i \in 1 .. Len(pins) |->
                    IF pins[i].number = e.number
                    THEN [pins[i] EXCEPT !.contact = e.of, !.linked = pins[i].linked \cup {e.of}]
                    ELSE pins[i]]
      /\ UNCHANGED <<connection, made, destroyed, presence, pinnings, chatting, refused>>
      /\ dataChanged(ids)
  BY PinsParts DEF onPendingContactsFinished, NextPosted
<1>2. /\ posted' \in Seq(PinEvents) /\ e \in PinEvents /\ e.of = made /\ QueueRight(connection, made, posted')
      /\ \A S : e \notin S => (Has(posted', S) <=> Has(posted, S))
      /\ connection = 0 => Has(posted', LostEvents)
  BY <1>1, QueueTail
<1>3. ASSUME NEW k \in 1 .. Len(pins)
      PROVE  /\ pins'[k] \in PinRecords
             /\ pins'[k].id = pins[k].id /\ pins'[k].number = pins[k].number
             /\ Follows(pins'[k], connection', made', posted', refused')
             /\ pins[k].number # e.number => pins'[k] = pins[k]
  <2>1. pins[k] \in PinRecords /\ Follows(pins[k], connection, made, posted, refused) /\ made \in Nat
    BY PinsParts
  <2>2. CASE pins[k].number = e.number
    <3> DEFINE r == [pins[k] EXCEPT !.contact = made, !.linked = pins[k].linked \cup {made}]
    <3>1. pins'[k] = r
      BY <1>1, <1>2, <2>2
    <3>2. /\ r \in PinRecords /\ r.id = pins[k].id /\ r.number = pins[k].number /\ r.contact = made
          /\ made \in r.linked /\ r.asked = pins[k].asked /\ r.ready = pins[k].ready
      BY <2>1 DEF PinRecords
    <3> HIDE DEF r
    <3>3. connection \in {0, made}
      BY PinsParts DEF QueueRight
    <3>4. Follows(r, connection, made, posted', refused)
      BY <1>2, <2>1, <3>2, <3>3 DEF Follows
    <3> QED
      BY <1>1, <2>2, <3>1, <3>2, <3>4
  <2>3. CASE pins[k].number # e.number
    <3>1. e \notin FoundFor(pins[k].number)
      BY <2>3 DEF FoundFor
    <3>2. e \notin LostEvents
      BY <1>1 DEF LostEvents
    <3>3. Follows(pins[k], connection, made, posted', refused)
      BY <1>2, <2>1, <3>1, <3>2 DEF Follows
    <3> QED
      BY <1>1, <2>1, <2>3, <3>3
  <2> QED
    BY <2>2, <2>3
<1>4. pins' \in Seq(PinRecords) /\ Len(pins') = Len(pins) /\ DOMAIN pins' = 1 .. Len(pins)
  <2>1. DOMAIN pins' = 1 .. Len(pins) /\ Len(pins) \in Nat
    BY <1>1, PinsParts
  <2>2. pins' = [i \in 1 .. Len(pins) |-> pins'[i]]
    BY <1>1
  <2> QED
    BY <1>3, <2>1, <2>2, SeqOfItems, LenProperties
<1>5. /\ painted' \in [People -> BOOLEAN]
      /\ \A i \in 1 .. Len(pins) : pins[i].id \in ids =>
           Shows(pins'[i], missed', posted', painted', presence', chatting')
      /\ \A i \in 1 .. Len(pins) : pins[i].id \notin ids =>
           painted'[pins[i].id] = painted[pins[i].id] /\ (pins[i].id \in missed' <=> pins[i].id \in missed)
  <2> HIDE DEF ids
  <2> QED
    BY <1>1, <1>3, <1>4, RowsRepainted
<1>6. ASSUME NEW k \in 1 .. Len(pins)
      PROVE  Shows(pins'[k], missed', posted', painted', presence', chatting')
  <2>1. CASE pins[k].id \in ids
    BY <1>5, <2>1
  <2>2. CASE pins[k].id \notin ids
    <3>1. pins[k].number # e.number
      BY <2>2, PinsParts
    <3>2. e \notin RepaintsOf(pins[k].id)
      BY <1>1 DEF RepaintsOf
    <3>3. Has(posted', RepaintsOf(pins[k].id)) <=> Has(posted, RepaintsOf(pins[k].id))
      BY <1>2, <3>2
    <3>4. Shows(pins[k], missed, posted, painted, presence, chatting) /\ pins'[k] = pins[k]
      BY <1>3, <3>1, PinsParts
    <3>5. painted'[pins[k].id] = painted[pins[k].id] /\ (pins[k].id \in missed' <=> pins[k].id \in missed)
      BY <1>5, <2>2
    <3>6. presence' = presence /\ chatting' = chatting
      BY <1>1
    <3> HIDE DEF e, ids
    <3>7. Shows(pins[k], missed', posted', painted', presence', chatting')
      BY <3>3, <3>4, <3>5, <3>6 DEF Shows
    <3> QED
      BY <3>4, <3>7
  <2> QED
    BY <2>1, <2>2
<1> QED
  BY <1>1, <1>2, <1>3, <1>4, <1>5, <1>6, PinsParts, PinsMapped

\* Contact objects of a connection say that they are invalid: their rows cannot be announced.
LEMMA DroppedPins ==
    ASSUME PinsInv, NEW n, onContactInvalid(n)
    PROVE  /\ pins' \in Seq(PinRecords) /\ Len(pins') = Len(pins)
           /\ UNCHANGED <<connection, made, presence, pinnings, chatting, painted>>
           /\ \A k \in 1 .. Len(pins) :
                /\ pins'[k].id = pins[k].id /\ pins'[k].number = pins[k].number
                /\ pins'[k].linked = pins[k].linked /\ pins'[k].asked = pins[k].asked
                /\ pins'[k].ready = pins[k].ready
                /\ n \in pins[k].linked => pins'[k].contact = 0
                /\ pins'[k].contact \in {0, pins[k].contact}
                /\ pins'[k] # pins[k] => pins[k].id \in missed'
                /\ pins[k].id \in missed => pins[k].id \in missed'
                /\ n \notin pins[k].linked => pins'[k] = pins[k]
<1>1. /\ pins' = [i \in 1 .. Len(pins) |->
                    IF n \in pins[i].linked THEN [pins[i] EXCEPT !.contact = 0] ELSE pins[i]]
      /\ missed' = missed \cup {pins[i].id : i \in {j \in 1 .. Len(pins) : pins'[j] # pins[j]}}
      /\ UNCHANGED <<connection, made, presence, pinnings, chatting, painted>>
  BY PinsParts DEF onContactInvalid, DropContacts
<1>2. ASSUME NEW k \in 1 .. Len(pins)
      PROVE  /\ pins'[k] \in PinRecords
             /\ pins'[k].id = pins[k].id /\ pins'[k].number = pins[k].number
             /\ pins'[k].linked = pins[k].linked /\ pins'[k].asked = pins[k].asked
             /\ pins'[k].ready = pins[k].ready
             /\ n \in pins[k].linked => pins'[k].contact = 0
             /\ pins'[k].contact \in {0, pins[k].contact}
             /\ n \notin pins[k].linked => pins'[k] = pins[k]
  <2>1. pins[k] \in PinRecords
    BY PinsParts
  <2>2. CASE n \in pins[k].linked
    BY <1>1, <2>1, <2>2 DEF PinRecords
  <2>3. CASE n \notin pins[k].linked
    BY <1>1, <2>1, <2>3
  <2> QED
    BY <2>2, <2>3
<1>3. pins' \in Seq(PinRecords) /\ Len(pins') = Len(pins)
  <2>1. DOMAIN pins' = 1 .. Len(pins) /\ Len(pins) \in Nat
    BY <1>1, PinsParts
  <2>2. pins' = [i \in 1 .. Len(pins) |-> pins'[i]]
    BY <1>1
  <2> QED
    BY <1>2, <2>1, <2>2, SeqOfItems, LenProperties
<1>4. \A k \in 1 .. Len(pins) : /\ pins'[k] # pins[k] => pins[k].id \in missed'
                                /\ pins[k].id \in missed => pins[k].id \in missed'
  BY <1>1
<1> QED
  BY <1>1, <1>2, <1>3, <1>4

\* The rows whose pin is what it was show what they showed; of the others nothing is said.
LEMMA DroppedShown ==
    ASSUME PinsInv, NEW n, onContactInvalid(n), NEW k \in 1 .. Len(pins),
           Has(posted, RepaintsOf(pins[k].id)) <=> Has(posted', RepaintsOf(pins[k].id))
    PROVE  Shows(pins'[k], missed', posted', painted', presence', chatting')
<1>1. /\ UNCHANGED <<presence, chatting, painted>>
      /\ pins'[k].id = pins[k].id
      /\ pins'[k] # pins[k] => pins[k].id \in missed'
      /\ pins[k].id \in missed => pins[k].id \in missed'
  BY DroppedPins
<1>2. Shows(pins[k], missed, posted, painted, presence, chatting)
  BY PinsParts
<1> QED
  BY <1>1, <1>2 DEF Shows

\* The end of a lost connection is told: no pin has a contact.
LEMMA EndToldKept ==
    ASSUME PinsInv, ConnectionInvalidated
    PROVE  PinsInv'
<1> DEFINE e == Head(posted)
<1>1. /\ posted # <<>> /\ e.event = "invalidated" /\ posted' = Tail(posted)
      /\ onContactInvalid(e.of) /\ UNCHANGED <<destroyed, refused>>
  BY DEF ConnectionInvalidated, NextPosted
<1>2. /\ posted' \in Seq(PinEvents) /\ e \in PinEvents /\ e.of = made
      /\ \A S : e \notin S => (Has(posted', S) <=> Has(posted, S))
      /\ \A S : e \in S => Has(posted, S)
      /\ connection = 0 => QueueRight(connection, made, posted')
  BY <1>1, QueueTail
<1>3. connection = 0
  <2>1. e \in LostEvents
    BY <1>1, <1>2 DEF LostEvents
  <2> QED
    BY <1>2, <2>1, PinsParts DEF QueueRight
<1>4. /\ pins' \in Seq(PinRecords) /\ Len(pins') = Len(pins)
      /\ UNCHANGED <<connection, made, presence, pinnings, chatting, painted>>
      /\ \A k \in 1 .. Len(pins) :
           /\ pins'[k].id = pins[k].id /\ pins'[k].number = pins[k].number
           /\ pins'[k].asked = pins[k].asked /\ pins'[k].ready = pins[k].ready
           /\ made \in pins[k].linked => pins'[k].contact = 0
           /\ pins'[k].contact \in {0, pins[k].contact}
  BY <1>1, <1>2, DroppedPins
<1>5. ASSUME NEW k \in 1 .. Len(pins)
      PROVE  /\ Follows(pins'[k], connection', made', posted', refused')
             /\ Shows(pins'[k], missed', posted', painted', presence', chatting')
  <2>1. Follows(pins[k], connection, made, posted, refused)
    BY PinsParts
  <2>2. pins'[k].contact = 0
    BY <1>3, <1>4, <2>1 DEF Follows
  <2>3. Follows(pins'[k], connection, made, posted', refused)
    BY <1>3, <1>4, <2>1, <2>2 DEF Follows
  <2>4. e \notin RepaintsOf(pins[k].id)
    BY <1>1 DEF RepaintsOf
  <2>5. Shows(pins'[k], missed', posted', painted', presence', chatting')
    BY <1>1, <1>2, <2>4, DroppedShown
  <2> QED
    BY <1>1, <1>4, <2>3, <2>5
<1> QED
  BY <1>1, <1>2, <1>3, <1>4, <1>5, PinsParts, PinsMapped

\* A connection is deleted late: it may take away a contact of the next.
LEMMA DestroyedKept ==
    ASSUME PinsInv, NEW n, ConnectionDestroyed(n)
    PROVE  PinsInv'
<1>1. /\ \A k \in DOMAIN posted : posted[k].event # "invalidated"
      /\ onContactInvalid(n) /\ UNCHANGED posted
      /\ refused' = refused \cup {pins[i].id : i \in {j \in 1 .. Len(pins) : pins'[j] # pins[j]}}
  BY PinsParts DEF ConnectionDestroyed
<1>2. ~Has(posted, LostEvents)
  BY <1>1, PinsParts, NotInQueue DEF LostEvents
<1>3. /\ pins' \in Seq(PinRecords) /\ Len(pins') = Len(pins)
      /\ UNCHANGED <<connection, made, presence, pinnings, chatting, painted>>
      /\ \A k \in 1 .. Len(pins) :
           /\ pins'[k].id = pins[k].id /\ pins'[k].number = pins[k].number
           /\ pins'[k].linked = pins[k].linked
           /\ pins'[k].asked = pins[k].asked /\ pins'[k].ready = pins[k].ready
           /\ pins'[k].contact \in {0, pins[k].contact}
  BY <1>1, DroppedPins
<1>4. ASSUME NEW k \in 1 .. Len(pins)
      PROVE  /\ Follows(pins'[k], connection', made', posted', refused')
             /\ Shows(pins'[k], missed', posted', painted', presence', chatting')
  <2>1. Follows(pins[k], connection, made, posted, refused)
    BY PinsParts
  <2>2. pins'[k] # pins[k] => pins[k].id \in refused'
    BY <1>1
  <2>3. pins[k].id \in refused => pins[k].id \in refused'
    BY <1>1
  <2>4. Follows(pins'[k], connection, made, posted, refused')
    BY <1>2, <1>3, <2>1, <2>2, <2>3 DEF Follows
  <2>5. Shows(pins'[k], missed', posted', painted', presence', chatting')
    BY <1>1, DroppedShown
  <2> QED
    BY <1>1, <1>3, <2>4, <2>5
<1> QED
  BY <1>1, <1>3, <1>4, PinsParts, PinsMapped

\* The connection is lost: the rows cannot be announced, and its end is in the queue.
LEMMA LostKept ==
    ASSUME PinsInv, ConnectionLost
    PROVE  PinsInv'
<1> DEFINE x == [event |-> "invalidated", of |-> connection]
<1>1. /\ connection # 0 /\ connection' = 0 /\ presence' = {}
      /\ missed' = missed \cup {pins[i].id : i \in 1 .. Len(pins)}
      /\ posted' = Append(posted, x)
      /\ UNCHANGED <<made, destroyed, pins, pinnings, chatting, painted, refused>>
  BY PinsParts DEF ConnectionLost
<1>2. x \in PinEvents /\ x.event = "invalidated" /\ x.of = connection
  BY PinsParts DEF PinEvents
<1> HIDE DEF x
<1>3. x \in LostEvents
  BY <1>2 DEF LostEvents
<1>4. posted' \in Seq(PinEvents) /\ QueueRight(0, made, posted') /\ Has(posted', LostEvents)
  BY <1>1, <1>2, <1>3, QueueAppend
<1>5. ASSUME NEW k \in 1 .. Len(pins)
      PROVE  /\ Follows(pins[k], 0, made, posted', refused)
             /\ Shows(pins[k], missed', posted', painted', presence', chatting')
  <2>1. Follows(pins[k], connection, made, posted, refused) /\ connection = made
    BY <1>1, PinsParts DEF QueueRight
  <2>2. Follows(pins[k], 0, made, posted', refused)
    BY <1>1, <1>4, <2>1 DEF Follows
  <2>3. pins[k].id \in missed'
    BY <1>1
  <2> QED
    BY <2>2, <2>3 DEF Shows
<1> QED
  BY <1>1, <1>4, <1>5, PinsParts, PinsMapped

\* A pin is made.
LEMMA PinnedKept ==
    ASSUME PinsInv, NEW p \in People, appendContactPin(p), pinnings' = pinnings + 1,
           UNCHANGED <<connection, made, destroyed, presence, chatting, posted>>
    PROVE  PinsInv'
<1> DEFINE x == NewPin(p, pinnings + 1)
           m == Len(pins) + 1
<1>1. /\ p \notin Pinned /\ pins' = Append(pins, x) /\ painted' = [painted EXCEPT ![p] = FALSE]
      /\ missed' = missed \ {p} /\ refused' = refused \ {p}
  BY DEF appendContactPin
<1>2. /\ x \in PinRecords /\ x.id = p /\ x.number = pinnings + 1 /\ x.contact = 0 /\ x.asked = 0
      /\ x.ready = FALSE
  BY PinsParts DEF NewPin, PinRecords
<1> HIDE DEF x
<1>3. /\ pins' \in Seq(PinRecords) /\ Len(pins') = m /\ pins'[m] = x
      /\ \A k \in 1 .. Len(pins) : pins'[k] = pins[k]
  BY <1>1, <1>2, PinsParts, AppendProperties
<1>4. \A k \in 1 .. Len(pins) : pins[k].id # p /\ pins[k].id \in People
  BY <1>1, PinsParts DEF Pinned, PinRecords
<1>5. painted' \in [People -> BOOLEAN] /\ painted'[p] = FALSE
      /\ \A k \in 1 .. Len(pins) : painted'[pins[k].id] = painted[pins[k].id]
  BY <1>1, <1>4, PinsParts
<1>6. \A k \in 1 .. Len(pins') : k \in 1 .. Len(pins) \/ k = m
  BY <1>3, PinsParts
<1>7. PinTypes'
  <2>1. pinnings + 1 \in Nat
    BY PinsParts
  <2> QED
    BY <1>3, <1>5, <2>1, PinsParts DEF PinTypes
<1>8. PinsDiffer'
  <2> SUFFICES ASSUME NEW i \in 1 .. Len(pins'), NEW j \in 1 .. Len(pins')
               PROVE  /\ pins'[i].number <= pinnings'
                      /\ (pins'[i].id = pins'[j].id \/ pins'[i].number = pins'[j].number) => i = j
    BY DEF PinsDiffer
  <2>1. \A k \in 1 .. Len(pins) : pins[k].number \in Nat /\ pins[k].number <= pinnings
    BY PinsParts DEF PinsDiffer, PinRecords
  <2>2. CASE i \in 1 .. Len(pins) /\ j \in 1 .. Len(pins)
    BY <1>3, <2>1, <2>2, PinsParts DEF PinsDiffer
  <2>3. CASE i = m /\ j \in 1 .. Len(pins)
    BY <1>2, <1>3, <1>4, <2>1, <2>3, PinsParts
  <2>4. CASE i \in 1 .. Len(pins) /\ j = m
    BY <1>2, <1>3, <1>4, <2>1, <2>4, PinsParts
  <2>5. CASE i = m /\ j = m
    BY <1>2, <1>3, <2>5, PinsParts
  <2> QED
    BY <1>6, <2>2, <2>3, <2>4, <2>5
<1>9. ASSUME NEW k \in 1 .. Len(pins')
      PROVE  /\ Follows(pins'[k], connection', made', posted', refused')
             /\ Shows(pins'[k], missed', posted', painted', presence', chatting')
  <2>1. CASE k \in 1 .. Len(pins)
    <3>1. /\ Follows(pins[k], connection, made, posted, refused)
          /\ Shows(pins[k], missed, posted, painted, presence, chatting)
      BY <2>1, PinsParts
    <3>2. Follows(pins[k], connection, made, posted, refused')
      BY <1>1, <1>4, <2>1, <3>1 DEF Follows
    <3>3. Shows(pins[k], missed', posted, painted', presence, chatting)
      BY <1>1, <1>4, <1>5, <2>1, <3>1 DEF Shows
    <3> QED
      BY <1>3, <2>1, <3>2, <3>3
  <2>2. CASE k = m
    <3>1. Follows(x, connection, made, posted, refused')
      BY <1>2, PinsParts DEF Follows, QueueRight
    <3>2. Shows(x, missed', posted, painted', presence, chatting)
      BY <1>2, <1>5 DEF Shows
    <3> QED
      BY <1>3, <2>2, <3>1, <3>2
  <2> QED
    BY <1>6, <2>1, <2>2
<1>10. QueueRight(connection', made', posted')
  BY PinsParts
<1> QED
  BY <1>7, <1>8, <1>9, <1>10 DEF PinsInv

\* A pin is taken away.
LEMMA UnpinnedKept ==
    ASSUME PinsInv, NEW i \in 1 .. Len(pins), removeContactPin(i),
           UNCHANGED <<connection, made, destroyed, presence, pinnings, chatting, posted>>
    PROVE  PinsInv'
<1> DEFINE old(k) == IF k < i THEN k ELSE k + 1
<1>1. /\ pins' = RemoveAt(pins, i) /\ painted' = [painted EXCEPT ![pins[i].id] = FALSE]
      /\ UNCHANGED <<missed, refused>>
  BY DEF removeContactPin
<1>2. /\ pins' \in Seq(PinRecords) /\ Len(pins') = Len(pins) - 1
      /\ \A k \in 1 .. Len(pins) - 1 : pins'[k] = IF k < i THEN pins[k] ELSE pins[k + 1]
  BY <1>1, PinsParts, RemoveAtItems
<1>3. ASSUME NEW k \in 1 .. Len(pins')
      PROVE  old(k) \in 1 .. Len(pins) /\ old(k) # i /\ pins'[k] = pins[old(k)] /\ k \in Nat
  <2>1. Len(pins) \in Nat /\ k \in 1 .. Len(pins) - 1
    BY <1>2, PinsParts
  <2>2. old(k) \in 1 .. Len(pins) /\ old(k) # i /\ k \in Nat
    BY <2>1
  <2>3. pins'[k] = pins[old(k)]
    BY <1>2, <2>1
  <2> QED
    BY <2>2, <2>3
<1>4. \A j, k \in Nat : old(j) = old(k) => j = k
  <2>1. i \in Nat
    BY PinsParts
  <2> QED
    BY <2>1
<1> HIDE DEF old
<1>5. PinTypes'
  BY <1>1, <1>2, PinsParts DEF PinTypes
<1>6. PinsDiffer'
  <2> SUFFICES ASSUME NEW j \in 1 .. Len(pins'), NEW k \in 1 .. Len(pins')
               PROVE  /\ pins'[j].number <= pinnings
                      /\ (pins'[j].id = pins'[k].id \/ pins'[j].number = pins'[k].number) => j = k
    BY DEF PinsDiffer
  <2>1. /\ old(j) \in 1 .. Len(pins) /\ pins'[j] = pins[old(j)] /\ j \in Nat
        /\ old(k) \in 1 .. Len(pins) /\ pins'[k] = pins[old(k)] /\ k \in Nat
    BY <1>3
  <2>2. /\ pins[old(j)].number <= pinnings
        /\ (pins[old(j)].id = pins[old(k)].id \/ pins[old(j)].number = pins[old(k)].number) => old(j) = old(k)
    BY <2>1, PinsParts DEF PinsDiffer
  <2> QED
    BY <1>4, <2>1, <2>2
<1>7. ASSUME NEW k \in 1 .. Len(pins')
      PROVE  /\ Follows(pins'[k], connection', made', posted', refused')
             /\ Shows(pins'[k], missed', posted', painted', presence', chatting')
  <2> DEFINE r == pins[old(k)]
  <2>1. /\ old(k) \in 1 .. Len(pins) /\ old(k) # i /\ pins'[k] = r
    BY <1>3
  <2>2. /\ Follows(r, connection, made, posted, refused)
        /\ Shows(r, missed, posted, painted, presence, chatting)
        /\ r.id # pins[i].id /\ r.id \in People
    BY <2>1, PinsParts DEF PinsDiffer, PinRecords
  <2> HIDE DEF r
  <2>3. painted'[r.id] = painted[r.id]
    BY <1>1, <2>2, PinsParts
  <2>4. Shows(r, missed, posted, painted', presence, chatting)
    BY <2>2, <2>3 DEF Shows
  <2> QED
    BY <1>1, <2>1, <2>2, <2>4
<1>8. QueueRight(connection', made', posted')
  BY PinsParts
<1> QED
  BY <1>5, <1>6, <1>7, <1>8 DEF PinsInv

\* The program is started again, with the first pin.
LEMMA RestartKept ==
    ASSUME PinsInv, Restart
    PROVE  PinsInv'
<1> DEFINE x == NewPin(pins[1].id, pins[1].number)
<1>1. /\ Len(pins) > 1 /\ pins' = <<x>> /\ connection' = 0 /\ posted' = <<>>
      /\ painted' = [p \in People |-> FALSE] /\ missed' = {} /\ refused' = {}
      /\ UNCHANGED <<made, pinnings>>
  BY DEF Restart
<1>2. 1 \in 1 .. Len(pins)
  BY <1>1, PinsParts
<1>3. pins[1] \in PinRecords /\ pins[1].number <= pinnings
  BY <1>2, PinsParts DEF PinsDiffer
<1>4. x \in PinRecords /\ x.id = pins[1].id /\ x.number = pins[1].number /\ x.contact = 0 /\ x.asked = 0
      /\ x.ready = FALSE
  BY <1>3 DEF NewPin, PinRecords
<1> HIDE DEF x
<1>5. /\ pins' \in Seq(PinRecords) /\ Len(pins') = 1 /\ pins'[1] = x
      /\ posted' \in Seq(PinEvents) /\ Len(posted') = 0
  <2>1. <<x>> \in Seq(PinRecords) /\ Len(<<x>>) = 1 /\ <<x>>[1] = x
    BY <1>4
  <2> QED
    BY <1>1, <2>1, EmptySeq
<1>6. PinTypes'
  BY <1>1, <1>5, PinsParts DEF PinTypes
<1>7. PinsDiffer'
  BY <1>1, <1>3, <1>4, <1>5 DEF PinsDiffer
<1>8. QueueRight(connection', made', posted')
  BY <1>1, <1>5, PinsParts DEF QueueRight, Has, FollowedBy
<1>9. Follows(x, connection', made', posted', refused')
  BY <1>1, <1>4 DEF Follows
<1>10. Shows(x, missed', posted', painted', presence', chatting')
  <2>1. x.id \in People
    BY <1>3, <1>4 DEF PinRecords
  <2> QED
    BY <1>1, <1>4, <2>1 DEF Shows
<1> QED
  BY <1>5, <1>6, <1>7, <1>8, <1>9, <1>10 DEF PinsInv

\* The rows of others than the contact p show what they showed, if only p's presence,
\* conversation or announcement changes.
LEMMA OthersShown ==
    ASSUME PinsInv, UNCHANGED pins, NEW k \in 1 .. Len(pins),
           Has(posted', RepaintsOf(pins[k].id)) <=> Has(posted, RepaintsOf(pins[k].id)),
           painted'[pins[k].id] = painted[pins[k].id],
           pins[k].id \in missed' <=> pins[k].id \in missed,
           pins[k].id \in presence' <=> pins[k].id \in presence,
           pins[k].id \in chatting' <=> pins[k].id \in chatting
    PROVE  Shows(pins'[k], missed', posted', painted', presence', chatting')
BY PinsParts DEF Shows

\* The presence of a contact changes.
LEMMA PresenceKept ==
    ASSUME PinsInv, NEW p \in People, PresenceChanges(p)
    PROVE  PinsInv'
<1> DEFINE ids == IF \E i \in DOMAIN pins : pins[i].id = p /\ pins[i].contact = connection
                  THEN {p} ELSE {}
<1>1. /\ connection # 0
      /\ presence' = IF p \in presence THEN presence \ {p} ELSE presence \cup {p}
      /\ UNCHANGED <<connection, made, destroyed, pins, pinnings, chatting, posted, refused>>
      /\ dataChanged(ids)
  BY DEF PresenceChanges
<1>2. ids \subseteq {p} /\ (p \notin ids => \A i \in 1 .. Len(pins) : pins[i].id = p => pins[i].contact # connection)
  BY PinsParts
<1> HIDE DEF ids
<1>3. /\ painted' \in [People -> BOOLEAN]
      /\ \A i \in 1 .. Len(pins) : pins[i].id \in ids =>
           Shows(pins'[i], missed', posted', painted', presence', chatting')
      /\ \A i \in 1 .. Len(pins) : pins[i].id \notin ids =>
           painted'[pins[i].id] = painted[pins[i].id] /\ (pins[i].id \in missed' <=> pins[i].id \in missed)
  BY <1>1, PinsParts, RowsRepainted
<1>4. ASSUME NEW k \in 1 .. Len(pins)
      PROVE  Shows(pins'[k], missed', posted', painted', presence', chatting')
  <2>1. CASE pins[k].id \in ids
    BY <1>3, <2>1
  <2>2. CASE pins[k].id # p
    <3>1. pins[k].id \notin ids
      BY <1>2, <2>2
    <3> QED
      BY <1>1, <1>3, <2>2, <3>1, OthersShown
  <2>3. CASE pins[k].id = p /\ p \notin ids
    <3>1. pins[k].contact = 0
      BY <1>1, <1>2, <2>3, PinsParts DEF Follows
    <3>2. painted'[p] = painted[p] /\ (p \in missed' <=> p \in missed)
      BY <1>3, <2>3
    <3>3. Shows(pins[k], missed, posted, painted, presence, chatting) /\ pins'[k] = pins[k] /\ posted' = posted
      BY <1>1, PinsParts
    <3> QED
      BY <2>3, <3>1, <3>2, <3>3 DEF Shows
  <2> QED
    BY <2>1, <2>2, <2>3
<1> QED
  BY <1>1, <1>3, <1>4, PinsParts, PinsMapped

\* A conversation begins or ends: a repaint is in the queue, if there is a contact.
LEMMA ChattingKept ==
    ASSUME PinsInv, NEW p \in People, conversationsStateChanged(p)
    PROVE  PinsInv'
<1> DEFINE rows == {i \in DOMAIN pins : pins[i].id = p}
           found == {i \in rows : pins[i].contact # 0}
           x == [event |-> "dataChanged", id |-> p, row |-> CHOOSE i \in found : TRUE]
<1>1. /\ chatting' = IF p \in chatting THEN chatting \ {p} ELSE chatting \cup {p}
      /\ posted' = IF found = {} THEN posted ELSE Append(posted, x)
      /\ missed' = IF found = {} THEN missed \cup {pins[i].id : i \in rows} ELSE missed
      /\ UNCHANGED <<connection, made, destroyed, presence, pins, pinnings, painted, refused>>
  BY DEF conversationsStateChanged
<1>2. CASE found = {}
  <2>1. ASSUME NEW k \in 1 .. Len(pins)
        PROVE  Shows(pins'[k], missed', posted', painted', presence', chatting')
    <3>1. CASE pins[k].id = p
      <4>1. pins[k].id \in missed'
        BY <1>1, <1>2, <3>1, PinsParts
      <4> QED
        BY <1>1, <4>1 DEF Shows
    <3>2. CASE pins[k].id # p
      <4>1. pins[k].id \in missed' <=> pins[k].id \in missed
        BY <1>1, <1>2, <3>2
      <4>2. pins[k].id \in chatting' <=> pins[k].id \in chatting
        BY <1>1, <3>2
      <4>3. posted' = posted
        BY <1>1, <1>2
      <4> QED
        BY <1>1, <4>1, <4>2, <4>3, OthersShown
    <3> QED
      BY <3>1, <3>2
  <2> QED
    BY <1>1, <1>2, <2>1, PinsParts, PinsMapped
<1>3. CASE found # {}
  <2>1. x \in PinEvents /\ x.event = "dataChanged" /\ x.id = p
    <3>1. (CHOOSE i \in found : TRUE) \in found
      BY <1>3
    <3>2. found \subseteq Nat
      BY PinsParts
    <3>3. (CHOOSE i \in found : TRUE) \in Nat
      BY <3>1, <3>2
    <3> QED
      BY <3>3 DEF PinEvents
  <2>2. posted' = Append(posted, x) /\ missed' = missed
    BY <1>1, <1>3
  <2> HIDE DEF x
  <2>3. /\ x \notin LostEvents /\ x \in RepaintsOf(p) /\ \A n : x \notin FoundFor(n)
        /\ \A d : d # p => x \notin RepaintsOf(d)
    BY <2>1 DEF LostEvents, RepaintsOf, FoundFor
  <2>4. /\ posted' \in Seq(PinEvents) /\ QueueRight(connection, made, posted')
        /\ \A S : x \notin S => (Has(posted', S) <=> Has(posted, S))
        /\ Has(posted', RepaintsOf(p))
    BY <2>1, <2>2, <2>3, QueueAppend
  <2>5. ASSUME NEW k \in 1 .. Len(pins)
        PROVE  /\ Follows(pins[k], connection, made, posted', refused)
               /\ Shows(pins'[k], missed', posted', painted', presence', chatting')
    <3>1. Follows(pins[k], connection, made, posted', refused)
      BY <2>3, <2>4, PinsParts DEF Follows
    <3>2. CASE pins[k].id = p
      <4>1. Shows(pins'[k], missed', posted', painted', presence', chatting')
        BY <1>1, <2>4, <3>2, PinsParts DEF Shows
      <4> QED
        BY <3>1, <4>1
    <3>3. CASE pins[k].id # p
      <4>1. Has(posted', RepaintsOf(pins[k].id)) <=> Has(posted, RepaintsOf(pins[k].id))
        BY <2>3, <2>4, <3>3
      <4>2. pins[k].id \in chatting' <=> pins[k].id \in chatting
        BY <1>1, <3>3
      <4>3. Shows(pins'[k], missed', posted', painted', presence', chatting')
        BY <1>1, <2>2, <4>1, <4>2, OthersShown
      <4> QED
        BY <3>1, <4>3
    <3> QED
      BY <3>1, <3>2, <3>3
  <2> QED
    BY <1>1, <2>4, <2>5, PinsParts, PinsMapped
<1> QED
  BY <1>2, <1>3

\* A queued repaint reaches the row that has the number now.
LEMMA RepaintedKept ==
    ASSUME PinsInv, RowRepainted
    PROVE  PinsInv'
<1> DEFINE e == Head(posted)
           hit == e.row \in 1 .. Len(pins) /\ pins[e.row].id = e.id
<1>1. /\ posted # <<>> /\ e.event = "dataChanged" /\ posted' = Tail(posted)
      /\ UNCHANGED <<connection, made, destroyed, presence, pins, pinnings, chatting, refused>>
      /\ IF hit THEN dataChanged({e.id})
         ELSE /\ painted' = [p \in People |->
                   IF e.row \in 1 .. Len(pins) /\ pins[e.row].id = p
                   THEN Accepts(pins[e.row]) ELSE painted[p]]
              /\ missed' = missed \cup {e.id}
  BY PinsParts DEF RowRepainted, NextPosted
<1>2. /\ posted' \in Seq(PinEvents) /\ QueueRight(connection, made, posted')
      /\ \A S : e \notin S => (Has(posted', S) <=> Has(posted, S))
  BY <1>1, QueueTail
<1>3. e \notin LostEvents /\ (\A n : e \notin FoundFor(n)) /\ \A d : d # e.id => e \notin RepaintsOf(d)
  BY <1>1 DEF LostEvents, FoundFor, RepaintsOf
<1>4. \A k \in 1 .. Len(pins) : Follows(pins[k], connection, made, posted', refused)
  BY <1>2, <1>3, PinsParts DEF Follows
<1>5. \A k \in 1 .. Len(pins) : pins[k].id # e.id =>
        (Has(posted', RepaintsOf(pins[k].id)) <=> Has(posted, RepaintsOf(pins[k].id)))
  BY <1>2, <1>3
<1>6. /\ UNCHANGED <<connection, made, presence, pins, pinnings, chatting, refused>>
      /\ hit => dataChanged({e.id})
      /\ ~hit => /\ painted' = [p \in People |->
                       IF e.row \in 1 .. Len(pins) /\ pins[e.row].id = p
                       THEN Accepts(pins[e.row]) ELSE painted[p]]
                 /\ missed' = missed \cup {e.id}
  BY <1>1
<1>7. CASE hit
  <2>1. /\ painted' \in [People -> BOOLEAN]
        /\ \A i \in 1 .. Len(pins) : pins[i].id \in {e.id} =>
             Shows(pins'[i], missed', posted', painted', presence', chatting')
        /\ \A i \in 1 .. Len(pins) : pins[i].id \notin {e.id} =>
             painted'[pins[i].id] = painted[pins[i].id] /\ (pins[i].id \in missed' <=> pins[i].id \in missed)
    BY <1>6, <1>7, PinsParts, RowsRepainted
  <2>2. ASSUME NEW k \in 1 .. Len(pins)
        PROVE  Shows(pins'[k], missed', posted', painted', presence', chatting')
    <3>1. CASE pins[k].id = e.id
      BY <2>1, <3>1
    <3>2. CASE pins[k].id # e.id
      BY <1>5, <1>6, <2>1, <3>2, OthersShown
    <3> QED
      BY <3>1, <3>2
  <2> QED
    BY <1>2, <1>4, <1>6, <2>1, <2>2, PinsParts, PinsMapped
<1>8. CASE ~hit
  <2>1. painted' \in [People -> BOOLEAN]
    BY <1>6, <1>8, PinsParts DEF Accepts
  <2>2. ASSUME NEW k \in 1 .. Len(pins)
        PROVE  Shows(pins'[k], missed', posted', painted', presence', chatting')
    <3>0. pins[k].id \in People
      BY PinsParts DEF PinRecords
    <3>1. CASE pins[k].id = e.id
      BY <1>6, <1>8, <3>1 DEF Shows
    <3>2. CASE pins[k].id # e.id /\ e.row \in 1 .. Len(pins) /\ pins[e.row].id = pins[k].id
      <4>1. k = e.row
        BY <3>2, PinsParts DEF PinsDiffer
      <4>2. painted'[pins[k].id] = Accepts(pins[k])
        BY <1>6, <1>8, <3>0, <3>2, <4>1
      <4> QED
        BY <1>6, <4>2 DEF Shows, Accepts
    <3>3. CASE pins[k].id # e.id /\ ~(e.row \in 1 .. Len(pins) /\ pins[e.row].id = pins[k].id)
      <4>1. painted'[pins[k].id] = painted[pins[k].id] /\ (pins[k].id \in missed' <=> pins[k].id \in missed)
        BY <1>6, <1>8, <3>0, <3>3
      <4> QED
        BY <1>5, <1>6, <3>3, <4>1, OthersShown
    <3> QED
      BY <3>1, <3>2, <3>3
  <2> QED
    BY <1>2, <1>4, <1>6, <2>1, <2>2, PinsParts, PinsMapped
<1> QED
  BY <1>7, <1>8

\* Every step keeps the invariant.
LEMMA NextPinsInv == PinsInv /\ [PinsNext]_pinVars => PinsInv'
<1> SUFFICES ASSUME PinsInv, [PinsNext]_pinVars PROVE PinsInv'
  OBVIOUS
<1>1. ASSUME NEW p \in People, toggle(p) PROVE PinsInv'
  <2>1. CASE pinnings' = pinnings + 1 /\ appendContactPin(p)
    BY <1>1, <2>1, PinnedKept DEF toggle
  <2>2. ASSUME NEW i \in DOMAIN pins, removeContactPin(i), pinnings' = pinnings PROVE PinsInv'
    BY <1>1, <2>2, PinsParts, UnpinnedKept DEF toggle
  <2> QED
    BY <1>1, <2>1, <2>2 DEF toggle
<1>2. CASE UNCHANGED pinVars
  BY <1>2, PinsParts, PinsMapped DEF pinVars
<1>3. ASSUME NEW i \in 1 .. Len(pins), onAccountReady(i) \/ ContactsAnswered(i) PROVE PinsInv'
  BY <1>3, ReadyKept, AnsweredKept
<1>4. ASSUME NEW n \in 1 .. made, ConnectionDestroyed(n) PROVE PinsInv'
  BY <1>4, DestroyedKept
<1>5. ASSUME NEW p \in People, PresenceChanges(p) \/ conversationsStateChanged(p) PROVE PinsInv'
  BY <1>5, PresenceKept, ChattingKept
<1> QED
  BY <1>1, <1>2, <1>3, <1>4, <1>5, ConnectedKept, LostKept, FoundKept, EndToldKept, RepaintedKept, RestartKept
     DEF PinsNext

\* A pin has the contact that is there now, and the filtered list shows it by that: for any
\* contacts, any number of connections, of pins and of queued events.
THEOREM PinsStayCurrent ==
    PinsInit /\ [][PinsNext]_pinVars => []PinsCurrent
<1>1. PinsInit => PinsInv
  <2> SUFFICES ASSUME PinsInit PROVE PinsInv
    OBVIOUS
  <2>1. /\ connection = 0 /\ made = 0 /\ pins = <<>> /\ pinnings = 0 /\ posted = <<>>
        /\ painted = [p \in People |-> FALSE]
    BY DEF PinsInit
  <2>2. pins \in Seq(PinRecords) /\ posted \in Seq(PinEvents) /\ Len(pins) = 0 /\ Len(posted) = 0
    BY <2>1, EmptySeq
  <2>3. painted \in [People -> BOOLEAN]
    BY <2>1
  <2>4. PinTypes
    BY <2>1, <2>2, <2>3 DEF PinTypes
  <2>5. QueueRight(connection, made, posted)
    BY <2>1, <2>2 DEF QueueRight, Has, FollowedBy
  <2> QED
    BY <2>2, <2>4, <2>5 DEF PinsInv, PinsDiffer
<1>2. PinsInv => PinsCurrent
  <2> SUFFICES ASSUME PinsInv PROVE PinsCurrent
    OBVIOUS
  <2>1. ContactIsCurrent
    <3> SUFFICES ASSUME NEW i \in 1 .. Len(pins)
                 PROVE  /\ (\A n \in DOMAIN posted : posted[n].event # "invalidated") =>
                               pins[i].contact \in {0, connection}
                        /\ connection # 0 /\ pins[i].ready /\ pins[i].asked = 0 /\ ~Awaited(i)
                               /\ pins[i].id \notin refused => pins[i].contact = connection
      BY PinsParts DEF ContactIsCurrent
    <3>1. Follows(pins[i], connection, made, posted, refused) /\ pins[i] \in PinRecords
      BY PinsParts
    <3>2. ASSUME \A n \in DOMAIN posted : posted[n].event # "invalidated"
          PROVE  ~Has(posted, LostEvents)
      BY <3>2, PinsParts, NotInQueue DEF LostEvents
    <3>3. ~Awaited(i) => ~Has(posted, FoundFor(pins[i].number))
      BY PinsParts DEF Awaited, Has, FoundFor
    <3>4. pins[i].ready => pins[i].ready = TRUE
      BY <3>1 DEF PinRecords
    <3> QED
      BY <3>1, <3>2, <3>3, <3>4 DEF Follows
  <2>2. FilterIsCurrent
    <3> SUFFICES ASSUME NEW i \in 1 .. Len(pins), pins[i].id \notin missed,
                        \A n \in DOMAIN posted : posted[n].event # "dataChanged"
                 PROVE  painted[pins[i].id] = (pins[i].contact # 0 /\ pins[i].id \in presence /\ pins[i].id \notin chatting)
      BY PinsParts DEF FilterIsCurrent
    <3>1. Shows(pins[i], missed, posted, painted, presence, chatting)
      BY PinsParts
    <3>2. ~Has(posted, RepaintsOf(pins[i].id))
      BY PinsParts DEF Has, RepaintsOf
    <3>3. painted[pins[i].id] \in BOOLEAN
      BY PinsParts DEF PinRecords
    <3>4. painted[pins[i].id] = TRUE <=> (pins[i].contact # 0 /\ pins[i].id \in presence /\ pins[i].id \notin chatting)
      BY <3>1, <3>2 DEF Shows
    <3> QED
      BY <3>3, <3>4
  <2> QED
    BY <2>1, <2>2 DEF PinsCurrent
<1> QED
  BY <1>1, <1>2, NextPinsInv, PTL

(***************************************************************************)
(* The wallet.  The operations run in the order in which they were         *)
(* started: those that ran, those that are finished() in the queue, and    *)
(* those that wait for the object follow each other.                       *)
(***************************************************************************)
WalletOps == [kind : {"set", "remove"}, account : WalletAccounts,
              password : Passwords \cup {NoPassword}, waitsFor : Nat]

WalletTypes ==
    /\ operations \in Seq(WalletOps) /\ waiting \in Seq(Nat) /\ finished \in Seq(Nat)
    /\ wallet \in Nat /\ isOpening \in BOOLEAN /\ enabled \in BOOLEAN
    /\ passwords \in [WalletAccounts -> Passwords \cup {NoPassword}]

\* The object and its state, and the flag that stays set without wallets.
ObjectRight ==
    /\ walletState \in {"opening", "open", "closed"}
    /\ walletState = "opening" => wallet # 0 /\ isOpening = TRUE
    /\ wallet # 0 /\ isOpening = TRUE => walletState = "opening"
    /\ wallet = 0 => walletState = "closed"
    /\ enabled = TRUE /\ wallet = 0 => isOpening = FALSE
    /\ enabled = FALSE => wallet = 0

\* Of n operations, w wait and f are finished; the others ran.
QueuesFollow(n, w, f) ==
    /\ Len(w) + Len(f) <= n
    /\ \A j \in 1 .. Len(w) : w[j] = n - Len(w) + j
    /\ \A j \in 1 .. Len(f) : f[j] = n - Len(w) - Len(f) + j

\* What waits is what is connected to the object, while that is being opened.
WaitersWait(ops, w, object, state) ==
    \A i \in 1 .. Len(ops) :
        /\ ops[i].waitsFor # 0 <=> i > Len(ops) - Len(w)
        /\ ops[i].waitsFor # 0 => ops[i].waitsFor = object /\ state = "opening"
        /\ ops[i].kind = "remove" => ops[i].password = NoPassword

\* The wallet pw has what the first n operations asked for.
Applied(ops, n, pw, ls) ==
    \A a \in WalletAccounts, i \in 1 .. n :
        /\ a \notin ls /\ ops[i].account = a
        /\ \A k \in 1 .. n : i < k => ops[k].account # a
        => pw[a] = ops[i].password

WalletInv ==
    /\ WalletTypes /\ ObjectRight
    /\ QueuesFollow(Len(operations), waiting, finished)
    /\ WaitersWait(operations, waiting, wallet, walletState)
    /\ Applied(operations, Len(operations) - Len(waiting) - Len(finished), passwords, lost)

\* The parts of the invariant that the steps cite.
LEMMA WalletParts ==
    ASSUME WalletInv
    PROVE  /\ operations \in Seq(WalletOps) /\ waiting \in Seq(Nat) /\ finished \in Seq(Nat)
           /\ wallet \in Nat /\ isOpening \in BOOLEAN /\ enabled \in BOOLEAN
           /\ passwords \in [WalletAccounts -> Passwords \cup {NoPassword}]
           /\ Len(operations) \in Nat /\ Len(waiting) \in Nat /\ Len(finished) \in Nat
           /\ DOMAIN operations = 1 .. Len(operations) /\ DOMAIN waiting = 1 .. Len(waiting)
           /\ DOMAIN finished = 1 .. Len(finished)
           /\ \A i \in 1 .. Len(operations) : operations[i] \in WalletOps
           /\ ObjectRight /\ QueuesFollow(Len(operations), waiting, finished)
           /\ WaitersWait(operations, waiting, wallet, walletState)
           /\ Applied(operations, Len(operations) - Len(waiting) - Len(finished), passwords, lost)
           /\ Len(waiting) # 0 => walletState = "opening"
<1>1. /\ operations \in Seq(WalletOps) /\ waiting \in Seq(Nat) /\ finished \in Seq(Nat)
      /\ wallet \in Nat /\ isOpening \in BOOLEAN /\ enabled \in BOOLEAN
      /\ passwords \in [WalletAccounts -> Passwords \cup {NoPassword}]
      /\ ObjectRight /\ QueuesFollow(Len(operations), waiting, finished)
      /\ WaitersWait(operations, waiting, wallet, walletState)
      /\ Applied(operations, Len(operations) - Len(waiting) - Len(finished), passwords, lost)
  BY DEF WalletInv, WalletTypes
<1>2. /\ Len(operations) \in Nat /\ Len(waiting) \in Nat /\ Len(finished) \in Nat
      /\ DOMAIN operations = 1 .. Len(operations) /\ DOMAIN waiting = 1 .. Len(waiting)
      /\ DOMAIN finished = 1 .. Len(finished)
      /\ \A i \in 1 .. Len(operations) : operations[i] \in WalletOps
  BY <1>1, LenProperties, ElementOfSeq
<1>3. ASSUME Len(waiting) # 0 PROVE walletState = "opening"
  <2>1. Len(operations) \in 1 .. Len(operations) /\ Len(operations) > Len(operations) - Len(waiting)
    BY <1>1, <1>2, <1>3 DEF QueuesFollow
  <2> QED
    BY <1>1, <2>1 DEF WaitersWait
<1> QED
  BY <1>1, <1>2, <1>3

\* The queues of finished and waiting operations, one more of these.
LEMMA QueuesGrow ==
    ASSUME NEW n \in Nat, NEW w \in Seq(Nat), NEW f \in Seq(Nat), QueuesFollow(n, w, f)
    PROVE  /\ Append(w, n + 1) \in Seq(Nat) /\ Len(Append(w, n + 1)) = Len(w) + 1
           /\ QueuesFollow(n + 1, Append(w, n + 1), f)
           /\ Len(w) = 0 => /\ Append(f, n + 1) \in Seq(Nat) /\ Len(Append(f, n + 1)) = Len(f) + 1
                            /\ QueuesFollow(n + 1, w, Append(f, n + 1))
<1>0. Len(w) \in Nat /\ Len(f) \in Nat /\ n + 1 \in Nat
  BY LenProperties
<1>1. /\ Append(w, n + 1) \in Seq(Nat) /\ Len(Append(w, n + 1)) = Len(w) + 1
      /\ \A j \in 1 .. Len(w) : Append(w, n + 1)[j] = w[j]
      /\ Append(w, n + 1)[Len(w) + 1] = n + 1
  BY <1>0, AppendProperties
<1>2. /\ Append(f, n + 1) \in Seq(Nat) /\ Len(Append(f, n + 1)) = Len(f) + 1
      /\ \A j \in 1 .. Len(f) : Append(f, n + 1)[j] = f[j]
      /\ Append(f, n + 1)[Len(f) + 1] = n + 1
  BY <1>0, AppendProperties
<1>3. QueuesFollow(n + 1, Append(w, n + 1), f)
  <2> DEFINE v == Append(w, n + 1)
  <2>1. Len(v) = Len(w) + 1
    BY <1>1
  <2> HIDE DEF v
  <2>2. \A j \in 1 .. Len(w) + 1 : v[j] = n + 1 - Len(v) + j
    <3> TAKE j \in 1 .. Len(w) + 1
    <3>1. CASE j \in 1 .. Len(w)
      BY <1>0, <1>1, <2>1, <3>1 DEF QueuesFollow, v
    <3>2. CASE j = Len(w) + 1
      BY <1>0, <1>1, <2>1, <3>2 DEF v
    <3> QED
      BY <1>0, <3>1, <3>2
  <2>3. \A j \in 1 .. Len(f) : f[j] = n + 1 - Len(v) - Len(f) + j
    BY <1>0, <2>1 DEF QueuesFollow
  <2>4. Len(v) + Len(f) <= n + 1
    BY <1>0, <2>1 DEF QueuesFollow
  <2> QED
    BY <2>1, <2>2, <2>3, <2>4 DEF QueuesFollow, v
<1>4. Len(w) = 0 => QueuesFollow(n + 1, w, Append(f, n + 1))
  BY <1>0, <1>2 DEF QueuesFollow
<1> QED
  BY <1>1, <1>2, <1>3, <1>4

\* An operation is started.
LEMMA StartedKept ==
    ASSUME WalletInv, NEW kind \in {"set", "remove"}, NEW a \in WalletAccounts,
           NEW password \in Passwords \cup {NoPassword}, kind = "remove" => password = NoPassword,
           startOperation(kind, a, password)
    PROVE  WalletInv'
<1> DEFINE op == [kind |-> kind, account |-> a, password |-> password, waitsFor |-> 0]
           n == Len(operations)
<1>1. ensureWalletIsReady /\ PendingWallet(op) /\ UNCHANGED <<enabled, passwords, loginFailed, lost>>
  BY DEF startOperation
<1>2. op \in WalletOps /\ op.waitsFor = 0 /\ op.kind = kind /\ op.password = password
  BY DEF WalletOps
<1> HIDE DEF op
<1>3. /\ ObjectRight' /\ wallet' \in Nat /\ isOpening' \in BOOLEAN
      /\ wallet' # wallet => walletState # "opening"
      /\ walletState = "opening" => wallet' = wallet /\ walletState' = "opening"
      /\ wallet' = 0 \/ walletState' \in {"opening", "open"}
  <2>1. CASE (wallet = 0 \/ walletState # "open") /\ ~isOpening
    <3>1. walletState # "opening"
      BY <2>1, WalletParts DEF ObjectRight
    <3>2. isOpening' = TRUE /\ wallet' = (IF enabled THEN wallet + 1 ELSE 0)
          /\ walletState' = (IF enabled THEN "opening" ELSE "closed") /\ enabled' = enabled
      BY <1>1, <2>1 DEF ensureWalletIsReady
    <3>3. CASE enabled = TRUE
      BY <3>1, <3>2, <3>3, WalletParts DEF ObjectRight
    <3>4. CASE enabled = FALSE
      BY <3>1, <3>2, <3>4, WalletParts DEF ObjectRight
    <3> QED
      BY <3>3, <3>4, WalletParts
  <2>2. CASE ~((wallet = 0 \/ walletState # "open") /\ ~isOpening)
    <3>1. UNCHANGED <<wallet, walletState, isOpening, enabled>>
      BY <1>1, <2>2 DEF ensureWalletIsReady
    <3> QED
      BY <2>2, <3>1, WalletParts DEF ObjectRight
  <2> QED
    BY <2>1, <2>2
<1>4. Connected = waiting
  <2>1. Len(waiting) = 0 => waiting = <<>>
    BY WalletParts, EmptySeq
  <2> QED
    BY <1>3, <2>1, WalletParts DEF Connected
<1>5. /\ QueuesFollow(n, waiting, finished) /\ n \in Nat /\ waiting \in Seq(Nat) /\ finished \in Seq(Nat)
      /\ Len(waiting) \in Nat /\ Len(finished) \in Nat
  BY WalletParts
<1>6. \E x \in WalletOps :
        /\ operations' = Append(operations, x) /\ x.kind = kind /\ x.password = password
        /\ \/ x.waitsFor = 0 /\ finished' = Append(finished, n + 1) /\ waiting' = waiting /\ Len(waiting) = 0
           \/ /\ x.waitsFor = wallet' /\ wallet' # 0 /\ walletState' = "opening"
              /\ waiting' = Append(waiting, n + 1) /\ finished' = finished
  <2>1. CASE wallet' = 0 \/ walletState' = "open"
    <3>1. operations' = Append(operations, op) /\ finished' = Append(finished, Len(operations')) /\ waiting' = waiting
      BY <1>1, <1>4, <2>1 DEF PendingWallet
    <3>2. Len(operations') = n + 1
      BY <1>2, <3>1, WalletParts, AppendProperties
    <3>3. Len(waiting) = 0
      BY <1>3, <2>1, WalletParts DEF ObjectRight
    <3> QED
      BY <1>2, <3>1, <3>2, <3>3
  <2>2. CASE ~(wallet' = 0 \/ walletState' = "open")
    <3> DEFINE x == [op EXCEPT !.waitsFor = wallet']
    <3>1. operations' = Append(operations, x) /\ waiting' = Append(waiting, Len(operations')) /\ finished' = finished
      BY <1>1, <1>4, <2>2 DEF PendingWallet
    <3>2. x \in WalletOps /\ x.kind = kind /\ x.password = password /\ x.waitsFor = wallet'
      BY <1>2, <1>3 DEF WalletOps
    <3> HIDE DEF x
    <3>3. Len(operations') = n + 1
      BY <3>1, <3>2, WalletParts, AppendProperties
    <3>4. wallet' # 0 /\ walletState' = "opening"
      BY <1>3, <2>2 DEF ObjectRight
    <3> QED
      BY <3>1, <3>2, <3>3, <3>4
  <2> QED
    BY <2>1, <2>2
<1>7. PICK x \in WalletOps :
        /\ operations' = Append(operations, x) /\ x.kind = kind /\ x.password = password
        /\ \/ x.waitsFor = 0 /\ finished' = Append(finished, n + 1) /\ waiting' = waiting /\ Len(waiting) = 0
           \/ /\ x.waitsFor = wallet' /\ wallet' # 0 /\ walletState' = "opening"
              /\ waiting' = Append(waiting, n + 1) /\ finished' = finished
  BY <1>6
<1>8. /\ operations' \in Seq(WalletOps) /\ Len(operations') = n + 1 /\ operations'[n + 1] = x
      /\ \A i \in 1 .. n : operations'[i] = operations[i]
  BY <1>7, WalletParts, AppendProperties
<1>9. /\ waiting' \in Seq(Nat) /\ finished' \in Seq(Nat)
      /\ QueuesFollow(Len(operations'), waiting', finished')
      /\ Len(waiting') \in Nat /\ Len(finished') \in Nat
      /\ Len(operations') - Len(waiting') - Len(finished') = n - Len(waiting) - Len(finished)
  <2>1. CASE x.waitsFor = 0 /\ finished' = Append(finished, n + 1) /\ waiting' = waiting /\ Len(waiting) = 0
    <3>1. /\ finished' \in Seq(Nat) /\ Len(finished') = Len(finished) + 1
          /\ QueuesFollow(n + 1, waiting, finished')
      <4>1. /\ Append(finished, n + 1) \in Seq(Nat) /\ Len(Append(finished, n + 1)) = Len(finished) + 1
            /\ QueuesFollow(n + 1, waiting, Append(finished, n + 1))
        BY <1>5, <2>1, QueuesGrow
      <4> QED
        BY <2>1, <4>1
    <3> QED
      BY <1>5, <1>8, <2>1, <3>1
  <2>2. CASE waiting' = Append(waiting, n + 1) /\ finished' = finished
    <3>1. /\ waiting' \in Seq(Nat) /\ Len(waiting') = Len(waiting) + 1
          /\ QueuesFollow(n + 1, waiting', finished)
      BY <1>5, <2>2, QueuesGrow
    <3> QED
      BY <1>5, <1>8, <2>2, <3>1
  <2> QED
    BY <1>7, <2>1, <2>2
<1>10. WaitersWait(operations', waiting', wallet', walletState')
  <2> SUFFICES ASSUME NEW i \in 1 .. Len(operations')
               PROVE  /\ operations'[i].waitsFor # 0 <=> i > Len(operations') - Len(waiting')
                      /\ operations'[i].waitsFor # 0 => operations'[i].waitsFor = wallet' /\ walletState' = "opening"
                      /\ operations'[i].kind = "remove" => operations'[i].password = NoPassword
    BY DEF WaitersWait
  <2>1. CASE i \in 1 .. n
    <3>1. /\ operations[i].waitsFor # 0 <=> i > n - Len(waiting)
          /\ operations[i].waitsFor # 0 => operations[i].waitsFor = wallet /\ walletState = "opening"
          /\ operations[i].kind = "remove" => operations[i].password = NoPassword
      BY <2>1, WalletParts DEF WaitersWait
    <3>2. operations'[i] = operations[i]
      BY <1>8, <2>1
    <3>3. i > n - Len(waiting) <=> i > Len(operations') - Len(waiting')
      <4>1. CASE x.waitsFor = 0 /\ finished' = Append(finished, n + 1) /\ waiting' = waiting /\ Len(waiting) = 0
        BY <1>5, <1>8, <2>1, <4>1
      <4>2. CASE waiting' = Append(waiting, n + 1) /\ finished' = finished
        BY <1>5, <1>8, <2>1, <4>2, QueuesGrow
      <4> QED
        BY <1>7, <4>1, <4>2
    <3> QED
      BY <1>3, <3>1, <3>2, <3>3
  <2>2. CASE i = n + 1
    <3>1. operations'[i] = x
      BY <1>8, <2>2
    <3>2. CASE x.waitsFor = 0 /\ finished' = Append(finished, n + 1) /\ waiting' = waiting /\ Len(waiting) = 0
      BY <1>5, <1>7, <1>8, <2>2, <3>1, <3>2
    <3>3. CASE /\ x.waitsFor = wallet' /\ wallet' # 0 /\ walletState' = "opening"
               /\ waiting' = Append(waiting, n + 1) /\ finished' = finished
      BY <1>5, <1>7, <1>8, <2>2, <3>1, <3>3, QueuesGrow
    <3> QED
      BY <1>7, <3>2, <3>3
  <2> QED
    BY <1>5, <1>8, <2>1, <2>2
<1>11. Applied(operations', n - Len(waiting) - Len(finished), passwords, lost)
  <2> DEFINE m == n - Len(waiting) - Len(finished)
  <2>1. \A i \in 1 .. m : operations'[i] = operations[i]
    BY <1>5, <1>8
  <2>2. Applied(operations, m, passwords, lost)
    BY WalletParts
  <2> HIDE DEF m
  <2>3. Applied(operations', m, passwords, lost)
    BY <2>1, <2>2 DEF Applied
  <2> QED
    BY <2>3 DEF m
<1>12. WalletTypes'
  BY <1>1, <1>3, <1>8, <1>9, WalletParts DEF WalletTypes
<1> QED
  BY <1>1, <1>3, <1>9, <1>10, <1>11, <1>12 DEF WalletInv

\* The object says that it is open, or that it is not: all that wait are finished.
LEMMA OpenedKept ==
    ASSUME WalletInv, NEW success \in BOOLEAN, onWalletOpened(success)
    PROVE  WalletInv'
<1> DEFINE n == Len(operations)
           m == n - Len(waiting) - Len(finished)
<1>1. /\ wallet # 0 /\ walletState = "opening" /\ walletState' = IF success THEN "open" ELSE "closed"
      /\ isOpening' = FALSE /\ finished' = finished \o waiting /\ waiting' = <<>>
      /\ operations' = [i \in 1 .. n |-> IF i \in ToSet(waiting) THEN [operations[i] EXCEPT !.waitsFor = 0]
                                         ELSE operations[i]]
      /\ UNCHANGED <<enabled, wallet, passwords, loginFailed, lost>>
  BY WalletParts DEF onWalletOpened
<1>2. /\ QueuesFollow(n, waiting, finished) /\ n \in Nat /\ waiting \in Seq(Nat) /\ finished \in Seq(Nat)
      /\ Len(waiting) \in Nat /\ Len(finished) \in Nat /\ Applied(operations, m, passwords, lost)
      /\ WaitersWait(operations, waiting, wallet, walletState)
  BY WalletParts
<1>3. ASSUME NEW i \in 1 .. n
      PROVE  /\ operations'[i] \in WalletOps /\ operations'[i].waitsFor = 0
             /\ operations'[i].account = operations[i].account /\ operations'[i].kind = operations[i].kind
             /\ operations'[i].password = operations[i].password
  <2>1. operations[i] \in WalletOps /\ (operations[i].waitsFor # 0 => i > n - Len(waiting))
    BY <1>2, WalletParts DEF WaitersWait
  <2>2. CASE i \in ToSet(waiting)
    <3>1. operations'[i] = [operations[i] EXCEPT !.waitsFor = 0]
      BY <1>1, <2>2
    <3> QED
      BY <2>1, <3>1 DEF WalletOps
  <2>3. CASE i \notin ToSet(waiting)
    <3>1. i > n - Len(waiting) => i \in ToSet(waiting)
      <4>1. ASSUME i > n - Len(waiting)
            PROVE  \E j \in 1 .. Len(waiting) : waiting[j] = i
        <5> DEFINE j == i - (n - Len(waiting))
        <5>1. j \in 1 .. Len(waiting) /\ n - Len(waiting) + j = i
          BY <1>2, <4>1
        <5> HIDE DEF j
        <5>2. waiting[j] = n - Len(waiting) + j
          BY <1>2, <5>1 DEF QueuesFollow
        <5> QED
          BY <5>1, <5>2
      <4> QED
        BY <4>1, WalletParts DEF ToSet
    <3> QED
      BY <1>1, <2>1, <2>3, <3>1
  <2> QED
    BY <2>2, <2>3
<1>4. operations' \in Seq(WalletOps) /\ Len(operations') = n
  <2>1. operations' = [i \in 1 .. n |-> operations'[i]] /\ DOMAIN operations' = 1 .. n
    BY <1>1
  <2>2. \A i \in 1 .. n : operations'[i] \in WalletOps
    BY <1>3
  <2>3. operations' \in Seq(WalletOps)
    <3>1. operations' \in [1 .. n -> WalletOps]
      BY <2>1, <2>2
    <3> QED
      BY <1>2, <3>1, SeqOfItems
  <2> QED
    BY <1>2, <2>1, <2>3, LenProperties
<1>5. /\ finished' \in Seq(Nat) /\ Len(finished') = Len(finished) + Len(waiting)
      /\ \A j \in 1 .. Len(finished) + Len(waiting) :
           finished'[j] = IF j <= Len(finished) THEN finished[j] ELSE waiting[j - Len(finished)]
      /\ waiting' \in Seq(Nat) /\ Len(waiting') = 0
  <2>1. finished \o waiting \in Seq(Nat)
        /\ Len(finished \o waiting) = Len(finished) + Len(waiting)
        /\ \A j \in 1 .. Len(finished) + Len(waiting) :
             (finished \o waiting)[j] = IF j <= Len(finished) THEN finished[j] ELSE waiting[j - Len(finished)]
    BY <1>2, ConcatProperties
  <2> QED
    BY <1>1, <2>1, EmptySeq
<1>6. \A j \in 1 .. Len(finished') : finished'[j] = m + j
  <2> TAKE j \in 1 .. Len(finished')
  <2>0. j \in Nat /\ Len(finished') = Len(finished) + Len(waiting) /\ j >= 1 /\ j <= Len(finished')
    BY <1>2, <1>5
  <2>1. CASE j <= Len(finished)
    <3>1. j \in 1 .. Len(finished) /\ finished'[j] = finished[j]
      BY <1>2, <1>5, <2>0, <2>1
    <3> QED
      BY <1>2, <3>1 DEF QueuesFollow
  <2>2. CASE ~(j <= Len(finished))
    <3>1. j - Len(finished) \in 1 .. Len(waiting)
      BY <1>2, <1>5, <2>2
    <3>2. waiting[j - Len(finished)] = n - Len(waiting) + (j - Len(finished))
      BY <1>2, <3>1 DEF QueuesFollow
    <3>3. finished'[j] = waiting[j - Len(finished)]
      BY <1>2, <1>5, <2>0, <2>2
    <3> QED
      BY <1>2, <2>0, <3>2, <3>3
  <2> QED
    BY <2>1, <2>2
<1>7. Len(operations') - Len(waiting') - Len(finished') = m
  BY <1>2, <1>4, <1>5
<1>8. QueuesFollow(Len(operations'), waiting', finished')
  <2>1. Len(waiting') + Len(finished') <= Len(operations')
    BY <1>2, <1>4, <1>5 DEF QueuesFollow
  <2>2. \A j \in 1 .. Len(finished') : finished'[j] = Len(operations') - Len(waiting') - Len(finished') + j
    BY <1>6, <1>7
  <2>3. \A j \in 1 .. Len(waiting') : waiting'[j] = Len(operations') - Len(waiting') + j
    BY <1>5
  <2> QED
    BY <2>1, <2>2, <2>3 DEF QueuesFollow
<1>9. WaitersWait(operations', waiting', wallet', walletState')
  <2> SUFFICES ASSUME NEW i \in 1 .. n
               PROVE  /\ operations'[i].waitsFor # 0 <=> i > n - Len(waiting')
                      /\ operations'[i].waitsFor # 0 => operations'[i].waitsFor = wallet' /\ walletState' = "opening"
                      /\ operations'[i].kind = "remove" => operations'[i].password = NoPassword
    BY <1>4 DEF WaitersWait
  <2>1. operations'[i].waitsFor = 0 /\ ~(i > n - Len(waiting'))
    BY <1>2, <1>3, <1>5
  <2>2. operations[i].kind = "remove" => operations[i].password = NoPassword
    BY <1>2 DEF WaitersWait
  <2> QED
    BY <1>3, <2>1, <2>2
<1>10. Applied(operations', m, passwords, lost)
  <2>1. \A i \in 1 .. m : /\ i \in 1 .. n /\ operations'[i].account = operations[i].account
                          /\ operations'[i].password = operations[i].password
    <3>1. \A i \in 1 .. m : i \in 1 .. n
      BY <1>2
    <3> QED
      BY <1>3, <3>1
  <2>2. Applied(operations, m, passwords, lost)
    BY <1>2
  <2> HIDE DEF m
  <2> QED
    BY <2>1, <2>2 DEF Applied
<1>11. ObjectRight'
  BY <1>1, WalletParts DEF ObjectRight
<1>12. WalletTypes'
  BY <1>1, <1>4, <1>5, WalletParts DEF WalletTypes
<1> QED
  BY <1>1, <1>7, <1>8, <1>9, <1>10, <1>11, <1>12 DEF WalletInv

\* An operation runs.
LEMMA RunKept ==
    ASSUME WalletInv, onOperationReady
    PROVE  WalletInv'
<1> DEFINE n == Len(operations)
           m == n - Len(waiting) - Len(finished)
           op == operations[m + 1]
<1>1. /\ QueuesFollow(n, waiting, finished) /\ n \in Nat /\ waiting \in Seq(Nat) /\ finished \in Seq(Nat)
      /\ Len(waiting) \in Nat /\ Len(finished) \in Nat /\ Applied(operations, m, passwords, lost)
      /\ WaitersWait(operations, waiting, wallet, walletState)
      /\ passwords \in [WalletAccounts -> Passwords \cup {NoPassword}]
  BY WalletParts
<1>2. /\ finished # <<>> /\ finished' = Tail(finished)
      /\ UNCHANGED <<enabled, wallet, walletState, isOpening, operations, waiting>>
  BY DEF onOperationReady
<1>3. /\ finished' \in Seq(Nat) /\ Len(finished') = Len(finished) - 1 /\ Len(finished) # 0
      /\ Head(finished) = finished[1]
      /\ \A j \in 1 .. Len(finished) - 1 : finished'[j] = finished[j + 1]
  BY <1>1, <1>2, HeadTailProperties
<1>4. m \in Nat /\ m + 1 \in 1 .. n /\ Head(finished) = m + 1
  <2>1. 1 \in 1 .. Len(finished)
    BY <1>1, <1>3
  <2> QED
    BY <1>1, <1>3, <2>1 DEF QueuesFollow
<1>5. /\ op \in WalletOps /\ op.account \in WalletAccounts
      /\ op.password \in Passwords \cup {NoPassword} /\ (op.kind # "set" => op.password = NoPassword)
  <2>1. op \in WalletOps /\ (op.kind = "remove" => op.password = NoPassword)
    BY <1>1, <1>4, WalletParts DEF WaitersWait
  <2> HIDE DEF op
  <2> QED
    BY <2>1 DEF WalletOps
<1>6. \/ passwords' = [passwords EXCEPT ![op.account] = op.password] /\ lost' = lost \ {op.account}
      \/ passwords' = passwords /\ lost' = lost \cup {op.account}
  <2>1. op = operations[Head(finished)]
    BY <1>4
  <2> HIDE DEF op
  <2> QED
    BY <1>5, <2>1 DEF onOperationReady
<1>7. passwords' \in [WalletAccounts -> Passwords \cup {NoPassword}]
  BY <1>1, <1>5, <1>6
<1>8. Applied(operations, m + 1, passwords', lost')
  <2> SUFFICES ASSUME NEW a \in WalletAccounts, NEW i \in 1 .. m + 1, a \notin lost', operations[i].account = a,
                      \A k \in 1 .. m + 1 : i < k => operations[k].account # a
               PROVE  passwords'[a] = operations[i].password
    BY DEF Applied
  <2>1. CASE i = m + 1
    <3>1. a = op.account /\ operations[i] = op
      BY <2>1
    <3> HIDE DEF op
    <3>2. passwords' = [passwords EXCEPT ![op.account] = op.password]
      BY <1>6, <3>1
    <3> QED
      BY <1>1, <3>1, <3>2
  <2>2. CASE i # m + 1
    <3>0. m \in Nat
      BY <1>4
    <3>1. i \in 1 .. m /\ m + 1 \in 1 .. m + 1 /\ i < m + 1
      <4> HIDE DEF m
      <4> QED
        BY <2>2, <3>0
    <3>2. op.account # a
      BY <3>1
    <3>3. a \notin lost /\ passwords'[a] = passwords[a]
      <4> HIDE DEF op
      <4> QED
        BY <1>1, <1>6, <3>2
    <3>4. \A k \in 1 .. m : i < k => operations[k].account # a
      <4>1. \A k \in 1 .. m : k \in 1 .. m + 1
        BY <1>4
      <4> QED
        BY <4>1
    <3> HIDE DEF m
    <3> QED
      BY <1>1, <3>1, <3>3, <3>4 DEF Applied
  <2> QED
    BY <2>1, <2>2
<1>9. n - Len(waiting) - Len(finished') = m + 1
  BY <1>1, <1>3
<1>10. QueuesFollow(n, waiting, finished')
  <2>1. \A j \in 1 .. Len(finished') : finished'[j] = n - Len(waiting) - Len(finished') + j
    <3> TAKE j \in 1 .. Len(finished')
    <3>1. j \in 1 .. Len(finished) - 1 /\ j + 1 \in 1 .. Len(finished)
      BY <1>1, <1>3
    <3>2. finished'[j] = n - Len(waiting) - Len(finished) + (j + 1)
      BY <1>1, <1>3, <3>1 DEF QueuesFollow
    <3> QED
      BY <1>1, <1>3, <3>1, <3>2
  <2>2. Len(waiting) + Len(finished') <= n
    BY <1>1, <1>3 DEF QueuesFollow
  <2> QED
    BY <1>1, <2>1, <2>2 DEF QueuesFollow
<1>11. WalletTypes'
  BY <1>2, <1>3, <1>7, WalletParts DEF WalletTypes
<1>12. ObjectRight'
  BY <1>2, WalletParts DEF ObjectRight
<1> QED
  BY <1>1, <1>2, <1>8, <1>9, <1>10, <1>11, <1>12 DEF WalletInv

\* Every step keeps the invariant.
LEMMA NextWalletInv == WalletInv /\ [WalletNext]_walletVars => WalletInv'
<1> SUFFICES ASSUME WalletInv, [WalletNext]_walletVars PROVE WalletInv'
  OBVIOUS
<1>1. ASSUME NEW a \in WalletAccounts,
             \/ \E password \in Passwords \cup {NoPassword} : startOperation("set", a, password)
             \/ startOperation("remove", a, NoPassword)
      PROVE  WalletInv'
  BY <1>1, StartedKept
<1>2. ASSUME NEW success \in BOOLEAN, onWalletOpened(success) PROVE WalletInv'
  BY <1>2, OpenedKept
<1>3. CASE walletClosed
  <2>1. /\ walletState = "open" /\ walletState' = "closed"
        /\ UNCHANGED <<enabled, wallet, isOpening, operations, waiting, finished, passwords, lost>>
    BY <1>3 DEF walletClosed
  <2>2. ObjectRight'
    BY <2>1, WalletParts DEF ObjectRight
  <2>3. WaitersWait(operations, waiting, wallet, "closed")
    BY <2>1, WalletParts DEF WaitersWait
  <2> QED
    BY <2>1, <2>2, <2>3, WalletParts DEF WalletInv, WalletTypes
<1>4. ASSUME NEW a \in WalletAccounts, setLastLoginFailed(a) PROVE WalletInv'
  BY <1>4, WalletParts DEF setLastLoginFailed, WalletInv, WalletTypes, ObjectRight
<1>5. CASE UNCHANGED walletVars
  BY <1>5, WalletParts DEF walletVars, WalletInv, WalletTypes, ObjectRight
<1> QED
  BY <1>1, <1>2, <1>3, <1>4, <1>5, RunKept DEF WalletNext

\* No operation waits in vain, and the wallet has what the last one of an account asked for:
\* for any accounts and passwords, any number of operations, and however often the wallet
\* is closed or refused meanwhile.
THEOREM OperationsAlwaysTakeEffect ==
    WalletInit /\ [][WalletNext]_walletVars => []OperationsTakeEffect
<1>1. WalletInit => WalletInv
  <2> SUFFICES ASSUME WalletInit PROVE WalletInv
    OBVIOUS
  <2>1. /\ enabled \in BOOLEAN /\ wallet = 0 /\ walletState = "closed" /\ isOpening = FALSE
        /\ operations = <<>> /\ waiting = <<>> /\ finished = <<>>
        /\ passwords = [a \in WalletAccounts |-> NoPassword]
    BY DEF WalletInit
  <2>2. /\ operations \in Seq(WalletOps) /\ waiting \in Seq(Nat) /\ finished \in Seq(Nat)
        /\ Len(operations) = 0 /\ Len(waiting) = 0 /\ Len(finished) = 0
    BY <2>1, EmptySeq
  <2>3. passwords \in [WalletAccounts -> Passwords \cup {NoPassword}]
    BY <2>1
  <2>4. WalletTypes
    BY <2>1, <2>2, <2>3 DEF WalletTypes
  <2>5. Applied(operations, 0, passwords, lost)
    BY DEF Applied
  <2> QED
    BY <2>1, <2>2, <2>4, <2>5 DEF WalletInv, ObjectRight, QueuesFollow, WaitersWait
<1>2. WalletInv => OperationsTakeEffect
  <2> SUFFICES ASSUME WalletInv PROVE OperationsTakeEffect
    OBVIOUS
  <2>1. WaitersAreServed
    BY WalletParts DEF WaitersAreServed, WaitersWait
  <2>2. PasswordIsLastSet
    <3> SUFFICES ASSUME NEW a \in WalletAccounts \ lost, NEW i \in 1 .. Len(operations), ~Pending(a),
                        operations[i].account = a,
                        \A k \in 1 .. Len(operations) : i < k => operations[k].account # a
                 PROVE  passwords[a] = operations[i].password
      BY WalletParts DEF PasswordIsLastSet
    <3> DEFINE m == Len(operations) - Len(waiting) - Len(finished)
    <3>1. i \notin ToSet(finished) /\ operations[i].waitsFor = 0
      BY WalletParts DEF Pending
    <3>2. i <= Len(operations) - Len(waiting)
      BY <3>1, WalletParts DEF WaitersWait
    <3>3. i > m => i \in ToSet(finished)
      <4>1. ASSUME i > m PROVE \E j \in 1 .. Len(finished) : finished[j] = i
        <5>1. i - m \in 1 .. Len(finished)
          BY <3>2, <4>1, WalletParts
        <5>2. finished[i - m] = i
          BY <5>1, WalletParts DEF QueuesFollow
        <5> QED
          BY <5>1, <5>2
      <4> QED
        BY <4>1, WalletParts DEF ToSet
    <3>4. i \in 1 .. m /\ \A k \in 1 .. m : k \in 1 .. Len(operations)
      BY <3>1, <3>3, WalletParts
    <3>5. Applied(operations, m, passwords, lost)
      BY WalletParts
    <3> HIDE DEF m
    <3> QED
      BY <3>4, <3>5 DEF Applied
  <2> QED
    BY <2>1, <2>2 DEF OperationsTakeEffect
<1> QED
  BY <1>1, <1>2, NextWalletInv, PTL

-----------------------------------------------------------------------------
(* AccountRows.                                                            *)

AccountProperties == [Shown -> Values]
RowReads == [values : AccountProperties, state : Values \cup {"disabled", "disconnected"}]

Ascending(s) == \A i, j \in 1 .. Len(s) : i < j => s[i] < s[j]

RowsInv ==
    /\ accounts \in Seq(RowAccounts) /\ Ascending(accounts) /\ ToSet(accounts) = accountSet
    /\ accountSet \subseteq RowAccounts
    /\ \A a \in accountSet : a \in receiving
    /\ properties \in [RowAccounts -> AccountProperties]
    /\ lastRead \in [RowAccounts -> RowReads]
    /\ \A a \in accountSet :
         /\ lastRead[a].state = connectionStateString(properties[a])
         /\ \A p \in Followed : lastRead[a].values[p] = properties[a][p]

\* Where std::lower_bound puts an item, and the rows with it there.
LEMMA LowerBoundPlace ==
    ASSUME accounts \in Seq(Nat), Ascending(accounts), NEW a \in Nat
    PROVE  /\ LowerBound(a) \in 1 .. Len(accounts) + 1
           /\ \A i \in 1 .. Len(accounts) : i < LowerBound(a) <=> accounts[i] < a
<1> DEFINE n == Len(accounts)
           K == {k \in Nat : k # 0 /\ \A i \in 1 .. n : ~(i < k) => ~(accounts[i] < a)}
<1>1. n \in Nat /\ DOMAIN accounts = 1 .. n /\ \A i \in 1 .. n : accounts[i] \in Nat
  BY LenProperties, ElementOfSeq
<1> HIDE DEF n
<1>2. n + 1 \in K
  BY <1>1
<1>3. PICK k \in K : \A y \in K : k <= y
  BY <1>2, LeastNumber
<1>4. k \in Nat /\ k # 0 /\ k <= n + 1 /\ \A i \in 1 .. n : ~(i < k) => ~(accounts[i] < a)
  BY <1>2, <1>3
<1>5. ASSUME NEW i \in 1 .. n, i < k PROVE accounts[i] < a
  <2>0. i \in Nat /\ i # 0 /\ ~(k <= i)
    BY <1>1, <1>4, <1>5
  <2>1. i \in Nat /\ i # 0 /\ i \notin K
    <3> HIDE DEF K
    <3> QED
      BY <1>3, <2>0
  <2>2. PICK j \in 1 .. n : ~(j < i) /\ accounts[j] < a
    BY <2>1
  <2>3. accounts[i] <= accounts[j]
    BY <2>2, <1>1 DEF Ascending, n
  <2> QED
    BY <2>2, <2>3, <1>1
<1>6. k \in 1 .. n + 1 /\ \A i \in 1 .. n : i < k <=> accounts[i] < a
  BY <1>1, <1>4, <1>5
<1> HIDE DEF K
<1>7. LowerBound(a) \in 1 .. n + 1 /\ \A i \in 1 .. n : i < LowerBound(a) <=> accounts[i] < a
  <2>1. LowerBound(a) = CHOOSE m \in 1 .. n + 1 : \A i \in 1 .. n : i < m <=> accounts[i] < a
    BY <1>1 DEF LowerBound, n
  <2> QED
    BY <1>6, <2>1
<1> QED
  BY <1>7 DEF n

\* A sequence with a new item at place k.
LEMMA InsertAtItems ==
    ASSUME NEW A, NEW s \in Seq(A), NEW k \in 1 .. Len(s) + 1, NEW e \in A
    PROVE  /\ InsertAt(s, k, e) \in Seq(A) /\ Len(InsertAt(s, k, e)) = Len(s) + 1
           /\ \A i \in 1 .. Len(s) + 1 :
                InsertAt(s, k, e)[i] = IF i < k THEN s[i] ELSE IF i = k THEN e ELSE s[i - 1]
<1> DEFINE p == SubSeq(s, 1, k - 1)
           q == SubSeq(s, k, Len(s))
           r == p \o <<e>>
<1>1. Len(s) \in Nat
  BY LenProperties
<1>2. /\ p \in Seq(A) /\ Len(p) = k - 1
      /\ \A i \in 1 .. k - 1 : p[i] = s[i]
  <2>1. \A i \in 1 .. k - 1 : s[i] \in A
    BY <1>1, ElementOfSeq
  <2>2. /\ p \in Seq(A) /\ Len(p) = IF 1 <= k - 1 THEN k - 1 - 1 + 1 ELSE 0
        /\ \A i \in 1 .. k - 1 - 1 + 1 : p[i] = s[1 + i - 1]
    BY <1>1, <2>1, SubSeqProperties
  <2> QED
    BY <1>1, <2>2
<1>3. /\ q \in Seq(A) /\ Len(q) = Len(s) - k + 1
      /\ \A i \in 1 .. Len(s) - k + 1 : q[i] = s[k + i - 1]
  <2>1. \A i \in k .. Len(s) : s[i] \in A
    BY <1>1, ElementOfSeq
  <2>2. /\ q \in Seq(A) /\ Len(q) = IF k <= Len(s) THEN Len(s) - k + 1 ELSE 0
        /\ \A i \in 1 .. Len(s) - k + 1 : q[i] = s[k + i - 1]
    BY <1>1, <2>1, SubSeqProperties
  <2> QED
    BY <1>1, <2>2
<1> HIDE DEF p, q
<1>4. /\ <<e>> \in Seq(A) /\ Len(<<e>>) = 1 /\ <<e>>[1] = e
  OBVIOUS
<1>5. /\ r \in Seq(A) /\ Len(r) = k
      /\ \A i \in 1 .. k : r[i] = IF i < k THEN s[i] ELSE e
  <2> DEFINE o == <<e>>
  <2>0. o \in Seq(A) /\ Len(o) = 1 /\ o[1] = e
    BY <1>4
  <2> HIDE DEF o
  <2>1. /\ p \o o \in Seq(A) /\ Len(p \o o) = Len(p) + Len(o)
        /\ \A i \in 1 .. Len(p) + Len(o) : (p \o o)[i] = IF i <= Len(p) THEN p[i] ELSE o[i - Len(p)]
    BY <1>2, <2>0, ConcatProperties
  <2>2. \A i \in 1 .. k : (p \o o)[i] = IF i < k THEN s[i] ELSE e
    BY <1>1, <1>2, <2>0, <2>1
  <2>3. r = p \o o
    BY DEF o
  <2> HIDE DEF r
  <2> QED
    BY <1>1, <1>2, <2>0, <2>1, <2>2, <2>3
<1> HIDE DEF r
<1>6. /\ r \o q \in Seq(A) /\ Len(r \o q) = Len(r) + Len(q)
      /\ \A i \in 1 .. Len(r) + Len(q) : (r \o q)[i] = IF i <= Len(r) THEN r[i] ELSE q[i - Len(r)]
  BY <1>3, <1>5, ConcatProperties
<1>7. /\ r \o q \in Seq(A) /\ Len(r \o q) = Len(s) + 1
  BY <1>1, <1>3, <1>5, <1>6
<1>8. \A i \in 1 .. Len(s) + 1 : (r \o q)[i] = IF i < k THEN s[i] ELSE IF i = k THEN e ELSE s[i - 1]
  <2> TAKE i \in 1 .. Len(s) + 1
  <2>1. (r \o q)[i] = IF i <= k THEN r[i] ELSE q[i - k]
    BY <1>1, <1>3, <1>5, <1>6
  <2>2. CASE i <= k
    BY <1>1, <1>5, <2>1, <2>2
  <2>3. CASE ~(i <= k)
    <3>1. i - k \in 1 .. Len(s) - k + 1 /\ k + (i - k) - 1 = i - 1
      BY <1>1, <2>3
    <3> QED
      BY <1>1, <1>3, <2>1, <2>3, <3>1
  <2> QED
    BY <2>2, <2>3
<1>9. InsertAt(s, k, e) = r \o q
  BY DEF InsertAt, p, q, r
<1> QED
  BY <1>7, <1>8, <1>9

LEMMA RowInserted ==
    ASSUME accounts \in Seq(RowAccounts), RowAccounts \subseteq Nat, Ascending(accounts),
           NEW a \in RowAccounts, a \notin ToSet(accounts)
    PROVE  LET t == InsertAt(accounts, LowerBound(a), a)
           IN t \in Seq(RowAccounts) /\ Ascending(t) /\ ToSet(t) = ToSet(accounts) \cup {a}
<1> DEFINE n == Len(accounts)
           k == LowerBound(a)
           t == InsertAt(accounts, k, a)
<1>1. /\ n \in Nat /\ DOMAIN accounts = 1 .. n /\ a \in Nat
      /\ \A i \in 1 .. n : accounts[i] \in Nat /\ accounts[i] \in RowAccounts /\ accounts[i] # a
  BY LenProperties, ElementOfSeq DEF ToSet
<1>2. accounts \in Seq(Nat)
  BY <1>1, ElementOfSeq
<1>3. k \in 1 .. n + 1 /\ \A i \in 1 .. n : i < k <=> accounts[i] < a
  BY <1>1, <1>2, LowerBoundPlace
<1> HIDE DEF k
<1>4. /\ t \in Seq(RowAccounts) /\ Len(t) = n + 1
      /\ \A i \in 1 .. n + 1 : t[i] = IF i < k THEN accounts[i] ELSE IF i = k THEN a ELSE accounts[i - 1]
  BY <1>3, InsertAtItems
<1>5. \A i, j \in 1 .. n : i < j => accounts[i] < accounts[j]
  BY DEF Ascending
<1> HIDE DEF n, t
<1>6. Ascending(t)
  <2> SUFFICES ASSUME NEW i \in 1 .. n + 1, NEW j \in 1 .. n + 1, i < j PROVE t[i] < t[j]
    BY <1>4 DEF Ascending
  <2>1. CASE j < k
    BY <2>1, <1>1, <1>3, <1>4, <1>5
  <2>2. CASE j = k
    <3>1. i \in 1 .. n /\ t[i] = accounts[i] /\ accounts[i] < a /\ t[j] = a
      BY <2>2, <1>1, <1>3, <1>4
    <3> QED
      BY <3>1
  <2>3. CASE k < j /\ i = k
    <3>1. j - 1 \in 1 .. n /\ ~(j - 1 < k) /\ t[j] = accounts[j - 1] /\ t[i] = a
      BY <2>3, <1>1, <1>3, <1>4
    <3>2. ~(accounts[j - 1] < a) /\ accounts[j - 1] # a /\ accounts[j - 1] \in Nat
      BY <3>1, <1>1, <1>3
    <3> QED
      BY <3>1, <3>2, <1>1
  <2>4. CASE k < j /\ i < k
    <3>1. i \in 1 .. n /\ j - 1 \in 1 .. n /\ (i < j - 1 \/ i = j - 1)
      BY <2>4, <1>1, <1>3
    <3>2. /\ j - 1 \in 1 .. n /\ ~(j - 1 < k) /\ t[j] = accounts[j - 1]
          /\ i \in 1 .. n /\ t[i] = accounts[i] /\ accounts[i] < a
      BY <2>4, <1>1, <1>3, <1>4
    <3>3. ~(accounts[j - 1] < a) /\ accounts[j - 1] \in Nat /\ accounts[i] \in Nat
      BY <3>2, <1>1, <1>3
    <3> QED
      BY <3>2, <3>3, <1>1
  <2>5. CASE k < j /\ k < i
    <3>1. i - 1 \in 1 .. n /\ j - 1 \in 1 .. n /\ i - 1 < j - 1 /\ t[i] = accounts[i - 1] /\ t[j] = accounts[j - 1]
      BY <2>5, <1>1, <1>3, <1>4
    <3> QED
      BY <3>1, <1>5
  <2> QED
    BY <2>1, <2>2, <2>3, <2>4, <2>5, <1>1, <1>3
<1>7. ToSet(t) = ToSet(accounts) \cup {a}
  <2>1. DOMAIN t = 1 .. n + 1
    BY <1>4, LenProperties
  <2>2. \A i \in 1 .. n + 1 : t[i] \in ToSet(accounts) \cup {a}
    <3> SUFFICES ASSUME NEW i \in 1 .. n + 1, i # k PROVE t[i] \in ToSet(accounts)
      BY <1>3, <1>4
    <3>1. CASE i < k
      <4>1. i \in 1 .. n /\ t[i] = accounts[i]
        BY <3>1, <1>1, <1>3, <1>4
      <4> QED
        BY <4>1, <1>1 DEF ToSet
    <3>2. CASE ~(i < k)
      <4>1. i - 1 \in 1 .. n /\ t[i] = accounts[i - 1]
        BY <3>2, <1>1, <1>3, <1>4
      <4> QED
        BY <4>1, <1>1 DEF ToSet
    <3> QED
      BY <3>1, <3>2
  <2>3. \A i \in 1 .. n : \E j \in 1 .. n + 1 : t[j] = accounts[i]
    <3> SUFFICES ASSUME NEW i \in 1 .. n PROVE \E j \in 1 .. n + 1 : t[j] = accounts[i]
      OBVIOUS
    <3>1. CASE i < k
      <4>1. i \in 1 .. n + 1 /\ t[i] = accounts[i]
        BY <3>1, <1>1, <1>4
      <4> QED
        BY <4>1
    <3>2. CASE ~(i < k)
      <4>1. i + 1 \in 1 .. n + 1 /\ ~(i + 1 < k) /\ i + 1 # k /\ (i + 1) - 1 = i
        BY <3>2, <1>1, <1>3
      <4>2. t[i + 1] = accounts[(i + 1) - 1]
        BY <4>1, <1>4
      <4> QED
        BY <4>1, <4>2
    <3> QED
      BY <3>1, <3>2
  <2>4. t[k] = a
    BY <1>3, <1>4
  <2>5. ToSet(t) = {t[i] : i \in 1 .. n + 1} /\ ToSet(accounts) = {accounts[i] : i \in 1 .. n}
    BY <2>1, <1>1 DEF ToSet
  <2>6. ToSet(t) \subseteq ToSet(accounts) \cup {a}
    BY <2>2, <2>5
  <2>7. ToSet(accounts) \cup {a} \subseteq ToSet(t)
    BY <2>3, <2>4, <2>5, <1>3
  <2> QED
    BY <2>6, <2>7
<1> QED
  BY <1>4, <1>6, <1>7 DEF t, k

LEMMA RowRemoved ==
    ASSUME accounts \in Seq(RowAccounts), RowAccounts \subseteq Nat, Ascending(accounts),
           NEW i0 \in 1 .. Len(accounts)
    PROVE  LET t == RemoveAt(accounts, i0)
           IN t \in Seq(RowAccounts) /\ Ascending(t) /\ ToSet(t) = ToSet(accounts) \ {accounts[i0]}
<1> DEFINE n == Len(accounts)
           t == RemoveAt(accounts, i0)
<1>1. /\ n \in Nat /\ DOMAIN accounts = 1 .. n
      /\ \A i \in 1 .. n : accounts[i] \in Nat /\ accounts[i] \in RowAccounts
  BY LenProperties, ElementOfSeq
<1>2. /\ t \in Seq(RowAccounts) /\ Len(t) = n - 1
      /\ \A i \in 1 .. n - 1 : t[i] = IF i < i0 THEN accounts[i] ELSE accounts[i + 1]
  BY RemoveAtItems
<1>3. \A i, j \in 1 .. n : i < j => accounts[i] < accounts[j]
  BY DEF Ascending
<1>4. i0 \in 1 .. n
  OBVIOUS
<1> HIDE DEF n, t
<1>5. Ascending(t)
  <2> SUFFICES ASSUME NEW i \in 1 .. n - 1, NEW j \in 1 .. n - 1, i < j PROVE t[i] < t[j]
    BY <1>2 DEF Ascending
  <2>1. i \in 1 .. n /\ j \in 1 .. n /\ i + 1 \in 1 .. n /\ j + 1 \in 1 .. n /\ i < j + 1 /\ i + 1 < j + 1
    BY <1>1
  <2>2. ~(i < i0) => ~(j < i0)
    BY <1>1, <1>4
  <2> QED
    BY <2>1, <2>2, <1>2, <1>3
<1>6. ToSet(t) = ToSet(accounts) \ {accounts[i0]}
  <2>1. DOMAIN t = 1 .. n - 1
    BY <1>2, LenProperties
  <2>2. ASSUME NEW i \in 1 .. n - 1 PROVE \E j \in 1 .. n : j # i0 /\ t[i] = accounts[j]
    <3>1. CASE i < i0
      <4>1. i \in 1 .. n /\ i # i0 /\ t[i] = accounts[i]
        BY <3>1, <1>1, <1>2, <1>4
      <4> QED
        BY <4>1
    <3>2. CASE ~(i < i0)
      <4>1. i + 1 \in 1 .. n /\ i + 1 # i0 /\ t[i] = accounts[i + 1]
        BY <3>2, <1>1, <1>2, <1>4
      <4> QED
        BY <4>1
    <3> QED
      BY <3>1, <3>2
  <2>3. ASSUME NEW j \in 1 .. n, j # i0 PROVE \E i \in 1 .. n - 1 : t[i] = accounts[j]
    <3>1. CASE j < i0
      <4>1. j \in 1 .. n - 1 /\ t[j] = accounts[j]
        BY <3>1, <1>1, <1>2, <1>4
      <4> QED
        BY <4>1
    <3>2. CASE ~(j < i0)
      <4>1. j - 1 \in 1 .. n - 1 /\ ~(j - 1 < i0) /\ (j - 1) + 1 = j
        BY <3>2, <2>3, <1>1, <1>4
      <4>2. t[j - 1] = accounts[(j - 1) + 1]
        BY <4>1, <1>2
      <4> QED
        BY <4>1, <4>2
    <3> QED
      BY <3>1, <3>2
  <2>4. \A j \in 1 .. n : j # i0 => accounts[j] # accounts[i0]
    BY <1>1, <1>3, <1>4
  <2>5. ToSet(t) = {t[i] : i \in 1 .. n - 1} /\ ToSet(accounts) = {accounts[i] : i \in 1 .. n}
    BY <2>1, <1>1 DEF ToSet
  <2>6. ToSet(t) \subseteq ToSet(accounts) \ {accounts[i0]}
    BY <2>2, <2>4, <2>5
  <2>7. ToSet(accounts) \ {accounts[i0]} \subseteq ToSet(t)
    BY <2>3, <2>5
  <2> QED
    BY <2>6, <2>7
<1> QED
  BY <1>2, <1>5, <1>6 DEF t

LEMMA AccountsRead ==
    ASSUME NEW v \in AccountProperties, On \in Values PROVE RowRead(v) \in RowReads
<1>1. "currentPresence" \in Shown
  BY DEF Shown
<1>2. v["currentPresence"] \in Values /\ v.currentPresence = v["currentPresence"]
  BY <1>1 DEF AccountProperties
<1>3. connectionStateString(v) \in Values \cup {"disabled", "disconnected"}
  BY <1>2 DEF connectionStateString
<1> QED
  BY <1>3 DEF RowRead, RowReads

LEMMA RowsKept == RowsInv /\ [RowsNext]_rowVars => RowsInv'
<1> SUFFICES ASSUME RowsInv, [RowsNext]_rowVars PROVE RowsInv'
  OBVIOUS
<1>0. /\ RowAccounts \subseteq Nat /\ On \in Values
  BY RowsAssumption
<1>a. /\ accounts \in Seq(RowAccounts) /\ Ascending(accounts) /\ ToSet(accounts) = accountSet
      /\ accountSet \subseteq RowAccounts
      /\ \A a \in accountSet : a \in receiving
      /\ properties \in [RowAccounts -> AccountProperties]
      /\ lastRead \in [RowAccounts -> RowReads]
  BY DEF RowsInv
<1>b. \A a \in accountSet :
         /\ lastRead[a].state = connectionStateString(properties[a])
         /\ \A p \in Followed : lastRead[a].values[p] = properties[a][p]
  BY DEF RowsInv
<1>1. ASSUME NEW a \in RowAccounts, onAccountAdded(a) PROVE RowsInv'
  <2>1. /\ a \notin accountSet /\ accountSet' = accountSet \cup {a} /\ properties' = properties
        /\ accounts' = InsertAt(accounts, LowerBound(a), a) /\ receiving' = receiving \cup {a}
        /\ lastRead' = [lastRead EXCEPT ![a] = RowRead(properties[a])]
    BY <1>1, <1>a DEF onAccountAdded
  <2>2. /\ accounts' \in Seq(RowAccounts) /\ Ascending(accounts') /\ ToSet(accounts') = accountSet'
    BY <2>1, <1>0, <1>a, RowInserted
  <2>3. /\ lastRead' \in [RowAccounts -> RowReads] /\ lastRead'[a] = RowRead(properties[a])
        /\ \A b \in RowAccounts : b # a => lastRead'[b] = lastRead[b]
    BY <2>1, <1>0, <1>a, AccountsRead
  <2>4. /\ RowRead(properties[a]).state = connectionStateString(properties[a])
        /\ RowRead(properties[a]).values = properties[a]
    BY DEF RowRead
  <2>5. ASSUME NEW b \in accountSet'
        PROVE  /\ lastRead'[b].state = connectionStateString(properties[b])
               /\ \A p \in Followed : lastRead'[b].values[p] = properties[b][p]
    BY <2>1, <2>3, <2>4, <1>a, <1>b
  <2> QED
    BY <2>1, <2>2, <2>3, <2>5, <1>a DEF RowsInv
<1>2. ASSUME NEW a \in RowAccounts, onAccountRemoved(a) PROVE RowsInv'
  <2> DEFINE i0 == CHOOSE i \in DOMAIN accounts : accounts[i] = a
  <2>1. /\ a \in accountSet /\ accountSet' = accountSet \ {a}
        /\ accounts' = RemoveAt(accounts, i0) /\ UNCHANGED <<properties, receiving, lastRead>>
    BY <1>2 DEF onAccountRemoved
  <2>2. i0 \in 1 .. Len(accounts) /\ accounts[i0] = a
    <3>1. \E i \in DOMAIN accounts : accounts[i] = a
      BY <2>1, <1>a DEF ToSet
    <3> QED
      BY <3>1, <1>a, LenProperties
  <2> HIDE DEF i0
  <2>3. /\ accounts' \in Seq(RowAccounts) /\ Ascending(accounts') /\ ToSet(accounts') = accountSet'
    BY <2>1, <2>2, <1>0, <1>a, RowRemoved
  <2> QED
    BY <2>1, <2>3, <1>a, <1>b DEF RowsInv
<1>3. ASSUME NEW a \in RowAccounts, NEW p \in Shown, NEW v \in Values, PropertyChanged(a, p, v)
      PROVE  RowsInv'
  <2> DEFINE f == [properties[a] EXCEPT ![p] = v]
  <2>1. /\ properties' = [properties EXCEPT ![a][p] = v]
        /\ UNCHANGED <<accountSet, accounts, receiving>>
        /\ lastRead' = IF a \in receiving /\ a \in ToSet(accounts) /\ p \in Followed
                       THEN [lastRead EXCEPT ![a] = RowRead(properties'[a])] ELSE lastRead
    BY <1>3 DEF PropertyChanged, onAccountUpdated
  <2>2. /\ f \in AccountProperties
        /\ \A q \in Shown : q # p => f[q] = properties[a][q]
    BY <1>a DEF AccountProperties
  <2>3. /\ properties' \in [RowAccounts -> AccountProperties] /\ properties'[a] = f
        /\ \A b \in RowAccounts : b # a => properties'[b] = properties[b]
    BY <2>1, <2>2, <1>a
  <2> HIDE DEF f
  <2>4. CASE a \in accountSet /\ p \in Followed
    <3>1. /\ lastRead' \in [RowAccounts -> RowReads] /\ lastRead'[a] = RowRead(f)
          /\ \A b \in RowAccounts : b # a => lastRead'[b] = lastRead[b]
      BY <2>1, <2>2, <2>3, <2>4, <1>0, <1>a, AccountsRead
    <3>2. RowRead(f).state = connectionStateString(f) /\ RowRead(f).values = f
      BY DEF RowRead
    <3>3. ASSUME NEW b \in accountSet
          PROVE  /\ lastRead'[b].state = connectionStateString(properties'[b])
                 /\ \A q \in Followed : lastRead'[b].values[q] = properties'[b][q]
      BY <2>3, <3>1, <3>2, <1>a, <1>b
    <3> QED
      BY <2>1, <2>3, <3>1, <3>3, <1>a DEF RowsInv
  <2>5. CASE ~(a \in accountSet /\ p \in Followed)
    <3>1. lastRead' = lastRead
      BY <2>1, <2>5, <1>a
    <3>2. ASSUME NEW b \in accountSet
          PROVE  /\ lastRead[b].state = connectionStateString(properties'[b])
                 /\ \A q \in Followed : lastRead[b].values[q] = properties'[b][q]
      <4>1. CASE b # a
        BY <4>1, <2>3, <1>a, <1>b
      <4>2. CASE b = a
        <5>1. p \notin Followed /\ \A q \in Followed : q \in Shown /\ q # p
          BY <4>2, <2>5 DEF Followed, Shown
        <5>2. \A q \in Followed : f[q] = properties[a][q]
          BY <5>1, <2>2
        <5>3. f.enabled = properties[a].enabled /\ f.connectionStatus = properties[a].connectionStatus
              /\ f.currentPresence = properties[a].currentPresence
          BY <5>2 DEF Followed
        <5>4. connectionStateString(f) = connectionStateString(properties[a])
          BY <5>3 DEF connectionStateString
        <5> QED
          BY <4>2, <5>2, <5>4, <2>3, <1>b
      <4> QED
        BY <4>1, <4>2
    <3>3. \A b \in accountSet' :
             /\ lastRead'[b].state = connectionStateString(properties'[b])
             /\ \A q \in Followed : lastRead'[b].values[q] = properties'[b][q]
      <4> SUFFICES ASSUME NEW b \in accountSet
                   PROVE  /\ lastRead'[b].state = connectionStateString(properties'[b])
                          /\ \A q \in Followed : lastRead'[b].values[q] = properties'[b][q]
        BY <2>1
      <4>1. lastRead'[b] = lastRead[b]
        BY <3>1
      <4>2. /\ lastRead[b].state = connectionStateString(properties'[b])
            /\ \A q \in Followed : lastRead[b].values[q] = properties'[b][q]
        BY <3>2
      <4> QED
        BY <4>1, <4>2
    <3>4. lastRead' \in [RowAccounts -> RowReads]
      BY <3>1, <1>a
    <3> QED
      BY <2>1, <2>3, <3>3, <3>4, <1>a DEF RowsInv
  <2> QED
    BY <2>4, <2>5
<1>4. CASE UNCHANGED rowVars
  BY <1>4 DEF rowVars, RowsInv, Ascending
<1> QED
  BY <1>1, <1>2, <1>3, <1>4 DEF RowsNext

\* One row for each account of the set, in order, and what views read of it is what the
\* account says: for any accounts and values and any number of changes, also when an
\* account leaves and comes back.
THEOREM AccountRowsStayCurrent ==
    RowsInit /\ [][RowsNext]_rowVars => []AccountRowsCurrent
<1>1. RowsInit => RowsInv
  <2> SUFFICES ASSUME RowsInit PROVE RowsInv
    OBVIOUS
  <2>1. /\ accountSet = {} /\ accounts = <<>> /\ receiving = {}
        /\ properties = [a \in RowAccounts |-> [p \in Shown |-> On]]
        /\ lastRead = [a \in RowAccounts |-> RowRead(properties[a])]
    BY DEF RowsInit
  <2>2. properties \in [RowAccounts -> AccountProperties]
    BY <2>1, RowsAssumption DEF AccountProperties
  <2>3. lastRead \in [RowAccounts -> RowReads]
    BY <2>1, <2>2, RowsAssumption, AccountsRead
  <2>4. accounts \in Seq(RowAccounts) /\ Len(accounts) = 0 /\ ToSet(accounts) = {}
    BY <2>1, EmptySeq DEF ToSet
  <2>5. Ascending(accounts)
    BY <2>4 DEF Ascending
  <2> QED
    BY <2>1, <2>2, <2>3, <2>4, <2>5 DEF RowsInv
<1>2. RowsInv => AccountRowsCurrent
  BY LenProperties DEF RowsInv, AccountRowsCurrent, Ascending
<1> QED
  BY <1>1, <1>2, RowsKept, PTL

-----------------------------------------------------------------------------
(* ContactActions.                                                         *)

PersonNames == {u.contact : u \in Addresses} \cup {""}
FileNames == {FileName(a, f) : a \in ActionAccounts, f \in Files}
ActionEvents == [what : {"click", "up", "request", "chat"}, account : ActionAccounts,
                 contact : PersonNames, type : Tasks \cup FileNames \cup {"connect", ""}]
MenuEntries == [address : Addresses, type : Tasks, connects : BOOLEAN]

\* What decides the wish for account a: the clicks that connect it, and the connections.
Decisive(a) == {e \in ActionEvents : e.account = a /\ (e.what = "up" \/ AskedToConnect(e))}
Ups(a) == {e \in Decisive(a) : e.what = "up" /\ e.contact = ""}
AsksFor(a, c) == {e \in Decisive(a) : AskedToConnect(e) /\ e.contact = c}

\* The plugin listens to the account exactly if the last of these is a click, for the
\* contact that is noted.
Noted(a, h, heard, c) ==
    /\ heard = 0 => LastIn(h, Decisive(a), Ups(a))
    /\ heard # 0 => Has(h, Decisive(a)) /\ LastIn(h, Decisive(a), AsksFor(a, c))

ActionsInv ==
    /\ happened \in Seq(ActionEvents) /\ menu \subseteq MenuEntries
    /\ listening \in [ActionAccounts -> Nat] /\ contactIdProperty \in [ActionAccounts -> PersonNames]
    /\ \A a \in ActionAccounts : Noted(a, happened, listening[a], contactIdProperty[a])
    /\ ChatsAreAsked

LEMMA ActionsParts ==
    ActionsInv =>
        /\ happened \in Seq(ActionEvents) /\ Len(happened) \in Nat /\ DOMAIN happened = 1 .. Len(happened)
        /\ \A i \in 1 .. Len(happened) : happened[i] \in ActionEvents
        /\ menu \subseteq MenuEntries
        /\ listening \in [ActionAccounts -> Nat] /\ contactIdProperty \in [ActionAccounts -> PersonNames]
        /\ \A a \in ActionAccounts : Noted(a, happened, listening[a], contactIdProperty[a])
        /\ ChatsAreAsked
  BY LenProperties, ElementOfSeq DEF ActionsInv

LEMMA AddressParts ==
    \A u \in Addresses : u.account \in ActionAccounts /\ u.contact \in PersonNames
  BY DEF ActionAccounts, PersonNames

\* Numbers up to a limit have a greatest one.
LEMMA GreatestNumber ==
    ASSUME NEW n \in Nat, NEW S \in SUBSET (1 .. n), S # {} PROVE \E x \in S : \A y \in S : y <= x
<1> DEFINE D == {k \in Nat : k <= n /\ n - k \in S}
<1>1. \A y \in S : y \in Nat /\ y <= n /\ n - y \in Nat /\ n - y <= n /\ n - (n - y) = y
  OBVIOUS
<1>2. \A y \in S : n - y \in D
  BY <1>1
<1>3. D \in SUBSET Nat /\ D # {}
  BY <1>2
<1>4. PICK k \in D : \A y \in D : k <= y
  BY <1>3, LeastNumber
<1>5. k \in Nat /\ k <= n /\ n - k \in S
  BY <1>4
<1>6. ASSUME NEW y \in S PROVE y <= n - k
  <2>1. k <= n - y
    BY <1>2, <1>4
  <2> QED
    BY <2>1, <1>1, <1>5
<1> QED
  BY <1>5, <1>6

\* The wish is that of the last decisive event.
LEMMA LastWish ==
    ASSUME happened \in Seq(ActionEvents), NEW a, NEW T, LastIn(happened, Decisive(a), T)
    PROVE  /\ ~Has(happened, Decisive(a)) => Wish(a, Len(happened) + 1) = ""
           /\ Has(happened, Decisive(a)) => \E e \in T : Wish(a, Len(happened) + 1) = e.contact
<1> DEFINE n == Len(happened)
           before == {j \in 1 .. n : happened[j].account = a /\
                        (happened[j].what = "up" \/ AskedToConnect(happened[j]))}
<1>1. n \in Nat /\ \A j \in 1 .. n : happened[j] \in ActionEvents
  BY LenProperties, ElementOfSeq
<1>2. before = {j \in 1 .. n : happened[j] \in Decisive(a)}
  BY <1>1 DEF Decisive
<1>3. Wish(a, n + 1) = IF before = {} THEN ""
                       ELSE happened[CHOOSE j \in before : \A k \in before : k <= j].contact
  <2>1. 1 .. (n + 1) - 1 = 1 .. n
    BY <1>1
  <2> QED
    BY <2>1 DEF Wish
<1> HIDE DEF before
<1>4. ASSUME ~Has(happened, Decisive(a)) PROVE Wish(a, n + 1) = ""
  <2>1. before = {}
    BY <1>2, <1>4 DEF Has
  <2> QED
    BY <2>1, <1>3
<1>5. ASSUME Has(happened, Decisive(a)) PROVE \E e \in T : Wish(a, n + 1) = e.contact
  <2>1. before # {} /\ before \in SUBSET (1 .. n)
    BY <1>2, <1>5 DEF Has
  <2> DEFINE last == CHOOSE j \in before : \A k \in before : k <= j
  <2>2. last \in before /\ \A k \in before : k <= last
    <3>1. \E x \in before : \A y \in before : y <= x
      BY <2>1, <1>1, GreatestNumber
    <3> QED
      BY <3>1
  <2>3. Wish(a, n + 1) = happened[last].contact
    BY <2>1, <1>3
  <2> HIDE DEF last
  <2>4. last \in 1 .. n /\ happened[last] \in Decisive(a)
    BY <2>2, <1>2
  <2>5. \A j \in 1 .. n : last < j => happened[j] \notin Decisive(a)
    <3> SUFFICES ASSUME NEW j \in 1 .. n, last < j, happened[j] \in Decisive(a) PROVE FALSE
      OBVIOUS
    <3>1. j <= last
      BY <1>2, <2>2
    <3> QED
      BY <3>1, <2>4, <1>1
  <2>6. happened[last] \in T
    BY <2>4, <2>5 DEF LastIn
  <2> QED
    BY <2>3, <2>6
<1> QED
  BY <1>4, <1>5

\* What comes later does not change an earlier wish.
LEMMA WishStays ==
    ASSUME happened \in Seq(ActionEvents), happened' \in Seq(ActionEvents),
           Len(happened) <= Len(happened'),
           \A j \in 1 .. Len(happened) : happened'[j] = happened[j],
           NEW i \in 1 .. Len(happened) + 1
    PROVE  \A a : Wish(a, i)' = Wish(a, i)
<1> SUFFICES ASSUME NEW a PROVE Wish(a, i)' = Wish(a, i)
  OBVIOUS
<1> DEFINE before == {j \in 1 .. i - 1 : happened[j].account = a /\
                        (happened[j].what = "up" \/ AskedToConnect(happened[j]))}
           after == {j \in 1 .. i - 1 : happened'[j].account = a /\
                        (happened'[j].what = "up" \/ AskedToConnect(happened'[j]))}
           last == CHOOSE j \in before : \A k \in before : k <= j
<1>1. \A j \in 1 .. i - 1 : happened'[j] = happened[j]
  <2>1. \A j \in 1 .. i - 1 : j \in 1 .. Len(happened)
    BY LenProperties
  <2> QED
    BY <2>1
<1>2. after = before
  BY <1>1
<1>3. Wish(a, i)' = IF after = {} THEN "" ELSE happened'[CHOOSE j \in after : \A k \in after : k <= j].contact
  BY DEF Wish, AskedToConnect
<1>4. Wish(a, i) = IF before = {} THEN "" ELSE happened[last].contact
  BY DEF Wish
<1>5. before # {} => last \in 1 .. i - 1
  <2>1. before \in SUBSET (1 .. i - 1)
    OBVIOUS
  <2>2. i - 1 \in Nat
    BY LenProperties
  <2>3. before # {} => \E x \in before : \A y \in before : y <= x
    BY <2>1, <2>2, GreatestNumber
  <2> HIDE DEF before
  <2> QED
    BY <2>1, <2>3
<1> HIDE DEF before, after
<1> QED
  BY <1>1, <1>2, <1>3, <1>4, <1>5

\* An event is noted: one that is decisive for the account says what is noted then, and
\* what follows it is not.
LEMMA NotedKept ==
    ASSUME NEW h \in Seq(ActionEvents), NEW x \in ActionEvents, NEW t \in Seq(ActionEvents),
           NEW a, NEW heard, NEW c, NEW heardThen, NEW then, Noted(a, h, heard, c),
           ~Has(t, Decisive(a)),
           x \in Decisive(a) => /\ heardThen = 0 => x \in Ups(a)
                                /\ heardThen # 0 => x \in AsksFor(a, then),
           x \notin Decisive(a) => heardThen = heard /\ then = c
    PROVE  Noted(a, Append(h, x) \o t, heardThen, then)
<1> DEFINE g == Append(h, x)
<1>1. g \in Seq(ActionEvents) /\ (Has(g, Decisive(a)) <=> Has(h, Decisive(a)) \/ x \in Decisive(a))
  BY HasAppend
<1>2. Has(g \o t, Decisive(a)) <=> Has(g, Decisive(a))
  BY <1>1, HasConcat
<1>3. ASSUME NEW T, IF x \in Decisive(a) THEN x \in T ELSE LastIn(h, Decisive(a), T)
      PROVE  LastIn(g \o t, Decisive(a), T)
  <2>1. LastIn(g, Decisive(a), T)
    BY <1>3, LastAppend
  <2> HIDE DEF g
  <2> QED
    BY <2>1, <1>1, LastConcat
<1> HIDE DEF g
<1>4. ASSUME heardThen = 0 PROVE LastIn(g \o t, Decisive(a), Ups(a))
  BY <1>3, <1>4 DEF Noted
<1>5. ASSUME heardThen # 0
      PROVE  Has(g \o t, Decisive(a)) /\ LastIn(g \o t, Decisive(a), AsksFor(a, then))
  <2>1. LastIn(g \o t, Decisive(a), AsksFor(a, then))
    BY <1>3, <1>5 DEF Noted
  <2>2. Has(g \o t, Decisive(a))
    BY <1>1, <1>2, <1>5 DEF Noted
  <2> QED
    BY <2>1, <2>2
<1> QED
  BY <1>4, <1>5 DEF g, Noted

\* The items of a sequence with an event and what follows it at the end.
LEMMA NotedItems ==
    ASSUME NEW s \in Seq(ActionEvents), NEW x \in ActionEvents, NEW t \in Seq(ActionEvents),
           NEW r, r = Append(s, x) \o t
    PROVE  /\ Len(s) \in Nat /\ Len(t) \in Nat /\ Len(r) = Len(s) + 1 + Len(t)
           /\ r \in Seq(ActionEvents) /\ DOMAIN r = 1 .. Len(r)
           /\ \A j \in 1 .. Len(s) : r[j] = s[j]
           /\ r[Len(s) + 1] = x
           /\ \A k \in 1 .. Len(t) : r[(Len(s) + 1) + k] = t[k]
<1> DEFINE g == Append(s, x)
           n == Len(s)
           m == Len(t)
           N == Len(r)
<1>1. /\ n \in Nat /\ g \in Seq(ActionEvents) /\ Len(g) = n + 1
      /\ \A j \in 1 .. n : g[j] = s[j]
      /\ g[n + 1] = x
  BY AppendProperties
<1>2. r = g \o t
  OBVIOUS
<1> HIDE DEF g
<1>3. /\ m \in Nat /\ N = Len(g) + m /\ r \in Seq(ActionEvents)
      /\ \A i \in 1 .. Len(g) + m : r[i] = IF i <= Len(g) THEN g[i] ELSE t[i - Len(g)]
  <2>1. g \in Seq(ActionEvents)
    BY <1>1
  <2>2. /\ Len(t) \in Nat /\ Len(g \o t) = Len(g) + Len(t) /\ g \o t \in Seq(ActionEvents)
        /\ \A i \in 1 .. Len(g) + Len(t) :
              (g \o t)[i] = IF i <= Len(g) THEN g[i] ELSE t[i - Len(g)]
    BY <2>1, ConcatProperties
  <2> QED
    BY <2>2, <1>2
<1>4. DOMAIN r = 1 .. N
  BY <1>3, LenProperties
<1> HIDE DEF n, m, N
<1>5. \A j \in 1 .. n + 1 : r[j] = g[j]
  <2> SUFFICES ASSUME NEW j \in 1 .. n + 1 PROVE r[j] = g[j]
    OBVIOUS
  <2>1. j \in 1 .. Len(g) + m /\ j <= Len(g)
    BY <1>1, <1>3
  <2> QED
    BY <2>1, <1>3
<1>6. \A k \in 1 .. m : r[(n + 1) + k] = t[k]
  <2> SUFFICES ASSUME NEW k \in 1 .. m PROVE r[(n + 1) + k] = t[k]
    OBVIOUS
  <2>1. /\ (n + 1) + k \in 1 .. Len(g) + m /\ ~((n + 1) + k <= Len(g))
        /\ ((n + 1) + k) - Len(g) = k
    BY <1>1, <1>3
  <2> QED
    BY <2>1, <1>3
<1>7. /\ \A j \in 1 .. n : r[j] = s[j]
      /\ r[n + 1] = x /\ N = n + 1 + m
  <2>1. n + 1 \in 1 .. n + 1 /\ \A j \in 1 .. n : j \in 1 .. n + 1
    BY <1>1
  <2> QED
    BY <2>1, <1>1, <1>3, <1>5
<1> QED
  BY <1>1, <1>3, <1>4, <1>6, <1>7 DEF n, m, N

\* A click or a connection happens, and what it leads to: a connection brings the one
\* chat that is wished for, and nothing else one.
Happens(x, t) ==
    /\ happened' = Append(happened, x) \o t
    /\ x.what \in {"click", "up"}
    /\ x.what = "up" /\ Wish(x.account, Len(happened) + 1) # "" =>
         /\ Len(t) # 0
         /\ t[1] = Event("chat", x.account, Wish(x.account, Len(happened) + 1), "TextChannel")
    /\ \A k \in 1 .. Len(t) :
         /\ t[k].what \in {"request", "chat"}
         /\ t[k].what = "chat" =>
              k = 1 /\ x.what = "up" /\ t[k].contact = Wish(t[k].account, Len(happened) + 1)

\* Then what is right about the chats stays so.
LEMMA ChatsKept ==
    ASSUME ActionsInv, NEW x \in ActionEvents, NEW t \in Seq(ActionEvents), Happens(x, t)
    PROVE  happened' \in Seq(ActionEvents) /\ ChatsAreAsked'
<1> DEFINE n == Len(happened)
           m == Len(t)
           N == Len(happened')
<1>1. /\ n \in Nat /\ Len(t) \in Nat /\ N = n + 1 + Len(t)
      /\ happened' \in Seq(ActionEvents) /\ DOMAIN happened' = 1 .. N
      /\ \A j \in 1 .. n : happened'[j] = happened[j]
      /\ happened'[n + 1] = x
      /\ \A k \in 1 .. Len(t) : happened'[(n + 1) + k] = t[k]
  <2>1. happened \in Seq(ActionEvents) /\ Len(happened) \in Nat
    BY ActionsParts
  <2>2. happened' = Append(happened, x) \o t
    BY DEF Happens
  <2> QED
    BY <2>1, <2>2, NotedItems
<1>0. n \in Nat /\ m \in Nat /\ N = n + 1 + m
  BY <1>1
<1>2. \A i \in 1 .. n + 1 : \A a : Wish(a, i)' = Wish(a, i)
  <2>1. happened \in Seq(ActionEvents)
    BY ActionsParts
  <2>2. n <= N
    <3> HIDE DEF n, m, N
    <3> QED
      BY <1>0
  <2> QED
    BY <2>1, <2>2, <1>1, WishStays
<1>3. \A i \in 1 .. n :
         /\ happened[i].what = "up" /\ Wish(happened[i].account, i) # "" =>
              /\ i < n
              /\ happened[i + 1] = Event("chat", happened[i].account,
                                         Wish(happened[i].account, i), "TextChannel")
         /\ happened[i].what = "chat" =>
              /\ i > 1 /\ happened[i - 1].what = "up"
              /\ happened[i].contact = Wish(happened[i].account, i - 1)
  BY ActionsParts DEF ChatsAreAsked
<1>4. ChatsAreAsked' <=>
       \A i \in 1 .. N :
         /\ happened'[i].what = "up" /\ Wish(happened[i].account, i)' # "" =>
              /\ i < N
              /\ happened'[i + 1] = Event("chat", happened'[i].account,
                                          Wish(happened[i].account, i)', "TextChannel")
         /\ happened'[i].what = "chat" =>
              /\ i > 1 /\ happened'[i - 1].what = "up"
              /\ happened'[i].contact = Wish(happened[i].account, i - 1)'
  BY <1>1 DEF ChatsAreAsked, Event
<1> HIDE DEF n, m, N
<1>5. ASSUME NEW i \in 1 .. n
      PROVE  /\ i \in 1 .. n + 1 /\ i < N /\ happened'[i] = happened[i]
             /\ i < n => happened'[i + 1] = happened[i + 1]
             /\ i > 1 => i - 1 \in 1 .. n + 1 /\ happened'[i - 1] = happened[i - 1]
  <2>1. i \in 1 .. n + 1 /\ i < N
    BY <1>0
  <2>2. ASSUME i < n PROVE happened'[i + 1] = happened[i + 1]
    <3>1. i + 1 \in 1 .. n
      BY <1>0, <2>2
    <3> QED
      BY <3>1, <1>1
  <2>3. ASSUME i > 1 PROVE i - 1 \in 1 .. n + 1 /\ happened'[i - 1] = happened[i - 1]
    <3>1. i - 1 \in 1 .. n /\ i - 1 \in 1 .. n + 1
      BY <1>0, <2>3
    <3> QED
      BY <3>1, <1>1
  <2> QED
    BY <2>1, <2>2, <2>3, <1>1
<1> DEFINE Wished(i) ==
             happened'[i].what = "up" /\ Wish(happened[i].account, i)' # "" =>
               /\ i < N
               /\ happened'[i + 1] = Event("chat", happened'[i].account,
                                           Wish(happened[i].account, i)', "TextChannel")
           Asked(i) ==
             happened'[i].what = "chat" =>
               /\ i > 1 /\ happened'[i - 1].what = "up"
               /\ happened'[i].contact = Wish(happened[i].account, i - 1)'
<1>6. ASSUME NEW i \in 1 .. n PROVE Wished(i) /\ Asked(i)
  <2>1. Wish(happened[i].account, i)' = Wish(happened[i].account, i)
    BY <1>2, <1>5
  <2>2. i > 1 => Wish(happened[i].account, i - 1)' = Wish(happened[i].account, i - 1)
    BY <1>2, <1>5
  <2> QED
    BY <2>1, <2>2, <1>3, <1>5
<1>7. ASSUME NEW i, i = n + 1 PROVE Wished(i) /\ Asked(i)
  <2>0. i \in 1 .. n + 1
    BY <1>0, <1>7
  <2>1. happened'[i] = x /\ i \in 1 .. n + 1
    BY <2>0, <1>1, <1>7
  <2>2. Wish(happened[i].account, i)' = Wish(x.account, n + 1)
    BY <1>2, <1>7, <2>1
  <2>3. ASSUME x.what = "up", Wish(x.account, n + 1) # ""
        PROVE  i < N /\ happened'[i + 1] = Event("chat", x.account, Wish(x.account, n + 1), "TextChannel")
    <3>1. Len(t) # 0 /\ t[1] = Event("chat", x.account, Wish(x.account, n + 1), "TextChannel")
      BY <2>3 DEF n, Happens
    <3>0. m # 0
      BY <3>1 DEF m
    <3>2. i < N /\ 1 \in 1 .. m /\ (n + 1) + 1 = i + 1
      BY <3>0, <1>0, <1>7
    <3>3. happened'[i + 1] = t[1]
      BY <3>2, <1>1 DEF m
    <3> QED
      BY <3>1, <3>2, <3>3
  <2>4. x.what # "chat"
    BY DEF Happens
  <2> QED
    BY <2>1, <2>2, <2>3, <2>4
<1>8. ASSUME NEW k \in 1 .. m, NEW i, i = (n + 1) + k PROVE Wished(i) /\ Asked(i)
  <2>1. happened'[i] = t[k] /\ t[k].what \in {"request", "chat"}
    BY <1>1, <1>8 DEF m, Happens
  <2>2. ASSUME t[k].what = "chat" PROVE Asked(i)
    <3>1. k = 1 /\ x.what = "up" /\ t[k].contact = Wish(t[k].account, n + 1)
      BY <2>2 DEF n, m, Happens
    <3>2. i - 1 = n + 1 /\ i > 1 /\ n + 1 \in 1 .. n + 1
      BY <3>1, <1>0, <1>8
    <3>3. Wish(happened[i].account, i - 1)' = Wish(t[k].account, n + 1)
      BY <3>2, <1>2, <2>1
    <3> QED
      BY <3>1, <3>2, <3>3, <2>1, <1>1
  <2> QED
    BY <2>1, <2>2
<1>9. \A i \in 1 .. N : i \in 1 .. n \/ i = n + 1 \/ \E k \in 1 .. m : i = (n + 1) + k
  <2> SUFFICES ASSUME NEW i \in 1 .. N, i \notin 1 .. n, i # n + 1
               PROVE  \E k \in 1 .. m : i = (n + 1) + k
    OBVIOUS
  <2>1. i - (n + 1) \in 1 .. m /\ i = (n + 1) + (i - (n + 1))
    BY <1>0
  <2> QED
    BY <2>1
<1>10. \A i \in 1 .. N : Wished(i) /\ Asked(i)
  <2> HIDE DEF Wished, Asked
  <2> QED
    BY <1>6, <1>7, <1>8, <1>9
<1> QED
  BY <1>1, <1>4, <1>10

\* What is noted stays right too, if the listening and the contact change with the event.
LEMMA HappensKept ==
    ASSUME ActionsInv, NEW x \in ActionEvents, NEW t \in Seq(ActionEvents), Happens(x, t),
           menu' \subseteq MenuEntries, listening' \in [ActionAccounts -> Nat],
           contactIdProperty' \in [ActionAccounts -> PersonNames],
           \A a \in ActionAccounts :
             /\ x \in Decisive(a) => /\ listening'[a] = 0 => x \in Ups(a)
                                     /\ listening'[a] # 0 => x \in AsksFor(a, contactIdProperty'[a])
             /\ x \notin Decisive(a) => /\ listening'[a] = listening[a]
                                        /\ contactIdProperty'[a] = contactIdProperty[a]
    PROVE  ActionsInv'
<1>1. happened' \in Seq(ActionEvents) /\ ChatsAreAsked'
  BY ChatsKept
<1>2. ASSUME NEW a \in ActionAccounts
      PROVE  Noted(a, happened', listening'[a], contactIdProperty'[a])
  <2>1. ~Has(t, Decisive(a))
    BY DEF Happens, Has, Decisive, AskedToConnect
  <2>2. Noted(a, happened, listening[a], contactIdProperty[a]) /\ happened \in Seq(ActionEvents)
    BY ActionsParts
  <2>3. happened' = Append(happened, x) \o t
    BY DEF Happens
  <2> DEFINE heardThen == listening'[a]
             then == contactIdProperty'[a]
  <2>4. /\ x \in Decisive(a) => /\ heardThen = 0 => x \in Ups(a)
                                /\ heardThen # 0 => x \in AsksFor(a, then)
        /\ x \notin Decisive(a) => heardThen = listening[a] /\ then = contactIdProperty[a]
    OBVIOUS
  <2> HIDE DEF heardThen, then
  <2>5. Noted(a, Append(happened, x) \o t, heardThen, then)
    BY <2>1, <2>2, <2>4, NotedKept
  <2> QED
    BY <2>3, <2>5 DEF heardThen, then
<1> QED
  BY <1>1, <1>2 DEF ActionsInv

\* A step without an event keeps all.
LEMMA NothingHappens ==
    ASSUME ActionsInv, menu' \subseteq MenuEntries,
           UNCHANGED <<contactIdProperty, listening, happened>>
    PROVE  ActionsInv'
<1>1. /\ happened \in Seq(ActionEvents) /\ Len(happened) \in Nat /\ happened' = happened
      /\ DOMAIN happened = 1 .. Len(happened) /\ ChatsAreAsked
  BY ActionsParts
<1>2. \A i \in 1 .. Len(happened) + 1 : \A a : Wish(a, i)' = Wish(a, i)
  BY <1>1, WishStays
<1>3. \A i \in 1 .. Len(happened) :
         /\ i \in 1 .. Len(happened) + 1
         /\ i > 1 => i - 1 \in 1 .. Len(happened) + 1
  BY <1>1
<1>4. ChatsAreAsked'
  BY <1>1, <1>2, <1>3 DEF ChatsAreAsked, Event
<1> QED
  BY <1>4 DEF ActionsInv

LEMMA RequestsOfEntry ==
    ASSUME NEW entry \in MenuEntries,
           NEW chosen \in {<<>>} \cup {<<f>> : f \in Files} \cup SetToSeqs(Files)
    PROVE  /\ Requests(entry, chosen) \in Seq(ActionEvents)
           /\ \A k \in 1 .. Len(Requests(entry, chosen)) : Requests(entry, chosen)[k].what = "request"
<1> DEFINE u == entry.address
           Asked == {e \in ActionEvents : e.what = "request"}
<1>1. u \in Addresses /\ u.account \in ActionAccounts /\ u.contact \in PersonNames /\ entry.type \in Tasks
  BY AddressParts DEF MenuEntries
<1>2. \A type \in Tasks \cup FileNames : Request(u, type) \in Asked
  BY <1>1 DEF Request, Event, ActionEvents
<1>3. \E n \in Nat : chosen \in [1 .. n -> Files]
  <2>1. CASE chosen = <<>>
    <3>1. chosen \in [1 .. 0 -> Files]
      BY <2>1
    <3> QED
      BY <3>1
  <2>2. CASE \E f \in Files : chosen = <<f>>
    <3>1. chosen \in [1 .. 1 -> Files]
      BY <2>2
    <3> QED
      BY <3>1
  <2>3. CASE chosen \in SetToSeqs(Files)
    <3>1. Cardinality(Files) \in Nat
      BY ActionsAssumption, FS_CardinalityType
    <3> QED
      BY <2>3, <3>1 DEF SetToSeqs
  <2> QED
    BY <2>1, <2>2, <2>3
<1> HIDE DEF Asked
<1>4. CASE entry.type = "FileTransfer"
  <2>1. PICK n \in Nat : chosen \in [1 .. n -> Files]
    BY <1>3
  <2>2. \A i \in 1 .. n : startFileTransfer(u, chosen[i]) \in Asked
    BY <2>1, <1>1, <1>2 DEF startFileTransfer, FileNames
  <2>3. Requests(entry, chosen) = [i \in 1 .. n |-> startFileTransfer(u, chosen[i])]
    BY <2>1, <1>4 DEF Requests
  <2>4. Requests(entry, chosen) \in [1 .. n -> Asked]
    BY <2>2, <2>3
  <2>5. Requests(entry, chosen) \in Seq(Asked)
    BY <2>4, SeqDef
  <2> QED
    BY <2>5, ElementOfSeq, LenProperties DEF Asked
<1>5. CASE entry.type # "FileTransfer"
  <2>1. PICK type \in Tasks : Requests(entry, chosen) = <<Request(u, type)>>
    BY <1>1, <1>5 DEF Requests, Tasks, startChatWith, startAudioCall, startAudioVideoCall,
                      startCollaborativeEditing
  <2>2. Request(u, type) \in Asked
    BY <1>2
  <2> DEFINE r == Request(u, type)
  <2> HIDE DEF r
  <2>3. r \in Asked
    BY <2>2 DEF r
  <2>4. <<r>> \in Seq(Asked)
    BY <2>3
  <2>5. Requests(entry, chosen) \in Seq(Asked)
    BY <2>1, <2>4 DEF r
  <2> QED
    BY <2>5, ElementOfSeq, LenProperties DEF Asked
<1> QED
  BY <1>4, <1>5

LEMMA ClickKept ==
    ASSUME ActionsInv, NEW entry \in menu,
           NEW chosen \in {<<>>} \cup {<<f>> : f \in Files} \cup SetToSeqs(Files),
           onActionTriggered(entry, chosen)
    PROVE  ActionsInv'
<1> DEFINE u == entry.address
           x == Event("click", u.account, u.contact, entry.type)
           t == Requests(entry, chosen)
<1>0. /\ happened' = Append(happened, x) \o t /\ menu' = {}
      /\ UNCHANGED <<contactIdProperty, listening>>
  BY DEF onActionTriggered
<1>1. entry \in MenuEntries
  BY ActionsParts
<1>2. t \in Seq(ActionEvents) /\ \A k \in 1 .. Len(t) : t[k].what = "request"
  BY <1>1, RequestsOfEntry
<1>3. /\ x \in ActionEvents /\ x.what = "click" /\ \A a : x \notin Decisive(a)
  <2>1. u.account \in ActionAccounts /\ u.contact \in PersonNames /\ entry.type \in Tasks
    BY <1>1, AddressParts DEF MenuEntries
  <2>2. x \in ActionEvents /\ x.what = "click" /\ x.type = entry.type
    BY <2>1 DEF Event, ActionEvents
  <2> HIDE DEF x
  <2> QED
    BY <2>1, <2>2 DEF Decisive, AskedToConnect, Tasks
<1> HIDE DEF x, t
<1>4. Happens(x, t)
  BY <1>0, <1>2, <1>3 DEF Happens
<1>5. /\ listening \in [ActionAccounts -> Nat] /\ contactIdProperty \in [ActionAccounts -> PersonNames]
  BY ActionsParts
<1>6. /\ menu' \subseteq MenuEntries /\ listening' \in [ActionAccounts -> Nat]
      /\ contactIdProperty' \in [ActionAccounts -> PersonNames]
      /\ \A a \in ActionAccounts : /\ listening'[a] = listening[a]
                                   /\ contactIdProperty'[a] = contactIdProperty[a]
  BY <1>0, <1>5
<1> QED
  BY <1>2, <1>3, <1>4, <1>6, HappensKept

LEMMA AskKept ==
    ASSUME ActionsInv, NEW entry \in menu, onConnectAndActionTriggered(entry) PROVE ActionsInv'
<1> DEFINE u == entry.address
           x == Event("click", u.account, u.contact, "connect")
<1>0. /\ contactIdProperty' = [contactIdProperty EXCEPT ![u.account] = u.contact]
      /\ listening' = [listening EXCEPT ![u.account] = @ + 1]
      /\ happened' = Append(happened, x) /\ menu' = {}
  BY DEF onConnectAndActionTriggered
<1>1. u.account \in ActionAccounts /\ u.contact \in PersonNames
  BY ActionsParts, AddressParts DEF MenuEntries
<1>2. /\ x \in ActionEvents /\ x.what = "click" /\ x.account = u.account
      /\ x.contact = u.contact /\ AskedToConnect(x)
  BY <1>1 DEF Event, ActionEvents, AskedToConnect
<1> HIDE DEF x
<1>3. \A a : /\ x \in Decisive(a) => a = u.account /\ x \in AsksFor(a, u.contact)
             /\ x \notin Decisive(a) => a # u.account
  BY <1>2 DEF Decisive, AsksFor
<1>4. /\ happened \in Seq(ActionEvents) /\ listening \in [ActionAccounts -> Nat]
      /\ contactIdProperty \in [ActionAccounts -> PersonNames]
  BY ActionsParts
<1>5. Happens(x, <<>>)
  <2>1. Append(happened, x) \in Seq(ActionEvents)
    BY <1>2, <1>4, AppendProperties
  <2>2. happened' = Append(happened, x) \o <<>>
    BY <2>1, <1>0, ConcatEmptySeq
  <2> QED
    BY <2>2, <1>2 DEF Happens
<1>6. listening' \in [ActionAccounts -> Nat] /\ contactIdProperty' \in [ActionAccounts -> PersonNames]
  BY <1>0, <1>1, <1>4
<1>7. ASSUME NEW a \in ActionAccounts
      PROVE  /\ x \in Decisive(a) => /\ listening'[a] = 0 => x \in Ups(a)
                                     /\ listening'[a] # 0 => x \in AsksFor(a, contactIdProperty'[a])
             /\ x \notin Decisive(a) => /\ listening'[a] = listening[a]
                                        /\ contactIdProperty'[a] = contactIdProperty[a]
  <2>1. CASE a = u.account
    <3>1. listening[a] \in Nat /\ listening'[a] = listening[a] + 1 /\ contactIdProperty'[a] = u.contact
      BY <2>1, <1>0, <1>1, <1>4
    <3>2. listening'[a] # 0
      BY <3>1
    <3> QED
      BY <2>1, <3>1, <3>2, <1>3
  <2>2. CASE a # u.account
    BY <2>2, <1>0, <1>3, <1>4
  <2> QED
    BY <2>1, <2>2
<1>8. <<>> \in Seq(ActionEvents) /\ menu' \subseteq MenuEntries
  BY <1>0
<1> QED
  BY <1>2, <1>5, <1>6, <1>7, <1>8, HappensKept

\* Whether the plugin listens says whether the account has a wish, and which.
LEMMA WishIsNoted ==
    ASSUME ActionsInv, NEW a \in ActionAccounts
    PROVE  Wish(a, Len(happened) + 1) = IF listening[a] = 0 THEN "" ELSE contactIdProperty[a]
<1>1. Noted(a, happened, listening[a], contactIdProperty[a]) /\ happened \in Seq(ActionEvents)
  BY ActionsParts
<1>2. CASE listening[a] = 0
  <2>1. LastIn(happened, Decisive(a), Ups(a))
    BY <1>1, <1>2 DEF Noted
  <2>2. \/ Wish(a, Len(happened) + 1) = ""
        \/ \E e \in Ups(a) : Wish(a, Len(happened) + 1) = e.contact
    BY <2>1, <1>1, LastWish
  <2>3. \A e \in Ups(a) : e.contact = ""
    BY DEF Ups
  <2> QED
    BY <2>2, <2>3, <1>2
<1>3. CASE listening[a] # 0
  <2>1. /\ Has(happened, Decisive(a))
        /\ LastIn(happened, Decisive(a), AsksFor(a, contactIdProperty[a]))
    BY <1>1, <1>3 DEF Noted
  <2>2. \E e \in AsksFor(a, contactIdProperty[a]) : Wish(a, Len(happened) + 1) = e.contact
    BY <2>1, <1>1, LastWish
  <2>3. \A e \in AsksFor(a, contactIdProperty[a]) : e.contact = contactIdProperty[a]
    BY DEF AsksFor
  <2> QED
    BY <2>2, <2>3, <1>3
<1> QED
  BY <1>2, <1>3

LEMMA ComesUpKept ==
    ASSUME ActionsInv, NEW a \in ActionAccounts, onConnected(a), UNCHANGED <<menu, contactIdProperty>>
    PROVE  ActionsInv'
<1> DEFINE x == Event("up", a, "", "")
           chat == Event("chat", a, contactIdProperty[a], "TextChannel")
           t == IF listening[a] = 0 THEN <<>> ELSE <<chat>>
<1>0. happened' = Append(happened, x) \o t /\ listening' = [listening EXCEPT ![a] = 0]
  BY DEF onConnected
<1>1. /\ menu \subseteq MenuEntries /\ listening \in [ActionAccounts -> Nat]
      /\ contactIdProperty \in [ActionAccounts -> PersonNames]
  BY ActionsParts
<1>2. /\ x \in ActionEvents /\ x.what = "up" /\ x.account = a /\ x.contact = ""
  BY DEF Event, ActionEvents, PersonNames
<1>3. /\ chat \in ActionEvents /\ chat.what = "chat" /\ chat.account = a
      /\ chat.contact = contactIdProperty[a]
  BY <1>1 DEF Event, ActionEvents, Tasks
<1>4. listening[a] # 0 => chat = Event("chat", a, Wish(a, Len(happened) + 1), "TextChannel")
  BY WishIsNoted
<1>5. listening[a] = 0 => Wish(a, Len(happened) + 1) = ""
  BY WishIsNoted
<1>6. listening[a] # 0 => chat.contact = Wish(a, Len(happened) + 1)
  BY <1>3, WishIsNoted
<1> HIDE DEF x, chat
<1>7. /\ t \in Seq(ActionEvents)
      /\ listening[a] = 0 => Len(t) = 0
      /\ listening[a] # 0 => Len(t) = 1 /\ t[1] = chat
  BY <1>3
<1> HIDE DEF t
<1>8. Happens(x, t)
  <2> DEFINE silent == listening[a] = 0
  <2>0. /\ silent => Len(t) = 0
        /\ ~silent => Len(t) = 1 /\ t[1] = chat
    BY <1>7
  <2>a. silent => Wish(a, Len(happened) + 1) = ""
    BY <1>5
  <2>b. ~silent => chat = Event("chat", a, Wish(a, Len(happened) + 1), "TextChannel")
    BY <1>4
  <2>c. ~silent => chat.contact = Wish(a, Len(happened) + 1)
    BY <1>6
  <2> HIDE DEF silent
  <2>1. \A k \in 1 .. Len(t) : ~silent /\ k = 1 /\ t[k] = chat
    <3> SUFFICES ASSUME NEW k \in 1 .. Len(t) PROVE ~silent /\ k = 1 /\ t[k] = chat
      OBVIOUS
    <3>1. ~silent
      <4>1. Len(t) # 0
        OBVIOUS
      <4> QED
        BY <4>1, <2>0
    <3>2. Len(t) = 1 /\ t[1] = chat
      BY <3>1, <2>0
    <3>3. k = 1
      BY <3>2
    <3> QED
      BY <3>1, <3>2, <3>3
  <2>2. ASSUME Wish(a, Len(happened) + 1) # ""
        PROVE  Len(t) # 0 /\ t[1] = Event("chat", a, Wish(a, Len(happened) + 1), "TextChannel")
    <3>1. ~silent
      BY <2>2, <2>a
    <3> QED
      BY <3>1, <2>0, <2>b
  <2> QED
    BY <2>1, <2>2, <2>c, <1>0, <1>2, <1>3 DEF Happens
<1>9. listening' \in [ActionAccounts -> Nat]
  BY <1>0, <1>1
<1>10. ASSUME NEW b \in ActionAccounts
       PROVE  /\ x \in Decisive(b) => /\ listening'[b] = 0 => x \in Ups(b)
                                      /\ listening'[b] # 0 => x \in AsksFor(b, contactIdProperty'[b])
              /\ x \notin Decisive(b) => /\ listening'[b] = listening[b]
                                         /\ contactIdProperty'[b] = contactIdProperty[b]
  <2>1. CASE b = a
    <3>1. x \in Decisive(b) /\ x \in Ups(b)
      BY <2>1, <1>2 DEF Decisive, Ups
    <3> QED
      BY <3>1, <2>1, <1>0, <1>1
  <2>2. CASE b # a
    <3>1. x \notin Decisive(b)
      BY <2>2, <1>2 DEF Decisive
    <3> QED
      BY <3>1, <2>2, <1>0, <1>1
  <2> QED
    BY <2>1, <2>2
<1> QED
  BY <1>1, <1>2, <1>7, <1>8, <1>9, <1>10, HappensKept

LEMMA NextActionsInv == ActionsInv /\ [ActionsNext]_actionVars => ActionsInv'
<1> SUFFICES ASSUME ActionsInv, [ActionsNext]_actionVars PROVE ActionsInv'
  OBVIOUS
<1>0. menu \subseteq MenuEntries
  BY ActionsParts
<1>1. CASE actionsForPerson
  <2>1. \A u \in Addresses : EntriesOf(u) \subseteq MenuEntries
    <3> SUFFICES ASSUME NEW u \in Addresses, NEW entry \in EntriesOf(u) PROVE entry \in MenuEntries
      OBVIOUS
    <3>1. CASE entry \in KnownEntries(u)
      <4>1. PICK type \in Tasks : entry = MenuEntry(u, type, FALSE)
        BY <3>1 DEF KnownEntries
      <4> QED
        BY <4>1 DEF MenuEntry, MenuEntries
    <3>2. CASE entry = MenuEntry(u, "TextChannel", TRUE)
      BY <3>2 DEF MenuEntry, MenuEntries, Tasks
    <3> QED
      BY <3>1, <3>2 DEF EntriesOf
  <2>2. menu' \subseteq MenuEntries
    BY <2>1, <1>1 DEF actionsForPerson
  <2> QED
    BY <2>2, <1>1, NothingHappens DEF actionsForPerson
<1>2. ASSUME NEW a \in ActionAccounts, ConnectionChanges(a) PROVE ActionsInv'
  <2>1. UNCHANGED <<menu, contactIdProperty>>
    BY <1>2 DEF ConnectionChanges
  <2>2. onConnected(a) \/ UNCHANGED <<listening, happened>>
    BY <1>2 DEF ConnectionChanges, StatusChanges
  <2> QED
    BY <2>1, <2>2, <1>0, ComesUpKept, NothingHappens
<1>3. ASSUME NEW a \in ActionAccounts, PresenceFollows(a) \/ RosterLoads(a) PROVE ActionsInv'
  BY <1>0, <1>3, NothingHappens DEF PresenceFollows, RosterLoads
<1>4. CASE UNCHANGED actionVars
  BY <1>0, <1>4, NothingHappens DEF actionVars
<1> QED
  BY <1>1, <1>2, <1>3, <1>4, ClickKept, AskKept DEF ActionsNext

\* Whoever asks to be connected to a contact gets the one chat when the account is up,
\* with the contact asked for last, and nobody else gets one, whatever addresses a person
\* has and however often accounts come and go between the clicks (onConnectAndActionTriggered,
\* onAccountConnectionStatusChanged).
THEOREM ChatsStayAsked == ActionsInit /\ [][ActionsNext]_actionVars => []ChatsAreAsked
<1>1. ActionsInit => ActionsInv
  <2> SUFFICES ASSUME ActionsInit PROVE ActionsInv
    OBVIOUS
  <2>1. /\ happened = <<>> /\ menu = {}
        /\ contactIdProperty = [a \in ActionAccounts |-> ""]
        /\ listening = [a \in ActionAccounts |-> 0]
    BY DEF ActionsInit
  <2>2. happened \in Seq(ActionEvents) /\ Len(happened) = 0
    BY <2>1, EmptySeq
  <2>5. DOMAIN happened = {} /\ 1 .. Len(happened) = {}
    <3>1. DOMAIN happened = 1 .. Len(happened)
      BY <2>2, LenProperties
    <3>2. 1 .. 0 = {}
      OBVIOUS
    <3> QED
      BY <3>1, <3>2, <2>2
  <2>3. \A a \in ActionAccounts : Noted(a, happened, listening[a], contactIdProperty[a])
    BY <2>1, <2>5 DEF Noted, LastIn
  <2>4. ChatsAreAsked
    BY <2>5 DEF ChatsAreAsked
  <2> QED
    BY <2>1, <2>2, <2>3, <2>4 DEF ActionsInv, PersonNames
<1>2. ActionsInv => ChatsAreAsked
  BY DEF ActionsInv
<1> QED
  BY <1>1, <1>2, NextActionsInv, PTL

=============================================================================
