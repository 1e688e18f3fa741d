--------------------------- MODULE SequenceItems ---------------------------
(* Items of a set S in a sequence: whether there is one, at most one, what   *)
(* the first and the last of them are like, and what follows each of them;   *)
(* and how sequences that serve as queues keep these.  Before them, facts    *)
(* about numbers, and what functions defined by recursion on them rest on.   *)
EXTENDS Integers, Sequences, SequenceTheorems, WellFoundedInduction, TLAPS

\* A set of numbers that is not empty has a least one.
LEMMA LeastNumber ==
    ASSUME NEW S \in SUBSET Nat, S # {} PROVE \E x \in S : \A y \in S : x <= y
<1>1. IsWellFoundedOn({ss \in Nat \X Nat : ss[1] < ss[2]}, Nat)
  BY NatLessThanWellFounded DEF OpToRel
<1>2. PICK x \in S : \A y \in S : <<y, x>> \notin {ss \in Nat \X Nat : ss[1] < ss[2]}
  BY <1>1, WFMin
<1>3. \A y \in S : x <= y
  <2> SUFFICES ASSUME NEW y \in S PROVE x <= y
    OBVIOUS
  <2>1. <<y, x>> \notin {ss \in Nat \X Nat : ss[1] < ss[2]}
    BY <1>2
  <2>2. <<y, x>> \in Nat \X Nat /\ <<y, x>>[1] = y /\ <<y, x>>[2] = x
    OBVIOUS
  <2>3. ~(y < x)
    BY <2>1, <2>2
  <2>4. y \in Nat /\ x \in Nat
    OBVIOUS
  <2> QED
    BY <2>3, <2>4
<1> QED
  BY <1>3

\* Induction: a set of numbers that has 0 and the successor of each has all numbers.
LEMMA AllNumbers ==
    ASSUME NEW S, 0 \in S, \A n \in Nat : n \in S => n + 1 \in S
    PROVE  \A n \in Nat : n \in S
<1> SUFFICES ASSUME Nat \ S # {} PROVE FALSE
  OBVIOUS
<1>1. PICK x \in Nat \ S : \A y \in Nat \ S : x <= y
  BY LeastNumber
<1>2. x # 0 /\ x \in Nat
  OBVIOUS
<1>3. x - 1 \in Nat /\ (x - 1) + 1 = x /\ ~(x <= x - 1)
  BY <1>2
<1>4. x - 1 \in S
  BY <1>1, <1>3
<1> QED
  BY <1>3, <1>4

\* The values of n steps from base.
StepByStep(g, A, base, n, step) ==
    /\ g \in [0 .. n -> A] /\ g[0] = base
    /\ \A i \in 1 .. n : g[i] = step[<<i, g[i - 1]>>]

\* What is defined step by step, from a value of A, exists.
LEMMA StepsExist ==
    ASSUME NEW A, NEW base \in A, NEW n \in Nat, NEW step \in [(1 .. n) \X A -> A]
    PROVE  \E g : StepByStep(g, A, base, n, step)
<1> DEFINE S == {k \in Nat : k <= n => \E g : StepByStep(g, A, base, k, step)}
<1>1. 0 \in S
  <2> DEFINE g == [i \in 0 .. 0 |-> base]
  <2>1. StepByStep(g, A, base, 0, step)
    BY DEF StepByStep
  <2> QED
    BY <2>1
<1>2. ASSUME NEW k \in Nat, k \in S PROVE k + 1 \in S
  <2> SUFFICES ASSUME k + 1 <= n PROVE \E g : StepByStep(g, A, base, k + 1, step)
    OBVIOUS
  <2>1. PICK g : StepByStep(g, A, base, k, step)
    BY <1>2
  <2> DEFINE h == [i \in 0 .. k + 1 |-> IF i = k + 1 THEN step[<<k + 1, g[k]>>] ELSE g[i]]
  <2>2. g[k] \in A /\ k + 1 \in 1 .. n
    BY <2>1 DEF StepByStep
  <2>3. step[<<k + 1, g[k]>>] \in A
    BY <2>2
  <2>4. h \in [0 .. k + 1 -> A]
    BY <2>1, <2>3 DEF StepByStep
  <2>5. h[0] = base /\ h[k + 1] = step[<<k + 1, g[k]>>]
    BY <2>1 DEF StepByStep
  <2>6. \A i \in 0 .. k : h[i] = g[i]
    OBVIOUS
  <2>7. \A i \in 1 .. k + 1 : i = k + 1 \/ i \in 1 .. k
    OBVIOUS
  <2>8. \A i \in 1 .. k : i \in 0 .. k /\ i - 1 \in 0 .. k
    OBVIOUS
  <2> HIDE DEF h
  <2>9. \A i \in 1 .. k + 1 : h[i] = step[<<i, h[i - 1]>>]
    <3> TAKE i \in 1 .. k + 1
    <3>1. CASE i = k + 1
      <4>1. i - 1 = k /\ k \in 0 .. k
        BY <3>1
      <4> QED
        BY <2>5, <2>6, <3>1, <4>1
    <3>2. CASE i \in 1 .. k
      <4>1. h[i] = g[i] /\ h[i - 1] = g[i - 1]
        BY <2>6, <2>8, <3>2
      <4>2. g[i] = step[<<i, g[i - 1]>>]
        BY <2>1, <3>2 DEF StepByStep
      <4> QED
        BY <4>1, <4>2
    <3> QED
      BY <2>7, <3>1, <3>2
  <2> QED
    BY <2>4, <2>5, <2>9 DEF StepByStep
<1>3. n \in S
  <2> HIDE DEF S
  <2> QED
    BY <1>1, <1>2, AllNumbers
<1> QED
  BY <1>3

\* A function on the first numbers is a sequence.
LEMMA SeqOfItems ==
    ASSUME NEW A, NEW n \in Nat, NEW f \in [1 .. n -> A] PROVE f \in Seq(A) /\ Len(f) = n
<1>1. f \in Seq(A)
  BY SeqDef
<1>2. Len(f) \in Nat /\ DOMAIN f = 1 .. Len(f) /\ DOMAIN f = 1 .. n
  BY <1>1, LenProperties
<1> QED
  BY <1>1, <1>2

\* A list with an element more.
WithItem(s, n, x) == SubSeq(s, 1, n) \o <<x>> \o SubSeq(s, n + 1, Len(s))

LEMMA InsertedItems ==
    ASSUME NEW A, NEW s \in Seq(A), NEW x \in A, NEW n \in 0 .. Len(s)
    PROVE  /\ WithItem(s, n, x) \in Seq(A) /\ Len(WithItem(s, n, x)) = Len(s) + 1
           /\ \A i \in 1 .. Len(s) + 1 :
                WithItem(s, n, x)[i] = IF i <= n THEN s[i] ELSE IF i = n + 1 THEN x ELSE s[i - 1]
<1> DEFINE a == SubSeq(s, 1, n)
           b == SubSeq(s, n + 1, Len(s))
           c == a \o <<x>>
           t == c \o b
<1>1. Len(s) \in Nat /\ n \in Nat /\ n <= Len(s)
  BY LenProperties
<1>2. a \in Seq(A) /\ Len(a) = n /\ \A i \in 1 .. n : a[i] = s[i]
  BY <1>1, SubSeqProperties
<1>3. b \in Seq(A) /\ Len(b) = Len(s) - n /\ \A i \in 1 .. Len(s) - n : b[i] = s[n + i]
  BY <1>1, SubSeqProperties
<1> HIDE DEF a, b
<1>4. <<x>> \in Seq(A) /\ Len(<<x>>) = 1 /\ <<x>>[1] = x
  OBVIOUS
<1>5. /\ c \in Seq(A) /\ Len(c) = n + 1
      /\ \A i \in 1 .. n + 1 : c[i] = IF i <= n THEN a[i] ELSE <<x>>[i - n]
  BY <1>1, <1>2, <1>4, ConcatProperties
<1> HIDE DEF c
<1>6. /\ t \in Seq(A) /\ Len(t) = Len(c) + Len(b)
      /\ \A i \in 1 .. Len(c) + Len(b) : t[i] = IF i <= Len(c) THEN c[i] ELSE b[i - Len(c)]
  BY <1>3, <1>5, ConcatProperties
<1> HIDE DEF t
<1>7. Len(t) = Len(s) + 1 /\ Len(c) + Len(b) = Len(s) + 1
  BY <1>1, <1>3, <1>5, <1>6
<1>8. ASSUME NEW i \in 1 .. Len(s) + 1
      PROVE  t[i] = IF i <= n THEN s[i] ELSE IF i = n + 1 THEN x ELSE s[i - 1]
  <2>1. t[i] = IF i <= n + 1 THEN c[i] ELSE b[i - (n + 1)]
    BY <1>5, <1>6, <1>7
  <2>2. CASE i <= n
    BY <1>1, <1>2, <1>5, <2>1, <2>2
  <2>3. CASE i = n + 1
    <3>1. c[i] = <<x>>[i - n] /\ i - n = 1 /\ ~(i <= n) /\ i <= n + 1
      BY <1>1, <1>5, <2>3
    <3>2. c[i] = x
      BY <1>4, <3>1
    <3> QED
      BY <2>1, <2>3, <3>1, <3>2
  <2>4. CASE i > n + 1
    <3>1. i - (n + 1) \in 1 .. Len(s) - n /\ n + (i - (n + 1)) = i - 1
      BY <1>1, <2>4
    <3>2. b[i - (n + 1)] = s[i - 1]
      BY <1>3, <3>1
    <3> QED
      BY <1>1, <2>1, <2>4, <3>2
  <2> QED
    BY <1>1, <2>2, <2>3, <2>4
<1> QED
  BY <1>6, <1>7, <1>8 DEF a, b, c, t, WithItem

\* There is an item of S; there is at most one; the first, or the last, if any, is in T;
\* each has an item of T after it.
Has(s, S) == \E k \in 1 .. Len(s) : s[k] \in S
Once(s, S) == \A j, k \in 1 .. Len(s) : s[j] \in S /\ s[k] \in S => j = k
FirstIn(s, S, T) ==
    \A k \in 1 .. Len(s) : s[k] \in S /\ (\A j \in 1 .. Len(s) : j < k => s[j] \notin S) => s[k] \in T
LastIn(s, S, T) ==
    \A k \in 1 .. Len(s) : s[k] \in S /\ (\A j \in 1 .. Len(s) : k < j => s[j] \notin S) => s[k] \in T
FollowedBy(s, S, T) ==
    \A k \in 1 .. Len(s) : s[k] \in S => \E j \in 1 .. Len(s) : k < j /\ s[j] \in T

\* An item is in a longer sequence if it was there or is the new one.
LEMMA HasAppend ==
    ASSUME NEW A, NEW s \in Seq(A), NEW x \in A, NEW S
    PROVE  Append(s, x) \in Seq(A) /\ (Has(Append(s, x), S) <=> Has(s, S) \/ x \in S)
<1>1. /\ Len(s) \in Nat /\ Len(Append(s, x)) = Len(s) + 1
      /\ \A i \in 1 .. Len(s) : Append(s, x)[i] = s[i]
      /\ Append(s, x)[Len(s) + 1] = x /\ Append(s, x) \in Seq(A)
  BY AppendProperties
<1> QED
  BY <1>1 DEF Has

\* What is in a sequence is its head or is in its tail.
LEMMA HasTail ==
    ASSUME NEW A, NEW s \in Seq(A), s # <<>>, NEW S
    PROVE  /\ Tail(s) \in Seq(A) /\ Head(s) \in A
           /\ Has(s, S) <=> Head(s) \in S \/ Has(Tail(s), S)
<1>1. /\ Len(s) \in Nat /\ Len(s) # 0 /\ Len(Tail(s)) = Len(s) - 1 /\ Head(s) = s[1]
      /\ \A i \in 1 .. Len(Tail(s)) : Tail(s)[i] = s[i + 1]
      /\ Tail(s) \in Seq(A) /\ Head(s) \in A
  BY HeadTailProperties
<1>2. ASSUME Has(s, S), Head(s) \notin S PROVE Has(Tail(s), S)
  <2>1. PICK k \in 1 .. Len(s) : s[k] \in S
    BY <1>2 DEF Has
  <2>2. k - 1 \in 1 .. Len(Tail(s)) /\ (k - 1) + 1 = k
    BY <1>1, <1>2, <2>1
  <2> QED
    BY <1>1, <2>1, <2>2 DEF Has
<1> QED
  BY <1>1, <1>2 DEF Has

\* What is in a concatenation is in one of its parts.
LEMMA HasConcat ==
    ASSUME NEW A, NEW s \in Seq(A), NEW t \in Seq(A), NEW S
    PROVE  s \o t \in Seq(A) /\ (Has(s \o t, S) <=> Has(s, S) \/ Has(t, S))
<1>1. /\ Len(s) \in Nat /\ Len(t) \in Nat /\ Len(s \o t) = Len(s) + Len(t) /\ s \o t \in Seq(A)
      /\ \A i \in 1 .. Len(s) + Len(t) :
            (s \o t)[i] = IF i <= Len(s) THEN s[i] ELSE t[i - Len(s)]
  BY ConcatProperties
<1>2. ASSUME Has(t, S) PROVE Has(s \o t, S)
  <2>1. PICK k \in 1 .. Len(t) : t[k] \in S
    BY <1>2 DEF Has
  <2>2. k + Len(s) \in 1 .. Len(s) + Len(t) /\ ~(k + Len(s) <= Len(s)) /\ (k + Len(s)) - Len(s) = k
    BY <1>1
  <2> QED
    BY <1>1, <2>1, <2>2 DEF Has
<1>3. ASSUME Has(s, S) PROVE Has(s \o t, S)
  BY <1>1, <1>3 DEF Has
<1>4. ASSUME Has(s \o t, S) PROVE Has(s, S) \/ Has(t, S)
  <2>1. PICK k \in 1 .. Len(s) + Len(t) : (s \o t)[k] \in S
    BY <1>1, <1>4 DEF Has
  <2>2. CASE k <= Len(s)
    BY <1>1, <2>1, <2>2 DEF Has
  <2>3. CASE ~(k <= Len(s))
    BY <1>1, <2>1, <2>3 DEF Has
  <2> QED
    BY <2>2, <2>3
<1> QED
  BY <1>1, <1>2, <1>3, <1>4

\* The item is still the only one if the sequence had none, or the new one is none.
LEMMA OnceAppend ==
    ASSUME NEW A, NEW s \in Seq(A), NEW x \in A, NEW S, Once(s, S), x \in S => ~Has(s, S)
    PROVE  Once(Append(s, x), S)
<1>1. /\ Len(s) \in Nat /\ Len(Append(s, x)) = Len(s) + 1
      /\ \A i \in 1 .. Len(s) : Append(s, x)[i] = s[i]
      /\ Append(s, x)[Len(s) + 1] = x
  BY AppendProperties
<1> QED
  BY <1>1 DEF Once, Has

\* A tail has at most one too, and none if the head was the one.
LEMMA OnceTail ==
    ASSUME NEW A, NEW s \in Seq(A), s # <<>>, NEW S, Once(s, S)
    PROVE  Once(Tail(s), S) /\ (Head(s) \in S => ~Has(Tail(s), S))
<1>1. /\ Len(s) \in Nat /\ Len(s) # 0 /\ Len(Tail(s)) = Len(s) - 1 /\ Head(s) = s[1]
      /\ \A i \in 1 .. Len(Tail(s)) : Tail(s)[i] = s[i + 1]
  BY HeadTailProperties
<1> QED
  BY <1>1 DEF Once, Has

\* What is concatenated without any leaves the one.
LEMMA OnceConcat ==
    ASSUME NEW A, NEW s \in Seq(A), NEW t \in Seq(A), NEW S, Once(s, S), ~Has(t, S)
    PROVE  Once(s \o t, S)
<1>1. /\ Len(s) \in Nat /\ Len(t) \in Nat /\ Len(s \o t) = Len(s) + Len(t)
      /\ \A i \in 1 .. Len(s) + Len(t) :
            (s \o t)[i] = IF i <= Len(s) THEN s[i] ELSE t[i - Len(s)]
  BY ConcatProperties
<1>2. \A i \in 1 .. Len(s) + Len(t) : (s \o t)[i] \in S => i <= Len(s) /\ s[i] \in S
  BY <1>1 DEF Has
<1> QED
  BY <1>1, <1>2 DEF Once

\* The first item of S is in T, whatever is appended: only a sequence without one gets
\* another first.
LEMMA FirstAppend ==
    ASSUME NEW A, NEW s \in Seq(A), NEW x \in A, NEW S, NEW T, FirstIn(s, S, T),
           x \in S => Has(s, S) \/ x \in T
    PROVE  FirstIn(Append(s, x), S, T)
<1>1. /\ Len(s) \in Nat /\ Len(Append(s, x)) = Len(s) + 1
      /\ \A i \in 1 .. Len(s) : Append(s, x)[i] = s[i]
      /\ Append(s, x)[Len(s) + 1] = x
  BY AppendProperties
<1> QED
  BY <1>1 DEF FirstIn, Has

\* The first item stays the first until it is the head that is taken.
LEMMA FirstTail ==
    ASSUME NEW A, NEW s \in Seq(A), s # <<>>, NEW S, NEW T, FirstIn(s, S, T)
    PROVE  /\ Head(s) \in S => Head(s) \in T
           /\ Head(s) \notin S => FirstIn(Tail(s), S, T)
<1>1. /\ Len(s) \in Nat /\ Len(s) # 0 /\ Len(Tail(s)) = Len(s) - 1 /\ Head(s) = s[1]
      /\ \A i \in 1 .. Len(Tail(s)) : Tail(s)[i] = s[i + 1]
  BY HeadTailProperties
<1>2. ASSUME Head(s) \notin S PROVE FirstIn(Tail(s), S, T)
  <2> SUFFICES ASSUME NEW k \in 1 .. Len(Tail(s)), Tail(s)[k] \in S,
                      \A j \in 1 .. Len(Tail(s)) : j < k => Tail(s)[j] \notin S
               PROVE  Tail(s)[k] \in T
    BY DEF FirstIn
  <2>1. ASSUME NEW j \in 1 .. Len(s), j < k + 1 PROVE s[j] \notin S
    <3>1. CASE j = 1
      BY <1>1, <1>2, <3>1
    <3>2. CASE j # 1
      <4>1. j - 1 \in 1 .. Len(Tail(s)) /\ j - 1 < k /\ (j - 1) + 1 = j
        BY <1>1, <2>1, <3>2
      <4> QED
        BY <1>1, <4>1
    <3> QED
      BY <3>1, <3>2
  <2> QED
    BY <1>1, <2>1 DEF FirstIn
<1> QED
  BY <1>1, <1>2 DEF FirstIn

\* The item that is appended is the last.
LEMMA LastAppend ==
    ASSUME NEW A, NEW s \in Seq(A), NEW x \in A, NEW S, NEW T,
           IF x \in S THEN x \in T ELSE LastIn(s, S, T)
    PROVE  LastIn(Append(s, x), S, T)
<1>1. /\ Len(s) \in Nat /\ Len(Append(s, x)) = Len(s) + 1
      /\ \A i \in 1 .. Len(s) : Append(s, x)[i] = s[i]
      /\ Append(s, x)[Len(s) + 1] = x
  BY AppendProperties
<1> QED
  BY <1>1 DEF LastIn

\* The last item stays the last when the head is taken.
LEMMA LastTail ==
    ASSUME NEW A, NEW s \in Seq(A), s # <<>>, NEW S, NEW T, LastIn(s, S, T)
    PROVE  /\ LastIn(Tail(s), S, T)
           /\ Head(s) \in S /\ ~Has(Tail(s), S) => Head(s) \in T
<1>1. /\ Len(s) \in Nat /\ Len(s) # 0 /\ Len(Tail(s)) = Len(s) - 1 /\ Head(s) = s[1]
      /\ \A i \in 1 .. Len(Tail(s)) : Tail(s)[i] = s[i + 1]
  BY HeadTailProperties
<1>a. \A j \in 1 .. Len(s) : j # 1 => j - 1 \in 1 .. Len(Tail(s)) /\ s[j] = Tail(s)[j - 1]
  BY <1>1
<1>2. LastIn(Tail(s), S, T)
  <2> SUFFICES ASSUME NEW k \in 1 .. Len(Tail(s)), Tail(s)[k] \in S,
                      \A j \in 1 .. Len(Tail(s)) : k < j => Tail(s)[j] \notin S
               PROVE  Tail(s)[k] \in T
    BY DEF LastIn
  <2>1. ASSUME NEW j \in 1 .. Len(s), k + 1 < j PROVE s[j] \notin S
    BY <1>1, <1>a, <2>1
  <2> QED
    BY <1>1, <2>1 DEF LastIn
<1>3. ASSUME Head(s) \in S, ~Has(Tail(s), S) PROVE Head(s) \in T
  <2>1. ASSUME NEW j \in 1 .. Len(s), 1 < j PROVE s[j] \notin S
    BY <1>1, <1>a, <1>3, <2>1 DEF Has
  <2> QED
    BY <1>1, <1>3, <2>1 DEF LastIn
<1> QED
  BY <1>2, <1>3

\* An item of T that is appended follows all items of S.
LEMMA FollowedAppend ==
    ASSUME NEW A, NEW s \in Seq(A), NEW x \in A, NEW S, NEW T, x \notin S,
           x \in T \/ FollowedBy(s, S, T)
    PROVE  FollowedBy(Append(s, x), S, T)
<1>1. /\ Len(s) \in Nat /\ Len(Append(s, x)) = Len(s) + 1
      /\ \A i \in 1 .. Len(s) : Append(s, x)[i] = s[i]
      /\ Append(s, x)[Len(s) + 1] = x
  BY AppendProperties
<1>2. CASE x \in T
  BY <1>1, <1>2 DEF FollowedBy
<1>3. CASE FollowedBy(s, S, T)
  BY <1>1, <1>3 DEF FollowedBy
<1> QED
  BY <1>2, <1>3

\* What follows an item is in the tail, also when the item is the head.
LEMMA FollowedTail ==
    ASSUME NEW A, NEW s \in Seq(A), s # <<>>, NEW S, NEW T, FollowedBy(s, S, T)
    PROVE  FollowedBy(Tail(s), S, T) /\ (Head(s) \in S => Has(Tail(s), T))
<1>1. /\ Len(s) \in Nat /\ Len(s) # 0 /\ Len(Tail(s)) = Len(s) - 1 /\ Head(s) = s[1]
      /\ \A i \in 1 .. Len(Tail(s)) : Tail(s)[i] = s[i + 1]
  BY HeadTailProperties
<1>a. \A j \in 1 .. Len(s) : j # 1 => j - 1 \in 1 .. Len(Tail(s)) /\ s[j] = Tail(s)[j - 1]
  BY <1>1
<1>2. ASSUME NEW k \in 1 .. Len(s), s[k] \in S
      PROVE  \E j \in 1 .. Len(Tail(s)) : k - 1 < j /\ Tail(s)[j] \in T
  <2>1. PICK j \in 1 .. Len(s) : k < j /\ s[j] \in T
    BY <1>2 DEF FollowedBy
  <2> WITNESS j - 1 \in 1 .. Len(Tail(s))
  <2> QED
    BY <1>1, <1>a, <2>1
<1>3. FollowedBy(Tail(s), S, T)
  <2> SUFFICES ASSUME NEW k \in 1 .. Len(Tail(s)), Tail(s)[k] \in S
               PROVE  \E j \in 1 .. Len(Tail(s)) : k < j /\ Tail(s)[j] \in T
    BY DEF FollowedBy
  <2>1. k + 1 \in 1 .. Len(s) /\ s[k + 1] \in S /\ (k + 1) - 1 = k
    BY <1>1
  <2> QED
    BY <1>2, <2>1
<1>4. ASSUME Head(s) \in S PROVE Has(Tail(s), T)
  BY <1>1, <1>2, <1>4 DEF Has
<1> QED
  BY <1>3, <1>4

\* Steps of a sequence that leave the items of S as they are: other items are taken and
\* appended.
Neutral(s, t, A, S) ==
    \/ t = s
    \/ s # <<>> /\ Head(s) \notin S /\ t = Tail(s)
    \/ \E x \in A : x \notin S /\ t = Append(s, x)
    \/ \E d \in Seq(A) : ~Has(d, S) /\ t = s \o d

\* Items of other kinds at the end change nothing about the last one.
LEMMA LastConcat ==
    ASSUME NEW A, NEW s \in Seq(A), NEW d \in Seq(A), NEW S, NEW T, ~Has(d, S), LastIn(s, S, T)
    PROVE  LastIn(s \o d, S, T)
<1>1. /\ Len(s) \in Nat /\ Len(d) \in Nat /\ Len(s \o d) = Len(s) + Len(d)
      /\ \A i \in 1 .. Len(s) + Len(d) :
            (s \o d)[i] = IF i <= Len(s) THEN s[i] ELSE d[i - Len(s)]
  BY ConcatProperties
<1>2. \A i \in 1 .. Len(s) + Len(d) : (s \o d)[i] \in S => i <= Len(s) /\ s[i] \in S
  BY <1>1 DEF Has
<1>3. \A i \in 1 .. Len(s) : i \in 1 .. Len(s \o d) /\ (s \o d)[i] = s[i]
  BY <1>1
<1> QED
  BY <1>1, <1>2, <1>3 DEF LastIn

\* Nor about the first one.
LEMMA FirstConcat ==
    ASSUME NEW A, NEW s \in Seq(A), NEW d \in Seq(A), NEW S, NEW T, ~Has(d, S), FirstIn(s, S, T)
    PROVE  FirstIn(s \o d, S, T)
<1>1. /\ Len(s) \in Nat /\ Len(d) \in Nat /\ Len(s \o d) = Len(s) + Len(d)
      /\ \A i \in 1 .. Len(s) + Len(d) :
            (s \o d)[i] = IF i <= Len(s) THEN s[i] ELSE d[i - Len(s)]
  BY ConcatProperties
<1>2. \A i \in 1 .. Len(s) + Len(d) : (s \o d)[i] \in S => i <= Len(s) /\ s[i] \in S
  BY <1>1 DEF Has
<1>3. \A i \in 1 .. Len(s) : i \in 1 .. Len(s \o d) /\ (s \o d)[i] = s[i]
  BY <1>1
<1> QED
  BY <1>1, <1>2, <1>3 DEF FirstIn

\* They keep what is said of the items of S.
LEMMA NeutralKeeps ==
    ASSUME NEW A, NEW s \in Seq(A), NEW t, NEW S, Neutral(s, t, A, S)
    PROVE  /\ t \in Seq(A)
           /\ Has(t, S) <=> Has(s, S)
           /\ Once(s, S) => Once(t, S)
           /\ \A T : FirstIn(s, S, T) => FirstIn(t, S, T)
           /\ \A T : LastIn(s, S, T) => LastIn(t, S, T)
<1>1. CASE s # <<>> /\ Head(s) \notin S /\ t = Tail(s)
  BY <1>1, HasTail, OnceTail, FirstTail, LastTail
<1>2. ASSUME NEW x \in A, x \notin S, t = Append(s, x)
      PROVE  /\ t \in Seq(A)
             /\ Has(t, S) <=> Has(s, S)
             /\ Once(s, S) => Once(t, S)
             /\ \A T : FirstIn(s, S, T) => FirstIn(t, S, T)
             /\ \A T : LastIn(s, S, T) => LastIn(t, S, T)
  BY <1>2, HasAppend, OnceAppend, FirstAppend, LastAppend
<1>3. ASSUME NEW d \in Seq(A), ~Has(d, S), t = s \o d
      PROVE  /\ t \in Seq(A)
             /\ Has(t, S) <=> Has(s, S)
             /\ Once(s, S) => Once(t, S)
             /\ \A T : FirstIn(s, S, T) => FirstIn(t, S, T)
             /\ \A T : LastIn(s, S, T) => LastIn(t, S, T)
  BY <1>3, HasConcat, OnceConcat, FirstConcat, LastConcat
<1> QED
  BY <1>1, <1>2, <1>3 DEF Neutral
=============================================================================
