------------------------- MODULE ContactListProofs -------------------------
(* The rows of the contact list are the rosters, and the grouping tree      *)
(* follows the rows.                                                        *)
EXTENDS ContactList, SequenceItems, FiniteSetTheorems

\* How many of the numbers K are at most m: the count grows by one at each of K.
Below(K, m) == Cardinality({j \in K : j <= m})

LEMMA BelowCounts ==
    ASSUME NEW n \in Nat, NEW K \in SUBSET (1 .. n)
    PROVE  /\ IsFiniteSet(K) /\ Cardinality(K) \in Nat
           /\ \A m \in Nat : Below(K, m) \in Nat /\ Below(K, m) <= Cardinality(K)
           /\ Below(K, 0) = 0 /\ Below(K, n) = Cardinality(K)
           /\ \A m \in Nat : Below(K, m + 1) = Below(K, m) + IF m + 1 \in K THEN 1 ELSE 0
           /\ \A i, j \in K : i < j => Below(K, i) < Below(K, j)
           /\ \A i \in K : Below(K, i) \in 1 .. Cardinality(K)
<1>1. IsFiniteSet(K) /\ Cardinality(K) \in Nat
  <2>1. IsFiniteSet(1 .. n)
    BY FS_Interval
  <2> QED
    BY <2>1, FS_Subset, FS_CardinalityType
<1>0. \A i \in K : i \in Nat /\ 1 <= i /\ i <= n
  OBVIOUS
<1> DEFINE Z(m) == {j \in K : j <= m}
<1>2. \A m \in Nat : /\ Z(m) \subseteq K /\ IsFiniteSet(Z(m)) /\ Below(K, m) = Cardinality(Z(m))
                     /\ Below(K, m) \in Nat /\ Below(K, m) <= Cardinality(K)
  <2> SUFFICES ASSUME NEW m \in Nat
               PROVE  /\ Z(m) \subseteq K /\ IsFiniteSet(Z(m)) /\ Below(K, m) = Cardinality(Z(m))
                      /\ Below(K, m) \in Nat /\ Below(K, m) <= Cardinality(K)
    OBVIOUS
  <2>1. Z(m) \subseteq K /\ Below(K, m) = Cardinality(Z(m))
    BY DEF Below
  <2> HIDE DEF Z
  <2> QED
    BY <2>1, <1>1, FS_Subset, FS_CardinalityType
<1>3. Z(0) = {} /\ Z(n) = K
  <2>1. \A j \in K : ~(j <= 0) /\ j <= n
    BY <1>0
  <2> QED
    BY <2>1
<1>4. \A m \in Nat : Z(m + 1) = IF m + 1 \in K THEN Z(m) \cup {m + 1} ELSE Z(m)
  <2> SUFFICES ASSUME NEW m \in Nat
               PROVE  Z(m + 1) = IF m + 1 \in K THEN Z(m) \cup {m + 1} ELSE Z(m)
    OBVIOUS
  <2>1. \A j \in K : j <= m + 1 <=> j <= m \/ j = m + 1
    BY <1>0
  <2> QED
    BY <2>1
<1>5. \A m \in Nat : m + 1 \notin Z(m)
  OBVIOUS
<1>6. \A i, j \in K : i < j => Z(i) \subseteq Z(j) /\ j \in Z(j) /\ j \notin Z(i)
  <2> SUFFICES ASSUME NEW i \in K, NEW j \in K, i < j
               PROVE  Z(i) \subseteq Z(j) /\ j \in Z(j) /\ j \notin Z(i)
    OBVIOUS
  <2>1. \A k \in K : k <= i => k <= j
    BY <1>0
  <2>2. j <= j /\ ~(j <= i)
    BY <1>0
  <2> QED
    BY <2>1, <2>2
<1>7. \A i \in K : i \in Z(i) /\ i \in Nat
  OBVIOUS
<1> HIDE DEF Z
<1>8. Below(K, 0) = 0 /\ Below(K, n) = Cardinality(K)
  BY <1>2, <1>3, FS_EmptySet
<1>9. ASSUME NEW m \in Nat PROVE Below(K, m + 1) = Below(K, m) + IF m + 1 \in K THEN 1 ELSE 0
  <2>1. /\ Below(K, m) = Cardinality(Z(m)) /\ IsFiniteSet(Z(m)) /\ Cardinality(Z(m)) \in Nat
        /\ Below(K, m + 1) = Cardinality(Z(m + 1))
    BY <1>2
  <2>2. CASE m + 1 \in K
    <3>1. Z(m + 1) = Z(m) \cup {m + 1} /\ m + 1 \notin Z(m)
      BY <2>2, <1>4, <1>5
    <3>2. Cardinality(Z(m) \cup {m + 1}) = Cardinality(Z(m)) + 1
      BY <3>1, <2>1, FS_AddElement
    <3> QED
      BY <3>1, <3>2, <2>1, <2>2
  <2>3. CASE m + 1 \notin K
    <3>1. Z(m + 1) = Z(m)
      BY <2>3, <1>4
    <3> QED
      BY <3>1, <2>1, <2>3
  <2> QED
    BY <2>2, <2>3
<1>10. ASSUME NEW i \in K, NEW j \in K, i < j PROVE Below(K, i) < Below(K, j)
  <2>1. i \in Nat /\ j \in Nat
    OBVIOUS
  <2>2. /\ IsFiniteSet(Z(i)) /\ Below(K, i) = Cardinality(Z(i)) /\ Below(K, i) \in Nat
        /\ IsFiniteSet(Z(j)) /\ Below(K, j) = Cardinality(Z(j)) /\ Below(K, j) \in Nat
    BY <1>2, <2>1
  <2>3. Z(i) \subseteq Z(j) /\ Z(i) # Z(j)
    BY <1>6, <1>10
  <2>4. Cardinality(Z(i)) <= Cardinality(Z(j)) /\ Cardinality(Z(i)) # Cardinality(Z(j))
    BY <2>2, <2>3, FS_Subset
  <2> QED
    BY <2>2, <2>4
<1>11. ASSUME NEW i \in K PROVE Below(K, i) \in 1 .. Cardinality(K)
  <2>1. /\ IsFiniteSet(Z(i)) /\ Below(K, i) = Cardinality(Z(i)) /\ Below(K, i) \in Nat
        /\ Below(K, i) <= Cardinality(K) /\ Z(i) # {}
    BY <1>2, <1>7
  <2>2. Below(K, i) # 0
    BY <2>1, FS_EmptySet
  <2> QED
    BY <2>1, <2>2, <1>1
<1> QED
  BY <1>1, <1>2, <1>8, <1>9, <1>10, <1>11

Distinct(s) == \A i, j \in 1 .. Len(s) : s[i] = s[j] => i = j

\* The items with the numbers K: each once, and no others.
LEMMA ItemsPicked ==
    ASSUME NEW A, NEW s \in Seq(A), NEW K \in SUBSET (1 .. Len(s))
    PROVE  /\ Items(s, K) \in Seq(A)
           /\ ToSet(Items(s, K)) = {s[i] : i \in K}
           /\ Distinct(s) => Distinct(Items(s, K))
<1> DEFINE n == Len(s)
           c == Cardinality(K)
           pick(q) == CHOOSE i \in K : Below(K, i) = q
<1>1. n \in Nat /\ \A i \in 1 .. n : s[i] \in A
  BY LenProperties, ElementOfSeq
<1>2. Items(s, K) = [q \in 1 .. c |-> s[pick(q)]]
  BY DEF Items, Below
<1> HIDE DEF n
<1>3. K \in SUBSET (1 .. n)
  BY DEF n
<1>4. /\ c \in Nat
      /\ \A m \in Nat : Below(K, m) \in Nat /\ Below(K, m) <= c
      /\ Below(K, 0) = 0 /\ Below(K, n) = c
      /\ \A m \in Nat : Below(K, m + 1) = Below(K, m) + IF m + 1 \in K THEN 1 ELSE 0
      /\ \A i, j \in K : i < j => Below(K, i) < Below(K, j)
      /\ \A i \in K : Below(K, i) \in 1 .. c
  <2>1. n \in Nat /\ K \in SUBSET (1 .. n)
    BY <1>1, <1>3
  <2> QED
    BY <2>1, BelowCounts, ZenonT(60)
<1>b. /\ c \in Nat
      /\ \A m \in Nat : Below(K, m) \in Nat /\ Below(K, m) <= c
      /\ Below(K, 0) = 0 /\ Below(K, n) = c
  BY <1>4
<1>c. \A m \in Nat : Below(K, m + 1) = Below(K, m) + IF m + 1 \in K THEN 1 ELSE 0
  BY <1>4
<1>d. /\ \A i, j \in K : i < j => Below(K, i) < Below(K, j)
      /\ \A i \in K : Below(K, i) \in 1 .. c
  BY <1>4
<1> HIDE DEF c
<1>a. \A i \in K : i \in Nat
  BY <1>1, <1>3
<1>5. ASSUME NEW q \in 1 .. c PROVE \E i \in K : Below(K, i) = q
  <2> DEFINE S == {m \in Nat : Below(K, m) >= q}
  <2>1. S \in SUBSET Nat /\ n \in S
    BY <1>1, <1>4
  <2>2. PICK m \in S : \A y \in S : m <= y
    BY <2>1, LeastNumber
  <2>3. m \in Nat /\ Below(K, m) >= q /\ m # 0
    BY <2>2, <1>4
  <2> DEFINE p == m - 1
  <2>4. p \in Nat /\ p + 1 = m /\ p \notin S
    BY <2>2, <2>3
  <2> HIDE DEF p
  <2>a. Below(K, p) \in Nat /\ ~(Below(K, p) >= q)
    BY <2>4, <1>b
  <2>b. Below(K, m) = Below(K, p) + IF m \in K THEN 1 ELSE 0
    BY <2>4, <1>c
  <2>5. Below(K, p) < q
    BY <2>a
  <2>6. m \in K /\ Below(K, m) = q
    BY <2>3, <2>5, <2>a, <2>b
  <2> QED
    BY <2>6
<1>6. \A q \in 1 .. c : pick(q) \in K /\ Below(K, pick(q)) = q
  BY <1>5
<1>7. \A i \in K : pick(Below(K, i)) = i
  <2> SUFFICES ASSUME NEW i \in K PROVE pick(Below(K, i)) = i
    OBVIOUS
  <2>1. Below(K, i) \in 1 .. c
    BY <1>4
  <2>2. pick(Below(K, i)) \in K /\ Below(K, pick(Below(K, i))) = Below(K, i)
    BY <2>1, <1>6
  <2> HIDE DEF pick
  <2>3. ~(i < pick(Below(K, i))) /\ ~(pick(Below(K, i)) < i)
    <3> DEFINE p == pick(Below(K, i))
    <3>1. p \in K /\ Below(K, p) = Below(K, i) /\ Below(K, i) \in Nat
      BY <2>2, <2>1, <1>4
    <3> HIDE DEF p
    <3>2. /\ i < p => Below(K, i) < Below(K, p)
          /\ p < i => Below(K, p) < Below(K, i)
      BY <3>1, <1>d
    <3>3. ~(i < p) /\ ~(p < i)
      BY <3>1, <3>2
    <3> QED
      BY <3>3 DEF p
  <2>4. i \in Nat /\ pick(Below(K, i)) \in Nat
    BY <2>2, <1>a
  <2> QED
    BY <2>3, <2>4
<1> HIDE DEF pick
<1> DEFINE f == [q \in 1 .. c |-> s[pick(q)]]
<1>8. DOMAIN f = 1 .. c /\ \A q \in 1 .. c : f[q] = s[pick(q)] /\ f[q] \in A
  BY <1>1, <1>3, <1>6
<1>9. f \in Seq(A) /\ Len(f) = c
  <2>1. f = [q \in 1 .. c |-> f[q]]
    OBVIOUS
  <2> QED
    BY <2>1, <1>8, <1>4, IsASeq, LenProperties
<1> HIDE DEF f
<1>10. ToSet(f) = {s[i] : i \in K}
  <2>1. \A q \in 1 .. c : f[q] \in {s[i] : i \in K}
    BY <1>6, <1>8
  <2>2. \A i \in K : s[i] = f[Below(K, i)] /\ Below(K, i) \in 1 .. c
    BY <1>4, <1>7, <1>8
  <2> QED
    BY <2>1, <2>2, <1>8 DEF ToSet
<1>11. ASSUME Distinct(s) PROVE Distinct(f)
  <2> SUFFICES ASSUME NEW j \in 1 .. c, NEW k \in 1 .. c, f[j] = f[k] PROVE j = k
    BY <1>9 DEF Distinct
  <2>1. /\ pick(j) \in 1 .. n /\ pick(k) \in 1 .. n /\ s[pick(j)] = s[pick(k)]
        /\ Below(K, pick(j)) = j /\ Below(K, pick(k)) = k
    BY <1>6, <1>8, <1>3
  <2>3. pick(j) = pick(k)
    BY <2>1, <1>11 DEF Distinct, n
  <2> QED
    BY <2>1, <2>3
<1> QED
  BY <1>2, <1>9, <1>10, <1>11 DEF f

\* Without its first occurrences, an item of a list of different ones is gone.
LEMMA RowsDropped ==
    ASSUME NEW A, NEW s \in Seq(A), Distinct(s), NEW E
    PROVE  /\ WithoutFirst(s, E) \in Seq(A) /\ Distinct(WithoutFirst(s, E))
           /\ ToSet(WithoutFirst(s, E)) = ToSet(s) \ E
<1> DEFINE K == {i \in DOMAIN s : s[i] \in E => \E j \in 1 .. i - 1 : s[j] = s[i]}
<1>1. DOMAIN s = 1 .. Len(s) /\ Len(s) \in Nat
  BY LenProperties
<1>2. K = {i \in 1 .. Len(s) : s[i] \notin E}
  <2> SUFFICES ASSUME NEW i \in 1 .. Len(s) PROVE ~ \E j \in 1 .. i - 1 : s[j] = s[i]
    BY <1>1
  <2> SUFFICES ASSUME NEW j \in 1 .. i - 1, s[j] = s[i] PROVE FALSE
    OBVIOUS
  <2>1. j \in 1 .. Len(s) /\ j # i
    BY <1>1
  <2> QED
    BY <2>1 DEF Distinct
<1>3. WithoutFirst(s, E) = Items(s, K)
  BY DEF WithoutFirst
<1> HIDE DEF K
<1>4. K \in SUBSET (1 .. Len(s))
  BY <1>2
<1>5. {s[i] : i \in K} = ToSet(s) \ E
  BY <1>1, <1>2 DEF ToSet
<1> QED
  BY <1>3, <1>4, <1>5, ItemsPicked

\* New rows in any order.
LEMMA RowsAppended ==
    ASSUME NEW A, NEW s \in Seq(A), Distinct(s), NEW S \in SUBSET A, IsFiniteSet(S),
           NEW order \in SetToSeqs(S), S \cap ToSet(s) = {}
    PROVE  s \o order \in Seq(A) /\ Distinct(s \o order) /\ ToSet(s \o order) = ToSet(s) \cup S
<1> DEFINE c == Cardinality(S)
<1>1. c \in Nat
  BY FS_CardinalityType
<1>2. order \in [1 .. c -> S] /\ \A i, j \in 1 .. c : i # j => order[i] # order[j]
  BY DEF SetToSeqs
<1> HIDE DEF c
<1>3. order \in Injection(1 .. c, S)
  BY <1>2 DEF Injection, IsInjective
<1>4. Cardinality(1 .. c) = c
  BY <1>1, FS_Interval
<1>5. order \in Surjection(1 .. c, S)
  BY <1>3, <1>4, FS_Injection DEF c
<1>6. \A e \in S : \E i \in 1 .. c : order[i] = e
  BY <1>5 DEF Surjection
<1>7. order \in Seq(A) /\ Len(order) = c
  BY <1>1, <1>2, LenProperties
<1>8. /\ Len(s) \in Nat /\ Len(s \o order) = Len(s) + c /\ s \o order \in Seq(A)
      /\ \A i \in 1 .. Len(s) + c :
            (s \o order)[i] = IF i <= Len(s) THEN s[i] ELSE order[i - Len(s)]
  <2>1. /\ Len(s) \in Nat /\ Len(s \o order) = Len(s) + Len(order) /\ s \o order \in Seq(A)
        /\ \A i \in 1 .. Len(s) + Len(order) :
              (s \o order)[i] = IF i <= Len(s) THEN s[i] ELSE order[i - Len(s)]
    BY <1>7, ConcatProperties, LenProperties
  <2> QED
    BY <2>1, <1>7
<1> DEFINE g == s \o order
           n == Len(s)
<1>9. /\ n \in Nat /\ Len(g) = n + c /\ g \in Seq(A) /\ DOMAIN g = 1 .. n + c /\ DOMAIN s = 1 .. n
      /\ \A i \in 1 .. n : g[i] = s[i] /\ g[i] \in ToSet(s)
      /\ \A i \in 1 .. n + c : i > n => i - n \in 1 .. c /\ g[i] = order[i - n] /\ g[i] \in S
  <2>1. n \in Nat /\ Len(g) = n + c /\ g \in Seq(A) /\ DOMAIN g = 1 .. n + c /\ DOMAIN s = 1 .. n
    BY <1>8, LenProperties
  <2>2. \A i \in 1 .. n : g[i] = s[i] /\ g[i] \in ToSet(s)
    BY <1>8, <1>1, <2>1 DEF ToSet
  <2>3. ASSUME NEW i \in 1 .. n + c, i > n PROVE i - n \in 1 .. c /\ g[i] = order[i - n] /\ g[i] \in S
    BY <1>8, <1>1, <1>2, <2>3
  <2> QED
    BY <2>1, <2>2, <2>3
<1> HIDE DEF g, n
<1>10. Distinct(g)
  <2> SUFFICES ASSUME NEW i \in 1 .. n + c, NEW j \in 1 .. n + c, g[i] = g[j] PROVE i = j
    BY <1>9 DEF Distinct
  <2>1. CASE i <= n /\ j <= n
    <3>1. i \in 1 .. n /\ j \in 1 .. n
      BY <2>1, <1>1, <1>9
    <3> QED
      BY <3>1, <1>9 DEF Distinct, n
  <2>2. CASE i > n /\ j > n
    <3>1. i - n \in 1 .. c /\ j - n \in 1 .. c /\ order[i - n] = order[j - n]
      BY <2>2, <1>9
    <3>2. i - n = j - n
      BY <3>1, <1>2
    <3> QED
      BY <3>2, <1>1, <1>9
  <2>3. CASE (i <= n /\ j > n) \/ (j <= n /\ i > n)
    <3>1. i <= n => i \in 1 .. n
      BY <1>1, <1>9
    <3>2. j <= n => j \in 1 .. n
      BY <1>1, <1>9
    <3> QED
      BY <2>3, <3>1, <3>2, <1>9
  <2> QED
    BY <2>1, <2>2, <2>3, <1>1, <1>9
<1>11. ToSet(g) = ToSet(s) \cup S
  <2>1. \A i \in 1 .. n + c : g[i] \in ToSet(s) \cup S
    <3> SUFFICES ASSUME NEW i \in 1 .. n + c PROVE g[i] \in ToSet(s) \cup S
      OBVIOUS
    <3>1. i \in 1 .. n \/ i > n
      BY <1>1, <1>9
    <3> QED
      BY <3>1, <1>9
  <2>2. \A e \in ToSet(s) : \E i \in 1 .. n + c : g[i] = e
    <3> SUFFICES ASSUME NEW i \in 1 .. n PROVE i \in 1 .. n + c /\ g[i] = s[i]
      BY <1>9 DEF ToSet
    <3> QED
      BY <1>1, <1>9
  <2>3. \A e \in S : \E i \in 1 .. n + c : g[i] = e
    <3> SUFFICES ASSUME NEW e \in S PROVE \E i \in 1 .. n + c : g[i] = e
      OBVIOUS
    <3>1. PICK k \in 1 .. c : order[k] = e
      BY <1>6
    <3>2. n + k \in 1 .. n + c /\ n + k > n /\ (n + k) - n = k
      BY <1>1, <1>9
    <3>3. g[n + k] = order[(n + k) - n]
      BY <3>2, <1>9
    <3> QED
      BY <3>1, <3>2, <3>3
  <2> QED
    <3>1. ToSet(g) = {g[i] : i \in 1 .. n + c}
      BY <1>9 DEF ToSet
    <3> QED
      BY <3>1, <2>1, <2>2, <2>3
<1> QED
  BY <1>9, <1>10, <1>11 DEF g

-----------------------------------------------------------------------------
(* The rows.                                                               *)

\* The connection that an entry came with.
Origin(e) == <<AccountOf[e[1]], e[2]>>

RowTypes ==
    /\ enabled \in SUBSET Accounts
    /\ conn \in [Accounts -> {"None", "Waiting", "Success"}]
    /\ number \in [Accounts -> Nat]
    /\ \A a \in Accounts : number[a] <= MaxConnections[a] /\ (conn[a] # "None" => number[a] # 0)
    /\ opening \in SUBSET Connections
    /\ roster \in [Connections -> SUBSET Contacts]
    /\ wired \in SUBSET Accounts /\ relayed \in SUBSET Accounts
    /\ rows \in Seq(Entries)

\* Who is listened to: the list of a connection that is there and ready, and its changes
\* once it was retrieved.
Listening ==
    /\ \A x \in opening : x[2] <= number[x[1]]
    /\ \A x \in Connections : \A c \in roster[x] : AccountOf[c] = x[1]
    /\ \A a \in Accounts : a \in wired <=> conn[a] # "None" /\ <<a, number[a]>> \notin opening
    /\ \A a \in Accounts : a \in relayed <=> a \in wired /\ conn[a] = "Success"

\* No row is of a connection to come, of one that is not ready, or of one whose list is
\* still waited for.
RowFits(e) ==
    LET a == AccountOf[e[1]]
    IN /\ e[2] <= number[a] /\ Origin(e) \notin opening
       /\ Live(a, e[2]) => conn[a] = "Success"
       /\ Live(a, e[2]) \/ Origin(e) \in late

Listed ==
    \A a \in relayed : \A e \in Entries :
        Origin(e) = <<a, number[a]>> =>
            (e \in ToSet(rows) <=> e[1] \in roster[<<a, number[a]>>])

RosterInv ==
    /\ RowTypes /\ Listening
    /\ Distinct(rows)
    /\ \A e \in ToSet(rows) : RowFits(e)
    /\ Listed

LEMMA EntryParts ==
    /\ \A e \in Entries : /\ e[1] \in Contacts /\ AccountOf[e[1]] \in Accounts /\ e = <<e[1], e[2]>>
                          /\ e[2] \in Nat /\ e[2] \in 1 .. MaxConnections[AccountOf[e[1]]]
                          /\ Origin(e) \in Connections /\ Origin(e)[1] = AccountOf[e[1]]
                          /\ Origin(e)[2] = e[2]
    /\ \A c \in Contacts : AccountOf[c] \in Accounts /\ MaxConnections[AccountOf[c]] \in Nat
    /\ \A c \in Contacts : \A n \in 1 .. MaxConnections[AccountOf[c]] : <<c, n>> \in Entries
    /\ \A x \in Connections : x[1] \in Accounts /\ x = <<x[1], x[2]>> /\ x[2] \in 1 .. MaxConnections[x[1]]
    /\ \A a \in Accounts : \A n \in 1 .. MaxConnections[a] : <<a, n>> \in Connections
    /\ \A a \in Accounts : MaxConnections[a] \in Nat
<1>1. /\ AccountOf \in [Contacts -> Accounts] /\ MaxConnections \in [Accounts -> Nat]
  BY ContactListAssumption
<1>2. \A c \in Contacts : AccountOf[c] \in Accounts /\ MaxConnections[AccountOf[c]] \in Nat
  BY <1>1
<1>3. ASSUME NEW e \in Entries
      PROVE  /\ e[1] \in Contacts /\ AccountOf[e[1]] \in Accounts /\ e = <<e[1], e[2]>>
             /\ e[2] \in Nat /\ e[2] \in 1 .. MaxConnections[AccountOf[e[1]]]
  <2>1. PICK c \in Contacts : e \in {c} \X (1 .. MaxConnections[AccountOf[c]])
    BY DEF Entries
  <2>2. e[1] = c /\ e = <<e[1], e[2]>> /\ e[2] \in 1 .. MaxConnections[AccountOf[c]]
    BY <2>1
  <2> QED
    BY <2>2, <1>2
<1>4. \A c \in Contacts : \A n \in 1 .. MaxConnections[AccountOf[c]] : <<c, n>> \in Entries
  BY DEF Entries
<1>5. ASSUME NEW x \in Connections
      PROVE  x[1] \in Accounts /\ x = <<x[1], x[2]>> /\ x[2] \in 1 .. MaxConnections[x[1]]
  <2>1. PICK a \in Accounts : x \in {a} \X (1 .. MaxConnections[a])
    BY DEF Connections
  <2> QED
    BY <2>1
<1>6. \A a \in Accounts : \A n \in 1 .. MaxConnections[a] : <<a, n>> \in Connections
  BY DEF Connections
<1>7. \A a \in Accounts : MaxConnections[a] \in Nat
  BY <1>1
<1>8. ASSUME NEW e \in Entries
      PROVE  Origin(e) \in Connections /\ Origin(e)[1] = AccountOf[e[1]] /\ Origin(e)[2] = e[2]
  BY <1>3, <1>6 DEF Origin
<1> QED
  BY <1>2, <1>3, <1>4, <1>5, <1>6, <1>7, <1>8

\* Contacts of one account with the number of one of its connections.
LEMMA EntriesWith ==
    ASSUME NEW a \in Accounts, NEW n \in 1 .. MaxConnections[a],
           NEW C \in SUBSET Contacts, \A c \in C : AccountOf[c] = a
    PROVE  /\ {<<c, n>> : c \in C} \in SUBSET Entries /\ IsFiniteSet({<<c, n>> : c \in C})
           /\ \A e \in Entries : e \in {<<c, n>> : c \in C} <=> Origin(e) = <<a, n>> /\ e[1] \in C
<1> DEFINE S == {<<c, n>> : c \in C}
           f == [c \in C |-> <<c, n>>]
<1>1. IsFiniteSet(C)
  BY ContactListAssumption, FS_Subset
<1>2. f \in Surjection(C, S)
  BY DEF Surjection
<1>3. IsFiniteSet(S)
  BY <1>1, <1>2, FS_Surjection
<1>4. S \in SUBSET Entries
  BY EntryParts
<1>5. ASSUME NEW e \in Entries PROVE e \in S <=> Origin(e) = <<a, n>> /\ e[1] \in C
  <2>1. e = <<e[1], e[2]>>
    BY EntryParts
  <2>2. ASSUME e \in S PROVE Origin(e) = <<a, n>> /\ e[1] \in C
    <3>1. PICK c \in C : e = <<c, n>>
      BY <2>2
    <3>2. e[1] = c /\ e[2] = n
      BY <3>1
    <3> QED
      BY <3>2 DEF Origin
  <2>3. ASSUME Origin(e) = <<a, n>>, e[1] \in C PROVE e \in S
    <3>1. e[2] = n
      BY <2>3 DEF Origin
    <3> QED
      BY <2>1, <2>3, <3>1
  <2> QED
    BY <2>2, <2>3
<1> QED
  BY <1>3, <1>4, <1>5

\* What a roster has are entries of its connection.
LEMMA KnownEntries ==
    ASSUME RowTypes, Listening, NEW a \in Accounts, NEW n \in 1 .. MaxConnections[a]
    PROVE  /\ Known(a, n) \in SUBSET Entries /\ IsFiniteSet(Known(a, n))
           /\ \A e \in Entries : e \in Known(a, n) <=> Origin(e) = <<a, n>> /\ e[1] \in roster[<<a, n>>]
<1>1. <<a, n>> \in Connections /\ <<a, n>>[1] = a
  BY EntryParts
<1>2. roster[<<a, n>>] \in SUBSET Contacts /\ \A c \in roster[<<a, n>>] : AccountOf[c] = a
  BY <1>1 DEF RowTypes, Listening
<1> QED
  BY <1>2, EntriesWith DEF Known

\* What the three ways of announcing entries do to the rows and the tree.
LEMMA ContactsChanged ==
    ASSUME rows \in Seq(Entries), Distinct(rows),
           NEW added \in SUBSET Entries, IsFiniteSet(added), added \cap ToSet(rows) = {},
           NEW removed, onContactsChanged(added, removed)
    PROVE  /\ rows' \in Seq(Entries) /\ Distinct(rows')
           /\ ToSet(rows') = (ToSet(rows) \cup added) \ removed
           /\ missed' = missed \ removed
           /\ tree' = IF loaded
                      THEN rowsRemoved(AddNodes(tree, NodesOf(added, conn', groupsOf)),
                                       removed \cap (ToSet(rows) \cup added))
                      ELSE tree
<1>1. PICK order \in SetToSeqs(added) :
        /\ rows' = WithoutFirst(rows \o order, removed)
        /\ missed' = missed \ removed
        /\ tree' = IF loaded
                   THEN rowsRemoved(AddNodes(tree, NodesOf(added, conn', groupsOf)),
                                    removed \cap ToSet(rows \o order))
                   ELSE tree
  BY DEF onContactsChanged
<1>2. /\ rows \o order \in Seq(Entries) /\ Distinct(rows \o order)
      /\ ToSet(rows \o order) = ToSet(rows) \cup added
  BY RowsAppended
<1>3. /\ WithoutFirst(rows \o order, removed) \in Seq(Entries)
      /\ Distinct(WithoutFirst(rows \o order, removed))
      /\ ToSet(WithoutFirst(rows \o order, removed)) = ToSet(rows \o order) \ removed
  BY <1>2, RowsDropped
<1> QED
  BY <1>1, <1>2, <1>3

LEMMA RosterParts ==
    RosterInv =>
        /\ rows \in Seq(Entries) /\ Distinct(rows) /\ ToSet(rows) \subseteq Entries
        /\ \A e \in ToSet(rows) : RowFits(e)
        /\ \A a \in Accounts : /\ conn[a] \in {"None", "Waiting", "Success"} /\ number[a] \in Nat
                               /\ number[a] <= MaxConnections[a] /\ (conn[a] # "None" => number[a] # 0)
                               /\ a \in wired <=> conn[a] # "None" /\ <<a, number[a]>> \notin opening
                               /\ a \in relayed <=> a \in wired /\ conn[a] = "Success"
        /\ opening \subseteq Connections /\ \A x \in opening : x[2] <= number[x[1]]
        /\ conn \in [Accounts -> {"None", "Waiting", "Success"}] /\ number \in [Accounts -> Nat]
        /\ roster \in [Connections -> SUBSET Contacts]
        /\ \A x \in Connections : \A c \in roster[x] : AccountOf[c] = x[1]
        /\ wired \in SUBSET Accounts /\ relayed \in SUBSET Accounts
<1> SUFFICES ASSUME RosterInv PROVE ToSet(rows) \subseteq Entries
  BY DEF RosterInv, RowTypes, Listening
<1>1. rows \in Seq(Entries)
  BY DEF RosterInv, RowTypes
<1> QED
  BY <1>1, LenProperties, ElementOfSeq DEF ToSet

LEMMA RosterInit == Init => RosterInv
<1> SUFFICES ASSUME Init PROVE RosterInv
  OBVIOUS
<1>1. /\ enabled \in SUBSET Accounts /\ conn \in [Accounts -> {"None", "Waiting"}]
      /\ number = [a \in Accounts |-> IF conn[a] = "None" THEN 0 ELSE 1]
      /\ opening = {<<a, 1>> : a \in {b \in Accounts : conn[b] # "None"}}
      /\ roster = [x \in Connections |-> {}] /\ wired = {} /\ relayed = {} /\ rows = <<>>
  BY DEF Init
<1>2. \A a \in Accounts : MaxConnections[a] \in Nat /\ 1 <= MaxConnections[a]
  BY ContactListAssumption
<1>3. opening \in SUBSET Connections /\ \A x \in opening : x[1] \in Accounts /\ x[2] = 1 /\ conn[x[1]] # "None"
  <2> SUFFICES ASSUME NEW x \in opening
               PROVE  x \in Connections /\ x[1] \in Accounts /\ x[2] = 1 /\ conn[x[1]] # "None"
    OBVIOUS
  <2>1. PICK a \in Accounts : conn[a] # "None" /\ x = <<a, 1>>
    BY <1>1
  <2>2. 1 \in 1 .. MaxConnections[a]
    BY <1>2
  <2> QED
    BY <2>1, <2>2, EntryParts
<1>4. ASSUME NEW a \in Accounts
      PROVE  /\ conn[a] \in {"None", "Waiting"} /\ number[a] \in {0, 1}
             /\ conn[a] # "None" => number[a] = 1 /\ <<a, number[a]>> \in opening
  <2>1. conn[a] \in {"None", "Waiting"} /\ number[a] = IF conn[a] = "None" THEN 0 ELSE 1
    BY <1>1
  <2> QED
    BY <2>1, <1>1
<1>5. rows \in Seq(Entries) /\ ToSet(rows) = {} /\ Distinct(rows)
  BY <1>1, EmptySeq DEF ToSet, Distinct
<1>6. /\ number \in [Accounts -> Nat] /\ conn \in [Accounts -> {"None", "Waiting", "Success"}]
      /\ roster \in [Connections -> SUBSET Contacts] /\ \A x \in Connections : roster[x] = {}
  BY <1>1
<1>7. RowTypes
  <2>1. ASSUME NEW a \in Accounts
        PROVE  number[a] <= MaxConnections[a] /\ (conn[a] # "None" => number[a] # 0)
    <3>1. MaxConnections[a] \in Nat /\ 1 <= MaxConnections[a]
      BY <1>2
    <3>2. number[a] \in {0, 1} /\ (conn[a] # "None" => number[a] = 1)
      BY <1>4
    <3>3. CASE number[a] = 0
      BY <3>1, <3>2, <3>3
    <3>4. CASE number[a] = 1
      BY <3>1, <3>2, <3>4
    <3> QED
      BY <3>2, <3>3, <3>4
  <2> QED
    BY <1>1, <1>3, <1>5, <1>6, <2>1 DEF RowTypes
<1>8. Listening
  <2>1. ASSUME NEW x \in opening PROVE x[2] <= number[x[1]]
    <3>1. x[1] \in Accounts /\ x[2] = 1 /\ conn[x[1]] # "None"
      BY <1>3
    <3>2. number[x[1]] = 1
      BY <3>1, <1>4
    <3> QED
      BY <3>1, <3>2
  <2> QED
    BY <2>1, <1>1, <1>4, <1>6 DEF Listening
<1> QED
  BY <1>1, <1>5, <1>7, <1>8 DEF RosterInv, Listed

\* A new connection.
LEMMA RosterConnected ==
    ASSUME RosterInv, NEW a \in Accounts, onConnectionChanged(a) PROVE RosterInv'
<1>1. /\ conn[a] = "None" /\ number[a] < MaxConnections[a]
      /\ conn' = [conn EXCEPT ![a] = "Waiting"] /\ number' = [number EXCEPT ![a] = @ + 1]
      /\ opening' = opening \cup {<<a, number'[a]>>}
      /\ UNCHANGED <<enabled, late, roster, wired, relayed, rows>>
  BY DEF onConnectionChanged, NoChange
<1> DEFINE k == number[a] + 1
<1>2. /\ number[a] \in Nat /\ MaxConnections[a] \in Nat /\ k \in Nat /\ k <= MaxConnections[a] /\ k # 0
      /\ number[a] < k /\ a \notin wired /\ k \in 1 .. MaxConnections[a]
  <2>1. number[a] \in Nat /\ MaxConnections[a] \in Nat /\ a \notin wired
    BY <1>1, RosterParts, EntryParts
  <2> QED
    BY <2>1, <1>1
<1>3. /\ conn' \in [Accounts -> {"None", "Waiting", "Success"}] /\ number' \in [Accounts -> Nat]
      /\ conn'[a] = "Waiting" /\ number'[a] = k
      /\ \A b \in Accounts : b # a => conn'[b] = conn[b] /\ number'[b] = number[b]
  BY <1>1, <1>2, RosterParts
<1> HIDE DEF k
<1>4. <<a, k>> \in Connections /\ opening' = opening \cup {<<a, k>>}
  BY <1>1, <1>2, <1>3, EntryParts
<1>5. RowTypes'
  <2>1. \A b \in Accounts : number'[b] <= MaxConnections[b] /\ (conn'[b] # "None" => number'[b] # 0)
    BY <1>2, <1>3, RosterParts
  <2> QED
    BY <1>1, <1>3, <1>4, <2>1 DEF RosterInv, RowTypes
<1>6. Listening'
  <2>1. \A x \in opening' : x[2] <= number'[x[1]]
    <3> SUFFICES ASSUME NEW x \in opening' PROVE x[2] <= number'[x[1]]
      OBVIOUS
    <3>1. CASE x = <<a, k>>
      BY <3>1, <1>2, <1>3
    <3>2. CASE x \in opening
      <4>1. x[1] \in Accounts /\ x[2] \in Nat /\ x[2] <= number[x[1]]
        <5>1. x \in Connections /\ x[2] <= number[x[1]]
          BY <3>2, RosterParts
        <5> QED
          BY <5>1, EntryParts
      <4> QED
        BY <4>1, <1>2, <1>3
    <3> QED
      BY <3>1, <3>2, <1>4
  <2>2. \A b \in Accounts : b \in wired' <=> conn'[b] # "None" /\ <<b, number'[b]>> \notin opening'
    <3> SUFFICES ASSUME NEW b \in Accounts
                 PROVE  b \in wired' <=> conn'[b] # "None" /\ <<b, number'[b]>> \notin opening'
      OBVIOUS
    <3>1. CASE b = a
      BY <3>1, <1>1, <1>2, <1>3, <1>4
    <3>2. CASE b # a
      <4>1. <<b, number[b]>> # <<a, k>>
        BY <3>2
      <4> QED
        BY <3>2, <4>1, <1>1, <1>3, <1>4, RosterParts
    <3> QED
      BY <3>1, <3>2
  <2>3. \A b \in Accounts : b \in relayed' <=> b \in wired' /\ conn'[b] = "Success"
    BY <1>1, <1>2, <1>3, RosterParts
  <2> QED
    BY <2>1, <2>2, <2>3, <1>1, RosterParts DEF Listening
<1>7. ASSUME NEW e \in ToSet(rows) PROVE RowFits(e)'
  <2> DEFINE b == AccountOf[e[1]]
  <2>1. RowFits(e) /\ b \in Accounts /\ e[2] \in Nat /\ Origin(e) = <<b, e[2]>>
    BY RosterParts, EntryParts DEF Origin
  <2>2. /\ e[2] <= number[b] /\ Origin(e) \notin opening
        /\ Live(b, e[2]) => conn[b] = "Success"
        /\ Live(b, e[2]) \/ Origin(e) \in late
    BY <2>1 DEF RowFits
  <2> HIDE DEF b
  <2>3. e[2] <= number'[b] /\ Origin(e) # <<a, k>>
    BY <2>1, <2>2, <1>2, <1>3, RosterParts
  <2>4. Live(b, e[2])' <=> Live(b, e[2])
    BY <2>1, <2>2, <1>1, <1>2, <1>3 DEF Live
  <2>5. Live(b, e[2]) => conn'[b] = conn[b]
    BY <1>1, <1>3, <2>1 DEF Live
  <2>6. /\ e[2] <= number'[b] /\ Origin(e) \notin opening'
        /\ Live(b, e[2])' => conn'[b] = "Success"
        /\ Live(b, e[2])' \/ Origin(e) \in late'
    BY <2>2, <2>3, <2>4, <2>5, <1>1, <1>4
  <2> QED
    BY <2>6 DEF RowFits, b, Origin
<1>8. Listed'
  <2> SUFFICES ASSUME NEW b \in relayed, NEW e \in Entries, Origin(e) = <<b, number'[b]>>
               PROVE  e \in ToSet(rows) <=> e[1] \in roster[<<b, number'[b]>>]
    BY <1>1 DEF Listed, Origin
  <2>1. b \in Accounts /\ b # a
    BY <1>2, RosterParts
  <2> QED
    BY <2>1, <1>3 DEF RosterInv, Listed
<1> QED
  BY <1>1, <1>5, <1>6, <1>7, <1>8 DEF RosterInv

\* A connection is ready, or too late.
LEMMA RosterReady ==
    ASSUME RosterInv, NEW a \in Accounts, NEW n \in 1 .. MaxConnections[a], onConnectionReady(a, n)
    PROVE  /\ RosterInv'
           /\ \/ NoChange
              \/ /\ onContactsChanged(Known(a, n), {}) /\ Known(a, n) \in SUBSET Entries
                 /\ IsFiniteSet(Known(a, n)) /\ Known(a, n) \cap ToSet(rows) = {}
<1> DEFINE K == Known(a, n)
<1>1. /\ <<a, n>> \in opening /\ opening' = opening \ {<<a, n>>}
      /\ wired' = IF Live(a, n) THEN wired \cup {a} ELSE wired
      /\ UNCHANGED <<enabled, conn, number, roster>>
      /\ IF Live(a, n) THEN Announce(a, n, conn[a]) /\ UNCHANGED late
         ELSE \/ NoChange /\ UNCHANGED <<relayed, late>>
              \/ Announce(a, n, "Success") /\ late' = late \cup {<<a, n>>}
  BY DEF onConnectionReady
<1>2. /\ n \in Nat /\ <<a, n>>[1] = a /\ <<a, n>>[2] = n /\ n <= number[a] /\ number[a] \in Nat
      /\ conn[a] \in {"None", "Waiting", "Success"}
      /\ Live(a, n) <=> conn[a] # "None" /\ number[a] = n
  <2>1. <<a, n>>[1] = a /\ <<a, n>>[2] = n
    OBVIOUS
  <2>2. <<a, n>>[2] <= number[<<a, n>>[1]]
    BY <1>1, RosterParts
  <2>3. n \in Nat
    BY EntryParts
  <2> QED
    BY <2>1, <2>2, <2>3, RosterParts DEF Live
<1>3. /\ K \in SUBSET Entries /\ IsFiniteSet(K)
      /\ \A e \in Entries : e \in K <=> Origin(e) = <<a, n>> /\ e[1] \in roster[<<a, n>>]
  BY KnownEntries DEF RosterInv
<1>4. \A e \in ToSet(rows) : Origin(e) # <<a, n>>
  BY <1>1, RosterParts DEF RowFits
<1>5. K \cap ToSet(rows) = {}
  BY <1>3, <1>4
<1> HIDE DEF K
<1>6. \/ /\ NoChange /\ UNCHANGED <<relayed, late>> /\ (Live(a, n) => conn[a] = "Waiting")
      \/ /\ onContactsChanged(K, {}) /\ Live(a, n) /\ conn[a] = "Success"
         /\ relayed' = relayed \cup {a} /\ late' = late
      \/ /\ onContactsChanged(K, {}) /\ ~Live(a, n) /\ relayed' = relayed
         /\ late' = late \cup {<<a, n>>}
  BY <1>1, <1>2 DEF Announce, K
<1>7. /\ rows' \in Seq(Entries) /\ Distinct(rows')
      /\ \/ /\ ToSet(rows') = ToSet(rows) /\ relayed' = relayed /\ late' = late
            /\ (Live(a, n) => conn[a] = "Waiting")
         \/ /\ ToSet(rows') = ToSet(rows) \cup K /\ Live(a, n) /\ conn[a] = "Success"
            /\ relayed' = relayed \cup {a} /\ late' = late
         \/ /\ ToSet(rows') = ToSet(rows) \cup K /\ ~Live(a, n) /\ relayed' = relayed
            /\ late' = late \cup {<<a, n>>}
  <2>1. rows \in Seq(Entries) /\ Distinct(rows)
    BY RosterParts
  <2>2. onContactsChanged(K, {}) =>
            rows' \in Seq(Entries) /\ Distinct(rows') /\ ToSet(rows') = ToSet(rows) \cup K
    <3>1. onContactsChanged(K, {}) =>
            /\ rows' \in Seq(Entries) /\ Distinct(rows')
            /\ ToSet(rows') = (ToSet(rows) \cup K) \ {}
      BY <2>1, <1>3, <1>5, ContactsChanged
    <3> QED
      BY <3>1
  <2>3. NoChange => rows' = rows
    BY DEF NoChange
  <2>4. CASE NoChange /\ UNCHANGED <<relayed, late>> /\ (Live(a, n) => conn[a] = "Waiting")
    BY <2>1, <2>3, <2>4
  <2>5. CASE /\ onContactsChanged(K, {}) /\ Live(a, n) /\ conn[a] = "Success"
             /\ relayed' = relayed \cup {a} /\ late' = late
    BY <2>2, <2>5
  <2>6. CASE /\ onContactsChanged(K, {}) /\ ~Live(a, n) /\ relayed' = relayed
             /\ late' = late \cup {<<a, n>>}
    BY <2>2, <2>6
  <2> QED
    BY <2>4, <2>5, <2>6, <1>6
<1>8. RowTypes'
  BY <1>1, <1>7 DEF RosterInv, RowTypes
<1>9. Listening'
  <2>1. ASSUME NEW b \in Accounts
        PROVE  /\ b \in wired' <=> conn[b] # "None" /\ <<b, number[b]>> \notin opening'
               /\ b \in relayed' <=> b \in wired' /\ conn[b] = "Success"
    <3>1. /\ b \in wired <=> conn[b] # "None" /\ <<b, number[b]>> \notin opening
          /\ b \in relayed <=> b \in wired /\ conn[b] = "Success"
      BY RosterParts
    <3>2. CASE b # a
      <4>1. <<b, number[b]>> # <<a, n>>
        BY <3>2
      <4> QED
        BY <3>1, <3>2, <4>1, <1>1, <1>7
    <3>3. CASE b = a /\ Live(a, n)
      BY <3>1, <3>3, <1>1, <1>2, <1>7
    <3>4. CASE b = a /\ ~Live(a, n)
      <4>1. conn[a] = "None" \/ <<a, number[a]>> # <<a, n>>
        BY <3>4, <1>2
      <4> QED
        BY <3>1, <3>4, <4>1, <1>1, <1>2, <1>7
    <3> QED
      BY <3>2, <3>3, <3>4
  <2>2. \A x \in opening' : x[2] <= number[x[1]]
    BY <1>1, RosterParts
  <2> QED
    BY <2>1, <2>2, <1>1, RosterParts DEF Listening
<1>10. ASSUME NEW e \in ToSet(rows') PROVE RowFits(e)'
  <2>1. CASE e \in ToSet(rows)
    <3>1. RowFits(e)
      BY <2>1, RosterParts
    <3> QED
      BY <3>1, <1>1, <1>7 DEF RowFits, Origin, Live
  <2>2. CASE e \notin ToSet(rows)
    <3>1. /\ e \in K /\ AccountOf[e[1]] = a /\ e[2] = n /\ Origin(e) = <<a, n>>
      <4>1. e \in K /\ Origin(e) = <<a, n>>
        BY <2>2, <1>3, <1>7
      <4>2. Origin(e)[1] = AccountOf[e[1]] /\ Origin(e)[2] = e[2]
        BY <4>1, <1>3, EntryParts
      <4> QED
        BY <4>1, <4>2, <1>2
    <3>2. Live(a, n) => conn[a] = "Success"
      BY <2>2, <3>1, <1>7
    <3>3. Live(a, n) \/ <<a, n>> \in late'
      BY <2>2, <3>1, <1>7
    <3> QED
      BY <3>1, <3>2, <3>3, <1>1, <1>2 DEF RowFits, Origin, Live
  <2> QED
    BY <2>1, <2>2
<1>11. Listed'
  <2> SUFFICES ASSUME NEW b \in relayed', NEW e \in Entries, Origin(e) = <<b, number[b]>>
               PROVE  e \in ToSet(rows') <=> e[1] \in roster[<<b, number[b]>>]
    BY <1>1 DEF Listed, Origin
  <2>1. CASE Origin(e) = <<a, n>>
    <3>1. a = b /\ n = number[b]
      BY <2>1
    <3>2. a \notin relayed
      BY <3>1, <1>1, RosterParts
    <3>3. ToSet(rows') = ToSet(rows) \cup K /\ roster[<<b, number[b]>>] = roster[<<a, n>>]
      BY <3>1, <3>2, <1>7
    <3> QED
      BY <3>3, <2>1, <1>3, <1>4
  <2>2. CASE Origin(e) # <<a, n>>
    <3>1. e \notin K
      BY <2>2, <1>3
    <3>2. b \in relayed
      <4>1. CASE b = a
        <5>1. number[a] # n
          BY <2>2, <4>1
        <5> QED
          BY <5>1, <4>1, <1>2, <1>7
      <4>2. CASE b # a
        BY <4>2, <1>7
      <4> QED
        BY <4>1, <4>2
    <3>3. e \in ToSet(rows) <=> e[1] \in roster[<<b, number[b]>>]
      BY <3>2 DEF RosterInv, Listed
    <3> QED
      BY <3>1, <3>3, <1>7
  <2> QED
    BY <2>1, <2>2
<1>12. RosterInv'
  BY <1>7, <1>8, <1>9, <1>10, <1>11 DEF RosterInv
<1> QED
  BY <1>3, <1>5, <1>6, <1>12 DEF K

\* A list is retrieved.
LEMMA RosterRetrieved ==
    ASSUME RosterInv, NEW a \in Accounts, NEW R \in SUBSET Contacts, ListRetrieved(a, R)
    PROVE  /\ RosterInv'
           /\ \/ NoChange
              \/ \E added \in SUBSET Entries :
                   /\ IsFiniteSet(added) /\ added \cap ToSet(rows) = {} /\ onContactsChanged(added, {})
<1> DEFINE N == number[a]
           S == {<<c, N>> : c \in R}
<1>1. /\ conn[a] = "Waiting" /\ \A c \in R : AccountOf[c] = a
      /\ conn' = [conn EXCEPT ![a] = "Success"]
      /\ roster' = [roster EXCEPT ![<<a, N>>] = R]
      /\ UNCHANGED <<enabled, late, number, opening, wired>>
      /\ IF a \in wired THEN relayed' = relayed \cup {a} /\ onContactsChanged(S, {})
         ELSE NoChange /\ UNCHANGED relayed
  BY DEF ListRetrieved
<1>2. /\ N \in 1 .. MaxConnections[a] /\ a \notin relayed /\ <<a, N>> \in Connections /\ a \in Accounts
      /\ a \in wired <=> <<a, N>> \notin opening
  <2>1. N \in Nat /\ N <= MaxConnections[a] /\ N # 0 /\ MaxConnections[a] \in Nat
    BY <1>1, RosterParts, EntryParts
  <2>2. a \notin relayed /\ (a \in wired <=> <<a, N>> \notin opening)
    BY <1>1, RosterParts
  <2>3. N \in 1 .. MaxConnections[a]
    BY <2>1
  <2> QED
    BY <2>2, <2>3, EntryParts
<1>3. /\ S \in SUBSET Entries /\ IsFiniteSet(S)
      /\ \A e \in Entries : e \in S <=> Origin(e) = <<a, N>> /\ e[1] \in R
  <2> HIDE DEF N
  <2>1. N \in 1 .. MaxConnections[a] /\ R \in SUBSET Contacts /\ \A c \in R : AccountOf[c] = a
    BY <1>1, <1>2
  <2> QED
    BY <2>1, EntriesWith
<1>4. ASSUME NEW e \in ToSet(rows) PROVE Origin(e) # <<a, N>>
  <2> SUFFICES ASSUME Origin(e) = <<a, N>> PROVE FALSE
    OBVIOUS
  <2>1. AccountOf[e[1]] = a /\ e[2] = N
    BY DEF Origin
  <2>2. RowFits(e)
    BY RosterParts
  <2> QED
    BY <2>1, <2>2, <1>1 DEF RowFits, Live
<1>5. S \cap ToSet(rows) = {}
  BY <1>3, <1>4
<1>a. rows \in Seq(Entries) /\ Distinct(rows)
  BY RosterParts
<1> HIDE DEF S
<1>6. onContactsChanged(S, {}) =>
        rows' \in Seq(Entries) /\ Distinct(rows') /\ ToSet(rows') = ToSet(rows) \cup S
  <2>1. onContactsChanged(S, {}) =>
          /\ rows' \in Seq(Entries) /\ Distinct(rows')
          /\ ToSet(rows') = (ToSet(rows) \cup S) \ {}
    BY <1>a, <1>3, <1>5, ContactsChanged
  <2> QED
    BY <2>1
<1>7. /\ rows' \in Seq(Entries) /\ Distinct(rows')
      /\ \/ a \notin wired /\ ToSet(rows') = ToSet(rows) /\ relayed' = relayed
         \/ a \in wired /\ ToSet(rows') = ToSet(rows) \cup S /\ relayed' = relayed \cup {a}
  BY <1>1, <1>6, <1>a DEF NoChange
<1>8. /\ conn' \in [Accounts -> {"None", "Waiting", "Success"}] /\ conn'[a] = "Success"
      /\ \A b \in Accounts : (b # a => conn'[b] = conn[b]) /\ (conn'[b] = "None" <=> conn[b] = "None")
      /\ roster' \in [Connections -> SUBSET Contacts] /\ roster'[<<a, N>>] = R
      /\ \A x \in Connections : x # <<a, N>> => roster'[x] = roster[x]
  <2>1. conn \in [Accounts -> {"None", "Waiting", "Success"}]
    BY RosterParts
  <2>2. roster \in [Connections -> SUBSET Contacts]
    BY RosterParts
  <2>3. /\ roster' \in [Connections -> SUBSET Contacts] /\ roster'[<<a, N>>] = R
        /\ \A x \in Connections : x # <<a, N>> => roster'[x] = roster[x]
    <3> DEFINE x == <<a, N>>
    <3>1. roster' = [roster EXCEPT ![x] = R] /\ x \in Connections
      BY <1>1, <1>2
    <3> HIDE DEF x
    <3>2. /\ roster' \in [Connections -> SUBSET Contacts] /\ roster'[x] = R
          /\ \A y \in Connections : y # x => roster'[y] = roster[y]
      BY <3>1, <2>2
    <3> QED
      BY <3>2 DEF x
  <2>4. /\ conn' \in [Accounts -> {"None", "Waiting", "Success"}] /\ conn'[a] = "Success"
        /\ \A b \in Accounts : b # a => conn'[b] = conn[b]
    BY <2>1, <1>1
  <2> QED
    BY <2>3, <2>4, <1>1
<1>9. RowTypes'
  <2>1. \A b \in Accounts : number'[b] <= MaxConnections[b] /\ (conn'[b] # "None" => number'[b] # 0)
    BY <1>1, <1>8, RosterParts
  <2> QED
    BY <2>1, <1>1, <1>7, <1>8, <1>2 DEF RosterInv, RowTypes
<1>10. Listening'
  <2>1. ASSUME NEW b \in Accounts
        PROVE  /\ b \in wired <=> conn'[b] # "None" /\ <<b, number[b]>> \notin opening
               /\ b \in relayed' <=> b \in wired /\ conn'[b] = "Success"
    BY <1>2, <1>7, <1>8, RosterParts
  <2>2. ASSUME NEW x \in Connections, NEW c \in roster'[x] PROVE AccountOf[c] = x[1]
    BY <2>2, <1>1, <1>8, RosterParts
  <2> QED
    BY <2>1, <2>2, <1>1, RosterParts DEF Listening
<1>11. ASSUME NEW e \in ToSet(rows') PROVE RowFits(e)'
  <2>1. CASE e \in ToSet(rows)
    <3> DEFINE b == AccountOf[e[1]]
    <3>1. RowFits(e) /\ b \in Accounts
      BY <2>1, RosterParts, EntryParts
    <3>2. /\ e[2] <= number[b] /\ Origin(e) \notin opening
          /\ Live(b, e[2]) => conn[b] = "Success"
          /\ Live(b, e[2]) \/ Origin(e) \in late
      BY <3>1 DEF RowFits
    <3> HIDE DEF b
    <3>3. Live(b, e[2])' <=> Live(b, e[2])
      BY <3>1, <1>1, <1>8 DEF Live
    <3>4. conn[b] = "Success" => conn'[b] = "Success"
      BY <3>1, <1>1, <1>8
    <3>5. /\ e[2] <= number'[b] /\ Origin(e) \notin opening'
          /\ Live(b, e[2])' => conn'[b] = "Success"
          /\ Live(b, e[2])' \/ Origin(e) \in late'
      BY <3>2, <3>3, <3>4, <1>1
    <3> QED
      BY <3>5 DEF RowFits, b, Origin
  <2>2. CASE e \notin ToSet(rows)
    <3>1. /\ e \in S /\ a \in wired /\ AccountOf[e[1]] = a /\ e[2] = N /\ Origin(e) = <<a, N>>
      <4>1. e \in S /\ a \in wired /\ Origin(e) = <<a, N>>
        BY <2>2, <1>3, <1>7
      <4>2. Origin(e)[1] = AccountOf[e[1]] /\ Origin(e)[2] = e[2] /\ <<a, N>>[1] = a /\ <<a, N>>[2] = N
        BY <4>1, <1>3, EntryParts
      <4> QED
        BY <4>1, <4>2
    <3>2. N <= number'[a] /\ <<a, N>> \notin opening' /\ conn'[a] = "Success" /\ number'[a] = N
      BY <3>1, <1>1, <1>2, <1>8, RosterParts
    <3> QED
      BY <3>1, <3>2 DEF RowFits, Origin, Live
  <2> QED
    BY <2>1, <2>2
<1>12. Listed'
  <2> SUFFICES ASSUME NEW b \in relayed', NEW e \in Entries, Origin(e) = <<b, number[b]>>
               PROVE  e \in ToSet(rows') <=> e[1] \in roster'[<<b, number[b]>>]
    BY <1>1 DEF Listed, Origin
  <2>1. CASE b = a
    <3>1. ToSet(rows') = ToSet(rows) \cup S
      <4>1. a \in relayed' /\ relayed' # relayed
        BY <2>1, <1>2
      <4> QED
        BY <4>1, <1>7
    <3> QED
      BY <3>1, <2>1, <1>3, <1>4, <1>8
  <2>2. CASE b # a
    <3>1. b \in relayed /\ <<b, number[b]>> # <<a, N>>
      BY <2>2, <1>7
    <3>2. <<b, number[b]>> \in Connections
      BY EntryParts
    <3>3. e \in ToSet(rows) <=> e[1] \in roster[<<b, number[b]>>]
      BY <3>1 DEF RosterInv, Listed
    <3> QED
      BY <3>1, <3>2, <3>3, <1>3, <1>7, <1>8
  <2> QED
    BY <2>1, <2>2
<1>13. RosterInv'
  BY <1>7, <1>9, <1>10, <1>11, <1>12 DEF RosterInv
<1>14. NoChange \/ onContactsChanged(S, {})
  BY <1>1 DEF S
<1> QED
  BY <1>3, <1>5, <1>13, <1>14

\* A contact joins or leaves a list.
LEMMA RosterChanged ==
    ASSUME RosterInv, NEW c \in Contacts, allKnownContactsChanged(c)
    PROVE  /\ RosterInv'
           /\ \/ NoChange
              \/ \E added \in SUBSET Entries, removed \in SUBSET Entries :
                   /\ IsFiniteSet(added) /\ added \cap ToSet(rows) = {}
                   /\ onContactsChanged(added, removed)
<1> DEFINE a == AccountOf[c]
           x == <<a, number[a]>>
           e0 == <<c, number[a]>>
           added == IF c \in roster[x] THEN {} ELSE {e0}
           removed == IF c \in roster[x] THEN {e0} ELSE {}
<1>1. /\ conn[a] = "Success"
      /\ roster' = [roster EXCEPT ![x] = IF c \in @ THEN @ \ {c} ELSE @ \cup {c}]
      /\ UNCHANGED <<enabled, late, conn, number, opening, wired, relayed>>
      /\ a \notin relayed => NoChange
      /\ a \in relayed => onContactsChanged(added, removed)
  BY DEF allKnownContactsChanged
<1>2. /\ a \in Accounts /\ x \in Connections /\ e0 \in Entries /\ Origin(e0) = x /\ e0[1] = c
      /\ number[a] \in Nat /\ e0[2] = number[a]
      /\ a \in relayed <=> x \notin opening
  <2>1. a \in Accounts
    BY EntryParts
  <2>2. number[a] \in Nat /\ number[a] <= MaxConnections[a] /\ number[a] # 0 /\ MaxConnections[a] \in Nat
    BY <1>1, <2>1, RosterParts, EntryParts
  <2>3. number[a] \in 1 .. MaxConnections[a]
    BY <2>2
  <2>4. a \in relayed <=> x \notin opening
    BY <1>1, <2>1, RosterParts
  <2>5. e0[1] = c /\ e0[2] = number[a]
    OBVIOUS
  <2> QED
    BY <2>1, <2>2, <2>3, <2>4, <2>5, EntryParts DEF Origin
<1> HIDE DEF e0
<1>3. /\ \A y \in Connections : \A d \in roster[y] : AccountOf[d] = y[1]
      /\ roster \in [Connections -> SUBSET Contacts]
  BY RosterParts
<1>4. /\ roster' \in [Connections -> SUBSET Contacts]
      /\ roster'[x] = IF c \in roster[x] THEN roster[x] \ {c} ELSE roster[x] \cup {c}
      /\ \A y \in Connections : y # x => roster'[y] = roster[y]
  <2> HIDE DEF x
  <2>1. roster[x] \cup {c} \in SUBSET Contacts /\ roster[x] \ {c} \in SUBSET Contacts
    BY <1>2, <1>3
  <2> QED
    BY <1>1, <1>2, <1>3, <2>1
<1>5. a \in relayed => (e0 \in ToSet(rows) <=> c \in roster[x])
  BY <1>2 DEF RosterInv, Listed
<1>a. rows \in Seq(Entries) /\ Distinct(rows) /\ ToSet(rows) \subseteq Entries
  BY RosterParts
<1>6. /\ added \in SUBSET Entries /\ removed \in SUBSET Entries /\ IsFiniteSet(added)
      /\ added \subseteq {e0}
      /\ a \in relayed => added \cap ToSet(rows) = {}
  <2>1. IsFiniteSet({e0}) /\ IsFiniteSet({})
    BY FS_Singleton, FS_EmptySet
  <2> QED
    BY <1>2, <1>5, <2>1
<1> HIDE DEF added, removed
<1>7. a \in relayed =>
        /\ rows' \in Seq(Entries) /\ Distinct(rows')
        /\ ToSet(rows') = (ToSet(rows) \cup added) \ removed
  BY <1>a, <1>1, <1>6, ContactsChanged
<1>8. /\ rows' \in Seq(Entries) /\ Distinct(rows')
      /\ a \notin relayed => ToSet(rows') = ToSet(rows)
      /\ a \in relayed => ToSet(rows') = (ToSet(rows) \cup added) \ removed
  BY <1>1, <1>7, <1>a DEF NoChange
<1>9. \A e \in Entries : e # e0 => (e \in ToSet(rows') <=> e \in ToSet(rows))
  BY <1>8 DEF added, removed
<1>10. a \in relayed => (e0 \in ToSet(rows') <=> c \in roster'[x])
  <2> HIDE DEF a, x
  <2> QED
  BY <1>4, <1>5, <1>8 DEF added, removed
<1>11. ToSet(rows') \subseteq Entries
  BY <1>8, <1>a, <1>6
<1>12. RowTypes'
  BY <1>1, <1>4, <1>8 DEF RosterInv, RowTypes
<1>13. Listening'
  <2>1. ASSUME NEW y \in Connections, NEW d \in roster'[y] PROVE AccountOf[d] = y[1]
    <3>1. CASE y = x
      <4>1. d \in roster[x] \/ d = c
        BY <3>1, <2>1, <1>4
      <4> QED
        BY <4>1, <3>1, <1>2, <1>3
    <3>2. CASE y # x
      BY <3>2, <2>1, <1>3, <1>4
    <3> QED
      BY <3>1, <3>2
  <2> QED
    BY <2>1, <1>1, RosterParts DEF Listening
<1>14. ASSUME NEW e \in ToSet(rows') PROVE RowFits(e)'
  <2>1. CASE e \in ToSet(rows)
    <3>1. RowFits(e)
      BY <2>1, RosterParts
    <3> QED
      BY <3>1, <1>1 DEF RowFits, Origin, Live
  <2>2. CASE e \notin ToSet(rows)
    <3>1. e = e0 /\ a \in relayed
      BY <2>2, <1>8, <1>9, <1>11
    <3>2. /\ AccountOf[e0[1]] = a /\ e0[2] = number[a] /\ number[a] <= number[a]
          /\ Origin(e0) \notin opening
      BY <3>1, <1>2
    <3> HIDE DEF a
    <3> QED
      BY <3>1, <3>2, <1>1 DEF RowFits, Origin, Live
  <2> QED
    BY <2>1, <2>2
<1>15. Listed'
  <2> SUFFICES ASSUME NEW b \in relayed, NEW e \in Entries, Origin(e) = <<b, number[b]>>
               PROVE  e \in ToSet(rows') <=> e[1] \in roster'[<<b, number[b]>>]
    BY <1>1 DEF Listed, Origin
  <2>1. b \in Accounts /\ e = <<e[1], e[2]>>
    BY RosterParts, EntryParts
  <2>2. e \in ToSet(rows) <=> e[1] \in roster[<<b, number[b]>>]
    BY DEF RosterInv, Listed
  <2>3. <<b, number[b]>> \in Connections
    BY EntryParts
  <2>4. CASE e = e0
    <3>1. Origin(e) = x
      BY <2>4, <1>2
    <3>2. b = a
      BY <3>1
    <3> QED
      BY <2>4, <3>2, <1>2, <1>10
  <2>5. CASE e # e0 /\ b = a
    <3>1. e[1] # c
      <4>1. e[2] = number[a]
        BY <2>5 DEF Origin
      <4> QED
        BY <2>1, <2>5, <4>1 DEF e0
    <3> QED
      BY <3>1, <2>2, <2>5, <1>4, <1>9
  <2>6. CASE e # e0 /\ b # a
    <3>1. <<b, number[b]>> # x
      BY <2>6
    <3> QED
      BY <3>1, <2>2, <2>3, <2>6, <1>4, <1>9
  <2> QED
    BY <2>4, <2>5, <2>6
<1>16. RosterInv'
  BY <1>8, <1>12, <1>13, <1>14, <1>15 DEF RosterInv
<1> QED
  BY <1>1, <1>6, <1>16

\* A connection goes.
LEMMA RosterDropped ==
    ASSUME RosterInv, NEW a \in Accounts, ConnectionInvalidated(a)
    PROVE  /\ RosterInv'
           /\ NoChange \/ \E removed \in SUBSET Entries : onContactsChanged({}, removed)
           /\ ToSet(rows') = {e \in ToSet(rows) : Origin(e) # <<a, number[a]>>}
<1> DEFINE gone == {e \in ToSet(rows) : AccountOf[e[1]] = a /\ e[2] = number[a]}
<1>1. /\ conn[a] # "None" /\ conn' = [conn EXCEPT ![a] = "None"]
      /\ wired' = wired \ {a} /\ relayed' = relayed \ {a}
      /\ UNCHANGED <<enabled, late, number, opening, roster>>
      /\ IF gone = {} THEN NoChange ELSE onContactsChanged({}, gone)
  BY DEF ConnectionInvalidated
<1>a. rows \in Seq(Entries) /\ Distinct(rows) /\ ToSet(rows) \subseteq Entries
  BY RosterParts
<1>2. gone \in SUBSET Entries /\ gone \subseteq ToSet(rows)
  BY <1>a
<1>b. \A e \in ToSet(rows) : e \in gone <=> Origin(e) = <<a, number[a]>>
  BY DEF Origin
<1> HIDE DEF gone
<1>3. onContactsChanged({}, gone) =>
        /\ rows' \in Seq(Entries) /\ Distinct(rows') /\ ToSet(rows') = (ToSet(rows) \cup {}) \ gone
  <2>1. IsFiniteSet({}) /\ {} \in SUBSET Entries /\ {} \cap ToSet(rows) = {}
    BY FS_EmptySet
  <2> QED
    BY <2>1, <1>a, ContactsChanged
<1>4. /\ rows' \in Seq(Entries) /\ Distinct(rows') /\ ToSet(rows') = ToSet(rows) \ gone
  BY <1>1, <1>3, <1>a DEF NoChange
<1>5. ToSet(rows') = {e \in ToSet(rows) : Origin(e) # <<a, number[a]>>}
  BY <1>4, <1>b
<1>6. /\ conn' \in [Accounts -> {"None", "Waiting", "Success"}] /\ conn'[a] = "None"
      /\ \A b \in Accounts : b # a => conn'[b] = conn[b]
  BY <1>1, RosterParts
<1>7. RowTypes'
  <2>1. \A b \in Accounts : number'[b] <= MaxConnections[b] /\ (conn'[b] # "None" => number'[b] # 0)
    BY <1>1, <1>6, RosterParts
  <2> QED
    BY <2>1, <1>1, <1>4, <1>6 DEF RosterInv, RowTypes
<1>8. Listening'
  <2>1. ASSUME NEW b \in Accounts
        PROVE  /\ b \in wired' <=> conn'[b] # "None" /\ <<b, number'[b]>> \notin opening'
               /\ b \in relayed' <=> b \in wired' /\ conn'[b] = "Success"
    BY <1>1, <1>6, RosterParts
  <2> QED
    BY <2>1, <1>1, RosterParts DEF Listening
<1>9. ASSUME NEW e \in ToSet(rows') PROVE RowFits(e)'
  <2> DEFINE b == AccountOf[e[1]]
  <2>1. RowFits(e) /\ b \in Accounts /\ Origin(e) # <<a, number[a]>> /\ Origin(e) = <<b, e[2]>>
    BY <1>5, <1>a, RosterParts, EntryParts DEF Origin
  <2>2. /\ e[2] <= number[b] /\ Origin(e) \notin opening
        /\ Live(b, e[2]) => conn[b] = "Success"
        /\ Live(b, e[2]) \/ Origin(e) \in late
    BY <2>1 DEF RowFits
  <2> HIDE DEF b
  <2>3. b = a => ~Live(b, e[2]) /\ ~Live(b, e[2])'
    BY <2>1, <1>1, <1>6 DEF Live
  <2>4. b # a => (Live(b, e[2])' <=> Live(b, e[2])) /\ conn'[b] = conn[b]
    BY <2>1, <1>1, <1>6 DEF Live
  <2>5. /\ e[2] <= number'[b] /\ Origin(e) \notin opening'
        /\ Live(b, e[2])' => conn'[b] = "Success"
        /\ Live(b, e[2])' \/ Origin(e) \in late'
    BY <2>2, <2>3, <2>4, <1>1
  <2> QED
    BY <2>5 DEF RowFits, b, Origin
<1>10. Listed'
  <2> SUFFICES ASSUME NEW b \in relayed', NEW e \in Entries, Origin(e) = <<b, number[b]>>
               PROVE  e \in ToSet(rows') <=> e[1] \in roster[<<b, number[b]>>]
    BY <1>1 DEF Listed, Origin
  <2>1. b \in relayed /\ b # a
    BY <1>1
  <2>2. Origin(e) # <<a, number[a]>>
    BY <2>1
  <2> QED
    BY <2>1, <2>2, <1>5 DEF RosterInv, Listed
<1>11. RosterInv'
  BY <1>4, <1>7, <1>8, <1>9, <1>10 DEF RosterInv
<1> QED
  BY <1>1, <1>2, <1>5, <1>11

\* The other actions have nothing to do with the rows.
LEMMA RosterLeft ==
    ASSUME RosterInv, enabled' \in SUBSET Accounts, UNCHANGED <<late, connVars, rows>>
    PROVE  RosterInv'
<1>1. UNCHANGED <<late, conn, number, opening, roster, wired, relayed, rows>>
  BY DEF connVars
<1> QED
  BY <1>1 DEF RosterInv, RowTypes, Listening, Distinct, RowFits, Origin, Live, Listed

LEMMA RosterKept == RosterInv /\ [Next]_vars => RosterInv'
<1> SUFFICES ASSUME RosterInv, [Next]_vars PROVE RosterInv'
  OBVIOUS
<1>1. enabled \in SUBSET Accounts
  BY DEF RosterInv, RowTypes
<1>2. ASSUME NEW a \in Accounts, AccountEnabledChanged(a) PROVE RosterInv'
  <2>1. enabled' \in SUBSET Accounts /\ UNCHANGED <<late, connVars, rows>>
    BY <1>1, <1>2 DEF AccountEnabledChanged
  <2> QED
    BY <2>1, RosterLeft
<1>3. ASSUME NEW a \in Accounts, onAccountChanged(a) PROVE RosterInv'
  <2>1. enabled' \in SUBSET Accounts /\ UNCHANGED <<late, connVars, rows>>
    BY <1>1, <1>3 DEF onAccountChanged
  <2> QED
    BY <2>1, RosterLeft
<1>4. ASSUME NEW e \in Entries, NEW G \in SUBSET Groups, onChanged(e, G) PROVE RosterInv'
  <2>1. enabled' \in SUBSET Accounts /\ UNCHANGED <<late, connVars, rows>>
    BY <1>1, <1>4 DEF onChanged
  <2> QED
    BY <2>1, RosterLeft
<1>5. ASSUME NEW m \in Modes, setGroupMode(m) PROVE RosterInv'
  <2>1. enabled' \in SUBSET Accounts /\ UNCHANGED <<late, connVars, rows>>
    BY <1>1, <1>5 DEF setGroupMode
  <2> QED
    BY <2>1, RosterLeft
<1>6. CASE onLoad
  <2>1. enabled' \in SUBSET Accounts /\ UNCHANGED <<late, connVars, rows>>
    BY <1>1, <1>6 DEF onLoad
  <2> QED
    BY <2>1, RosterLeft
<1>7. CASE UNCHANGED vars
  <2>1. enabled' \in SUBSET Accounts /\ UNCHANGED <<late, connVars, rows>>
    BY <1>1, <1>7 DEF vars
  <2> QED
    BY <2>1, RosterLeft
<1>8. ASSUME NEW a \in Accounts, NEW n \in 1 .. MaxConnections[a], onConnectionReady(a, n) PROVE RosterInv'
  BY <1>8, RosterReady
<1>9. ASSUME NEW a \in Accounts, NEW R \in SUBSET Contacts, ListRetrieved(a, R) PROVE RosterInv'
  BY <1>9, RosterRetrieved
<1>10. ASSUME NEW c \in Contacts, allKnownContactsChanged(c) PROVE RosterInv'
  BY <1>10, RosterChanged
<1>11. ASSUME NEW a \in Accounts, ConnectionInvalidated(a) PROVE RosterInv'
  BY <1>11, RosterDropped
<1>12. ASSUME NEW a \in Accounts, onConnectionChanged(a) PROVE RosterInv'
  BY <1>12, RosterConnected
<1> QED
  BY <1>2, <1>3, <1>4, <1>5, <1>6, <1>7, <1>8, <1>9, <1>10, <1>11, <1>12 DEF Next

LEMMA RosterInvImplies == RosterInv => RowsAreRosters
<1> SUFFICES ASSUME RosterInv PROVE RowsAreRosters
  OBVIOUS
<1>1. EachOnce
  BY RosterParts, LenProperties DEF EachOnce, Distinct
<1>2. AllListed
  <2> SUFFICES ASSUME NEW a \in Accounts, conn[a] = "Success", <<a, number[a]>> \notin opening
               PROVE  {e \in ToSet(rows) : AccountOf[e[1]] = a /\ e[2] = number[a]} = Known(a, number[a])
    BY DEF AllListed
  <2>1. a \in relayed /\ number[a] \in 1 .. MaxConnections[a] /\ ToSet(rows) \subseteq Entries
    <3>1. number[a] \in Nat /\ number[a] <= MaxConnections[a] /\ number[a] # 0 /\ a \in relayed
      BY RosterParts
    <3>2. MaxConnections[a] \in Nat
      BY EntryParts
    <3> QED
      BY <3>1, <3>2, RosterParts
  <2>2. /\ Known(a, number[a]) \in SUBSET Entries
        /\ \A e \in Entries : e \in Known(a, number[a]) <=>
              Origin(e) = <<a, number[a]>> /\ e[1] \in roster[<<a, number[a]>>]
    BY <2>1, KnownEntries DEF RosterInv
  <2>3. \A e \in Entries : Origin(e) = <<a, number[a]>> =>
            (e \in ToSet(rows) <=> e[1] \in roster[<<a, number[a]>>])
    BY <2>1 DEF RosterInv, Listed
  <2>4. \A e \in Entries : Origin(e) = <<a, number[a]>> <=> AccountOf[e[1]] = a /\ e[2] = number[a]
    BY DEF Origin
  <2> QED
    BY <2>1, <2>2, <2>3, <2>4
<1>3. NoneLingers
  BY RosterParts DEF NoneLingers, RowFits, Origin
<1> QED
  BY <1>1, <1>2, <1>3 DEF RowsAreRosters

\* GlobalContactManager and ContactsListModel: the rows are the rosters.
THEOREM RostersAreShown == Spec => []RowsAreRosters
<1>1. Init => RosterInv
  BY RosterInit
<1>2. RosterInv /\ [Next]_vars => RosterInv'
  BY RosterKept
<1>3. RosterInv => RowsAreRosters
  BY RosterInvImplies
<1> QED
  BY <1>1, <1>2, <1>3, PTL DEF Spec

-----------------------------------------------------------------------------
(* The tree.                                                               *)

Nodes == AllGroups \X Entries

Trees == [groups : SUBSET AllGroups, forced : SUBSET AllGroups, nulls : SUBSET AllGroups,
          nodes : SUBSET Nodes, cache : [Entries -> SUBSET AllGroups], crashed : BOOLEAN]

\* The headers are the groups of nodes, and the forced ones.
HeadersRight(t) == t.groups = GroupsIn(t.nodes) \cup t.forced

\* Where groups of an entry are remembered, its nodes are there.
CacheRight(t) == \A e \in Entries : t.cache[e] # {} => NodeGroups(t, e) = t.cache[e]

TreeTypes ==
    /\ tree \in Trees /\ groupsOf \in [Entries -> SUBSET Groups]
    /\ mode \in Modes /\ loaded \in BOOLEAN

Follows ==
    IF loaded
    THEN \A e \in ToSet(rows) \ missed : NodeGroups(tree, e) = groupsForIndex(e, conn, groupsOf)
    ELSE /\ tree.nodes = {} /\ missed = {}
         /\ \A e \in Entries : tree.cache[e] = {}

TreeRight ==
    /\ HeadersRight(tree) /\ CacheRight(tree)
    /\ tree.forced = IF mode = "AccountGrouping" THEN enabled \cap ValidAccounts ELSE {}
    /\ \A x \in tree.nodes : x[2] \in ToSet(rows)
    /\ \A e \in Entries : e \notin ToSet(rows) => tree.cache[e] = {}
    /\ Follows

TreeInv == TreeTypes /\ (Running => TreeRight)

LEMMA NodeParts ==
    /\ \A x \in Nodes : x[1] \in AllGroups /\ x[2] \in Entries /\ x = <<x[1], x[2]>>
    /\ \A g \in AllGroups : \A e \in Entries :
          <<g, e>> \in Nodes /\ <<g, e>>[1] = g /\ <<g, e>>[2] = e
  BY DEF Nodes

LEMMA AddedNodes ==
    ASSUME NEW t \in Trees, NEW N \in SUBSET Nodes
    PROVE  /\ AddNodes(t, N) \in Trees
           /\ AddNodes(t, N).nodes = t.nodes \cup N /\ AddNodes(t, N).cache = t.cache
           /\ AddNodes(t, N).forced = t.forced
           /\ ~AddNodes(t, N).crashed =>
                ~t.crashed /\ (HeadersRight(t) => HeadersRight(AddNodes(t, N)))
<1> DEFINE u == AddNodes(t, N)
<1>1. GroupsIn(N) \subseteq AllGroups
  BY NodeParts DEF GroupsIn
<1>2. /\ u \in Trees /\ u.nodes = t.nodes \cup N /\ u.cache = t.cache /\ u.forced = t.forced
      /\ u.groups = t.groups \cup (GroupsIn(N) \ t.nulls)
      /\ u.crashed <=> t.crashed \/ GroupsIn(N) \cap t.nulls # {}
  BY <1>1 DEF AddNodes, Trees
<1> HIDE DEF u
<1>3. ASSUME ~u.crashed, HeadersRight(t) PROVE HeadersRight(u)
  <2>1. GroupsIn(t.nodes \cup N) = GroupsIn(t.nodes) \cup GroupsIn(N)
    BY DEF GroupsIn
  <2>2. u.groups = t.groups \cup GroupsIn(N)
    BY <1>2, <1>3
  <2> QED
    BY <2>1, <2>2, <1>2, <1>3 DEF HeadersRight
<1> QED
  BY <1>2, <1>3 DEF u

LEMMA RemovedNodes ==
    ASSUME NEW t \in Trees, NEW N
    PROVE  /\ RemoveNodes(t, N) \in Trees
           /\ RemoveNodes(t, N).nodes = t.nodes \ N /\ RemoveNodes(t, N).cache = t.cache
           /\ RemoveNodes(t, N).forced = t.forced /\ RemoveNodes(t, N).crashed = t.crashed
           /\ HeadersRight(t) => HeadersRight(RemoveNodes(t, N))
<1> DEFINE u == RemoveNodes(t, N)
<1>1. /\ u \in Trees /\ u.nodes = t.nodes \ N /\ u.cache = t.cache /\ u.forced = t.forced
      /\ u.crashed = t.crashed
      /\ u.groups = t.groups \ (GroupsIn(t.nodes \cap N) \ (GroupsIn(t.nodes \ N) \cup t.forced))
  BY DEF RemoveNodes, Trees
<1> HIDE DEF u
<1>2. ASSUME HeadersRight(t) PROVE HeadersRight(u)
  <2>1. GroupsIn(t.nodes) = GroupsIn(t.nodes \cap N) \cup GroupsIn(t.nodes \ N)
    BY DEF GroupsIn
  <2> QED
    BY <2>1, <1>1, <1>2 DEF HeadersRight
<1> QED
  BY <1>1, <1>2 DEF u

LEMMA CachedNodes ==
    ASSUME NEW t \in Trees, NEW f \in [Entries -> SUBSET AllGroups]
    PROVE  /\ [t EXCEPT !.cache = f] \in Trees
           /\ [t EXCEPT !.cache = f].nodes = t.nodes /\ [t EXCEPT !.cache = f].cache = f
           /\ [t EXCEPT !.cache = f].forced = t.forced /\ [t EXCEPT !.cache = f].crashed = t.crashed
           /\ HeadersRight(t) => HeadersRight([t EXCEPT !.cache = f])
<1> DEFINE u == [t EXCEPT !.cache = f]
<1>1. /\ u \in Trees /\ u.nodes = t.nodes /\ u.cache = f /\ u.forced = t.forced
      /\ u.crashed = t.crashed /\ u.groups = t.groups
  BY DEF Trees
<1> HIDE DEF u
<1> QED
  BY <1>1 DEF HeadersRight, u

LEMMA GroupsTyped ==
    ASSUME NEW e \in Entries, NEW c, NEW gs \in [Entries -> SUBSET Groups]
    PROVE  groupsForIndex(e, c, gs) \in SUBSET AllGroups /\ groupsForIndex(e, c, gs) # {}
<1>1. AccountOf[e[1]] \in Accounts
  BY EntryParts
<1>2. gs[e] \in SUBSET Groups
  OBVIOUS
<1> QED
  BY <1>1, <1>2 DEF groupsForIndex, AllGroups

LEMMA NodesOfParts ==
    ASSUME NEW E \in SUBSET Entries, NEW c, NEW gs \in [Entries -> SUBSET Groups]
    PROVE  /\ NodesOf(E, c, gs) \in SUBSET Nodes
           /\ \A x \in NodesOf(E, c, gs) : x[2] \in E
           /\ \A e \in E, g \in AllGroups :
                <<g, e>> \in NodesOf(E, c, gs) <=> g \in groupsForIndex(e, c, gs)
<1>1. ASSUME NEW x \in NodesOf(E, c, gs) PROVE x \in Nodes /\ x[2] \in E /\ x[1] \in groupsForIndex(x[2], c, gs)
  <2>1. PICK e \in E : x \in groupsForIndex(e, c, gs) \X {e}
    BY DEF NodesOf
  <2>2. groupsForIndex(e, c, gs) \in SUBSET AllGroups
    BY GroupsTyped
  <2>3. x = <<x[1], x[2]>> /\ x[1] \in groupsForIndex(e, c, gs) /\ x[2] = e
    BY <2>1
  <2> QED
    BY <2>2, <2>3, NodeParts
<1>2. ASSUME NEW e \in E, NEW g \in groupsForIndex(e, c, gs) PROVE <<g, e>> \in NodesOf(E, c, gs)
  <2>1. <<g, e>> \in groupsForIndex(e, c, gs) \X {e}
    OBVIOUS
  <2> QED
    BY <2>1 DEF NodesOf
<1>3. ASSUME NEW e \in E, NEW g \in AllGroups, <<g, e>> \in NodesOf(E, c, gs)
      PROVE  g \in groupsForIndex(e, c, gs)
  BY <1>1, <1>3, NodeParts
<1> QED
  BY <1>1, <1>2, <1>3

\* onDataChanged: the entry has the nodes of G, the others keep theirs.
LEMMA DataChanged ==
    ASSUME NEW t \in Trees, NEW e \in Entries, NEW G \in SUBSET AllGroups, G # {},
           HeadersRight(t), CacheRight(t)
    PROVE  LET u == dataChanged(t, e, G)
           IN /\ u \in Trees /\ u.forced = t.forced
              /\ \A x \in u.nodes : x \in t.nodes \/ x[2] = e
              /\ NodeGroups(u, e) = G
              /\ \A d \in Entries : d # e => NodeGroups(u, d) = NodeGroups(t, d) /\ u.cache[d] = t.cache[d]
              /\ ~u.crashed => ~t.crashed /\ HeadersRight(u) /\ CacheRight(u)
<1> DEFINE u == dataChanged(t, e, G)
<1>0. t.cache \in [Entries -> SUBSET AllGroups] /\ t.nodes \in SUBSET Nodes
  BY DEF Trees
<1>1. CASE t.cache[e] = G
  <2>1. u = t /\ NodeGroups(t, e) = G
    BY <1>1 DEF dataChanged, CacheRight
  <2> QED
    BY <2>1
<1>2. CASE t.cache[e] # G
  <2> DEFINE f == [t.cache EXCEPT ![e] = G]
             t1 == [t EXCEPT !.cache = f]
             old == (NodeGroups(t, e) \ G) \X {e}
             t2 == RemoveNodes(t1, old)
             new == (G \ NodeGroups(t, e)) \X {e}
  <2>1. f \in [Entries -> SUBSET AllGroups] /\ f[e] = G /\ \A d \in Entries : d # e => f[d] = t.cache[d]
    BY <1>0
  <2>2. [t EXCEPT !.cache[e] = G] = t1
    BY DEF Trees
  <2>3. u = AddNodes(t2, new)
    BY <1>2, <2>2 DEF dataChanged
  <2>4. new \in SUBSET Nodes
    BY DEF Nodes
  <2> HIDE DEF f
  <2>5. t1 \in Trees /\ t1.nodes = t.nodes /\ t1.cache = f /\ t1.forced = t.forced /\ t1.crashed = t.crashed
        /\ HeadersRight(t1)
    BY <2>1, CachedNodes
  <2> HIDE DEF t1
  <2>6. t2 \in Trees /\ t2.nodes = t.nodes \ old /\ t2.cache = f /\ t2.forced = t.forced
        /\ t2.crashed = t.crashed /\ HeadersRight(t2)
    BY <2>5, RemovedNodes
  <2> HIDE DEF t2, u
  <2>7. /\ u \in Trees /\ u.nodes = (t.nodes \ old) \cup new /\ u.cache = f /\ u.forced = t.forced
        /\ ~u.crashed => ~t.crashed /\ HeadersRight(u)
    <3> HIDE DEF new, old
    <3> QED
    BY <2>3, <2>4, <2>6, AddedNodes
  <2>8. \A g \in AllGroups : <<g, e>> \in u.nodes <=> g \in G
    <3> SUFFICES ASSUME NEW g \in AllGroups PROVE <<g, e>> \in u.nodes <=> g \in G
      OBVIOUS
    <3>1. /\ <<g, e>> \in old <=> g \in NodeGroups(t, e) /\ g \notin G
          /\ <<g, e>> \in new <=> g \in G /\ g \notin NodeGroups(t, e)
          /\ <<g, e>> \in t.nodes <=> g \in NodeGroups(t, e)
      BY DEF NodeGroups
    <3> QED
      BY <3>1, <2>7
  <2>9. \A d \in Entries, g \in AllGroups : d # e => (<<g, d>> \in u.nodes <=> <<g, d>> \in t.nodes)
    <3> SUFFICES ASSUME NEW d \in Entries, NEW g \in AllGroups, d # e
                 PROVE  <<g, d>> \in u.nodes <=> <<g, d>> \in t.nodes
      OBVIOUS
    <3>1. <<g, d>> \notin old /\ <<g, d>> \notin new
      OBVIOUS
    <3> QED
      BY <3>1, <2>7
  <2>10. NodeGroups(u, e) = G /\ \A d \in Entries : d # e => NodeGroups(u, d) = NodeGroups(t, d)
    BY <2>8, <2>9 DEF NodeGroups
  <2>11. \A x \in u.nodes : x \in t.nodes \/ x[2] = e
    BY <2>7
  <2>12. CacheRight(u)
    <3> SUFFICES ASSUME NEW d \in Entries, u.cache[d] # {} PROVE NodeGroups(u, d) = u.cache[d]
      BY DEF CacheRight
    <3>1. CASE d = e
      BY <3>1, <2>1, <2>7, <2>10
    <3>2. CASE d # e
      BY <3>2, <2>1, <2>7, <2>10 DEF CacheRight
    <3> QED
      BY <3>1, <3>2
  <2> QED
    BY <2>1, <2>7, <2>10, <2>11, <2>12 DEF u
<1> QED
  BY <1>1, <1>2

\* onRowsRemoved.
LEMMA RowsRemoved ==
    ASSUME NEW t \in Trees, NEW E, CacheRight(t)
    PROVE  LET u == rowsRemoved(t, E)
           IN /\ u \in Trees /\ u.forced = t.forced /\ u.crashed = t.crashed
              /\ HeadersRight(t) => HeadersRight(u)
              /\ CacheRight(u)
              /\ \A x \in u.nodes : x \in t.nodes /\ x[2] \notin E
              /\ \A d \in Entries : d \in E => u.cache[d] = {}
              /\ \A d \in Entries : d \notin E => NodeGroups(u, d) = NodeGroups(t, d) /\ u.cache[d] = t.cache[d]
<1> DEFINE N == {x \in t.nodes : x[2] \in E}
           t1 == RemoveNodes(t, N)
           f == [e \in Entries |-> IF e \in E THEN {} ELSE t1.cache[e]]
           u == rowsRemoved(t, E)
<1>0. t.cache \in [Entries -> SUBSET AllGroups] /\ t.nodes \in SUBSET Nodes
  BY DEF Trees
<1>1. u = [t1 EXCEPT !.cache = f]
  BY DEF rowsRemoved
<1> HIDE DEF N
<1>2. t1 \in Trees /\ t1.nodes = t.nodes \ N /\ t1.cache = t.cache /\ t1.forced = t.forced
      /\ t1.crashed = t.crashed /\ (HeadersRight(t) => HeadersRight(t1))
  BY RemovedNodes
<1> HIDE DEF t1
<1>3. /\ f \in [Entries -> SUBSET AllGroups]
      /\ \A d \in Entries : f[d] = IF d \in E THEN {} ELSE t.cache[d]
  BY <1>0, <1>2
<1> HIDE DEF f, u
<1>4. u \in Trees /\ u.nodes = t.nodes \ N /\ u.cache = f /\ u.forced = t.forced
      /\ u.crashed = t.crashed /\ (HeadersRight(t) => HeadersRight(u))
  BY <1>1, <1>2, <1>3, CachedNodes
<1>5. \A x \in u.nodes : x \in t.nodes /\ x[2] \notin E
  BY <1>4 DEF N
<1>6. ASSUME NEW d \in Entries, d \notin E PROVE NodeGroups(u, d) = NodeGroups(t, d) /\ u.cache[d] = t.cache[d]
  <2>1. \A g \in AllGroups : <<g, d>> \in u.nodes <=> <<g, d>> \in t.nodes
    BY <1>4, <1>6 DEF N
  <2> QED
    BY <2>1, <1>3, <1>4, <1>6 DEF NodeGroups
<1>7. \A d \in Entries : d \in E => u.cache[d] = {}
  BY <1>3, <1>4
<1>8. CacheRight(u)
  BY <1>6, <1>7 DEF CacheRight
<1> QED
  BY <1>4, <1>5, <1>6, <1>7, <1>8 DEF u
-----------------------------------------------------------------------------
(* The tree follows the rows.                                              *)

LEMMA TreeParts ==
    TreeInv =>
        /\ tree \in Trees /\ groupsOf \in [Entries -> SUBSET Groups]
        /\ mode \in Modes /\ loaded \in BOOLEAN
        /\ Running => TreeRight
  BY DEF TreeInv, TreeTypes

LEMMA TreeInit == Init => TreeInv
<1> SUFFICES ASSUME Init PROVE TreeInv
  OBVIOUS
<1>1. /\ groupsOf = [e \in Entries |-> {}] /\ rows = <<>> /\ mode = "NoGrouping"
      /\ loaded = FALSE /\ tree = EmptyTree /\ missed = {}
  BY DEF Init, ModelInit
<1>2. /\ tree \in Trees /\ tree.groups = {} /\ tree.forced = {} /\ tree.nodes = {}
      /\ \A e \in Entries : tree.cache[e] = {}
  BY <1>1 DEF EmptyTree, Trees
<1>3. TreeTypes
  BY <1>1, <1>2 DEF TreeTypes, Modes
<1>4. HeadersRight(tree) /\ CacheRight(tree) /\ Follows
  BY <1>1, <1>2 DEF HeadersRight, GroupsIn, CacheRight, Follows
<1> QED
  BY <1>1, <1>2, <1>3, <1>4 DEF TreeInv, TreeRight

\* The groups of an entry depend on whether its connection is there.
LEMMA SameGroups ==
    ASSUME NEW e \in Entries, UNCHANGED <<mode, number>>, groupsOf'[e] = groupsOf[e],
           conn'[AccountOf[e[1]]] = "None" <=> conn[AccountOf[e[1]]] = "None"
    PROVE  /\ groupsForIndex(e, conn, groupsOf)' = groupsForIndex(e, conn, groupsOf)
  BY DEF groupsForIndex

LEMMA TreeSame ==
    ASSUME TreeInv, UNCHANGED <<tree, missed, rows, enabled, mode, loaded, groupsOf>>,
           \A e \in ToSet(rows) : groupsForIndex(e, conn, groupsOf)' = groupsForIndex(e, conn, groupsOf)
    PROVE  TreeInv'
<1>1. TreeTypes'
  BY DEF TreeInv, TreeTypes
<1>2. ASSUME Running PROVE TreeRight'
  <2>1. TreeRight
    BY <1>2 DEF TreeInv
  <2>2. Follows'
    BY <2>1 DEF TreeRight, Follows
  <2> QED
    BY <2>1, <2>2 DEF TreeRight
<1> QED
  BY <1>1, <1>2 DEF TreeInv, Running

LEMMA TreeRowsChanged ==
    ASSUME RosterInv, TreeInv, Running, UNCHANGED <<enabled, groupsOf, mode, loaded, number>>,
           NEW added \in SUBSET Entries, NEW removed \in SUBSET Entries,
           IsFiniteSet(added), added \cap ToSet(rows) = {}, onContactsChanged(added, removed),
           \A e \in ToSet(rows) : e \in removed
               \/ groupsForIndex(e, conn, groupsOf)' = groupsForIndex(e, conn, groupsOf)
    PROVE  TreeInv'
<1> DEFINE N == NodesOf(added, conn', groupsOf)
           full == AddNodes(tree, N)
           E == removed \cap (ToSet(rows) \cup added)
           u == rowsRemoved(full, E)
<1>0. rows \in Seq(Entries) /\ Distinct(rows) /\ ToSet(rows) \subseteq Entries
  BY RosterParts
<1>1. /\ ToSet(rows') = (ToSet(rows) \cup added) \ removed
      /\ missed' = missed \ removed
      /\ tree' = IF loaded THEN u ELSE tree
  BY <1>0, ContactsChanged
<1>2. /\ tree \in Trees /\ groupsOf \in [Entries -> SUBSET Groups]
      /\ mode \in Modes /\ loaded \in BOOLEAN /\ TreeRight
  BY TreeParts
<1>3. /\ HeadersRight(tree) /\ CacheRight(tree)
      /\ tree.forced = IF mode = "AccountGrouping" THEN enabled \cap ValidAccounts ELSE {}
      /\ \A x \in tree.nodes : x[2] \in ToSet(rows)
      /\ \A e \in Entries : e \notin ToSet(rows) => tree.cache[e] = {}
      /\ Follows
  BY <1>2 DEF TreeRight
<1>4. CASE ~loaded
  <2>1. tree' = tree /\ tree.nodes = {} /\ missed = {} /\ \A e \in Entries : tree.cache[e] = {}
    BY <1>1, <1>3, <1>4 DEF Follows
  <2>2. TreeTypes'
    BY <1>2, <2>1 DEF TreeTypes
  <2>3. HeadersRight(tree)' /\ CacheRight(tree)'
    BY <1>3, <2>1 DEF HeadersRight, CacheRight, NodeGroups, GroupsIn
  <2>4. Follows'
    BY <1>1, <1>4, <2>1 DEF Follows
  <2>5. tree'.forced = IF mode' = "AccountGrouping" THEN enabled' \cap ValidAccounts ELSE {}
    BY <1>3, <2>1
  <2>6. TreeRight'
    BY <2>1, <2>3, <2>4, <2>5 DEF TreeRight
  <2> QED
    BY <2>2, <2>6 DEF TreeInv
<1>5. CASE loaded
  <2>1. /\ N \in SUBSET Nodes
        /\ \A x \in N : x[2] \in added
        /\ \A e \in added, g \in AllGroups : <<g, e>> \in N <=> g \in groupsForIndex(e, conn', groupsOf)
    BY <1>2, NodesOfParts
  <2>2. \A e \in added : groupsForIndex(e, conn', groupsOf) \in SUBSET AllGroups
    BY <1>2, GroupsTyped
  <2>3. \A e \in Entries : groupsForIndex(e, conn, groupsOf)' = groupsForIndex(e, conn', groupsOf)
    BY DEF groupsForIndex
  <2> HIDE DEF N
  <2>4. /\ full \in Trees /\ full.nodes = tree.nodes \cup N /\ full.cache = tree.cache
        /\ full.forced = tree.forced
        /\ ~full.crashed => HeadersRight(full)
    BY <1>2, <1>3, <2>1, AddedNodes
  <2> HIDE DEF full
  <2>5. \A e \in Entries, g \in AllGroups : e \in ToSet(rows) => (<<g, e>> \in full.nodes <=> <<g, e>> \in tree.nodes)
    <3> SUFFICES ASSUME NEW e \in Entries, NEW g \in AllGroups, e \in ToSet(rows)
                 PROVE  <<g, e>> \notin N
      BY <2>4
    <3>1. <<g, e>>[2] = e /\ e \notin added
      OBVIOUS
    <3> QED
      BY <2>1, <3>1
  <2>6. \A e \in added, g \in AllGroups : <<g, e>> \in full.nodes <=> <<g, e>> \in N
    <3> SUFFICES ASSUME NEW e \in added, NEW g \in AllGroups PROVE <<g, e>> \notin tree.nodes
      BY <2>4
    <3>1. <<g, e>>[2] = e /\ e \notin ToSet(rows)
      OBVIOUS
    <3> QED
      BY <1>3, <3>1
  <2>7. \A e \in Entries : e \in ToSet(rows) => NodeGroups(full, e) = NodeGroups(tree, e)
    BY <2>5 DEF NodeGroups
  <2>8. \A e \in added : NodeGroups(full, e) = groupsForIndex(e, conn', groupsOf)
    BY <2>1, <2>2, <2>6 DEF NodeGroups
  <2>9. \A e \in Entries : e \notin ToSet(rows) => full.cache[e] = {}
    BY <1>3, <2>4
  <2>10. CacheRight(full)
    BY <1>3, <2>4, <2>7, <2>9 DEF CacheRight
  <2>11. \A x \in full.nodes : x[2] \in ToSet(rows) \cup added
    BY <1>3, <2>1, <2>4
  <2> HIDE DEF E, u
  <2>12. tree' = u
    BY <1>1, <1>5
  <2>13. /\ u \in Trees /\ u.forced = full.forced /\ u.crashed = full.crashed /\ CacheRight(u)
         /\ HeadersRight(full) => HeadersRight(u)
         /\ \A x \in u.nodes : x \in full.nodes /\ x[2] \notin E
         /\ \A d \in Entries : d \in E => u.cache[d] = {}
         /\ \A d \in Entries : d \notin E => NodeGroups(u, d) = NodeGroups(full, d) /\ u.cache[d] = full.cache[d]
    BY <2>4, <2>10, RowsRemoved DEF u
  <2>14. TreeTypes'
    BY <1>2, <2>12, <2>13 DEF TreeTypes
  <2>15. ASSUME ~u.crashed PROVE TreeRight'
    <3>1. HeadersRight(u)
      BY <2>4, <2>13, <2>15
    <3>2. \A x \in u.nodes : x[2] \in ToSet(rows')
      BY <1>1, <2>11, <2>13 DEF E
    <3>3. \A e \in Entries : e \notin ToSet(rows') => u.cache[e] = {}
      BY <1>1, <2>9, <2>13 DEF E
    <3>4. ASSUME NEW e \in ToSet(rows') \ missed'
          PROVE  NodeGroups(u, e) = groupsForIndex(e, conn, groupsOf)'
      <4>1. e \in Entries /\ e \notin removed /\ e \notin E /\ e \notin missed /\ (e \in ToSet(rows) \/ e \in added)
        BY <1>0, <1>1 DEF E
      <4>2. NodeGroups(u, e) = NodeGroups(full, e)
        BY <2>13, <4>1
      <4>3. CASE e \in added
        BY <4>1, <4>2, <4>3, <2>3, <2>8
      <4>4. CASE e \in ToSet(rows)
        <5>1. NodeGroups(tree, e) = groupsForIndex(e, conn, groupsOf)
          BY <1>3, <1>5, <4>1, <4>4 DEF Follows
        <5> QED
          BY <4>1, <4>2, <4>4, <5>1, <2>7
      <4> QED
        BY <4>1, <4>3, <4>4
    <3>5. Follows'
      BY <1>5, <2>12, <3>4 DEF Follows
    <3>6. tree'.forced = IF mode' = "AccountGrouping" THEN enabled' \cap ValidAccounts ELSE {}
      BY <1>3, <2>4, <2>12, <2>13
    <3>7. HeadersRight(tree)' /\ CacheRight(tree)'
      BY <2>12, <2>13, <3>1 DEF HeadersRight, CacheRight, NodeGroups, GroupsIn
    <3> QED
      BY <2>12, <3>2, <3>3, <3>5, <3>6, <3>7 DEF TreeRight
  <2> QED
    BY <2>12, <2>14, <2>15 DEF TreeInv, Running
<1> QED
  BY <1>2, <1>4, <1>5
\* The groups of a row stay when a connection comes, a list is retrieved or changes.
LEMMA GroupsStay ==
    ASSUME UNCHANGED <<mode, number, groupsOf>>,
           \A a \in Accounts : conn'[a] = "None" <=> conn[a] = "None"
    PROVE  \A e \in Entries : groupsForIndex(e, conn, groupsOf)' = groupsForIndex(e, conn, groupsOf)
<1> SUFFICES ASSUME NEW e \in Entries
             PROVE  groupsForIndex(e, conn, groupsOf)' = groupsForIndex(e, conn, groupsOf)
  OBVIOUS
<1>1. AccountOf[e[1]] \in Accounts
  BY EntryParts
<1>2. conn'[AccountOf[e[1]]] = "None" <=> conn[AccountOf[e[1]]] = "None"
  BY <1>1
<1>3. groupsOf'[e] = groupsOf[e]
  OBVIOUS
<1> QED
  BY <1>2, <1>3, SameGroups

\* What the rows do, the tree follows.
RowsStep ==
    \/ NoChange
    \/ \E added \in SUBSET Entries, removed \in SUBSET Entries :
         /\ IsFiniteSet(added) /\ added \cap ToSet(rows) = {}
         /\ onContactsChanged(added, removed)

LEMMA TreeStep ==
    ASSUME RosterInv, TreeInv, Running, UNCHANGED <<enabled, groupsOf, proxyVars, number>>, RowsStep,
           \A a \in Accounts : conn'[a] = "None" <=> conn[a] = "None"
    PROVE  TreeInv'
<1>0. UNCHANGED <<mode, loaded, number, enabled, groupsOf>>
  BY DEF proxyVars
<1>1. \A e \in Entries : groupsForIndex(e, conn, groupsOf)' = groupsForIndex(e, conn, groupsOf)
  BY <1>0, GroupsStay
<1>2. \A e \in ToSet(rows) : groupsForIndex(e, conn, groupsOf)' = groupsForIndex(e, conn, groupsOf)
  BY <1>1, RosterParts
<1>3. CASE NoChange
  <2>1. UNCHANGED <<rows, tree, missed>>
    BY <1>3 DEF NoChange
  <2> QED
    BY <2>1, <1>0, <1>2, TreeSame
<1>4. ASSUME NEW added \in SUBSET Entries, NEW removed \in SUBSET Entries,
             IsFiniteSet(added), added \cap ToSet(rows) = {}, onContactsChanged(added, removed)
      PROVE  TreeInv'
  BY <1>0, <1>2, <1>4, TreeRowsChanged
<1> QED
  BY <1>3, <1>4 DEF RowsStep

LEMMA TreeReady ==
    ASSUME RosterInv, TreeInv, NEW a \in Accounts, NEW n \in 1 .. MaxConnections[a], onConnectionReady(a, n)
    PROVE  TreeInv'
<1>1. Running /\ UNCHANGED <<enabled, groupsOf, proxyVars, number, conn>>
  BY DEF onConnectionReady
<1>2. RowsStep
  <2>1. \/ NoChange
        \/ /\ onContactsChanged(Known(a, n), {}) /\ Known(a, n) \in SUBSET Entries
           /\ IsFiniteSet(Known(a, n)) /\ Known(a, n) \cap ToSet(rows) = {}
    BY RosterReady
  <2>2. {} \in SUBSET Entries
    OBVIOUS
  <2> QED
    BY <2>1, <2>2 DEF RowsStep
<1>3. \A b \in Accounts : conn'[b] = "None" <=> conn[b] = "None"
  BY <1>1
<1> QED
  BY <1>1, <1>2, <1>3, TreeStep

LEMMA TreeRetrieved ==
    ASSUME RosterInv, TreeInv, NEW a \in Accounts, NEW R \in SUBSET Contacts, ListRetrieved(a, R)
    PROVE  TreeInv'
<1>1. /\ Running /\ UNCHANGED <<enabled, groupsOf, proxyVars, number>>
      /\ conn[a] = "Waiting" /\ conn' = [conn EXCEPT ![a] = "Success"]
  BY DEF ListRetrieved
<1>2. RowsStep
  <2>1. \/ NoChange
        \/ \E added \in SUBSET Entries :
             /\ IsFiniteSet(added) /\ added \cap ToSet(rows) = {} /\ onContactsChanged(added, {})
    BY RosterRetrieved
  <2>2. {} \in SUBSET Entries
    OBVIOUS
  <2> QED
    BY <2>1, <2>2 DEF RowsStep
<1>3. \A b \in Accounts : conn'[b] = "None" <=> conn[b] = "None"
  BY <1>1, RosterParts
<1> QED
  BY <1>1, <1>2, <1>3, TreeStep

LEMMA TreeChanged ==
    ASSUME RosterInv, TreeInv, NEW c \in Contacts, allKnownContactsChanged(c) PROVE TreeInv'
<1>1. Running /\ UNCHANGED <<enabled, groupsOf, proxyVars, number, conn>>
  BY DEF allKnownContactsChanged
<1>2. RowsStep
  BY RosterChanged DEF RowsStep
<1>3. \A b \in Accounts : conn'[b] = "None" <=> conn[b] = "None"
  BY <1>1
<1> QED
  BY <1>1, <1>2, <1>3, TreeStep

\* The rows there are of connections that went before.
LEMMA TreeConnected ==
    ASSUME RosterInv, TreeInv, NEW a \in Accounts, onConnectionChanged(a) PROVE TreeInv'
<1>1. /\ conn[a] = "None" /\ number' = [number EXCEPT ![a] = @ + 1]
      /\ conn' = [conn EXCEPT ![a] = "Waiting"]
      /\ UNCHANGED <<enabled, groupsOf, mode, loaded, rows, tree, missed>>
  BY DEF onConnectionChanged, NoChange, proxyVars
<1>2. ASSUME NEW e \in ToSet(rows)
      PROVE  groupsForIndex(e, conn, groupsOf)' = groupsForIndex(e, conn, groupsOf)
  <2> DEFINE b == AccountOf[e[1]]
  <2>1. e \in Entries /\ b \in Accounts /\ e[2] <= number[b] /\ e[2] \in Nat /\ number[b] \in Nat
    BY RosterParts, EntryParts DEF RowFits
  <2> HIDE DEF b
  <2>2. conn \in [Accounts -> {"None", "Waiting", "Success"}] /\ number \in [Accounts -> Nat]
    BY RosterParts
  <2>3. (conn'[b] # "None" /\ number'[b] = e[2]) <=> (conn[b] # "None" /\ number[b] = e[2])
    <3>1. CASE b = a
      <4>1. number'[b] = number[b] + 1
        BY <3>1, <2>1, <2>2, <1>1
      <4> QED
        BY <3>1, <4>1, <2>1, <1>1
    <3>2. CASE b # a
      BY <3>2, <2>1, <2>2, <1>1
    <3> QED
      BY <3>1, <3>2
  <2> QED
    BY <2>3, <1>1 DEF groupsForIndex, b
<1> QED
  BY <1>1, <1>2, TreeSame

\* The rows that stay are of other connections.
LEMMA TreeDropped ==
    ASSUME RosterInv, TreeInv, NEW a \in Accounts, ConnectionInvalidated(a) PROVE TreeInv'
<1>1. /\ Running /\ conn' = [conn EXCEPT ![a] = "None"]
      /\ UNCHANGED <<enabled, groupsOf, mode, loaded, number>>
  BY DEF ConnectionInvalidated, proxyVars
<1>2. /\ NoChange \/ \E removed \in SUBSET Entries : onContactsChanged({}, removed)
      /\ ToSet(rows') = {e \in ToSet(rows) : Origin(e) # <<a, number[a]>>}
  BY RosterDropped
<1>3. ASSUME NEW e \in ToSet(rows), Origin(e) # <<a, number[a]>>
      PROVE  groupsForIndex(e, conn, groupsOf)' = groupsForIndex(e, conn, groupsOf)
  <2> DEFINE b == AccountOf[e[1]]
  <2>1. e \in Entries /\ b \in Accounts /\ (b # a \/ e[2] # number[b])
    BY <1>3, RosterParts, EntryParts DEF Origin
  <2> HIDE DEF b
  <2>2. conn \in [Accounts -> {"None", "Waiting", "Success"}]
    BY RosterParts
  <2>3. (conn'[b] # "None" /\ number'[b] = e[2]) <=> (conn[b] # "None" /\ number[b] = e[2])
    BY <2>1, <2>2, <1>1
  <2> QED
    BY <2>3, <1>1 DEF groupsForIndex, b
<1>4. CASE NoChange
  <2>1. UNCHANGED <<rows, tree, missed>>
    BY <1>4 DEF NoChange
  <2>2. \A e \in ToSet(rows) : groupsForIndex(e, conn, groupsOf)' = groupsForIndex(e, conn, groupsOf)
    BY <1>2, <1>3, <2>1
  <2> QED
    BY <2>1, <2>2, <1>1, TreeSame
<1>5. ASSUME NEW removed \in SUBSET Entries, onContactsChanged({}, removed) PROVE TreeInv'
  <2>1. {} \in SUBSET Entries /\ IsFiniteSet({}) /\ {} \cap ToSet(rows) = {}
    BY FS_EmptySet
  <2>2. rows \in Seq(Entries) /\ Distinct(rows)
    BY RosterParts
  <2>3. ToSet(rows') = (ToSet(rows) \cup {}) \ removed
    BY <1>5, <2>1, <2>2, ContactsChanged
  <2>4. \A e \in ToSet(rows) : e \in removed
           \/ groupsForIndex(e, conn, groupsOf)' = groupsForIndex(e, conn, groupsOf)
    BY <1>2, <1>3, <2>3
  <2> QED
    BY <1>1, <1>5, <2>1, <2>4, TreeRowsChanged
<1> QED
  BY <1>2, <1>4, <1>5
\* A row changes: the tree follows unless it is the first one, which is noted.
LEMMA TreeOnChanged ==
    ASSUME RosterInv, TreeInv, NEW e \in Entries, NEW G \in SUBSET Groups, onChanged(e, G)
    PROVE  TreeInv'
<1> DEFINE first == rows[1] = e
           H == groupsForIndex(e, conn, groupsOf')
           T == dataChanged(tree, e, H)
<1>1. /\ Running /\ Row(e) /\ groupsOf' = [groupsOf EXCEPT ![e] = G]
      /\ tree' = IF first \/ ~loaded THEN tree ELSE T
      /\ missed' = IF ~loaded THEN missed
                   ELSE IF first /\ G # groupsOf[e] THEN missed \cup {e}
                   ELSE IF first THEN missed ELSE missed \ {e}
      /\ UNCHANGED <<enabled, conn, number, rows, mode, loaded>>
  BY DEF onChanged, connVars, proxyVars
<1>2. /\ tree \in Trees /\ groupsOf \in [Entries -> SUBSET Groups]
      /\ mode \in Modes /\ loaded \in BOOLEAN /\ TreeRight
  BY <1>1, TreeParts
<1>3. /\ HeadersRight(tree) /\ CacheRight(tree)
      /\ tree.forced = IF mode = "AccountGrouping" THEN enabled \cap ValidAccounts ELSE {}
      /\ \A x \in tree.nodes : x[2] \in ToSet(rows)
      /\ \A d \in Entries : d \notin ToSet(rows) => tree.cache[d] = {}
      /\ Follows
  BY <1>2 DEF TreeRight
<1>4. /\ groupsOf' \in [Entries -> SUBSET Groups] /\ groupsOf'[e] = G
      /\ \A d \in Entries : d # e => groupsOf'[d] = groupsOf[d]
  BY <1>1, <1>2
<1>5. ToSet(rows) \subseteq Entries /\ e \in ToSet(rows)
  BY <1>1, RosterParts DEF Row, ToSet
<1>6. \A d \in Entries : groupsOf'[d] = groupsOf[d] =>
          groupsForIndex(d, conn, groupsOf)' = groupsForIndex(d, conn, groupsOf)
  BY <1>1 DEF groupsForIndex
<1>7. H \in SUBSET AllGroups /\ H # {} /\ groupsForIndex(e, conn, groupsOf)' = H
  <2>1. groupsForIndex(e, conn, groupsOf)' = H
    BY <1>1 DEF groupsForIndex
  <2> QED
    BY <2>1, <1>4, GroupsTyped
<1> HIDE DEF H
<1>8. CASE ~loaded
  <2>1. tree' = tree /\ missed' = missed
    BY <1>1, <1>8
  <2>2. TreeTypes'
    BY <1>1, <1>2, <1>4, <2>1 DEF TreeTypes
  <2>3. HeadersRight(tree)' /\ CacheRight(tree)' /\ Follows'
    BY <1>1, <1>3, <1>8, <2>1 DEF HeadersRight, CacheRight, NodeGroups, GroupsIn, Follows
  <2>4. TreeRight'
    BY <1>1, <1>3, <2>1, <2>3 DEF TreeRight
  <2> QED
    BY <2>2, <2>4 DEF TreeInv
<1>9. CASE loaded /\ first
  <2>1. tree' = tree /\ missed' = IF G # groupsOf[e] THEN missed \cup {e} ELSE missed
    BY <1>1, <1>9
  <2>2. TreeTypes'
    BY <1>1, <1>2, <1>4, <2>1 DEF TreeTypes
  <2>3. HeadersRight(tree)' /\ CacheRight(tree)'
    BY <1>3, <2>1 DEF HeadersRight, CacheRight, NodeGroups, GroupsIn
  <2>4. ASSUME NEW d \in ToSet(rows) \ missed'
        PROVE  NodeGroups(tree, d) = groupsForIndex(d, conn, groupsOf)'
    <3>1. d \in Entries /\ d \notin missed /\ groupsOf'[d] = groupsOf[d]
      BY <2>1, <1>4, <1>5
    <3>2. NodeGroups(tree, d) = groupsForIndex(d, conn, groupsOf)
      BY <1>3, <1>9, <3>1 DEF Follows
    <3> QED
      BY <3>1, <3>2, <1>6
  <2>5. Follows'
    BY <2>1, <2>4, <1>1, <1>9 DEF Follows
  <2>6. TreeRight'
    BY <1>1, <1>3, <2>1, <2>3, <2>5 DEF TreeRight
  <2> QED
    BY <2>2, <2>6 DEF TreeInv
<1>10. CASE loaded /\ ~first
  <2>1. tree' = T /\ missed' = missed \ {e}
    BY <1>1, <1>10
  <2>2. /\ T \in Trees /\ T.forced = tree.forced
        /\ \A x \in T.nodes : x \in tree.nodes \/ x[2] = e
        /\ NodeGroups(T, e) = H
        /\ \A d \in Entries : d # e => NodeGroups(T, d) = NodeGroups(tree, d) /\ T.cache[d] = tree.cache[d]
        /\ ~T.crashed => HeadersRight(T) /\ CacheRight(T)
    BY <1>2, <1>3, <1>7, DataChanged
  <2> HIDE DEF T
  <2>3. TreeTypes'
    BY <1>1, <1>2, <1>4, <2>1, <2>2 DEF TreeTypes
  <2>4. ASSUME ~T.crashed PROVE TreeRight'
    <3>1. HeadersRight(tree)' /\ CacheRight(tree)'
      BY <2>1, <2>2, <2>4 DEF HeadersRight, CacheRight, NodeGroups, GroupsIn
    <3>2. ASSUME NEW d \in ToSet(rows) \ missed'
          PROVE  NodeGroups(T, d) = groupsForIndex(d, conn, groupsOf)'
      <4>1. CASE d = e
        BY <4>1, <2>2, <1>7
      <4>2. CASE d # e
        <5>1. d \in Entries /\ d \notin missed /\ groupsOf'[d] = groupsOf[d]
          BY <4>2, <2>1, <1>4, <1>5
        <5>2. NodeGroups(tree, d) = groupsForIndex(d, conn, groupsOf)
          BY <1>3, <1>10, <5>1 DEF Follows
        <5> QED
          BY <5>1, <5>2, <4>2, <1>6, <2>2
      <4> QED
        BY <4>1, <4>2
    <3>3. Follows'
      BY <2>1, <3>2, <1>1, <1>10 DEF Follows
    <3>4. \A x \in T.nodes : x[2] \in ToSet(rows)
      BY <1>3, <1>5, <2>2
    <3>5. \A d \in Entries : d \notin ToSet(rows) => T.cache[d] = {}
      BY <1>3, <1>5, <2>2
    <3> QED
      BY <1>1, <1>3, <2>1, <2>2, <3>1, <3>3, <3>4, <3>5 DEF TreeRight
  <2> QED
    BY <2>1, <2>3, <2>4 DEF TreeInv, Running
<1> QED
  BY <1>2, <1>8, <1>9, <1>10

\* A step that changes headers only, and leaves those of nodes.
LEMMA TreeHeaders ==
    ASSUME TreeInv, Running, UNCHANGED <<conn, number, groupsOf, rows, mode, loaded, missed>>,
           tree' \in Trees, tree'.nodes = tree.nodes, tree'.cache = tree.cache,
           ~tree'.crashed => HeadersRight(tree'),
           tree'.forced = IF mode = "AccountGrouping" THEN enabled' \cap ValidAccounts ELSE {}
    PROVE  TreeInv'
<1>1. /\ groupsOf \in [Entries -> SUBSET Groups] /\ mode \in Modes /\ loaded \in BOOLEAN /\ TreeRight
  BY TreeParts
<1>2. /\ CacheRight(tree)
      /\ \A x \in tree.nodes : x[2] \in ToSet(rows)
      /\ \A e \in Entries : e \notin ToSet(rows) => tree.cache[e] = {}
      /\ Follows
  BY <1>1 DEF TreeRight
<1>3. TreeTypes'
  BY <1>1 DEF TreeTypes
<1>4. \A e \in Entries : NodeGroups(tree', e) = NodeGroups(tree, e)
  BY DEF NodeGroups
<1>5. \A e : groupsForIndex(e, conn, groupsOf)' = groupsForIndex(e, conn, groupsOf)
  BY DEF groupsForIndex
<1>6. \A e : NodeGroups(tree', e) = NodeGroups(tree, e)
  BY DEF NodeGroups
<1>7. CacheRight(tree)'
  BY <1>2, <1>6 DEF CacheRight, NodeGroups
<1>8. Follows'
  BY <1>2, <1>5, <1>6 DEF Follows, NodeGroups
<1>9. ASSUME ~tree'.crashed PROVE TreeRight'
  <2>1. HeadersRight(tree)'
    BY <1>9 DEF HeadersRight, GroupsIn
  <2> QED
    BY <2>1, <1>2, <1>7, <1>8 DEF TreeRight
<1> QED
  BY <1>3, <1>9 DEF TreeInv, Running

\* Headers for accounts that are enabled.
LEMMA TreeAccountEnabled ==
    ASSUME TreeInv, NEW a \in Accounts, AccountEnabledChanged(a) PROVE TreeInv'
<1>1. /\ Running /\ enabled' = IF a \in enabled THEN enabled \ {a} ELSE enabled \cup {a}
      /\ UNCHANGED <<conn, number, groupsOf, rows, mode, loaded, missed>>
      /\ IF mode # "AccountGrouping" THEN UNCHANGED tree
         ELSE IF a \in enabled THEN tree' = unforceGroup(tree, a)
         ELSE IF a \in ValidAccounts THEN tree' = forceGroup(tree, a)
         ELSE UNCHANGED tree
  BY DEF AccountEnabledChanged, connVars
<1>2. /\ tree \in Trees /\ HeadersRight(tree)
      /\ tree.forced = IF mode = "AccountGrouping" THEN enabled \cap ValidAccounts ELSE {}
  BY <1>1, TreeParts DEF TreeRight
<1>3. a \in AllGroups
  BY DEF AllGroups
<1>4. tree.groups \in SUBSET AllGroups /\ tree.forced \in SUBSET AllGroups /\ tree.nodes \in SUBSET Nodes
  BY <1>2 DEF Trees
<1>5. CASE mode # "AccountGrouping" \/ (a \notin enabled /\ a \notin ValidAccounts)
  <2>1. UNCHANGED tree
    BY <1>1, <1>5
  <2>2. tree'.forced = IF mode = "AccountGrouping" THEN enabled' \cap ValidAccounts ELSE {}
    BY <1>1, <1>2, <1>5, <2>1
  <2> QED
    BY <1>1, <1>2, <2>1, <2>2, TreeHeaders
<1>6. CASE mode = "AccountGrouping" /\ a \in enabled /\ tree' = unforceGroup(tree, a)
  <2>1. CASE a \notin tree.groups
    <3>1. tree' = [tree EXCEPT !.nulls = @ \cup {a}]
      BY <1>6, <2>1 DEF unforceGroup
    <3>2. /\ tree' \in Trees /\ tree'.nodes = tree.nodes /\ tree'.cache = tree.cache
          /\ tree'.groups = tree.groups /\ tree'.forced = tree.forced
      BY <3>1, <1>2, <1>3 DEF Trees
    <3>3. a \notin tree.forced /\ HeadersRight(tree')
      BY <2>1, <3>2, <1>2 DEF HeadersRight
    <3>4. tree'.forced = enabled' \cap ValidAccounts
      BY <3>2, <3>3, <1>1, <1>2, <1>6
    <3> QED
      BY <1>1, <1>6, <3>2, <3>3, <3>4, TreeHeaders
  <2>2. CASE a \in tree.groups
    <3> DEFINE left == \E e \in Entries : <<a, e>> \in tree.nodes
    <3>1. tree' = [tree EXCEPT !.forced = @ \ {a},
                              !.groups = IF left THEN @ ELSE @ \ {a}]
      BY <1>6, <2>2 DEF unforceGroup
    <3>2. left <=> a \in GroupsIn(tree.nodes)
      <4>1. \A x \in tree.nodes : x \in Nodes /\ x = <<x[1], x[2]>> /\ x[2] \in Entries
        BY <1>4, NodeParts
      <4>2. ASSUME left PROVE a \in GroupsIn(tree.nodes)
        <5>1. PICK e \in Entries : <<a, e>> \in tree.nodes
          BY <4>2
        <5>2. <<a, e>>[1] = a
          OBVIOUS
        <5> QED
          BY <5>1, <5>2 DEF GroupsIn
      <4>3. ASSUME a \in GroupsIn(tree.nodes) PROVE left
        <5>1. PICK x \in tree.nodes : x[1] = a
          BY <4>3 DEF GroupsIn
        <5> QED
          BY <5>1, <4>1
      <4> QED
        BY <4>2, <4>3
    <3> HIDE DEF left
    <3>3. /\ tree' \in Trees /\ tree'.nodes = tree.nodes /\ tree'.cache = tree.cache
          /\ tree'.groups = (IF left THEN tree.groups ELSE tree.groups \ {a})
          /\ tree'.forced = tree.forced \ {a}
      BY <3>1, <1>2, <1>3 DEF Trees
    <3>4. HeadersRight(tree')
      BY <3>2, <3>3, <1>2 DEF HeadersRight
    <3>5. tree'.forced = enabled' \cap ValidAccounts
      BY <3>3, <1>1, <1>2, <1>6
    <3> QED
      BY <1>1, <1>6, <3>3, <3>4, <3>5, TreeHeaders
  <2> QED
    BY <2>1, <2>2
<1>7. CASE mode = "AccountGrouping" /\ a \notin enabled /\ a \in ValidAccounts /\ tree' = forceGroup(tree, a)
  <2>1. CASE a \in tree.nulls
    <3>1. tree' = [tree EXCEPT !.crashed = TRUE]
      BY <1>7, <2>1 DEF forceGroup
    <3>2. tree' \in Trees /\ tree'.crashed
      BY <3>1, <1>2 DEF Trees
    <3> QED
      BY <3>2, <1>1, TreeParts DEF TreeInv, TreeTypes, Running
  <2>2. CASE a \notin tree.nulls
    <3>1. tree' = [tree EXCEPT !.groups = @ \cup {a}, !.forced = @ \cup {a}]
      BY <1>7, <2>2 DEF forceGroup
    <3>2. /\ tree' \in Trees /\ tree'.nodes = tree.nodes /\ tree'.cache = tree.cache
          /\ tree'.groups = tree.groups \cup {a} /\ tree'.forced = tree.forced \cup {a}
      BY <3>1, <1>2, <1>3 DEF Trees
    <3>3. HeadersRight(tree')
      BY <3>2, <1>2 DEF HeadersRight
    <3>4. tree'.forced = enabled' \cap ValidAccounts
      BY <3>2, <1>1, <1>2, <1>7
    <3> QED
      BY <1>1, <1>7, <3>2, <3>3, <3>4, TreeHeaders
  <2> QED
    BY <2>1, <2>2
<1> QED
  BY <1>1, <1>5, <1>6, <1>7
LEMMA TreeAccountChanged ==
    ASSUME TreeInv, NEW a \in Accounts, onAccountChanged(a) PROVE TreeInv'
<1>1. /\ Running /\ tree' = groupChanged(tree, a)
      /\ UNCHANGED <<enabled, conn, number, groupsOf, rows, mode, loaded, missed>>
  BY DEF onAccountChanged, connVars, proxyVars
<1>2. /\ tree \in Trees /\ HeadersRight(tree) /\ a \in AllGroups
      /\ tree.forced = IF mode = "AccountGrouping" THEN enabled \cap ValidAccounts ELSE {}
  BY <1>1, TreeParts DEF TreeRight, AllGroups
<1>3. /\ tree' \in Trees /\ tree'.nodes = tree.nodes /\ tree'.cache = tree.cache
      /\ tree'.groups = tree.groups /\ tree'.forced = tree.forced
  <2>1. CASE a \in tree.groups
    BY <2>1, <1>1, <1>2 DEF groupChanged
  <2>2. CASE a \notin tree.groups
    <3>1. tree' = [tree EXCEPT !.nulls = @ \cup {a}]
      BY <2>2, <1>1 DEF groupChanged
    <3> QED
      BY <3>1, <1>2 DEF Trees
  <2> QED
    BY <2>1, <2>2
<1>4. HeadersRight(tree')
  BY <1>2, <1>3 DEF HeadersRight
<1> QED
  BY <1>1, <1>2, <1>3, <1>4, TreeHeaders

\* A new proxy, with the headers of its accounts.
LEMMA TreeMode ==
    ASSUME TreeInv, NEW m \in Modes, setGroupMode(m) PROVE TreeInv'
<1> DEFINE shown == IF m = "AccountGrouping" THEN enabled \cap ValidAccounts ELSE {}
<1>1. /\ mode' = m /\ loaded' = FALSE /\ missed' = {}
      /\ tree' = [EmptyTree EXCEPT !.groups = shown, !.forced = shown]
      /\ UNCHANGED <<enabled, groupsOf, rows>>
  BY DEF setGroupMode
<1>2. shown \in SUBSET AllGroups
  BY ContactListAssumption DEF AllGroups
<1> HIDE DEF shown
<1>3. /\ tree' \in Trees /\ tree'.nodes = {} /\ tree'.groups = shown /\ tree'.forced = shown
      /\ \A e \in Entries : tree'.cache[e] = {}
  BY <1>1, <1>2 DEF EmptyTree, Trees
<1>4. TreeTypes'
  BY <1>1, <1>3, TreeParts DEF TreeTypes
<1>5. HeadersRight(tree)' /\ CacheRight(tree)' /\ Follows'
  BY <1>1, <1>3 DEF HeadersRight, GroupsIn, CacheRight, Follows
<1>6. tree'.forced = IF mode' = "AccountGrouping" THEN enabled' \cap ValidAccounts ELSE {}
  BY <1>1, <1>3 DEF shown
<1>7. TreeRight'
  BY <1>3, <1>5, <1>6 DEF TreeRight
<1> QED
  BY <1>4, <1>7 DEF TreeInv

\* The new proxy takes the rows there are.
LEMMA TreeLoads ==
    ASSUME RosterInv, TreeInv, onLoad PROVE TreeInv'
<1> DEFINE N == NodesOf(ToSet(rows), conn, groupsOf)
           u == AddNodes(tree, N)
<1>1. /\ Running /\ ~loaded /\ loaded' = TRUE /\ tree' = u
      /\ UNCHANGED <<enabled, conn, number, groupsOf, rows, mode, missed>>
  BY DEF onLoad, connVars
<1>2. /\ tree \in Trees /\ groupsOf \in [Entries -> SUBSET Groups] /\ mode \in Modes /\ TreeRight
  BY <1>1, TreeParts
<1>3. /\ HeadersRight(tree) /\ tree.nodes = {} /\ missed = {} /\ \A e \in Entries : tree.cache[e] = {}
      /\ tree.forced = IF mode = "AccountGrouping" THEN enabled \cap ValidAccounts ELSE {}
  BY <1>1, <1>2 DEF TreeRight, Follows
<1>4. ToSet(rows) \in SUBSET Entries
  BY RosterParts
<1>5. /\ N \in SUBSET Nodes
      /\ \A x \in N : x[2] \in ToSet(rows)
      /\ \A e \in ToSet(rows), g \in AllGroups : <<g, e>> \in N <=> g \in groupsForIndex(e, conn, groupsOf)
  BY <1>2, <1>4, NodesOfParts
<1>6. \A e \in ToSet(rows) : groupsForIndex(e, conn, groupsOf) \in SUBSET AllGroups
  BY <1>2, <1>4, GroupsTyped
<1>7. \A e \in Entries : groupsForIndex(e, conn, groupsOf)' = groupsForIndex(e, conn, groupsOf)
  BY <1>1 DEF groupsForIndex
<1> HIDE DEF N
<1>8. /\ u \in Trees /\ u.nodes = N /\ u.cache = tree.cache /\ u.forced = tree.forced
      /\ ~u.crashed => HeadersRight(u)
  <2>1. tree.nodes \cup N = N
    BY <1>3
  <2> QED
    BY <2>1, <1>2, <1>3, <1>5, AddedNodes
<1> HIDE DEF u
<1>9. TreeTypes'
  BY <1>1, <1>2, <1>8 DEF TreeTypes
<1>10. \A e \in ToSet(rows) : NodeGroups(u, e) = groupsForIndex(e, conn, groupsOf)
  BY <1>5, <1>6, <1>8 DEF NodeGroups
<1>11. Follows'
  BY <1>1, <1>4, <1>7, <1>10 DEF Follows, NodeGroups
<1>12. ASSUME ~u.crashed PROVE TreeRight'
  <2>1. HeadersRight(tree)' /\ CacheRight(tree)'
    BY <1>1, <1>3, <1>8, <1>12 DEF HeadersRight, CacheRight, GroupsIn
  <2>2. /\ tree'.forced = IF mode' = "AccountGrouping" THEN enabled' \cap ValidAccounts ELSE {}
        /\ \A x \in tree'.nodes : x[2] \in ToSet(rows')
        /\ \A e \in Entries : tree'.cache[e] = {}
    BY <1>1, <1>3, <1>5, <1>8
  <2> QED
    BY <2>1, <2>2, <1>11 DEF TreeRight
<1> QED
  BY <1>1, <1>9, <1>12 DEF TreeInv, Running

LEMMA TreeKept == RosterInv /\ TreeInv /\ [Next]_vars => TreeInv'
<1> SUFFICES ASSUME RosterInv, TreeInv, [Next]_vars PROVE TreeInv'
  OBVIOUS
<1>1. ASSUME NEW a \in Accounts, onConnectionChanged(a) PROVE TreeInv'
  BY <1>1, TreeConnected
<1>2. ASSUME NEW a \in Accounts, NEW n \in 1 .. MaxConnections[a], onConnectionReady(a, n) PROVE TreeInv'
  BY <1>2, TreeReady
<1>3. ASSUME NEW a \in Accounts, NEW R \in SUBSET Contacts, ListRetrieved(a, R) PROVE TreeInv'
  BY <1>3, TreeRetrieved
<1>4. ASSUME NEW a \in Accounts, ConnectionInvalidated(a) PROVE TreeInv'
  BY <1>4, TreeDropped
<1>5. ASSUME NEW a \in Accounts, AccountEnabledChanged(a) PROVE TreeInv'
  BY <1>5, TreeAccountEnabled
<1>6. ASSUME NEW a \in Accounts, onAccountChanged(a) PROVE TreeInv'
  BY <1>6, TreeAccountChanged
<1>7. ASSUME NEW c \in Contacts, allKnownContactsChanged(c) PROVE TreeInv'
  BY <1>7, TreeChanged
<1>8. ASSUME NEW e \in Entries, NEW G \in SUBSET Groups, onChanged(e, G) PROVE TreeInv'
  BY <1>8, TreeOnChanged
<1>9. ASSUME NEW m \in Modes, setGroupMode(m) PROVE TreeInv'
  BY <1>9, TreeMode
<1>10. CASE onLoad
  BY <1>10, TreeLoads
<1>11. CASE UNCHANGED vars
  <2>1. UNCHANGED <<tree, missed, rows, enabled, mode, loaded, groupsOf, conn, number>>
    BY <1>11 DEF vars, connVars, proxyVars
  <2>2. \A e \in Entries : groupsForIndex(e, conn, groupsOf)' = groupsForIndex(e, conn, groupsOf)
    BY <2>1, GroupsStay
  <2>3. \A e \in ToSet(rows) : groupsForIndex(e, conn, groupsOf)' = groupsForIndex(e, conn, groupsOf)
    BY <2>2, RosterParts
  <2> QED
    BY <2>1, <2>3, TreeSame
<1> QED
  BY <1>1, <1>2, <1>3, <1>4, <1>5, <1>6, <1>7, <1>8, <1>9, <1>10, <1>11 DEF Next

LEMMA TreeInvImplies == TreeInv => TreeIsRows
<1> SUFFICES ASSUME TreeInv, Running PROVE HeadersMatch /\ (loaded => NodesMatch)
  BY DEF TreeIsRows
<1>1. tree \in Trees /\ TreeRight /\ tree.nodes \in SUBSET Nodes
  BY TreeParts DEF Trees
<1>2. HeadersMatch
  <2>1. \A x \in tree.nodes : x[1] \in tree.groups
    BY <1>1 DEF TreeRight, HeadersRight, GroupsIn
  <2>2. ASSUME NEW g \in tree.groups \ tree.forced PROVE \E e \in Entries : <<g, e>> \in tree.nodes
    <3>1. PICK x \in tree.nodes : x[1] = g
      BY <1>1 DEF TreeRight, HeadersRight, GroupsIn
    <3>2. x = <<x[1], x[2]>> /\ x[2] \in Entries
      BY <1>1, NodeParts
    <3> QED
      BY <3>1, <3>2
  <2>3. mode = "AccountGrouping" => tree.forced = enabled \cap ValidAccounts
    BY <1>1 DEF TreeRight
  <2> QED
    BY <2>1, <2>2, <2>3 DEF HeadersMatch
<1>3. ASSUME loaded PROVE NodesMatch
  <2>1. \A x \in tree.nodes : Row(x[2])
    BY <1>1 DEF TreeRight, Row, ToSet
  <2>2. \A e \in ToSet(rows) \ missed : NodeGroups(tree, e) = groupsForIndex(e, conn, groupsOf)
    BY <1>1, <1>3 DEF TreeRight, Follows
  <2> QED
    BY <2>1, <2>2 DEF NodesMatch
<1> QED
  BY <1>2, <1>3

\* AbstractGroupingProxyModel with both of its subclasses: as long as the client runs, a
\* loaded proxy shows each row in exactly its groups, but for the first row, whose
\* changes it is not told, and has a header for each group with rows and each enabled
\* account.
THEOREM TreeFollowsRows == Spec => []TreeIsRows
<1>1. Init => RosterInv /\ TreeInv
  BY RosterInit, TreeInit
<1>2. RosterInv /\ TreeInv /\ [Next]_vars => (RosterInv /\ TreeInv)'
  BY RosterKept, TreeKept
<1>3. RosterInv /\ TreeInv => TreeIsRows
  BY TreeInvImplies
<1> QED
  BY <1>1, <1>2, <1>3, PTL DEF Spec
=============================================================================
