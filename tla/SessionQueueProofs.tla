------------------------- MODULE SessionQueueProofs -------------------------
(***************************************************************************)
(* IInv is an inductive invariant of SessionQueue, for any set of          *)
(* messages, any limit and both adapters.  First what the list operations  *)
(* do to the backlog, then one lemma per action, then the theorems.        *)
(***************************************************************************)
EXTENDS SessionQueue, TLAPS, WellFoundedInduction, SequenceTheorems

(* What enqueue and remove do to the items list, for every list.           *)
(* A nonempty set of naturals has a least element.                         *)
LEMMA LeastExists ==
  ASSUME NEW T, T \subseteq Nat, T # {}
  PROVE  \E i \in T : \A j \in T : i <= j
PROOF
  <1> DEFINE R == OpToRel(<, Nat)
  <1>1. IsWellFoundedOn(R, Nat)
    BY NatLessThanWellFounded
  <1>2. \E x \in T : \A y \in T : ~(<<y, x>> \in R)
    <2> HIDE DEF R
    <2> QED  BY <1>1, WFMin
  <1>3. \A x, y \in Nat : <<y, x>> \in R <=> y < x
    BY DEF OpToRel
  <1> HIDE DEF R
  <1>4. PICK x \in T : \A y \in T : ~(<<y, x>> \in R)
    BY <1>2
  <1>5. \A y \in T : x <= y
    <2>1. \A y \in T : ~(y < x) /\ x \in Nat /\ y \in Nat
      BY <1>3, <1>4
    <2> QED  BY <2>1
  <1> QED  BY <1>4, <1>5

(* A message is inserted at a position of the list or right behind it, and *)
(* everything before that position ranks no later than the message.        *)
LEMMA InsertIndexProperties ==
  ASSUME NEW items \in Seq(Msgs), NEW m \in Msgs
  PROVE  /\ InsertIndex(items, m) \in 1..Len(items)+1
         /\ \A i \in 1..InsertIndex(items, m)-1 : Rank(items[i]) <= Rank(m)
         /\ \A i \in InsertIndex(items, m)..Len(items) :
               i = InsertIndex(items, m) => Rank(items[i]) > Rank(m)
PROOF
  <1> DEFINE Later == { i \in 1..Len(items) : Rank(items[i]) > Rank(m) }
  <1>0. Len(items) \in Nat
    OBVIOUS
  <1>r. \A x \in Msgs : Rank(x) \in Nat
    BY PrioAssumption DEF Rank, PriorityRank, Priorities
  <1>s. \A i \in 1..Len(items) : items[i] \in Msgs
    OBVIOUS
  <1>1. CASE Later = {}
    <2>1. InsertIndex(items, m) = Len(items) + 1
      BY <1>1 DEF InsertIndex
    <2> QED  BY <1>0, <1>1, <2>1, <1>r, <1>s
  <1>2. CASE Later # {}
    <2>0. Later \subseteq Nat
      BY <1>0
    <2>1. \E i \in Later : \A j \in Later : i <= j
      <3> HIDE DEF Later
      <3> QED  BY <1>2, <2>0, LeastExists
    <2>2. /\ InsertIndex(items, m) \in Later
          /\ \A j \in Later : InsertIndex(items, m) <= j
      BY <1>2, <2>1 DEF InsertIndex
    <2>3. \A i \in 1..InsertIndex(items, m)-1 : i \notin Later
      BY <1>0, <2>2
    <2> QED  BY <1>0, <2>2, <2>3, <1>r, <1>s
  <1> QED  BY <1>1, <1>2

(* EnqueueItem adds the message at one position and shifts what follows.   *)
LEMMA EnqueueProperties ==
  ASSUME NEW items \in Seq(Msgs), NEW m \in Msgs
  PROVE  /\ EnqueueItem(items, m) \in Seq(Msgs)
         /\ Len(EnqueueItem(items, m)) = Len(items) + 1
         /\ \A i \in 1..Len(items)+1 : EnqueueItem(items, m)[i] =
              IF i < InsertIndex(items, m) THEN items[i]
              ELSE IF i = InsertIndex(items, m) THEN m ELSE items[i-1]
PROOF
  <1> DEFINE k == InsertIndex(items, m)
             n == Len(items)
             a == SubSeq(items, 1, k-1)
             b == SubSeq(items, k, n)
  <1>1. k \in 1..n+1 /\ n \in Nat
    BY InsertIndexProperties
  <1> HIDE DEF k
  <1>2. /\ a \in Seq(Msgs) /\ Len(a) = k-1
        /\ \A i \in 1..k-1 : a[i] = items[i]
    <2>1. \A i \in 1..k-1 : items[i] \in Msgs
      BY <1>1
    <2> QED  BY <1>1, <2>1, SubSeqProperties
  <1>3. /\ b \in Seq(Msgs) /\ Len(b) = n-k+1
        /\ \A i \in 1..n-k+1 : b[i] = items[k+i-1]
    <2>1. \A i \in k..n : items[i] \in Msgs
      BY <1>1
    <2> QED  BY <1>1, <2>1, SubSeqProperties
  <1> HIDE DEF a, b
  <1>4. EnqueueItem(items, m) = a \o <<m>> \o b
    BY DEF EnqueueItem, InsertAt, a, b, k, n
  <1> DEFINE c == a \o <<m>>
  <1>5. /\ c \in Seq(Msgs) /\ Len(c) = k
        /\ \A i \in 1..k : c[i] = IF i < k THEN items[i] ELSE m
    BY <1>1, <1>2
  <1> HIDE DEF c
  <1>6. /\ c \o b \in Seq(Msgs) /\ Len(c \o b) = n + 1
        /\ \A i \in 1..n+1 : (c \o b)[i] = IF i <= k THEN c[i] ELSE b[i-k]
    <2>1. \A i \in 1..n+1 : (c \o b)[i] = IF i <= k THEN c[i] ELSE b[i-k]
      BY <1>1, <1>3, <1>5, ConcatProperties
    <2>2. c \o b \in Seq(Msgs) /\ Len(c \o b) = Len(c) + Len(b)
      BY <1>3, <1>5, ConcatProperties
    <2>3. Len(c) + Len(b) = n + 1
      BY <1>1, <1>3, <1>5
    <2> QED  BY <2>1, <2>2, <2>3
  <1>7. \A i \in 1..n+1 : i > k => b[i-k] = items[i-1]
    <2> SUFFICES ASSUME NEW i \in 1..n+1, i > k  PROVE b[i-k] = items[i-1]
      OBVIOUS
    <2>1. i-k \in 1..n-k+1 /\ k + (i-k) - 1 = i-1
      BY <1>1
    <2> QED  BY <1>3, <2>1
  <1>8. EnqueueItem(items, m) = c \o b
    BY <1>4 DEF c
  <1> QED  BY <1>1, <1>5, <1>6, <1>7, <1>8 DEF k

(* RemoveItem drops the first occurrence, and nothing when there is none.  *)
LEMMA RemoveProperties ==
  ASSUME NEW items \in Seq(Msgs), NEW m \in Msgs
  PROVE  \/ /\ RemoveItem(items, m) = items
            /\ \A i \in 1..Len(items) : items[i] # m
         \/ \E k \in 1..Len(items) :
              /\ items[k] = m
              /\ RemoveItem(items, m) \in Seq(Msgs)
              /\ Len(RemoveItem(items, m)) = Len(items) - 1
              /\ \A i \in 1..Len(items)-1 : RemoveItem(items, m)[i] =
                   IF i < k THEN items[i] ELSE items[i+1]
PROOF
  <1> DEFINE At == { i \in 1..Len(items) : items[i] = m }
             n == Len(items)
  <1>0. n \in Nat
    OBVIOUS
  <1>1. CASE At = {}
    BY <1>1 DEF RemoveItem
  <1>2. CASE At # {}
    <2> DEFINE k == CHOOSE i \in At : \A j \in At : i <= j
               a == SubSeq(items, 1, k-1)
               b == SubSeq(items, k+1, n)
    <2>1. k \in At
      <3>0. At \subseteq Nat
        BY <1>0
      <3>1. \E i \in At : \A j \in At : i <= j
        <4> HIDE DEF At
        <4> QED  BY <1>2, <3>0, LeastExists
      <3> QED  BY <3>1
    <2>2. RemoveItem(items, m) = a \o b
      BY <1>2 DEF RemoveItem, RemoveAt
    <2> HIDE DEF k
    <2>3. k \in 1..n /\ items[k] = m
      BY <2>1
    <2>4. /\ a \in Seq(Msgs) /\ Len(a) = k-1
          /\ \A i \in 1..k-1 : a[i] = items[i]
      <3>1. \A i \in 1..k-1 : items[i] \in Msgs
        BY <2>3
      <3> QED  BY <1>0, <2>3, <3>1, SubSeqProperties
    <2>5. /\ b \in Seq(Msgs) /\ Len(b) = n-k
          /\ \A i \in 1..n-k : b[i] = items[k+i]
      <3>1. \A i \in k+1..n : items[i] \in Msgs
        BY <2>3
      <3> QED  BY <1>0, <2>3, <3>1, SubSeqProperties
    <2> HIDE DEF a, b
    <2>6. a \o b \in Seq(Msgs) /\ Len(a \o b) = n - 1
      BY <1>0, <2>3, <2>4, <2>5
    <2>7. \A i \in 1..n-1 : (a \o b)[i] = IF i < k THEN items[i] ELSE items[i+1]
      BY <1>0, <2>3, <2>4, <2>5
    <2> QED  BY <2>2, <2>3, <2>6, <2>7
  <1> QED  BY <1>1, <1>2

(* Enqueue keeps the list grouped by priority, and puts the message behind *)
(* everything of its own priority.                                         *)
LEMMA EnqueueKeepsOrdered ==
  ASSUME NEW items \in Seq(Msgs), NEW m \in Msgs, Ordered(items)
  PROVE  Ordered(EnqueueItem(items, m))
PROOF
  <1> DEFINE k == InsertIndex(items, m)
             n == Len(items)
             new == EnqueueItem(items, m)
  <1>0. n \in Nat /\ k \in 1..n+1 /\ Len(new) = n + 1
    BY InsertIndexProperties, EnqueueProperties
  <1>1. /\ \A i \in 1..k-1 : Rank(items[i]) <= Rank(m)
        /\ k <= n => Rank(items[k]) > Rank(m)
    BY <1>0, InsertIndexProperties
  <1>2. \A i \in 1..n+1 : new[i] = IF i < k THEN items[i]
                                    ELSE IF i = k THEN m ELSE items[i-1]
    BY EnqueueProperties
  <1>3. \A x \in Msgs : Rank(x) \in Nat
    BY PrioAssumption DEF Rank, PriorityRank, Priorities
  <1>4. \A i \in 1..n : items[i] \in Msgs
    OBVIOUS
  <1>5. \A i, j \in 1..n : i <= j => Rank(items[i]) <= Rank(items[j])
    BY <1>0, <1>3, <1>4 DEF Ordered
  <1> HIDE DEF k, n, new
  <1>6. ASSUME NEW i \in 1..n+1, NEW j \in 1..n+1, i < j
        PROVE  Rank(new[i]) <= Rank(new[j])
    <2>1. CASE j < k
      BY <1>0, <1>2, <1>5, <1>6, <2>1
    <2>2. CASE j = k
      BY <1>0, <1>1, <1>2, <1>6, <2>2
    <2>3. CASE j > k /\ i < k
      BY <1>0, <1>2, <1>5, <1>6, <2>3
    <2>4. CASE j > k /\ i = k
      <3>1. k <= n /\ Rank(m) <= Rank(items[k]) /\ Rank(items[k]) <= Rank(items[j-1])
        BY <1>0, <1>1, <1>3, <1>4, <1>5, <2>4
      <3>2. k \in 1..n /\ j-1 \in 1..n
        BY <1>0, <2>4
      <3> QED  BY <1>0, <1>2, <1>3, <1>4, <2>4, <3>1, <3>2
    <2>5. CASE j > k /\ i > k
      <3>1. i-1 \in 1..n /\ j-1 \in 1..n /\ i-1 < j-1
        BY <1>0, <1>6, <2>5
      <3>2. Rank(items[i-1]) <= Rank(items[j-1])
        BY <1>5, <3>1
      <3>3. new[i] = items[i-1] /\ new[j] = items[j-1]
        BY <1>0, <1>2, <1>6, <2>5
      <3> QED  BY <3>2, <3>3
    <2> QED  BY <1>0, <2>1, <2>2, <2>3, <2>4, <2>5
  <1> QED  BY <1>0, <1>6 DEF Ordered, new

(* Enqueue adds exactly the message, and keeps the ids distinct.           *)
LEMMA EnqueueContents ==
  ASSUME NEW items \in Seq(Msgs), NEW m \in Msgs
  PROVE  /\ \A x : Contains(EnqueueItem(items, m), x) <=> x = m \/ Contains(items, x)
         /\ Distinct(items) /\ ~Contains(items, m) => Distinct(EnqueueItem(items, m))
PROOF
  <1> DEFINE k == InsertIndex(items, m)
             n == Len(items)
             new == EnqueueItem(items, m)
  <1>0. n \in Nat /\ k \in 1..n+1 /\ Len(new) = n + 1
    BY InsertIndexProperties, EnqueueProperties
  <1>1. \A i \in 1..n+1 : new[i] = IF i < k THEN items[i]
                                    ELSE IF i = k THEN m ELSE items[i-1]
    BY EnqueueProperties
  <1> HIDE DEF k, new
  <1>2. ASSUME NEW x, Contains(new, x)  PROVE x = m \/ Contains(items, x)
    <2>1. PICK i \in 1..n+1 : new[i] = x
      BY <1>0, <1>2 DEF Contains
    <2>2. CASE i < k
      BY <1>0, <1>1, <2>1, <2>2 DEF Contains
    <2>3. CASE i = k
      BY <1>0, <1>1, <2>1, <2>3
    <2>4. CASE i > k
      <3>1. i-1 \in 1..n /\ items[i-1] = x
        BY <1>0, <1>1, <2>1, <2>4
      <3> QED  BY <3>1 DEF Contains
    <2> QED  BY <1>0, <2>2, <2>3, <2>4
  <1>3. ASSUME NEW x, x = m \/ Contains(items, x)  PROVE Contains(new, x)
    <2>1. CASE x = m
      BY <1>0, <1>1, <2>1 DEF Contains
    <2>2. CASE Contains(items, x)
      <3>1. PICK i \in 1..n : items[i] = x
        BY <2>2 DEF Contains
      <3>2. CASE i < k
        BY <1>0, <1>1, <3>1, <3>2 DEF Contains
      <3>3. CASE i >= k
        <4>1. i+1 \in 1..n+1 /\ new[i+1] = x
          BY <1>0, <1>1, <3>1, <3>3
        <4> QED  BY <1>0, <4>1 DEF Contains
      <3> QED  BY <1>0, <3>2, <3>3
    <2> QED  BY <1>3, <2>1, <2>2
  <1>4. ASSUME Distinct(items), ~Contains(items, m),
               NEW i \in 1..n+1, NEW j \in 1..n+1, new[i] = new[j]
        PROVE  i = j
    <2>1. \A a \in 1..n : items[a] # m
      BY <1>4 DEF Contains
    <2>2. \A a, b \in 1..n : items[a] = items[b] => a = b
      BY <1>4 DEF Distinct
    <2>3. /\ i # k => new[i] = items[IF i < k THEN i ELSE i-1]
          /\ j # k => new[j] = items[IF j < k THEN j ELSE j-1]
          /\ i = k => new[i] = m
          /\ j = k => new[j] = m
      BY <1>0, <1>1
    <2>4. /\ i # k => (IF i < k THEN i ELSE i-1) \in 1..n
          /\ j # k => (IF j < k THEN j ELSE j-1) \in 1..n
      BY <1>0
    <2> QED  BY <1>0, <1>4, <2>1, <2>2, <2>3, <2>4
  <1> QED  BY <1>0, <1>2, <1>3, <1>4 DEF Distinct, new

(* With distinct ids, remove takes out exactly the message, keeps the      *)
(* order, and leaves the list alone only if the message was not in it.     *)
LEMMA RemoveContents ==
  ASSUME NEW items \in Seq(Msgs), NEW m \in Msgs, Distinct(items)
  PROVE  /\ RemoveItem(items, m) \in Seq(Msgs)
         /\ Len(RemoveItem(items, m)) <= Len(items)
         /\ \A x : Contains(RemoveItem(items, m), x) <=> Contains(items, x) /\ x # m
         /\ Distinct(RemoveItem(items, m))
         /\ Ordered(items) => Ordered(RemoveItem(items, m))
         /\ RemoveItem(items, m) = items <=> ~Contains(items, m)
PROOF
  <1> DEFINE n == Len(items)
             new == RemoveItem(items, m)
  <1>0. n \in Nat
    OBVIOUS
  <1>1. CASE new = items /\ \A i \in 1..n : items[i] # m
    <2>1. ~Contains(items, m)
      BY <1>1 DEF Contains
    <2> QED  BY <1>0, <1>1, <2>1
  <1>2. CASE \E k \in 1..n : /\ items[k] = m /\ new \in Seq(Msgs) /\ Len(new) = n - 1
                             /\ \A i \in 1..n-1 : new[i] = IF i < k THEN items[i] ELSE items[i+1]
    <2> HIDE DEF new
    <2>1. PICK k \in 1..n : /\ items[k] = m /\ new \in Seq(Msgs) /\ Len(new) = n - 1
                            /\ \A i \in 1..n-1 : new[i] = IF i < k THEN items[i] ELSE items[i+1]
      BY <1>2
    <2>2. \A a, b \in 1..n : items[a] = items[b] => a = b
      BY DEF Distinct
    <2> DEFINE At(i) == IF i < k THEN i ELSE i + 1
    <2>3. \A i \in 1..n-1 : At(i) \in 1..n /\ At(i) # k /\ new[i] = items[At(i)]
      BY <1>0, <2>1
    <2>4. \A i, j \in 1..n-1 : (At(i) = At(j) => i = j) /\ (i < j => At(i) < At(j))
      BY <1>0, <2>1
    <2>5. \A a \in 1..n : a # k => \E i \in 1..n-1 : At(i) = a
      <3> SUFFICES ASSUME NEW a \in 1..n, a # k  PROVE \E i \in 1..n-1 : At(i) = a
        OBVIOUS
      <3>1. CASE a < k
        BY <1>0, <2>1, <3>1
      <3>2. CASE a > k
        <4>1. a-1 \in 1..n-1 /\ At(a-1) = a
          BY <1>0, <2>1, <3>2
        <4> QED  BY <4>1
      <3> QED  BY <1>0, <3>1, <3>2
    <2> HIDE DEF At
    <2>6. ASSUME NEW x, Contains(new, x)  PROVE Contains(items, x) /\ x # m
      <3>1. PICK i \in 1..n-1 : new[i] = x
        BY <2>1, <2>6 DEF Contains
      <3> QED  BY <2>1, <2>2, <2>3, <3>1 DEF Contains
    <2>7. ASSUME NEW x, Contains(items, x), x # m  PROVE Contains(new, x)
      <3>1. PICK a \in 1..n : items[a] = x
        BY <2>7 DEF Contains
      <3>2. PICK i \in 1..n-1 : At(i) = a
        BY <2>1, <2>5, <2>7, <3>1
      <3> QED  BY <2>1, <2>3, <3>1, <3>2 DEF Contains
    <2>8. Distinct(new)
      BY <2>1, <2>2, <2>3, <2>4 DEF Distinct
    <2>9. ASSUME Ordered(items)  PROVE Ordered(new)
      BY <2>1, <2>3, <2>4, <2>9 DEF Ordered
    <2>10. new # items /\ Contains(items, m) /\ Len(new) <= n
      BY <1>0, <2>1 DEF Contains
    <2> QED  BY <2>1, <2>6, <2>7, <2>8, <2>9, <2>10 DEF new
  <1> QED  BY <1>1, <1>2, RemoveProperties

-----------------------------------------------------------------------------
(* What the list operations preserve, taken together.                      *)
ListsOK == /\ pending \in Seq(Msgs) /\ queue \in Seq(Msgs)
           /\ BacklogShape /\ BacklogBounded /\ NothingLost

(* A message put in front of a list that does not hold it.                 *)
LEMMA PushContents ==
  ASSUME NEW items \in Seq(Msgs), NEW m \in Msgs
  PROVE  /\ <<m>> \o items \in Seq(Msgs)
         /\ Len(<<m>> \o items) = Len(items) + 1
         /\ \A x : Contains(<<m>> \o items, x) <=> x = m \/ Contains(items, x)
         /\ Distinct(items) /\ ~Contains(items, m) => Distinct(<<m>> \o items)
PROOF
  <1> DEFINE n == Len(items)
             new == <<m>> \o items
  <1>0. n \in Nat /\ new \in Seq(Msgs) /\ Len(new) = n + 1
    OBVIOUS
  <1>1. \A i \in 1..n+1 : new[i] = IF i = 1 THEN m ELSE items[i-1]
    OBVIOUS
  <1> HIDE DEF new
  <1>2. ASSUME NEW x, Contains(new, x)  PROVE x = m \/ Contains(items, x)
    <2>1. PICK i \in 1..n+1 : new[i] = x
      BY <1>0, <1>2 DEF Contains
    <2>2. CASE i # 1
      <3>1. i-1 \in 1..n /\ items[i-1] = x
        BY <1>0, <1>1, <2>1, <2>2
      <3> QED  BY <3>1 DEF Contains
    <2> QED  BY <1>0, <1>1, <2>1, <2>2
  <1>3. ASSUME NEW x, x = m \/ Contains(items, x)  PROVE Contains(new, x)
    <2>1. CASE x = m
      BY <1>0, <1>1, <2>1 DEF Contains
    <2>2. CASE Contains(items, x)
      <3>1. PICK i \in 1..n : items[i] = x
        BY <2>2 DEF Contains
      <3>2. i+1 \in 1..n+1 /\ new[i+1] = x
        BY <1>0, <1>1, <3>1
      <3> QED  BY <1>0, <3>2 DEF Contains
    <2> QED  BY <1>3, <2>1, <2>2
  <1>4. ASSUME Distinct(items), ~Contains(items, m),
               NEW i \in 1..n+1, NEW j \in 1..n+1, new[i] = new[j]
        PROVE  i = j
    <2>1. \A a \in 1..n : items[a] # m
      BY <1>4 DEF Contains
    <2>2. \A a, b \in 1..n : items[a] = items[b] => a = b
      BY <1>4 DEF Distinct
    <2>3. /\ i # 1 => i-1 \in 1..n /\ new[i] = items[i-1]
          /\ j # 1 => j-1 \in 1..n /\ new[j] = items[j-1]
          /\ i = 1 => new[i] = m
          /\ j = 1 => new[j] = m
      BY <1>0, <1>1
    <2> QED  BY <1>0, <1>4, <2>1, <2>2, <2>3
  <1> QED  BY <1>0, <1>2, <1>3, <1>4 DEF Distinct, new

(* The shape of the lists, said of members instead of positions.           *)
LEMMA ShapeByMembers ==
  ASSUME NEW items \in Seq(Msgs)
  PROVE  /\ (\A i \in 1..Len(items) : High(items[i]))
              <=> \A x \in Msgs : Contains(items, x) => High(x)
         /\ (\A i \in 1..Len(items) : ~High(items[i]))
              <=> \A x \in Msgs : Contains(items, x) => ~High(x)
         /\ \A x : Contains(items, x) => x \in Msgs
BY DEF Contains

(* An urgent message that is not in the backlog goes to its front.         *)
LEMMA PushUrgentLists ==
  ASSUME IInv, NEW m \in Msgs, High(m), status[m] # "queued",
         PushUrgent(m)
  PROVE  ListsOK'
PROOF
  <1>1. /\ pending \in Seq(Msgs) /\ queue \in Seq(Msgs)
        /\ BacklogShape /\ BacklogBounded /\ NothingLost
        /\ status \in [Msgs -> Statuses]
    BY DEF IInv, TypeOK
  <1>2. ~Contains(pending, m) /\ ~Contains(queue, m)
    BY <1>1 DEF NothingLost, InBacklog
  <1>3. CASE BacklogCount >= Limit
    <2>1. /\ pending' = pending /\ queue' = queue
          /\ status' = [status EXCEPT ![m] = "rejected"]
      BY <1>1, <1>3, LimitAssumption DEF PushUrgent, BacklogCount
    <2> QED
      BY <1>1, <1>2, <2>1
         DEF ListsOK, BacklogShape, BacklogBounded, BacklogCount, NothingLost,
             InBacklog, Ordered, Distinct
  <1>4. CASE BacklogCount < Limit
    <2>1. /\ pending' = <<m>> \o pending /\ queue' = queue
          /\ status' = [status EXCEPT ![m] = "queued"]
      BY <1>1, <1>4, LimitAssumption DEF PushUrgent, BacklogCount
    <2>2. /\ pending' \in Seq(Msgs) /\ Len(pending') = Len(pending) + 1
          /\ \A x : Contains(pending', x) <=> x = m \/ Contains(pending, x)
          /\ Distinct(pending')
      BY <1>1, <1>2, <2>1, PushContents DEF BacklogShape
    <2>3. BacklogShape'
      BY <1>1, <2>1, <2>2, ShapeByMembers DEF BacklogShape
    <2>4. BacklogBounded'
      BY <1>1, <1>4, <2>1, <2>2, LimitAssumption DEF BacklogBounded, BacklogCount
    <2>5. NothingLost'
      BY <1>1, <2>1, <2>2 DEF NothingLost, InBacklog
    <2> QED  BY <1>1, <2>1, <2>2, <2>3, <2>4, <2>5 DEF ListsOK
  <1> QED
    BY <1>1, <1>3, <1>4, LimitAssumption DEF BacklogCount

(* A message that is not in the backlog joins the queue.                   *)
LEMMA EnqueueLists ==
  ASSUME IInv, NEW m \in Msgs, EnqueueQueuedMessage(m)
  PROVE  ListsOK'
PROOF
  <1>1. /\ pending \in Seq(Msgs) /\ queue \in Seq(Msgs)
        /\ BacklogShape /\ BacklogBounded /\ NothingLost
        /\ status \in [Msgs -> Statuses]
    BY DEF IInv, TypeOK
  <1>2. ~Contains(pending, m) /\ ~Contains(queue, m) /\ ~High(m)
    BY <1>1 DEF NothingLost, InBacklog, EnqueueQueuedMessage
  <1>0. BacklogCount \in Nat /\ Limit \in Nat
    BY <1>1, LimitAssumption DEF BacklogCount
  <1>3. CASE BacklogCount >= Limit
    <2>1. /\ pending' = pending /\ queue' = queue
          /\ status' = [status EXCEPT ![m] = "rejected"]
      BY <1>0, <1>3 DEF EnqueueQueuedMessage, drainVars, agentVars, ScheduleDrain
    <2> QED
      BY <1>1, <1>2, <2>1
         DEF ListsOK, BacklogShape, BacklogBounded, BacklogCount, NothingLost,
             InBacklog, Ordered, Distinct
  <1>4. CASE BacklogCount < Limit
    <2>1. /\ pending' = pending /\ queue' = EnqueueItem(queue, m)
          /\ status' = [status EXCEPT ![m] = "queued"]
      BY <1>0, <1>4 DEF EnqueueQueuedMessage, drainVars, agentVars, ScheduleDrain
    <2>2. /\ queue' \in Seq(Msgs) /\ Len(queue') = Len(queue) + 1
          /\ \A x : Contains(queue', x) <=> x = m \/ Contains(queue, x)
          /\ Distinct(queue') /\ Ordered(queue')
      BY <1>1, <1>2, <2>1, EnqueueProperties, EnqueueContents, EnqueueKeepsOrdered
         DEF BacklogShape
    <2>3. BacklogShape'
      BY <1>1, <1>2, <2>1, <2>2, ShapeByMembers DEF BacklogShape
    <2>4. BacklogBounded'
      BY <1>1, <1>4, <2>1, <2>2, LimitAssumption DEF BacklogBounded, BacklogCount
    <2>5. NothingLost'
      BY <1>1, <2>1, <2>2 DEF NothingLost, InBacklog
    <2> QED  BY <1>1, <2>1, <2>2, <2>3, <2>4, <2>5 DEF ListsOK
  <1> QED
    BY <1>0, <1>3, <1>4

(* Removal takes the message, and only it, out of the backlog.             *)
LEMMA RemoveLists ==
  ASSUME IInv, NEW m \in Msgs, RemoveFromBacklog(m)
  PROVE  /\ pending' \in Seq(Msgs) /\ queue' \in Seq(Msgs)
         /\ BacklogShape' /\ BacklogBounded'
         /\ \A x : InBacklog(x)' <=> InBacklog(x) /\ x # m
         /\ BacklogCount' > 0 => BacklogCount > 0
PROOF
  <1>1. /\ pending \in Seq(Msgs) /\ queue \in Seq(Msgs)
        /\ BacklogShape /\ BacklogBounded
    BY DEF IInv, TypeOK
  <1>2. ~(Contains(pending, m) /\ Contains(queue, m))
    BY <1>1, ShapeByMembers DEF BacklogShape
  <1>3. /\ pending' \in Seq(Msgs) /\ Len(pending') <= Len(pending)
        /\ \A x : Contains(pending', x) <=> Contains(pending, x) /\ x # m
        /\ Distinct(pending')
        /\ pending' = pending <=> ~Contains(pending, m)
    BY <1>1, RemoveContents DEF RemoveFromBacklog, BacklogShape
  <1>4. /\ queue' \in Seq(Msgs) /\ Len(queue') <= Len(queue)
        /\ \A x : Contains(queue', x) <=> Contains(queue, x) /\ x # m
        /\ Distinct(queue') /\ Ordered(queue')
    <2>1. CASE pending' = pending
      BY <1>1, <2>1, RemoveContents DEF RemoveFromBacklog, BacklogShape
    <2>2. CASE pending' # pending
      BY <1>1, <1>2, <1>3, <2>2 DEF RemoveFromBacklog, BacklogShape
    <2> QED  BY <2>1, <2>2
  <1>5. BacklogShape'
    BY <1>1, <1>3, <1>4, ShapeByMembers DEF BacklogShape
  <1>6. BacklogBounded' /\ (BacklogCount' > 0 => BacklogCount > 0)
    BY <1>1, <1>3, <1>4, LimitAssumption DEF BacklogBounded, BacklogCount
  <1> QED  BY <1>3, <1>4, <1>5, <1>6 DEF InBacklog

(* A reordering has the members of the list, each once.                    *)
LEMMA ReorderingProperties ==
  ASSUME NEW items \in Seq(Msgs), NEW s \in Reorderings(items)
  PROVE  /\ s \in Seq(Msgs) /\ Len(s) = Len(items)
         /\ \A x : Contains(s, x) <=> Contains(items, x)
         /\ Distinct(items) => Distinct(s)
PROOF
  <1> DEFINE n == Len(items)
  <1>0. n \in Nat
    OBVIOUS
  <1>1. PICK p \in Bijection(1..n, 1..n) : s = [i \in 1..n |-> items[p[i]]]
    BY DEF Reorderings
  <1>2. /\ \A i \in 1..n : p[i] \in 1..n
        /\ \A i, j \in 1..n : p[i] = p[j] => i = j
        /\ \A k \in 1..n : \E i \in 1..n : p[i] = k
    BY <1>1 DEF Bijection, Injection, Surjection, IsInjective
  <1>3. s \in Seq(Msgs) /\ Len(s) = n
    BY <1>0, <1>1, <1>2
  <1>4. \A x : Contains(s, x) <=> Contains(items, x)
    BY <1>1, <1>2, <1>3 DEF Contains
  <1>5. ASSUME Distinct(items), NEW i \in 1..n, NEW j \in 1..n, s[i] = s[j]
        PROVE  i = j
    <2>1. items[p[i]] = items[p[j]] /\ p[i] \in 1..n /\ p[j] \in 1..n
      BY <1>1, <1>2, <1>5
    <2>2. p[i] = p[j]
      BY <1>5, <2>1 DEF Distinct
    <2> QED  BY <1>2, <2>2
  <1> QED  BY <1>3, <1>4, <1>5 DEF Distinct

(* A reordering keeps the backlog's members, its grouping and its size.    *)
LEMMA ReorderLists ==
  ASSUME IInv, Reorder
  PROVE  /\ ListsOK' /\ BacklogCount' = BacklogCount
PROOF
  <1>1. /\ pending \in Seq(Msgs) /\ queue \in Seq(Msgs)
        /\ BacklogShape /\ BacklogBounded /\ NothingLost
    BY DEF IInv, TypeOK
  <1>2. /\ pending' \in Reorderings(pending) /\ queue' \in Reorderings(queue)
        /\ \A i \in 1..Len(queue) : Prio[queue'[i]] = Prio[queue[i]]
        /\ status' = status
    BY DEF Reorder
  <1>3. /\ pending' \in Seq(Msgs) /\ Len(pending') = Len(pending)
        /\ \A x : Contains(pending', x) <=> Contains(pending, x)
        /\ Distinct(pending')
    BY <1>1, <1>2, ReorderingProperties DEF BacklogShape
  <1>4. /\ queue' \in Seq(Msgs) /\ Len(queue') = Len(queue)
        /\ \A x : Contains(queue', x) <=> Contains(queue, x)
        /\ Distinct(queue')
    BY <1>1, <1>2, ReorderingProperties DEF BacklogShape
  <1>5. Ordered(queue')
    <2>1. \A i \in 1..Len(queue) : Rank(queue'[i]) = Rank(queue[i])
      BY <1>2 DEF Rank
    <2> QED  BY <1>1, <1>4, <2>1 DEF BacklogShape, Ordered
  <1>6. BacklogShape'
    BY <1>1, <1>3, <1>4, <1>5, ShapeByMembers DEF BacklogShape
  <1>7. BacklogBounded' /\ BacklogCount' = BacklogCount
    BY <1>1, <1>3, <1>4 DEF BacklogBounded, BacklogCount
  <1>8. NothingLost'
    BY <1>1, <1>2, <1>3, <1>4 DEF NothingLost, InBacklog
  <1> QED  BY <1>3, <1>4, <1>6, <1>7, <1>8 DEF ListsOK

(* The message a drain takes up is one that waits.                         *)
LEMMA NextMessageWaits ==
  ASSUME IInv, NextMessage # None
  PROVE  /\ NextMessage \in Msgs /\ InBacklog(NextMessage)
         /\ status[NextMessage] = "queued"
PROOF
  <1>1. pending \in Seq(Msgs) /\ queue \in Seq(Msgs) /\ NothingLost
    BY DEF IInv, TypeOK
  <1>2. \A s \in Seq(Msgs) : s # <<>> => Head(s) \in Msgs /\ Contains(s, Head(s))
    BY DEF Contains
  <1>3. NextMessage \in Msgs /\ InBacklog(NextMessage)
    BY <1>1, <1>2 DEF NextMessage, InBacklog
  <1> QED  BY <1>1, <1>3 DEF NothingLost

-----------------------------------------------------------------------------
(* What PushUrgent does to the rest of the state.                          *)
LEMMA PushUrgentEffect ==
  ASSUME IInv, NEW m \in Msgs, PushUrgent(m)
  PROVE  /\ status' \in [Msgs -> Statuses]
         /\ status'[m] \in {"queued", "rejected"}
         /\ \A x \in Msgs : x # m => status'[x] = status[x]
         /\ turnDone' = turnDone /\ drainMsg' = drainMsg
         /\ drain' \in {"idle", "scheduled", "awaiting", "sending"}
         /\ drain' = "sending" <=> drain = "sending"
         /\ drain # "idle" => drain' # "idle"
         /\ drainForce' \in BOOLEAN /\ drainAgain' \in BOOLEAN
         /\ drainAgainForce' \in BOOLEAN
         /\ drain' # "idle" \/ (pending' = pending /\ queue' = queue)
PROOF
  <1> USE DEF IInv, TypeOK
  <1>1. /\ status' \in [Msgs -> Statuses]
        /\ status'[m] \in {"queued", "rejected"}
        /\ \A x \in Msgs : x # m => status'[x] = status[x]
        /\ turnDone' = turnDone
    BY DEF PushUrgent, Statuses
  <1>2. /\ drainMsg' = drainMsg
        /\ drain' \in {"idle", "scheduled", "awaiting", "sending"}
        /\ drain' = "sending" <=> drain = "sending"
        /\ drain # "idle" => drain' # "idle"
        /\ drainForce' \in BOOLEAN /\ drainAgain' \in BOOLEAN
        /\ drainAgainForce' \in BOOLEAN
    BY DEF PushUrgent, ScheduleDrain, drainVars
  <1>3. drain' # "idle" \/ (pending' = pending /\ queue' = queue)
    BY DEF PushUrgent, ScheduleDrain
  <1> QED  BY <1>1, <1>2, <1>3

(* The state after a message that was not in the backlog is pushed, given  *)
(* what the rest of the action did.                                        *)
LEMMA PushUrgentStep ==
  ASSUME IInv, NEW m \in Msgs, High(m), PushUrgent(m),
         status[m] \in {"new", "first", "direct"},
         overtaken' = overtaken \ {m},
         current' \in {current, None}, status[m] = "first" => current' = None,
         UNCHANGED <<copies, agentWork, proc, retryFor>>,
         status[m] # "new" /\ proc = "up" =>
             agentWork > 0 \/ (Provider = "codex" /\ m \in overtaken) \/ Provider = "claude"
  PROVE  IInv'
PROOF
  <1> DEFINE unchanged == /\ copies' = copies /\ agentWork' = agentWork
                          /\ proc' = proc /\ retryFor' = retryFor
  <1>0. unchanged
    OBVIOUS
  <1>1. ListsOK'
    BY PushUrgentLists
  <1>2. /\ status' \in [Msgs -> Statuses]
        /\ status'[m] \in {"queued", "rejected"}
        /\ \A x \in Msgs : x # m => status'[x] = status[x]
        /\ turnDone' = turnDone /\ drainMsg' = drainMsg
        /\ drain' \in {"idle", "scheduled", "awaiting", "sending"}
        /\ drain' = "sending" <=> drain = "sending"
        /\ drain # "idle" => drain' # "idle"
        /\ drainForce' \in BOOLEAN /\ drainAgain' \in BOOLEAN
        /\ drainAgainForce' \in BOOLEAN
        /\ drain' # "idle" \/ (pending' = pending /\ queue' = queue)
    BY PushUrgentEffect
  <1>3. m # drainMsg
    BY NoneAssumption DEF IInv, TypeOK, DispatchInv
  <1>4. InFlight' = InFlight \ {m}
    BY <1>2, <1>3 DEF InFlight
  <1>5. TypeOK'
    BY <1>0, <1>1, <1>2, <1>4 DEF IInv, TypeOK, ListsOK
  <1>6. DispatchInv'
    BY <1>0, <1>2, <1>3, NoneAssumption DEF IInv, TypeOK, DispatchInv
  <1>7. (InFlight \ overtaken) \ {m} = InFlight' \ overtaken'
    BY <1>4
  <1>8. ASSUME proc = "up", TurnOwed  PROVE TurnOwed'
    <2>1. CASE status[m] = "new"
      <3>1. m \notin InFlight
        BY <1>3, <2>1 DEF InFlight
      <3> QED  BY <1>0, <1>7, <1>8, <3>1 DEF TurnOwed
    <2>2. CASE status[m] # "new"
      BY <1>0, <1>7, <1>8, <2>2 DEF TurnOwed
    <2> QED  BY <2>1, <2>2
  <1>9. WakeupInv'
    <2> SUFFICES ASSUME proc = "up"
                 PROVE  /\ ~turnDone' => TurnOwed'
                        /\ current' # None =>
                             \/ agentWork' > 0
                             \/ /\ current' \notin overtaken'
                                /\ status'[current'] = "first" \/ current' = drainMsg'
                        /\ BacklogCount' > 0 => \/ drain' # "idle" \/ retryFor' # None
                                                \/ TurnOwed'
      BY <1>0 DEF WakeupInv
    <2>1. ~turnDone' => TurnOwed'
      BY <1>2, <1>8 DEF IInv, WakeupInv
    <2>2. current' # None =>
             \/ agentWork' > 0
             \/ /\ current' \notin overtaken'
                /\ status'[current'] = "first" \/ current' = drainMsg'
      <3>1. CASE current' = m
        <4>1. current = m /\ status[m] # "first"
          BY <3>1, NoneAssumption
        <4> QED  BY <1>0, <1>3, <4>1 DEF IInv, WakeupInv
      <3>2. CASE current' # m /\ current' # None
        BY <1>0, <1>2, <3>2 DEF IInv, TypeOK, WakeupInv
      <3> QED  BY <3>1, <3>2
    <2>3. BacklogCount' > 0 => drain' # "idle" \/ retryFor' # None \/ TurnOwed'
      BY <1>0, <1>2, <1>8 DEF IInv, WakeupInv, BacklogCount
    <2> QED  BY <2>1, <2>2, <2>3
  <1> QED  BY <1>1, <1>5, <1>6, <1>9 DEF IInv, ListsOK

(* A message that joins the queue is waited for by the drain it asks for.  *)
LEMMA EnqueueQueuedMessageStep ==
  ASSUME IInv, NEW m \in Msgs, EnqueueQueuedMessage(m)
  PROVE  IInv'
PROOF
  <1>0. ListsOK'
    BY EnqueueLists
  <1>2. BacklogShape'
    BY <1>0 DEF ListsOK
  <1>3. BacklogBounded'
    BY <1>0 DEF ListsOK
  <1>4. NothingLost'
    BY <1>0 DEF ListsOK
  <1>7. pending' \in Seq(Msgs) /\ queue' \in Seq(Msgs)
    BY <1>0 DEF ListsOK
  <1>1. TypeOK'
    BY NoneAssumption, ProviderAssumption, <1>7
       DEF IInv, TypeOK, InFlight, Statuses, EnqueueQueuedMessage, Free,
       BacklogCount, drainVars, ScheduleDrain, agentVars
  <1>5. WakeupInv'
    BY NoneAssumption, ProviderAssumption
       DEF IInv, TypeOK, WakeupInv, TurnOwed, InFlight, BacklogCount,
       DispatchInv, EnqueueQueuedMessage, Free, drainVars, ScheduleDrain,
       agentVars
  <1>6. DispatchInv'
    BY NoneAssumption, ProviderAssumption
       DEF IInv, TypeOK, DispatchInv, InFlight, EnqueueQueuedMessage, Free,
       BacklogCount, drainVars, ScheduleDrain, agentVars
  <1> QED  BY <1>1, <1>2, <1>3, <1>4, <1>5, <1>6 DEF IInv

(* An urgent send goes in flight, or to the front with a drain behind it.  *)
LEMMA SendImmediateStep ==
  ASSUME IInv, NEW m \in Msgs, SendImmediate(m)
  PROVE  IInv'
PROOF
  <1>1. /\ High(m) /\ status[m] = "new"
        /\ UNCHANGED <<retryFor, copies, agentWork, proc>>
    BY DEF SendImmediate, agentVars
  <1>2. CASE PushUrgent(m) /\ UNCHANGED <<current, overtaken>>
    <2>1. m \notin overtaken
      BY <1>1 DEF IInv, TypeOK, InFlight, DispatchInv
    <2> QED  BY <1>1, <1>2, <2>1, PushUrgentStep
  <1>3. ASSUME NEW s \in {"first", "direct"},
               current' = IF s = "first" THEN m ELSE current,
               s = "first" => turnDone /\ current = None, s = "direct" => ~turnDone,
               status' = [status EXCEPT ![m] = s],
               Dispatch(m), UNCHANGED <<pending, queue, drainVars>>
        PROVE  IInv'
    <2>0. /\ pending' = pending /\ queue' = queue
          /\ drain' = drain /\ drainForce' = drainForce /\ drainAgain' = drainAgain
          /\ drainAgainForce' = drainAgainForce /\ drainMsg' = drainMsg
          /\ retryFor' = retryFor /\ copies' = copies /\ agentWork' = agentWork
          /\ proc' = proc /\ overtaken' = overtaken \ {m}
      BY <1>1, <1>3 DEF drainVars, Dispatch
    <2>1. /\ drainMsg # m /\ InFlight' = InFlight \cup {m}
          /\ TypeOK'
      <3>1. drainMsg # m
        BY <1>1, NoneAssumption DEF IInv, TypeOK, DispatchInv
      <3>2. InFlight' = InFlight \cup {m}
        BY <1>1, <1>3, <2>0, <3>1 DEF IInv, TypeOK, InFlight
      <3>3. TypeOK'
        BY <1>1, <1>3, <2>0, <3>2 DEF IInv, TypeOK, Statuses, Dispatch
      <3> QED  BY <3>1, <3>2, <3>3
    <2>2. BacklogShape' /\ BacklogBounded'
      BY <2>0 DEF IInv, BacklogShape, BacklogBounded, BacklogCount, Ordered, Distinct
    <2>3. NothingLost'
      BY <1>1, <1>3, <2>0 DEF IInv, TypeOK, NothingLost, InBacklog
    <2>4. WakeupInv'
      <3>1. TurnOwed => TurnOwed'
        BY <2>0, <2>1 DEF TurnOwed
      <3>2. Provider = "codex" => TurnOwed'
        BY <2>0, <2>1 DEF TurnOwed
      <3>3. ~turnDone' => Provider = "codex" \/ ~turnDone
        BY <1>3 DEF Dispatch
      <3> QED
        BY <1>1, <1>3, <2>0, <3>1, <3>2, <3>3, NoneAssumption
           DEF IInv, TypeOK, WakeupInv, BacklogCount
    <2>5. DispatchInv'
      BY <1>1, <1>3, <2>0, <2>1, NoneAssumption DEF IInv, TypeOK, DispatchInv
    <2> QED  BY <2>1, <2>2, <2>3, <2>4, <2>5 DEF IInv
  <1>4. CASE /\ MaySendFirst /\ current' = m
             /\ status' = [status EXCEPT ![m] = "first"]
             /\ Dispatch(m) /\ UNCHANGED <<pending, queue, drainVars>>
    BY <1>3, <1>4 DEF MaySendFirst
  <1>5. CASE /\ MaySendDirect /\ status' = [status EXCEPT ![m] = "direct"]
             /\ Dispatch(m) /\ UNCHANGED <<pending, queue, current, drainVars>>
    <2>1. current' = current /\ UNCHANGED <<pending, queue, drainVars>>
      BY <1>5
    <2> QED  BY <1>3, <1>5, <2>1 DEF MaySendDirect
  <1> QED  BY <1>2, <1>4, <1>5 DEF SendImmediate


(* Types, when the first send is accepted.                                 *)
LEMMA FirstSentType ==
  ASSUME IInv, NEW m \in Msgs, FirstSent(m)
  PROVE  TypeOK'
PROOF
  <1>1. copies' \in [Msgs -> Nat] /\ agentWork' \in Nat
    BY DEF IInv, TypeOK, FirstSent, Accepted
  <1>2. overtaken' \subseteq InFlight'
    BY DEF IInv, TypeOK, FirstSent, Accepted, InFlight, drainVars
  <1> QED
    BY <1>1, <1>2, ProviderAssumption, NoneAssumption DEF IInv, TypeOK, FirstSent, Accepted, Statuses, drainVars

(* The first send was accepted: its turn's end will look at the backlog.   *)
LEMMA FirstSentStep ==
  ASSUME IInv, NEW m \in Msgs, FirstSent(m)
  PROVE  IInv'
PROOF
  <1>1. TypeOK'
    BY FirstSentType
  <1>2. BacklogShape'
    BY NoneAssumption, ProviderAssumption
       DEF IInv, BacklogShape, FirstSent, Accepted, drainVars
  <1>3. BacklogBounded'
    BY NoneAssumption, ProviderAssumption
       DEF IInv, BacklogBounded, BacklogCount, FirstSent, Accepted, drainVars
  <1>4. NothingLost'
    BY NoneAssumption, ProviderAssumption
       DEF IInv, TypeOK, NothingLost, InBacklog, InFlight, FirstSent, Accepted,
       drainVars
  <1>5. WakeupInv'
    BY NoneAssumption, ProviderAssumption
       DEF IInv, TypeOK, WakeupInv, TurnOwed, InFlight, BacklogCount,
       DispatchInv, FirstSent, Accepted, drainVars
  <1>6. DispatchInv'
    BY NoneAssumption, ProviderAssumption
       DEF IInv, TypeOK, DispatchInv, InFlight, FirstSent, Accepted, drainVars
  <1> QED  BY <1>1, <1>2, <1>3, <1>4, <1>5, <1>6 DEF IInv

(* The first send was refused for now: it is sent again directly.          *)
LEMMA FirstBusyStep ==
  ASSUME IInv, NEW m \in Msgs, FirstBusy(m)
  PROVE  IInv'
PROOF
  <1>1. High(m)
    BY DEF FirstBusy, IInv, DispatchInv
  <1>2. /\ status[m] = "first" /\ overtaken' = overtaken \ {m} /\ proc = "up"
        /\ current' = None /\ UNCHANGED <<copies, agentWork, proc, retryFor>>
        /\ Provider = "codex" => agentWork > 0 \/ m \in overtaken
    BY DEF FirstBusy, Busy
  <1>3. CASE PushUrgent(m)
    BY <1>1, <1>2, <1>3, PushUrgentStep, ProviderAssumption
  <1>4. CASE /\ status' = [status EXCEPT ![m] = "direct"]
             /\ UNCHANGED <<turnDone, pending, queue, drainVars>>
    <2>0. /\ turnDone' = turnDone /\ pending' = pending /\ queue' = queue
          /\ drain' = drain /\ drainForce' = drainForce /\ drainAgain' = drainAgain
          /\ drainAgainForce' = drainAgainForce /\ drainMsg' = drainMsg
      BY <1>4 DEF drainVars
    <2>1. InFlight' = InFlight /\ TypeOK'
      BY <1>2, <1>4, <2>0 DEF IInv, TypeOK, InFlight, Statuses
    <2>2. BacklogShape' /\ BacklogBounded'
      BY <2>0 DEF IInv, BacklogShape, BacklogBounded, BacklogCount, Ordered, Distinct
    <2>3. NothingLost'
      BY <1>2, <1>4, <2>0 DEF IInv, TypeOK, NothingLost, InBacklog
    <2>4. WakeupInv'
      BY <1>2, <1>4, <2>0, <2>1, ProviderAssumption
         DEF IInv, WakeupInv, TurnOwed, BacklogCount
    <2>5. DispatchInv'
      BY <1>1, <1>2, <1>4, <2>0, NoneAssumption DEF IInv, TypeOK, DispatchInv
    <2> QED  BY <2>1, <2>2, <2>3, <2>4, <2>5 DEF IInv
  <1> QED  BY <1>3, <1>4 DEF FirstBusy

(* The first send was refused for good.                                    *)
LEMMA FirstRefusedStep ==
  ASSUME IInv, NEW m \in Msgs, FirstRefused(m)
  PROVE  IInv'
PROOF
  <1>1. TypeOK'
    BY NoneAssumption, ProviderAssumption
       DEF IInv, TypeOK, InFlight, Statuses, FirstRefused, Refused, drainVars
  <1>2. BacklogShape'
    BY NoneAssumption, ProviderAssumption
       DEF IInv, BacklogShape, FirstRefused, Refused, drainVars
  <1>3. BacklogBounded'
    BY NoneAssumption, ProviderAssumption
       DEF IInv, BacklogBounded, BacklogCount, FirstRefused, Refused, drainVars
  <1>4. NothingLost'
    BY NoneAssumption, ProviderAssumption
       DEF IInv, TypeOK, NothingLost, InBacklog, InFlight, FirstRefused, Refused,
       drainVars
  <1>5. WakeupInv'
    BY NoneAssumption, ProviderAssumption
       DEF IInv, TypeOK, WakeupInv, TurnOwed, InFlight, BacklogCount,
       DispatchInv, FirstRefused, Refused, drainVars
  <1>6. DispatchInv'
    BY NoneAssumption, ProviderAssumption
       DEF IInv, TypeOK, DispatchInv, InFlight, FirstRefused, Refused, drainVars
  <1> QED  BY <1>1, <1>2, <1>3, <1>4, <1>5, <1>6 DEF IInv

(* Types, when the direct send is accepted.                                *)
LEMMA DirectSentType ==
  ASSUME IInv, NEW m \in Msgs, DirectSent(m)
  PROVE  TypeOK'
PROOF
  <1>1. copies' \in [Msgs -> Nat] /\ agentWork' \in Nat
    BY DEF IInv, TypeOK, DirectSent, Accepted
  <1>2. overtaken' \subseteq InFlight'
    BY DEF IInv, TypeOK, DirectSent, Accepted, InFlight, drainVars
  <1> QED
    BY <1>1, <1>2, ProviderAssumption DEF IInv, TypeOK, DirectSent, Accepted, Statuses, drainVars

(* The direct send was accepted.                                           *)
LEMMA DirectSentStep ==
  ASSUME IInv, NEW m \in Msgs, DirectSent(m)
  PROVE  IInv'
PROOF
  <1>1. TypeOK'
    BY DirectSentType
  <1>2. BacklogShape'
    BY NoneAssumption, ProviderAssumption
       DEF IInv, BacklogShape, DirectSent, Accepted, drainVars
  <1>3. BacklogBounded'
    BY NoneAssumption, ProviderAssumption
       DEF IInv, BacklogBounded, BacklogCount, DirectSent, Accepted, drainVars
  <1>4. NothingLost'
    BY NoneAssumption, ProviderAssumption
       DEF IInv, TypeOK, NothingLost, InBacklog, InFlight, DirectSent, Accepted,
       drainVars
  <1>5. WakeupInv'
    BY NoneAssumption, ProviderAssumption
       DEF IInv, TypeOK, WakeupInv, TurnOwed, InFlight, BacklogCount,
       DispatchInv, DirectSent, Accepted, drainVars
  <1>6. DispatchInv'
    BY NoneAssumption, ProviderAssumption
       DEF IInv, TypeOK, DispatchInv, InFlight, DirectSent, Accepted, drainVars
  <1> QED  BY <1>1, <1>2, <1>3, <1>4, <1>5, <1>6 DEF IInv

(* The direct send was refused for now: it goes to the front, with a       *)
(* drain.                                                                  *)
LEMMA DirectBusyStep ==
  ASSUME IInv, NEW m \in Msgs, DirectBusy(m)
  PROVE  IInv'
PROOF
  <1>1. High(m)
    BY DEF DirectBusy, IInv, DispatchInv
  <1>2. /\ status[m] = "direct" /\ PushUrgent(m) /\ overtaken' = overtaken \ {m}
        /\ current' = current /\ UNCHANGED <<copies, agentWork, proc, retryFor>>
        /\ Provider = "codex" => agentWork > 0 \/ m \in overtaken
    BY DEF DirectBusy, Busy
  <1> QED  BY <1>1, <1>2, PushUrgentStep, ProviderAssumption

(* The direct send was refused for good.                                   *)
LEMMA DirectRefusedStep ==
  ASSUME IInv, NEW m \in Msgs, DirectRefused(m)
  PROVE  IInv'
PROOF
  <1>1. TypeOK'
    BY NoneAssumption, ProviderAssumption
       DEF IInv, TypeOK, InFlight, Statuses, DirectRefused, Refused, drainVars
  <1>2. BacklogShape'
    BY NoneAssumption, ProviderAssumption
       DEF IInv, BacklogShape, DirectRefused, Refused, drainVars
  <1>3. BacklogBounded'
    BY NoneAssumption, ProviderAssumption
       DEF IInv, BacklogBounded, BacklogCount, DirectRefused, Refused, drainVars
  <1>4. NothingLost'
    BY NoneAssumption, ProviderAssumption
       DEF IInv, TypeOK, NothingLost, InBacklog, InFlight, DirectRefused,
       Refused, drainVars
  <1>5. WakeupInv'
    BY NoneAssumption, ProviderAssumption
       DEF IInv, TypeOK, WakeupInv, TurnOwed, InFlight, BacklogCount,
       DispatchInv, DirectRefused, Refused, drainVars
  <1>6. DispatchInv'
    BY NoneAssumption, ProviderAssumption
       DEF IInv, TypeOK, DispatchInv, InFlight, DirectRefused, Refused, drainVars
  <1> QED  BY <1>1, <1>2, <1>3, <1>4, <1>5, <1>6 DEF IInv

(* A drain declines with a wakeup left behind, or goes on to its await.    *)
LEMMA DrainBeginStep ==
  ASSUME IInv, DrainBegin
  PROVE  IInv'
PROOF
  <1>1. TypeOK'
    BY NoneAssumption, ProviderAssumption
       DEF IInv, TypeOK, InFlight, Statuses, DrainBegin, Free, agentVars
  <1>2. BacklogShape'
    BY NoneAssumption, ProviderAssumption
       DEF IInv, BacklogShape, DrainBegin, Free, agentVars, InFlight
  <1>3. BacklogBounded'
    BY NoneAssumption, ProviderAssumption
       DEF IInv, BacklogBounded, BacklogCount, DrainBegin, Free, agentVars,
       InFlight
  <1>4. NothingLost'
    BY NoneAssumption, ProviderAssumption
       DEF IInv, TypeOK, NothingLost, InBacklog, InFlight, DrainBegin, Free,
       agentVars
  <1>5. WakeupInv'
    BY NoneAssumption, ProviderAssumption
       DEF IInv, TypeOK, WakeupInv, TurnOwed, InFlight, BacklogCount,
       DispatchInv, DrainBegin, Free, agentVars
  <1>6. DispatchInv'
    BY NoneAssumption, ProviderAssumption
       DEF IInv, TypeOK, DispatchInv, InFlight, DrainBegin, Free, agentVars
  <1> QED  BY <1>1, <1>2, <1>3, <1>4, <1>5, <1>6 DEF IInv

(* A drain that finds the state changed after its await ends.              *)
LEMMA DrainSkipStep ==
  ASSUME IInv, DrainSkip
  PROVE  IInv'
PROOF
  <1>1. TypeOK'
    BY NoneAssumption, ProviderAssumption
       DEF IInv, TypeOK, InFlight, Statuses, DrainSkip, Free, DrainDeclines,
       FinishDrain, agentVars, NextMessage, MustWait, Watchdog
  <1>2. BacklogShape'
    BY NoneAssumption, ProviderAssumption
       DEF IInv, BacklogShape, DrainSkip, Free, DrainDeclines, FinishDrain,
       agentVars, InFlight, NextMessage, MustWait, Watchdog
  <1>3. BacklogBounded'
    BY NoneAssumption, ProviderAssumption
       DEF IInv, BacklogBounded, BacklogCount, DrainSkip, Free, DrainDeclines,
       FinishDrain, agentVars, InFlight, NextMessage, MustWait, Watchdog
  <1>4. NothingLost'
    BY NoneAssumption, ProviderAssumption
       DEF IInv, TypeOK, NothingLost, InBacklog, InFlight, DrainSkip, Free,
       DrainDeclines, FinishDrain, agentVars, NextMessage, MustWait, Watchdog
  <1>5. WakeupInv'
    BY NoneAssumption, ProviderAssumption
       DEF IInv, TypeOK, WakeupInv, TurnOwed, InFlight, BacklogCount,
       DispatchInv, DrainSkip, Free, DrainDeclines, FinishDrain, agentVars,
       NextMessage, MustWait, Watchdog
  <1>6. DispatchInv'
    BY NoneAssumption, ProviderAssumption
       DEF IInv, TypeOK, DispatchInv, InFlight, DrainSkip, Free, DrainDeclines,
       FinishDrain, agentVars, NextMessage, MustWait, Watchdog
  <1> QED  BY <1>1, <1>2, <1>3, <1>4, <1>5, <1>6 DEF IInv

(* Types, when a drain dispatches its message.                             *)
LEMMA DrainDispatchType ==
  ASSUME IInv, DrainDispatch
  PROVE  TypeOK' /\ DispatchInv'
PROOF
  <1>1. /\ NextMessage \in Msgs /\ status[NextMessage] = "queued"
    BY NextMessageWaits DEF DrainDispatch, DrainDeclines
  <1>2. overtaken' \subseteq InFlight'
    BY <1>1 DEF IInv, TypeOK, DrainDispatch, Dispatch, InFlight
  <1>3. TypeOK'
    BY <1>1, <1>2, NoneAssumption DEF IInv, TypeOK, DrainDispatch, Dispatch, agentVars
  <1>4. DispatchInv'
    BY <1>1 DEF IInv, DispatchInv, DrainDispatch, Dispatch, agentVars
  <1> QED  BY <1>3, <1>4

(* A drain makes the next message the current one and dispatches it.       *)
LEMMA DrainDispatchStep ==
  ASSUME IInv, DrainDispatch
  PROVE  IInv'
PROOF
  <1>1. TypeOK'
    BY DrainDispatchType
  <1>2. BacklogShape'
    BY NoneAssumption, ProviderAssumption
       DEF IInv, BacklogShape, DrainDispatch, Free, DrainDeclines, NextMessage,
       Dispatch, agentVars, InFlight, MustWait, Watchdog
  <1>3. BacklogBounded'
    BY NoneAssumption, ProviderAssumption
       DEF IInv, BacklogBounded, BacklogCount, DrainDispatch, Free,
       DrainDeclines, NextMessage, Dispatch, agentVars, InFlight, MustWait,
       Watchdog
  <1>4. NothingLost'
    BY NoneAssumption, ProviderAssumption
       DEF IInv, TypeOK, NothingLost, InBacklog, InFlight, DrainDispatch, Free,
       DrainDeclines, NextMessage, Dispatch, agentVars, MustWait, Watchdog
  <1>5. WakeupInv'
    BY NoneAssumption, ProviderAssumption
       DEF IInv, TypeOK, WakeupInv, TurnOwed, InFlight, BacklogCount,
       DispatchInv, DrainDispatch, Free, DrainDeclines, NextMessage,
       Dispatch, agentVars, MustWait, Watchdog
  <1>6. DispatchInv'
    BY DrainDispatchType
  <1> QED  BY <1>1, <1>2, <1>3, <1>4, <1>5, <1>6 DEF IInv

(* The drained message was accepted and leaves the backlog.                *)
LEMMA DrainSentStep ==
  ASSUME IInv, DrainSent
  PROVE  IInv'
PROOF
  <1>1. /\ drainMsg \in Msgs /\ drain = "sending"
        /\ status[drainMsg] \in {"queued", "dropped"}
    BY DEF DrainSent, IInv, TypeOK, DispatchInv
  <1>2. /\ pending' \in Seq(Msgs) /\ queue' \in Seq(Msgs)
        /\ BacklogShape' /\ BacklogBounded'
        /\ \A x : InBacklog(x)' <=> InBacklog(x) /\ x # drainMsg
        /\ BacklogCount' > 0 => BacklogCount > 0
    BY <1>1, RemoveLists DEF DrainSent
  <1>3. status' = [status EXCEPT ![drainMsg] = "delivered"]
    BY DEF DrainSent
  <1>4. overtaken' \subseteq InFlight'
    BY <1>1, <1>3 DEF IInv, TypeOK, InFlight, DrainSent, Accepted, FinishDrain
  <1>5. copies' \in [Msgs -> Nat] /\ agentWork' \in Nat
    BY <1>1 DEF IInv, TypeOK, DrainSent, Accepted
  <1>6. TypeOK'
    BY <1>1, <1>2, <1>3, <1>4, <1>5, NoneAssumption
       DEF IInv, TypeOK, Statuses, DrainSent, Accepted, FinishDrain
  <1>7. NothingLost'
    BY <1>1, <1>2, <1>3 DEF IInv, TypeOK, NothingLost
  <1>8. WakeupInv'
    BY <1>2, <1>3, NoneAssumption
       DEF IInv, TypeOK, WakeupInv, TurnOwed, InFlight, DrainSent, Accepted, FinishDrain
  <1>9. DispatchInv'
    BY <1>1, <1>3, NoneAssumption, ProviderAssumption
       DEF IInv, TypeOK, DispatchInv, DrainSent, Accepted, FinishDrain
  <1> QED  BY <1>2, <1>6, <1>7, <1>8, <1>9 DEF IInv

(* The drained message was refused for now: the retry timer is armed.      *)
LEMMA DrainBusyStep ==
  ASSUME IInv, DrainBusy
  PROVE  IInv'
PROOF
  <1>1. TypeOK'
    BY NoneAssumption, ProviderAssumption
       DEF IInv, TypeOK, InFlight, Statuses, DrainBusy, Busy, FinishDrain
  <1>2. BacklogShape'
    BY NoneAssumption, ProviderAssumption
       DEF IInv, BacklogShape, DrainBusy, Busy, FinishDrain
  <1>3. BacklogBounded'
    BY NoneAssumption, ProviderAssumption
       DEF IInv, BacklogBounded, BacklogCount, DrainBusy, Busy, FinishDrain
  <1>4. NothingLost'
    BY NoneAssumption, ProviderAssumption
       DEF IInv, TypeOK, NothingLost, InBacklog, InFlight, DrainBusy, Busy,
       FinishDrain
  <1>5. WakeupInv'
    BY NoneAssumption, ProviderAssumption
       DEF IInv, TypeOK, WakeupInv, TurnOwed, InFlight, BacklogCount,
       DispatchInv, DrainBusy, Busy, FinishDrain
  <1>6. DispatchInv'
    BY NoneAssumption, ProviderAssumption
       DEF IInv, TypeOK, DispatchInv, InFlight, DrainBusy, Busy, FinishDrain
  <1> QED  BY <1>1, <1>2, <1>3, <1>4, <1>5, <1>6 DEF IInv

(* The drained message was refused for good and leaves the backlog.        *)
LEMMA DrainRefusedStep ==
  ASSUME IInv, DrainRefused
  PROVE  IInv'
PROOF
  <1>1. /\ drainMsg \in Msgs /\ drain = "sending"
        /\ status[drainMsg] \in {"queued", "dropped"}
    BY DEF DrainRefused, IInv, TypeOK, DispatchInv
  <1>2. /\ pending' \in Seq(Msgs) /\ queue' \in Seq(Msgs)
        /\ BacklogShape' /\ BacklogBounded'
        /\ \A x : InBacklog(x)' <=> InBacklog(x) /\ x # drainMsg
        /\ BacklogCount' > 0 => BacklogCount > 0
    BY <1>1, RemoveLists DEF DrainRefused
  <1>3. \A x \in Msgs : /\ x # drainMsg => status'[x] = status[x]
                        /\ status'[drainMsg] \in {"failed", "dropped"}
                        /\ status' \in [Msgs -> Statuses]
    BY <1>1 DEF DrainRefused, IInv, TypeOK, NothingLost, Statuses
  <1>4. overtaken' \subseteq InFlight'
    BY <1>1, <1>3 DEF IInv, TypeOK, InFlight, DrainRefused, Refused, FinishDrain
  <1>6. TypeOK'
    BY <1>1, <1>2, <1>3, <1>4, NoneAssumption
       DEF IInv, TypeOK, DrainRefused, Refused, FinishDrain
  <1>7. NothingLost'
    BY <1>1, <1>2, <1>3 DEF IInv, TypeOK, NothingLost
  <1>8. WakeupInv'
    BY <1>1, <1>2, <1>3, NoneAssumption, ProviderAssumption
       DEF DrainRefused, Refused, WakeupInv
  <1>9. DispatchInv'
    BY <1>1, <1>3, NoneAssumption, ProviderAssumption
       DEF IInv, TypeOK, DispatchInv, DrainRefused, Refused, FinishDrain
  <1> QED  BY <1>2, <1>6, <1>7, <1>8, <1>9 DEF IInv

(* The retry timer is replaced by the drain it asks for.                   *)
LEMMA RetryTimerFiresStep ==
  ASSUME IInv, RetryTimerFires
  PROVE  IInv'
PROOF
  <1>1. TypeOK'
    BY NoneAssumption, ProviderAssumption
       DEF IInv, TypeOK, InFlight, Statuses, RetryTimerFires, Free,
       ScheduleDrain, agentVars
  <1>2. BacklogShape'
    BY NoneAssumption, ProviderAssumption
       DEF IInv, BacklogShape, RetryTimerFires, Free, ScheduleDrain, agentVars,
       InFlight
  <1>3. BacklogBounded'
    BY NoneAssumption, ProviderAssumption
       DEF IInv, BacklogBounded, BacklogCount, RetryTimerFires, Free,
       ScheduleDrain, agentVars, InFlight
  <1>4. NothingLost'
    BY NoneAssumption, ProviderAssumption
       DEF IInv, TypeOK, NothingLost, InBacklog, InFlight, RetryTimerFires, Free,
       ScheduleDrain, agentVars
  <1>5. WakeupInv'
    BY NoneAssumption, ProviderAssumption
       DEF IInv, TypeOK, WakeupInv, TurnOwed, InFlight, BacklogCount,
       DispatchInv, RetryTimerFires, Free, ScheduleDrain, agentVars
  <1>6. DispatchInv'
    BY NoneAssumption, ProviderAssumption
       DEF IInv, TypeOK, DispatchInv, InFlight, RetryTimerFires, Free,
       ScheduleDrain, agentVars
  <1> QED  BY <1>1, <1>2, <1>3, <1>4, <1>5, <1>6 DEF IInv

(* Types, when a turn ends.                                                *)
LEMMA TurnEndType ==
  ASSUME IInv, TurnEnd
  PROVE  TypeOK'
PROOF
  <1>1. agentWork' \in Nat
    BY DEF IInv, TypeOK, TurnEnd
  <1>2. overtaken' \subseteq InFlight'
    BY DEF IInv, TypeOK, TurnEnd, InFlight, ScheduleDrain, drainVars
  <1>3. /\ drain' \in {"idle", "scheduled", "awaiting", "sending"} /\ drainMsg' = drainMsg
        /\ drain' = "sending" <=> drain = "sending"
        /\ drainForce' \in BOOLEAN /\ drainAgain' \in BOOLEAN /\ drainAgainForce' \in BOOLEAN
    BY DEF IInv, TypeOK, TurnEnd, ScheduleDrain, drainVars
  <1> QED
    BY <1>1, <1>2, <1>3, NoneAssumption DEF IInv, TypeOK, TurnEnd

(* A turn's end frees the current message and asks for a drain.            *)
LEMMA TurnEndStep ==
  ASSUME IInv, TurnEnd
  PROVE  IInv'
PROOF
  <1>1. TypeOK'
    BY TurnEndType
  <1>2. BacklogShape'
    BY NoneAssumption, ProviderAssumption
       DEF IInv, BacklogShape, TurnEnd, Free, InFlight, ScheduleDrain,
       BacklogCount, drainVars
  <1>3. BacklogBounded'
    BY NoneAssumption, ProviderAssumption
       DEF IInv, BacklogBounded, BacklogCount, TurnEnd, Free, InFlight,
       ScheduleDrain, drainVars
  <1>4. NothingLost'
    BY NoneAssumption, ProviderAssumption
       DEF IInv, TypeOK, NothingLost, InBacklog, InFlight, TurnEnd, Free,
       ScheduleDrain, BacklogCount, drainVars
  <1>5. WakeupInv'
    BY NoneAssumption, ProviderAssumption
       DEF IInv, TypeOK, WakeupInv, TurnOwed, InFlight, BacklogCount,
       DispatchInv, TurnEnd, Free, ScheduleDrain, drainVars
  <1>6. DispatchInv'
    BY NoneAssumption, ProviderAssumption
       DEF IInv, TypeOK, DispatchInv, InFlight, TurnEnd, Free, ScheduleDrain,
       BacklogCount, drainVars
  <1> QED  BY <1>1, <1>2, <1>3, <1>4, <1>5, <1>6 DEF IInv

(* A turn that starts is owed an end.                                      *)
LEMMA TurnStartStep ==
  ASSUME IInv, TurnStart
  PROVE  IInv'
PROOF
  <1>1. TypeOK'
    BY NoneAssumption, ProviderAssumption
       DEF IInv, TypeOK, InFlight, Statuses, TurnStart, Free, drainVars, agentVars
  <1>2. BacklogShape'
    BY NoneAssumption, ProviderAssumption
       DEF IInv, BacklogShape, TurnStart, Free, drainVars, agentVars, InFlight
  <1>3. BacklogBounded'
    BY NoneAssumption, ProviderAssumption
       DEF IInv, BacklogBounded, BacklogCount, TurnStart, Free, drainVars,
       agentVars, InFlight
  <1>4. NothingLost'
    BY NoneAssumption, ProviderAssumption
       DEF IInv, TypeOK, NothingLost, InBacklog, InFlight, TurnStart, Free,
       drainVars, agentVars
  <1>5. WakeupInv'
    BY NoneAssumption, ProviderAssumption
       DEF IInv, TypeOK, WakeupInv, TurnOwed, InFlight, BacklogCount,
       DispatchInv, TurnStart, Free, drainVars, agentVars
  <1>6. DispatchInv'
    BY NoneAssumption, ProviderAssumption
       DEF IInv, TypeOK, DispatchInv, InFlight, TurnStart, Free, drainVars,
       agentVars
  <1> QED  BY <1>1, <1>2, <1>3, <1>4, <1>5, <1>6 DEF IInv

(* Removing a message disarms its retry, and only its.                     *)
LEMMA RemoveQueuedStep ==
  ASSUME IInv, NEW m \in Msgs, RemoveQueued(m)
  PROVE  IInv'
PROOF
  <1>1. /\ pending' \in Seq(Msgs) /\ queue' \in Seq(Msgs)
        /\ BacklogShape' /\ BacklogBounded'
        /\ \A x : InBacklog(x)' <=> InBacklog(x) /\ x # m
        /\ BacklogCount' > 0 => BacklogCount > 0
    BY RemoveLists DEF RemoveQueued
  <1>2. InBacklog(m) /\ status[m] = "queued"
    <2>1. InBacklog(m)
      BY DEF RemoveQueued, Removable, InBacklog, Contains
    <2> QED  BY <2>1 DEF IInv, NothingLost
  <1>3. status' = [status EXCEPT ![m] = "dropped"] /\ status \in [Msgs -> Statuses]
    BY <1>2 DEF RemoveQueued, IInv, TypeOK
  <1>4. overtaken' \subseteq InFlight'
    BY <1>2, <1>3 DEF IInv, TypeOK, InFlight, RemoveQueued, ScheduleDrain, drainVars
  <1>5. TypeOK'
    BY <1>1, <1>3, <1>4, NoneAssumption
       DEF IInv, TypeOK, Statuses, RemoveQueued, ScheduleDrain, drainVars, agentVars
  <1>6. NothingLost'
    BY <1>1, <1>3 DEF IInv, NothingLost
  <1>7. WakeupInv'
    <2>0. /\ InFlight' = InFlight /\ overtaken' = overtaken /\ agentWork' = agentWork
          /\ current' = current /\ turnDone' = turnDone /\ proc' = proc
          /\ drainMsg' = drainMsg
      BY <1>2, <1>3 DEF IInv, TypeOK, InFlight, RemoveQueued, ScheduleDrain, drainVars, agentVars
    <2>1. /\ drain # "idle" => drain' # "idle"
          /\ retryFor # m => retryFor' = retryFor
          /\ retryFor = m /\ turnDone /\ current = None /\ (pending' # <<>> \/ queue' # <<>>)
               => drain' # "idle"
      BY DEF RemoveQueued, ScheduleDrain, drainVars
    <2>2. BacklogCount' > 0 => pending' # <<>> \/ queue' # <<>>
      BY <1>1 DEF BacklogCount
    <2>3. BacklogCount' > 0 /\ proc = "up" => drain' # "idle" \/ retryFor' # None \/ TurnOwed
      <3>1. CASE retryFor # m
        BY <1>1, <2>1, <3>1 DEF IInv, WakeupInv
      <3>2. CASE retryFor = m /\ ~turnDone
        BY <2>0, <3>2 DEF IInv, WakeupInv
      <3>3. CASE retryFor = m /\ turnDone /\ current = None
        BY <2>1, <2>2, <3>3
      <3>4. CASE retryFor = m /\ turnDone /\ current # None
        <4>1. CASE agentWork > 0
          BY <4>1 DEF TurnOwed
        <4>2. CASE /\ current \notin overtaken
                   /\ status[current] = "first" \/ current = drainMsg
          <5>1. current \in InFlight \ overtaken /\ (current = drainMsg => drain = "sending")
            BY <3>4, <4>2 DEF IInv, TypeOK, InFlight
          <5> QED  BY <1>1, <2>1, <3>4, <5>1, NoneAssumption, ProviderAssumption DEF IInv, TypeOK, WakeupInv, TurnOwed, DispatchInv, RemoveQueued, Free
        <4> QED  BY <3>4, <4>1, <4>2 DEF IInv, WakeupInv
      <3> QED  BY <3>1, <3>2, <3>3, <3>4 DEF IInv, TypeOK
    <2>4. \A x \in Msgs : status[x] = "first" => status'[x] = "first"
      BY <1>2, <1>3
    <2> QED  BY <2>0, <2>3, <2>4 DEF IInv, TypeOK, WakeupInv, TurnOwed
  <1>8. DispatchInv'
    BY <1>2, <1>3 DEF IInv, TypeOK, DispatchInv, RemoveQueued, ScheduleDrain, drainVars
  <1> QED  BY <1>1, <1>5, <1>6, <1>7, <1>8 DEF IInv


(* Clearing the backlog leaves nothing to wake up for.                     *)
LEMMA ClearQueueStep ==
  ASSUME IInv, ClearQueue
  PROVE  IInv'
PROOF
  <1>1. /\ pending' = <<>> /\ queue' = <<>>
        /\ status' = [x \in Msgs |-> IF InBacklog(x) /\ status[x] = "queued"
                                       THEN "dropped" ELSE status[x]]
        /\ status \in [Msgs -> Statuses] /\ NothingLost
    BY DEF IInv, TypeOK, ClearQueue
  <1>2. ~Contains(<<>>, None) /\ \A x : ~Contains(<<>>, x)
    BY DEF Contains
  <1>3. \A x \in Msgs : /\ status[x] = "queued" => status'[x] = "dropped"
                        /\ status[x] # "queued" => status'[x] = status[x]
    BY <1>1 DEF NothingLost
  <1>4. TypeOK'
    BY <1>1 DEF IInv, TypeOK, InFlight, Statuses, ClearQueue, drainVars, agentVars
  <1>5. BacklogShape'
    BY <1>1 DEF BacklogShape, Ordered, Distinct
  <1>6. BacklogBounded'
    BY <1>1, LimitAssumption DEF BacklogBounded, BacklogCount
  <1>7. NothingLost'
    BY <1>1, <1>2, <1>3 DEF NothingLost, InBacklog
  <1>8. WakeupInv'
    BY <1>1, <1>3, NoneAssumption
       DEF IInv, TypeOK, WakeupInv, TurnOwed, InFlight, BacklogCount, ClearQueue, drainVars, agentVars
  <1>9. DispatchInv'
    BY <1>3 DEF IInv, TypeOK, DispatchInv, ClearQueue, drainVars
  <1> QED  BY <1>4, <1>5, <1>6, <1>7, <1>8, <1>9 DEF IInv

(* Reordering touches the lists alone.                                     *)
LEMMA ReorderStep ==
  ASSUME IInv, Reorder
  PROVE  IInv'
PROOF
  <1>0. ListsOK'
    BY ReorderLists
  <1>2. BacklogShape'
    BY <1>0 DEF ListsOK
  <1>3. BacklogBounded'
    BY <1>0 DEF ListsOK
  <1>4. NothingLost'
    BY <1>0 DEF ListsOK
  <1>7. pending' \in Seq(Msgs) /\ queue' \in Seq(Msgs)
    BY <1>0 DEF ListsOK
  <1>1. TypeOK'
    BY NoneAssumption, ProviderAssumption, <1>7
       DEF IInv, TypeOK, InFlight, Statuses, Reorder, Free, BacklogCount,
       drainVars, agentVars
  <1>5. WakeupInv'
    BY NoneAssumption, ProviderAssumption
       DEF IInv, TypeOK, WakeupInv, TurnOwed, InFlight, BacklogCount,
       DispatchInv, Reorder, Free, drainVars, agentVars
  <1>6. DispatchInv'
    BY NoneAssumption, ProviderAssumption
       DEF IInv, TypeOK, DispatchInv, InFlight, Reorder, Free, BacklogCount,
       drainVars, agentVars
  <1> QED  BY <1>1, <1>2, <1>3, <1>4, <1>5, <1>6 DEF IInv

(* A provider that closes its input answers no more, and nothing else      *)
(* changes.                                                                *)
LEMMA ProcessClosesStep ==
  ASSUME IInv, ProcessCloses
  PROVE  IInv'
PROOF
  <1>1. TypeOK'
    BY NoneAssumption, ProviderAssumption
       DEF IInv, TypeOK, InFlight, Statuses, ProcessCloses, Free, drainVars
  <1>2. BacklogShape'
    BY NoneAssumption, ProviderAssumption
       DEF IInv, BacklogShape, ProcessCloses, Free, drainVars, InFlight
  <1>3. BacklogBounded'
    BY NoneAssumption, ProviderAssumption
       DEF IInv, BacklogBounded, BacklogCount, ProcessCloses, Free, drainVars,
       InFlight
  <1>4. NothingLost'
    BY NoneAssumption, ProviderAssumption
       DEF IInv, TypeOK, NothingLost, InBacklog, InFlight, ProcessCloses, Free,
       drainVars
  <1>5. WakeupInv'
    BY NoneAssumption, ProviderAssumption
       DEF IInv, TypeOK, WakeupInv, TurnOwed, InFlight, BacklogCount,
       DispatchInv, ProcessCloses, Free, drainVars
  <1>6. DispatchInv'
    BY NoneAssumption, ProviderAssumption
       DEF IInv, TypeOK, DispatchInv, InFlight, ProcessCloses, Free, drainVars
  <1> QED  BY <1>1, <1>2, <1>3, <1>4, <1>5, <1>6 DEF IInv

(* A session that has left the map needs no wakeup.                        *)
LEMMA SessionExitsStep ==
  ASSUME IInv, SessionExits
  PROVE  IInv'
PROOF
  <1>1. TypeOK'
    BY NoneAssumption, ProviderAssumption
       DEF IInv, TypeOK, InFlight, Statuses, SessionExits, Free, drainVars
  <1>2. BacklogShape'
    BY NoneAssumption, ProviderAssumption
       DEF IInv, BacklogShape, SessionExits, Free, drainVars, InFlight
  <1>3. BacklogBounded'
    BY NoneAssumption, ProviderAssumption
       DEF IInv, BacklogBounded, BacklogCount, SessionExits, Free, drainVars,
       InFlight
  <1>4. NothingLost'
    BY NoneAssumption, ProviderAssumption
       DEF IInv, TypeOK, NothingLost, InBacklog, InFlight, SessionExits, Free,
       drainVars
  <1>5. WakeupInv'
    BY NoneAssumption, ProviderAssumption
       DEF IInv, TypeOK, WakeupInv, TurnOwed, InFlight, BacklogCount,
       DispatchInv, SessionExits, Free, drainVars
  <1>6. DispatchInv'
    BY NoneAssumption, ProviderAssumption
       DEF IInv, TypeOK, DispatchInv, InFlight, SessionExits, Free, drainVars
  <1> QED  BY <1>1, <1>2, <1>3, <1>4, <1>5, <1>6 DEF IInv

-----------------------------------------------------------------------------
(* The empty session satisfies the invariant.                              *)
LEMMA InitIInv == Init => IInv
PROOF
  <1> SUFFICES ASSUME Init  PROVE IInv
    OBVIOUS
  <1>1. pending \in Seq(Msgs) /\ queue \in Seq(Msgs)
    BY DEF Init
  <1>5. TypeOK
    BY <1>1 DEF Init, TypeOK, Statuses, InFlight
  <1>6. DispatchInv
    BY DEF Init, DispatchInv
  <1>2. BacklogShape /\ BacklogBounded
    BY LimitAssumption
       DEF Init, BacklogShape, Ordered, Distinct, BacklogBounded, BacklogCount
  <1>3. NothingLost
    BY DEF Init, NothingLost, InBacklog, Contains
  <1>4. WakeupInv
    BY DEF Init, WakeupInv, BacklogCount
  <1> QED  BY <1>2, <1>3, <1>4, <1>5, <1>6 DEF IInv

(* A stuttering step keeps the invariant.                                  *)
LEMMA StutterIInv ==
  ASSUME IInv, UNCHANGED vars
  PROVE  IInv'
PROOF
  <1> USE DEF vars
  <1>1. TypeOK'
    BY DEF IInv, TypeOK, InFlight
  <1>2. BacklogShape' /\ BacklogBounded'
    BY DEF IInv, BacklogShape, Ordered, Distinct, BacklogBounded, BacklogCount
  <1>3. NothingLost'
    BY DEF IInv, NothingLost, InBacklog
  <1>4. WakeupInv' /\ DispatchInv'
    BY DEF IInv, WakeupInv, TurnOwed, InFlight, BacklogCount, DispatchInv
  <1> QED  BY <1>1, <1>2, <1>3, <1>4 DEF IInv

(* Every step keeps the invariant.                                         *)
LEMMA NextIInv ==
  ASSUME IInv, [Next]_vars
  PROVE  IInv'
PROOF
  <1>1. ASSUME NEW m \in Msgs, EnqueueQueuedMessage(m) \/ SendImmediate(m) \/ RemoveQueued(m)
        PROVE  IInv'
    BY <1>1, EnqueueQueuedMessageStep, SendImmediateStep, RemoveQueuedStep
  <1>2. ASSUME NEW m \in Msgs, SendAnswer(m)
        PROVE  IInv'
    BY <1>2, FirstSentStep, FirstBusyStep, FirstRefusedStep,
       DirectSentStep, DirectBusyStep, DirectRefusedStep DEF SendAnswer
  <1>3. CASE DrainStep \/ DrainAnswer
    BY <1>3, DrainBeginStep, DrainSkipStep, DrainDispatchStep,
       DrainSentStep, DrainBusyStep, DrainRefusedStep DEF DrainStep, DrainAnswer
  <1>4. CASE RetryTimerFires \/ TurnEnd \/ TurnStart
    BY <1>4, RetryTimerFiresStep, TurnEndStep, TurnStartStep
  <1>5. CASE ClearQueue \/ Reorder \/ ProcessCloses \/ SessionExits
    BY <1>5, ClearQueueStep, ReorderStep, ProcessClosesStep, SessionExitsStep
  <1>6. CASE UNCHANGED vars
    BY <1>6, StutterIInv
  <1> QED  BY <1>1, <1>2, <1>3, <1>4, <1>5, <1>6 DEF Next

(* Every reachable state satisfies the inductive invariant: the lists of a *)
(* live session stay well formed, bounded and complete, and the runtime's  *)
(* wakeups stay in step with them, whatever the routes, the drain, the     *)
(* retry timer and the provider do.                                        *)
THEOREM Invariance == Spec => []IInv
PROOF
  <1>1. Init => IInv
    BY InitIInv
  <1>2. IInv /\ [Next]_vars => IInv'
    BY NextIInv
  <1> QED  BY <1>1, <1>2, PTL DEF Spec

(* The variables keep their types.                                         *)
THEOREM TypeCorrect == Spec => []TypeOK
PROOF
  <1>1. IInv => TypeOK
    BY DEF IInv
  <1> QED  BY <1>1, Invariance, PTL

(* queue-runtime.ts never leaves a waiting message without a drain, a      *)
(* retry timer, a turn end or an answer that will look at it again.        *)
THEOREM NeverStranded == Spec => []NoLostWakeup
PROOF
  <1>1. IInv => NoLostWakeup
    BY DEF IInv, WakeupInv, NoLostWakeup, TurnOwed
  <1> QED  BY <1>1, Invariance, PTL

(* currentQueuedMessage is set only while a send is in flight or a turn    *)
(* that will clear it is running.                                          *)
THEOREM CurrentNeverStale == Spec => []CurrentIsLive
PROOF
  <1>1. IInv => CurrentIsLive
    BY DEF IInv, TypeOK, WakeupInv, CurrentIsLive, InFlight
  <1> QED  BY <1>1, Invariance, PTL

(* An accepted message stays in exactly one list until it is settled, the  *)
(* lists stay grouped and together within the limit.                       *)
THEOREM BacklogSound == Spec => [](BacklogShape /\ BacklogBounded /\ NothingLost)
PROOF
  <1>1. IInv => BacklogShape /\ BacklogBounded /\ NothingLost
    BY DEF IInv
  <1> QED  BY <1>1, Invariance, PTL

(* The agent receives no message twice, and none that was reported as      *)
(* failed or rejected.                                                     *)
THEOREM DeliveredAtMostOnce == Spec => []AtMostOnce
PROOF
  <1>1. IInv => AtMostOnce
    BY DEF IInv, TypeOK, DispatchInv, AtMostOnce
  <1> QED  BY <1>1, Invariance, PTL

(* A message that the user removed does not come back, unless it was on    *)
(* its way to the provider at that time.                                   *)
THEOREM DropSticks == Spec => DroppedStaysDropped
PROOF
  <1>1. ASSUME IInv, [Next]_vars, NEW m \in Msgs, status[m] = "dropped", drainMsg # m
        PROVE  status'[m] = "dropped" /\ drainMsg' # m
    <2> USE <1>1, NoneAssumption DEF IInv, TypeOK
    <2>1. CASE \E x \in Msgs : EnqueueQueuedMessage(x) \/ SendImmediate(x) \/ RemoveQueued(x)
      BY <2>1 DEF EnqueueQueuedMessage, SendImmediate, RemoveQueued, PushUrgent,
         ScheduleDrain, drainVars
    <2>2. CASE \E x \in Msgs : SendAnswer(x)
      BY <2>2 DEF SendAnswer, FirstSent, FirstBusy, FirstRefused, DirectSent,
         DirectBusy, DirectRefused, PushUrgent, ScheduleDrain, drainVars
    <2>3. CASE DrainStep \/ DrainAnswer
      <3>1. NextMessage # None => status[NextMessage] = "queued"
        BY NextMessageWaits
      <3> QED
        BY <2>3, <3>1 DEF DrainStep, DrainBegin, DrainSkip, DrainDispatch,
           DrainDeclines, DrainAnswer, DrainSent, DrainBusy, DrainRefused, FinishDrain
    <2>4. CASE RetryTimerFires \/ TurnEnd \/ TurnStart
      BY <2>4 DEF RetryTimerFires, TurnEnd, TurnStart, ScheduleDrain, drainVars
    <2>5. CASE ClearQueue \/ Reorder \/ ProcessCloses \/ SessionExits
      BY <2>5 DEF ClearQueue, Reorder, ProcessCloses, SessionExits, drainVars
    <2>6. CASE UNCHANGED vars
      BY <2>6 DEF vars
    <2> QED  BY <2>1, <2>2, <2>3, <2>4, <2>5, <2>6 DEF Next
  <1>2. IInv /\ [Next]_vars =>
          [\A m \in Msgs : status[m] = "dropped" /\ drainMsg # m =>
                              status'[m] = "dropped" /\ drainMsg' # m]_vars
    BY <1>1
  <1> QED  BY <1>2, Invariance, PTL DEF Spec, DroppedStaysDropped

=============================================================================
