---------------------------- MODULE InboxProofs -----------------------------
(***************************************************************************)
(* Theorems about Inbox for any messages, expiry times, capacity and order *)
(* of calls: types and capacity, what pop() returns, which losses are      *)
(* possible, and that the inbox implements LossyMailbox.                   *)
(*                                                                         *)
(* Everything rests on EvictProps: what evict() leaves is a suffix of the  *)
(* queue, everything before the suffix has expired, and its head has not.  *)
(***************************************************************************)
EXTENDS Inbox, SequenceTheorems, WellFoundedInduction, TLAPS

-----------------------------------------------------------------------------
(* The queue operators.                                                    *)

\* A set of natural numbers that is not empty has a least element.
LEMMA LeastNatural ==
  ASSUME NEW T \in SUBSET Nat, T # {}
  PROVE  \E x \in T : \A y \in T : x <= y
<1>1. IsWellFoundedOn(OpToRel(<, Nat), Nat)
  BY NatLessThanWellFounded
<1>2. PICK x \in T : \A y \in T : <<y, x>> \notin OpToRel(<, Nat)
  BY <1>1, WFMin, Zenon
<1>3. ASSUME NEW y \in T PROVE x <= y
  <2>1. ~(y < x)
    BY <1>2 DEF OpToRel
  <2> QED BY <2>1
<1> QED BY <1>3

\* The loop of evict() stops somewhere: at a live entry or behind the last.
LEMMA FirstKeptExists ==
  ASSUME NEW S, NEW q \in Seq(S), NEW now \in Nat
  PROVE  \E k \in 1 .. Len(q) + 1 :
           /\ \A i \in 1 .. k - 1 : Expired(q[i], now)
           /\ k <= Len(q) => ~Expired(q[k], now)
<1> DEFINE T == {i \in 1 .. Len(q) : ~Expired(q[i], now)} \cup {Len(q) + 1}
<1>1. Len(q) \in Nat
  OBVIOUS
<1>2. T \in SUBSET Nat /\ T # {}
  BY <1>1
<1>3. PICK k \in T : \A y \in T : k <= y
  BY <1>2, LeastNatural
<1>4. k \in 1 .. Len(q) + 1
  BY <1>1
<1>5. ASSUME NEW i \in 1 .. k - 1 PROVE Expired(q[i], now)
  <2>1. i \in 1 .. Len(q) /\ ~(k <= i)
    BY <1>1, <1>4
  <2>2. i \notin T
    BY <1>3, <2>1
  <2> QED BY <2>1, <2>2
<1>6. k <= Len(q) => ~Expired(q[k], now)
  BY <1>1
<1> QED BY <1>4, <1>5, <1>6

\* evict() removes an expired prefix and leaves a suffix with a live head.
LEMMA EvictProps ==
  ASSUME NEW S, NEW q \in Seq(S), NEW now \in Nat
  PROVE  /\ FirstKept(q, now) \in 1 .. Len(q) + 1
         /\ \A i \in 1 .. FirstKept(q, now) - 1 : Expired(q[i], now)
         /\ FirstKept(q, now) <= Len(q) => ~Expired(q[FirstKept(q, now)], now)
         /\ Evict(q, now) \in Seq(S)
         /\ Len(Evict(q, now)) = Len(q) + 1 - FirstKept(q, now)
         /\ \A i \in 1 .. Len(Evict(q, now)) :
              Evict(q, now)[i] = q[FirstKept(q, now) + i - 1]
<1> DEFINE k == FirstKept(q, now)
<1>1. /\ k \in 1 .. Len(q) + 1
      /\ \A i \in 1 .. k - 1 : Expired(q[i], now)
      /\ k <= Len(q) => ~Expired(q[k], now)
  BY FirstKeptExists, Zenon DEF FirstKept
<1>2. Len(q) \in Nat
  OBVIOUS
<1> HIDE DEF k
<1>3. /\ SubSeq(q, k, Len(q)) \in Seq(S)
      /\ Len(SubSeq(q, k, Len(q))) = Len(q) + 1 - k
      /\ \A i \in 1 .. Len(q) + 1 - k : SubSeq(q, k, Len(q))[i] = q[k + i - 1]
  BY <1>1, <1>2
<1>4. Evict(q, now) = SubSeq(q, k, Len(q))
  BY DEF Evict, k
<1> QED BY <1>1, <1>3, <1>4 DEF k

\* r is q without its first d elements.
Behind(r, q, d) ==
  /\ d \in 0 .. Len(q)
  /\ Len(r) = Len(q) - d
  /\ \A i \in 1 .. Len(r) : r[i] = q[i + d]

\* EvictProps in terms of the number of removed entries.
LEMMA EvictBehind ==
  ASSUME NEW S, NEW q \in Seq(S), NEW now \in Nat
  PROVE  /\ Evict(q, now) \in Seq(S)
         /\ Evict(q, now) # <<>> => ~Expired(Evict(q, now)[1], now)
         /\ \E d \in 0 .. Len(q) :
              /\ Behind(Evict(q, now), q, d)
              /\ \A i \in 1 .. d : Expired(q[i], now)
<1> DEFINE k == FirstKept(q, now)
           r == Evict(q, now)
<1>1. /\ k \in 1 .. Len(q) + 1
      /\ \A i \in 1 .. k - 1 : Expired(q[i], now)
      /\ k <= Len(q) => ~Expired(q[k], now)
      /\ r \in Seq(S)
      /\ Len(r) = Len(q) + 1 - k
      /\ \A i \in 1 .. Len(r) : r[i] = q[k + i - 1]
  BY EvictProps
<1>2. Len(q) \in Nat
  OBVIOUS
<1> HIDE DEF k, r
<1>3. r # <<>> => ~Expired(r[1], now)
  <2>1. SUFFICES ASSUME r # <<>> PROVE ~Expired(r[1], now)
    OBVIOUS
  <2>2. Len(r) # 0 /\ k <= Len(q)
    BY <1>1, <1>2, <2>1
  <2>3. r[1] = q[k]
    BY <1>1, <1>2, <2>2
  <2> QED BY <1>1, <2>2, <2>3
<1>4. k - 1 \in 0 .. Len(q)
  BY <1>1, <1>2
<1>5. Behind(r, q, k - 1)
  <2>1. Len(r) = Len(q) - (k - 1)
    BY <1>1, <1>2
  <2>2. ASSUME NEW i \in 1 .. Len(r) PROVE r[i] = q[i + (k - 1)]
    <3>1. k + i - 1 = i + (k - 1)
      BY <1>1, <1>2
    <3> QED BY <1>1, <3>1
  <2> QED BY <1>4, <2>1, <2>2 DEF Behind
<1> QED BY <1>1, <1>3, <1>4, <1>5 DEF k, r

\* push() appends to a suffix r of q without the first d entries: what it
\* drops has expired, except for one entry when the rest would fill the queue.
PushKeeps(q, now, e, r, d) ==
  /\ Pushed(q, now, e) = Append(r, e)
  /\ Behind(r, q, d)
  /\ Len(r) < Capacity
  /\ \A i \in 1 .. d :
       Expired(q[i], now) \/ (i = d /\ Len(q) - d + 1 = Capacity)

LEMMA PushedProps ==
  ASSUME NEW S, NEW q \in Seq(S), NEW now \in Nat, NEW e \in S,
         Len(q) <= Capacity
  PROVE  \E r \in Seq(S), d \in 0 .. Len(q) : PushKeeps(q, now, e, r, d)
<1> DEFINE v == Evict(q, now)
<1>1. v \in Seq(S)
  BY EvictBehind
<1>2. PICK c \in 0 .. Len(q) :
        Behind(v, q, c) /\ \A i \in 1 .. c : Expired(q[i], now)
  BY EvictBehind
<1>3. Len(q) \in Nat /\ Capacity \in Nat \ {0} /\ Len(v) = Len(q) - c
  BY <1>2, CapacityPositive DEF Behind
<1>4. Pushed(q, now, e) = Append(MakeRoom(v), e)
  BY DEF Pushed
<1> HIDE DEF v
<1>5. CASE Len(v) >= Capacity
  <2> DEFINE r == Tail(v)
  <2>1. v # <<>> /\ Len(v) = Capacity /\ c = 0
    BY <1>1, <1>2, <1>3, <1>5
  <2>2. r \in Seq(S) /\ Len(r) = Len(v) - 1 /\ \A i \in 1 .. Len(r) : r[i] = v[i + 1]
    BY <1>1, <2>1
  <2>3. MakeRoom(v) = r
    BY <1>5 DEF MakeRoom
  <2> HIDE DEF r
  <2>4. 1 \in 0 .. Len(q) /\ Len(q) = Capacity
    BY <1>3, <2>1
  <2>5. Behind(r, q, 1)
    <3>1. ASSUME NEW i \in 1 .. Len(r) PROVE r[i] = q[i + 1]
      <4>1. i + 1 \in 1 .. Len(v) /\ (i + 1) + c = i + 1
        BY <1>3, <2>1, <2>2
      <4> QED BY <1>2, <2>2, <4>1 DEF Behind
    <3> QED BY <1>3, <2>1, <2>2, <2>4, <3>1 DEF Behind
  <2>6. \A i \in 1 .. 1 : i = 1 /\ Len(q) - 1 + 1 = Capacity
    BY <1>3, <2>4
  <2>7. Len(r) < Capacity
    BY <1>3, <2>1, <2>2
  <2>8. PushKeeps(q, now, e, r, 1)
    BY <1>4, <2>3, <2>5, <2>6, <2>7 DEF PushKeeps
  <2> QED BY <2>2, <2>4, <2>8
<1>6. CASE ~(Len(v) >= Capacity)
  <2>1. MakeRoom(v) = v
    BY <1>6 DEF MakeRoom
  <2>2. Len(v) < Capacity
    BY <1>3, <1>6
  <2>3. PushKeeps(q, now, e, v, c)
    BY <1>2, <1>4, <2>1, <2>2 DEF PushKeeps
  <2> QED BY <1>1, <2>3
<1> QED BY <1>5, <1>6

\* pop() returns the head that eviction left, and keeps what is behind it.
LEMMA PoppedProps ==
  ASSUME NEW S, NEW q \in Seq(S), NEW now \in Nat
  PROVE  \/ /\ Front(q, now) = <<>> /\ Popped(q, now) = <<>>
            /\ \A i \in 1 .. Len(q) : Expired(q[i], now)
         \/ \E d \in 1 .. Len(q) :
              /\ Front(q, now) = <<q[d]>>
              /\ ~Expired(q[d], now)
              /\ Popped(q, now) \in Seq(S)
              /\ Behind(Popped(q, now), q, d)
              /\ \A i \in 1 .. d - 1 : Expired(q[i], now)
<1> DEFINE v == Evict(q, now)
<1>1. v \in Seq(S) /\ (v # <<>> => ~Expired(v[1], now))
  BY EvictBehind
<1>2. PICK c \in 0 .. Len(q) :
        Behind(v, q, c) /\ \A i \in 1 .. c : Expired(q[i], now)
  BY EvictBehind
<1>3. Len(q) \in Nat /\ Len(v) = Len(q) - c
  BY <1>2 DEF Behind
<1>4. /\ Front(q, now) = IF v = <<>> THEN v ELSE <<Head(v)>>
      /\ Popped(q, now) = IF v = <<>> THEN v ELSE Tail(v)
  BY DEF Front, Popped
<1> HIDE DEF v
<1>5. CASE v = <<>>
  <2>1. c = Len(q)
    BY <1>3, <1>5
  <2> QED BY <1>2, <1>4, <1>5, <2>1
<1>6. CASE v # <<>>
  <2> DEFINE d == c + 1
  <2>1. Len(v) # 0 /\ d \in 1 .. Len(q)
    BY <1>1, <1>3, <1>6
  <2>2. Head(v) = v[1] /\ v[1] = q[d]
    BY <1>1, <1>2, <1>3, <1>6, <2>1 DEF Behind
  <2>3. /\ Tail(v) \in Seq(S) /\ Len(Tail(v)) = Len(v) - 1
        /\ \A i \in 1 .. Len(Tail(v)) : Tail(v)[i] = v[i + 1]
    BY <1>1, <1>6
  <2>4. Behind(Tail(v), q, d)
    <3>1. d \in 0 .. Len(q) /\ Len(Tail(v)) = Len(q) - d
      BY <1>3, <2>1, <2>3
    <3>2. ASSUME NEW i \in 1 .. Len(Tail(v)) PROVE Tail(v)[i] = q[i + d]
      <4>1. i + 1 \in 1 .. Len(v) /\ (i + 1) + c = i + d
        BY <1>3, <2>3
      <4> QED BY <1>2, <2>3, <4>1 DEF Behind
    <3> QED BY <3>1, <3>2 DEF Behind
  <2>5. \A i \in 1 .. d - 1 : Expired(q[i], now)
    BY <1>2, <2>1
  <2> QED BY <1>1, <1>4, <1>6, <2>1, <2>2, <2>3, <2>4, <2>5
<1> QED BY <1>5, <1>6

-----------------------------------------------------------------------------
(* Types and numbers.                                                      *)

\* The conjuncts of TypeOK about the queue, for any queue and push count.
QueueOK(q, n) ==
  /\ q \in Seq(Entries)
  /\ Len(q) <= Capacity
  /\ \A i \in 1 .. Len(q) : q[i].no + (Len(q) - i) <= n
  /\ \A i, j \in 1 .. Len(q) : i < j => q[i].no < q[j].no

LEMMA QueueOfTypeOK == TypeOK => QueueOK(queue, pushed)
  BY DEF TypeOK, QueueOK

\* Removing entries from the front keeps the queue in order.
LEMMA BehindIsOK ==
  ASSUME NEW q, NEW n \in Nat, QueueOK(q, n),
         NEW r \in Seq(Entries), NEW d \in 0 .. Len(q), Behind(r, q, d)
  PROVE  QueueOK(r, n)
<1>1. /\ q \in Seq(Entries) /\ Len(q) \in Nat /\ Capacity \in Nat
      /\ Len(q) <= Capacity /\ Len(r) = Len(q) - d
  BY CapacityPositive DEF QueueOK, Behind
<1>2. ASSUME NEW i \in 1 .. Len(r)
      PROVE  i + d \in 1 .. Len(q) /\ r[i] = q[i + d]
  BY <1>1 DEF Behind
<1>3. ASSUME NEW i \in 1 .. Len(r) PROVE r[i].no + (Len(r) - i) <= n
  <2>1. q[i + d].no + (Len(q) - (i + d)) <= n
    BY <1>2 DEF QueueOK
  <2>2. Len(q) - (i + d) = Len(r) - i
    BY <1>1
  <2> QED BY <1>2, <2>1, <2>2
<1>4. ASSUME NEW i \in 1 .. Len(r), NEW j \in 1 .. Len(r), i < j
      PROVE  r[i].no < r[j].no
  <2>1. i + d < j + d
    BY <1>4
  <2> QED BY <1>2, <2>1 DEF QueueOK
<1> QED BY <1>1, <1>3, <1>4 DEF QueueOK

\* Appending the next push keeps the queue in order.
LEMMA AppendIsOK ==
  ASSUME NEW r, NEW n \in Nat, QueueOK(r, n), Len(r) < Capacity,
         NEW e \in Entries, e.no = n + 1
  PROVE  QueueOK(Append(r, e), n + 1)
<1> DEFINE a == Append(r, e)
<1>1. /\ r \in Seq(Entries) /\ Len(r) \in Nat /\ Capacity \in Nat
      /\ a \in Seq(Entries) /\ Len(a) = Len(r) + 1 /\ a[Len(a)] = e
      /\ \A i \in 1 .. Len(r) : a[i] = r[i]
  BY CapacityPositive DEF QueueOK
<1>2. \A i \in 1 .. Len(r) : r[i] \in Entries
  BY <1>1
<1>3. \A i \in 1 .. Len(r) : r[i].no \in Nat /\ r[i].no <= n
  <2>1. ASSUME NEW i \in 1 .. Len(r) PROVE r[i].no \in Nat /\ r[i].no <= n
    <3>1. r[i].no \in Nat
      BY <1>2 DEF Entries
    <3>2. r[i].no + (Len(r) - i) <= n /\ Len(r) - i >= 0
      BY <1>1 DEF QueueOK
    <3> QED BY <1>1, <3>1, <3>2
  <2> QED BY <2>1
<1> HIDE DEF a
<1>4. ASSUME NEW i \in 1 .. Len(a) PROVE a[i].no + (Len(a) - i) <= n + 1
  <2>1. CASE i = Len(a)
    BY <1>1, <2>1
  <2>2. CASE i # Len(a)
    <3>1. i \in 1 .. Len(r)
      BY <1>1, <2>2
    <3>2. r[i].no + (Len(r) - i) <= n
      BY <3>1 DEF QueueOK
    <3> QED BY <1>1, <1>3, <3>1, <3>2
  <2> QED BY <2>1, <2>2
<1>5. ASSUME NEW i \in 1 .. Len(a), NEW j \in 1 .. Len(a), i < j
      PROVE  a[i].no < a[j].no
  <2>1. i \in 1 .. Len(r)
    BY <1>1, <1>5
  <2>2. CASE j = Len(a)
    BY <1>1, <1>3, <2>1, <2>2
  <2>3. CASE j # Len(a)
    <3>1. j \in 1 .. Len(r)
      BY <1>1, <2>3
    <3> QED BY <1>1, <1>5, <2>1, <3>1 DEF QueueOK
  <2> QED BY <2>2, <2>3
<1> QED BY <1>1, <1>4, <1>5 DEF QueueOK, a

\* The entry that a push appends.
NewEntry(x) == [exp |-> Exp[x], item |-> x, no |-> pushed + 1]

LEMMA NewEntryType ==
  ASSUME TypeOK, NEW x \in Items
  PROVE  NewEntry(x) \in Entries /\ NewEntry(x).no = pushed + 1
  BY ExpIsATime DEF TypeOK, NewEntry, Entries

LEMMA InitType == InboxInit => TypeOK
<1> SUFFICES ASSUME InboxInit PROVE TypeOK
  OBVIOUS
<1>1. queue = <<>> /\ got = <<>> /\ Len(queue) = 0
  BY DEF InboxInit
<1> QED BY <1>1, CapacityPositive DEF InboxInit, TypeOK

\* Every call keeps the types, and so does the clock.
LEMMA NextType == TypeOK /\ [InboxNext]_<<clock, inboxVars>> => TypeOK'
<1> SUFFICES ASSUME TypeOK, [InboxNext]_<<clock, inboxVars>> PROVE TypeOK'
  OBVIOUS
<1>1. /\ clock \in Nat /\ pushed \in Nat /\ gotNow \in 0 .. clock
      /\ queue \in Seq(Entries) /\ got \in Seq(Entries)
      /\ QueueOK(queue, pushed) /\ Len(queue) <= Capacity
  BY QueueOfTypeOK DEF TypeOK
<1>2. SUFFICES /\ clock' \in Nat /\ pushed' \in Nat /\ gotNow' \in 0 .. clock'
               /\ got' \in Seq(Entries) /\ QueueOK(queue', pushed')
  BY DEF TypeOK, QueueOK
<1>3. CASE Tick
  BY <1>1, <1>3 DEF Tick, inboxVars
<1>4. ASSUME NEW now \in 0 .. clock, Call(now), UNCHANGED clock
      PROVE  /\ clock' \in Nat /\ pushed' \in Nat /\ gotNow' \in 0 .. clock'
             /\ got' \in Seq(Entries) /\ QueueOK(queue', pushed')
  <2>1. now \in Nat
    BY <1>1
  <2>2. ASSUME NEW x \in Items, Push(now, x)
        PROVE  /\ pushed' \in Nat /\ gotNow' \in 0 .. clock'
               /\ got' \in Seq(Entries) /\ QueueOK(queue', pushed')
    <3>1. PICK e \in Entries : e = NewEntry(x) /\ e.no = pushed + 1
      BY NewEntryType
    <3>2. PICK r \in Seq(Entries), d \in 0 .. Len(queue) :
            PushKeeps(queue, now, e, r, d)
      BY <1>1, <2>1, PushedProps
    <3>3. QueueOK(r, pushed)
      BY <1>1, <3>2, BehindIsOK DEF PushKeeps
    <3>4. QueueOK(Append(r, e), pushed + 1)
      BY <1>1, <3>1, <3>2, <3>3, AppendIsOK DEF PushKeeps
    <3>5. queue' = Append(r, e) /\ pushed' = pushed + 1
      BY <2>2, <3>1, <3>2 DEF Push, NewEntry, PushKeeps
    <3>6. got' = <<>> /\ gotNow' = gotNow
      BY <2>2 DEF Push
    <3> QED BY <1>1, <1>4, <3>4, <3>5, <3>6
  <2>3. CASE Pop(now)
    <3>1. QueueOK(<<>>, pushed)
      BY <1>1, CapacityPositive DEF QueueOK
    <3>2. CASE Front(queue, now) = <<>> /\ Popped(queue, now) = <<>>
      BY <1>1, <1>4, <2>3, <3>1, <3>2 DEF Pop
    <3>3. ASSUME NEW d \in 1 .. Len(queue),
                 Front(queue, now) = <<queue[d]>>,
                 Popped(queue, now) \in Seq(Entries),
                 Behind(Popped(queue, now), queue, d)
          PROVE  QueueOK(queue', pushed') /\ got' \in Seq(Entries)
      <4>1. queue[d] \in Entries /\ d \in 0 .. Len(queue)
        BY <1>1
      <4>2. QueueOK(Popped(queue, now), pushed)
        BY <1>1, <3>3, <4>1, BehindIsOK
      <4> QED BY <2>3, <3>3, <4>1, <4>2 DEF Pop
    <3>4. pushed' = pushed /\ gotNow' = now
      BY <2>3 DEF Pop
    <3>5. QueueOK(queue', pushed') /\ got' \in Seq(Entries)
      <4>1. \/ Front(queue, now) = <<>> /\ Popped(queue, now) = <<>>
            \/ \E d \in 1 .. Len(queue) :
                 /\ Front(queue, now) = <<queue[d]>>
                 /\ Popped(queue, now) \in Seq(Entries)
                 /\ Behind(Popped(queue, now), queue, d)
        BY <1>1, <2>1, PoppedProps
      <4> QED BY <3>2, <3>3, <4>1
    <3> QED BY <1>1, <1>4, <3>4, <3>5
  <2>4. QueueOK(Evict(queue, now), pushed) /\ Evict(queue, now) \in Seq(Entries)
    <3>1. Evict(queue, now) \in Seq(Entries)
      BY <1>1, <2>1, EvictBehind
    <3>2. PICK d \in 0 .. Len(queue) : Behind(Evict(queue, now), queue, d)
      BY <1>1, <2>1, EvictBehind
    <3> QED BY <1>1, <3>1, <3>2, BehindIsOK
  <2>5. CASE Peek(now)
    BY <1>1, <1>4, <2>4, <2>5 DEF Peek
  <2>6. CASE Drain(now)
    <3>1. QueueOK(<<>>, pushed)
      BY <1>1, CapacityPositive DEF QueueOK
    <3> QED BY <1>1, <1>4, <2>4, <2>6, <3>1 DEF Drain
  <2>7. clock' = clock
    BY <1>4
  <2> QED BY <1>1, <1>4, <2>2, <2>3, <2>5, <2>6, <2>7 DEF Call
<1>5. CASE UNCHANGED <<clock, inboxVars>>
  BY <1>1, <1>5 DEF inboxVars
<1> QED BY <1>3, <1>4, <1>5 DEF InboxNext

\* The inbox never holds more than its capacity, and its entries are in the
\* order of their pushes (TtlQueue::push, evict).
THEOREM TypeCorrect == InboxSpec => []TypeOK
<1> QED BY InitType, NextType, PTL DEF InboxSpec

-----------------------------------------------------------------------------
(* What pop() and drain() return first.                                    *)

\* A message that pop() returns was live at the `now` of the call.
THEOREM HeadCorrect == InboxSpec => []HeadIsLive
<1>1. InboxInit => HeadIsLive
  BY DEF InboxInit, HeadIsLive
<1>2. TypeOK /\ HeadIsLive /\ [InboxNext]_<<clock, inboxVars>> => HeadIsLive'
  <2> SUFFICES ASSUME TypeOK, HeadIsLive, [InboxNext]_<<clock, inboxVars>>
               PROVE  HeadIsLive'
    OBVIOUS
  <2>1. CASE UNCHANGED <<got, gotNow>>
    BY <2>1 DEF HeadIsLive
  <2>2. CASE got' = <<>>
    BY <2>2 DEF HeadIsLive
  <2>3. ASSUME NEW now \in 0 .. clock, got' # <<>>, gotNow' = now,
               ~Expired(got'[1], now), got'[1] \in Entries
        PROVE  HeadIsLive'
    <3>1. got'[1].exp \in Nat
      BY <2>3 DEF Entries
    <3> QED BY <2>3, <3>1 DEF HeadIsLive, Expired
  <2>4. queue \in Seq(Entries) /\ \A now \in 0 .. clock : now \in Nat
    BY DEF TypeOK
  <2>5. ASSUME NEW now \in 0 .. clock, Pop(now) PROVE HeadIsLive'
    <3>1. \/ Front(queue, now) = <<>>
          \/ \E d \in 1 .. Len(queue) :
               Front(queue, now) = <<queue[d]>> /\ ~Expired(queue[d], now)
      BY <2>4, PoppedProps
    <3>2. got' = Front(queue, now) /\ gotNow' = now
      BY <2>5 DEF Pop
    <3>3. ASSUME NEW d \in 1 .. Len(queue), Front(queue, now) = <<queue[d]>>,
                 ~Expired(queue[d], now)
          PROVE  HeadIsLive'
      <4>1. queue[d] \in Entries
        BY <2>4
      <4>2. got' # <<>> /\ got'[1] = queue[d]
        BY <3>2, <3>3
      <4> QED BY <2>3, <3>2, <3>3, <4>1, <4>2
    <3> QED BY <2>2, <3>1, <3>2, <3>3
  <2>6. ASSUME NEW now \in 0 .. clock, Drain(now) PROVE HeadIsLive'
    <3>1. /\ Evict(queue, now) \in Seq(Entries)
          /\ Evict(queue, now) # <<>> => ~Expired(Evict(queue, now)[1], now)
      BY <2>4, EvictBehind
    <3>2. got' = Evict(queue, now) /\ gotNow' = now
      BY <2>6 DEF Drain
    <3>3. got' # <<>> => got'[1] \in Entries
      BY <3>1, <3>2
    <3> QED BY <2>2, <2>3, <3>1, <3>2, <3>3
  <2>7. Tick => UNCHANGED <<got, gotNow>>
    BY DEF Tick, inboxVars
  <2>8. ASSUME NEW now \in 0 .. clock, Peek(now) \/ \E x \in Items : Push(now, x)
        PROVE  got' = <<>>
    BY <2>8 DEF Peek, Push
  <2> QED BY <2>1, <2>2, <2>5, <2>6, <2>7, <2>8 DEF InboxNext, Call, inboxVars
<1> QED BY <1>1, <1>2, TypeCorrect, PTL DEF InboxSpec

-----------------------------------------------------------------------------
(* Losses.                                                                 *)

\* An entry is accounted for after a step.
Accounted(e) ==
  e \in In(queue') \/ e \in In(got') \/ PastDue(e)' \/ CrowdedOut(e)'

LEMMA ExpiredIsPastDue ==
  ASSUME TypeOK, NEW now \in 0 .. clock, NEW e \in Entries,
         Expired(e, now), clock' = clock
  PROVE  PastDue(e)'
<1>1. e.exp \in Nat /\ clock \in Nat
  BY DEF Entries, TypeOK
<1> QED BY <1>1 DEF Expired, PastDue

\* An entry that is not among the first d is among the rest.
LEMMA KeptIsIn ==
  ASSUME NEW q \in Seq(Entries), NEW r \in Seq(Entries), NEW d \in 0 .. Len(q),
         Behind(r, q, d), NEW i \in 1 .. Len(q), i > d
  PROVE  q[i] \in In(r)
<1>1. i - d \in 1 .. Len(r) /\ (i - d) + d = i
  BY DEF Behind
<1>2. r[i - d] = q[i]
  BY <1>1 DEF Behind
<1> QED BY <1>1, <1>2 DEF In

LEMMA StepAccounts ==
  ASSUME TypeOK, [InboxNext]_<<clock, inboxVars>>, NEW i \in 1 .. Len(queue),
         NEW e, e = queue[i]
  PROVE  Accounted(e)
<1>1. /\ queue \in Seq(Entries) /\ queue[i] \in Entries
      /\ Len(queue) \in Nat /\ Len(queue) <= Capacity /\ Capacity \in Nat
      /\ pushed \in Nat /\ clock \in Nat
      /\ queue[i].no + (Len(queue) - i) <= pushed
      /\ queue[i].no \in Nat
  <2>1. queue \in Seq(Entries) /\ queue[i] \in Entries
    BY DEF TypeOK
  <2>2. queue[i].no \in Nat
    BY <2>1 DEF Entries
  <2> QED BY <2>1, <2>2, CapacityPositive DEF TypeOK
<1>2. queue[i] \in In(queue)
  BY DEF In
<1>3. CASE UNCHANGED queue
  BY <1>2, <1>3 DEF Accounted
<1>4. ASSUME NEW now \in 0 .. clock, Call(now), clock' = clock
      PROVE  Accounted(e)
  <2>1. now \in Nat
    BY <1>1
  <2>2. Expired(e, now) => Accounted(e)
    <3>1. Expired(e, now) => PastDue(e)'
      BY <1>1, <1>4, ExpiredIsPastDue
    <3> QED BY <3>1 DEF Accounted
  <2>3. ASSUME NEW x \in Items, Push(now, x) PROVE Accounted(e)
    <3>1. PICK y \in Entries : y = NewEntry(x) /\ y.no = pushed + 1
      BY NewEntryType
    <3>2. PICK r \in Seq(Entries), d \in 0 .. Len(queue) :
            PushKeeps(queue, now, y, r, d)
      BY <1>1, <2>1, PushedProps
    <3>3. queue' = Append(r, y) /\ pushed' = pushed + 1
      BY <2>3, <3>1, <3>2 DEF Push, NewEntry, PushKeeps
    <3>4. CASE i > d
      <4>1. queue[i] \in In(r)
        BY <1>1, <3>2, <3>4, KeptIsIn DEF PushKeeps
      <4>2. In(r) \subseteq In(Append(r, y))
        BY DEF In
      <4> QED BY <3>3, <4>1, <4>2 DEF Accounted
    <3>5. CASE i = d /\ Len(queue) - d + 1 = Capacity
      <4>1. (pushed + 1) - e.no >= Capacity
        BY <1>1, <3>5
      <4> QED BY <3>3, <4>1 DEF Accounted, CrowdedOut
    <3>6. i \in 1 .. d => Expired(queue[i], now) \/ (i = d /\ Len(queue) - d + 1 = Capacity)
      BY <3>2 DEF PushKeeps
    <3> QED BY <1>1, <2>2, <3>4, <3>5, <3>6
  <2>4. CASE Pop(now)
    <3>1. got' = Front(queue, now) /\ queue' = Popped(queue, now)
      BY <2>4 DEF Pop
    <3>2. CASE \A j \in 1 .. Len(queue) : Expired(queue[j], now)
      BY <2>2, <3>2
    <3>3. ASSUME NEW d \in 1 .. Len(queue), Front(queue, now) = <<queue[d]>>,
                 Popped(queue, now) \in Seq(Entries),
                 Behind(Popped(queue, now), queue, d),
                 \A j \in 1 .. d - 1 : Expired(queue[j], now)
          PROVE  Accounted(e)
      <4>1. CASE i > d
        <5>1. d \in 0 .. Len(queue)
          OBVIOUS
        <5>2. queue[i] \in In(queue')
          BY <1>1, <3>1, <3>3, <4>1, <5>1, KeptIsIn
        <5> QED BY <5>2 DEF Accounted
      <4>2. CASE i = d
        <5>1. queue[i] \in In(got')
          BY <3>1, <3>3, <4>2 DEF In
        <5> QED BY <5>1 DEF Accounted
      <4>3. CASE i < d
        <5>1. i \in 1 .. d - 1
          BY <4>3
        <5> QED BY <2>2, <3>3, <5>1
      <4> QED BY <4>1, <4>2, <4>3
    <3> QED BY <1>1, <2>1, <3>2, <3>3, PoppedProps
  <2>5. queue[i] \in In(Evict(queue, now)) \/ Expired(queue[i], now)
    <3>1. Evict(queue, now) \in Seq(Entries)
      BY <1>1, <2>1, EvictBehind
    <3>2. PICK d \in 0 .. Len(queue) :
            /\ Behind(Evict(queue, now), queue, d)
            /\ \A j \in 1 .. d : Expired(queue[j], now)
      BY <1>1, <2>1, EvictBehind
    <3>3. CASE i > d
      BY <1>1, <3>1, <3>2, <3>3, KeptIsIn
    <3>4. CASE ~(i > d)
      BY <3>2, <3>4
    <3> QED BY <3>3, <3>4
  <2>6. CASE Peek(now)
    BY <2>2, <2>5, <2>6 DEF Peek, Accounted
  <2>7. CASE Drain(now)
    BY <2>2, <2>5, <2>7 DEF Drain, Accounted
  <2> QED BY <1>4, <2>3, <2>4, <2>6, <2>7 DEF Call
<1> QED BY <1>3, <1>4 DEF InboxNext, Tick, inboxVars

\* A message leaves the inbox unread only because it expired or because as
\* many later messages came as the inbox has places.
THEOREM LossCorrect == InboxSpec => LossIsJustified
<1>1. TypeOK /\ [InboxNext]_<<clock, inboxVars>>
        => [NoneIsMissing]_<<clock, inboxVars>>
  <2> SUFFICES ASSUME TypeOK, [InboxNext]_<<clock, inboxVars>>,
                      NEW e \in In(queue)
               PROVE  Accounted(e)
    BY DEF NoneIsMissing, Accounted
  <2>1. PICK i \in 1 .. Len(queue) : e = queue[i]
    BY DEF In
  <2> QED BY <2>1, StepAccounts
<1> QED BY <1>1, TypeCorrect, PTL DEF InboxSpec, LossIsJustified

-----------------------------------------------------------------------------
(* Refinement.                                                             *)

LEMMA ItemsOfType ==
  ASSUME NEW q \in Seq(Entries)
  PROVE  /\ ItemsOf(q) \in Seq(Items)
         /\ Len(ItemsOf(q)) = Len(q)
         /\ \A i \in 1 .. Len(q) : ItemsOf(q)[i] = q[i].item
<1>1. \A i \in 1 .. Len(q) : q[i].item \in Items
  <2>1. ASSUME NEW i \in 1 .. Len(q) PROVE q[i].item \in Items
    <3>1. q[i] \in Entries
      OBVIOUS
    <3> QED BY <3>1 DEF Entries
  <2> QED BY <2>1
<1> QED BY <1>1 DEF ItemsOf

\* Losing entries from the front loses their messages from the front.
LEMMA ItemsOfBehind ==
  ASSUME NEW q \in Seq(Entries), NEW r \in Seq(Entries), NEW d \in 0 .. Len(q),
         Behind(r, q, d)
  PROVE  ItemsOf(r) = SubSeq(ItemsOf(q), d + 1, Len(ItemsOf(q)))
<1> DEFINE s == SubSeq(ItemsOf(q), d + 1, Len(ItemsOf(q)))
<1>1. /\ ItemsOf(q) \in Seq(Items) /\ Len(ItemsOf(q)) = Len(q)
      /\ \A i \in 1 .. Len(q) : ItemsOf(q)[i] = q[i].item
      /\ ItemsOf(r) \in Seq(Items) /\ Len(ItemsOf(r)) = Len(r)
      /\ \A i \in 1 .. Len(r) : ItemsOf(r)[i] = r[i].item
  BY ItemsOfType
<1>2. Len(q) \in Nat /\ d + 1 \in 1 .. Len(q) + 1 /\ Len(r) = Len(q) - d
  BY DEF Behind
<1>3. /\ s \in Seq(Items) /\ Len(s) = Len(q) - d
      /\ \A i \in 1 .. Len(q) - d : s[i] = ItemsOf(q)[i + d]
  BY <1>1, <1>2
<1>4. ASSUME NEW i \in 1 .. Len(r) PROVE ItemsOf(r)[i] = s[i]
  <2>1. i + d \in 1 .. Len(q) /\ r[i] = q[i + d]
    BY <1>2 DEF Behind
  <2> QED BY <1>1, <1>2, <1>3, <2>1
<1> HIDE DEF s
<1>5. ItemsOf(r) = s
  BY <1>1, <1>2, <1>3, <1>4, SeqEqual
<1> QED BY <1>5 DEF s

LEMMA ItemsOfAppend ==
  ASSUME NEW r \in Seq(Entries), NEW e \in Entries
  PROVE  ItemsOf(Append(r, e)) = Append(ItemsOf(r), e.item)
<1> DEFINE a == Append(r, e)
           s == Append(ItemsOf(r), e.item)
<1>1. /\ a \in Seq(Entries) /\ Len(a) = Len(r) + 1 /\ a[Len(r) + 1] = e
      /\ \A i \in 1 .. Len(r) : a[i] = r[i]
      /\ Len(r) \in Nat /\ e.item \in Items
  BY DEF Entries
<1>2. /\ ItemsOf(r) \in Seq(Items) /\ Len(ItemsOf(r)) = Len(r)
      /\ \A i \in 1 .. Len(r) : ItemsOf(r)[i] = r[i].item
  BY ItemsOfType
<1>3. /\ s \in Seq(Items) /\ Len(s) = Len(r) + 1 /\ s[Len(r) + 1] = e.item
      /\ \A i \in 1 .. Len(r) : s[i] = ItemsOf(r)[i]
  BY <1>1, <1>2
<1> HIDE DEF a, s
<1>4. /\ ItemsOf(a) \in Seq(Items) /\ Len(ItemsOf(a)) = Len(a)
      /\ \A i \in 1 .. Len(a) : ItemsOf(a)[i] = a[i].item
  BY <1>1, ItemsOfType
<1>5. ASSUME NEW i \in 1 .. Len(a) PROVE ItemsOf(a)[i] = s[i]
  <2>1. CASE i = Len(r) + 1
    BY <1>1, <1>3, <1>4, <2>1
  <2>2. CASE i # Len(r) + 1
    <3>1. i \in 1 .. Len(r)
      BY <1>1, <2>2
    <3> QED BY <1>1, <1>2, <1>3, <1>4, <3>1
  <2> QED BY <2>1, <2>2
<1>6. ItemsOf(a) = s
  BY <1>1, <1>3, <1>4, <1>5, SeqEqual
<1> QED BY <1>6 DEF a, s

LEMMA ItemsOfEmpty == ItemsOf(<<>>) = <<>>
  BY DEF ItemsOf

LEMMA ItemsOfOne ==
  ASSUME NEW q \in Seq(Entries), NEW d \in 1 .. Len(q)
  PROVE  ItemsOf(<<q[d]>>) = <<ItemsOf(q)[d]>>
<1>1. q[d] \in Entries /\ <<>> \in Seq(Entries)
  OBVIOUS
<1>2. <<q[d]>> = Append(<<>>, q[d]) /\ <<q[d].item>> = Append(<<>>, q[d].item)
  OBVIOUS
<1>3. ItemsOf(<<q[d]>>) = <<q[d].item>>
  BY <1>1, <1>2, ItemsOfAppend, ItemsOfEmpty
<1> QED BY <1>3, ItemsOfType

\* Every call is a step of the mailbox.
LEMMA StepRefines ==
  ASSUME TypeOK, TypeOK', [InboxNext]_<<clock, inboxVars>>
  PROVE  [Mailbox!Next]_(Mailbox!vars)
<1> DEFINE box == ItemsOf(queue)
<1>1. /\ queue \in Seq(Entries) /\ Len(queue) \in Nat /\ Len(queue) <= Capacity
      /\ box \in Seq(Items) /\ Len(box) = Len(queue)
  BY ItemsOfType DEF TypeOK
<1>2. CASE UNCHANGED <<queue, got>>
  BY <1>2 DEF Mailbox!vars, ItemsOf
<1>3. ASSUME NEW now \in 0 .. clock, Call(now) PROVE Mailbox!Next
  <2>1. now \in Nat
    BY DEF TypeOK
  <2>2. ASSUME NEW r \in Seq(Entries), NEW d \in 0 .. Len(queue),
               Behind(r, queue, d)
        PROVE  d + 1 \in Mailbox!Cut /\ ItemsOf(r) = Mailbox!From(d + 1)
    <3>1. ItemsOf(r) = SubSeq(box, d + 1, Len(box))
      BY <1>1, <2>2, ItemsOfBehind
    <3> QED BY <1>1, <3>1 DEF Mailbox!Cut, Mailbox!From
  <2>3. ASSUME NEW x \in Items, Push(now, x) PROVE Mailbox!Next
    <3>1. PICK e \in Entries : e = NewEntry(x) /\ e.no = pushed + 1
      BY NewEntryType
    <3>2. PICK r \in Seq(Entries), d \in 0 .. Len(queue) :
            PushKeeps(queue, now, e, r, d)
      BY <1>1, <2>1, PushedProps
    <3>3. queue' = Append(r, e) /\ got' = <<>> /\ e.item = x
      BY <2>3, <3>1, <3>2 DEF Push, NewEntry, PushKeeps
    <3>4. d + 1 \in Mailbox!Cut /\ ItemsOf(r) = Mailbox!From(d + 1)
      BY <2>2, <3>2 DEF PushKeeps
    <3>5. ItemsOf(queue') = Append(Mailbox!From(d + 1), x)
      BY <3>3, <3>4, ItemsOfAppend
    <3>6. Len(ItemsOf(queue')) <= Capacity
      <4>1. queue' \in Seq(Entries) /\ Len(queue') <= Capacity
        BY DEF TypeOK
      <4> QED BY <4>1, ItemsOfType
    <3>7. ItemsOf(got') = <<>>
      BY <3>3, ItemsOfEmpty
    <3>8. Mailbox!Put(x)
      BY <3>4, <3>5, <3>6, <3>7 DEF Mailbox!Put
    <3> QED BY <3>8 DEF Mailbox!Next
  <2>4. CASE Pop(now)
    <3>1. got' = Front(queue, now) /\ queue' = Popped(queue, now)
      BY <2>4 DEF Pop
    <3>2. CASE Front(queue, now) = <<>> /\ Popped(queue, now) = <<>>
      <4>1. ItemsOf(got') = <<>> /\ ItemsOf(queue') = <<>>
        BY <3>1, <3>2, ItemsOfEmpty
      <4> QED BY <4>1 DEF Mailbox!Next, Mailbox!Get
    <3>3. ASSUME NEW d \in 1 .. Len(queue), Front(queue, now) = <<queue[d]>>,
                 Popped(queue, now) \in Seq(Entries),
                 Behind(Popped(queue, now), queue, d)
          PROVE  Mailbox!Next
      <4>1. d \in 0 .. Len(queue) /\ d \in 1 .. Len(box)
        BY <1>1
      <4>2. ItemsOf(queue') = Mailbox!From(d + 1)
        BY <2>2, <3>1, <3>3, <4>1
      <4>3. ItemsOf(got') = <<box[d]>>
        BY <1>1, <3>1, <3>3, ItemsOfOne
      <4> QED BY <4>1, <4>2, <4>3 DEF Mailbox!Next, Mailbox!Get
    <3> QED BY <1>1, <2>1, <3>2, <3>3, PoppedProps
  <2>5. PICK d \in 0 .. Len(queue) : Behind(Evict(queue, now), queue, d)
    BY <1>1, <2>1, EvictBehind
  <2>6. /\ d + 1 \in Mailbox!Cut
        /\ ItemsOf(Evict(queue, now)) = Mailbox!From(d + 1)
    BY <1>1, <2>1, <2>2, <2>5, EvictBehind
  <2>7. CASE Peek(now)
    <3>1. /\ ItemsOf(queue') = Mailbox!From(d + 1)
          /\ ItemsOf(got') = <<>>
      BY <2>6, <2>7, ItemsOfEmpty DEF Peek
    <3> QED BY <2>6, <3>1 DEF Mailbox!Next, Mailbox!Shed
  <2>8. CASE Drain(now)
    <3>1. /\ ItemsOf(got') = Mailbox!From(d + 1)
          /\ ItemsOf(queue') = <<>>
      BY <2>6, <2>8, ItemsOfEmpty DEF Drain
    <3> QED BY <2>6, <3>1 DEF Mailbox!Next, Mailbox!GetAll
  <2> QED BY <1>3, <2>3, <2>4, <2>7, <2>8 DEF Call
<1> QED BY <1>2, <1>3 DEF InboxNext, Tick, inboxVars

\* The inbox is a FIFO mailbox that loses only from its old end.
THEOREM MailboxCorrect == InboxSpec => ImplementsMailbox
<1>1. InboxInit => Mailbox!Init
  BY ItemsOfEmpty DEF InboxInit, Mailbox!Init
<1>2. TypeOK /\ TypeOK' /\ [InboxNext]_<<clock, inboxVars>>
        => [Mailbox!Next]_(Mailbox!vars)
  BY StepRefines
<1> QED BY <1>1, <1>2, TypeCorrect, PTL
        DEF InboxSpec, ImplementsMailbox, Mailbox!Spec

=============================================================================
