----------------------- MODULE ConnectionCacheProofs ------------------------
(***************************************************************************)
(* Proofs about ConnectionCache, for any keys, callers and connections.    *)
(*                                                                         *)
(* The heart is ShareInv: a connection that is open, to a peer that does   *)
(* not connect to us, is known to the cache, to the holder of its lock     *)
(* that has just made it, or to close().  It rests on LockInv, that the    *)
(* callers between the second look at the cache and the insertion hold the *)
(* lock of their key, and on PhaseInv, that no call overlaps close().      *)
(***************************************************************************)
EXTENDS ConnectionCache, TLAPS

HoldingPoints == {"probe", "evict", "open", "insert"}

-----------------------------------------------------------------------------
(* The queue of a lock.                                                    *)

LEMMA WithoutProps ==
  ASSUME NEW S, NEW s \in Seq(S), NEW i \in 1 .. Len(s)
  PROVE  /\ Without(s, i) \in Seq(S)
         /\ Len(Without(s, i)) = Len(s) - 1
         /\ \A j \in 1 .. Len(s) - 1 :
              Without(s, i)[j] = IF j < i THEN s[j] ELSE s[j + 1]
<1>1. Len(s) \in Nat /\ Len(s) - 1 \in Nat
  OBVIOUS
<1>2. \A j \in 1 .. Len(s) - 1 : (IF j < i THEN s[j] ELSE s[j + 1]) \in S
  BY <1>1
<1>3. Without(s, i) \in [1 .. Len(s) - 1 -> S]
  BY <1>1, <1>2 DEF Without
<1> QED BY <1>1, <1>3 DEF Without

LEMMA UnqueuedType ==
  ASSUME TypeOK, NEW p \in Callers, Unqueued(p)
  PROVE  queue' \in [Keys -> Seq(Callers)]
<1>1. key[p] \in Keys /\ queue \in [Keys -> Seq(Callers)]
  BY DEF TypeOK
<1>2. ASSUME NEW i \in 1 .. Len(Waiters(p)),
             queue' = [queue EXCEPT ![LockOf(key[p])] = Without(@, i)]
      PROVE  queue' \in [Keys -> Seq(Callers)]
  <2>1. Waiters(p) \in Seq(Callers) /\ Waiters(p) = queue[key[p]]
    BY <1>1 DEF Waiters, LockOf
  <2>2. Without(Waiters(p), i) \in Seq(Callers)
    BY <2>1, WithoutProps
  <2> QED BY <1>1, <1>2, <2>1, <2>2 DEF LockOf
<1> QED BY <1>1, <1>2 DEF Unqueued

-----------------------------------------------------------------------------
(* Types.                                                                  *)

\* What Goes(p, point, c) needs to keep the types of the callers.
LEMMA GoesType ==
  ASSUME TypeOK, NEW p \in Callers, NEW point \in Points,
         NEW c \in Conns \cup {NoConn}, c # NoConn <=> point \in HoldingPoints,
         Goes(p, point, c)
  PROVE  /\ pc' \in [Callers -> Points]
         /\ held' \in [Callers -> Conns \cup {NoConn}]
         /\ \A q \in Callers : held'[q] # NoConn <=> pc'[q] \in HoldingPoints
  BY DEF TypeOK, Goes, HoldingPoints

LEMMA HeldType ==
  ASSUME TypeOK, NEW p \in Callers
  PROVE  /\ key[p] \in Keys
         /\ cache[key[p]] \in Conns \cup {NoConn}
         /\ pc[p] \in HoldingPoints => held[p] \in Conns
  BY NoConnIsNone DEF TypeOK, HoldingPoints

LEMMA InitType == Init => TypeOK
<1> SUFFICES ASSUME Init PROVE TypeOK
  OBVIOUS
<1>1. (CHOOSE k \in Keys : TRUE) \in Keys
  BY KeySets
<1>2. key \in [Callers -> Keys] /\ keyOf \in [Conns -> Keys]
  BY <1>1 DEF Init
<1> QED BY <1>2, NoConnIsNone DEF Init, TypeOK, Points

LEMMA CallerType ==
  ASSUME TypeOK, NEW p \in Callers,
         Call(p) \/ CallerRuns(p) \/ DialEnds(p) \/ Cancel(p)
  PROVE  TypeOK'
<1>1. key[p] \in Keys /\ cache[key[p]] \in Conns \cup {NoConn}
  BY HeldType
<1>2. Points = {"idle", "look", "probe", "evict", "queue", "wait", "dial", "open", "insert"}
  BY DEF Points
<1>3. CASE Call(p)
  <2>1. Goes(p, "look", NoConn)
    BY <1>3 DEF Call
  <2>2. /\ pc' \in [Callers -> Points]
        /\ held' \in [Callers -> Conns \cup {NoConn}]
        /\ \A q \in Callers : held'[q] # NoConn <=> pc'[q] \in HoldingPoints
    BY <1>2, <2>1, GoesType DEF HoldingPoints
  <2> QED BY <1>3, <2>2 DEF Call, TypeOK, connVars, HoldingPoints
<1>4. ASSUME Misses(p)
      PROVE  /\ pc' \in [Callers -> Points]
             /\ held' \in [Callers -> Conns \cup {NoConn}]
             /\ \A q \in Callers : held'[q] # NoConn <=> pc'[q] \in HoldingPoints
  <2>1. Goes(p, "dial", NoConn) \/ Goes(p, "queue", NoConn)
    BY <1>4 DEF Misses
  <2> QED BY <1>2, <2>1, GoesType DEF HoldingPoints
<1>5. ASSUME Returns(p)
      PROVE  /\ pc' \in [Callers -> Points]
             /\ held' \in [Callers -> Conns \cup {NoConn}]
             /\ \A q \in Callers : held'[q] # NoConn <=> pc'[q] \in HoldingPoints
             /\ queue' \in [Keys -> Seq(Callers)]
  <2>1. Goes(p, "idle", NoConn) /\ Unqueued(p)
    BY <1>5 DEF Returns
  <2> QED BY <1>2, <2>1, GoesType, UnqueuedType DEF HoldingPoints
<1>6. ASSUME NEW point \in Points \ HoldingPoints, Goes(p, point, NoConn)
      PROVE  /\ pc' \in [Callers -> Points]
             /\ held' \in [Callers -> Conns \cup {NoConn}]
             /\ \A q \in Callers : held'[q] # NoConn <=> pc'[q] \in HoldingPoints
  BY <1>6, GoesType
<1>7. ASSUME NEW point \in HoldingPoints, NEW c \in Conns, Goes(p, point, c)
      PROVE  /\ pc' \in [Callers -> Points]
             /\ held' \in [Callers -> Conns \cup {NoConn}]
             /\ \A q \in Callers : held'[q] # NoConn <=> pc'[q] \in HoldingPoints
  <2>1. point \in Points /\ c # NoConn
    BY <1>2, NoConnIsNone DEF HoldingPoints
  <2> QED BY <1>7, <2>1, GoesType
<1>8. CASE Look(p)
  <2>1. CASE cache[key[p]] = NoConn
    <3>1. Misses(p)
      BY <1>8, <2>1 DEF Look
    <3> QED BY <1>4, <1>8, <3>1 DEF Look, TypeOK, connVars, HoldingPoints
  <2>2. CASE cache[key[p]] # NoConn
    <3>1. Goes(p, "probe", cache[key[p]]) /\ cache[key[p]] \in Conns
      BY <1>1, <1>8, <2>2 DEF Look
    <3>2. /\ pc' \in [Callers -> Points]
          /\ held' \in [Callers -> Conns \cup {NoConn}]
          /\ \A q \in Callers : held'[q] # NoConn <=> pc'[q] \in HoldingPoints
      BY <1>7, <3>1 DEF HoldingPoints
    <3> QED BY <1>8, <3>2 DEF Look, TypeOK, connVars, HoldingPoints
  <2> QED BY <2>1, <2>2
<1>9. CASE Reuse(p)
  <2>1. Returns(p)
    BY <1>9 DEF Reuse
  <2> QED BY <1>5, <1>9, <2>1 DEF Reuse, TypeOK, connVars, HoldingPoints
<1>10. CASE FindStale(p)
  <2>1. Goes(p, "evict", held[p]) /\ held[p] \in Conns
    BY <1>10, HeldType DEF FindStale, HoldingPoints
  <2>2. /\ pc' \in [Callers -> Points]
        /\ held' \in [Callers -> Conns \cup {NoConn}]
        /\ \A q \in Callers : held'[q] # NoConn <=> pc'[q] \in HoldingPoints
    BY <1>7, <2>1 DEF HoldingPoints
  <2> QED BY <1>10, <2>2 DEF FindStale, TypeOK, connVars, HoldingPoints
<1>11. CASE Evict(p)
  <2>1. Misses(p)
    BY <1>11 DEF Evict
  <2>2. cache' \in [Keys -> Conns \cup {NoConn}]
    BY <1>11 DEF Evict, EvictIfClosed, TypeOK
  <2> QED BY <1>4, <1>11, <2>1, <2>2 DEF Evict, TypeOK, connVars, HoldingPoints
<1>12. CASE Enqueue(p)
  <2>1. Goes(p, "wait", NoConn)
    BY <1>12 DEF Enqueue
  <2>2. queue' \in [Keys -> Seq(Callers)]
    BY <1>1, <1>12 DEF Enqueue, TypeOK, LockOf
  <2>3. "wait" \in Points \ HoldingPoints
    BY <1>2 DEF HoldingPoints
  <2> QED BY <1>6, <1>12, <2>1, <2>2, <2>3 DEF Enqueue, TypeOK, connVars, HoldingPoints
<1>13. CASE Lock(p)
  <2>1. Goes(p, "look", NoConn) /\ "look" \in Points \ HoldingPoints
    BY <1>2, <1>13 DEF Lock, HoldingPoints
  <2> QED BY <1>6, <1>13, <2>1 DEF Lock, TypeOK, connVars, HoldingPoints
<1>14. CASE OpenFirst(p)
  <2>1. CASE Closed(held[p])
    <3>1. Returns(p)
      BY <1>14, <2>1 DEF OpenFirst
    <3> QED BY <1>5, <1>14, <3>1 DEF OpenFirst, TypeOK, connVars, HoldingPoints
  <2>2. CASE ~Closed(held[p])
    <3>1. Goes(p, "insert", held[p]) /\ held[p] \in Conns /\ UNCHANGED queue
      BY <1>14, <2>2, HeldType DEF OpenFirst, HoldingPoints
    <3>2. /\ pc' \in [Callers -> Points]
          /\ held' \in [Callers -> Conns \cup {NoConn}]
          /\ \A q \in Callers : held'[q] # NoConn <=> pc'[q] \in HoldingPoints
      BY <1>7, <3>1 DEF HoldingPoints
    <3> QED BY <1>14, <3>1, <3>2 DEF OpenFirst, TypeOK, connVars, HoldingPoints
  <2> QED BY <2>1, <2>2
<1>15. CASE Insert(p)
  <2>1. Returns(p) /\ held[p] \in Conns
    BY <1>15, HeldType DEF Insert, HoldingPoints
  <2>2. cache' \in [Keys -> Conns \cup {NoConn}]
    BY <1>1, <1>15, <2>1 DEF Insert, TypeOK
  <2> QED BY <1>5, <1>15, <2>1, <2>2 DEF Insert, TypeOK, connVars, HoldingPoints
<1>16. CASE Dial(p)
  <2> PICK c \in Conns : /\ Connected(c, key[p])
                         /\ Goes(p, IF opens[p] THEN "open" ELSE "insert", c)
    BY <1>16 DEF Dial
  <2>1. Goes(p, "open", c) \/ Goes(p, "insert", c)
    OBVIOUS
  <2>2. /\ pc' \in [Callers -> Points]
        /\ held' \in [Callers -> Conns \cup {NoConn}]
        /\ \A q \in Callers : held'[q] # NoConn <=> pc'[q] \in HoldingPoints
    BY <1>7, <2>1 DEF HoldingPoints
  <2>3. life' \in [Conns -> {"open", "closed"}] /\ keyOf' \in [Conns -> Keys]
    BY <1>1 DEF Connected, TypeOK
  <2> QED BY <1>16, <2>2, <2>3 DEF Dial, TypeOK, HoldingPoints
<1>17. CASE DialFails(p)
  <2>1. Returns(p)
    BY <1>17 DEF DialFails
  <2> QED BY <1>5, <1>17, <2>1 DEF DialFails, TypeOK, connVars, HoldingPoints
<1>18. CASE Cancel(p)
  <2>1. Returns(p)
    BY <1>18 DEF Cancel
  <2>2. life' \in [Conns -> {"open", "closed"}]
    BY <1>18 DEF Cancel, TypeOK
  <2> QED BY <1>5, <1>18, <2>1, <2>2 DEF Cancel, TypeOK, HoldingPoints
<1> QED BY <1>3, <1>8, <1>9, <1>10, <1>11, <1>12, <1>13, <1>14, <1>15, <1>16, <1>17, <1>18
        DEF CallerRuns, DialEnds

LEMMA OtherType ==
  ASSUME TypeOK,
         \/ \E c \in Conns : HandlerRuns(c) \/ Dies(c) \/ \E k \in DialIn : Accept(c, k)
         \/ Reload \/ Drain \/ Closing
  PROVE  TypeOK'
<1>1. ASSUME NEW c \in Conns, HandlerInserts(c) PROVE TypeOK'
  BY <1>1 DEF HandlerInserts, TypeOK, callVars, connVars
<1>2. ASSUME NEW c \in Conns, HandlerEnds(c) PROVE TypeOK'
  BY <1>2 DEF HandlerEnds, Removed, TypeOK, callVars, connVars
<1>3. ASSUME NEW c \in Conns, Dies(c) PROVE TypeOK'
  BY <1>3 DEF Dies, TypeOK, callVars
<1>4. ASSUME NEW c \in Conns, NEW k \in DialIn, Accept(c, k) PROVE TypeOK'
  BY <1>4, KeySets DEF Accept, Connected, TypeOK, callVars
<1>5. CASE Reload
  BY <1>5 DEF Reload, TypeOK, callVars, connVars
<1>6. CASE Drain
  BY <1>6 DEF Drain, TypeOK, callVars, connVars
<1>7. CASE CloseDrained
  BY <1>7 DEF CloseDrained, TypeOK, callVars
<1>8. CASE CloseEndpoint
  BY <1>8 DEF CloseEndpoint, CloseAll, TypeOK, callVars
<1>9. CASE Shutdown
  BY <1>9 DEF Shutdown, TypeOK, callVars, connVars
<1> QED BY <1>1, <1>2, <1>3, <1>4, <1>5, <1>6, <1>7, <1>8, <1>9
        DEF HandlerRuns, Closing

\* The types of the cache, the locks and the callers (IrohEndpoint).
THEOREM TypeCorrect == Spec => []TypeOK
<1>1. TypeOK /\ [Next]_vars => TypeOK'
  <2>1. ASSUME TypeOK, UNCHANGED vars PROVE TypeOK'
    BY <2>1 DEF vars, callVars, connVars, TypeOK
  <2> QED BY <2>1, CallerType, OtherType DEF Next
<1> QED BY <1>1, InitType, PTL DEF Spec

-----------------------------------------------------------------------------
(* The locks.                                                              *)

Distinct(s) == \A i, j \in 1 .. Len(s) : s[i] = s[j] => i = j

\* Each caller waits once, for the lock of its key.
QueueOK ==
  \A k \in Keys :
    /\ Distinct(queue[k])
    /\ \A i \in 1 .. Len(queue[k]) : key[queue[k][i]] = k

\* A caller that is past its wait and not done holds the lock.
PlaceOK(p) ==
  /\ pc[p] \in {"wait", "dial", "open", "insert"} => InQueue(p)
  /\ pc[p] \in {"idle", "queue"} => ~InQueue(p)
  /\ InQueue(p) /\ pc[p] # "wait" => HasLock(p)

LockInv == QueueOK /\ \A p \in Callers : PlaceOK(p)

LEMMA QueueFacts ==
  ASSUME TypeOK, NEW p \in Callers
  PROVE  /\ key[p] \in Keys /\ Waiters(p) = queue[key[p]]
         /\ Waiters(p) \in Seq(Callers) /\ Len(Waiters(p)) \in Nat
         /\ HasLock(p) <=> Len(Waiters(p)) > 0 /\ Waiters(p)[1] = p
  BY DEF TypeOK, Waiters, LockOf, HasLock

\* Only one caller holds a lock.
LEMMA OneHolder ==
  ASSUME TypeOK, NEW p \in Callers, NEW q \in Callers,
         HasLock(p), HasLock(q), key[p] = key[q]
  PROVE  p = q
<1>1. Waiters(p)[1] = p /\ Waiters(p) = queue[key[p]]
  BY QueueFacts
<1>2. Waiters(q)[1] = q /\ Waiters(q) = queue[key[q]]
  BY QueueFacts
<1> QED BY <1>1, <1>2

\* Leaving the queue of a lock changes nothing for the others in it, except
\* that the next one comes to its head.
LEMMA UnqueuedProps ==
  ASSUME TypeOK, QueueOK, NEW p \in Callers, Unqueued(p), key' = key
  PROVE  /\ QueueOK'
         /\ ~InQueue(p)'
         /\ \A q \in Callers \ {p} :
              /\ InQueue(q)' <=> InQueue(q)
              /\ HasLock(q) => HasLock(q)'
<1> DEFINE s == Waiters(p)
           k == key[p]
<1>1. k \in Keys /\ s = queue[k] /\ s \in Seq(Callers) /\ Len(s) \in Nat
  BY QueueFacts
<1>2. CASE ~InQueue(p) /\ UNCHANGED queue
  BY <1>2 DEF QueueOK, InQueue, HasLock, Waiters
<1>3. ASSUME NEW i \in 1 .. Len(s), s[i] = p,
             queue' = [queue EXCEPT ![k] = Without(s, i)]
      PROVE  /\ QueueOK'
             /\ ~InQueue(p)'
             /\ \A q \in Callers \ {p} :
                  /\ InQueue(q)' <=> InQueue(q)
                  /\ HasLock(q) => HasLock(q)'
  <2> DEFINE t == Without(s, i)
  <2>1. /\ t \in Seq(Callers) /\ Len(t) = Len(s) - 1
        /\ \A j \in 1 .. Len(s) - 1 : t[j] = IF j < i THEN s[j] ELSE s[j + 1]
    BY <1>1, WithoutProps
  <2>2. queue'[k] = t /\ \A j \in Keys \ {k} : queue'[j] = queue[j]
    BY <1>1, <1>3 DEF TypeOK
  <2>3. Distinct(s) /\ \A j \in 1 .. Len(s) : key[s[j]] = k
    BY <1>1 DEF QueueOK
  <2> HIDE DEF s, k, t
  <2>4. Distinct(t) /\ \A j \in 1 .. Len(t) : key[t[j]] = k /\ t[j] # p
    <3>1. ASSUME NEW j \in 1 .. Len(t)
          PROVE  \E m \in 1 .. Len(s) : t[j] = s[m] /\ m # i /\ (IF j < i THEN m = j ELSE m = j + 1)
      BY <1>1, <2>1
    <3>2. ASSUME NEW j \in 1 .. Len(t) PROVE key[t[j]] = k /\ t[j] # p
      <4> PICK m \in 1 .. Len(s) : t[j] = s[m] /\ m # i
        BY <3>1
      <4> QED BY <1>3, <2>3 DEF Distinct
    <3>3. ASSUME NEW j1 \in 1 .. Len(t), NEW j2 \in 1 .. Len(t), t[j1] = t[j2]
          PROVE  j1 = j2
      <4> PICK m1 \in 1 .. Len(s) :
            t[j1] = s[m1] /\ m1 # i /\ (IF j1 < i THEN m1 = j1 ELSE m1 = j1 + 1)
        BY <3>1
      <4> PICK m2 \in 1 .. Len(s) :
            t[j2] = s[m2] /\ m2 # i /\ (IF j2 < i THEN m2 = j2 ELSE m2 = j2 + 1)
        BY <3>1
      <4>1. m1 = m2
        BY <2>3, <3>3 DEF Distinct
      <4>2. j1 \in Nat /\ j2 \in Nat /\ i \in Nat
        BY <1>1, <2>1
      <4> QED BY <4>1, <4>2
    <3> QED BY <3>2, <3>3 DEF Distinct
  <2>5. QueueOK'
    BY <1>3, <2>2, <2>3, <2>4, key' = key DEF QueueOK
  <2>6. ~InQueue(p)'
    BY <2>2, <2>4, key' = key DEF InQueue, Waiters, LockOf, k
  <2>7. ASSUME NEW q \in Callers \ {p}
        PROVE  (InQueue(q)' <=> InQueue(q)) /\ (HasLock(q) => HasLock(q)')
    <3>1. CASE key[q] # k
      BY <2>2, <3>1, QueueFacts, key' = key DEF InQueue, HasLock, Waiters, LockOf
    <3>2. CASE key[q] = k
      <4>1. Waiters(q) = s /\ Waiters(q)' = t
        BY <1>1, <2>2, <3>2, key' = key DEF Waiters, LockOf
      <4>2. ASSUME NEW j \in 1 .. Len(s), s[j] = q
            PROVE  \E m \in 1 .. Len(t) : t[m] = q /\ (j = 1 => m = 1)
        <5>1. j # i
          BY <1>3, <4>2
        <5>2. CASE j < i
          BY <1>1, <2>1, <4>2, <5>2
        <5>3. CASE j > i
          <6>1. j - 1 \in 1 .. Len(s) - 1 /\ t[j - 1] = s[j]
            BY <1>1, <2>1, <5>3
          <6> QED BY <2>1, <4>2, <5>3, <6>1
        <5> QED BY <1>1, <5>1, <5>2, <5>3
      <4>3. ASSUME NEW j \in 1 .. Len(t), t[j] = q
            PROVE  \E m \in 1 .. Len(s) : s[m] = q
        BY <1>1, <2>1, <4>3
      <4>4. InQueue(q)' <=> InQueue(q)
        BY <4>1, <4>2, <4>3 DEF InQueue
      <4>5. ASSUME HasLock(q) PROVE HasLock(q)'
        <5>1. Len(s) > 0 /\ s[1] = q
          BY <4>1, <4>5, QueueFacts
        <5>2. PICK m \in 1 .. Len(t) : t[m] = q /\ m = 1
          BY <1>1, <4>2, <5>1
        <5>3. t # <<>> /\ Head(t) = q
          BY <2>1, <5>2
        <5> QED BY <4>1, <5>3 DEF HasLock
      <4> QED BY <4>4, <4>5
    <3> QED BY <3>1, <3>2
  <2> QED BY <2>5, <2>6, <2>7
<1>4. queue[LockOf(key[p])] = s /\ LockOf(key[p]) = k
  BY <1>1 DEF LockOf
<1> HIDE DEF s, k
<1>5. \/ ~InQueue(p) /\ UNCHANGED queue
      \/ \E i \in 1 .. Len(s) : s[i] = p /\ queue' = [queue EXCEPT ![k] = Without(s, i)]
  BY <1>4 DEF Unqueued, s
<1> QED BY <1>2, <1>3, <1>5

\* A caller goes on while the queues stay as they are.
LEMMA MovesOn ==
  ASSUME TypeOK, LockInv, NEW p \in Callers, NEW point \in Points,
         pc' = [pc EXCEPT ![p] = point], UNCHANGED <<queue, key>>,
         point \in {"wait", "dial", "open", "insert"} => InQueue(p),
         point \in {"idle", "queue"} => ~InQueue(p),
         InQueue(p) /\ point # "wait" => HasLock(p)
  PROVE  LockInv'
<1>1. QueueOK'
  BY DEF LockInv, QueueOK
<1>2. ASSUME NEW q \in Callers PROVE PlaceOK(q)'
  <2>1. (InQueue(q)' <=> InQueue(q)) /\ (HasLock(q)' <=> HasLock(q))
    BY DEF InQueue, HasLock, Waiters
  <2>2. pc'[q] = IF q = p THEN point ELSE pc[q]
    BY DEF TypeOK
  <2> QED BY <2>1, <2>2 DEF LockInv, PlaceOK
<1> QED BY <1>1, <1>2 DEF LockInv

LEMMA MovesAway ==
  ASSUME TypeOK, LockInv, NEW p \in Callers, Returns(p), key' = key
  PROVE  LockInv'
<1>1. pc' = [pc EXCEPT ![p] = "idle"] /\ Unqueued(p)
  BY DEF Returns, Goes
<1>2. /\ QueueOK'
      /\ ~InQueue(p)'
      /\ \A q \in Callers \ {p} :
           (InQueue(q)' <=> InQueue(q)) /\ (HasLock(q) => HasLock(q)')
  BY <1>1, UnqueuedProps DEF LockInv
<1>3. ASSUME NEW q \in Callers PROVE PlaceOK(q)'
  <2>1. pc'[q] = IF q = p THEN "idle" ELSE pc[q]
    BY <1>1 DEF TypeOK
  <2> QED BY <1>2, <2>1 DEF LockInv, PlaceOK
<1> QED BY <1>2, <1>3 DEF LockInv

LEMMA MovesIn ==
  ASSUME TypeOK, LockInv, NEW p \in Callers, Enqueue(p)
  PROVE  LockInv'
<1> DEFINE k == key[p]
           s == queue[k]
           t == Append(s, p)
<1>1. k \in Keys /\ s \in Seq(Callers) /\ Waiters(p) = s /\ ~InQueue(p)
  BY QueueFacts DEF LockInv, PlaceOK, Enqueue
<1>2. /\ t \in Seq(Callers) /\ Len(t) = Len(s) + 1 /\ Len(s) \in Nat
      /\ t[Len(s) + 1] = p /\ \A i \in 1 .. Len(s) : t[i] = s[i]
  BY <1>1
<1>3. /\ queue'[k] = t /\ \A j \in Keys \ {k} : queue'[j] = queue[j]
      /\ key' = key /\ pc' = [pc EXCEPT ![p] = "wait"]
  BY <1>1 DEF Enqueue, Goes, LockOf, TypeOK
<1>4. \A i \in 1 .. Len(s) : s[i] # p
  BY <1>1 DEF InQueue
<1>5. Distinct(s) /\ \A i \in 1 .. Len(s) : key[s[i]] = k
  BY <1>1 DEF LockInv, QueueOK
<1> HIDE DEF s, t
<1>6. QueueOK'
  <2>1. Distinct(t)
    BY <1>2, <1>4, <1>5 DEF Distinct
  <2>2. \A i \in 1 .. Len(t) : key[t[i]] = k
    BY <1>2, <1>5
  <2> QED BY <1>3, <2>1, <2>2 DEF LockInv, QueueOK
<1>7. ASSUME NEW q \in Callers PROVE PlaceOK(q)'
  <2>1. pc'[q] = IF q = p THEN "wait" ELSE pc[q]
    BY <1>3 DEF TypeOK
  <2>2. key[q] \in Keys /\ Waiters(q) = queue[key[q]] /\ Waiters(q)' = queue'[key[q]]
    BY <1>3, QueueFacts DEF Waiters, LockOf
  <2>3. CASE key[q] # k
    <3>1. Waiters(q)' = Waiters(q) /\ q # p
      BY <1>3, <2>2, <2>3
    <3> QED BY <2>1, <3>1 DEF LockInv, PlaceOK, InQueue, HasLock
  <2>4. CASE key[q] = k
    <3>1. Waiters(q) = s /\ Waiters(q)' = t
      BY <1>3, <2>2, <2>4 DEF s
    <3>2. q # p => (InQueue(q)' <=> InQueue(q))
      BY <1>2, <3>1 DEF InQueue
    <3>3. HasLock(q) => HasLock(q)'
      <4>1. ASSUME s # <<>>, Head(s) = q PROVE t # <<>> /\ Head(t) = q
        BY <1>1, <1>2, <4>1
      <4> QED BY <3>1, <4>1 DEF HasLock
    <3>4. q = p => InQueue(q)'
      BY <1>2, <3>1 DEF InQueue
    <3> QED BY <2>1, <3>2, <3>3, <3>4 DEF LockInv, PlaceOK
  <2> QED BY <2>3, <2>4
<1> QED BY <1>6, <1>7 DEF LockInv

LEMMA CallLocks ==
  ASSUME TypeOK, LockInv, NEW p \in Callers, Call(p)
  PROVE  LockInv'
<1> PICK k \in Keys : key' = [key EXCEPT ![p] = k]
  BY DEF Call
<1>1. pc' = [pc EXCEPT ![p] = "look"] /\ queue' = queue /\ pc[p] = "idle"
  BY DEF Call, Goes
<1>2. ASSUME NEW j \in Keys, NEW i \in 1 .. Len(queue[j]) PROVE queue[j][i] # p
  <2>1. key[queue[j][i]] = j
    BY DEF LockInv, QueueOK
  <2> QED BY <1>1, <1>2, <2>1 DEF LockInv, PlaceOK, InQueue, Waiters, LockOf
<1>3. ASSUME NEW j \in Keys, NEW i \in 1 .. Len(queue[j])
      PROVE  key'[queue[j][i]] = j
  <2>1. queue[j][i] \in Callers
    BY DEF TypeOK
  <2> QED BY <1>2, <2>1 DEF LockInv, QueueOK, TypeOK
<1>4. QueueOK'
  BY <1>1, <1>3 DEF LockInv, QueueOK
<1>5. ASSUME NEW q \in Callers PROVE PlaceOK(q)'
  <2>1. CASE q = p
    <3>1. ~InQueue(p)'
      BY <1>1, <1>2 DEF InQueue, Waiters, LockOf, TypeOK
    <3> QED BY <1>1, <2>1, <3>1 DEF PlaceOK, TypeOK
  <2>2. CASE q # p
    <3>1. Waiters(q)' = Waiters(q) /\ pc'[q] = pc[q]
      BY <1>1, <2>2 DEF Waiters, LockOf, TypeOK
    <3> QED BY <3>1 DEF LockInv, PlaceOK, InQueue, HasLock
  <2> QED BY <2>1, <2>2
<1> QED BY <1>4, <1>5 DEF LockInv

LEMMA LockStep ==
  ASSUME TypeOK, LockInv, [Next]_vars
  PROVE  LockInv'
<1>1. CASE UNCHANGED callVars
  BY <1>1 DEF callVars, LockInv, QueueOK, PlaceOK, InQueue, HasLock, Waiters
<1>2. ASSUME NEW p \in Callers,
             Call(p) \/ CallerRuns(p) \/ DialEnds(p) \/ Cancel(p)
      PROVE  LockInv'
  <2>1. PlaceOK(p)
    BY DEF LockInv
  <2>2. ASSUME Misses(p), UNCHANGED <<queue, key>>, pc[p] \in {"look", "evict"}
        PROVE  LockInv'
    <3>1. CASE InQueue(p)
      <4>1. pc' = [pc EXCEPT ![p] = "dial"]
        BY <2>2, <3>1 DEF Misses, Goes
      <4> QED BY <2>1, <2>2, <3>1, <4>1, MovesOn DEF PlaceOK, Points
    <3>2. CASE ~InQueue(p)
      <4>1. pc' = [pc EXCEPT ![p] = "queue"]
        BY <2>2, <3>2 DEF Misses, Goes
      <4> QED BY <2>1, <2>2, <3>2, <4>1, MovesOn DEF PlaceOK, Points
    <3> QED BY <3>1, <3>2
  <2>3. CASE Call(p)
    BY <2>3, CallLocks
  <2>4. CASE Enqueue(p)
    BY <2>4, MovesIn
  <2>5. CASE Reuse(p) \/ Insert(p) \/ DialFails(p) \/ Cancel(p)
    <3>1. Returns(p) /\ key' = key
      BY <2>5 DEF Reuse, Insert, DialFails, Cancel
    <3> QED BY <3>1, MovesAway
  <2>6. CASE Look(p)
    <3>1. CASE Misses(p)
      BY <2>2, <2>6, <3>1 DEF Look
    <3>2. CASE pc' = [pc EXCEPT ![p] = "probe"]
      BY <2>1, <2>6, <3>2, MovesOn DEF Look, PlaceOK, Points
    <3> QED BY <2>6, <3>1, <3>2 DEF Look, Goes
  <2>7. CASE Evict(p)
    BY <2>2, <2>7 DEF Evict
  <2>8. CASE FindStale(p)
    <3>1. pc' = [pc EXCEPT ![p] = "evict"] /\ pc[p] = "probe" /\ UNCHANGED <<queue, key>>
      BY <2>8 DEF FindStale, Goes
    <3> QED BY <2>1, <3>1, MovesOn DEF PlaceOK, Points
  <2>9. CASE Lock(p)
    <3>1. /\ pc' = [pc EXCEPT ![p] = "look"] /\ pc[p] = "wait" /\ HasLock(p)
          /\ UNCHANGED <<queue, key>>
      BY <2>9 DEF Lock, Goes
    <3> QED BY <2>1, <3>1, MovesOn DEF PlaceOK, Points
  <2>10. CASE OpenFirst(p)
    <3>1. CASE Returns(p)
      BY <2>10, <3>1, MovesAway DEF OpenFirst
    <3>2. CASE Goes(p, "insert", held[p]) /\ UNCHANGED queue
      BY <2>1, <2>10, <3>2, MovesOn DEF OpenFirst, Goes, PlaceOK, Points
    <3> QED BY <2>10, <3>1, <3>2 DEF OpenFirst
  <2>11. CASE Dial(p)
    <3>1. /\ pc' = [pc EXCEPT ![p] = "open"] \/ pc' = [pc EXCEPT ![p] = "insert"]
          /\ pc[p] = "dial" /\ UNCHANGED <<queue, key>>
      BY <2>11 DEF Dial, Goes
    <3> QED BY <2>1, <3>1, MovesOn DEF PlaceOK, Points
  <2> QED BY <1>2, <2>3, <2>4, <2>5, <2>6, <2>7, <2>8, <2>9, <2>10, <2>11
          DEF CallerRuns, DialEnds
<1>3. ASSUME \/ \E c \in Conns : HandlerRuns(c) \/ Dies(c) \/ \E k \in DialIn : Accept(c, k)
             \/ Reload \/ Drain \/ Closing
      PROVE  UNCHANGED callVars
  BY <1>3 DEF HandlerRuns, HandlerInserts, HandlerEnds, Dies, Accept, Reload, Drain,
              Closing, CloseDrained, CloseEndpoint, Shutdown
<1> QED BY <1>1, <1>2, <1>3 DEF Next, vars

LEMMA LockInit == Init => LockInv
<1> SUFFICES ASSUME Init PROVE LockInv
  OBVIOUS
<1>1. \A k \in Keys : 1 .. Len(queue[k]) = {}
  <2>1. \A k \in Keys : queue[k] = <<>>
    BY DEF Init
  <2>2. Len(<<>>) = 0 /\ 1 .. 0 = {}
    OBVIOUS
  <2> QED BY <2>1, <2>2
<1>2. \A p \in Callers : key[p] \in Keys /\ pc[p] = "idle"
  BY InitType DEF Init, TypeOK
<1>3. QueueOK
  BY <1>1 DEF QueueOK, Distinct
<1>4. \A p \in Callers : ~InQueue(p)
  BY <1>1, <1>2 DEF InQueue, Waiters, LockOf
<1> QED BY <1>2, <1>3, <1>4 DEF LockInv, PlaceOK

\* Steps of one caller leave the others where they are.
CallerSteps(p) == Call(p) \/ CallerRuns(p) \/ DialEnds(p) \/ Cancel(p)

LEMMA OthersStay ==
  ASSUME TypeOK, LockInv, NEW p \in Callers, CallerSteps(p),
         NEW q \in Callers, q # p
  PROVE  /\ pc'[q] = pc[q] /\ held'[q] = held[q] /\ key'[q] = key[q]
         /\ InQueue(q)' <=> InQueue(q)
<1>1. ASSUME NEW point, NEW c, Goes(p, point, c)
      PROVE  pc'[q] = pc[q] /\ held'[q] = held[q]
  BY <1>1 DEF Goes, TypeOK
<1>2. ASSUME UNCHANGED queue, key'[q] = key[q]
      PROVE  InQueue(q)' <=> InQueue(q)
  BY <1>2 DEF InQueue, Waiters, LockOf
<1>3. ASSUME Misses(p) PROVE pc'[q] = pc[q] /\ held'[q] = held[q]
  BY <1>1, <1>3 DEF Misses
<1>4. CASE Call(p)
  <2>1. key'[q] = key[q] /\ UNCHANGED queue /\ Goes(p, "look", NoConn)
    BY <1>4 DEF Call, TypeOK
  <2> QED BY <1>1, <1>2, <2>1
<1>5. CASE Returns(p) /\ key' = key
  <2>1. Goes(p, "idle", NoConn) /\ Unqueued(p) /\ QueueOK
    BY <1>5 DEF Returns, LockInv
  <2> QED BY <1>1, <1>5, <2>1, UnqueuedProps
<1>6. CASE Enqueue(p)
  <2>1. Goes(p, "wait", NoConn) /\ key' = key
    BY <1>6 DEF Enqueue
  <2>2. key[p] \in Keys /\ key[q] \in Keys /\ queue[key[p]] \in Seq(Callers)
    BY DEF TypeOK
  <2>3. queue' = [queue EXCEPT ![key[p]] = Append(queue[key[p]], p)]
    BY <1>6 DEF Enqueue, LockOf
  <2>4. CASE key[q] # key[p]
    <3>1. queue'[key[q]] = queue[key[q]]
      BY <2>2, <2>3, <2>4 DEF TypeOK
    <3> QED BY <1>1, <2>1, <3>1 DEF InQueue, Waiters, LockOf
  <2>5. CASE key[q] = key[p]
    <3> DEFINE s == queue[key[p]]
               t == Append(s, p)
    <3>1. queue'[key[q]] = t
      BY <2>2, <2>3, <2>5 DEF TypeOK
    <3>2. /\ Len(t) = Len(s) + 1 /\ Len(s) \in Nat
          /\ t[Len(s) + 1] = p /\ \A i \in 1 .. Len(s) : t[i] = s[i]
      BY <2>2
    <3> HIDE DEF s, t
    <3>3. (\E i \in 1 .. Len(t) : t[i] = q) <=> (\E i \in 1 .. Len(s) : s[i] = q)
      BY <3>2
    <3>4. Waiters(q) = s /\ Waiters(q)' = t
      BY <2>1, <2>5, <3>1 DEF Waiters, LockOf, s
    <3> QED BY <1>1, <2>1, <3>3, <3>4 DEF InQueue
  <2> QED BY <2>4, <2>5
<1>7. CASE Look(p) \/ FindStale(p) \/ Evict(p) \/ Lock(p) \/ Dial(p)
  <2>1. UNCHANGED <<queue, key>>
    BY <1>7 DEF Look, FindStale, Evict, Lock, Dial
  <2>2. pc'[q] = pc[q] /\ held'[q] = held[q]
    BY <1>1, <1>3, <1>7 DEF Look, FindStale, Evict, Lock, Dial
  <2> QED BY <1>2, <2>1, <2>2
<1>8. CASE Reuse(p) \/ Insert(p) \/ DialFails(p) \/ Cancel(p)
  BY <1>5, <1>8 DEF Reuse, Insert, DialFails, Cancel
<1>9. CASE OpenFirst(p)
  BY <1>1, <1>2, <1>5, <1>9 DEF OpenFirst
<1> QED BY <1>4, <1>6, <1>7, <1>8, <1>9 DEF CallerSteps, CallerRuns, DialEnds

-----------------------------------------------------------------------------
(* close().                                                                *)

\* No call overlaps close(), and what handlers cache meanwhile is in their
\* care: they remove it at their end, for which close() waits.
PhaseInv ==
  /\ phase \notin {"up", "down"} => NoCalls
  /\ phase # "up" => \A p \in Callers : pc[p] \notin {"open", "insert"}
  /\ phase # "drained" => drained = {}
  /\ phase # "up" => \A k \in Keys :
       cache[k] # NoConn => \E c \in Conns : handler[c] = "looping" /\ keyOf[c] = k
  /\ phase = "down" => \A c \in Conns : handler[c] = "none"

LEMMA PhaseInit == Init => PhaseInv
  BY DEF Init, PhaseInv

LEMMA PhaseStep ==
  ASSUME TypeOK, LockInv, PhaseInv, [Next]_vars
  PROVE  PhaseInv'
<1>1. CASE UNCHANGED vars
  BY <1>1 DEF vars, callVars, connVars, PhaseInv, NoCalls
<1>2. ASSUME NEW p \in Callers, CallerSteps(p)
      PROVE  PhaseInv'
  <2>1. phase' = phase /\ drained' = drained /\ handler' = handler /\ phase \in {"up", "down"}
    BY <1>2 DEF CallerSteps, Call, CallerRuns, DialEnds, Dial, DialFails, Cancel, Look,
                Reuse, FindStale, Evict, Enqueue, Lock, OpenFirst, Insert, PhaseInv, NoCalls, TypeOK
  <2>2. CASE phase = "up"
    BY <2>1, <2>2 DEF PhaseInv
  <2>3. CASE phase = "down"
    <3>1. pc'[p] \notin {"open", "insert"}
      <4>1. ASSUME NEW point, NEW c, Goes(p, point, c) PROVE pc'[p] = point
        BY <4>1 DEF Goes, TypeOK
      <4>2. ~OpenFirst(p) /\ ~Insert(p) /\ ~Dial(p)
        BY <2>3 DEF OpenFirst, Insert, Dial, PhaseInv
      <4>3. CASE Misses(p)
        BY <4>1, <4>3 DEF Misses
      <4>4. CASE Returns(p)
        BY <4>1, <4>4 DEF Returns
      <4>5. CASE Call(p) \/ FindStale(p) \/ Enqueue(p) \/ Lock(p)
        BY <4>1, <4>5 DEF Call, FindStale, Enqueue, Lock
      <4>6. CASE Look(p)
        BY <4>1, <4>3, <4>6 DEF Look
      <4> QED BY <1>2, <4>2, <4>3, <4>4, <4>5, <4>6
              DEF CallerSteps, CallerRuns, DialEnds, DialFails, Cancel, Reuse, Evict
    <3>2. ASSUME NEW q \in Callers PROVE pc'[q] \notin {"open", "insert"}
      <4>1. pc[q] \notin {"open", "insert"}
        BY <2>3 DEF PhaseInv
      <4>2. q # p => pc'[q] = pc[q]
        BY <1>2, OthersStay
      <4> QED BY <3>1, <4>1, <4>2
    <3>3. \A k \in Keys : cache[k] = NoConn
      BY <2>3 DEF PhaseInv
    <3>4. ~Insert(p)
      BY <2>3 DEF Insert, PhaseInv
    <3>5. \A k \in Keys : cache'[k] = NoConn
      <4>1. CASE Evict(p)
        <5>1. cache' = cache
          BY <3>3, <4>1, QueueFacts DEF Evict, EvictIfClosed
        <5> QED BY <3>3, <5>1
      <4>2. CASE ~Evict(p)
        <5>1. cache' = cache
          BY <1>2, <3>4, <4>2 DEF CallerSteps, Call, CallerRuns, DialEnds, Dial, DialFails,
               Cancel, Look, Reuse, FindStale, Enqueue, Lock, OpenFirst
        <5> QED BY <3>3, <5>1
      <4> QED BY <4>1, <4>2
    <3> QED BY <2>1, <2>3, <3>2, <3>5 DEF PhaseInv
  <2> QED BY <2>1, <2>2, <2>3
<1>3. ASSUME NEW c \in Conns, HandlerInserts(c) PROVE PhaseInv'
  <2>1. handler'[c] = "looping" /\ phase # "down"
    BY <1>3 DEF HandlerInserts, TypeOK, PhaseInv
  <2>2. ASSUME NEW k \in Keys, cache'[k] # NoConn, phase # "up"
        PROVE  \E d \in Conns : handler'[d] = "looping" /\ keyOf[d] = k
    <3>1. CASE k = keyOf[c]
      BY <2>1, <3>1
    <3>2. CASE k # keyOf[c]
      <4>1. cache'[k] = cache[k]
        BY <1>3, <3>2 DEF HandlerInserts, TypeOK
      <4> PICK d \in Conns : handler[d] = "looping" /\ keyOf[d] = k
        BY <2>2, <4>1 DEF PhaseInv
      <4>2. handler'[d] = "looping"
        BY <1>3 DEF HandlerInserts, TypeOK
      <4> QED BY <4>2
    <3> QED BY <3>1, <3>2
  <2> QED BY <1>3, <2>1, <2>2 DEF HandlerInserts, callVars, connVars, PhaseInv, NoCalls
<1>4. ASSUME NEW c \in Conns, HandlerEnds(c) PROVE PhaseInv'
  <2>1. ASSUME NEW k \in Keys, cache'[k] # NoConn, phase # "up"
        PROVE  \E d \in Conns : handler'[d] = "looping" /\ keyOf[d] = k
    <3>1. k # keyOf[c] /\ cache'[k] = cache[k]
      BY <1>4, <2>1 DEF HandlerEnds, Removed, TypeOK
    <3> PICK d \in Conns : handler[d] = "looping" /\ keyOf[d] = k
      BY <2>1, <3>1 DEF PhaseInv
    <3>2. handler'[d] = "looping"
      BY <1>4, <3>1 DEF HandlerEnds, TypeOK
    <3> QED BY <3>2
  <2>2. phase # "down"
    BY <1>4 DEF HandlerEnds, PhaseInv
  <2> QED BY <1>4, <2>1, <2>2 DEF HandlerEnds, callVars, connVars, PhaseInv, NoCalls
<1>5. ASSUME NEW c \in Conns, Dies(c) PROVE PhaseInv'
  BY <1>5 DEF Dies, callVars, PhaseInv, NoCalls
<1>6. ASSUME NEW c \in Conns, NEW k \in DialIn, Accept(c, k) PROVE PhaseInv'
  <2>1. /\ handler[c] = "none" /\ phase # "down"
        /\ \A d \in Conns \ {c} : keyOf'[d] = keyOf[d] /\ handler'[d] = handler[d]
    BY <1>6 DEF Accept, Unused, Connected, TypeOK
  <2>2. ASSUME NEW j \in Keys, cache[j] # NoConn, phase # "up"
        PROVE  \E d \in Conns : handler'[d] = "looping" /\ keyOf'[d] = j
    <3> PICK d \in Conns : handler[d] = "looping" /\ keyOf[d] = j
      BY <2>2 DEF PhaseInv
    <3>1. d # c
      BY <2>1
    <3> QED BY <2>1, <3>1
  <2> QED BY <1>6, <2>1, <2>2 DEF Accept, callVars, PhaseInv, NoCalls
<1>7. CASE Reload
  BY <1>7 DEF Reload, callVars, connVars, PhaseInv, NoCalls
<1>8. CASE Drain
  <2>1. \A k \in Keys : cache'[k] = NoConn
    BY <1>8 DEF Drain
  <2> QED BY <1>8, <2>1 DEF Drain, callVars, connVars, PhaseInv, NoCalls
<1>9. CASE CloseDrained
  BY <1>9 DEF CloseDrained, callVars, PhaseInv, NoCalls
<1>10. CASE CloseEndpoint
  BY <1>10 DEF CloseEndpoint, callVars, PhaseInv, NoCalls
<1>11. CASE Shutdown
  BY <1>11 DEF Shutdown, callVars, connVars, PhaseInv, NoCalls
<1> QED BY <1>1, <1>2, <1>3, <1>4, <1>5, <1>6, <1>7, <1>8, <1>9, <1>10, <1>11
        DEF Next, CallerSteps, HandlerRuns, Closing

-----------------------------------------------------------------------------
(* Who knows of a connection.                                              *)

\* Nothing in the cache that could be used.
Vacant(k) == cache[k] = NoConn \/ Closed(cache[k])

\* What a caller may rely on.  Only the holder of the lock of a key makes and
\* caches connections to a peer that does not connect to us.
CallerOK(p) ==
  /\ pc[p] = "evict" => Closed(held[p])
  /\ pc[p] \in {"open", "insert"} => keyOf[held[p]] = key[p]
  /\ key[p] \notin DialIn /\ pc[p] \in {"dial", "open", "insert"} => Vacant(key[p])
  /\ key[p] \notin DialIn /\ pc[p] \in {"probe", "evict"} /\ InQueue(p)
       => cache[key[p]] \in {held[p], NoConn}

FilesOK ==
  /\ \A k \in Keys : cache[k] # NoConn => keyOf[cache[k]] = k
  /\ \A c \in Conns : handler[c] # "none" => keyOf[c] \in DialIn

Holds(p, c) == pc[p] \in {"open", "insert"} /\ held[p] = c

Known(c) == cache[keyOf[c]] = c \/ c \in drained \/ \E p \in Callers : Holds(p, c)

AllKnown == \A c \in Conns : life[c] = "open" /\ keyOf[c] \notin DialIn => Known(c)

ShareInv == (\A p \in Callers : CallerOK(p)) /\ FilesOK /\ AllKnown

LEMMA ShareInit == Init => ShareInv
<1> SUFFICES ASSUME Init PROVE ShareInv
  OBVIOUS
<1>1. \A c \in Conns : life[c] = "closed" /\ handler[c] = "none"
  BY DEF Init
<1>2. \A p \in Callers : pc[p] = "idle"
  BY DEF Init
<1>3. \A k \in Keys : cache[k] = NoConn
  BY DEF Init
<1> QED BY <1>1, <1>2, <1>3 DEF ShareInv, CallerOK, FilesOK, AllKnown

\* A caller that stays where it is keeps what it relies on if its connection
\* and the cached one are left alone and the entry is at most removed.
LEMMA CallerStays ==
  ASSUME TypeOK, NEW q \in Callers, CallerOK(q),
         pc'[q] = pc[q], held'[q] = held[q], key'[q] = key[q], InQueue(q)' => InQueue(q),
         key[q] \notin DialIn => cache'[key[q]] \in {cache[key[q]], NoConn},
         \A c \in Conns : c = held[q] \/ c = cache[key[q]]
           => keyOf'[c] = keyOf[c] /\ (life[c] = "closed" => life'[c] = "closed")
  PROVE  CallerOK(q)'
<1>1. /\ key[q] \in Keys /\ cache[key[q]] \in Conns \cup {NoConn}
      /\ pc[q] \in {"probe", "evict", "open", "insert"} => held[q] \in Conns
  BY HeldType DEF HoldingPoints
<1>2. pc[q] = "evict" => life'[held[q]] = "closed"
  BY <1>1 DEF CallerOK, Closed
<1>3. pc[q] \in {"open", "insert"} => keyOf'[held[q]] = key[q]
  BY <1>1 DEF CallerOK
<1>4. ASSUME key[q] \notin DialIn, cache[key[q]] = NoConn \/ life[cache[key[q]]] = "closed"
      PROVE  cache'[key[q]] = NoConn \/ life'[cache'[key[q]]] = "closed"
  BY <1>1, <1>4
<1> QED BY <1>1, <1>2, <1>3, <1>4 DEF CallerOK, Vacant, Closed

\* Steps that leave the cache and the connections alone.
LEMMA FilesStay ==
  ASSUME FilesOK, UNCHANGED <<cache, keyOf, handler>>
  PROVE  FilesOK'
  BY DEF FilesOK

LEMMA CallerShare ==
  ASSUME TypeOK, LockInv, PhaseInv, ShareInv, NEW p \in Callers, CallerSteps(p)
  PROVE  ShareInv'
<1>1. /\ key[p] \in Keys /\ cache[key[p]] \in Conns \cup {NoConn}
      /\ pc[p] \in {"probe", "evict", "open", "insert"} => held[p] \in Conns
  BY HeldType DEF HoldingPoints
<1>2. CallerOK(p) /\ PlaceOK(p)
  BY DEF ShareInv, LockInv
<1>3. handler' = handler /\ drained' = drained
  BY DEF CallerSteps, Call, CallerRuns, DialEnds, Dial, DialFails, Cancel, Look, Reuse,
         FindStale, Evict, Enqueue, Lock, OpenFirst, Insert
<1>4. ASSUME NEW q \in Callers, q # p
      PROVE  /\ pc'[q] = pc[q] /\ held'[q] = held[q] /\ key'[q] = key[q]
             /\ InQueue(q)' <=> InQueue(q)
             /\ CallerOK(q)
             /\ \A c : Holds(q, c)' <=> Holds(q, c)
  BY <1>4, OthersStay DEF ShareInv, Holds
\* A step after which p holds what it held, or nothing any more of use.
<1>5. ASSUME UNCHANGED <<cache, life, keyOf>>, CallerOK(p)',
             \A c \in Conns : Holds(p, c) /\ life[c] = "open" => Holds(p, c)'
      PROVE  ShareInv'
  <2>1. \A q \in Callers : CallerOK(q)'
    <3>1. ASSUME NEW q \in Callers, q # p PROVE CallerOK(q)'
      BY <1>4, <1>5, <3>1, CallerStays
    <3> QED BY <1>5, <3>1
  <2>2. ASSUME NEW c \in Conns, life'[c] = "open", keyOf'[c] \notin DialIn PROVE Known(c)'
    <3>1. life[c] = "open" /\ Known(c)
      BY <1>5, <2>2 DEF ShareInv, AllKnown
    <3>2. CASE cache[keyOf[c]] = c \/ c \in drained
      BY <1>3, <1>5, <3>2 DEF Known
    <3>3. ASSUME NEW q \in Callers, Holds(q, c) PROVE Known(c)'
      <4>1. Holds(q, c)'
        BY <1>4, <1>5, <3>1, <3>3
      <4> QED BY <4>1 DEF Known
    <3> QED BY <3>1, <3>2, <3>3 DEF Known
  <2>3. FilesOK'
    BY <1>3, <1>5, FilesStay DEF ShareInv
  <2> QED BY <2>1, <2>2, <2>3 DEF ShareInv, AllKnown
<1>6. ASSUME NEW point, NEW c, Goes(p, point, c)
      PROVE  pc'[p] = point /\ held'[p] = c
  BY <1>6 DEF Goes, TypeOK
<1>7. ASSUME pc'[p] \in {"idle", "look", "queue", "wait"} PROVE CallerOK(p)'
  BY <1>7 DEF CallerOK
<1>8. CASE Call(p) \/ Reuse(p) \/ DialFails(p) \/ Enqueue(p) \/ Lock(p)
  <2>1. UNCHANGED <<cache, life, keyOf>> /\ pc[p] \notin {"open", "insert"}
    BY <1>8 DEF Call, Reuse, DialFails, Enqueue, Lock, connVars
  <2>2. pc'[p] \in {"idle", "look", "queue", "wait"}
    BY <1>6, <1>8 DEF Call, Reuse, DialFails, Enqueue, Lock, Returns
  <2> QED BY <1>5, <1>7, <2>1, <2>2 DEF Holds
<1>9. CASE Look(p)
  <2>1. /\ UNCHANGED <<cache, life, keyOf, key, queue>> /\ pc[p] = "look"
    BY <1>9 DEF Look, connVars
  <2>2. CallerOK(p)'
    <3>1. CASE cache[key[p]] = NoConn
      <4>1. pc'[p] \in {"dial", "queue"}
        BY <1>6, <1>9, <3>1 DEF Look, Misses
      <4> QED BY <2>1, <3>1, <4>1 DEF CallerOK, Vacant
    <3>2. CASE cache[key[p]] # NoConn
      <4>1. pc'[p] = "probe" /\ held'[p] = cache[key[p]]
        BY <1>6, <1>9, <3>2 DEF Look
      <4> QED BY <2>1, <4>1 DEF CallerOK
    <3> QED BY <3>1, <3>2
  <2> QED BY <1>5, <2>1, <2>2 DEF Holds
<1>10. CASE FindStale(p)
  <2>1. /\ UNCHANGED <<cache, life, keyOf, key, queue>> /\ pc[p] = "probe"
        /\ pc'[p] = "evict" /\ held'[p] = held[p] /\ Closed(held[p])
    BY <1>6, <1>10 DEF FindStale, connVars
  <2>2. InQueue(p)' <=> InQueue(p)
    BY <2>1 DEF InQueue, Waiters
  <2>3. CallerOK(p)'
    BY <1>2, <2>1, <2>2 DEF CallerOK, Closed
  <2> QED BY <1>5, <2>1, <2>3 DEF Holds
<1>11. CASE OpenFirst(p)
  <2>1. UNCHANGED <<cache, life, keyOf, key>> /\ pc[p] = "open"
    BY <1>11 DEF OpenFirst, connVars
  <2>2. CASE Closed(held[p])
    <3>1. pc'[p] = "idle"
      BY <1>6, <1>11, <2>2 DEF OpenFirst, Returns
    <3> QED BY <1>5, <1>7, <2>1, <2>2, <3>1 DEF Holds, Closed
  <2>3. CASE ~Closed(held[p])
    <3>1. pc'[p] = "insert" /\ held'[p] = held[p]
      BY <1>6, <1>11, <2>3 DEF OpenFirst
    <3>2. CallerOK(p)'
      BY <1>2, <2>1, <3>1 DEF CallerOK, Vacant, Closed
    <3> QED BY <1>5, <2>1, <3>1, <3>2 DEF Holds
  <2> QED BY <2>2, <2>3
<1>12. CASE Evict(p)
  <2>1. /\ UNCHANGED <<life, keyOf, key, queue>> /\ pc[p] = "evict" /\ pc'[p] \in {"dial", "queue"}
        /\ InQueue(p) \/ pc'[p] = "queue"
    BY <1>6, <1>12 DEF Evict, connVars, Misses
  <2>2. \/ cache' = cache
        \/ cache' = [cache EXCEPT ![key[p]] = NoConn] /\ cache[key[p]] # NoConn /\ Closed(cache[key[p]])
    BY <1>12 DEF Evict, EvictIfClosed
  <2>3. \A k \in Keys : \/ cache'[k] = cache[k]
                        \/ cache'[k] = NoConn /\ cache[k] # NoConn /\ Closed(cache[k])
    BY <2>2 DEF TypeOK
  <2>4. ASSUME key[p] \notin DialIn, InQueue(p) PROVE cache'[key[p]] = NoConn
    <3>1. Closed(held[p]) /\ cache[key[p]] \in {held[p], NoConn}
      BY <1>2, <2>1, <2>4 DEF CallerOK
    <3> QED BY <1>1, <1>12, <3>1 DEF Evict, EvictIfClosed, TypeOK
  <2>5. ASSUME NEW q \in Callers PROVE CallerOK(q)'
    <3>1. CASE q = p
      BY <2>1, <2>4, <3>1 DEF CallerOK, Vacant
    <3>2. CASE q # p
      <4>1. key[q] \in Keys
        BY HeldType
      <4> QED BY <1>4, <2>1, <2>3, <3>2, <4>1, CallerStays
    <3> QED BY <3>1, <3>2
  <2>6. FilesOK'
    BY <1>3, <2>1, <2>3 DEF ShareInv, FilesOK
  <2>7. ASSUME NEW c \in Conns, life'[c] = "open", keyOf'[c] \notin DialIn PROVE Known(c)'
    <3>1. life[c] = "open" /\ Known(c) /\ keyOf[c] \in Keys /\ keyOf'[c] = keyOf[c]
      BY <2>1, <2>7 DEF ShareInv, AllKnown, TypeOK
    <3>2. CASE cache[keyOf[c]] = c
      BY <2>3, <3>1, <3>2 DEF Known, Closed
    <3>3. CASE c \in drained
      BY <1>3, <3>3 DEF Known
    <3>4. ASSUME NEW q \in Callers, Holds(q, c) PROVE Known(c)'
      <4>1. q # p
        BY <2>1, <3>4 DEF Holds
      <4> QED BY <1>4, <3>4, <4>1 DEF Known
    <3> QED BY <3>1, <3>2, <3>3, <3>4 DEF Known
  <2> QED BY <2>5, <2>6, <2>7 DEF ShareInv, AllKnown
<1>13. CASE Insert(p)
  <2>1. /\ UNCHANGED <<life, keyOf, key>> /\ pc[p] = "insert" /\ pc'[p] = "idle"
        /\ cache' = [cache EXCEPT ![key[p]] = held[p]]
    BY <1>6, <1>13 DEF Insert, connVars, Returns
  <2>2. cache'[key[p]] = held[p] /\ \A k \in Keys \ {key[p]} : cache'[k] = cache[k]
    BY <1>1, <2>1 DEF TypeOK
  <2>3. HasLock(p) /\ keyOf[held[p]] = key[p] /\ (key[p] \notin DialIn => Vacant(key[p]))
    BY <1>2, <2>1 DEF PlaceOK, CallerOK
  <2>4. ASSUME NEW q \in Callers PROVE CallerOK(q)'
    <3>1. CASE q = p
      BY <1>7, <2>1, <3>1
    <3>2. CASE q # p /\ (key[q] # key[p] \/ key[q] \in DialIn)
      <4>1. key[q] \in Keys
        BY HeldType
      <4>2. key[q] \notin DialIn => cache'[key[q]] = cache[key[q]]
        BY <2>2, <3>2, <4>1
      <4> QED BY <1>4, <2>1, <3>2, <4>2, CallerStays
    <3>3. CASE q # p /\ key[q] = key[p]
      <4>1. ~HasLock(q)
        BY <2>3, <3>3, OneHolder
      <4>2. pc[q] \notin {"dial", "open", "insert"}
        BY <4>1 DEF LockInv, PlaceOK
      <4>3. pc[q] \in {"probe", "evict"} => ~InQueue(q)
        BY <4>1 DEF LockInv, PlaceOK
      <4> QED BY <1>4, <2>1, <3>3, <4>2, <4>3 DEF CallerOK, Closed
    <3> QED BY <3>1, <3>2, <3>3
  <2>5. FilesOK'
    BY <1>3, <2>1, <2>2, <2>3 DEF ShareInv, FilesOK
  <2>6. ASSUME NEW c \in Conns, life'[c] = "open", keyOf'[c] \notin DialIn PROVE Known(c)'
    <3>1. life[c] = "open" /\ Known(c) /\ keyOf[c] \in Keys /\ keyOf'[c] = keyOf[c]
      BY <2>1, <2>6 DEF ShareInv, AllKnown, TypeOK
    <3>2. CASE cache[keyOf[c]] = c
      <4>1. keyOf[c] # key[p]
        BY <2>3, <2>6, <3>1, <3>2, NoConnIsNone DEF Vacant, Closed
      <4> QED BY <2>2, <3>1, <3>2, <4>1 DEF Known
    <3>3. CASE c \in drained
      BY <1>3, <3>3 DEF Known
    <3>4. ASSUME NEW q \in Callers, Holds(q, c) PROVE Known(c)'
      <4>1. CASE q = p
        BY <2>2, <2>3, <3>1, <3>4, <4>1 DEF Known, Holds
      <4>2. CASE q # p
        BY <1>4, <3>4, <4>2 DEF Known
      <4> QED BY <4>1, <4>2
    <3> QED BY <3>1, <3>2, <3>3, <3>4 DEF Known
  <2> QED BY <2>4, <2>5, <2>6 DEF ShareInv, AllKnown
<1>14. CASE Cancel(p)
  <2>1. /\ UNCHANGED <<cache, keyOf, key>> /\ pc'[p] = "idle" /\ pc[p] # "insert"
        /\ \A c \in Conns : life'[c] = "open" => life[c] = "open" /\ ~Holds(p, c)
    <3>1. pc[p] = "open" => life' = [life EXCEPT ![held[p]] = "closed"]
      BY <1>14 DEF Cancel
    <3>2. pc[p] # "open" => life' = life
      BY <1>14 DEF Cancel
    <3>3. /\ UNCHANGED <<cache, keyOf, key>> /\ pc'[p] = "idle" /\ pc[p] # "insert"
      BY <1>6, <1>14 DEF Cancel, Returns
    <3>4. ASSUME NEW c \in Conns, life'[c] = "open" PROVE life[c] = "open" /\ ~Holds(p, c)
      BY <3>1, <3>2, <3>3, <3>4 DEF Holds, TypeOK
    <3> QED BY <3>3, <3>4
  <2>2. \A c \in Conns : life[c] = "closed" => life'[c] = "closed"
    BY <1>1, <1>14 DEF Cancel, TypeOK
  <2>3. ASSUME NEW q \in Callers PROVE CallerOK(q)'
    <3>1. CASE q = p
      BY <1>7, <2>1, <3>1
    <3>2. CASE q # p
      BY <1>4, <2>1, <2>2, <3>2, CallerStays
    <3> QED BY <3>1, <3>2
  <2>4. FilesOK'
    BY <1>3, <2>1, FilesStay DEF ShareInv
  <2>5. ASSUME NEW c \in Conns, life'[c] = "open", keyOf'[c] \notin DialIn PROVE Known(c)'
    <3>1. life[c] = "open" /\ Known(c) /\ ~Holds(p, c)
      BY <2>1, <2>5 DEF ShareInv, AllKnown
    <3>2. CASE cache[keyOf[c]] = c \/ c \in drained
      BY <1>3, <2>1, <3>2 DEF Known
    <3>3. ASSUME NEW q \in Callers, Holds(q, c) PROVE Known(c)'
      BY <1>4, <3>1, <3>3 DEF Known
    <3> QED BY <3>1, <3>2, <3>3 DEF Known
  <2> QED BY <2>3, <2>4, <2>5 DEF ShareInv, AllKnown
<1>15. CASE Dial(p)
  <2> PICK c \in Conns : /\ Unused(c) /\ Connected(c, key[p])
                         /\ Goes(p, IF opens[p] THEN "open" ELSE "insert", c)
    BY <1>15 DEF Dial
  <2>1. /\ UNCHANGED <<cache, key, queue>> /\ pc[p] = "dial"
        /\ pc'[p] \in {"open", "insert"} /\ held'[p] = c
    BY <1>6, <1>15 DEF Dial
  <2>2. /\ life'[c] = "open" /\ keyOf'[c] = key[p]
        /\ \A d \in Conns \ {c} : life'[d] = life[d] /\ keyOf'[d] = keyOf[d]
    BY DEF Connected, TypeOK
  <2>3. /\ handler[c] = "none" /\ \A k \in Keys : cache[k] # c
        /\ \A q \in Callers : held[q] # c
    BY DEF Unused
  <2>4. ASSUME NEW q \in Callers PROVE CallerOK(q)'
    <3>1. key[q] \in Keys /\ cache[key[q]] # c /\ held[q] # c
      BY <2>3, HeldType
    <3>2. CASE q = p
      <4>1. key[p] \notin DialIn => Vacant(key[p])
        BY <1>2, <2>1 DEF CallerOK
      <4>2. key[p] \notin DialIn => Vacant(key[p])'
        BY <1>1, <2>1, <2>2, <3>1, <3>2, <4>1 DEF Vacant, Closed
      <4> QED BY <2>1, <2>2, <3>2, <4>2 DEF CallerOK
    <3>3. CASE q # p
      BY <1>4, <2>1, <2>2, <3>1, <3>3, CallerStays
    <3> QED BY <3>2, <3>3
  <2>5. FilesOK'
    <3>1. ASSUME NEW k \in Keys, cache'[k] # NoConn PROVE keyOf'[cache'[k]] = k
      <4>1. cache[k] \in Conns \ {c} /\ keyOf[cache[k]] = k
        BY <2>1, <2>3, <3>1 DEF ShareInv, FilesOK, TypeOK
      <4> QED BY <2>1, <2>2, <4>1
    <3>2. ASSUME NEW d \in Conns, handler'[d] # "none" PROVE keyOf'[d] \in DialIn
      BY <1>3, <2>2, <2>3, <3>2 DEF ShareInv, FilesOK
    <3> QED BY <3>1, <3>2 DEF FilesOK
  <2>6. ASSUME NEW d \in Conns, life'[d] = "open", keyOf'[d] \notin DialIn PROVE Known(d)'
    <3>1. CASE d = c
      BY <2>1, <3>1 DEF Known, Holds
    <3>2. CASE d # c
      <4>1. Known(d) /\ keyOf'[d] = keyOf[d]
        BY <2>2, <2>6, <3>2 DEF ShareInv, AllKnown
      <4>2. CASE cache[keyOf[d]] = d \/ d \in drained
        BY <1>3, <2>1, <4>1, <4>2 DEF Known
      <4>3. ASSUME NEW q \in Callers, Holds(q, d) PROVE Known(d)'
        <5>1. q # p
          BY <2>1, <4>3 DEF Holds
        <5> QED BY <1>4, <4>3, <5>1 DEF Known
      <4> QED BY <4>1, <4>2, <4>3 DEF Known
    <3> QED BY <3>1, <3>2
  <2> QED BY <2>4, <2>5, <2>6 DEF ShareInv, AllKnown
<1> QED BY <1>8, <1>9, <1>10, <1>11, <1>12, <1>13, <1>14, <1>15
        DEF CallerSteps, CallerRuns, DialEnds

LEMMA OtherShare ==
  ASSUME TypeOK, PhaseInv, ShareInv,
         \/ \E c \in Conns : HandlerRuns(c) \/ Dies(c) \/ \E k \in DialIn : Accept(c, k)
         \/ Reload \/ Drain \/ Closing
  PROVE  ShareInv'
\* Callers are where they were, and what they rely on still holds.
<1>1. ASSUME UNCHANGED callVars,
             \A k \in Keys \ DialIn : cache'[k] \in {cache[k], NoConn},
             \A c \in Conns : keyOf'[c] = keyOf[c] /\ (life[c] = "closed" => life'[c] = "closed")
      PROVE  \A q \in Callers : CallerOK(q)'
  <2>1. ASSUME NEW q \in Callers PROVE CallerOK(q)'
    <3>1. CallerOK(q) /\ (InQueue(q)' <=> InQueue(q)) /\ key[q] \in Keys
      BY <1>1, HeldType DEF ShareInv, callVars, InQueue, Waiters
    <3>2. key[q] \notin DialIn => cache'[key[q]] \in {cache[key[q]], NoConn}
      BY <1>1, <3>1
    <3>3. pc'[q] = pc[q] /\ held'[q] = held[q] /\ key'[q] = key[q]
      BY <1>1 DEF callVars
    <3> QED BY <1>1, <3>1, <3>2, <3>3, CallerStays
  <2> QED BY <2>1
<1>2. ASSUME NEW c \in Conns, UNCHANGED callVars, Known(c), keyOf'[c] = keyOf[c],
             cache[keyOf[c]] = c => cache'[keyOf[c]] = c, drained' = drained
      PROVE  Known(c)'
  BY <1>2 DEF Known, Holds, callVars
<1>3. \A c \in Conns : life[c] = "open" /\ keyOf[c] \notin DialIn => Known(c)
  BY DEF ShareInv, AllKnown
<1>4. ASSUME NEW c \in Conns, HandlerInserts(c) \/ HandlerEnds(c) PROVE ShareInv'
  <2>1. /\ UNCHANGED <<callVars, life, keyOf, drained>> /\ keyOf[c] \in DialIn /\ keyOf[c] \in Keys
        /\ \A k \in Keys \ {keyOf[c]} : cache'[k] = cache[k]
        /\ cache'[keyOf[c]] \in {c, NoConn}
        /\ \A d \in Conns : handler'[d] # "none" => handler[d] # "none"
    BY <1>4 DEF HandlerInserts, HandlerEnds, Removed, callVars, connVars, ShareInv, FilesOK, TypeOK
  <2>2. \A q \in Callers : CallerOK(q)'
    BY <1>1, <2>1
  <2>3. FilesOK'
    BY <2>1 DEF ShareInv, FilesOK
  <2>4. ASSUME NEW d \in Conns, life'[d] = "open", keyOf'[d] \notin DialIn PROVE Known(d)'
    BY <1>2, <1>3, <2>1, <2>4 DEF TypeOK
  <2> QED BY <2>2, <2>3, <2>4 DEF ShareInv, AllKnown
<1>5. ASSUME NEW c \in Conns, Dies(c) PROVE ShareInv'
  <2>1. /\ UNCHANGED <<cache, callVars, keyOf, handler, drained>>
        /\ \A d \in Conns : life'[d] = "open" => life[d] = "open"
        /\ \A d \in Conns : life[d] = "closed" => life'[d] = "closed"
    BY <1>5 DEF Dies, TypeOK
  <2>2. \A q \in Callers : CallerOK(q)'
    BY <1>1, <2>1
  <2>3. FilesOK'
    BY <2>1, FilesStay DEF ShareInv
  <2>4. ASSUME NEW d \in Conns, life'[d] = "open", keyOf'[d] \notin DialIn PROVE Known(d)'
    BY <1>2, <1>3, <2>1, <2>4
  <2> QED BY <2>2, <2>3, <2>4 DEF ShareInv, AllKnown
<1>6. ASSUME NEW c \in Conns, NEW k \in DialIn, Accept(c, k) PROVE ShareInv'
  <2>1. /\ UNCHANGED <<cache, callVars, drained>> /\ keyOf'[c] = k
        /\ \A d \in Conns \ {c} : life'[d] = life[d] /\ keyOf'[d] = keyOf[d] /\ handler'[d] = handler[d]
        /\ \A j \in Keys : cache[j] # c
        /\ \A q \in Callers : held[q] # c
    BY <1>6 DEF Accept, Unused, Connected, TypeOK
  <2>2. ASSUME NEW q \in Callers PROVE CallerOK(q)'
    <3>1. /\ CallerOK(q) /\ (InQueue(q)' <=> InQueue(q)) /\ key[q] \in Keys
          /\ pc'[q] = pc[q] /\ held'[q] = held[q] /\ key'[q] = key[q]
      BY <2>1, HeldType DEF ShareInv, callVars, InQueue, Waiters
    <3>2. ASSUME NEW d \in Conns, d = held[q] \/ d = cache[key[q]]
          PROVE  keyOf'[d] = keyOf[d] /\ (life[d] = "closed" => life'[d] = "closed")
      BY <2>1, <3>1, <3>2
    <3> QED BY <2>1, <3>1, <3>2, CallerStays
  <2>3. FilesOK'
    <3>1. ASSUME NEW j \in Keys, cache'[j] # NoConn PROVE keyOf'[cache'[j]] = j
      <4>1. cache[j] \in Conns \ {c} /\ keyOf[cache[j]] = j
        BY <2>1, <3>1 DEF ShareInv, FilesOK, TypeOK
      <4> QED BY <2>1, <4>1
    <3>2. ASSUME NEW d \in Conns, handler'[d] # "none" PROVE keyOf'[d] \in DialIn
      BY <2>1, <3>2 DEF ShareInv, FilesOK
    <3> QED BY <3>1, <3>2 DEF FilesOK
  <2>4. ASSUME NEW d \in Conns, life'[d] = "open", keyOf'[d] \notin DialIn PROVE Known(d)'
    <3>1. d # c
      BY <2>1, <2>4
    <3> QED BY <1>2, <1>3, <2>1, <2>4, <3>1
  <2> QED BY <2>2, <2>3, <2>4 DEF ShareInv, AllKnown
<1>7. CASE Reload \/ Shutdown
  <2>1. UNCHANGED <<cache, callVars, life, keyOf, drained>> /\ \A d \in Conns : handler'[d] # "none" => handler[d] # "none"
    BY <1>7 DEF Reload, Shutdown, connVars
  <2>2. \A q \in Callers : CallerOK(q)'
    BY <1>1, <2>1
  <2>3. FilesOK'
    BY <2>1 DEF ShareInv, FilesOK
  <2>4. ASSUME NEW d \in Conns, life'[d] = "open", keyOf'[d] \notin DialIn PROVE Known(d)'
    BY <1>2, <1>3, <2>1, <2>4
  <2> QED BY <2>2, <2>3, <2>4 DEF ShareInv, AllKnown
<1>8. CASE Drain
  <2>1. /\ UNCHANGED <<callVars, life, keyOf, handler>> /\ NoCalls /\ phase = "up"
        /\ drained' = {cache[k] : k \in Keys} \ {NoConn}
        /\ \A k \in Keys : cache'[k] = NoConn
    BY <1>8 DEF Drain, connVars
  <2>2. \A q \in Callers : CallerOK(q)'
    BY <1>1, <2>1
  <2>3. FilesOK'
    BY <2>1 DEF ShareInv, FilesOK
  <2>4. ASSUME NEW d \in Conns, life'[d] = "open", keyOf'[d] \notin DialIn PROVE Known(d)'
    <3>1. Known(d) /\ keyOf[d] \in Keys
      BY <1>3, <2>1, <2>4 DEF TypeOK
    <3>2. d \notin drained /\ \A q \in Callers : ~Holds(q, d)
      BY <2>1 DEF PhaseInv, NoCalls, Holds
    <3>3. d \in drained'
      BY <2>1, <3>1, <3>2, NoConnIsNone DEF Known
    <3> QED BY <3>3 DEF Known
  <2> QED BY <2>2, <2>3, <2>4 DEF ShareInv, AllKnown
<1>9. CASE CloseDrained
  <2>1. /\ UNCHANGED <<cache, callVars, keyOf, handler>>
        /\ \A d \in Conns : life'[d] = IF d \in drained THEN "closed" ELSE life[d]
    BY <1>9 DEF CloseDrained
  <2>2. \A q \in Callers : CallerOK(q)'
    BY <1>1, <2>1
  <2>3. FilesOK'
    BY <2>1, FilesStay DEF ShareInv
  <2>4. ASSUME NEW d \in Conns, life'[d] = "open", keyOf'[d] \notin DialIn PROVE Known(d)'
    <3>1. Known(d) /\ d \notin drained
      BY <1>3, <2>1, <2>4
    <3> QED BY <2>1, <3>1 DEF Known, Holds, callVars
  <2> QED BY <2>2, <2>3, <2>4 DEF ShareInv, AllKnown
<1>10. CASE CloseEndpoint
  <2>1. UNCHANGED <<cache, callVars, keyOf, handler>> /\ \A d \in Conns : life'[d] = "closed"
    BY <1>10 DEF CloseEndpoint, CloseAll
  <2>2. \A q \in Callers : CallerOK(q)'
    BY <1>1, <2>1
  <2>3. FilesOK'
    BY <2>1, FilesStay DEF ShareInv
  <2> QED BY <2>1, <2>2, <2>3 DEF ShareInv, AllKnown
<1> QED BY <1>4, <1>5, <1>6, <1>7, <1>8, <1>9, <1>10 DEF HandlerRuns, Closing

LEMMA ShareStep ==
  ASSUME TypeOK, LockInv, PhaseInv, ShareInv, [Next]_vars
  PROVE  ShareInv'
<1>1. CASE UNCHANGED vars
  BY <1>1 DEF vars, callVars, connVars, ShareInv, CallerOK, FilesOK, AllKnown, Known, Holds,
              Vacant, Closed, InQueue, Waiters
<1> QED BY <1>1, CallerShare, OtherShare DEF Next, CallerSteps

-----------------------------------------------------------------------------
(* One connection to each peer.                                            *)

\* Only Dial opens a connection to a peer that does not connect to us, under
\* the lock and with nothing usable in the cache: no other is open.
LEMMA SharedStep ==
  ASSUME TypeOK, LockInv, PhaseInv, ShareInv, SharedConnection, [Next]_vars
  PROVE  SharedConnection'
<1>1. ASSUME \A c \in Conns : life'[c] = "open" /\ keyOf'[c] \notin DialIn
               => life[c] = "open" /\ keyOf[c] = keyOf'[c]
      PROVE  SharedConnection'
  BY <1>1 DEF SharedConnection
<1>2. ASSUME NEW p \in Callers, Dial(p) PROVE SharedConnection'
  <2> PICK c \in Conns : Unused(c) /\ Connected(c, key[p])
    BY <1>2 DEF Dial
  <2>1. /\ life'[c] = "open" /\ keyOf'[c] = key[p] /\ key[p] \in Keys
        /\ \A d \in Conns \ {c} : life'[d] = life[d] /\ keyOf'[d] = keyOf[d]
    BY DEF Connected, TypeOK
  <2>2. /\ pc[p] = "dial" /\ HasLock(p) /\ drained = {}
        /\ key[p] \notin DialIn => Vacant(key[p])
    BY <1>2 DEF Dial, LockInv, PlaceOK, PhaseInv, ShareInv, CallerOK
  <2>3. ASSUME NEW d \in Conns \ {c}, life[d] = "open", keyOf[d] = key[p], key[p] \notin DialIn
        PROVE  FALSE
    <3>1. Known(d)
      BY <2>3 DEF ShareInv, AllKnown
    <3>2. cache[keyOf[d]] # d
      BY <2>2, <2>3, NoConnIsNone DEF Vacant, Closed
    <3>3. ASSUME NEW q \in Callers, Holds(q, d) PROVE FALSE
      <4>1. key[q] = key[p] /\ HasLock(q)
        BY <2>3, <3>3 DEF Holds, ShareInv, CallerOK, LockInv, PlaceOK
      <4>2. p = q
        BY <2>2, <4>1, OneHolder
      <4> QED BY <2>2, <3>3, <4>2 DEF Holds
    <3> QED BY <2>2, <3>1, <3>2, <3>3 DEF Known
  <2>4. ASSUME NEW d \in Conns, NEW e \in Conns, life'[d] = "open", life'[e] = "open",
               keyOf'[d] = keyOf'[e], keyOf'[d] \notin DialIn
        PROVE  d = e
    <3>1. CASE d # c /\ e # c
      BY <2>1, <2>4, <3>1 DEF SharedConnection
    <3>2. CASE d = c \/ e = c
      BY <2>1, <2>3, <2>4, <3>2
    <3> QED BY <3>1, <3>2
  <2> QED BY <2>4 DEF SharedConnection
<1>3. ASSUME NEW p \in Callers, CallerSteps(p), ~Dial(p) PROVE SharedConnection'
  <2>1. keyOf' = keyOf /\ \A c \in Conns : life'[c] = "open" => life[c] = "open"
    <3>1. CASE Cancel(p)
      BY <3>1 DEF Cancel, TypeOK
    <3>2. CASE ~Cancel(p)
      BY <1>3, <3>2 DEF CallerSteps, Call, CallerRuns, DialEnds, DialFails, Look, Reuse,
          FindStale, Evict, Enqueue, Lock, OpenFirst, Insert, connVars
    <3> QED BY <3>1, <3>2
  <2> QED BY <1>1, <2>1
<1>4. ASSUME NEW c \in Conns, NEW k \in DialIn, Accept(c, k) PROVE SharedConnection'
  <2>1. keyOf'[c] \in DialIn /\ \A d \in Conns \ {c} : life'[d] = life[d] /\ keyOf'[d] = keyOf[d]
    BY <1>4 DEF Accept, Connected, TypeOK
  <2> QED BY <1>1, <2>1
<1>5. ASSUME NEW c \in Conns, HandlerRuns(c) \/ Dies(c) PROVE SharedConnection'
  <2>1. keyOf' = keyOf /\ \A d \in Conns : life'[d] = "open" => life[d] = "open"
    BY <1>5 DEF HandlerRuns, HandlerInserts, HandlerEnds, Dies, connVars, TypeOK
  <2> QED BY <1>1, <2>1
<1>6. CASE Reload \/ Drain \/ Closing
  <2>1. keyOf' = keyOf /\ \A d \in Conns : life'[d] = "open" => life[d] = "open"
    BY <1>6 DEF Reload, Drain, Closing, CloseDrained, CloseEndpoint, CloseAll, Shutdown,
                connVars, TypeOK
  <2> QED BY <1>1, <2>1
<1>7. CASE UNCHANGED vars
  BY <1>1, <1>7 DEF vars, connVars
<1> QED BY <1>2, <1>3, <1>4, <1>5, <1>6, <1>7 DEF Next, CallerSteps

-----------------------------------------------------------------------------
(* Theorems.                                                               *)

IInv == TypeOK /\ LockInv /\ PhaseInv /\ ShareInv /\ SharedConnection

LEMMA Inductive == Spec => []IInv
<1>1. Init => SharedConnection
  BY DEF Init, SharedConnection
<1>2. Init => IInv
  BY <1>1, InitType, LockInit, PhaseInit, ShareInit DEF IInv
<1>3. TypeOK /\ [Next]_vars => TypeOK'
  <2>1. ASSUME TypeOK, UNCHANGED vars PROVE TypeOK'
    BY <2>1 DEF vars, callVars, connVars, TypeOK
  <2> QED BY <2>1, CallerType, OtherType DEF Next
<1>4. IInv /\ [Next]_vars => IInv'
  BY <1>3, LockStep, PhaseStep, ShareStep, SharedStep DEF IInv
<1> QED BY <1>2, <1>4, PTL DEF Spec

\* Calls to one peer share one connection (open_addr_cached, get_or_connect):
\* of a peer that does not connect to us, no two are open.
THEOREM SharedCorrect == Spec => []SharedConnection
BY Inductive, PTL DEF IInv

\* After close() the cache is empty.
THEOREM EmptyCorrect == Spec => []ClosedIsEmpty
<1>1. IInv => ClosedIsEmpty
  BY DEF IInv, PhaseInv, ClosedIsEmpty
<1> QED BY <1>1, Inductive, PTL

\* A call waits only for a call to the same peer, one that has the lock and
\* has not returned: whatever hangs elsewhere, the lock is never lost, neither
\* by a return, nor by an error, nor by a future that is dropped at an await.
WaitsForItsPeer ==
  \A p \in Callers : pc[p] = "wait" =>
    \E q \in Callers : HasLock(q) /\ key[q] = key[p] /\ pc[q] \notin {"idle", "queue"}

\* "A hung connect() to one peer can never block connections to a different
\* peer" (connect_locks): the safety half of CallersReturn.
THEOREM WaitsCorrect == Spec => []WaitsForItsPeer
<1>1. IInv => WaitsForItsPeer
  <2> SUFFICES ASSUME IInv, NEW p \in Callers, pc[p] = "wait"
               PROVE  \E q \in Callers : /\ HasLock(q) /\ key[q] = key[p]
                                         /\ pc[q] \notin {"idle", "queue"}
    BY DEF WaitsForItsPeer
  <2>1. TypeOK /\ QueueOK /\ \A q \in Callers : PlaceOK(q)
    BY DEF IInv, LockInv
  <2>2. /\ key[p] \in Keys /\ Waiters(p) = queue[key[p]]
        /\ Waiters(p) \in Seq(Callers) /\ Len(Waiters(p)) \in Nat
    BY <2>1, QueueFacts
  <2>3. InQueue(p)
    BY <2>1 DEF PlaceOK
  <2>4. 1 \in 1 .. Len(Waiters(p))
    BY <2>2, <2>3 DEF InQueue
  <2>5. PICK q \in Callers : q = Waiters(p)[1]
    BY <2>2, <2>4
  <2>6. key[q] = key[p]
    BY <2>1, <2>2, <2>4, <2>5 DEF QueueOK
  <2>7. Waiters(q) = Waiters(p)
    BY <2>6 DEF Waiters
  <2>8. HasLock(q) /\ InQueue(q)
    BY <2>1, <2>2, <2>4, <2>5, <2>7, QueueFacts DEF InQueue
  <2>9. pc[q] \notin {"idle", "queue"}
    BY <2>1, <2>8 DEF PlaceOK
  <2> QED  BY <2>6, <2>8, <2>9
<1> QED  BY <1>1, Inductive, PTL

\* From the moment close() has closed the endpoint no connection is open, so
\* no accept() task that router.shutdown() waits for waits for a stream.
CloseLeavesNothing == phase \in {"closed", "down"} => \A c \in Conns : Closed(c)

\* Neither calls that come after close() nor peers open a connection again:
\* the safety half of CloseReturns.
THEOREM CloseCorrect == Spec => []CloseLeavesNothing
<1>1. Init => CloseLeavesNothing
  BY DEF Init, CloseLeavesNothing
<1>2. TypeOK /\ CloseLeavesNothing /\ [Next]_vars => CloseLeavesNothing'
  <2> SUFFICES ASSUME TypeOK, CloseLeavesNothing, [Next]_vars, phase' \in {"closed", "down"},
                      NEW c \in Conns
               PROVE  life'[c] = "closed"
    BY DEF CloseLeavesNothing, Closed
  <2>1. CASE CloseEndpoint
    BY <2>1 DEF CloseEndpoint, CloseAll
  <2>2. CASE ~CloseEndpoint
    <3>1. phase \in {"closed", "down"}
      BY <2>2
      DEF Next, Call, CallerRuns, DialEnds, Cancel, HandlerRuns, Dies, Accept, Reload, Drain, Closing,
          Look, Reuse, FindStale, Evict, Enqueue, Lock, OpenFirst, Insert, Dial, DialFails,
          HandlerInserts, HandlerEnds, CloseDrained, Shutdown, vars
    <3>2. life[c] = "closed"
      BY <3>1 DEF CloseLeavesNothing, Closed
    <3>3. \/ UNCHANGED life
          \/ \E d \in Conns : life' = [life EXCEPT ![d] = "closed"]
          \/ \E p \in Callers : Cancel(p)
      BY <2>2, <3>1
      DEF Next, Call, CallerRuns, DialEnds, HandlerRuns, Dies, Accept, Reload, Drain, Closing,
          Look, Reuse, FindStale, Evict, Enqueue, Lock, OpenFirst, Insert, Dial, DialFails,
          HandlerInserts, HandlerEnds, CloseDrained, Shutdown, vars, connVars
    <3>4. CASE \E p \in Callers : Cancel(p)
      BY <3>2, <3>4 DEF Cancel, TypeOK
    <3> QED  BY <3>2, <3>3, <3>4 DEF TypeOK
  <2> QED  BY <2>1, <2>2
<1> QED  BY <1>1, <1>2, TypeCorrect, PTL DEF Spec

\* The eviction by callers (evict_if_closed) spares what is alive.
THEOREM SendersCorrect == Spec => SendersEvictOnlyStale
<1> DEFINE Spares == \A k \in Keys :
       cache[k] # NoConn /\ ~Closed(cache[k]) /\ cache'[k] = NoConn
         => handler' # handler \/ phase' # phase
<1>1. ASSUME IInv, Next PROVE Spares
  <2>1. TypeOK
    BY <1>1 DEF IInv
  <2>2. ASSUME NEW p \in Callers, Evict(p) PROVE Spares
    BY <2>1, <2>2 DEF Evict, EvictIfClosed, TypeOK
  <2>3. ASSUME NEW p \in Callers, Insert(p) PROVE Spares
    <3>1. held[p] \in Conns
      BY <2>1, <2>3, HeldType DEF Insert, HoldingPoints
    <3> QED BY <2>1, <2>3, <3>1, NoConnIsNone DEF Insert, TypeOK
  <2>4. ASSUME NEW p \in Callers, CallerSteps(p), ~Evict(p), ~Insert(p) PROVE Spares
    <3>1. cache' = cache
      BY <2>4 DEF CallerSteps, Call, CallerRuns, DialEnds, Dial, DialFails, Cancel, Look,
          Reuse, FindStale, Enqueue, Lock, OpenFirst
    <3> QED BY <3>1
  <2>5. ASSUME NEW c \in Conns, HandlerRuns(c) PROVE Spares
    <3>1. handler' # handler
      BY <2>1, <2>5 DEF HandlerRuns, HandlerInserts, HandlerEnds, TypeOK
    <3> QED BY <3>1
  <2>6. ASSUME NEW c \in Conns, Dies(c) \/ \E k \in DialIn : Accept(c, k) PROVE Spares
    BY <2>6 DEF Dies, Accept
  <2>7. CASE Reload \/ Drain \/ Closing
    BY <2>7 DEF Reload, Drain, Closing, CloseDrained, CloseEndpoint, Shutdown
  <2> QED BY <1>1, <2>2, <2>3, <2>4, <2>5, <2>6, <2>7 DEF Next, CallerSteps
<1>2. ASSUME IInv, [Next]_vars PROVE [Spares]_vars
  BY <1>1, <1>2
<1> QED BY <1>2, Inductive, PTL DEF Spec, SendersEvictOnlyStale

=============================================================================
