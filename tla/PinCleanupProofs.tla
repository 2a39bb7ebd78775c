-------------------------- MODULE PinCleanupProofs --------------------------
(***************************************************************************)
(* Proofs about PinScheduler and PinCleanup.                               *)
(*                                                                         *)
(* The first half is about the scheduler alone, for any finite set of      *)
(* keys, any set of CIDs and any capacity: its types (TypeOK), the         *)
(* correspondence of queued tokens and pending entries                     *)
(* (TokensMatchPending), what the worker may still put back (NewestInv),   *)
(* and the mailbox that it implements.                                     *)
(*                                                                         *)
(* The second half puts publishers, batches, servers and restarts around   *)
(* it, in any environment (SchedulerStep): the types, that batches spare   *)
(* what they protect, which CIDs get the managed name, that the current    *)
(* document stays pinned when publications wait for the cleanup, and that  *)
(* only the current document is pinned when everything is at rest.         *)
(***************************************************************************)
EXTENDS PinCleanup, FiniteSetTheorems, TLAPS

ConstantsOK == Capacity \in Nat \ {0} /\ NoCid \notin Cids /\ NoKey \notin Keys

\* The four assumptions on the constants, as one fact to cite.
LEMMA Constants == ConstantsOK /\ IsFiniteSet(Keys)
BY KeysFinite, CapacityPositive, NoCidIsNotACid, NoKeyIsNotAKey DEF ConstantsOK

\* What send and recv do to the channel: Append adds one token at the end,
\* Head/Tail take the first and shift the others down.
LEMMA AppendToken ==
  ASSUME NEW s \in Seq(Keys), NEW k \in Keys
  PROVE  /\ Append(s, k) \in Seq(Keys)
         /\ Len(Append(s, k)) = Len(s) + 1
         /\ Append(s, k)[Len(s) + 1] = k
         /\ \A i \in 1 .. Len(s) : Append(s, k)[i] = s[i]
OBVIOUS

LEMMA TakeToken ==
  ASSUME NEW s \in Seq(Keys), s # <<>>
  PROVE  /\ Len(s) \in Nat \ {0}
         /\ Head(s) = s[1]
         /\ Head(s) \in Keys
         /\ Tail(s) \in Seq(Keys)
         /\ Len(Tail(s)) = Len(s) - 1
         /\ \A i \in 1 .. Len(Tail(s)) : Tail(s)[i] = s[i + 1]
OBVIOUS

\* Every step keeps the types and the worker's locals consistent.
LEMMA TypeStep == TypeOK /\ [SchedNext]_schedVars => TypeOK'
<1> SUFFICES ASSUME TypeOK, [SchedNext]_schedVars PROVE TypeOK'
  OBVIOUS
<1> USE Constants DEF ConstantsOK, TypeOK, WorkerPoints
<1>1. CASE \E k \in Keys, c \in Cids : Schedule(k, c)
  <2> PICK k \in Keys, c \in Cids : Schedule(k, c)
    BY <1>1
  <2>1. CASE Replace(k, c)
    BY <2>1 DEF Replace, Accepted
  <2>2. CASE Enqueue(k, c)
    BY <2>2, AppendToken DEF Enqueue, Accepted
  <2>3. CASE Refuse(k, c)
    BY <2>3 DEF Refuse
  <2> QED BY <2>1, <2>2, <2>3 DEF Schedule
<1>2. CASE Receive
  BY <1>2, TakeToken DEF Receive
<1>3. CASE Take
  BY <1>3 DEF Take, Occupied
<1>4. CASE Resend
  BY <1>4, AppendToken DEF Resend, LetGo
<1>5. CASE \E more \in BOOLEAN : EndBatch(more)
  <2> PICK more \in BOOLEAN : EndBatch(more)
    BY <1>5
  <2>1. CASE BatchIsOver(more)
    BY <2>1 DEF BatchIsOver, LetGo
  <2>2. CASE BatchIsRequeued(more)
    BY <2>2 DEF BatchIsRequeued
  <2> QED BY <2>1, <2>2 DEF EndBatch
<1>6. CASE WorkerEnds
  BY <1>6 DEF WorkerEnds
<1>7. CASE UNCHANGED schedVars
  BY <1>7 DEF schedVars
<1> QED
  BY <1>1, <1>2, <1>3, <1>4, <1>5, <1>6, <1>7 DEF SchedNext, WorkerStep

\* TypeOK holds in every reachable state of the scheduler.
THEOREM TypeCorrect == SchedSpec => []TypeOK
<1>1. SchedInit => TypeOK
  BY Constants DEF ConstantsOK, SchedInit, TypeOK, WorkerPoints
<1> QED BY <1>1, TypeStep, PTL DEF SchedSpec

-----------------------------------------------------------------------------

\* No step breaks the correspondence of tokens and pending entries.
LEMMA TokensStep ==
  TypeOK /\ TypeOK' /\ TokensMatchPending /\ [SchedNext]_schedVars
    => TokensMatchPending'
<1> SUFFICES ASSUME TypeOK, TypeOK', TokensMatchPending, [SchedNext]_schedVars
             PROVE  TokensMatchPending'
  OBVIOUS
<1> USE Constants DEF ConstantsOK, TypeOK, WorkerPoints, TokensMatchPending,
                      HeldForLookup, Occupied
<1>1. CASE \E k \in Keys, c \in Cids : Schedule(k, c)
  <2> PICK k \in Keys, c \in Cids : Schedule(k, c)
    BY <1>1
  <2>1. CASE Replace(k, c)
    BY <2>1 DEF Replace, Accepted
  <2>2. CASE Enqueue(k, c)
    <3>1. Len(wake') = Len(wake) + 1 /\ Len(wake) < Capacity
      BY <2>2, AppendToken DEF Enqueue, HasRoom
    <3>2. \A i \in 1 .. Len(wake) : wake'[i] = wake[i] /\ wake[i] # k
      BY <2>2, AppendToken DEF Enqueue
    <3>3. wake'[Len(wake) + 1] = k /\ ~HeldForLookup(k)
      BY <2>2, AppendToken DEF Enqueue
    <3>4. \A j \in Keys : Occupied(j)' <=> j = k \/ Occupied(j)
      BY <2>2 DEF Enqueue, Accepted
    <3>5. UNCHANGED <<pc, heldKey>>
      BY <2>2 DEF Enqueue
    <3>6. \A i, j \in 1 .. Len(wake') : wake'[i] = wake'[j] => i = j
      BY <3>1, <3>2, <3>3
    <3>7. \A i \in 1 .. Len(wake') : Occupied(wake[i])' /\ ~HeldForLookup(wake[i])'
      BY <3>1, <3>2, <3>3, <3>4, <3>5
    <3> QED BY <3>1, <3>4, <3>5, <3>6, <3>7
  <2>3. CASE Refuse(k, c)
    BY <2>3 DEF Refuse
  <2> QED BY <2>1, <2>2, <2>3 DEF Schedule
<1>2. CASE Receive
  <2>1. /\ Len(wake') = Len(wake) - 1 /\ Len(wake) >= 1
        /\ \A i \in 1 .. Len(wake') : wake'[i] = wake[i + 1]
        /\ heldKey' = wake[1] /\ pc' = "received" /\ pending' = pending
    BY <1>2, TakeToken DEF Receive
  <2>2. \A i \in 1 .. Len(wake') : i + 1 \in 1 .. Len(wake)
    BY <2>1
  <2>3. \A i, j \in 1 .. Len(wake') : wake'[i] = wake'[j] => i = j
    BY <2>1, <2>2
  <2>4. \A i \in 1 .. Len(wake') : Occupied(wake[i])' /\ ~HeldForLookup(wake[i])'
    <3> TAKE i \in 1 .. Len(wake')
    <3>1. wake'[i] = wake[i + 1] /\ wake[i + 1] # wake[1]
      BY <2>1, <2>2
    <3> QED BY <2>1, <2>2, <3>1
  <2>5. Occupied(wake[1])
    BY <2>1
  <2> QED BY <2>1, <2>3, <2>4, <2>5
<1>3. CASE Take
  <2>1. \A i \in 1 .. Len(wake) : wake[i] # heldKey
    BY <1>3 DEF Take
  <2>2. /\ pending' = [pending EXCEPT ![heldKey] = NoCid]
        /\ pc' \in {"cleaning", "receiving"} /\ wake' = wake
    BY <1>3 DEF Take
  <2>3. \A i \in 1 .. Len(wake) : pending'[wake[i]] = pending[wake[i]]
    BY <2>1, <2>2
  <2> QED BY <2>2, <2>3
<1>4. CASE Resend
  <2>1. CASE HasRoom
    <3>1. /\ Len(wake') = Len(wake) + 1 /\ Len(wake) < Capacity
          /\ \A i \in 1 .. Len(wake) : wake'[i] = wake[i] /\ wake[i] # heldKey
          /\ wake'[Len(wake) + 1] = heldKey
      BY <1>4, <2>1, AppendToken DEF Resend, HasRoom
    <3>2. Occupied(heldKey) /\ pending' = pending /\ pc' = "receiving"
      BY <1>4 DEF Resend, LetGo
    <3>3. \A i, j \in 1 .. Len(wake') : wake'[i] = wake'[j] => i = j
      BY <3>1
    <3>4. \A i \in 1 .. Len(wake') : Occupied(wake[i])' /\ ~HeldForLookup(wake[i])'
      BY <3>1, <3>2
    <3> QED BY <3>1, <3>2, <3>3, <3>4
  <2>2. CASE ~HasRoom
    BY <1>4, <2>2 DEF Resend, LetGo
  <2> QED BY <2>1, <2>2
<1>5. CASE \E more \in BOOLEAN : EndBatch(more)
  <2> PICK more \in BOOLEAN : EndBatch(more)
    BY <1>5
  <2>1. CASE BatchIsOver(more)
    BY <2>1 DEF BatchIsOver, LetGo
  <2>2. CASE BatchIsRequeued(more)
    <3>1. \A i \in 1 .. Len(wake) : wake[i] # heldKey
      BY <2>2 DEF BatchIsRequeued, MayRequeue
    <3>2. /\ pending' = [pending EXCEPT ![heldKey] = heldCid] /\ heldCid # NoCid
          /\ UNCHANGED <<wake, heldKey>>
      BY <2>2 DEF BatchIsRequeued
    <3> QED BY <3>1, <3>2
  <2> QED BY <2>1, <2>2 DEF EndBatch
<1>6. CASE WorkerEnds
  BY <1>6 DEF WorkerEnds
<1>7. CASE UNCHANGED schedVars
  BY <1>7 DEF schedVars
<1> QED
  BY <1>1, <1>2, <1>3, <1>4, <1>5, <1>6, <1>7 DEF SchedNext, WorkerStep

\* At most one token per key, never one without a pending entry: the worker
\* never runs a batch twice for one request and its `continue` is dead code.
THEOREM TokensCorrect == SchedSpec => []TokensMatchPending
<1>1. SchedInit => TokensMatchPending
  BY Constants DEF ConstantsOK, SchedInit, TokensMatchPending, HeldForLookup
<1> QED BY <1>1, TypeCorrect, TokensStep, PTL DEF SchedSpec

-----------------------------------------------------------------------------

\* NewestWins is not inductive: it must also say that a request the worker
\* could put back (its entry is vacant) is still the newest of its key.
PutBackIsNewest == pc = "cleaning" /\ ~Occupied(heldKey) => heldCid = newest[heldKey]

NewestInv == NewestWins /\ PutBackIsNewest

\* No step makes the map, or what may return to it, older than the newest
\* accepted request.
LEMMA NewestStep == TypeOK /\ NewestInv /\ [SchedNext]_schedVars => NewestInv'
<1> SUFFICES ASSUME TypeOK, NewestInv, [SchedNext]_schedVars PROVE NewestInv'
  OBVIOUS
<1> USE Constants DEF ConstantsOK, TypeOK, WorkerPoints, NewestInv, NewestWins,
                      PutBackIsNewest, Occupied
<1>1. CASE \E k \in Keys, c \in Cids : Schedule(k, c)
  BY <1>1 DEF Schedule, Replace, Enqueue, Refuse, Accepted
<1>2. CASE Receive
  BY <1>2 DEF Receive
<1>3. CASE Take
  BY <1>3 DEF Take
<1>4. CASE Resend
  BY <1>4 DEF Resend, LetGo
<1>5. CASE \E more \in BOOLEAN : EndBatch(more)
  BY <1>5 DEF EndBatch, BatchIsOver, BatchIsRequeued, MayRequeue, LetGo
<1>6. CASE WorkerEnds
  BY <1>6 DEF WorkerEnds
<1>7. CASE UNCHANGED schedVars
  BY <1>7 DEF schedVars
<1> QED
  BY <1>1, <1>2, <1>3, <1>4, <1>5, <1>6, <1>7 DEF SchedNext, WorkerStep

\* A pending request is always the newest accepted one of its key, however
\* schedule() interleaves with a batch that is put back.
THEOREM NewestCorrect == SchedSpec => []NewestWins
<1>1. SchedInit => NewestInv
  BY DEF SchedInit, NewestInv, NewestWins, PutBackIsNewest, Occupied
<1>2. NewestInv => NewestWins
  BY DEF NewestInv
<1> QED BY <1>1, <1>2, TypeCorrect, NewestStep, PTL DEF SchedSpec

-----------------------------------------------------------------------------

\* Pigeonhole for the channel: distinct tokens that all differ from one key
\* are fewer than the keys.
LEMMA FewerTokensThanKeys ==
  ASSUME NEW s \in Seq(Keys), NEW k \in Keys,
         \A i, j \in 1 .. Len(s) : s[i] = s[j] => i = j,
         \A i \in 1 .. Len(s) : s[i] # k
  PROVE  Len(s) < Cardinality(Keys)
<1> DEFINE D == 1 .. Len(s)
           R == Keys \ {k}
<1>1. IsFiniteSet(R) /\ Cardinality(R) = Cardinality(Keys) - 1
  BY Constants, FS_RemoveElement
<1>2. s \in [D -> R]
  OBVIOUS
<1>3. s \in Injection(D, R)
  BY <1>2 DEF Injection, IsInjective
<1>4. Cardinality(D) <= Cardinality(R)
  BY <1>1, <1>3, FS_Injection
<1>5. Cardinality(D) = Len(s)
  <2>1. Len(s) \in Nat
    OBVIOUS
  <2>2. Cardinality(1 .. Len(s)) = IF 1 > Len(s) THEN 0 ELSE Len(s) - 1 + 1
    BY <2>1, FS_Interval
  <2> QED BY <2>1, <2>2
<1>6. Cardinality(Keys) \in Nat
  BY Constants, FS_CardinalityType
<1> QED BY <1>1, <1>4, <1>5, <1>6

\* Taking the first token moves the wake-up of its key into the worker and
\* leaves every other key its token; sending adds one.
LEMMA QueuedAfterReceive ==
  ASSUME TypeOK, Receive, NEW k \in Keys, Queued(k)
  PROVE  Queued(k)' \/ heldKey' = k
<1>1. PICK i \in 1 .. Len(wake) : wake[i] = k
  BY DEF Queued
<1>2. /\ heldKey' = wake[1]
      /\ Len(wake') = Len(wake) - 1
      /\ \A j \in 1 .. Len(wake') : wake'[j] = wake[j + 1]
  BY TakeToken DEF Receive, TypeOK
<1>3. CASE i = 1
  BY <1>1, <1>2, <1>3
<1>4. CASE i # 1
  <2>1. Len(wake) \in Nat
    BY DEF TypeOK
  <2>2. i - 1 \in 1 .. Len(wake') /\ (i - 1) + 1 = i
    BY <1>2, <1>4, <2>1
  <2> QED BY <1>1, <1>2, <2>2 DEF Queued
<1> QED BY <1>3, <1>4

LEMMA QueuedAfterAppend ==
  ASSUME NEW k \in Keys, TypeOK, wake' = Append(wake, k)
  PROVE  Queued(k)' /\ \A j \in Keys : Queued(j) => Queued(j)'
<1>1. /\ Len(wake') = Len(wake) + 1 /\ wake'[Len(wake) + 1] = k
      /\ \A i \in 1 .. Len(wake) : wake'[i] = wake[i]
      /\ Len(wake) \in Nat
  BY AppendToken DEF TypeOK
<1> QED BY <1>1 DEF Queued

\* With room for all keys, no step strands a pending request.
LEMMA WakeupStep ==
  TypeOK /\ TokensMatchPending /\ NoLostWakeup /\ [SchedNext]_schedVars
    => NoLostWakeup'
<1> SUFFICES ASSUME TypeOK, TokensMatchPending, NoLostWakeup,
                    [SchedNext]_schedVars, RoomForAll, pc' # "ended",
                    NEW k \in Keys, Occupied(k)'
             PROVE  HasWakeup(k)'
  BY DEF NoLostWakeup, RoomForAll
<1>0. pc # "ended" => (Occupied(k) => HasWakeup(k))
  BY DEF NoLostWakeup
<1> USE Constants DEF ConstantsOK, TypeOK, WorkerPoints, HasWakeup, HeldForLookup
<1>1. CASE \E j \in Keys, c \in Cids : Schedule(j, c)
  <2> PICK j \in Keys, c \in Cids : Schedule(j, c)
    BY <1>1
  <2>1. CASE Replace(j, c)
    BY <1>0, <2>1 DEF Replace, Accepted, Occupied, Queued
  <2>2. CASE Enqueue(j, c)
    <3>1. Queued(j)' /\ (Queued(k) => Queued(k)')
      BY <2>2, QueuedAfterAppend DEF Enqueue
    <3>2. pc' = pc /\ heldKey' = heldKey
      BY <2>2 DEF Enqueue
    <3>3. k # j => Occupied(k)
      BY <2>2 DEF Enqueue, Accepted, Occupied
    <3> QED BY <1>0, <3>1, <3>2, <3>3
  <2>3. CASE Refuse(j, c)
    BY <1>0, <2>3 DEF Refuse, Occupied, Queued
  <2> QED BY <2>1, <2>2, <2>3 DEF Schedule
<1>2. CASE Receive
  <2>1. pc = "receiving" /\ pc' = "received" /\ Occupied(k)
    BY <1>2 DEF Receive, Occupied
  <2>2. Queued(k)
    BY <1>0, <2>1
  <2> QED BY <1>2, <2>1, <2>2, QueuedAfterReceive
<1>3. CASE Take
  <2>1. Occupied(k) /\ k # heldKey
    BY <1>3 DEF Take, Occupied
  <2>2. Queued(k)
    BY <1>0, <1>3, <2>1 DEF Take
  <2> QED BY <1>3, <2>2 DEF Take, Queued
<1>4. CASE Resend
  <2>1. pc = "yielding" /\ heldKey \in Keys /\ pending' = pending
    BY <1>4 DEF Resend
  <2>2. \A i \in 1 .. Len(wake) : wake[i] # heldKey
    BY <2>1 DEF TokensMatchPending
  <2>3. Len(wake) < Cardinality(Keys)
    BY <2>1, <2>2, FewerTokensThanKeys DEF TokensMatchPending
  <2>4. HasRoom
    <3>1. Cardinality(Keys) \in Nat /\ Len(wake) \in Nat
      BY FS_CardinalityType
    <3> QED BY <2>1, <2>3, <3>1 DEF HasRoom, RoomForAll
  <2>5. k = heldKey \/ Queued(k) => Queued(k)'
    <3>1. PICK h \in Keys : h = heldKey
      BY <2>1
    <3>2. wake' = Append(wake, h)
      BY <1>4, <2>4, <3>1 DEF Resend
    <3> QED BY <3>1, <3>2, QueuedAfterAppend
  <2> QED BY <1>0, <2>1, <2>5 DEF Occupied
<1>5. CASE \E more \in BOOLEAN : EndBatch(more)
  <2> PICK more \in BOOLEAN : EndBatch(more)
    BY <1>5
  <2>1. CASE BatchIsOver(more)
    BY <1>0, <2>1 DEF BatchIsOver, LetGo, Occupied, Queued
  <2>2. CASE BatchIsRequeued(more)
    <3>1. pc = "cleaning" /\ pc' = "yielding" /\ heldKey' = heldKey /\ wake' = wake
      BY <2>2 DEF BatchIsRequeued
    <3>2. k # heldKey => Occupied(k)
      BY <2>2 DEF BatchIsRequeued, Occupied
    <3> QED BY <1>0, <3>1, <3>2 DEF Queued
  <2> QED BY <2>1, <2>2 DEF EndBatch
<1>6. CASE WorkerEnds
  BY <1>6 DEF WorkerEnds
<1>7. CASE UNCHANGED schedVars
  BY <1>0, <1>7 DEF schedVars, Occupied, Queued
<1> QED
  BY <1>1, <1>2, <1>3, <1>4, <1>5, <1>6, <1>7 DEF SchedNext, WorkerStep

\* If the channel can hold a token of every key, no accepted request is ever
\* left without a wake-up.  The premise cannot be dropped: a run with a
\* smaller channel violates AcceptedHasWakeup.
THEOREM WakeupCorrect == SchedSpec => []NoLostWakeup
<1>1. SchedInit => NoLostWakeup
  BY DEF SchedInit, NoLostWakeup, Occupied
<1> QED BY <1>1, TypeCorrect, TokensCorrect, WakeupStep, PTL DEF SchedSpec

-----------------------------------------------------------------------------

\* Every step of the scheduler is a step of the mailbox, or changes nothing
\* of it.
LEMMA MailboxStep ==
  TypeOK /\ [SchedNext]_schedVars => [Mailbox!Next]_Mailbox!vars
<1> SUFFICES ASSUME TypeOK, [SchedNext]_schedVars
             PROVE  [Mailbox!Next]_Mailbox!vars
  OBVIOUS
<1> USE Constants DEF ConstantsOK, TypeOK, WorkerPoints, Mailbox!Next, Mailbox!vars
<1>1. CASE \E k \in Keys, c \in Cids : Schedule(k, c)
  <2> PICK k \in Keys, c \in Cids : Schedule(k, c)
    BY <1>1
  <2>1. CASE Replace(k, c) \/ Enqueue(k, c)
    <3>1. Mailbox!Post(k, c)
      BY <2>1 DEF Replace, Enqueue, Accepted, Mailbox!Post
    <3> QED BY <3>1
  <2>2. CASE Refuse(k, c)
    BY <2>2 DEF Refuse
  <2> QED BY <2>1, <2>2 DEF Schedule
<1>2. CASE Receive
  BY <1>2 DEF Receive
<1>3. CASE Take
  <2>1. CASE Occupied(heldKey)
    <3>1. Mailbox!TakeOut(heldKey)
      BY <1>3, <2>1 DEF Take, Occupied, Mailbox!TakeOut
    <3> QED BY <1>3, <3>1 DEF Take
  <2>2. CASE ~Occupied(heldKey)
    BY <1>3, <2>2 DEF Take, Occupied
  <2> QED BY <2>1, <2>2
<1>4. CASE Resend
  BY <1>4 DEF Resend, LetGo
<1>5. CASE \E more \in BOOLEAN : EndBatch(more)
  <2> PICK more \in BOOLEAN : EndBatch(more)
    BY <1>5
  <2>1. CASE BatchIsOver(more)
    <3>1. Mailbox!Discard
      BY <2>1 DEF BatchIsOver, LetGo, Mailbox!Discard
    <3> QED BY <3>1
  <2>2. CASE BatchIsRequeued(more)
    <3>1. Mailbox!PutBack(heldKey, heldCid)
      BY <2>2 DEF BatchIsRequeued, MayRequeue, Occupied, Mailbox!PutBack
    <3>2. heldKey \in Keys /\ heldCid \in Cids
      BY <2>2 DEF BatchIsRequeued
    <3> QED BY <3>1, <3>2
  <2> QED BY <2>1, <2>2 DEF EndBatch
<1>6. CASE WorkerEnds
  <2>1. Mailbox!Close
    BY <1>6 DEF WorkerEnds, Mailbox!Close
  <2> QED BY <2>1
<1>7. CASE UNCHANGED schedVars
  BY <1>7 DEF schedVars
<1> QED
  BY <1>1, <1>2, <1>3, <1>4, <1>5, <1>6, <1>7 DEF SchedNext, WorkerStep

\* The scheduler implements the mailbox: the newest request of a key wins,
\* and an unfinished batch goes back only into an empty slot.
THEOREM MailboxCorrect == SchedSpec => ImplementsMailbox
<1>1. SchedInit => Mailbox!Init
  BY DEF SchedInit, Mailbox!Init
<1> QED
  BY <1>1, TypeCorrect, MailboxStep, PTL
  DEF SchedSpec, ImplementsMailbox, Mailbox!SafeSpec

-----------------------------------------------------------------------------
(* Publications, and how they use the scheduler.                           *)

\* What a publication has when it gets somewhere: what was asked for and its
\* CID; and a "replace" schedules a cleanup only when it is replicated.
PubInv ==
  \A p \in Pubs :
    /\ pubPc[p] = "idle" => ~replicated[p]
    /\ pubPc[p] # "idle" => cid[p] \in Cids /\ job[p] \in setting.jobs
    /\ pubPc[p] \in {"pin", "name"} => job[p].kind = "document"
    /\ pubPc[p] = "replicate" => job[p].remote \/ job[p].kind = "replace"
    /\ replicated[p] => job[p].remote \/ job[p].kind = "replace"
    /\ pubPc[p] = "schedule" /\ job[p].kind = "replace" => replicated[p]

LEMMA SettingTypes ==
  ASSUME NEW s \in Settings
  PROVE  /\ s.jobs \subseteq AllJobs /\ s.jobs # {}
         /\ s.pacing \in Paces
BY Environment DEF AllSettings

LEMMA KeyIsKnown ==
  ASSUME PassTypeOK, PubInv, NEW p \in Pubs, pubPc[p] = "schedule", job[p].overwrite
  PROVE  KeyOf(p) \in Keys /\ cid[p] \in Cids
<1>1. job[p] \in setting.jobs /\ setting \in Settings /\ cid[p] \in Cids /\ replicated[p] \in BOOLEAN
  BY DEF PassTypeOK, PubInv
<1>2. job[p] \in AllJobs
  BY DEF PassTypeOK
<1>3. KeyOf(p) \in KeysOfJob(job[p])
  BY <1>1, <1>2 DEF KeyOf, KeysOfJob, CleanupKeys, PubInv, AllJobs
<1> QED  BY <1>1, <1>3, KeysSuffice

\* The process starts anew with an empty scheduler.
SchedRestarts ==
  /\ pending' = [k \in Keys |-> NoCid]
  /\ newest' = [k \in Keys |-> NoCid]
  /\ wake' = <<>> /\ pc' = "receiving" /\ reply' = TRUE
  /\ heldKey' = NoKey /\ heldCid' = NoCid

\* To the scheduler every step is one of its own, or a restart.
LEMMA SchedulerStep ==
  ASSUME PassTypeOK, PubInv, [Next]_vars
  PROVE  [SchedNext]_schedVars \/ (setting.crashes /\ SchedRestarts)
<1>1. CASE LoopStep
  BY <1>1 DEF LoopStep, SchedNext, WorkerStep
<1>2. CASE BeginBatch
  BY <1>2 DEF BeginBatch, SchedNext, WorkerStep
<1>3. CASE PassStep
  BY <1>3 DEF PassStep, ListFinal, ListTemp, Remove, Rename, RListFinal, RListTemp, RRemove,
              RDropTemp, RAddFinal
<1>4. CASE FinishBatch
  <2>1. localMore \/ removedAny \in BOOLEAN
    BY DEF PassTypeOK
  <2>2. EndBatch(localMore \/ removedAny)
    BY <1>4 DEF FinishBatch
  <2>3. \E more \in BOOLEAN : EndBatch(more)
    BY <2>1, <2>2
  <2> QED  BY <2>3 DEF SchedNext, WorkerStep
<1>5. ASSUME NEW p \in Pubs, PubStep(p) PROVE [SchedNext]_schedVars
  <2>1. CASE ScheduleCleanup(p) /\ job[p].overwrite
    <3>1. Schedule(KeyOf(p), cid[p])
      BY <2>1 DEF ScheduleCleanup
    <3>2. KeyOf(p) \in Keys /\ cid[p] \in Cids
      BY <2>1, KeyIsKnown DEF ScheduleCleanup
    <3> QED  BY <3>1, <3>2 DEF SchedNext
  <2>2. CASE ScheduleCleanup(p) /\ ~job[p].overwrite
    BY <2>2 DEF ScheduleCleanup
  <2>3. CASE ~ScheduleCleanup(p)
    BY <1>5, <2>3 DEF PubStep, Start, PinFresh, NamePublish, Replicate
  <2> QED  BY <2>1, <2>2, <2>3
<1>6. CASE Crash
  BY <1>6 DEF Crash, SchedRestarts
<1>7. CASE UNCHANGED vars
  BY <1>7 DEF vars
<1> QED  BY <1>1, <1>2, <1>3, <1>4, <1>5, <1>6, <1>7 DEF Next, CleanupStep

LEMMA SchedTypeStep ==
  ASSUME PassTypeOK, PubInv, [Next]_vars
  PROVE  TypeOK'
<1>1. CASE SchedRestarts
  BY <1>1, Constants DEF SchedRestarts, TypeOK, ConstantsOK, WorkerPoints
<1> QED  BY <1>1, SchedulerStep, TypeStep DEF PassTypeOK

-----------------------------------------------------------------------------
(* Types.                                                                  *)

\* The types of what the publications and the servers keep.
PubTypeOK ==
  /\ localPins \in [Cids -> PinNames \cup {"none"}]
  /\ remotePins \subseteq Cids \X PinNames
  /\ ipns \in Cids \cup {NoCid}
  /\ pubPc \in [Pubs -> PubPoints]
  /\ job \in [Pubs -> AllJobs]
  /\ cid \in [Pubs -> Cids \cup {NoCid}]
  /\ replicated \in [Pubs -> BOOLEAN]
  /\ setting \in Settings

\* The types of the locals of a batch.
BatchTypeOK ==
  /\ step \in Steps
  /\ finals \subseteq Cids /\ temps \subseteq Cids
  /\ todo \subseteq Cids \X PinNames
  /\ removedAny \in BOOLEAN /\ localMore \in BOOLEAN
  /\ step # "none" <=> pc = "cleaning"
  /\ todo # {} <=> step \in {"remove", "rRemove"}

LEMMA TypesAreParts == PassTypeOK <=> TypeOK /\ PubTypeOK /\ BatchTypeOK
BY DEF PassTypeOK, PubTypeOK, BatchTypeOK

LEMMA PinnedType ==
  ASSUME NEW c \in Cids, NEW n \in PinNames, localPins \in [Cids -> PinNames \cup {"none"}]
  PROVE  /\ Pinned(c, n) \in [Cids -> PinNames \cup {"none"}]
         /\ Pinned(c, n)[c] = n
         /\ \A d \in Cids \ {c} : Pinned(c, n)[d] = localPins[d]
BY DEF Pinned

LEMMA UnpinnedType ==
  ASSUME NEW c \in Cids, localPins \in [Cids -> PinNames \cup {"none"}]
  PROVE  /\ Unpinned(c) \in [Cids -> PinNames \cup {"none"}]
         /\ \A d \in Cids \ {c} : Unpinned(c)[d] = localPins[d]
BY DEF Unpinned

\* Publications keep the types, and what they have where they are.
LEMMA PubStepType ==
  ASSUME PassTypeOK, PubInv, NEW p \in Pubs, PubStep(p), UNCHANGED setting
  PROVE  PubTypeOK' /\ PubInv'
<1> USE DEF PubTypeOK, PubInv, PassTypeOK, kuboVars, PubPoints, Goto
<1>1. CASE Start(p)
  <2>1. PICK j \in setting.jobs, c \in Cids :
          /\ job' = [job EXCEPT ![p] = j]
          /\ cid' = [cid EXCEPT ![p] = c]
          /\ pubPc' = [pubPc EXCEPT ![p] = IF j.kind = "document" THEN "pin" ELSE "replicate"]
    BY <1>1 DEF Start
  <2>2. j \in AllJobs /\ j.kind \in {"document", "replace"}
    BY SettingTypes DEF AllJobs
  <2>3. UNCHANGED <<localPins, remotePins, ipns, replicated>> /\ pubPc[p] = "idle"
    BY <1>1 DEF Start
  <2>4. PubTypeOK'
    BY <2>1, <2>2, <2>3
  <2>5. PubInv'
    BY <2>1, <2>2, <2>3
  <2> QED  BY <2>4, <2>5
<1>2. CASE PinFresh(p)
  <2>1. AddName(p) \in PinNames /\ cid[p] \in Cids
    BY <1>2 DEF PinFresh, AddName, PinNames
  <2>2. localPins' \in {Pinned(cid[p], AddName(p)), localPins}
    BY <1>2 DEF PinFresh, Fails
  <2>3. localPins' \in [Cids -> PinNames \cup {"none"}]
    BY <2>1, <2>2, PinnedType
  <2>4. pubPc' \in {[pubPc EXCEPT ![p] = "name"], [pubPc EXCEPT ![p] = "failed"]}
        /\ pubPc[p] = "pin" /\ UNCHANGED <<remotePins, ipns, job, cid, replicated>>
    BY <1>2 DEF PinFresh
  <2> QED  BY <2>3, <2>4
<1>3. CASE NamePublish(p)
  <2>1. cid[p] \in Cids /\ job[p].kind = "document"
    BY <1>3 DEF NamePublish
  <2>2. ipns' \in {cid[p], ipns} /\ UNCHANGED <<localPins, remotePins, job, cid, replicated>>
    BY <1>3 DEF NamePublish, Fails
  <2>3. \/ pubPc' = [pubPc EXCEPT ![p] = "replicate"] /\ job[p].remote
        \/ pubPc' = [pubPc EXCEPT ![p] = "schedule"]
        \/ pubPc' = [pubPc EXCEPT ![p] = "failed"]
    BY <1>3 DEF NamePublish
  <2>4. PubTypeOK'
    BY <2>1, <2>2, <2>3
  <2>5. PubInv'
    BY <1>3, <2>1, <2>2, <2>3 DEF NamePublish
  <2> QED  BY <2>4, <2>5
<1>4. CASE Replicate(p)
  <2>1. cid[p] \in Cids /\ (job[p].remote \/ job[p].kind = "replace")
    BY <1>4 DEF Replicate
  <2>2. remotePins' \subseteq Cids \X PinNames
    <3>1. <<cid[p], "final">> \in Cids \X PinNames
      BY <2>1 DEF PinNames
    <3>2. remotePins' \in {remotePins \cup {<<cid[p], "final">>}, remotePins}
      BY <1>4 DEF Replicate, RemoteAdded, Fails
    <3> QED  BY <3>1, <3>2
  <2>3. UNCHANGED <<localPins, ipns, job, cid>> /\ pubPc[p] = "replicate"
    BY <1>4 DEF Replicate
  <2>4. \/ replicated' = [replicated EXCEPT ![p] = TRUE]
           /\ pubPc' = [pubPc EXCEPT ![p] = "schedule"]
        \/ UNCHANGED replicated /\ job[p].kind = "document"
           /\ pubPc' = [pubPc EXCEPT ![p] = "schedule"]
        \/ UNCHANGED replicated /\ pubPc' = [pubPc EXCEPT ![p] = "failed"]
    BY <1>4 DEF Replicate
  <2>5. PubTypeOK'
    BY <2>2, <2>3, <2>4
  <2>6. PubInv'
    BY <2>1, <2>3, <2>4
  <2> QED  BY <2>5, <2>6
<1>5. CASE ScheduleCleanup(p)
  BY <1>5 DEF ScheduleCleanup
<1> QED  BY <1>1, <1>2, <1>3, <1>4, <1>5 DEF PubStep

-----------------------------------------------------------------------------
(* Batches.                                                                *)

LocalSteps == {"listFinal", "listTemp", "remove", "rename"}

\* What a batch is about to remove is not its protected CID, and it touches
\* Kubo's pins only if its key says so.
BatchInv ==
  /\ \A pin \in todo : pin[1] # heldCid
  /\ step \in LocalSteps => heldKey.local

LEMMA StaleTypes ==
  ASSUME NEW F \in SUBSET Cids, NEW T \in SUBSET Cids
  PROVE  /\ StalePins(ListedPins(F, T)) \subseteq Cids \X PinNames
         /\ \A pin \in StalePins(ListedPins(F, T)) : pin[1] # heldCid
BY DEF StalePins, ListedPins, PinNames

LEMMA LocalNamedType ==
  ASSUME NEW n
  PROVE  LocalNamed(n) \in SUBSET Cids /\ RemoteNamed(n) \in SUBSET Cids
BY DEF LocalNamed, RemoteNamed

\* The end of a local pass, wherever it comes.
LEMMA LocalPassReturnsType ==
  ASSUME NEW more \in BOOLEAN, LocalPassReturns(more), UNCHANGED <<schedVars, pubVars, setting>>,
         pc = "cleaning"
  PROVE  BatchTypeOK' /\ BatchInv'
BY DEF LocalPassReturns, EmptyPass, RemotePassOrEnd, BatchTypeOK, BatchInv, LocalSteps, Steps,
       schedVars

LEMMA LocalPassType ==
  ASSUME PassTypeOK, BatchInv, ListFinal \/ ListTemp \/ Remove \/ Rename, UNCHANGED setting
  PROVE  /\ BatchTypeOK' /\ BatchInv'
         /\ localPins' \in [Cids -> PinNames \cup {"none"}]
         /\ UNCHANGED <<schedVars, remotePins, ipns, pubVars>>
         /\ pc = "cleaning" /\ heldKey.local /\ heldCid \in Cids
         /\ localPins[heldCid] # "none" => localPins'[heldCid] # "none"
<1> USE DEF PassTypeOK
<1>1. /\ pc = "cleaning" /\ heldKey.local
      /\ UNCHANGED <<schedVars, remotePins, ipns, pubVars>>
  BY DEF ListFinal, ListTemp, Remove, Rename, BatchInv, LocalSteps, kuboVars
<1>2. heldCid \in Cids
  BY <1>1 DEF TypeOK
<1>3. CASE ListFinal
  <2>1. UNCHANGED localPins
    BY <1>3 DEF ListFinal, kuboVars
  <2>2. CASE LocalPassReturns(FALSE)
    BY <1>1, <1>2, <2>1, <2>2, LocalPassReturnsType
  <2>3. CASE /\ finals' = LocalNamed("final") /\ step' = "listTemp"
             /\ UNCHANGED <<temps, todo, removedAny, localMore>>
    <3>1. BatchTypeOK'
      BY <1>1, <1>3, <2>3, LocalNamedType DEF ListFinal, BatchTypeOK, Steps, schedVars
    <3>2. BatchInv'
      BY <1>1, <2>3 DEF BatchInv, LocalSteps, schedVars
    <3> QED  BY <1>1, <1>2, <2>1, <3>1, <3>2
  <2> QED  BY <1>3, <2>2, <2>3 DEF ListFinal
<1>4. CASE ListTemp
  <2> DEFINE stale == StalePins(ListedPins(finals, LocalNamed("temp")))
  <2>1. UNCHANGED localPins /\ step = "listTemp"
    BY <1>4 DEF ListTemp, kuboVars
  <2>2. CASE LocalPassReturns(FALSE)
    BY <1>1, <1>2, <2>1, <2>2, LocalPassReturnsType
  <2>3. CASE /\ stale # {} /\ todo' = stale /\ step' = "remove"
             /\ UNCHANGED <<finals, temps, removedAny, localMore>>
    <3>1. stale \subseteq Cids \X PinNames /\ \A pin \in stale : pin[1] # heldCid
      BY LocalNamedType, StaleTypes
    <3>2. BatchTypeOK'
      BY <1>1, <2>3, <3>1 DEF BatchTypeOK, Steps, schedVars
    <3>3. BatchInv'
      BY <1>1, <2>3, <3>1 DEF BatchInv, LocalSteps, schedVars
    <3> QED  BY <1>1, <1>2, <2>1, <3>2, <3>3
  <2>4. CASE step' = "rename" /\ UNCHANGED <<finals, temps, todo, removedAny, localMore>>
    <3>1. BatchTypeOK' /\ BatchInv'
      BY <1>1, <2>1, <2>4 DEF BatchTypeOK, BatchInv, LocalSteps, Steps, schedVars
    <3> QED  BY <1>1, <1>2, <2>1, <3>1
  <2> QED  BY <1>4, <2>2, <2>3, <2>4 DEF ListTemp
<1>5. CASE Remove
  <2>1. PICK pin \in todo, ok \in BOOLEAN :
          /\ localPins' \in {Unpinned(pin[1]), localPins}
          /\ IF todo = {pin}
             THEN LocalPassReturns(Progress(ok))
             ELSE /\ todo' = todo \ {pin}
                  /\ removedAny' = Progress(ok)
                  /\ UNCHANGED <<step, finals, temps, localMore>>
    BY <1>5 DEF Remove, Fails
  <2>2. pin[1] \in Cids /\ pin[1] # heldCid
    BY <2>1 DEF BatchInv
  <2>3. /\ localPins' \in [Cids -> PinNames \cup {"none"}]
        /\ localPins'[heldCid] = localPins[heldCid]
    BY <1>2, <2>1, <2>2, UnpinnedType
  <2>4. Progress(ok) \in BOOLEAN /\ step = "remove"
    BY <1>5 DEF Remove, Progress
  <2>5. CASE todo = {pin}
    BY <1>1, <1>2, <2>1, <2>3, <2>4, <2>5, LocalPassReturnsType
  <2>6. CASE todo # {pin}
    <3>1. BatchTypeOK' /\ BatchInv'
      BY <1>1, <2>1, <2>4, <2>6 DEF BatchTypeOK, BatchInv, LocalSteps, Steps, schedVars
    <3> QED  BY <1>1, <1>2, <2>3, <3>1
  <2> QED  BY <2>5, <2>6
<1>6. CASE Rename
  <2>1. localPins' \in {Pinned(heldCid, "final"), localPins} /\ LocalPassReturns(FALSE)
    BY <1>6 DEF Rename, Fails
  <2>2. /\ localPins' \in [Cids -> PinNames \cup {"none"}]
        /\ localPins'[heldCid] \in {"final", localPins[heldCid]}
    BY <1>2, <2>1, PinnedType DEF PinNames
  <2> QED  BY <1>1, <1>2, <2>1, <2>2, LocalPassReturnsType
<1> QED  BY <1>3, <1>4, <1>5, <1>6

LEMMA RemotePassType ==
  ASSUME PassTypeOK, BatchInv, RListFinal \/ RListTemp \/ RRemove \/ RDropTemp \/ RAddFinal,
         UNCHANGED setting
  PROVE  /\ BatchTypeOK' /\ BatchInv'
         /\ remotePins' \subseteq Cids \X PinNames
         /\ UNCHANGED <<schedVars, localPins, ipns, pubVars>>
         /\ pc = "cleaning" /\ heldCid \in Cids
         /\ <<heldCid, "final">> \in remotePins => <<heldCid, "final">> \in remotePins'
<1> USE DEF PassTypeOK
<1>1. /\ pc = "cleaning"
      /\ UNCHANGED <<schedVars, localPins, ipns, pubVars>>
  BY DEF RListFinal, RListTemp, RRemove, RDropTemp, RAddFinal, kuboVars
<1>2. heldCid \in Cids
  BY <1>1 DEF TypeOK
<1>3. CASE RListFinal
  BY <1>1, <1>2, <1>3, LocalNamedType
  DEF RListFinal, kuboVars, BatchTypeOK, BatchInv, Steps, LocalSteps, schedVars
<1>4. CASE RListTemp
  <2>1. UNCHANGED <<remotePins, finals, removedAny, localMore>>
    BY <1>4 DEF RListTemp, kuboVars
  <2>2. CASE step' = "end" /\ UNCHANGED <<temps, todo>>
    BY <1>1, <1>2, <1>4, <2>1, <2>2 DEF RListTemp, BatchTypeOK, BatchInv, Steps, LocalSteps, schedVars
  <2>3. CASE /\ temps' = RemoteNamed("temp")
             /\ todo' = StalePins(ListedPins(finals, temps'))
             /\ step' = IF todo' # {} THEN "rRemove"
                        ELSE IF heldCid \in temps' THEN "rDropTemp" ELSE "end"
    <3>1. temps' \in SUBSET Cids
      BY <2>3, LocalNamedType
    <3>2. todo' \subseteq Cids \X PinNames /\ \A pin \in todo' : pin[1] # heldCid
      BY <2>3, <3>1, LocalNamedType, StaleTypes
    <3> QED
      BY <1>1, <1>2, <2>1, <2>3, <3>1, <3>2 DEF BatchTypeOK, BatchInv, Steps, LocalSteps, schedVars
  <2> QED  BY <1>4, <2>2, <2>3 DEF RListTemp
<1>5. CASE RRemove
  <2>1. PICK pin \in todo, ok \in BOOLEAN :
          /\ remotePins' \in {RemoteRemoved(pin[1], pin[2]), remotePins}
          /\ todo' = todo \ {pin}
          /\ removedAny' = Progress(ok)
          /\ step' = IF todo' = {} THEN "end" ELSE "rRemove"
    BY <1>5 DEF RRemove, Fails
  <2>2. pin[1] # heldCid
    BY <2>1 DEF BatchInv
  <2>3. /\ remotePins' \subseteq Cids \X PinNames
        /\ <<heldCid, "final">> \in remotePins => <<heldCid, "final">> \in remotePins'
    BY <2>1, <2>2 DEF RemoteRemoved
  <2>4. Progress(ok) \in BOOLEAN /\ UNCHANGED <<finals, temps, localMore>>
    BY <1>5 DEF RRemove, Progress
  <2> QED  BY <1>1, <1>2, <2>1, <2>3, <2>4 DEF BatchTypeOK, BatchInv, Steps, LocalSteps, schedVars
<1>6. CASE RDropTemp
  <2>1. remotePins' \in {RemoteRemoved(heldCid, "temp"), remotePins}
        /\ step' \in {"end", "rAddFinal"} /\ step = "rDropTemp"
        /\ UNCHANGED <<finals, temps, todo, removedAny, localMore>>
    BY <1>6 DEF RDropTemp, Fails
  <2> QED
    BY <1>1, <1>2, <2>1 DEF RemoteRemoved, BatchTypeOK, BatchInv, Steps, LocalSteps, schedVars
<1>7. CASE RAddFinal
  <2>1. /\ remotePins' \in {remotePins \cup {<<heldCid, "final">>}, remotePins}
        /\ step' = "end" /\ step = "rAddFinal"
        /\ UNCHANGED <<finals, temps, todo, removedAny, localMore>>
    BY <1>7 DEF RAddFinal, RemoteAdded, Fails
  <2> QED
    BY <1>1, <1>2, <2>1 DEF PinNames, BatchTypeOK, BatchInv, Steps, LocalSteps, schedVars
<1> QED  BY <1>3, <1>4, <1>5, <1>6, <1>7

\* The steps of the worker between batches.
LEMMA LoopType ==
  ASSUME PassTypeOK, BatchInv, LoopStep \/ BeginBatch \/ FinishBatch, UNCHANGED setting
  PROVE  BatchTypeOK' /\ BatchInv' /\ UNCHANGED <<kuboVars, pubVars>>
<1> USE DEF PassTypeOK
<1>1. CASE LoopStep
  <2>1. pc \in {"receiving", "yielding"} /\ pc' \in {"received", "receiving"} /\ UNCHANGED passVars
    BY <1>1 DEF LoopStep, Receive, Resend, LetGo
  <2> QED  BY <1>1, <2>1 DEF LoopStep, BatchTypeOK, BatchInv, LocalSteps, passVars
<1>2. CASE BeginBatch
  <2>1. IF Occupied(heldKey) THEN pc' = "cleaning" /\ UNCHANGED heldKey ELSE pc' = "receiving"
    BY <1>2 DEF BeginBatch, Take
  <2> QED
    BY <1>2, <2>1
    DEF BeginBatch, EmptyPass, RemotePassOrEnd, BatchTypeOK, BatchInv, Steps, LocalSteps
<1>3. CASE FinishBatch
  <2>1. pc' \in {"receiving", "yielding"}
    BY <1>3 DEF FinishBatch, EndBatch, BatchIsOver, BatchIsRequeued, LetGo
  <2> QED  BY <1>3, <2>1 DEF FinishBatch, EmptyPass, BatchTypeOK, BatchInv, Steps, LocalSteps
<1> QED  BY <1>1, <1>2, <1>3

CleanupInv == PassTypeOK /\ PubInv /\ BatchInv

LEMMA InitCleanupInv == Init => CleanupInv
<1> SUFFICES ASSUME Init PROVE CleanupInv
  OBVIOUS
<1>1. TypeOK
  BY Constants DEF Init, SchedInit, TypeOK, WorkerPoints, ConstantsOK
<1>2. setting \in Settings /\ (CHOOSE j \in setting.jobs : TRUE) \in AllJobs
  BY SettingTypes DEF Init
<1>3. PubTypeOK
  BY <1>2, Environment DEF Init, PubTypeOK, PubPoints
<1>4. BatchTypeOK
  BY DEF Init, BatchTypeOK, Steps, SchedInit
<1>5. PubInv /\ BatchInv
  BY DEF Init, PubInv, BatchInv, LocalSteps
<1> QED  BY <1>1, <1>3, <1>4, <1>5, TypesAreParts DEF CleanupInv

LEMMA NextCleanupInv == CleanupInv /\ [Next]_vars => CleanupInv'
<1> SUFFICES ASSUME CleanupInv, [Next]_vars PROVE CleanupInv'
  OBVIOUS
<1> USE DEF CleanupInv
<1>1. TypeOK'
  BY SchedTypeStep
<1> SUFFICES PubTypeOK' /\ BatchTypeOK' /\ PubInv' /\ BatchInv'
  BY <1>1 DEF PassTypeOK, PubTypeOK, BatchTypeOK
<1>2. PubTypeOK /\ BatchTypeOK
  BY TypesAreParts
<1>3. CASE (LoopStep \/ BeginBatch \/ FinishBatch) /\ UNCHANGED setting
  BY <1>2, <1>3, LoopType DEF PubTypeOK, PubInv, kuboVars, pubVars
<1>4. CASE (ListFinal \/ ListTemp \/ Remove \/ Rename) /\ UNCHANGED setting
  BY <1>2, <1>4, LocalPassType DEF PubTypeOK, PubInv, pubVars
<1>5. CASE (RListFinal \/ RListTemp \/ RRemove \/ RDropTemp \/ RAddFinal) /\ UNCHANGED setting
  BY <1>2, <1>5, RemotePassType DEF PubTypeOK, PubInv, pubVars
<1>6. ASSUME NEW p \in Pubs, PubStep(p), UNCHANGED setting
      PROVE  PubTypeOK' /\ BatchTypeOK' /\ PubInv' /\ BatchInv'
  <2>1. UNCHANGED <<passVars, pc, heldKey, heldCid>>
    BY <1>6 DEF PubStep, Start, PinFresh, NamePublish, Replicate, ScheduleCleanup, schedVars,
                Schedule, Replace, Enqueue, Refuse
  <2> QED  BY <1>2, <1>6, <2>1, PubStepType DEF BatchTypeOK, BatchInv, passVars
<1>7. CASE Crash /\ UNCHANGED setting
  <2>1. BatchTypeOK' /\ BatchInv'
    BY <1>7 DEF Crash, EmptyPass, BatchTypeOK, BatchInv, Steps, LocalSteps
  <2>2. /\ UNCHANGED <<kuboVars, job, cid, replicated>>
        /\ \A p \in Pubs : pubPc'[p] = pubPc[p] \/ (pubPc'[p] = "failed" /\ pubPc[p] # "idle")
        /\ pubPc' \in [Pubs -> PubPoints]
    BY <1>2, <1>7 DEF Crash, Running, PubTypeOK, PubPoints
  <2>3. PubTypeOK' /\ PubInv'
    BY <1>2, <1>7, <2>2 DEF PubTypeOK, PubInv, kuboVars
  <2> QED  BY <2>1, <2>3
<1>8. CASE UNCHANGED vars
  BY <1>2, <1>8 DEF vars, schedVars, kuboVars, pubVars, passVars, PubTypeOK, BatchTypeOK, PubInv, BatchInv
<1> QED
  BY <1>3, <1>4, <1>5, <1>6, <1>7, <1>8 DEF Next, CleanupStep, PassStep

LEMMA CleanupCorrect == Spec => []CleanupInv
<1> QED  BY InitCleanupInv, NextCleanupInv, PTL DEF Spec

\* The types of publications, servers and batches, with the scheduler inside
\* them, for any environment; and that a batch is under way exactly while the
\* worker is cleaning, with pins to remove exactly where it removes.
THEOREM CleanupTypeCorrect == Spec => []PassTypeOK
<1>1. CleanupInv => PassTypeOK
  BY DEF CleanupInv
<1> QED  BY <1>1, CleanupCorrect, PTL

\* No batch removes a pin of the CID it protects, whatever else fails,
\* overlaps or restarts; the remote migration writes its record anew.
THEOREM AlwaysProtects == Spec => ProtectedIsKept
<1>1. CleanupInv /\ [Next]_vars =>
        [pc = "cleaning" /\ CleanupStep =>
           /\ localPins[heldCid] # "none" => localPins'[heldCid] # "none"
           /\ <<heldCid, "final">> \in remotePins => <<heldCid, "final">> \in remotePins'
        ]_vars
  <2> SUFFICES ASSUME CleanupInv, pc = "cleaning", CleanupStep
               PROVE  /\ localPins[heldCid] # "none" => localPins'[heldCid] # "none"
                      /\ <<heldCid, "final">> \in remotePins => <<heldCid, "final">> \in remotePins'
    OBVIOUS
  <2>1. CASE LoopStep \/ BeginBatch \/ FinishBatch
    BY <2>1 DEF LoopStep, BeginBatch, FinishBatch, kuboVars
  <2>2. CASE ListFinal \/ ListTemp \/ Remove \/ Rename
    BY <2>2, LocalPassType DEF CleanupInv, CleanupStep
  <2>3. CASE RListFinal \/ RListTemp \/ RRemove \/ RDropTemp \/ RAddFinal
    BY <2>3, RemotePassType DEF CleanupInv, CleanupStep
  <2> QED  BY <2>1, <2>2, <2>3 DEF CleanupStep, PassStep
<1> QED  BY <1>1, CleanupCorrect, PTL DEF Spec, ProtectedIsKept

-----------------------------------------------------------------------------
(* The scheduler under publishers, batches and restarts.                   *)

SchedInv == TokensMatchPending /\ NewestInv /\ NoLostWakeup

LEMMA NextSchedInv ==
  CleanupInv /\ CleanupInv' /\ SchedInv /\ [Next]_vars => SchedInv'
<1> SUFFICES ASSUME CleanupInv, CleanupInv', SchedInv, [Next]_vars PROVE SchedInv'
  OBVIOUS
<1>1. TypeOK /\ TypeOK'
  BY DEF CleanupInv, PassTypeOK
<1>2. CASE [SchedNext]_schedVars
  BY <1>1, <1>2, TokensStep, NewestStep, WakeupStep DEF SchedInv
<1>3. CASE SchedRestarts
  <2>1. \A k \in Keys : pending'[k] = NoCid
    BY <1>3 DEF SchedRestarts
  <2>2. TokensMatchPending'
    BY <1>3, CapacityPositive DEF SchedRestarts, TokensMatchPending, HeldForLookup
  <2>3. NewestInv' /\ NoLostWakeup'
    BY <1>3, <2>1 DEF SchedRestarts, NewestInv, NewestWins, PutBackIsNewest, NoLostWakeup, Occupied
  <2> QED  BY <2>2, <2>3 DEF SchedInv
<1> QED  BY <1>2, <1>3, SchedulerStep DEF CleanupInv

LEMMA SchedCorrect == Spec => []SchedInv
<1>1. Init => SchedInv
  <2> SUFFICES ASSUME Init PROVE SchedInv
    OBVIOUS
  <2>1. TokensMatchPending
    BY CapacityPositive DEF Init, SchedInit, TokensMatchPending, HeldForLookup
  <2>2. NewestInv /\ NoLostWakeup
    BY DEF Init, SchedInit, NewestInv, NewestWins, PutBackIsNewest, NoLostWakeup, Occupied
  <2> QED  BY <2>1, <2>2 DEF SchedInv
<1> QED  BY <1>1, CleanupCorrect, NextSchedInv, PTL DEF Spec

\* With the real publishers and batches around it, and through restarts, the
\* scheduler keeps what it promises: the newest request of a key wins.
THEOREM CleanupNewestCorrect == Spec => []NewestWins
<1>1. SchedInv => NewestWins
  BY DEF SchedInv, NewestInv
<1> QED  BY <1>1, SchedCorrect, PTL

\* And with a place in the channel for every key it loses no wake-up.
THEOREM CleanupWakeupCorrect == Spec => []NoLostWakeup
<1>1. SchedInv => NoLostWakeup
  BY DEF SchedInv
<1> QED  BY <1>1, SchedCorrect, PTL

\* As long as its process lives, the scheduler implements the mailbox for
\* the real publishers too; a restart empties it, because it is not stored.
THEOREM CleanupMailboxCorrect == Spec /\ [](~setting.crashes) => ImplementsMailbox
<1>1. CleanupInv /\ ~setting.crashes /\ [Next]_vars => [Mailbox!Next]_Mailbox!vars
  BY SchedulerStep, MailboxStep DEF CleanupInv, PassTypeOK
<1>2. Init => Mailbox!Init
  BY DEF Init, SchedInit, Mailbox!Init
<1> QED  BY <1>1, <1>2, CleanupCorrect, PTL DEF Spec, ImplementsMailbox, Mailbox!SafeSpec

-----------------------------------------------------------------------------
(* The managed name.                                                       *)

Published(c) == \E p \in Pubs : cid[p] = c /\ pubPc[p] = "done"

\* A publication that is done stays so.
LEMMA PublishedStays ==
  ASSUME PassTypeOK, [Next]_vars, NEW c, Published(c)
  PROVE  Published(c)'
<1>1. PICK q \in Pubs : cid[q] = c /\ pubPc[q] = "done"
  BY DEF Published
<1>2. ASSUME NEW p \in Pubs, PubStep(p) PROVE cid'[q] = c /\ pubPc'[q] = "done"
  <2>1. pubPc[p] # "done"
    BY <1>2 DEF PubStep, Start, PinFresh, NamePublish, Replicate, ScheduleCleanup
  <2>2. /\ \A r \in Pubs \ {p} : cid'[r] = cid[r] /\ pubPc'[r] = pubPc[r]
    BY <1>2
    DEF PubStep, Start, PinFresh, NamePublish, Replicate, ScheduleCleanup, Goto, PassTypeOK
  <2> QED  BY <1>1, <2>1, <2>2
<1>3. CASE CleanupStep
  BY <1>1, <1>3
  DEF CleanupStep, LoopStep, BeginBatch, FinishBatch, PassStep, ListFinal, ListTemp, Remove,
      Rename, RListFinal, RListTemp, RRemove, RDropTemp, RAddFinal, pubVars, Published
<1>4. CASE Crash
  BY <1>1, <1>4 DEF Crash, Running, Published
<1>5. CASE UNCHANGED vars
  BY <1>1, <1>5 DEF vars, pubVars, Published
<1> QED  BY <1>2, <1>3, <1>4, <1>5 DEF Next, Published

\* The scheduler holds this CID: it is pending, or a batch is under way for it.
Holding(c) ==
  \/ \E k \in Keys : Occupied(k) /\ pending[k] = c
  \/ pc = "cleaning" /\ heldCid = c

\* The worker makes up no CID.
LEMMA WorkerInventsNothing ==
  ASSUME TypeOK, Receive \/ Take \/ Resend \/ (\E more \in BOOLEAN : EndBatch(more)),
         NEW c, Holding(c)'
  PROVE  Holding(c)
<1> USE DEF Holding, Occupied, TypeOK
<1>1. CASE Receive
  BY <1>1 DEF Receive
<1>2. CASE Take
  BY <1>2 DEF Take
<1>3. CASE Resend
  BY <1>3 DEF Resend, LetGo
<1>4. CASE \E more \in BOOLEAN : EndBatch(more)
  BY <1>4 DEF EndBatch, BatchIsOver, BatchIsRequeued, LetGo
<1> QED  BY <1>1, <1>2, <1>3, <1>4

LEMMA ScheduleAddsOne ==
  ASSUME TypeOK, NEW k \in Keys, NEW d \in Cids, Schedule(k, d), NEW c, Holding(c)'
  PROVE  Holding(c) \/ c = d
BY DEF Holding, Occupied, TypeOK, Schedule, Replace, Enqueue, Refuse, Accepted

\* Only CIDs of publications that are done are scheduled.
ConfirmInv == \A c \in Cids : Holding(c) => Published(c)

LEMMA NextConfirmInv == CleanupInv /\ ConfirmInv /\ [Next]_vars => ConfirmInv'
<1> SUFFICES ASSUME CleanupInv, ConfirmInv, [Next]_vars, NEW c \in Cids, Holding(c)'
             PROVE  Published(c)'
  BY DEF ConfirmInv
<1>1. CASE Holding(c)
  BY <1>1, PublishedStays DEF ConfirmInv, CleanupInv
<1>2. CASE ~Holding(c)
  <2>1. TypeOK /\ PassTypeOK
    BY DEF CleanupInv, PassTypeOK
  <2>2. ~(Receive \/ Take \/ Resend \/ (\E more \in BOOLEAN : EndBatch(more)))
    BY <1>2, <2>1, WorkerInventsNothing
  <2>3. ~(LoopStep \/ BeginBatch \/ FinishBatch)
    <3>1. localMore \/ removedAny \in BOOLEAN
      BY <2>1 DEF PassTypeOK
    <3>2. ~FinishBatch
      BY <2>2, <3>1 DEF FinishBatch
    <3> QED  BY <2>2, <3>2 DEF LoopStep, BeginBatch
  <2>4. ~PassStep
    BY <1>2
    DEF PassStep, ListFinal, ListTemp, Remove, Rename, RListFinal, RListTemp, RRemove, RDropTemp,
        RAddFinal, Holding, Occupied, schedVars
  <2>5. ~Crash /\ ~UNCHANGED vars
    BY <1>2 DEF Crash, vars, schedVars, Holding, Occupied
  <2>6. PICK p \in Pubs : PubStep(p)
    BY <2>3, <2>4, <2>5 DEF Next, CleanupStep
  <2>7. ScheduleCleanup(p) /\ Schedule(KeyOf(p), cid[p]) /\ job[p].overwrite
    BY <1>2, <2>6
    DEF PubStep, Start, PinFresh, NamePublish, Replicate, ScheduleCleanup, Holding, Occupied, schedVars
  <2>8. KeyOf(p) \in Keys /\ cid[p] \in Cids
    BY <2>7, KeyIsKnown DEF CleanupInv, ScheduleCleanup
  <2>9. c = cid[p]
    BY <1>2, <2>1, <2>7, <2>8, ScheduleAddsOne
  <2>10. pubPc'[p] = "done" /\ cid'[p] = cid[p]
    BY <2>1, <2>7 DEF ScheduleCleanup, Goto, PassTypeOK
  <2> QED  BY <2>9, <2>10 DEF Published
<1> QED  BY <1>1, <1>2

LEMMA ConfirmCorrect == Spec => []ConfirmInv
<1>1. Init => ConfirmInv
  BY DEF Init, SchedInit, ConfirmInv, Holding, Occupied
<1> QED  BY <1>1, CleanupCorrect, NextConfirmInv, PTL DEF Spec

\* With overwrite, only a batch gives the managed name to a CID, and only to
\* that of a publication that is done: its IPNS name was confirmed.
LEMMA FinalNameStep ==
  ASSUME CleanupInv, ConfirmInv, Next, \A j \in setting.jobs : j.overwrite,
         NEW c \in Cids, localPins[c] # "final", localPins'[c] = "final"
  PROVE  \E p \in Pubs : cid[p] = c /\ pubPc[p] = "done"
<1>1. TypeOK /\ PassTypeOK /\ localPins \in [Cids -> PinNames \cup {"none"}]
  BY DEF CleanupInv, PassTypeOK
<1>2. ASSUME NEW p \in Pubs, PinFresh(p) PROVE FALSE
  <2>1. job[p].overwrite /\ cid[p] \in Cids
    BY <1>2 DEF CleanupInv, PubInv, PinFresh
  <2>2. localPins' \in {Pinned(cid[p], "temp"), localPins}
    BY <1>2, <2>1 DEF PinFresh, AddName, Fails
  <2>3. Pinned(cid[p], "temp")[c] \in {"temp", localPins[c]}
    BY <1>1, <2>1, PinnedType DEF PinNames
  <2> QED  BY <2>2, <2>3
<1>3. ASSUME Remove PROVE FALSE
  <2>1. PICK pin \in todo : localPins' \in {Unpinned(pin[1]), localPins}
    BY <1>3 DEF Remove, Fails
  <2>2. Unpinned(pin[1])[c] \in {"none", localPins[c]}
    BY <1>1 DEF Unpinned
  <2> QED  BY <2>1, <2>2
<1>4. ~UNCHANGED localPins
  OBVIOUS
<1>5. Rename
  BY <1>2, <1>3, <1>4
  DEF Next, CleanupStep, LoopStep, BeginBatch, FinishBatch, PassStep, ListFinal, ListTemp,
      RListFinal, RListTemp, RRemove, RDropTemp, RAddFinal, PubStep, Start, NamePublish,
      Replicate, ScheduleCleanup, Crash, kuboVars
<1>6. pc = "cleaning" /\ heldCid \in Cids
  BY <1>1, <1>5 DEF Rename, PassTypeOK, TypeOK
<1>7. localPins' \in {Pinned(heldCid, "final"), localPins}
  BY <1>5 DEF Rename, Fails
<1>8. c = heldCid
  BY <1>1, <1>6, <1>7, PinnedType DEF PinNames
<1> QED  BY <1>6, <1>8 DEF ConfirmInv, Holding, Published

\* The managed name is the mark of a confirmed document, through failed calls
\* and crashes: ConfirmInv survives both.
THEOREM AlwaysConfirmed == Spec => FinalNameIsConfirmed
<1>1. CleanupInv /\ ConfirmInv /\ [Next]_vars =>
        [(\A j \in setting.jobs : j.overwrite) =>
           \A c \in Cids : localPins[c] # "final" /\ localPins'[c] = "final"
             => \E p \in Pubs : cid[p] = c /\ pubPc[p] = "done"]_vars
  BY FinalNameStep
<1> QED  BY <1>1, CleanupCorrect, ConfirmCorrect, PTL DEF Spec, FinalNameIsConfirmed

-----------------------------------------------------------------------------
(* The current document.                                                   *)

\* A token that may become a batch.
Token(k) == Queued(k) \/ HeldForLookup(k)

LEMMA IdleHasNoToken ==
  ASSUME WorkerIsIdle, NEW k
  PROVE  ~Token(k)
BY DEF WorkerIsIdle, Token, Queued, HeldForLookup

\* Where tokens come from.
LEMMA TokenFromSchedule ==
  ASSUME TypeOK, NEW k \in Keys, NEW c \in Cids, Schedule(k, c), NEW j \in Keys, Token(j)'
  PROVE  Token(j) \/ j = k
<1>1. CASE Enqueue(k, c)
  <2>1. /\ Len(wake') = Len(wake) + 1 /\ wake'[Len(wake) + 1] = k
        /\ \A i \in 1 .. Len(wake) : wake'[i] = wake[i]
        /\ Len(wake) \in Nat /\ UNCHANGED <<pc, heldKey>>
    BY <1>1, AppendToken DEF Enqueue, TypeOK
  <2> QED  BY <2>1 DEF Token, Queued, HeldForLookup
<1>2. CASE Replace(k, c) \/ Refuse(k, c)
  BY <1>2 DEF Replace, Refuse, Token, Queued, HeldForLookup
<1> QED  BY <1>1, <1>2 DEF Schedule

LEMMA TokenFromWorker ==
  ASSUME TypeOK, Receive \/ Take \/ Resend \/ (\E more \in BOOLEAN : EndBatch(more)),
         NEW j \in Keys, Token(j)'
  PROVE  Token(j) \/ (pc = "cleaning" /\ heldKey = j /\ pending'[j] = heldCid)
<1>1. CASE Receive
  <2>1. /\ heldKey' = wake[1] /\ Len(wake) \in Nat \ {0}
        /\ Len(wake') = Len(wake) - 1
        /\ \A i \in 1 .. Len(wake') : wake'[i] = wake[i + 1]
    BY <1>1, TakeToken DEF Receive, TypeOK
  <2>2. \A i \in 1 .. Len(wake') : i + 1 \in 1 .. Len(wake)
    BY <2>1
  <2> QED  BY <2>1, <2>2 DEF Token, Queued, HeldForLookup
<1>2. CASE Take
  BY <1>2 DEF Take, Token, Queued, HeldForLookup
<1>3. CASE Resend
  <2>1. CASE HasRoom
    <3>1. PICK h \in Keys : h = heldKey
      BY <1>3 DEF Resend, TypeOK
    <3>2. /\ Len(wake') = Len(wake) + 1 /\ wake'[Len(wake) + 1] = h
          /\ \A i \in 1 .. Len(wake) : wake'[i] = wake[i]
          /\ Len(wake) \in Nat
      BY <1>3, <2>1, <3>1, AppendToken DEF Resend, TypeOK
    <3>3. pc = "yielding" /\ pc' = "receiving"
      BY <1>3 DEF Resend, LetGo
    <3> QED  BY <3>1, <3>2, <3>3 DEF Token, Queued, HeldForLookup
  <2>2. CASE ~HasRoom
    BY <1>3, <2>2 DEF Resend, LetGo, Token, Queued, HeldForLookup
  <2> QED  BY <2>1, <2>2
<1>4. CASE \E more \in BOOLEAN : EndBatch(more)
  BY <1>4
  DEF EndBatch, BatchIsOver, BatchIsRequeued, LetGo, Token, Queued, HeldForLookup, TypeOK
<1> QED  BY <1>1, <1>2, <1>3, <1>4

\* When publications wait for the cleanup:
\* one publication at a time, and none while the worker has work; what it
\* has pinned before it publishes the name; and whatever may still become a
\* batch over Kubo's pins protects what the name points to.
Quiet ==
  /\ \A p, q \in Pubs : Running(p) /\ Running(q) => p = q
  /\ \A p \in Pubs : Running(p) => WorkerIsIdle
  /\ \A p \in Pubs : pubPc[p] = "name" => localPins[cid[p]] # "none"
  /\ \A p \in Pubs :
       pubPc[p] \in {"replicate", "schedule"} /\ job[p].kind = "document" => ipns = cid[p]
  /\ ipns # NoCid => localPins[ipns] # "none"
  /\ \A k \in Keys : k.local /\ Token(k) => pending[k] = ipns
  /\ pc = "cleaning" /\ heldKey.local => heldCid = ipns

LEMMA QuietPub ==
  ASSUME CleanupInv, CleanupInv', Quiet, setting.pacing = "quiescent",
         NEW p \in Pubs, PubStep(p)
  PROVE  Quiet'
<1> USE DEF CleanupInv, PassTypeOK, PubInv
<1>1. \A q \in Pubs \ {p} : pubPc'[q] = pubPc[q] /\ cid'[q] = cid[q] /\ job'[q] = job[q]
  BY DEF PubStep, Start, PinFresh, NamePublish, Replicate, ScheduleCleanup, Goto
<1>2. \A q \in Pubs \ {p} : ~Running(q)
  <2>1. CASE Start(p)
    BY <2>1 DEF Start, MayStart
  <2>2. CASE ~Start(p)
    BY <2>2 DEF Quiet, Running, PubStep, PinFresh, NamePublish, Replicate, ScheduleCleanup
  <2> QED  BY <2>1, <2>2
<1>3. \A q \in Pubs \ {p} : ~Running(q)' /\ pubPc'[q] \notin {"name", "replicate", "schedule"}
  BY <1>1, <1>2 DEF Running
<1>4. WorkerIsIdle
  BY DEF PubStep, Start, MayStart, PinFresh, NamePublish, Replicate, ScheduleCleanup, Quiet, Running
<1>5. pc # "cleaning" /\ \A k \in Keys : ~Token(k)
  BY <1>4, IdleHasNoToken DEF WorkerIsIdle
<1>6. CASE ScheduleCleanup(p)
  <2>1. ~Running(p)' /\ UNCHANGED <<localPins, ipns>> /\ pubPc'[p] = "done"
    BY <1>6 DEF ScheduleCleanup, Goto, Running, kuboVars
  <2>2. pc' # "cleaning"
    BY <1>5, <1>6 DEF ScheduleCleanup, Schedule, Replace, Enqueue, Refuse, schedVars
  <2>3. ASSUME NEW k \in Keys, k.local, Token(k)' PROVE pending'[k] = ipns'
    <3>1. Schedule(KeyOf(p), cid[p]) /\ job[p].overwrite
      BY <1>5, <1>6, <2>3 DEF ScheduleCleanup, schedVars, Token, Queued, HeldForLookup
    <3>2. KeyOf(p) \in Keys /\ cid[p] \in Cids
      BY <1>6, <3>1, KeyIsKnown DEF ScheduleCleanup
    <3>3. k = KeyOf(p)
      BY <1>5, <2>3, <3>1, <3>2, TokenFromSchedule
    <3>4. ~Refuse(KeyOf(p), cid[p])
      BY <1>5, <2>3 DEF Refuse, Token, Queued, HeldForLookup
    <3>5. pending'[k] = cid[p]
      BY <3>1, <3>2, <3>3, <3>4 DEF Schedule, Replace, Enqueue, Accepted, TypeOK
    <3>6. job[p].kind = "document"
      BY <2>3, <3>3 DEF KeyOf
    <3>7. ipns = cid[p]
      BY <1>6, <3>6 DEF Quiet, ScheduleCleanup
    <3> QED  BY <2>1, <3>5, <3>7
  <2>4. ipns' # NoCid => localPins'[ipns'] # "none"
    BY <2>1 DEF Quiet
  <2> QED  BY <1>3, <2>1, <2>2, <2>3, <2>4 DEF Quiet
<1>7. CASE ~ScheduleCleanup(p)
  <2>1. UNCHANGED schedVars
    BY <1>7 DEF PubStep, Start, PinFresh, NamePublish, Replicate
  <2>2. WorkerIsIdle' /\ pc' # "cleaning" /\ \A k \in Keys : ~Token(k)'
    BY <1>4, <1>5, <2>1 DEF WorkerIsIdle, schedVars, Token, Queued, HeldForLookup
  <2> SUFFICES /\ pubPc'[p] = "name" => localPins'[cid'[p]] # "none"
               /\ pubPc'[p] \in {"replicate", "schedule"} /\ job'[p].kind = "document" => ipns' = cid'[p]
               /\ ipns' # NoCid => localPins'[ipns'] # "none"
    BY <1>3, <2>2 DEF Quiet
  <2>3. CASE Start(p)
    BY <2>3 DEF Start, kuboVars, Quiet
  <2>4. CASE PinFresh(p)
    <3>1. AddName(p) \in PinNames /\ cid[p] \in Cids /\ pubPc[p] = "pin"
      BY <2>4 DEF PinFresh, AddName, PinNames
    <3>2. /\ Pinned(cid[p], AddName(p))[cid[p]] # "none"
          /\ \A c \in Cids : localPins[c] # "none" => Pinned(cid[p], AddName(p))[c] # "none"
      BY <3>1, PinnedType DEF PinNames
    <3>3. \/ localPins' = Pinned(cid[p], AddName(p)) /\ pubPc'[p] = "name"
          \/ localPins' \in {Pinned(cid[p], AddName(p)), localPins} /\ pubPc'[p] = "failed"
      BY <2>4 DEF PinFresh, Goto, Fails
    <3>4. UNCHANGED <<ipns, cid>>
      BY <2>4 DEF PinFresh
    <3>5. ipns \in Cids \cup {NoCid}
      OBVIOUS
    <3> QED  BY <3>2, <3>3, <3>4, <3>5 DEF Quiet
  <2>5. CASE NamePublish(p)
    <3>1. localPins[cid[p]] # "none" /\ UNCHANGED <<localPins, cid>>
      BY <2>5 DEF NamePublish, Quiet
    <3>2. \/ ipns' = cid[p] /\ pubPc'[p] \in {"replicate", "schedule"}
          \/ ipns' \in {cid[p], ipns} /\ pubPc'[p] = "failed"
      BY <2>5 DEF NamePublish, Goto, Fails
    <3> QED  BY <3>1, <3>2 DEF Quiet
  <2>6. CASE Replicate(p)
    <3>1. UNCHANGED <<localPins, ipns, cid, job>> /\ pubPc[p] = "replicate"
          /\ pubPc'[p] \in {"schedule", "failed"}
      BY <2>6 DEF Replicate, Goto
    <3> QED  BY <3>1 DEF Quiet
  <2> QED  BY <1>7, <2>3, <2>4, <2>5, <2>6 DEF PubStep
<1> QED  BY <1>6, <1>7

LEMMA WorkerIsBusy ==
  ASSUME PassTypeOK, CleanupStep
  PROVE  ~WorkerIsIdle
BY DEF CleanupStep, LoopStep, BeginBatch, FinishBatch, PassStep, ListFinal, ListTemp, Remove,
   Rename, RListFinal, RListTemp, RRemove, RDropTemp, RAddFinal, Receive, Take, Resend, EndBatch,
   BatchIsOver, BatchIsRequeued, WorkerIsIdle, PassTypeOK

\* A step of the worker: nobody publishes meanwhile.
LEMMA QuietWorker ==
  ASSUME CleanupInv, CleanupInv', SchedInv, Quiet, CleanupStep
  PROVE  Quiet'
<1> USE DEF CleanupInv, PassTypeOK
<1>1. UNCHANGED <<ipns, pubVars>>
  BY LocalPassType, RemotePassType, LoopType DEF CleanupStep, PassStep, kuboVars
<1>2. ~WorkerIsIdle
  BY WorkerIsBusy
<1>3. \A p \in Pubs : ~Running(p)' /\ pubPc'[p] \notin {"name", "replicate", "schedule"}
  BY <1>1, <1>2 DEF Quiet, Running, pubVars
<1> SUFFICES /\ ipns # NoCid => localPins'[ipns] # "none"
             /\ \A k \in Keys : k.local /\ Token(k)' => pending'[k] = ipns
             /\ pc' = "cleaning" /\ heldKey'.local => heldCid' = ipns
  BY <1>1, <1>3 DEF Quiet
<1>4. CASE PassStep
  <2>1. UNCHANGED schedVars
    BY <1>4, LocalPassType, RemotePassType DEF PassStep, CleanupStep
  <2>2. ipns # NoCid => localPins'[ipns] # "none"
    <3>1. CASE ListFinal \/ ListTemp \/ Remove \/ Rename
      <4>1. pc = "cleaning" /\ heldKey.local /\ (localPins[heldCid] # "none" => localPins'[heldCid] # "none")
        BY <3>1, LocalPassType DEF CleanupStep
      <4> QED  BY <4>1 DEF Quiet
    <3>2. CASE RListFinal \/ RListTemp \/ RRemove \/ RDropTemp \/ RAddFinal
      <4>1. UNCHANGED localPins
        BY <3>2, RemotePassType DEF CleanupStep
      <4> QED  BY <4>1 DEF Quiet
    <3> QED  BY <1>4, <3>1, <3>2 DEF PassStep
  <2> QED  BY <2>1, <2>2 DEF Quiet, schedVars, Token, Queued, HeldForLookup
<1>5. CASE LoopStep \/ BeginBatch \/ FinishBatch
  <2>1. UNCHANGED localPins
    BY <1>5, LoopType DEF CleanupStep, kuboVars
  <2>2. Receive \/ Take \/ Resend \/ (\E more \in BOOLEAN : EndBatch(more))
    <3>1. localMore \/ removedAny \in BOOLEAN
      OBVIOUS
    <3> QED  BY <1>5, <3>1 DEF LoopStep, BeginBatch, FinishBatch
  <2>3. ASSUME NEW k \in Keys, k.local, Token(k)' PROVE pending'[k] = ipns
    <3>1. CASE Token(k)
      <4>1. pending[k] = ipns
        BY <2>3, <3>1 DEF Quiet
      <4>2. pending'[k] = pending[k] \/ (Take /\ heldKey = k) \/ (pc = "cleaning" /\ heldKey = k)
        BY <2>2 DEF Receive, Take, Resend, LetGo, EndBatch, BatchIsOver, BatchIsRequeued, TypeOK
      <4>3. CASE pending'[k] = pending[k]
        BY <4>1, <4>3
      <4>4. CASE Take /\ heldKey = k
        <5>1. Queued(k) /\ HeldForLookup(k)
          BY <2>3, <4>4 DEF Take, Token, Queued, HeldForLookup
        <5> QED  BY <5>1 DEF SchedInv, TokensMatchPending, Queued
      <4>5. CASE pc = "cleaning" /\ heldKey = k
        <5>1. pending'[k] \in {pending[k], heldCid}
          BY <2>2, <4>5 DEF Receive, Take, Resend, EndBatch, BatchIsOver, BatchIsRequeued, TypeOK
        <5>2. heldCid = ipns
          BY <2>3, <4>5 DEF Quiet
        <5> QED  BY <4>1, <5>1, <5>2
      <4> QED  BY <4>2, <4>3, <4>4, <4>5
    <3>2. CASE pc = "cleaning" /\ heldKey = k /\ pending'[k] = heldCid
      <4>1. heldCid = ipns
        BY <2>3, <3>2 DEF Quiet
      <4> QED  BY <3>2, <4>1
    <3> QED  BY <2>2, <2>3, <3>1, <3>2, TokenFromWorker
  <2>4. pc' = "cleaning" /\ heldKey'.local => heldCid' = ipns
    <3>1. SUFFICES ASSUME pc' = "cleaning", heldKey'.local PROVE heldCid' = ipns
      OBVIOUS
    <3>2. Take /\ heldKey' = heldKey
      BY <2>2, <3>1 DEF Receive, Take, Resend, LetGo, EndBatch, BatchIsOver, BatchIsRequeued
    <3>3. heldKey \in Keys /\ Token(heldKey) /\ heldCid' = pending[heldKey]
      BY <3>2 DEF Take, Token, HeldForLookup, TypeOK
    <3> QED  BY <3>1, <3>2, <3>3 DEF Quiet
  <2> QED  BY <2>1, <2>3, <2>4 DEF Quiet
<1> QED  BY <1>4, <1>5 DEF CleanupStep

LEMMA QuietCrash ==
  ASSUME CleanupInv, Quiet, Crash
  PROVE  Quiet'
<1>1. \A p \in Pubs : ~Running(p)' /\ pubPc'[p] \notin {"name", "replicate", "schedule"}
  BY DEF Crash, Running
<1>2. UNCHANGED <<localPins, ipns>> /\ wake' = <<>> /\ pc' = "receiving"
  BY DEF Crash, kuboVars
<1>3. \A k \in Keys : ~Token(k)'
  BY <1>2 DEF Token, Queued, HeldForLookup
<1> QED  BY <1>1, <1>2, <1>3 DEF Quiet

QuietInv == setting.pacing = "quiescent" => Quiet

LEMMA NextQuietInv == CleanupInv /\ CleanupInv' /\ SchedInv /\ QuietInv /\ [Next]_vars => QuietInv'
<1> SUFFICES ASSUME CleanupInv, CleanupInv', SchedInv, QuietInv, [Next]_vars, setting'.pacing = "quiescent"
             PROVE  Quiet'
  BY DEF QuietInv
<1>1. UNCHANGED setting
  BY DEF Next, CleanupStep, vars
<1>2. Quiet
  BY <1>1 DEF QuietInv
<1>3. CASE UNCHANGED vars
  BY <1>2, <1>3 DEF vars, schedVars, kuboVars, pubVars, Quiet, Running, WorkerIsIdle, Token, Queued,
                    HeldForLookup
<1> QED  BY <1>1, <1>2, <1>3, QuietPub, QuietWorker, QuietCrash DEF Next

LEMMA QuietCorrect == Spec => []QuietInv
<1>1. Init => QuietInv
  <2> SUFFICES ASSUME Init PROVE Quiet
    BY DEF QuietInv
  <2>1. WorkerIsIdle /\ pc # "cleaning" /\ ipns = NoCid /\ \A p \in Pubs : pubPc[p] = "idle"
    BY DEF Init, SchedInit, WorkerIsIdle
  <2> QED  BY <2>1, IdleHasNoToken DEF Quiet, Running
<1> QED  BY <1>1, CleanupCorrect, SchedCorrect, NextQuietInv, PTL DEF Spec

\* If publications wait for the cleanup of the previous one, the document the
\* IPNS name points to is pinned at every moment: through failed calls, lost
\* responses and restarts, for any number of publications, CIDs and keys.
THEOREM CurrentCorrect == Spec => []CurrentIsAlwaysPinned
<1>1. QuietInv => CurrentIsAlwaysPinned
  BY DEF QuietInv, Quiet, CurrentIsAlwaysPinned
<1> QED  BY <1>1, QuietCorrect, PTL

-----------------------------------------------------------------------------
(* What the cleanup achieves.                                              *)

\* Documents are published with overwrite, one at a time, and nothing fails.
\* If publications do not wait for the cleanup, all of them are alike (else
\* their cleanups have two keys, and PinCleanupTwoKeys.cfg shows what happens).
Careful ==
  /\ Calm
  /\ \A j \in setting.jobs : j.kind = "document" /\ j.overwrite
  /\ \/ setting.pacing = "quiescent"
     \/ setting.pacing = "sequential" /\ \A i, j \in setting.jobs : i = j

\* The condition for what is said of the pin service.
AllRemote == setting.pacing = "quiescent" /\ \A j \in setting.jobs : j.remote

\* Whenever nobody publishes and the worker has nothing to do, all old pins
\* are gone: what cleanup_one_batch is for, whether or not it was ever idle
\* in between.
RestIsClean ==
  Careful /\ Quiescent /\ ipns # NoCid => LocalIsClean /\ (AllRemote => RemoteIsClean)

NobodyRuns == \A p \in Pubs : ~Running(p)
NothingPending == \A k \in Keys : ~Occupied(k)
CleanupOf(j) == [local |-> TRUE, remote |-> j.remote]
Working(k) == Occupied(k) \/ heldKey = k

\* One publication at a time; its name is confirmed before its cleanup is
\* scheduled, and its document replicated if that was asked for.
SerialInv ==
  /\ \A p, q \in Pubs : Running(p) /\ Running(q) => p = q
  /\ \A p \in Pubs : replicated[p] <=> pubPc[p] \in {"schedule", "done"} /\ job[p].remote
  /\ \A p \in Pubs : pubPc[p] \in {"replicate", "schedule"} => ipns = cid[p]

LEMMA SerialPub ==
  ASSUME CleanupInv, Careful, SerialInv, NEW p \in Pubs, PubStep(p), UNCHANGED setting
  PROVE  SerialInv'
<1> USE DEF CleanupInv, PassTypeOK, PubInv
<1>1. \A q \in Pubs \ {p} : UNCHANGED <<pubPc[q], cid[q], job[q], replicated[q]>>
  BY DEF PubStep, Start, PinFresh, NamePublish, Replicate, ScheduleCleanup, Goto
<1>2. \A q \in Pubs \ {p} : ~Running(q) /\ pubPc[q] \notin {"replicate", "schedule"}
  BY DEF PubStep, Start, MayStart, PinFresh, NamePublish, Replicate, ScheduleCleanup, SerialInv, Careful,
         Running
<1>3. \A q \in Pubs \ {p} : ~Running(q)' /\ pubPc'[q] \notin {"replicate", "schedule"}
  BY <1>1, <1>2 DEF Running
<1>4. setting.faulty = {} /\ \A j \in setting.jobs : j.kind = "document"
  BY DEF Careful, Calm
<1> SUFFICES /\ replicated'[p] <=> pubPc'[p] \in {"schedule", "done"} /\ job'[p].remote
             /\ pubPc'[p] \in {"replicate", "schedule"} => ipns' = cid'[p]
  BY <1>1, <1>3 DEF SerialInv
<1>5. CASE Start(p)
  <2>1. pubPc'[p] \in {"pin", "replicate"} /\ pubPc'[p] = "pin" /\ UNCHANGED replicated /\ ~replicated[p]
    BY <1>4, <1>5 DEF Start
  <2> QED  BY <2>1
<1>6. CASE PinFresh(p)
  <2>1. pubPc[p] = "pin" /\ pubPc'[p] \in {"name", "failed"} /\ UNCHANGED <<replicated, job>>
    BY <1>6 DEF PinFresh, Goto
  <2> QED  BY <2>1 DEF SerialInv
<1>7. CASE NamePublish(p)
  <2>1. pubPc[p] = "name" /\ UNCHANGED <<replicated, job, cid>> /\ ipns' = cid[p]
        /\ pubPc'[p] = IF job[p].remote THEN "replicate" ELSE "schedule"
    BY <1>4, <1>7 DEF NamePublish, Goto, Fails
  <2> QED  BY <2>1 DEF SerialInv
<1>8. CASE Replicate(p)
  <2>1. pubPc[p] = "replicate" /\ UNCHANGED <<job, cid, ipns>> /\ replicated'[p] /\ pubPc'[p] = "schedule"
    BY <1>4, <1>8 DEF Replicate, Goto, Fails
  <2>2. job[p].remote
    BY <1>4, <2>1
  <2> QED  BY <2>1, <2>2 DEF SerialInv
<1>9. CASE ScheduleCleanup(p)
  <2>1. pubPc[p] = "schedule" /\ pubPc'[p] = "done" /\ UNCHANGED <<replicated, job>>
    BY <1>9 DEF ScheduleCleanup, Goto
  <2> QED  BY <2>1 DEF SerialInv
<1> QED  BY <1>5, <1>6, <1>7, <1>8, <1>9 DEF PubStep

\* There is one key with work, and a pending request has its wake-up even in
\* a channel of one place.
KeyInv ==
  /\ pc # "ended"
  /\ \A k \in Keys : Occupied(k) => Token(k)
  /\ \A j, k \in Keys : Working(j) /\ Working(k) => j = k
  /\ \A k \in Keys : Working(k) => \E j \in setting.jobs : k = CleanupOf(j)
  /\ \A k \in Keys, p \in Pubs : Working(k) /\ Running(p) => k = CleanupOf(job[p])

LEMMA IdleHasNoWork ==
  ASSUME TypeOK, KeyInv, WorkerIsIdle, NEW k \in Keys
  PROVE  ~Working(k)
<1>1. ~Occupied(k)
  BY IdleHasNoToken DEF KeyInv
<1>2. heldKey = NoKey /\ NoKey \notin Keys
  BY NoKeyIsNotAKey DEF WorkerIsIdle, TypeOK
<1> QED  BY <1>1, <1>2 DEF Working

\* What a scheduled cleanup does: it is accepted.
LEMMA CarefulSchedule ==
  ASSUME CleanupInv, SchedInv, Careful, SerialInv, KeyInv, NEW p \in Pubs, ScheduleCleanup(p)
  PROVE  /\ cid[p] = ipns /\ cid[p] \in Cids
         /\ UNCHANGED <<pc, heldKey, heldCid>>
         /\ \E k \in Keys :
              /\ k = CleanupOf(job[p])
              /\ pending' = [pending EXCEPT ![k] = cid[p]]
              /\ Token(k)'
<1> USE DEF CleanupInv, PassTypeOK
<1>1. pubPc[p] = "schedule" /\ job[p] \in setting.jobs /\ cid[p] \in Cids
  BY DEF ScheduleCleanup, PubInv
<1>2. job[p].overwrite /\ job[p].kind = "document"
  BY <1>1 DEF Careful
<1>3. Schedule(KeyOf(p), cid[p]) /\ KeyOf(p) \in Keys
  BY <1>1, <1>2, KeyIsKnown DEF ScheduleCleanup
<1>4. replicated[p] = job[p].remote /\ cid[p] = ipns
  <2>1. replicated[p] <=> job[p].remote
    BY <1>1 DEF SerialInv
  <2>2. replicated[p] \in BOOLEAN /\ job[p].remote \in BOOLEAN
    BY DEF AllJobs
  <2> QED  BY <1>1, <2>1, <2>2 DEF SerialInv
<1>5. PICK k \in Keys : k = KeyOf(p) /\ k = CleanupOf(job[p])
  BY <1>2, <1>3, <1>4 DEF KeyOf, CleanupOf
<1>6. CASE Occupied(k)
  <2>1. Replace(k, cid[p])
    BY <1>3, <1>5, <1>6 DEF Schedule, Enqueue, Refuse
  <2>2. Token(k)
    BY <1>6 DEF KeyInv
  <2>3. Token(k)'
    BY <2>1, <2>2 DEF Replace, Token, Queued, HeldForLookup
  <2> QED  BY <1>1, <1>4, <1>5, <2>1, <2>3 DEF Replace, Accepted
<1>7. CASE ~Occupied(k)
  <2>1. Len(wake) = 0
    <3>1. SUFFICES ASSUME Len(wake) # 0 PROVE FALSE
      OBVIOUS
    <3>2. 1 \in 1 .. Len(wake) /\ wake[1] \in Keys
      BY <3>1 DEF TypeOK
    <3>3. Occupied(wake[1])
      BY <3>2 DEF SchedInv, TokensMatchPending
    <3>4. Running(p)
      BY <1>1 DEF Running
    <3>5. wake[1] = CleanupOf(job[p])
      BY <3>2, <3>3, <3>4 DEF KeyInv, Working
    <3> QED  BY <1>5, <1>7, <3>3, <3>5
  <2>2. Enqueue(k, cid[p])
    BY <1>3, <1>5, <1>7, <2>1, CapacityPositive DEF Schedule, Replace, Refuse, HasRoom, KeyInv
  <2>3. Len(wake') = 1 /\ wake'[1] = k
    BY <2>1, <2>2, AppendToken DEF Enqueue, TypeOK
  <2>4. Token(k)'
    BY <2>3 DEF Token, Queued
  <2> QED  BY <1>1, <1>4, <1>5, <2>2, <2>4 DEF Enqueue, Accepted
<1> QED  BY <1>6, <1>7

LEMMA KeyPub ==
  ASSUME CleanupInv, SchedInv, Careful, SerialInv, KeyInv, NEW p \in Pubs, PubStep(p),
         SerialInv', UNCHANGED setting
  PROVE  KeyInv'
<1> USE DEF CleanupInv, PassTypeOK
<1>1. \A q \in Pubs : Running(q)' => q = p
  <2>1. \A q \in Pubs \ {p} : UNCHANGED pubPc[q]
    BY DEF PubStep, Start, PinFresh, NamePublish, Replicate, ScheduleCleanup, Goto
  <2>2. \A q \in Pubs \ {p} : ~Running(q)
    BY DEF PubStep, Start, MayStart, PinFresh, NamePublish, Replicate, ScheduleCleanup, SerialInv,
           Careful, Running
  <2> QED  BY <2>1, <2>2 DEF Running
<1>2. CASE Start(p)
  <2>1. UNCHANGED schedVars /\ job'[p] \in setting.jobs
    BY <1>2 DEF Start
  <2>2. ASSUME NEW k \in Keys, Working(k) PROVE k = CleanupOf(job'[p])
    <3>1. setting.pacing = "sequential" /\ \A i, j \in setting.jobs : i = j
      BY <1>2, <2>2, IdleHasNoWork DEF Start, MayStart, Careful
    <3> QED  BY <2>1, <2>2, <3>1 DEF KeyInv
  <2> QED
    BY <1>1, <2>1, <2>2
    DEF KeyInv, schedVars, Working, Occupied, Token, Queued, HeldForLookup, CleanupOf
<1>3. CASE PinFresh(p) \/ NamePublish(p) \/ Replicate(p)
  <2>1. UNCHANGED <<schedVars, job>> /\ Running(p)
    BY <1>3 DEF PinFresh, NamePublish, Replicate, Running
  <2> QED
    BY <1>1, <2>1 DEF KeyInv, schedVars, Working, Occupied, Token, Queued, HeldForLookup
<1>4. CASE ScheduleCleanup(p)
  <2>1. PICK K \in Keys : /\ K = CleanupOf(job[p])
                          /\ pending' = [pending EXCEPT ![K] = cid[p]]
                          /\ Token(K)'
    BY <1>4, CarefulSchedule
  <2>2. UNCHANGED <<pc, heldKey, job>>
    BY <1>4, CarefulSchedule DEF ScheduleCleanup
  <2>4. Running(p) /\ ~Running(p)' /\ job[p] \in setting.jobs
    BY <1>4 DEF ScheduleCleanup, Running, Goto, PubInv
  <2>5. \A k \in Keys : Working(k) => k = K
    BY <2>1, <2>4 DEF KeyInv
  <2>6. \A k \in Keys : Working(k)' => k = K
    BY <2>1, <2>2, <2>5 DEF Working, Occupied
  <2>7. \A k \in Keys : Occupied(k)' => Token(k)'
    BY <2>1, <2>6 DEF Working
  <2>8. pc' # "ended"
    BY <2>2 DEF KeyInv
  <2> QED  BY <1>1, <2>1, <2>2, <2>4, <2>6, <2>7, <2>8 DEF KeyInv, CleanupOf
<1> QED  BY <1>2, <1>3, <1>4 DEF PubStep

\* What the worker is at: a token never waits behind another one.
LEMMA KeyWorker ==
  ASSUME CleanupInv, SchedInv, KeyInv, CleanupStep, UNCHANGED <<pubVars, setting>>
  PROVE  KeyInv' /\ \A k \in Keys : Working(k)' => Working(k)
<1> USE DEF CleanupInv, PassTypeOK
<1>1. NoKey \notin Keys
  BY NoKeyIsNotAKey
<1> SUFFICES /\ pc' # "ended"
             /\ \A k \in Keys : Working(k)' => Working(k)
             /\ \A k \in Keys : Occupied(k)' => Token(k)'
  BY DEF KeyInv, CleanupOf, Running, pubVars
<1>2. \A i \in 1 .. Len(wake) : wake[i] \in Keys /\ Working(wake[i]) /\ ~HeldForLookup(wake[i])
  BY DEF SchedInv, TokensMatchPending, Working, TypeOK
<1>3. CASE Receive
  <2>1. heldKey' = wake[1] /\ 1 \in 1 .. Len(wake)
    BY <1>3, TakeToken DEF Receive, TypeOK
  <2>2. UNCHANGED pending /\ pc' = "received"
    BY <1>3 DEF Receive
  <2>3. \A k \in Keys : Working(k)' => Working(k)
    BY <1>2, <2>1, <2>2 DEF Working, Occupied
  <2>4. ASSUME NEW k \in Keys, Occupied(k)' PROVE Token(k)'
    <3>1. k = wake[1]
      BY <1>2, <2>1, <2>2, <2>4 DEF KeyInv, Working, Occupied
    <3> QED  BY <2>1, <2>2, <3>1 DEF Token, HeldForLookup
  <2> QED  BY <2>2, <2>3, <2>4
<1>4. CASE Take
  <2>1. pc = "received" /\ heldKey \in Keys /\ Occupied(heldKey)
    BY <1>4 DEF Take, TypeOK, SchedInv, TokensMatchPending, HeldForLookup
  <2>2. pending' = [pending EXCEPT ![heldKey] = NoCid] /\ UNCHANGED heldKey /\ pc' = "cleaning"
    BY <1>4, <2>1 DEF Take
  <2>3. \A k \in Keys : ~Occupied(k)'
    BY <2>1, <2>2 DEF KeyInv, Working, Occupied, TypeOK
  <2> QED  BY <2>2, <2>3 DEF Working
<1>5. CASE Resend
  <2>1. pc = "yielding" /\ heldKey \in Keys /\ Len(wake) = 0
    <3>1. pc = "yielding" /\ heldKey \in Keys
      BY <1>5 DEF Resend, TypeOK
    <3>2. HeldForLookup(heldKey) /\ Working(heldKey)
      BY <3>1 DEF HeldForLookup, Working
    <3>3. \A i \in 1 .. Len(wake) : FALSE
      BY <1>2, <3>1, <3>2 DEF KeyInv
    <3> QED  BY <3>1, <3>3 DEF TypeOK
  <2>2. /\ wake' = Append(wake, heldKey) /\ heldKey' = NoKey /\ pc' = "receiving"
        /\ UNCHANGED pending
    BY <1>5, <2>1, CapacityPositive DEF Resend, HasRoom, LetGo
  <2>3. PICK h \in Keys : h = heldKey
    BY <2>1
  <2>4. Len(wake') = 1 /\ wake'[1] = h
    BY <2>1, <2>2, <2>3, AppendToken DEF TypeOK
  <2>5. ASSUME NEW k \in Keys, Occupied(k)' PROVE Token(k)'
    <3>1. k = h
      BY <2>2, <2>3, <2>5 DEF KeyInv, Working, Occupied
    <3> QED  BY <2>4, <3>1 DEF Token, Queued
  <2> QED  BY <1>1, <2>2, <2>5 DEF Working, Occupied
<1>6. CASE \E more \in BOOLEAN : EndBatch(more)
  <2>1. pc = "cleaning" /\ heldKey \in Keys /\ Working(heldKey) /\ UNCHANGED wake
    BY <1>6 DEF EndBatch, BatchIsOver, BatchIsRequeued, TypeOK, Working
  <2>2. CASE \E more \in BOOLEAN : BatchIsOver(more)
    <3>1. UNCHANGED pending /\ heldKey' = NoKey /\ pc' = "receiving"
      BY <2>2 DEF BatchIsOver, LetGo
    <3>2. \A k \in Keys : Occupied(k) => Queued(k)
      BY <2>1 DEF KeyInv, Token, HeldForLookup
    <3> QED  BY <1>1, <2>1, <3>1, <3>2 DEF Working, Occupied, Token, Queued
  <2>3. CASE \E more \in BOOLEAN : BatchIsRequeued(more)
    <3>1. /\ pending' = [pending EXCEPT ![heldKey] = heldCid]
          /\ UNCHANGED heldKey /\ pc' = "yielding"
      BY <2>3 DEF BatchIsRequeued
    <3>2. \A k \in Keys : Working(k)' => Working(k)
      BY <2>1, <3>1 DEF Working, Occupied, TypeOK
    <3>3. \A k \in Keys : Occupied(k)' => k = heldKey
      BY <2>1, <3>2 DEF KeyInv, Working
    <3> QED  BY <3>1, <3>2, <3>3 DEF Token, HeldForLookup
  <2> QED  BY <1>6, <2>2, <2>3 DEF EndBatch
<1>7. CASE PassStep
  <2>1. UNCHANGED schedVars
    BY <1>7, LocalPassType, RemotePassType DEF PassStep, CleanupStep
  <2> QED
    BY <2>1 DEF schedVars, KeyInv, Working, Occupied, Token, Queued, HeldForLookup
<1> QED
  <2>1. localMore \/ removedAny \in BOOLEAN
    OBVIOUS
  <2> QED
    BY <1>3, <1>4, <1>5, <1>6, <1>7, <2>1 DEF CleanupStep, LoopStep, BeginBatch, FinishBatch

\* A publication stays under way until it has scheduled its cleanup.
LEMMA CarefulPubRuns ==
  ASSUME CleanupInv, Careful, NEW p \in Pubs, PubStep(p), ~ScheduleCleanup(p)
  PROVE  Running(p)'
<1>1. setting.faulty = {} /\ \A j \in setting.jobs : j.kind = "document"
  BY DEF Careful, Calm
<1>2. pubPc'[p] \in {"pin", "name", "replicate", "schedule"}
  BY <1>1
  DEF PubStep, Start, PinFresh, NamePublish, Replicate, Goto, Fails, CleanupInv, PassTypeOK
<1> QED  BY <1>2 DEF Running

LEMMA ScheduleEnds ==
  ASSUME CleanupInv, SerialInv, NEW p \in Pubs, ScheduleCleanup(p)
  PROVE  NobodyRuns'
<1>1. Running(p) /\ pubPc' = [pubPc EXCEPT ![p] = "done"]
  BY DEF ScheduleCleanup, Running, Goto
<1> QED  BY <1>1 DEF SerialInv, NobodyRuns, Running, CleanupInv, PassTypeOK

\* Who has work is local, and remote if all publications are replicated.
LEMMA HeldKeyIsLocal ==
  ASSUME CleanupInv, Careful, KeyInv, heldKey # NoKey
  PROVE  heldKey \in Keys /\ heldKey.local /\ (AllRemote => heldKey.remote)
<1>1. heldKey \in Keys
  BY DEF CleanupInv, PassTypeOK, TypeOK
<1>2. PICK j \in setting.jobs : heldKey = CleanupOf(j)
  BY <1>1 DEF KeyInv, Working
<1> QED  BY <1>1, <1>2 DEF CleanupOf, AllRemote

\* The steps of the worker, without those of a batch.
LEMMA WorkerSteps ==
  ASSUME CleanupInv, SchedInv, KeyInv, CleanupStep
  PROVE  \/ PassStep /\ UNCHANGED schedVars
         \/ (Receive \/ Resend) /\ UNCHANGED <<kuboVars, passVars>>
            /\ (\E k \in Keys : Occupied(k)') /\ pc' # "cleaning"
            /\ UNCHANGED pending
         \/ BeginBatch /\ pc' = "cleaning" /\ NothingPending' /\ UNCHANGED heldKey
            /\ heldKey \in Keys /\ Occupied(heldKey) /\ heldCid' = pending[heldKey]
         \/ FinishBatch /\ pc = "cleaning" /\ pc' # "cleaning" /\ heldKey \in Keys
            /\ heldCid \in Cids
            /\ \/ /\ UNCHANGED pending
                  /\ Occupied(heldKey) \/ ~(localMore \/ removedAny)
               \/ pending' = [pending EXCEPT ![heldKey] = heldCid] /\ ~Occupied(heldKey)
<1> USE DEF CleanupInv, PassTypeOK
<1>1. CASE PassStep
  <2>1. UNCHANGED schedVars
    BY <1>1, LocalPassType, RemotePassType DEF PassStep, CleanupStep
  <2> QED  BY <1>1, <2>1
<1>2. CASE Receive /\ LoopStep
  <2>1. 1 \in 1 .. Len(wake) /\ wake[1] \in Keys
    BY <1>2, TakeToken DEF Receive, TypeOK
  <2>2. Occupied(wake[1]) /\ UNCHANGED pending /\ pc' = "received"
    BY <1>2, <2>1 DEF Receive, SchedInv, TokensMatchPending
  <2> QED  BY <1>2, <2>1, <2>2 DEF LoopStep, Occupied
<1>3. CASE Resend /\ LoopStep
  <2>1. heldKey \in Keys /\ HeldForLookup(heldKey)
    BY <1>3 DEF Resend, TypeOK, HeldForLookup
  <2>2. Occupied(heldKey) /\ UNCHANGED pending /\ pc' = "receiving"
    BY <1>3, <2>1 DEF Resend, LetGo, SchedInv, TokensMatchPending
  <2> QED  BY <1>3, <2>1, <2>2 DEF LoopStep, Occupied
<1>4. CASE BeginBatch
  <2>1. pc = "received" /\ heldKey \in Keys /\ Occupied(heldKey)
    BY <1>4 DEF BeginBatch, Take, TypeOK, SchedInv, TokensMatchPending, HeldForLookup
  <2>2. /\ pending' = [pending EXCEPT ![heldKey] = NoCid] /\ UNCHANGED heldKey
        /\ pc' = "cleaning" /\ heldCid' = pending[heldKey]
    BY <1>4, <2>1 DEF BeginBatch, Take
  <2>3. \A k \in Keys : ~Occupied(k)'
    BY <2>1, <2>2 DEF KeyInv, Working, Occupied, TypeOK
  <2> QED  BY <1>4, <2>1, <2>2, <2>3 DEF NothingPending
<1>5. CASE FinishBatch
  BY <1>5
  DEF FinishBatch, EndBatch, BatchIsOver, BatchIsRequeued, LetGo, MayRequeue, TypeOK
<1> QED  BY <1>1, <1>2, <1>3, <1>4, <1>5 DEF CleanupStep, LoopStep

\* When nobody publishes, what is pending or cleaned up for is the current
\* document.
CurrentInv ==
  NobodyRuns =>
    /\ \A k \in Keys : Occupied(k) => pending[k] = ipns
    /\ pc = "cleaning" /\ ~Occupied(heldKey) => heldCid = ipns

LEMMA CurrentPub ==
  ASSUME CleanupInv, SchedInv, Careful, SerialInv, KeyInv, NEW p \in Pubs, PubStep(p)
  PROVE  CurrentInv'
<1>1. CASE ~ScheduleCleanup(p)
  BY <1>1, CarefulPubRuns DEF CurrentInv, NobodyRuns
<1>2. CASE ScheduleCleanup(p)
  <2>1. PICK K \in Keys : /\ K = CleanupOf(job[p])
                          /\ pending' = [pending EXCEPT ![K] = cid[p]]
                          /\ Token(K)'
    BY <1>2, CarefulSchedule
  <2>2. cid[p] = ipns /\ cid[p] \in Cids /\ UNCHANGED <<pc, heldKey, heldCid, ipns>>
    BY <1>2, CarefulSchedule DEF ScheduleCleanup, kuboVars
  <2>3. Running(p)
    BY <1>2 DEF ScheduleCleanup, Running
  <2>4. \A k \in Keys : Working(k) => k = K
    BY <2>1, <2>3 DEF KeyInv
  <2>5. pending'[K] = ipns /\ Occupied(K)' /\ \A k \in Keys : Occupied(k)' => k = K
    BY <2>1, <2>2, <2>4, NoCidIsNotACid
    DEF Occupied, Working, CleanupInv, PassTypeOK, TypeOK
  <2>6. pc = "cleaning" => heldKey = K
    BY <2>4 DEF Working, CleanupInv, PassTypeOK, TypeOK
  <2> QED  BY <2>2, <2>5, <2>6 DEF CurrentInv, Occupied
<1> QED  BY <1>1, <1>2

LEMMA CurrentWorker ==
  ASSUME CleanupInv, SchedInv, KeyInv, CurrentInv, CleanupStep, UNCHANGED <<pubVars, ipns>>
  PROVE  CurrentInv'
<1> SUFFICES ASSUME NobodyRuns
             PROVE  /\ \A k \in Keys : Occupied(k)' => pending'[k] = ipns
                    /\ pc' = "cleaning" /\ ~Occupied(heldKey)' => heldCid' = ipns
  BY DEF CurrentInv, NobodyRuns, Running, pubVars
<1>1. CASE PassStep /\ UNCHANGED schedVars
  BY <1>1 DEF CurrentInv, schedVars, Occupied
<1>2. CASE UNCHANGED pending /\ pc' # "cleaning"
  BY <1>2 DEF CurrentInv, Occupied
<1>3. CASE NothingPending' /\ heldKey \in Keys /\ Occupied(heldKey) /\ heldCid' = pending[heldKey]
  BY <1>3 DEF CurrentInv, NothingPending
<1>4. CASE /\ pc = "cleaning" /\ pc' # "cleaning" /\ heldKey \in Keys /\ ~Occupied(heldKey)
           /\ pending' = [pending EXCEPT ![heldKey] = heldCid]
  BY <1>4 DEF CurrentInv, Occupied, CleanupInv, PassTypeOK, TypeOK
<1> QED  BY <1>1, <1>2, <1>3, <1>4, WorkerSteps

\* Nobody publishes, nothing waits for the worker, and there is a current
\* document.
Settled == NobodyRuns /\ NothingPending /\ ipns # NoCid

\* How far the batch of the current document is: where it removes something
\* it asks for another pass, and where it removes nothing there is nothing.
LocalFacts ==
  \/ step = "listFinal"
  \/ step = "listTemp" /\ finals = LocalNamed("final")
  \/ step = "remove" /\ (removedAny \/ \A pin \in todo : localPins[pin[1]] # "none")
  \/ step = "rename" /\ \A c \in Cids \ {heldCid} : localPins[c] = "none"
  \/ step \notin LocalSteps /\ (localMore \/ LocalIsClean)

LocalInv == Settled => IF pc = "cleaning" THEN LocalFacts ELSE LocalIsClean

LEMMA LocalPub ==
  ASSUME CleanupInv, SchedInv, Careful, SerialInv, KeyInv, NEW p \in Pubs, PubStep(p)
  PROVE  ~Settled'
<1>1. CASE ~ScheduleCleanup(p)
  BY <1>1, CarefulPubRuns DEF Settled, NobodyRuns
<1>2. CASE ScheduleCleanup(p)
  <2>1. PICK K \in Keys : /\ pending' = [pending EXCEPT ![K] = cid[p]]
    BY <1>2, CarefulSchedule
  <2>2. cid[p] \in Cids
    BY <1>2, CarefulSchedule
  <2>3. Occupied(K)'
    BY <2>1, <2>2, NoCidIsNotACid DEF Occupied, CleanupInv, PassTypeOK, TypeOK
  <2> QED  BY <2>3 DEF Settled, NothingPending
<1> QED  BY <1>1, <1>2

\* A local pass.
LEMMA LocalPassCleans ==
  ASSUME CleanupInv, Careful, LocalFacts, heldCid = ipns,
         ListFinal \/ ListTemp \/ Remove \/ Rename
  PROVE  LocalFacts'
<1> USE DEF CleanupInv, PassTypeOK
<1>1. /\ "kubo" \notin setting.faulty
      /\ \A var, new, old : ~Fails("kubo", var, new, old)
  BY DEF Careful, Calm, Fails
<1>2. UNCHANGED <<heldCid, ipns>> /\ heldCid \in Cids
  BY DEF ListFinal, ListTemp, Remove, Rename, schedVars, kuboVars, TypeOK
<1>3. \A more : LocalPassReturns(more) => step' \notin LocalSteps /\ localMore' = more
  BY DEF LocalPassReturns, RemotePassOrEnd, LocalSteps
<1>4. CASE ListFinal
  <2>1. finals' = LocalNamed("final") /\ step' = "listTemp" /\ UNCHANGED localPins
    BY <1>1, <1>4 DEF ListFinal, kuboVars
  <2> QED  BY <2>1 DEF LocalFacts, LocalNamed
<1>5. CASE ListTemp
  <2> DEFINE stale == StalePins(ListedPins(finals, LocalNamed("temp")))
  <2>1. finals = LocalNamed("final") /\ UNCHANGED localPins
    BY <1>5 DEF ListTemp, LocalFacts, LocalSteps, kuboVars
  <2>2. \A pin \in stale : localPins[pin[1]] # "none"
    BY <2>1 DEF StalePins, ListedPins, LocalNamed
  <2>3. ASSUME stale = {}, NEW c \in Cids \ {heldCid} PROVE localPins[c] = "none"
    <3>1. SUFFICES ASSUME localPins[c] # "none" PROVE FALSE
      OBVIOUS
    <3>2. localPins[c] \in PinNames
      BY <3>1
    <3>3. <<c, localPins[c]>> \in stale
      BY <2>1, <3>2 DEF StalePins, ListedPins, LocalNamed, PinNames
    <3> QED  BY <2>3, <3>3
  <2>4. \/ step' = "remove" /\ todo' = stale
        \/ step' = "rename" /\ stale = {}
        \/ stale = {} /\ heldCid \in finals /\ LocalPassReturns(FALSE)
    BY <1>1, <1>5 DEF ListTemp
  <2>5. CASE step' = "remove" /\ todo' = stale
    BY <2>1, <2>2, <2>5 DEF LocalFacts
  <2>6. CASE step' = "rename" /\ stale = {}
    BY <1>2, <2>1, <2>3, <2>6 DEF LocalFacts
  <2>7. CASE stale = {} /\ heldCid \in finals /\ LocalPassReturns(FALSE)
    <3>1. localPins[heldCid] = "final"
      BY <2>1, <2>7 DEF LocalNamed
    <3>2. LocalIsClean
      BY <2>3, <2>7, <3>1 DEF LocalIsClean
    <3> QED  BY <1>2, <1>3, <2>1, <2>7, <3>2 DEF LocalFacts, LocalIsClean
  <2> QED  BY <2>4, <2>5, <2>6, <2>7
<1>6. CASE Remove
  <2>1. removedAny \/ \A pin \in todo : localPins[pin[1]] # "none"
    BY <1>6 DEF Remove, LocalFacts, LocalSteps
  <2>2. PICK pin \in todo, ok \in BOOLEAN :
           /\ \/ ok /\ localPins[pin[1]] # "none"
              \/ ~ok /\ localPins[pin[1]] = "none"
           /\ \/ LocalPassReturns(Progress(ok))
              \/ step' = step /\ removedAny' = Progress(ok)
    BY <1>1, <1>6 DEF Remove
  <2>3. Progress(ok) = TRUE
    BY <2>1, <2>2 DEF Progress
  <2>4. step = "remove"
    BY <1>6 DEF Remove
  <2>5. CASE LocalPassReturns(Progress(ok))
    <3>1. step' \notin LocalSteps /\ localMore' = Progress(ok)
      BY <1>3, <2>5
    <3> QED  BY <2>3, <3>1 DEF LocalFacts
  <2>6. CASE step' = step /\ removedAny' = Progress(ok)
    BY <2>3, <2>4, <2>6 DEF LocalFacts
  <2> QED  BY <2>2, <2>5, <2>6
<1>7. CASE Rename
  <2>1. \A c \in Cids \ {heldCid} : localPins[c] = "none"
    BY <1>7 DEF Rename, LocalFacts, LocalSteps
  <2>2. localPins' = Pinned(heldCid, "final") /\ LocalPassReturns(FALSE)
    BY <1>1, <1>7 DEF Rename
  <2>3. LocalIsClean'
    BY <1>2, <2>1, <2>2, PinnedType DEF LocalIsClean, PinNames, Pinned
  <2> QED  BY <1>3, <2>2, <2>3 DEF LocalFacts
<1> QED  BY <1>4, <1>5, <1>6, <1>7

LEMMA LocalWorker ==
  ASSUME CleanupInv, SchedInv, Careful, KeyInv, CurrentInv, LocalInv, CleanupStep,
         UNCHANGED <<pubVars, ipns>>
  PROVE  LocalInv'
<1> SUFFICES ASSUME Settled' PROVE IF pc' = "cleaning" THEN LocalFacts' ELSE LocalIsClean'
  BY DEF LocalInv
<1>1. NobodyRuns /\ ipns # NoCid /\ NothingPending'
  BY DEF Settled, NobodyRuns, Running, pubVars
<1>2. CASE PassStep /\ UNCHANGED schedVars
  <2>1. pc = "cleaning" /\ pc' = "cleaning"
    BY <1>2, LocalPassType, RemotePassType
    DEF PassStep, CleanupStep, CleanupInv, schedVars
  <2>2. NothingPending /\ heldKey # NoKey
    BY <1>1, <1>2, <2>1
    DEF NothingPending, Occupied, schedVars, CleanupInv, PassTypeOK, TypeOK
  <2>3. LocalFacts /\ heldCid = ipns
    BY <1>1, <2>1, <2>2, HeldKeyIsLocal DEF LocalInv, Settled, CurrentInv, NothingPending
  <2>4. CASE ListFinal \/ ListTemp \/ Remove \/ Rename
    BY <2>1, <2>3, <2>4, LocalPassCleans
  <2>5. CASE RListFinal \/ RListTemp \/ RRemove \/ RDropTemp \/ RAddFinal
    <3>1. step \notin LocalSteps /\ step' \notin LocalSteps /\ UNCHANGED <<localPins, ipns, localMore>>
      BY <2>5 DEF RListFinal, RListTemp, RRemove, RDropTemp, RAddFinal, LocalSteps, kuboVars
    <3>2. localMore \/ LocalIsClean
      BY <2>3, <3>1 DEF LocalFacts, LocalSteps
    <3> QED  BY <2>1, <3>1, <3>2 DEF LocalFacts, LocalIsClean
  <2> QED  BY <1>2, <2>4, <2>5 DEF PassStep
<1>3. CASE \E k \in Keys : Occupied(k)'
  BY <1>1, <1>3 DEF NothingPending
<1>4. CASE BeginBatch /\ pc' = "cleaning" /\ heldKey \in Keys /\ Occupied(heldKey)
  <2>1. heldKey # NoKey
    BY <1>4, NoKeyIsNotAKey
  <2>2. step' = "listFinal"
    BY <1>4, <2>1, HeldKeyIsLocal DEF BeginBatch
  <2> QED  BY <1>4, <2>2 DEF LocalFacts
<1>5. CASE /\ FinishBatch /\ pc = "cleaning" /\ pc' # "cleaning" /\ heldKey \in Keys
           /\ UNCHANGED pending /\ (Occupied(heldKey) \/ ~(localMore \/ removedAny))
  <2>1. NothingPending /\ ~localMore
    BY <1>1, <1>5 DEF NothingPending, Occupied
  <2>2. step = "end" /\ LocalFacts /\ UNCHANGED localPins
    BY <1>1, <1>5, <2>1 DEF FinishBatch, LocalInv, Settled, kuboVars
  <2>3. LocalIsClean
    BY <2>1, <2>2 DEF LocalFacts
  <2> QED  BY <1>5, <2>2, <2>3 DEF LocalIsClean
<1>6. CASE heldKey \in Keys /\ heldCid \in Cids /\ pending' = [pending EXCEPT ![heldKey] = heldCid]
  BY <1>1, <1>6, NoCidIsNotACid
  DEF NothingPending, Occupied, CleanupInv, PassTypeOK, TypeOK
<1> QED  BY <1>2, <1>3, <1>4, <1>5, <1>6, WorkerSteps

\* The pin service has a record of this CID, under either name.
Recorded(c) == \E n \in PinNames : <<c, n>> \in remotePins

RemoteFacts ==
  \/ step \in LocalSteps \cup {"rListFinal"} /\ Recorded(ipns)
  \/ step = "rListTemp" /\ Recorded(ipns) /\ finals = RemoteNamed("final")
  \/ step = "rRemove" /\ Recorded(ipns)
  \/ step = "rDropTemp" /\ finals = RemoteNamed("final") /\ \A r \in remotePins : r[1] = ipns
  \/ step = "rAddFinal" /\ remotePins = {}
  \/ step = "end" /\ Recorded(ipns) /\ (localMore \/ removedAny \/ RemoteIsClean)

RemoteInv ==
  AllRemote =>
    /\ \A p \in Pubs : pubPc[p] = "schedule" => Recorded(cid[p])
    /\ NobodyRuns /\ ipns # NoCid =>
         IF pc = "cleaning" THEN NothingPending /\ RemoteFacts
         ELSE Recorded(ipns) /\ (NothingPending => RemoteIsClean)

LEMMA RemotePub ==
  ASSUME CleanupInv, SchedInv, QuietInv, Careful, SerialInv, KeyInv, RemoteInv,
         NEW p \in Pubs, PubStep(p), UNCHANGED setting
  PROVE  RemoteInv'
<1> USE DEF CleanupInv, PassTypeOK
<1> SUFFICES ASSUME AllRemote
             PROVE  /\ \A q \in Pubs : pubPc'[q] = "schedule" => Recorded(cid[q])'
                    /\ NobodyRuns' =>
                         pc' # "cleaning" /\ Recorded(ipns)' /\ ~NothingPending'
  BY DEF RemoteInv, AllRemote
<1>1. CASE ScheduleCleanup(p)
  <2>1. PICK K \in Keys : pending' = [pending EXCEPT ![K] = cid[p]]
    BY <1>1, CarefulSchedule
  <2>2. cid[p] = ipns /\ cid[p] \in Cids /\ UNCHANGED <<pc, ipns, remotePins, cid>>
    BY <1>1, CarefulSchedule DEF ScheduleCleanup, kuboVars
  <2>3. pubPc[p] = "schedule" /\ Running(p)
    BY <1>1 DEF ScheduleCleanup, Running
  <2>4. pc # "cleaning"
    BY <2>3 DEF QuietInv, Quiet, AllRemote, WorkerIsIdle
  <2>5. Recorded(ipns)'
    BY <2>2, <2>3 DEF RemoteInv, Recorded
  <2>6. ~NothingPending'
    BY <2>1, <2>2, NoCidIsNotACid DEF NothingPending, Occupied, TypeOK
  <2>7. \A q \in Pubs : ~Running(q)'
    BY <1>1, ScheduleEnds DEF NobodyRuns
  <2> QED  BY <2>2, <2>4, <2>5, <2>6, <2>7 DEF Running
<1>2. CASE ~ScheduleCleanup(p)
  <2>1. Running(p)'
    BY <1>2, CarefulPubRuns
  <2>2. \A q \in Pubs \ {p} : ~Running(q) /\ pubPc'[q] = pubPc[q]
    BY DEF PubStep, Start, MayStart, PinFresh, NamePublish, Replicate, ScheduleCleanup, Goto,
           SerialInv, Careful, Running
  <2>3. \A q \in Pubs \ {p} : pubPc'[q] # "schedule"
    BY <2>2 DEF Running
  <2>4. ASSUME pubPc'[p] = "schedule" PROVE Recorded(cid[p])'
    <3>1. setting.faulty = {} /\ (pubPc[p] # "idle" => job[p].remote)
      BY DEF Careful, Calm, PubInv, AllRemote
    <3>2. Replicate(p) /\ remotePins' \in RemoteAdded(cid[p], "final") /\ UNCHANGED cid
      BY <1>2, <2>4, <3>1
      DEF PubStep, Start, PinFresh, NamePublish, Replicate, Goto, Fails
    <3>3. \E m \in PinNames : <<cid[p], m>> \in remotePins'
      BY <3>2 DEF RemoteAdded, PinNames
    <3> QED  BY <3>2, <3>3 DEF Recorded
  <2> QED  BY <2>1, <2>3, <2>4 DEF NobodyRuns
<1> QED  BY <1>1, <1>2

\* A remote pass.
LEMMA RemotePassCleans ==
  ASSUME CleanupInv, Careful, RemoteFacts, heldCid = ipns,
         RListFinal \/ RListTemp \/ RRemove \/ RDropTemp \/ RAddFinal
  PROVE  RemoteFacts'
<1> USE DEF CleanupInv, PassTypeOK
<1>1. /\ "service" \notin setting.faulty
      /\ \A var, new, old : ~Fails("service", var, new, old)
  BY DEF Careful, Calm, Fails
<1>2. UNCHANGED <<heldCid, ipns>> /\ heldCid \in Cids
  BY DEF RListFinal, RListTemp, RRemove, RDropTemp, RAddFinal, schedVars, kuboVars, TypeOK
<1>3. \A r \in remotePins : \E c \in Cids, n \in PinNames : r = <<c, n>>
  OBVIOUS
<1>4. CASE RListFinal
  <2>1. finals' = RemoteNamed("final") /\ step' = "rListTemp" /\ UNCHANGED remotePins
    BY <1>1, <1>4 DEF RListFinal, kuboVars
  <2>2. Recorded(ipns)
    BY <1>4 DEF RListFinal, RemoteFacts
  <2> QED  BY <1>2, <2>1, <2>2 DEF RemoteFacts, RemoteNamed, Recorded
<1>5. CASE RListTemp
  <2> DEFINE stale == StalePins(ListedPins(finals, RemoteNamed("temp")))
  <2>1. finals = RemoteNamed("final") /\ UNCHANGED <<remotePins, finals>> /\ Recorded(ipns)
    BY <1>5 DEF RListTemp, RemoteFacts, LocalSteps, kuboVars
  <2>2. step' = IF stale # {} THEN "rRemove"
                ELSE IF heldCid \in RemoteNamed("temp") THEN "rDropTemp" ELSE "end"
    BY <1>1, <1>5 DEF RListTemp
  <2>3. ASSUME stale = {}, NEW c \in Cids, NEW n \in PinNames, <<c, n>> \in remotePins
        PROVE  c = ipns
    <3>1. <<c, n>> \in ListedPins(finals, RemoteNamed("temp"))
      BY <2>1, <2>3 DEF ListedPins, RemoteNamed, PinNames
    <3> QED  BY <2>3, <3>1 DEF StalePins
  <2>4. stale = {} => \A r \in remotePins : r[1] = ipns
    BY <1>3, <2>3
  <2>5. CASE stale # {}
    BY <1>2, <2>1, <2>2, <2>5 DEF RemoteFacts, Recorded
  <2>6. CASE stale = {} /\ heldCid \in RemoteNamed("temp")
    BY <1>2, <2>1, <2>2, <2>4, <2>6 DEF RemoteFacts, RemoteNamed
  <2>7. CASE stale = {} /\ heldCid \notin RemoteNamed("temp")
    <3>1. <<ipns, "temp">> \notin remotePins
      BY <1>2, <2>7 DEF RemoteNamed
    <3>2. \A c \in Cids, n \in PinNames : <<c, n>> \in remotePins => c = ipns /\ n = "final"
      BY <2>3, <2>7, <3>1 DEF PinNames
    <3>3. <<ipns, "final">> \in remotePins
      BY <2>1, <3>1 DEF Recorded, PinNames
    <3>4. RemoteIsClean
      BY <1>3, <3>2, <3>3 DEF RemoteIsClean
    <3>5. step' = "end"
      BY <2>2, <2>7
    <3> QED  BY <1>2, <2>1, <3>4, <3>5 DEF RemoteFacts, RemoteIsClean, Recorded
  <2> QED  BY <2>5, <2>6, <2>7
<1>6. CASE RRemove
  <2>1. Recorded(ipns)
    BY <1>6 DEF RRemove, RemoteFacts, LocalSteps
  <2>2. PICK pin \in todo : /\ remotePins' = RemoteRemoved(pin[1], pin[2])
                            /\ removedAny' = TRUE
                            /\ step' \in {"end", "rRemove"}
    BY <1>1, <1>6 DEF RRemove, Progress
  <2>3. pin[1] # ipns
    BY DEF BatchInv
  <2>4. Recorded(ipns)'
    BY <1>2, <2>1, <2>2, <2>3 DEF Recorded, RemoteRemoved
  <2> QED  BY <2>2, <2>4 DEF RemoteFacts
<1>7. CASE RDropTemp
  <2>1. finals = RemoteNamed("final") /\ \A r \in remotePins : r[1] = ipns
    BY <1>7 DEF RDropTemp, RemoteFacts, LocalSteps
  <2>2. /\ remotePins' = RemoteRemoved(heldCid, "temp")
        /\ step' = IF heldCid \in finals THEN "end" ELSE "rAddFinal"
    BY <1>1, <1>7 DEF RDropTemp
  <2>3. remotePins' = IF <<ipns, "final">> \in remotePins THEN {<<ipns, "final">>} ELSE {}
    <3>1. \A r \in remotePins : r \in {<<ipns, "final">>, <<ipns, "temp">>}
      BY <1>3, <2>1 DEF PinNames
    <3> QED  BY <2>2, <3>1 DEF RemoteRemoved
  <2>4. heldCid \in finals <=> <<ipns, "final">> \in remotePins
    BY <1>2, <2>1 DEF RemoteNamed
  <2>5. CASE <<ipns, "final">> \in remotePins
    BY <1>2, <2>2, <2>3, <2>4, <2>5 DEF RemoteFacts, RemoteIsClean, Recorded, PinNames
  <2>6. CASE <<ipns, "final">> \notin remotePins
    BY <2>2, <2>3, <2>4, <2>6 DEF RemoteFacts
  <2> QED  BY <2>5, <2>6
<1>8. CASE RAddFinal
  <2>1. remotePins = {} /\ step' = "end"
    BY <1>8 DEF RAddFinal, RemoteFacts, LocalSteps
  <2>2. remotePins' \in RemoteAdded(heldCid, "final")
    BY <1>1, <1>8 DEF RAddFinal
  <2>3. remotePins' = {<<ipns, "final">>}
    BY <2>1, <2>2 DEF RemoteAdded
  <2> QED  BY <1>2, <2>1, <2>3 DEF RemoteFacts, RemoteIsClean, Recorded, PinNames
<1> QED  BY <1>4, <1>5, <1>6, <1>7, <1>8

LEMMA RemoteWorker ==
  ASSUME CleanupInv, SchedInv, QuietInv, Careful, KeyInv, CurrentInv, RemoteInv, CleanupStep,
         UNCHANGED <<pubVars, ipns, setting>>
  PROVE  RemoteInv'
<1> SUFFICES ASSUME AllRemote, AllRemote', ipns # NoCid
             PROVE  IF pc' = "cleaning" THEN NothingPending' /\ RemoteFacts'
                    ELSE Recorded(ipns)' /\ (NothingPending' => RemoteIsClean')
  <2>1. ~WorkerIsIdle
    BY WorkerIsBusy DEF CleanupInv
  <2>2. AllRemote => \A p \in Pubs : pubPc'[p] # "schedule"
    BY <2>1 DEF AllRemote, QuietInv, Quiet, Running, pubVars
  <2> QED  BY <2>2 DEF RemoteInv, AllRemote
<1>1. NobodyRuns
  BY WorkerIsBusy DEF CleanupInv, AllRemote, QuietInv, Quiet, NobodyRuns
<1>2. IF pc = "cleaning" THEN NothingPending /\ RemoteFacts
      ELSE Recorded(ipns) /\ (NothingPending => RemoteIsClean)
  BY <1>1 DEF RemoteInv
<1>3. CASE PassStep /\ UNCHANGED schedVars
  <2>1. pc = "cleaning" /\ pc' = "cleaning" /\ heldKey # NoKey
    BY <1>3, LocalPassType, RemotePassType
    DEF PassStep, CleanupStep, CleanupInv, PassTypeOK, TypeOK, schedVars
  <2>2. NothingPending /\ NothingPending' /\ RemoteFacts
    BY <1>2, <1>3, <2>1 DEF NothingPending, Occupied, schedVars
  <2>3. heldCid = ipns /\ heldKey.remote
    BY <1>1, <2>1, <2>2, HeldKeyIsLocal DEF CurrentInv, NothingPending
  <2>4. CASE ListFinal \/ ListTemp \/ Remove \/ Rename
    <3>1. step \in LocalSteps /\ UNCHANGED remotePins
      BY <2>4 DEF ListFinal, ListTemp, Remove, Rename, LocalSteps, kuboVars
    <3>2. step' \in LocalSteps \cup {"rListFinal"}
      BY <2>3, <2>4
      DEF ListFinal, ListTemp, Remove, Rename, LocalPassReturns, RemotePassOrEnd, LocalSteps
    <3>3. Recorded(ipns)
      BY <2>2, <3>1 DEF RemoteFacts, LocalSteps
    <3> QED  BY <2>1, <2>2, <3>1, <3>2, <3>3 DEF RemoteFacts, Recorded
  <2>5. CASE RListFinal \/ RListTemp \/ RRemove \/ RDropTemp \/ RAddFinal
    BY <2>1, <2>2, <2>3, <2>5, RemotePassCleans
  <2> QED  BY <1>3, <2>4, <2>5 DEF PassStep
<1>4. CASE /\ Receive \/ Resend
           /\ UNCHANGED kuboVars
           /\ (\E k \in Keys : Occupied(k)') /\ pc' # "cleaning"
  <2>1. Recorded(ipns) /\ UNCHANGED remotePins
    BY <1>2, <1>4 DEF Receive, Resend, kuboVars
  <2> QED  BY <1>4, <2>1 DEF Recorded, NothingPending
<1>5. CASE BeginBatch /\ pc' = "cleaning" /\ NothingPending' /\ heldKey \in Keys
  <2>1. heldKey # NoKey
    BY <1>5, NoKeyIsNotAKey
  <2>2. step' = "listFinal"
    BY <1>5, <2>1, HeldKeyIsLocal DEF BeginBatch, Take
  <2>3. Recorded(ipns) /\ UNCHANGED remotePins
    BY <1>2, <1>5 DEF BeginBatch, Take, kuboVars
  <2> QED  BY <1>5, <2>2, <2>3 DEF RemoteFacts, Recorded, LocalSteps
<1>6. CASE /\ FinishBatch /\ pc = "cleaning" /\ pc' # "cleaning" /\ heldKey \in Keys
           /\ heldCid \in Cids
           /\ \/ UNCHANGED pending /\ (Occupied(heldKey) \/ ~(localMore \/ removedAny))
              \/ pending' = [pending EXCEPT ![heldKey] = heldCid]
  <2>1. step = "end" /\ UNCHANGED remotePins
    BY <1>6 DEF FinishBatch, kuboVars
  <2>2. NothingPending /\ Recorded(ipns) /\ (localMore \/ removedAny \/ RemoteIsClean)
    BY <1>2, <1>6, <2>1 DEF RemoteFacts, LocalSteps
  <2>3. CASE UNCHANGED pending
    <3>1. ~(localMore \/ removedAny)
      BY <1>6, <2>2, <2>3, NoCidIsNotACid
      DEF NothingPending, Occupied, CleanupInv, PassTypeOK, TypeOK
    <3> QED  BY <1>6, <2>1, <2>2, <3>1 DEF Recorded, RemoteIsClean
  <2>4. CASE pending' = [pending EXCEPT ![heldKey] = heldCid]
    <3>1. ~NothingPending'
      BY <1>6, <2>4, NoCidIsNotACid DEF NothingPending, Occupied, CleanupInv, PassTypeOK, TypeOK
    <3> QED  BY <1>6, <2>1, <2>2, <3>1 DEF Recorded
  <2> QED  BY <1>6, <2>3, <2>4
<1> QED  BY <1>3, <1>4, <1>5, <1>6, WorkerSteps

RestInv == Careful => SerialInv /\ KeyInv /\ CurrentInv /\ LocalInv /\ RemoteInv

LEMMA NextRestInv ==
  CleanupInv /\ SchedInv /\ QuietInv /\ RestInv /\ [Next]_vars => RestInv'
<1> SUFFICES ASSUME CleanupInv, SchedInv, QuietInv, RestInv, [Next]_vars, Careful'
             PROVE  SerialInv' /\ KeyInv' /\ CurrentInv' /\ LocalInv' /\ RemoteInv'
  BY DEF RestInv
<1>1. UNCHANGED setting
  BY DEF Next, CleanupStep, vars
<1>2. Careful
  BY <1>1 DEF Careful, Calm
<1>3. SerialInv /\ KeyInv /\ CurrentInv /\ LocalInv /\ RemoteInv
  BY <1>2 DEF RestInv
<1>4. ASSUME NEW p \in Pubs, PubStep(p)
      PROVE  SerialInv' /\ KeyInv' /\ CurrentInv' /\ LocalInv' /\ RemoteInv'
  <2>1. SerialInv'
    BY <1>1, <1>2, <1>3, <1>4, SerialPub
  <2>2. KeyInv'
    BY <1>1, <1>2, <1>3, <1>4, <2>1, KeyPub
  <2>3. CurrentInv'
    BY <1>2, <1>3, <1>4, CurrentPub
  <2>4. LocalInv'
    BY <1>2, <1>3, <1>4, LocalPub DEF LocalInv
  <2>5. RemoteInv'
    BY <1>1, <1>2, <1>3, <1>4, RemotePub
  <2> QED  BY <2>1, <2>2, <2>3, <2>4, <2>5
<1>5. CASE CleanupStep
  <2>1. UNCHANGED <<ipns, pubVars>>
    BY <1>5, LocalPassType, RemotePassType, LoopType
    DEF CleanupStep, PassStep, kuboVars, CleanupInv
  <2>2. SerialInv'
    BY <1>3, <2>1 DEF SerialInv, Running, pubVars
  <2>3. KeyInv'
    BY <1>1, <1>3, <1>5, <2>1, KeyWorker
  <2>4. CurrentInv'
    BY <1>3, <1>5, <2>1, CurrentWorker
  <2>5. LocalInv'
    BY <1>2, <1>3, <1>5, <2>1, LocalWorker
  <2>6. RemoteInv'
    BY <1>1, <1>2, <1>3, <1>5, <2>1, RemoteWorker
  <2> QED  BY <2>2, <2>3, <2>4, <2>5, <2>6
<1>6. ~Crash
  BY <1>2 DEF Careful, Calm, Crash
<1>7. CASE UNCHANGED vars
  <2>1. UNCHANGED <<schedVars, kuboVars, pubVars, passVars, setting>>
    BY <1>7 DEF vars
  <2>2. /\ \A p \in Pubs : Running(p)' <=> Running(p)
        /\ \A k \in Keys : /\ Occupied(k)' <=> Occupied(k)
                           /\ Working(k)' <=> Working(k)
                           /\ Token(k)' <=> Token(k)
    BY <2>1 DEF schedVars, pubVars, Running, Occupied, Working, Token, Queued, HeldForLookup
  <2>3. (NobodyRuns' <=> NobodyRuns) /\ (NothingPending' <=> NothingPending)
    BY <2>2 DEF NobodyRuns, NothingPending
  <2>4. SerialInv'
    BY <1>3, <2>1, <2>2 DEF SerialInv, kuboVars, pubVars
  <2>5. KeyInv'
    BY <1>3, <2>1, <2>2 DEF KeyInv, schedVars, pubVars, CleanupOf
  <2>6. CurrentInv'
    BY <1>3, <2>1, <2>3 DEF CurrentInv, schedVars, kuboVars, Occupied
  <2>7. LocalFacts' <=> LocalFacts
    BY <2>1 DEF LocalFacts, LocalIsClean, LocalNamed, schedVars, kuboVars, passVars
  <2>8. LocalInv'
    BY <1>3, <2>1, <2>3, <2>7 DEF LocalInv, Settled, LocalIsClean, schedVars, kuboVars
  <2>9. RemoteFacts' <=> RemoteFacts
    BY <2>1 DEF RemoteFacts, RemoteIsClean, RemoteNamed, Recorded, kuboVars, passVars
  <2>10. RemoteInv'
    BY <1>3, <2>1, <2>3, <2>9
    DEF RemoteInv, AllRemote, RemoteIsClean, Recorded, schedVars, kuboVars, pubVars
  <2> QED  BY <2>4, <2>5, <2>6, <2>8, <2>10
<1> QED  BY <1>4, <1>5, <1>6, <1>7 DEF Next

LEMMA InitRestInv == Init => RestInv
<1> SUFFICES ASSUME Init PROVE SerialInv /\ KeyInv /\ CurrentInv /\ LocalInv /\ RemoteInv
  BY DEF RestInv
<1>1. /\ \A p \in Pubs : pubPc[p] = "idle" /\ ~replicated[p] /\ ~Running(p)
      /\ \A k \in Keys : ~Working(k) /\ ~Occupied(k)
      /\ pc = "receiving" /\ ipns = NoCid
  BY NoKeyIsNotAKey DEF Init, SchedInit, Running, Working, Occupied
<1> QED
  BY <1>1 DEF SerialInv, KeyInv, CurrentInv, LocalInv, RemoteInv, Settled

\* The purpose of overwrite: whenever publishers and worker are at rest,
\* exactly the document the IPNS name points to is pinned, under the managed
\* name, and at the pin service too if publications are replicated and wait
\* for the cleanup.  So cleanup_one_batch asks for another pass as long as
\* there is something to remove, and a publication that overlaps a batch has
\* one of its own, whatever the capacity of the channel.
THEOREM RestCorrect == Spec => []RestIsClean
<1>1. Spec => []RestInv
  BY CleanupCorrect, SchedCorrect, QuietCorrect, InitRestInv, NextRestInv, PTL DEF Spec
<1>2. CleanupInv /\ RestInv => RestIsClean
  <2> SUFFICES ASSUME CleanupInv, RestInv, Careful, Quiescent, ipns # NoCid
               PROVE  LocalIsClean /\ (AllRemote => RemoteIsClean)
    BY DEF RestIsClean
  <2>1. KeyInv /\ LocalInv /\ RemoteInv
    BY DEF RestInv
  <2>2. NobodyRuns /\ NothingPending /\ pc # "cleaning"
    BY <2>1, IdleHasNoWork
    DEF Quiescent, NobodyRuns, NothingPending, WorkerIsIdle, Working, CleanupInv, PassTypeOK
  <2> QED  BY <2>1, <2>2 DEF LocalInv, RemoteInv, Settled
<1> QED  BY <1>1, <1>2, CleanupCorrect, PTL

=============================================================================
