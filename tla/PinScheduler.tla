---------------------------- MODULE PinScheduler ----------------------------
(***************************************************************************)
(* PinCleanupScheduler and its detached worker (src/kubo/pinning.rs).      *)
(*                                                                         *)
(* Publishers call schedule() from any task.  It takes the `pending` lock, *)
(* replaces the request of a key that is already pending, and otherwise    *)
(* needs a place in the bounded `wake` channel.  One worker receives keys, *)
(* removes their request from `pending`, runs one cleanup batch without    *)
(* the lock, and puts an unfinished request back.  The batch itself is in  *)
(* module PinCleanup; here it is any outcome at any time.                  *)
(***************************************************************************)
EXTENDS Naturals, Sequences, FiniteSets

CONSTANTS
  Keys,      \* PinCleanupKey values: everything in a request but its CID
  Cids,      \* protected_cid values
  NoCid,     \* key absent from `pending`, or no request in hand
  NoKey,     \* no key in hand
  Capacity   \* capacity of the `wake` channel

ASSUME KeysFinite == IsFiniteSet(Keys)
ASSUME CapacityPositive == Capacity \in Nat \ {0}   \* capacity.max(1)
ASSUME NoCidIsNotACid == NoCid \notin Cids
ASSUME NoKeyIsNotAKey == NoKey \notin Keys

VARIABLES
  pending,   \* the map under the mutex: CID to protect per key, or NoCid
  wake,      \* keys queued in the mpsc channel
  pc,        \* where run_cleanup_worker is
  heldKey,   \* its local `key`
  heldCid,   \* its local `request`, once taken
  reply,     \* what the last schedule() returned to its caller
  newest     \* history: the last request of each key that was accepted

schedVars == <<pending, wake, pc, heldKey, heldCid, reply, newest>>

WorkerPoints == {"receiving", "received", "cleaning", "yielding", "ended"}

\* The type of every variable, and which locals the worker's point defines:
\* the key from recv() to the end of the iteration, the request only while
\* cleanup_one_batch runs (requeueing moves it back into the map).
TypeOK ==
  /\ pending \in [Keys -> Cids \cup {NoCid}]
  /\ wake \in Seq(Keys)
  /\ pc \in WorkerPoints
  /\ heldKey \in Keys \cup {NoKey}
  /\ heldCid \in Cids \cup {NoCid}
  /\ reply \in BOOLEAN
  /\ newest \in [Keys -> Cids \cup {NoCid}]
  /\ heldKey = NoKey <=> pc \in {"receiving", "ended"}
  /\ heldCid = NoCid <=> pc # "cleaning"

SchedInit ==
  /\ pending = [k \in Keys |-> NoCid]
  /\ wake = <<>>
  /\ pc = "receiving"
  /\ heldKey = NoKey
  /\ heldCid = NoCid
  /\ reply = TRUE
  /\ newest = [k \in Keys |-> NoCid]

-----------------------------------------------------------------------------
(* The channel and the map.                                                *)

Occupied(k) == pending[k] # NoCid

\* Mutant: one place of the channel is never used.
HasRoomForOneLess == pc # "ended" /\ Len(wake) + 1 < Capacity

\* mpsc::Sender::try_send succeeds: the receiver lives and there is room.
HasRoom == pc # "ended" /\ Len(wake) < Capacity

Queued(k) == \E i \in 1 .. Len(wake) : wake[i] = k

Accepted(k, c) ==
  /\ pending' = [pending EXCEPT ![k] = c]
  /\ newest' = [newest EXCEPT ![k] = c]
  /\ reply' = TRUE

-----------------------------------------------------------------------------
(* schedule(), one critical section of the `pending` lock.                 *)

\* The key is pending: its request is replaced, nothing is sent.
Replace(k, c) ==
  /\ Occupied(k)
  /\ Accepted(k, c)
  /\ UNCHANGED <<wake, pc, heldKey, heldCid>>

Enqueue(k, c) ==
  /\ ~Occupied(k)
  /\ HasRoom
  /\ Accepted(k, c)
  /\ wake' = Append(wake, k)
  /\ UNCHANGED <<pc, heldKey, heldCid>>

\* The channel is full or closed: the request is dropped.
Refuse(k, c) ==
  /\ ~Occupied(k)
  /\ ~HasRoom
  /\ reply' = FALSE
  /\ UNCHANGED <<pending, wake, pc, heldKey, heldCid, newest>>

Schedule(k, c) == Replace(k, c) \/ Enqueue(k, c) \/ Refuse(k, c)

-----------------------------------------------------------------------------
(* run_cleanup_worker.                                                     *)

Receive ==
  /\ pc = "receiving"
  /\ wake # <<>>
  /\ heldKey' = Head(wake)
  /\ wake' = Tail(wake)
  /\ pc' = "received"
  /\ UNCHANGED <<pending, heldCid, reply, newest>>

\* pending.remove(&key); the else branch is the `continue` of the loop.
Take ==
  /\ pc = "received"
  /\ heldCid' = pending[heldKey]
  /\ pending' = [pending EXCEPT ![heldKey] = NoCid]
  /\ IF Occupied(heldKey)
     THEN pc' = "cleaning" /\ UNCHANGED heldKey
     ELSE pc' = "receiving" /\ heldKey' = NoKey
  /\ UNCHANGED <<wake, reply, newest>>

\* Mutant: the worker goes on with the request of the previous batch.
LetGoKeepingRequest ==
  /\ pc' = "receiving"
  /\ heldKey' = NoKey
  /\ UNCHANGED heldCid

LetGo ==
  /\ pc' = "receiving"
  /\ heldKey' = NoKey
  /\ heldCid' = NoCid

\* Mutant: the contains_key test is missing.
MayRequeueAlways(k) == TRUE

\* A batch that wants another pass goes back only into a vacant entry.
MayRequeue(k) == ~Occupied(k)

\* cleanup_one_batch returned false, or a newer request came in meanwhile.
BatchIsOver(more) ==
  /\ pc = "cleaning"
  /\ ~(more /\ MayRequeue(heldKey))
  /\ LetGo
  /\ UNCHANGED <<pending, wake, reply, newest>>

BatchIsRequeued(more) ==
  /\ pc = "cleaning"
  /\ more /\ MayRequeue(heldKey)
  /\ pending' = [pending EXCEPT ![heldKey] = heldCid]
  /\ heldCid' = NoCid
  /\ pc' = "yielding"
  /\ UNCHANGED <<wake, heldKey, reply, newest>>

EndBatch(more) == BatchIsOver(more) \/ BatchIsRequeued(more)

\* After CLEANUP_YIELD: a full channel loses the key, not its pending entry.
Resend ==
  /\ pc = "yielding"
  /\ wake' = IF HasRoom THEN Append(wake, heldKey) ELSE wake
  /\ LetGo
  /\ UNCHANGED <<pending, reply, newest>>

\* The runtime that spawned the task shuts down (or the task panics), and
\* the receiver closes with it; the sender of a `static` scheduler lives on.
WorkerEnds ==
  /\ pc # "ended"
  /\ pc' = "ended"
  /\ wake' = <<>>
  /\ heldKey' = NoKey
  /\ heldCid' = NoCid
  /\ UNCHANGED <<pending, reply, newest>>

WorkerStep ==
  Receive \/ Take \/ Resend \/ \E more \in BOOLEAN : EndBatch(more)

SchedNext ==
  \/ \E k \in Keys, c \in Cids : Schedule(k, c)
  \/ WorkerStep
  \/ WorkerEnds

SchedSpec == SchedInit /\ [][SchedNext]_schedVars

\* Tokio keeps polling a runnable task, and a batch ends because each of its
\* HTTP calls has a timeout; nobody promises calls to schedule().
FairSchedSpec == SchedSpec /\ WF_schedVars(WorkerStep)

-----------------------------------------------------------------------------
(* Properties.                                                             *)

\* The worker is about to send this key, or has received it and will look
\* it up in the map.
HeldForLookup(k) == pc \in {"received", "yielding"} /\ heldKey = k

\* A key is never queued twice and never queued without a pending request,
\* and none is queued that the worker is about to look up or to resend: so
\* the `continue` of run_cleanup_worker is never taken, the channel holds at
\* most one token per key, and no batch is run twice for one request.
TokensMatchPending ==
  /\ Len(wake) <= Capacity
  /\ \A i, j \in 1 .. Len(wake) : wake[i] = wake[j] => i = j
  /\ \A i \in 1 .. Len(wake) : Occupied(wake[i]) /\ ~HeldForLookup(wake[i])
  /\ \A k \in Keys : HeldForLookup(k) => Occupied(k)

\* A pending entry is the newest accepted request of its key: a batch put
\* back by the worker never replaces what a publisher asked for meanwhile.
NewestWins == \A k \in Keys : Occupied(k) => pending[k] = newest[k]

\* Some token or some step of the worker will lead to this key's request.
HasWakeup(k) == Queued(k) \/ HeldForLookup(k)

\* The channel is as large as the set of keys that are ever used.
RoomForAll == Cardinality(Keys) <= Capacity

\* With room for a token of every key, a pending request always has its
\* wake-up while the worker runs: neither schedule() nor Resend loses one.
NoLostWakeup ==
  RoomForAll /\ pc # "ended" => \A k \in Keys : Occupied(k) => HasWakeup(k)

\* With room for all, a pending request is taken, even when the batches of
\* other keys ask for another pass forever.
PendingIsServed ==
  \A k \in Keys :
    RoomForAll /\ Occupied(k) ~> ~Occupied(k) \/ pc = "ended"

\* pinning.rs:79-80: "The next publication of the same named pin will
\* schedule another best-effort pass", with schedule() returning `false`
\* when it cannot (113-115): an accepted request has a wake-up.
AcceptedHasWakeup ==
  [][\A k \in Keys, c \in Cids :
       Schedule(k, c) /\ reply' /\ pc # "ended" => HasWakeup(k)']_schedVars

\* schedule() and the worker implement the mailbox of CleanupMailbox.
Mailbox == INSTANCE CleanupMailbox WITH
  slot <- pending,
  inHand <- IF pc = "cleaning" THEN {<<heldKey, heldCid>>} ELSE {},
  open <- pc # "ended"

ImplementsMailbox == Mailbox!SafeSpec

\* With room for all keys the worker also keeps the mailbox's promise of
\* service, and not only its safety.
ImplementsFairMailbox == Mailbox!FairSpec

=============================================================================
