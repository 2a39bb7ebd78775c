------------------------------ MODULE TtlQueue ------------------------------
(***************************************************************************)
(* TtlQueue (src/ttl_queue.rs): a bounded FIFO whose entries carry an      *)
(* absolute expiry second.  Expiry is lazy: every mutating call first      *)
(* removes expired entries from the FRONT and stops at the first one that  *)
(* is live, so an expired entry behind a live one stays.                   *)
(*                                                                         *)
(* The operators return what a method leaves in the buffer; an entry is    *)
(* any record with a field exp.                                            *)
(***************************************************************************)
LOCAL INSTANCE Naturals
LOCAL INSTANCE Sequences

CONSTANT Capacity    \* TtlQueue::capacity

ASSUME CapacityPositive == Capacity \in Nat \ {0}   \* asserted by new()

\* Mutant: an entry is kept through the second in which it expires.
ExpiredOneLate(e, now) == e.exp > 0 /\ e.exp < now

\* Mutant: zero is taken for a time long past.
ExpiredEvenForever(e, now) == e.exp <= now

\* Zero means that the entry never expires.
Expired(e, now) == e.exp > 0 /\ e.exp <= now

\* The `break` of evict(): the first position whose entry is not expired.
FirstKept(q, now) ==
  CHOOSE k \in 1 .. Len(q) + 1 :
    /\ \A i \in 1 .. k - 1 : Expired(q[i], now)
    /\ k <= Len(q) => ~Expired(q[k], now)

Evict(q, now) == SubSeq(q, FirstKept(q, now), Len(q))

\* Mutant: a full queue loses its newest entry.
MakeRoomAtTheBack(q) ==
  IF Len(q) >= Capacity THEN SubSeq(q, 1, Len(q) - 1) ELSE q

\* Mutant: the comparison allows one entry too many.
MakeRoomLate(q) == IF Len(q) > Capacity THEN Tail(q) ELSE q

\* A full queue drops its oldest entry, live or not.
MakeRoom(q) == IF Len(q) >= Capacity THEN Tail(q) ELSE q

Pushed(q, now, e) == Append(MakeRoom(Evict(q, now)), e)

Popped(q, now) == LET live == Evict(q, now)
                  IN  IF live = <<>> THEN live ELSE Tail(live)

\* What pop() and peek() return: nothing, or the head.
Front(q, now) == LET live == Evict(q, now)
                 IN  IF live = <<>> THEN live ELSE <<Head(live)>>

=============================================================================
