--------------------------- MODULE CleanupMailbox ---------------------------
(***************************************************************************)
(* What PinCleanupScheduler promises to the publishers of pins, without    *)
(* its map, its channel or its worker loop: one slot per cleanup key that  *)
(* holds the newest accepted request, and one worker that empties slots.   *)
(* A batch that has more to do may put its request back, but only into an  *)
(* empty slot, so a request accepted in the meantime is never replaced by  *)
(* an older one.                                                           *)
(*                                                                         *)
(* The bounded channel of the code shows up as a right to refuse a request *)
(* for an empty slot.  What must not be refused is service: a filled slot  *)
(* is emptied by the worker for as long as the worker runs.                *)
(***************************************************************************)

CONSTANTS
  Keys,      \* cleanup keys: a request without its protected CID
  Cids,      \* content identifiers a request can protect
  NoCid      \* no request

VARIABLES
  slot,      \* slot[k]: CID of the newest accepted, not yet taken, request
  inHand,    \* the request being served: a set with at most one <<key, cid>>
  open       \* the worker is running

vars == <<slot, inHand, open>>

Init ==
  /\ slot = [k \in Keys |-> NoCid]
  /\ inHand = {}
  /\ open = TRUE

\* A publisher hands in a request; the newest one for a key wins.
Post(k, c) ==
  /\ slot' = [slot EXCEPT ![k] = c]
  /\ UNCHANGED <<inHand, open>>

\* The worker takes the newest request of a key.
TakeOut(k) ==
  /\ open
  /\ inHand = {}
  /\ slot[k] # NoCid
  /\ inHand' = {<<k, slot[k]>>}
  /\ slot' = [slot EXCEPT ![k] = NoCid]
  /\ UNCHANGED open

\* The batch is over and its request is forgotten.
Discard ==
  /\ inHand # {}
  /\ inHand' = {}
  /\ UNCHANGED <<slot, open>>

\* The batch wants another pass: back into the slot, unless it is taken.
PutBack(k, c) ==
  /\ inHand = {<<k, c>>}
  /\ slot[k] = NoCid
  /\ slot' = [slot EXCEPT ![k] = c]
  /\ inHand' = {}
  /\ UNCHANGED open

\* The runtime that hosts the worker goes away.
Close ==
  /\ open
  /\ open' = FALSE
  /\ inHand' = {}
  /\ UNCHANGED slot

Next ==
  \/ \E k \in Keys, c \in Cids : Post(k, c) \/ PutBack(k, c)
  \/ \E k \in Keys : TakeOut(k)
  \/ Discard
  \/ Close

SafeSpec == Init /\ [][Next]_vars

\* No filled slot waits forever, however often other requests are put back.
FairSpec == SafeSpec /\ \A k \in Keys : SF_vars(TakeOut(k))

=============================================================================
