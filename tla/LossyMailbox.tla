---------------------------- MODULE LossyMailbox ----------------------------
(***************************************************************************)
(* What an Inbox promises to the actor that reads it, without clocks and   *)
(* expiry: letters come out in the order in which they went in, each at    *)
(* most once, and never more than Capacity of them wait.  Letters may be   *)
(* lost, but only from the old end: when one is lost, so is every older    *)
(* one that still waits.                                                   *)
(***************************************************************************)
EXTENDS Naturals, Sequences

CONSTANTS
  Letters,   \* what can be put in
  Capacity

VARIABLES
  box,       \* letters that wait, the oldest first
  handed     \* the letters the last call handed out

vars == <<box, handed>>

Init == box = <<>> /\ handed = <<>>

\* The letters that are left when those before position k are lost.
From(k) == SubSeq(box, k, Len(box))

Cut == 1 .. Len(box) + 1

Put(x) ==
  /\ \E k \in Cut : box' = Append(From(k), x)
  /\ Len(box') <= Capacity
  /\ handed' = <<>>

\* The oldest letter that is left, if any, is handed out.
Get ==
  \/ \E k \in 1 .. Len(box) : handed' = <<box[k]>> /\ box' = From(k + 1)
  \/ handed' = <<>> /\ box' = <<>>

GetAll ==
  /\ \E k \in Cut : handed' = From(k)
  /\ box' = <<>>

\* Letters are lost while nobody puts or gets; looking is not getting.
Shed ==
  /\ \E k \in Cut : box' = From(k)
  /\ handed' = <<>>

Next == Get \/ GetAll \/ Shed \/ \E x \in Letters : Put(x)

Spec == Init /\ [][Next]_vars

=============================================================================
