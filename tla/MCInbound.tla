----------------------------- MODULE MCInbound ------------------------------
(* Messages that make the checks differ, and bounds on the run.            *)
EXTENDS Inbound, TLC

CONSTANTS
  MaxTime,   \* the last second of the clock
  MaxPushes  \* pushes of a run

Message(id, created, encrypted, broadcast, forUs, identityPublish, genuine) ==
  [id |-> id, created |-> created, encrypted |-> encrypted,
   broadcast |-> broadcast, forUs |-> forUs,
   identityPublish |-> identityPublish, genuine |-> genuine]

Letter      == Message(1, 0, TRUE,  FALSE, TRUE,  FALSE, TRUE)
Forgery     == Message(1, 0, TRUE,  FALSE, TRUE,  FALSE, FALSE)
Notice      == Message(2, 2, FALSE, TRUE,  FALSE, FALSE, TRUE)
Publication == Message(1, 0, TRUE,  FALSE, TRUE,  TRUE,  FALSE)
Stray       == Message(2, 0, TRUE,  FALSE, FALSE, FALSE, TRUE)

\* Copies of a letter with good and bad signatures, a forged identity publish
\* request with the letter's id, a broadcast by a sender whose clock is fast,
\* and a message for another recipient.
MCItems == {Letter, Forgery, Notice, Stray, Publication}

MCIds == {x.id : x \in Items}

\* The broadcast never expires.
MCExp == [x \in Items |-> IF x.broadcast THEN 0 ELSE 4]

\* What this process sends to itself.
MCLocal == {Notice}

\* Any task can serve any stream.
StreamSymmetry == Permutations(Streams)

InBounds == clock <= MaxTime /\ pushed <= MaxPushes

\* The specification of Inbound within the bounds.
MCNext == InboundNext /\ InBounds'

MCSpec == InboundInit /\ [][MCNext]_vars

=============================================================================
