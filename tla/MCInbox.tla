------------------------------ MODULE MCInbox -------------------------------
(* Three messages, one of which never expires, and bounds on the run.      *)
EXTENDS Inbox

CONSTANTS
  MaxTime,   \* the last second of the clock
  MaxPushes  \* pushes of a run

MCItems == {"forever", "short", "long"}

MCExp == [x \in MCItems |->
            CASE x = "forever" -> 0 [] x = "short" -> 1 [] x = "long" -> 3]

\* The clock and the pushes stop at their bounds.
InBounds == clock <= MaxTime /\ pushed <= MaxPushes

\* The specification of Inbox within the bounds.
MCNext == InboxNext /\ InBounds'

MCSpec == InboxInit /\ [][MCNext]_<<clock, inboxVars>>

=============================================================================
