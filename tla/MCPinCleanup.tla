---------------------------- MODULE MCPinCleanup ----------------------------
(***************************************************************************)
(* Values for the constants of PinCleanup that a .cfg cannot write down.   *)
(***************************************************************************)
EXTENDS PinCleanup

LocalKey == [local |-> TRUE, remote |-> FALSE]
BothKey == [local |-> TRUE, remote |-> TRUE]
RemoteKey == [local |-> FALSE, remote |-> TRUE]

DocumentKeys == {LocalKey, BothKey}
AllKeys == {LocalKey, BothKey, RemoteKey}

LocalJob == [kind |-> "document", overwrite |-> TRUE, remote |-> FALSE]
BothJob == [kind |-> "document", overwrite |-> TRUE, remote |-> TRUE]
KeepJob == [kind |-> "document", overwrite |-> FALSE, remote |-> FALSE]
ReplaceJob == [kind |-> "replace", overwrite |-> TRUE, remote |-> TRUE]

Setting(jobs, pacing, faulty, crashes) ==
  [jobs |-> jobs, pacing |-> pacing, faulty |-> faulty, crashes |-> crashes]

\* Each publication overlaps the cleanup of the one before.
Overlapping == Setting({LocalJob}, "sequential", {}, FALSE)
\* Replicated publications that wait for the cleanup.
Replicated == Setting({BothJob}, "quiescent", {}, FALSE)
\* The same, mixed with local ones, while everything may go wrong.
Adverse == Setting({LocalJob, BothJob}, "quiescent", Servers, TRUE)
\* All kinds of publications at once, while any call may fail.
Crowded == Setting({BothJob, KeepJob, ReplaceJob}, "concurrent", Servers, FALSE)
\* Replicated and degraded publications, one after the other.
Degraded == Setting({BothJob}, "sequential", {"service"}, FALSE)

ManySettings == {Overlapping, Replicated, Adverse, Crowded}
DegradedOnly == {Degraded}

=============================================================================
