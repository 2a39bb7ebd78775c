------------------------------- MODULE Inbox --------------------------------
(***************************************************************************)
(* Inbox (src/inbox.rs): a TtlQueue behind a mutex, shared by clones.      *)
(*                                                                         *)
(* Producers and consumers pass the time in: they read the clock, and then *)
(* wait for the lock.  So the `now` of a call may be earlier than the      *)
(* clock when the call takes effect, and calls need not take effect in the *)
(* order of their `now`s.  Each method is one step: it holds the lock.     *)
(***************************************************************************)
EXTENDS Naturals, Sequences, TtlQueue

CONSTANTS
  Items,     \* messages
  Exp        \* Exp[x]: the expires_at that goes with x

ASSUME ExpIsATime == Exp \in [Items -> Nat]

VARIABLES
  clock,     \* seconds, as now_secs() reads them
  queue,     \* the buffer, each entry with its number in the order of pushes
  pushed,    \* history: how many pushes there were
  got,       \* the entries that the last pop() or drain() returned
  gotNow     \* the `now` of the last pop() or drain()

inboxVars == <<queue, pushed, got, gotNow>>

Entries == [exp : Nat, item : Items, no : Nat \ {0}]

\* The type of every variable; the queue is never over its capacity, its
\* entries stand in the order of their pushes, and each was followed by at
\* least as many pushes as there are entries behind it.
TypeOK ==
  /\ clock \in Nat
  /\ queue \in Seq(Entries)
  /\ pushed \in Nat
  /\ got \in Seq(Entries)
  /\ gotNow \in 0 .. clock
  /\ Len(queue) <= Capacity
  /\ \A i \in 1 .. Len(queue) : queue[i].no + (Len(queue) - i) <= pushed
  /\ \A i, j \in 1 .. Len(queue) : i < j => queue[i].no < queue[j].no

InboxInit ==
  /\ clock = 0
  /\ queue = <<>>
  /\ pushed = 0
  /\ got = <<>>
  /\ gotNow = 0

Tick == clock' = clock + 1 /\ UNCHANGED inboxVars

Push(now, x) ==
  /\ queue' = Pushed(queue, now, [exp |-> Exp[x], item |-> x, no |-> pushed + 1])
  /\ pushed' = pushed + 1
  /\ got' = <<>>
  /\ UNCHANGED gotNow

Pop(now) ==
  /\ got' = Front(queue, now)
  /\ queue' = Popped(queue, now)
  /\ gotNow' = now
  /\ UNCHANGED pushed

\* peek() hands out a clone, but it evicts as pop() does.
Peek(now) ==
  /\ queue' = Evict(queue, now)
  /\ got' = <<>>
  /\ UNCHANGED <<pushed, gotNow>>

Drain(now) ==
  /\ got' = Evict(queue, now)
  /\ queue' = <<>>
  /\ gotNow' = now
  /\ UNCHANGED pushed

Call(now) == Pop(now) \/ Peek(now) \/ Drain(now) \/ \E x \in Items : Push(now, x)

InboxNext ==
  \/ Tick
  \/ \E now \in 0 .. clock : Call(now) /\ UNCHANGED clock

InboxSpec == InboxInit /\ [][InboxNext]_<<clock, inboxVars>>

-----------------------------------------------------------------------------
(* Properties.                                                             *)

\* The second e.exp has begun on the clock, whatever the caller believes.
PastDue(e) == e.exp # 0 /\ e.exp <= clock

\* The entry was displaced by as many later pushes as the inbox has places.
CrowdedOut(e) == pushed - e.no >= Capacity

In(q) == {q[i] : i \in 1 .. Len(q)}

\* An entry that waited is still there after a step, or was returned, or had
\* to go.
NoneIsMissing ==
  \A e \in In(queue) :
    e \in In(queue') \/ e \in In(got') \/ PastDue(e)' \/ CrowdedOut(e)'

\* An entry leaves the inbox without being returned only when it has expired
\* or when Capacity later messages were pushed: neither a stale `now` nor a
\* peek loses a message that a reader could still have had.
LossIsJustified == [][NoneIsMissing]_<<clock, inboxVars>>

\* The only entry that pop() returns was live at the `now` it was given, and
\* so is the first one that drain() returns, however late the other callers'
\* clocks were read: no message is taken for live by an earlier eviction.
HeadIsLive == got # <<>> => ~(got[1].exp # 0 /\ got[1].exp <= gotNow)

ItemsOf(q) == [i \in 1 .. Len(q) |-> q[i].item]

\* The inbox is a FIFO that loses messages only from its old end: what each
\* call removes, keeps and returns is a step of LossyMailbox.
Mailbox == INSTANCE LossyMailbox WITH
  Letters <- Items, box <- ItemsOf(queue), handed <- ItemsOf(got)

ImplementsMailbox == Mailbox!Spec

=============================================================================
