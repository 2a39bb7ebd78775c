------------------------------ MODULE Inbound -------------------------------
(***************************************************************************)
(* How a message gets into an inbox: the stream tasks of                   *)
(* InboxProtocolHandler::accept with InboundSecurity::decode and the       *)
(* ReplayGuard behind it (src/iroh/endpoint.rs, src/msg.rs), and the       *)
(* loopback path of a message that is sent to the own endpoint             *)
(* (src/outbox.rs, LoopbackWire, send_broadcast_to).                       *)
(*                                                                         *)
(* Every inbound stream is served by a task of its own, and all tasks of   *)
(* all protocols share one guard.  A task suspends while it reads and      *)
(* while the sender's document is resolved, and other threads run between  *)
(* the guard and the push.  Senders may send a message any number of       *)
(* times, in any order and with any delay.                                 *)
(***************************************************************************)
EXTENDS Inbox

CONSTANTS
  Streams,   \* tasks that can be alive at a time
  Local,     \* the messages that this process sends to itself
  Ids,       \* message ids
  Never,     \* no time
  NoItem,    \* no message in a task
  Window,    \* ReplayGuard::window_secs
  Skew       \* DEFAULT_MAX_CLOCK_SKEW_SECS

ASSUME WindowAndSkew == Window \in Nat /\ Skew \in Nat
ASSUME NeverIsNotATime == Never \notin Nat
ASSUME NeverIsNoRecord == Never \notin [when : Nat, what : Items]
ASSUME NoItemIsNotAnItem == NoItem \notin Items

\* What the receiver can tell about a wire payload.
ASSUME ItemsAreMessages ==
  \A x \in Items :
    /\ x.id \in Ids
    /\ x.created \in Nat         \* created_at
    /\ x.encrypted \in BOOLEAN   \* decodes as an Envelope for our key
    /\ x.broadcast \in BOOLEAN   \* message type
    /\ x.forUs \in BOOLEAN       \* `to` has the base DID of our key
    /\ x.identityPublish \in BOOLEAN  \* a request of this kind, on its protocol
    /\ x.genuine \in BOOLEAN     \* signed with the key in from's document

ASSUME LocalAreItems == Local \subseteq Items

VARIABLES
  at,        \* where the task of a stream is
  item,      \* its payload
  since,     \* when the task last ran
  seen,      \* ReplayGuard::seen: seconds of insertion, or Never
  entered,   \* history: when and with what an id was last admitted
  times      \* history: admissions of an id that came over the wire

guardVars == <<seen, entered, times>>
taskVars == <<at, item, since>>
vars == <<clock, inboxVars, taskVars, guardVars>>

\* The type of every variable beside those of Inbox, and that a task holds a
\* message exactly while it is alive.
InboundTypeOK ==
  /\ TypeOK
  /\ at \in [Streams -> {"free", "arrived", "resolving", "admitted"}]
  /\ item \in [Streams -> Items \cup {NoItem}]
  /\ since \in [Streams -> 0 .. clock]
  /\ seen \in [Ids -> (0 .. clock) \cup {Never}]
  /\ entered \in [Ids -> [when : 0 .. clock, what : Items] \cup {Never}]
  /\ times \in [Ids -> Nat]
  /\ \A s \in Streams : item[s] = NoItem <=> at[s] = "free"

InboundInit ==
  /\ InboxInit
  /\ at = [s \in Streams |-> "free"]
  /\ item = [s \in Streams |-> NoItem]
  /\ since = [s \in Streams |-> 0]
  /\ seen = [i \in Ids |-> Never]
  /\ entered = [i \in Ids |-> Never]
  /\ times = [i \in Ids |-> 0]

-----------------------------------------------------------------------------
(* Checks.                                                                 *)

\* validate_message_freshness, with the same tolerance at both ends.
Fresh(x) ==
  /\ x.created <= clock + Skew
  /\ Exp[x] = 0 \/ clock <= Exp[x] + Skew

\* Mutant: the recipient of an envelope is not compared with our DID.
DecodableForAnyone(x) ==
  IF x.encrypted THEN Fresh(x) /\ ~x.broadcast ELSE x.broadcast

\* Decrypting validates the headers; an unencrypted payload is only parsed.
Decodable(x) ==
  IF x.encrypted THEN Fresh(x) /\ ~x.broadcast /\ x.forUs ELSE x.broadcast

\* Mutant: an entry is dropped in the last second of its window.
RetainsOneLess(t) == t # Never /\ clock - t < Window

\* ReplayGuard::prune_old keeps this insertion time.
Retains(t) == t # Never /\ clock - t <= Window

Remembered == [i \in Ids |-> IF Retains(seen[i]) THEN seen[i] ELSE Never]

\* Mutant: the result of verify_with_document is not looked at.
VerifiesAnything(x) == TRUE

Verifies(x) == x.genuine

\* The task may go on to the guard without another suspension.  An identity
\* publish request gets there unverified (skip_resolver_verification): its
\* handler verifies it, after the inbox.
MayCheck(s) ==
  \/ at[s] = "arrived" /\ Decodable(item[s]) /\ item[s].identityPublish
  \/ at[s] = "resolving" /\ Verifies(item[s])

-----------------------------------------------------------------------------
(* Stream tasks.                                                           *)

Moves(s, where, x) ==
  /\ at' = [at EXCEPT ![s] = where]
  /\ item' = [item EXCEPT ![s] = x]
  /\ since' = [since EXCEPT ![s] = clock]

\* Mutant: the payload outlives its task.
EndsHoldingItem(s) == Moves(s, "free", item[s])

Ends(s) == Moves(s, "free", NoItem)

Arrive(s, x) ==
  /\ at[s] = "free"
  /\ Moves(s, "arrived", x)
  /\ UNCHANGED <<clock, inboxVars, guardVars>>

\* The read fails or takes longer than DEFAULT_INBOUND_READ_TIMEOUT, or the
\* sender's document cannot be resolved.
GiveUp(s) ==
  /\ at[s] \in {"arrived", "resolving"}
  /\ Ends(s)
  /\ UNCHANGED <<clock, inboxVars, guardVars>>

Decode(s) ==
  /\ at[s] = "arrived"
  /\ ~MayCheck(s)
  /\ IF Decodable(item[s]) THEN Moves(s, "resolving", item[s]) ELSE Ends(s)
  /\ UNCHANGED <<clock, inboxVars, guardVars>>

\* The document is there, and the signature does not verify with it.
Mismatch(s) ==
  /\ at[s] = "resolving"
  /\ ~Verifies(item[s])
  /\ Ends(s)
  /\ UNCHANGED <<clock, inboxVars, guardVars>>

\* check_and_insert fails before it prunes.
RefuseStale(s) ==
  /\ MayCheck(s)
  /\ ~Fresh(item[s])
  /\ Ends(s)
  /\ UNCHANGED <<clock, inboxVars, guardVars>>

RefuseReplay(s) ==
  /\ MayCheck(s)
  /\ Fresh(item[s])
  /\ Remembered[item[s].id] # Never
  /\ seen' = Remembered
  /\ Ends(s)
  /\ UNCHANGED <<clock, inboxVars, entered, times>>

Admit(s) ==
  /\ MayCheck(s)
  /\ Fresh(item[s])
  /\ Remembered[item[s].id] = Never
  /\ seen' = [Remembered EXCEPT ![item[s].id] = clock]
  /\ entered' = [entered EXCEPT ![item[s].id] =
                               [when |-> clock, what |-> item[s]]]
  /\ times' = [times EXCEPT ![item[s].id] = @ + 1]
  /\ Moves(s, "admitted", item[s])
  /\ UNCHANGED <<clock, inboxVars>>

\* Outbox::send to the own endpoint, or send_broadcast_to it: the headers
\* are validated, and the message goes on to the inbox of the service.
Loopback(s, x) ==
  /\ at[s] = "free"
  /\ Fresh(x)
  /\ Moves(s, "admitted", x)
  /\ UNCHANGED <<clock, inboxVars, guardVars>>

\* now_secs() is read at some time after the check, and before the push.
Deliver(s) ==
  /\ at[s] = "admitted"
  /\ \E now \in since[s] .. clock : Push(now, item[s])
  /\ Ends(s)
  /\ UNCHANGED <<clock, guardVars>>

\* The actor reads its inbox.
Read ==
  /\ Pop(clock) \/ Drain(clock)
  /\ UNCHANGED <<clock, taskVars, guardVars>>

SecondPasses == Tick /\ UNCHANGED <<taskVars, guardVars>>

TaskStep(s) ==
  \/ GiveUp(s) \/ Decode(s) \/ Mismatch(s) \/ Deliver(s)
  \/ RefuseStale(s) \/ RefuseReplay(s) \/ Admit(s)

InboundNext ==
  \/ \E s \in Streams :
       \/ TaskStep(s)
       \/ \E x \in Items : Arrive(s, x)
       \/ \E x \in Local : Loopback(s, x)
  \/ Read
  \/ SecondPasses

InboundSpec == InboundInit /\ [][InboundNext]_vars

-----------------------------------------------------------------------------
(* Properties.                                                             *)

Admitted(s) == at[s] \notin {"free", "admitted"} /\ at'[s] = "admitted"

Repeats(i) == entered[i] # Never /\ clock - entered[i].when <= Window

\* Of the copies of a message that arrive on any streams, in any overlap of
\* their tasks, one is admitted in any Window seconds.
NoDuplicateInWindow ==
  [][\A s \in Streams : Admitted(s) => ~Repeats(item'[s].id)]_vars

\* What the guard cannot prevent is bounded: a message is admitted once per
\* started Window + 1 seconds of the time for which it is fresh, so copies of
\* a message that expires stop coming in.
RedeliveryIsBounded ==
  \A i \in Ids : times[i] > 0 =>
    LET last == entered[i]
        needed == (times[i] - 1) * (Window + 1)
    IN  /\ needed <= last.when
        /\ Exp[last.what] # 0 => needed <= Exp[last.what] + Skew

VerifiedOrPublication(x) == x.genuine \/ x.identityPublish

\* A message is refused as a replay only when the last message with its id
\* was admitted no more than a window ago, and that one was verified or was an
\* identity publish request.  So a forged copy does not block the genuine
\* message, however their tasks overlap, with one exception that the code
\* has: an identity publish request takes its id in the guard of all
\* protocols before anything was verified of it, and blocks that id.
RefusalsHaveACause ==
  [][\A s \in Streams : RefuseReplay(s) =>
       /\ Repeats(item[s].id)
       /\ VerifiedOrPublication(entered[item[s].id].what)]_vars

\* What the actor reads is signed by its sender, or is an identity publish
\* request (of which nothing is verified yet), or was sent by this process;
\* and what came over the wire is for this recipient, encrypted unless it is
\* a broadcast.
ActorSeesOnlyChecked ==
  \A e \in In(got) : e.item \notin Local =>
    /\ VerifiedOrPublication(e.item)
    /\ IF e.item.broadcast THEN ~e.item.encrypted
       ELSE e.item.encrypted /\ e.item.forUs

=============================================================================
