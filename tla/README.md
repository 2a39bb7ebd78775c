# ma-core in TLA+

`ma-core` is the Rust library under the ma actor runtime: identities (`did:ma:…`,
published as IPNS names through a Kubo node), signed messages between actors over
iroh connections, inboxes that forget what has expired, and the configuration
and secrets of a daemon. This directory holds TLA+ modules of the parts of it that keep
state and act concurrently, TLC configurations that check them on small
instances, and TLAPS proofs of what matters most for every instance.

Paths such as `src/kubo/pinning.rs` are relative to the repository.
`PROJECT.json` says, definition by definition, which lines a module stands for.

    tlc -workers 2 -config PinScheduler.cfg PinScheduler     # one run
    tlapm PinCleanupProofs.tla                               # one proof module

## 1. The system

| part | source | state | operations | interacts with |
|------|--------|-------|------------|----------------|
| Pin cleanup scheduler | `src/kubo/pinning.rs` | `pending` map (mutex), bounded `wake` channel, one detached worker | `schedule`, worker loop | publishers, cleanup batches |
| Cleanup batches | `src/kubo/pinning.rs` | locals of `cleanup_one_batch` | list, remove stale, rename, remote pass | Kubo pins, remote pin service |
| Publication | `src/ipfs/publish.rs` | none of its own | find/import the IPNS key, store, pin, publish the name, replicate, schedule cleanup | Kubo, scheduler |
| IPNS names | `src/kubo/kubo.rs`, `src/kubo/resolver.rs` | the name in Kubo | publish with retry and verification, fetch of DID documents | Kubo |
| TTL queue, inbox | `src/ttl_queue.rs`, `src/inbox.rs` | bounded FIFO of (deadline, item) under a mutex | push, pop, peek, drain | accept loops push, the actor reads |
| Inbound messages | `src/iroh/endpoint.rs`, `src/msg.rs` | replay guard under a mutex | read, decode, verify, admit, deliver; loopback | inbox, DID resolver |
| Connection cache | `src/iroh/endpoint.rs` | `connection_cache` (mutex), `connect_locks`, the router's accept tasks | send to a peer, accept, evict, close | iroh |
| Service router | `src/iroh/endpoint.rs` | registered protocols, inboxes, router | register, remove, reload, accept loops at both ends of a connection | inboxes, connection cache |
| Outbox | `src/outbox.rs`, `src/iroh/channel.rs`, `src/transport.rs` | one connection or a local inbox, the recipient's document | send, close | connection cache, documents |
| ACL | `src/acl/mod.rs` | none (pure) | `check_cap`, key forms, YAML form | the daemon |
| Documents, messages | `src/doc.rs`, `src/did.rs`, `src/msg.rs` | none (values that owners hold, publish and send) | build, edit, sign, verify, seal, open | publication, resolver, outbox, inbound |
| Config, secrets | `src/config/` | `<slug>.yaml` and `<slug>.bin` | generate, resolve the sources of a setting, save, load | other processes on the same disk |
| Identities, keys, encodings, errors, logging | remaining files | none | | |

**What is hard.** Publishers, the cleanup worker and Kubo interleave at every
HTTP call, a call that failed may have taken effect, and the process may die in
between. The worker's wake-ups travel through a bounded channel apart from the map
they are about. Callers of the inbox read the clock before they wait for its
lock. Copies of a message are decoded at the same time and suspended in the
resolver before they meet the replay guard. Connections die at any moment
while callers hold clones of them, and inbound handlers share the cache with
outbound callers. Services come and go under connections that stay cached, and
either end of a connection may read it or not. A document, a request and an outbox
are values that outlive what they were made from: keys are renewed and documents edited
while copies are about. Files are truncated and then written, by processes that
share a disk and can be killed in between. Section 6 lists what makes each part correct;
`PROJECT.json` ("hazards") lists what can go wrong, line by line.

## 2. Modules

| module | models | on top of |
|--------|--------|-----------|
| `CleanupMailbox` | abstract: one slot per cleanup key, the newest request wins, a filled slot is served | |
| `PinScheduler` | `PinCleanupScheduler` and the worker loop; a batch is any outcome | |
| `PinCleanup` | publications, cleanup batches, Kubo's pins, the pin service, failures, crashes | `PinScheduler` |
| `TtlQueue` | the operations of `TtlQueue` as operators on sequences | |
| `LossyMailbox` | abstract: a FIFO that may lose items but neither invents nor reorders them | |
| `Inbox` | `Inbox` with callers whose `now` is old | `TtlQueue` |
| `Inbound` | stream tasks, checks, replay guard, delivery, loopback | `Inbox` |
| `ConnectionCache` | `open_addr_cached`, `get_or_connect`, `accept()`, router reload, `close()` | |
| `Naming` | publications and fetches of one IPNS name: keys, retries, the check after an error, requests carried out late | |
| `ServiceRouter` | services and their inboxes, the router, the loops at the two ends of a connection, outboxes, broadcasts | |
| `Access` | the ACL map, its YAML form, `check_cap`, and what the documentation promises (pure) | |
| `Documents` | documents, keys, publication natively and by request, outboxes that keep a document, sealing and opening, the ACL check | `Access` |
| `ConfigFiles` | sources of a setting, generation of a headless configuration, daemons that load and save, cut writes | |
| `MC…` | values for constants that a `.cfg` cannot write down, and bounds | |
| `…Proofs` | theorems and their proofs; `PinCleanupProofs` is about `PinScheduler` as well, `DocumentsProofs` about `Access` | the component's module |

### How state and actions correspond to the code

*PinScheduler.* `pending` and `wake` are the map and the channel; the worker's
`pc` names the points between which its task can be suspended. `Schedule` is
one critical section (`schedule` holds the `pending` lock over `try_send`), and so
are `Take` (`pending.remove`), `EndBatch` (the vacant-entry test and the insertion);
`Resend` is the `try_send` after the pause. `WorkerEnds` is the runtime shutting
down: the scheduler is a `static`, its worker is not. `newest` and `reply` are
history for the properties.

*PinCleanup.* One HTTP call is one step. `Fails(server, var, new, old)` lets
a call to a faulty server end in an error with or without its effect. A
pin has one name in Kubo and any number of records at the service, as the
calls in `src/kubo/kubo.rs` treat them: `"final"` is the managed name, `"temp"` the in-flight
name `<name>~new`. `name_publish_with_retry` with all its attempts is one step here. The
variable `setting` fixes an environment for a behaviour (which jobs, how publications
may overlap, which servers fail, whether the process may die), so that one run
covers several and properties that need one name it.

*TtlQueue, Inbox.* An item is its index into constants that give its deadline (0 for
never, as in the code). `Tick` advances the clock; a call picks its `now` from
the past up to the present, because `now_secs()` is evaluated before the lock is
taken. The bounds on time and pushes are in `MCInbox` only.

*Inbound.* A stream task is read → decode → (fetch the sender's document) → admit
→ deliver, one action at each point where it can be suspended; the guard's map
is read and written in one critical section (`Admit`). Signatures, decryption and
documents are attributes of an item: what `verify` would say of it. Nothing verifies an identity publish request on this way. `Loopback`
is the way of `LoopbackWire`, which runs none of the checks on the way. Time counts
in units of the guard's window over `Window`.

*ConnectionCache.* A critical section of the cache's mutex is a step; `probe` and
`evict` are the points between the clone of an entry and the use of it. `queue[k]` is the
fair async mutex of a key: its head holds it. `opens` tells the two callers apart:
`open_addr_cached` opens a stream before it caches a connection,
`get_or_connect` does not. `Cancel` drops a call at an await. A key is in
`DialIn` if its peer also connects to us. `close()` and the registration of services take `&mut self`, so
no call overlaps them (`NoCalls`).

*Naming.* The variables of a publication are the locals of
`publish_did_document_to_kubo` and of the loop in `name_publish_with_retry`; one HTTP call is one step, and the
publish request has three, since what Kubo does with it (`CarriedOut`) is apart from what the caller learns of it
(`Answer`, `GiveUp`). A request that is given up before it was carried out is lost, or, with `setting.late`, kept in `late`. `alias` is the
key that Kubo has under the name `ipns_key_name_for_parts` gives; all publications of the name use the same
`key_parts`. The private key that comes with a document is chosen when it is imported. `fetch_did_document` is its own
process; what a DID document says is only whether `validate`, `verify` and the comparison of DIDs accept it (`Valid`).
`reached`, `shown` and `last` are history.

*ServiceRouter.* Both ends of a connection run this code, so one module has two (or more) endpoints. `inboxes[e]`
and `router[e]` are what is registered and what the running router was built from; `Restart` is `reload_router_if_running`, a part of
`Register` and `Remove`. `loop[c][end]` is the inbox that an `accept_bi()` loop feeds: at the dialer's end the one that was
registered when it dialed (`DialerLoop`), at the acceptor's end the one of the router (`Handle`). A connection is open while something at
both ends has a clone of it (`Held`): the cache, a loop, an outbox. `get_or_connect` is one step (`Reach`); its interleavings are
`ConnectionCache`. `made`, `pushed` and `settled` are history.

*Access.* Principals are records of a kind and a name; `LoadAcl` and `SaveAcl` are the (de)serialisers, with the empty list,
`null` and a string as the values that are treated apart; `Granted` is the documentation's rule, stated without the order of the code.

*Documents.* A document is a record of the fields that its signature covers, with the proof; the proof names its key and the very
payload it covers. `Built` composes `build_identity_from_keys`, `generate_identity` and `build_document`, with their three signatures, as the code does.
`draft`, `published`, `outbox` and `request` are where copies of a document can be; a request that was handled may come again. `Edit` is what a program may do with the public fields
and methods. `AddMethod` drops a duplicate silently, as `add_verification_method` does. `packet.by` and `packet.forBundle` are history. The variable `scope` fixes, per
behaviour, which bounds apply, so that one run covers editing, requesting and writing without their product.

*ConfigFiles.* Each file is opened (truncated) in one step and written in the next; the steps of a process are its `at`. A bundle is the number of its
generation and the passphrase that opens it. `FillsConf` lets two writers of one file leave a mixture. `WriteFails` is a full disk,
`Stop` a kill at any point. `made`, `saved` and `owner` are history.

## 3. Runs

| run | checks | instance |
|-----|--------|----------|
| `scheduler` | newest request wins, no lost wake-up, service, refinement of `CleanupMailbox` with fairness | 3 keys, 2 CIDs, channel of 3 |
| `scheduler_lost_wakeup` | *violated*: an accepted request always has a wake-up | 2 keys, channel of 1 |
| `cleanup` | types, the current document stays pinned, the protected CID is kept, the managed name means "confirmed" whatever fails, the worker comes to rest, old pins go away | 2 publications, 2 CIDs, 4 environments |
| `cleanup_two_keys` | *violated*: the document the name points to stays pinned | 2 publications, 3 CIDs, a pin service that fails |
| `inbox` | a loss has a reason, refinement of `LossyMailbox` | 3 items, 2 places, time to 4, 5 pushes |
| `inbound` | one admission per window, boundedly many in all, a refused replay had a forerunner in the window that was verified or an identity publish request, the actor sees only what was checked | 2 streams, 5 items, window 2, skew 1, time to 4 |
| `connections` | one connection per dialled peer, senders evict only what is dead, calls to prompt peers end, `close()` ends and leaves an empty cache | 2 peers, 2 callers, 2 connections |
| `connections_blind_remove` | *violated*: only dead connections are removed from the cache | 1 peer, 1 caller, 2 connections |
| `naming` | success means the name pointed there, only the DID's own key is used, the last success is live, a fetched document was the target, calls end | 2 publications, 1 fetch, 2 documents, 2 attempts each, 2 environments |
| `router` | types, a message reaches an inbox of the place it was sent to, routers feed registered inboxes only, undisturbed connections are read at both ends, a new outbox has an open connection | 2 endpoints, 2 connections, 3 inboxes, 1 outbox, 1 stream |
| `files` | types, what a generation returned can be started and unlocked, what was saved is what is read again, an identity is lost only by a cut or foreign save | 2 processes, 2 slugs, 2 generations, 2 starts, 1 failed write |
| `documents` | built documents are accepted and lead to their endpoint, one document per proof, requests for built documents are honoured each time they come, messages are read unless keys changed, the ACL decides as documented | 2 owners, 2 generations of keys, 85 ACL files, 3 scopes of (seconds, edits, requests, mail): (0, 3, no, no), (1, 1, yes, no), (0, 1, no, yes) |

The type invariants of the modules with proofs (`PinScheduler`, `Inbox`, `Inbound`, `ConnectionCache`, `Naming`, `Documents`) are
theorems (section 4) and not checked again by these runs.

**Why the bounds are enough.** Each is the least at which the case of interest
occurs, and every property is violated, under the same bounds, by a plausible
slip in the code (the definitions marked *Mutant* in the modules, listed under
"mutants"). Scheduler: a lost wake-up needs a key that is served, one that is queued and one that is
scheduled meanwhile; a channel as large as the key set and one that is too small are separate
runs. Cleanup: the hazards are between *two* publications, the worker, and pins left by an
earlier run. Inbox: capacity 2 with one item that never expires puts an expired item behind a live
one. Inbound: two tasks in the resolver at once; time goes on past a whole window so that the
guard forgets. Its one broadcast is also sent by this process, so that `ActorSeesOnlyChecked` says something of broadcasts from the wire by its theorem only. Connections: two callers race for one peer while the other peer hangs,
and two connections let a fresh one replace a dead one.
Naming: a name is taken over by a second publication or a late request, which needs two of
them, two documents and one retry; one of the documents is invalid so that a fetch must reject it. `fetch_did_document` has four attempts, the run two: the first
that is repeated and the last. Router: three inboxes let a service be removed and registered again while the other end has one;
the second connection replaces a dead one, and the one outbox keeps what the cache no longer has. Files: two
generations meet on one file, or a daemon saves what it loaded before the other process wrote; three command lines make the slug, the
path of the configuration and the path of the bundle disagree. Documents: alice does everything, bob is written to and renews his encryption key; three edits
add a method, sign with it and touch the document. The two environments are the tame one, where `PublishedIsLive` says something, and the one with everything in it.
`PinCleanup`, `Naming`, `ServiceRouter` and `ConfigFiles` run with `CHECK_DEADLOCK FALSE`: each publication, fetch and generation runs once and then
everything rests, and endpoints that are closed for good do nothing.

**Fairness.** `PinScheduler`: weak fairness of the worker's next step (Tokio polls a runnable
task, and a batch ends because each HTTP request has a timeout); none for
`Schedule`. `PinCleanup`: the same for the worker's calls; publications need not go on.
`ConnectionCache`: weak fairness of each caller and of the accept tasks, of
`close()`, and of `connect()` only for peers in `Prompt`, because
`connect()` has no timeout here. Nobody has to call or to cancel, and no
connection has to die. `Naming`: weak fairness of each publication and
fetch, as every request has a timeout and every pause ends; none of Kubo. `Inbox`, `Inbound`, `ServiceRouter`, `Documents` and
`ConfigFiles` are checked for safety only: nothing in them has to happen unless a caller asks for it.

## 4. Proofs

All theorems hold for every value of the constants that satisfies the named
`ASSUME`s; each proof module is checked by `tlapm` from nothing.

* `PinCleanupProofs`, the scheduler alone, with a batch that may end in any way: `TypeOK`, `TokensMatchPending`, `NewestWins`,
  `NoLostWakeup`, and that the scheduler implements `CleanupMailbox` (safety). The
  inductive invariant adds to the token properties that a token is never held and queued at once; `NoLostWakeup`
  is then a counting argument: distinct tokens of at most `Cardinality(Keys)`
  keys fit into the channel, so `Resend` finds room.
* `PinCleanupProofs`, publications and batches: `PassTypeOK`, `ProtectedIsKept`, `NewestWins` and `NoLostWakeup` under the real publishers,
  batches and crashes (every step of `PinCleanup` is a step of `PinScheduler`, a restart of it, or leaves it alone: `SchedulerStep`),
  `FinalNameIsConfirmed`, `CurrentIsAlwaysPinned`. `PubInv` says what a publication has when it gets somewhere, `BatchInv` which pass the
  batch is in: so a removal is never of the protected CID. `ConfirmInv` follows a CID from the publication to the worker, through failed calls and crashes. `CurrentIsAlwaysPinned`
  rests on `Quiet`: one publication at a time and none while the worker has work, and whatever may still become a batch over Kubo's pins protects
  what the name points to. `KeysSuffice` is assumed: every cleanup that the jobs can ask for has a key.
* `PinCleanupProofs`, at rest: `RestIsClean` is what `OldPinsGoAway` says of a state at rest, for any number of publications, CIDs and old pins and
  a channel of any capacity; that rest is reached is left to TLC. It covers publications that overlap the cleanup of the one before. `KeyInv` says that
  only one key ever has work, so its token always finds room. `LocalFacts` and `RemoteFacts` say at each call of a pass what its lists still
  tell of the pins: a pass that removes something asks for another one, and one that finds nothing to remove leaves exactly the current document.
  They hold only while nobody publishes and nothing is pending; a publication that gets in between makes its own cleanup pending.
  `CleanupMailboxCorrect` gives the refinement of `CleanupMailbox` for the composition, as long as the process lives.
* `InboxProofs`: the type invariant, the facts about eviction, making room and
  popping as lemmas on sequences, that `pop` returns nothing expired, that every
  loss has a reason, and the refinement of `LossyMailbox`.
* `InboundProofs`: types; every step of `Inbound` is a step of `Inbox` or leaves it alone, so `LossIsJustified` holds of the
  composition; `NoDuplicateInWindow`, `RedeliveryIsBounded`, `RefusalsHaveACause` and `ActorSeesOnlyChecked`. The first three are not inductive: `GuardInv`
  relates what the guard's map still remembers to the last admission of each id, and says that it has forgotten
  an id only when that admission is more than a window old. The guard thus decides exactly: an admission has no forerunner within the window, a refusal has one. For the last, `CheckedInv` says what a task may hold at each point of its way, and that
the queue is a sequence of checked entries; the lemmas on the queue's operators hold for sequences over any set, so they apply to that set.
* `ConnectionCacheProofs`: types, `SharedConnection`, `SendersEvictOnlyStale`,
  `ClosedIsEmpty`. `SharedConnection` alone is not inductive. `LockInv` says that each caller waits once, for
  the lock of its own key, and that whoever is between the second look at the cache and the
  insertion is at its head. `ShareInv` says that such a caller finds nothing usable in the cache as long as
  it holds the lock, and that an open connection to a peer that does not dial us is in the
  cache, in the hands of the lock's holder, or being closed by `close()`. So `Dial` can
  open one only when no other is open. `PhaseInv` excludes calls from
  `close()` and ties what is cached during it to an accept task that will remove it. `LockInv` also gives `WaitsForItsPeer`, the safety half of `CallersReturn`: whoever waits
  for a lock waits for a call to the same peer that is under way. `CloseLeavesNothing` is that of `CloseReturns`: after the endpoint's
  close no connection is open, so no accept task that the shutdown waits for is itself waiting.
* `NamingProofs`: `TypeOK`, `SuccessWasTarget`, `OnlyOwnKey`, `PublishedIsLive`, `FetchedWasTarget`. `ReachInv` adds to the first that a
  request which was carried out, or a name that points to the document of a running publication, already implies that the name
  has reached it, so both ways to success keep it. `LiveInv` bounds what can move the name when publications neither overlap nor have requests
  held back. `FetchInv` says that what a fetch holds was shown to it.
* `DocumentsProofs`, access: `DecisionCorrect`: for any file that can be read and any caller, `check_cap` on the map written and read again decides
  as `Granted`. It needs no induction: the keys that match a caller are three.
* `DocumentsProofs`, documents: `TypeOK`, `BuiltIsAccepted`, `OneDocumentPerProof`, `AdmittedMayDo`, `PublishRequests`, `Understood`. `BuiltIsGood` computes what
  `build_document` returns (two methods, one relationship each, a proof over exactly this content) and is what the last two rest on. `TypeOK` is
  inductive and carries the rest: a document stays with its owner, a request and a packet are signed by whom they name, and what an outbox
  sealed opens with every bundle from which the document it kept can have been built. `OneDocumentPerProof` follows because a proof determines all the other fields.
* `ServiceRouterProofs`: `TypeOK`, `RightInbox`, `AcceptedFeedsCurrent`, `SettledIsServed`, `ReopenHeals`. `FeedInv` says who may feed what: an inbox is registered where it was made
  for, a loop feeds an inbox of its end and its connection's service, what is cached or held by an outbox leads to the place it is used for,
  and a stream carries the place at its end. The connection that a dialing takes is in nobody's hands, which is why its link may change. `SomebodyToCall`
  (there are two endpoints and a service) is assumed for the initial links only. `SettledInv` says of a connection whose ends kept their services what
  its two loops feed, or what the router will give to the accept task that is still to run; `OpenIsHeld`, that an open connection has a handle
  at both of its ends, and what is in a reopening's hands is open when it ends.
* `ConfigFilesProofs`: `TypeOK`, `RestartResumes`, `GenerationIsUsable`, `OnlyCutOrForeignSavesLose`, for any number of processes. The lemmas on settings
  carry the first two: resolving the sources of a setting is typed and gives the defaults, and what is written is read back (`SettingsType`,
  `ReadBack`, `CutType`). A step is split once into what it does to its process and what it does to the disk (`StepEffect`), and each invariant
  is shown against these few effects: `SavedInv` (what was saved is in the file), `NumbersInv` and `FreshInv` (a generation has its number for
  itself), `OwnerInv` (a generation owns a file only with its own text in it), `LivesInv` (an identity is in one bundle, under one
  passphrase, and a generated passphrase in one configuration), `AloneInv` (no other generation gets to the files of one that was alone).
  With the last two an identity has two places where it can be found, the file and the daemon that is writing it, and each
  step either keeps one of them or is one of those that the property names. Assumed: inputs have the fields of `MaArgs` and the passphrases of the operator
  (`InputsAreTyped`), nobody guessed a passphrase that is yet to be generated (`GeneratedIsNew`), and the two marks
  for no file and a cut one are no text (`MarksAreDistinct`).

All safety properties that a run checks are proved, action properties and the safety of the two refinements among them.
`RestIsClean`, `WaitsForItsPeer` and `CloseLeavesNothing` are proved but no property of a run: they are the safety halves of `OldPinsGoAway`,
`CallersReturn` and `CloseReturns`, which the runs check.

**Only model-checked:** liveness (`PendingIsServed`, `ImplementsFairMailbox`, `WorkerComesToRest`, `OldPinsGoAway`,
`CallersReturn`, `CloseReturns`, `CallsEnd`), which the prover cannot do: fairness is `ENABLED`.

## 5. Where the code and its documentation disagree

Shown by a run:

1. *A lost wake-up* (`scheduler_lost_wakeup`). When the channel is full, `Resend`
   loses the token of a requeued batch whose entry stays in `pending`; every later `schedule`
   for that key returns `true`, replaces the entry and wakes nobody.
2. *Two cleanup keys of one name* (`cleanup_two_keys`). A publication whose replication failed has
   another key than one that succeeded; the older batch, run last, removes the newer
   document's pin.
3. *The blind remove at the end of `accept()`* (`connections_blind_remove`). `evict_if_closed`
   exists to avoid just this.

Seen in the code, without a run of their own:

* `drain` returns expired messages that stand behind a live one (`src/ttl_queue.rs:56`, against `doc/messaging.md:63`): eviction looks
  at the head only. For the same reason a full queue drops a live head while expired entries behind it keep their places.
* A service that is registered after a connection was dialed is not read on that connection, and after a reload of the router nothing reads the inbound
  connections that are still in the cache (`src/iroh/endpoint.rs:286`, `:535`), although `src/endpoint.rs:37-38` asks that a
  service be reachable once it is registered. `SettledIsServed` therefore speaks of connections dialed since.
* A service that is removed and registered again gets a new inbox; the loops of outbound connections go on with the old one.
* `SecretBundle` passphrases: `gen_headless` looks at the command line only, `Config::from_args` also at the environment, so a passphrase in the
  environment at both times hides the one that was generated and written to the file.
* Generation tests that neither file exists and truncates them later (`src/config/mod.rs:826` onwards; line 810 promises an error if either exists). Two
  generations at once can overwrite each other; `GenerationIsUsable` speaks of files that nobody else has touched.
* Empty content: `Message::new` adds the prefix before it calls `validate_content`, which so never finds it empty (`src/msg.rs:255`, `:271`), and
  `multicodec_decode` refuses a prefix with nothing behind it (`src/multiformat.rs:36`), so `payload()` returns the prefix that it says it strips (`src/msg.rs:287-293`).
* A delegated request that is delayed may put an older document of its owner back; nothing compares `updatedAt`.
* A batch of an older publication that runs between the pin of a newer document and its name
  publication removes the fresh in-flight pin, against the comment at
  `src/ipfs/publish.rs:513-515`. (The `cleanup` run has this interleaving; its properties are about
  the document that is confirmed.)
* The migration of a remote record removes it before it writes the new one and gives up if that fails.
* Self-addressed messages pass neither the signature check nor the replay guard
  (`src/iroh/endpoint.rs:824`, against `doc/messaging.md:141-143`).
* Messages past `exp` are admitted within the clock skew (`src/msg.rs:662`, against `doc/messaging.md:101-102`), and then
  not returned by the inbox.
* An imported key is compared with the DID only after the import (`src/ipfs/publish.rs:498-505`). A wrong one stays in Kubo, and every later publication of
  that identity is refused until someone calls `remove_key`. For requests `doc/ipfs-publish.md:147-157` promises the comparison before any call of Kubo.
* Two more checks that `doc/ipfs-publish.md:150-155` (and the comment at `:131`) ascribes to the validation inside `publish_signed_message` are not there
  (`src/ipfs/publish.rs:363-423`): a message id seen within 120 seconds is not rejected, and nobody asks an ACL for the capability `identity-publish`. The endpoint's
  replay guard sees requests that come over the network, not those that a host passes on again; the capability is left to the host.
  `PublishRequests` is about the checks that are made, and holds for a request each time it comes.
* An identity publish request goes through the replay guard before anything of it is verified (`src/iroh/endpoint.rs:75-90`; the handler verifies it later), and all
  protocols share the guard. A forged one so makes the guard refuse the genuine message with the same id for a window, and it reaches the inbox although
  `doc/messaging.md:141-143` says that signatures are verified before `pop` returns anything. `RefusalsHaveACause` and `ActorSeesOnlyChecked` name it as their
  exception; the `inbound` run has the case.
* `doc/messaging.md:59` calls `exp` nanoseconds; the code compares seconds.
* `src/acl/mod.rs:4` says that "a wildcard deny closes access to everyone"; `check_cap` prefers the direct entry,
  as `doc/acl.md` describes.

## 6. What makes each part correct

* Scheduler: accepted requests are served, the newest request of a key wins, the channel and the map agree.
* Cleanup: the published document is never unpinned, old pins disappear, the worker rests.
* Publication and names: success means that the name pointed to the document during the call; a failure leaves the
  old document reachable; a name is only set by its own key.
* Inbox: FIFO, nothing expired, losses only by expiry or crowding out.
* Inbound: at most one admission per window, only checked messages (identity publish requests and self-addressed ones apart), no refusal without a forerunner; of forged messages only identity publish requests can block a genuine one.
* Connections: sharing, no eviction of what lives, no blocking across peers, orderly `close()`.
* Service router: a message reaches an inbox of the place it was sent to; a stream on an undisturbed connection has a reader at either end.
* ACL: of the keys that match, the most specific decides; absence denies; writing and reading a map changes no decision.
* Config and secrets: a generated identity can be started and unlocked, a saved setting is read back, precedence is CLI > environment > YAML > default, and only a cut or foreign save loses an identity.
* Documents and messages: what is built is accepted, an edited document is refused until it is signed again, a request sets only the requester's name, a message is readable unless keys change.

## 7. Assumptions

The clock does not go backwards. The replay guard is in memory: a restart forgets it. Dropping iroh's `Router`
aborts its accept tasks, as the comment at `src/iroh/endpoint.rs:533` says. Tokio's mutex is fair. Kubo's pin
and name calls are atomic on its side, a name is read as it was last set there, and an import over an existing key is refused. `PinCleanup` further assumes that Kubo carries out
no publish request after its caller has given up on it; `Naming` shows what is left without that: success still means that the name pointed
to the document, but a late request may set it back to one whose pin is gone (`src/kubo/kubo.rs:463-488` has no guard against it). Cryptography does what it promises.

`ServiceRouter`: stream tasks end with the loop that took the stream, so a task that was spawned before a reload and pushes after it is not
shown (`AcceptedFeedsCurrent` is about loops). An endpoint that was closed sends nothing more over the network. Dialing fails for a protocol in a spelling that is not normalised, as the peer's
router compares bytes.

`Documents`: cryptography is ideal. Publication and reception are one step each; `Naming` and `Inbound` have theirs. Resolution finds what the name
leads to; failures, caches and freshness are left out (requests and packets are taken to be fresh; one that is not is as good as lost), and so are controllers, the context, the syntax of ids and timestamps, reply headers and
message content. An empty extension is reached by `SetMa` and `Sign`. How a runtime names a sender to `check_cap` (`CallerOf`), and who belongs to a group, is up to it:
neither is in this crate. Hosts ask any file that can be read, at the moment of reception.

`ConfigFiles`: bundles have one length, so writers of the same one leave no mixture. One setting stands for all that are resolved alike. A process
reads a file in one step. Log files, pin settings, named extra keys and the browser import are left out; of the export only the settings are modelled.

## 8. Plan

Done: pin cleanup, inbox, inbound messages, connection cache, names, the service router, access control, documents and messages, configuration
files. Next, in this order:

1. Proofs: the safety halves of `WorkerComesToRest` (what a batch must have removed to ask for another pass) and of `CallsEnd`.
2. Operations that are missing: the raw `Channel` of `IrohEndpoint::open` (one stream for many payloads), generic store requests
   (`src/ipfs/publish.rs`), `remove_key` and the gateway resolver with its caches, the named extra keys of a bundle.
3. Composition: the outbox of `Documents` over the connections of `ServiceRouter`.

**Not modelled:** cryptography, encodings, logging, the command-line parser, and the browser variants of the loops (`wasm32`), which
repeat the native ones. Calls that are one HTTP request without state of their own (`ipfs_add`, `cat`, `dag_put`) appear only as steps of
their callers. Errors, constants and traits have no behaviour of their own.
