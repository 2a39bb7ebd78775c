----------------------------- MODULE PinCleanup -----------------------------
(***************************************************************************)
(* Publication of one DID document and cleanup of its old pins: the        *)
(* publishers of src/ipfs/publish.rs, the scheduler of PinScheduler, the   *)
(* batches of its worker (cleanup_one_batch in src/kubo/pinning.rs), and   *)
(* the pins of the Kubo node and of one remote pin service.                *)
(*                                                                         *)
(* Every HTTP call is one step, so calls of publishers and of the worker   *)
(* interleave.  A call that fails may or may not have taken effect (a      *)
(* timeout, a lost response).  One managed pin name is modelled: "final"   *)
(* is that name and "temp" its in-flight variant with the suffix ~new.     *)
(***************************************************************************)
EXTENDS PinScheduler

CONSTANTS
  Pubs,        \* publications; each runs once
  OldCids,     \* CIDs that earlier runs may have left pinned
  Settings     \* what the environment may be like, a subset of AllSettings

\* "document": publish_document; "replace": remote_pin_replace_named.
AllJobs == [kind : {"document", "replace"}, overwrite : BOOLEAN, remote : BOOLEAN]

\* With one Kubo node, one pin name and one pin service, the parts of a
\* PinCleanupKey that vary are what the cleanup covers.
CleanupKeys == [local : BOOLEAN, remote : BOOLEAN]

ASSUME KeysAreCleanupKeys == Keys \subseteq CleanupKeys
Servers == {"kubo", "service"}
Paces == {"concurrent", "sequential", "quiescent"}

\* What publications may be asked for, how they may overlap (see MayStart),
\* whose calls may fail, and whether the process may die and restart.
AllSettings ==
  [jobs : (SUBSET AllJobs) \ {{}}, pacing : Paces, faulty : SUBSET Servers, crashes : BOOLEAN]

ASSUME Environment == OldCids \subseteq Cids /\ Settings \subseteq AllSettings

\* What the cleanup of such a job may cover: a document's is local, and also
\* remote if it was replicated; a "replace" gets there only replicated.
KeysOfJob(j) ==
  {k \in CleanupKeys : /\ k.local <=> j.kind = "document"
                       /\ k.remote => j.remote \/ j.kind = "replace"
                       /\ j.kind = "replace" => k.remote}

ASSUME KeysSuffice ==
  \A s \in Settings : \A j \in s.jobs : j.overwrite => KeysOfJob(j) \subseteq Keys

VARIABLES
  localPins,   \* Kubo's recursive pins: the one name of each CID, or "none"
  remotePins,  \* <<cid, name>> records of the pin service
  ipns,        \* the CID the document's IPNS name points to, or NoCid
  pubPc,       \* where each publication is
  job,         \* what it was asked to do
  cid,         \* its CID, once stored
  replicated,  \* remote_pin_with_retry succeeded
  step,        \* the next call of the worker's batch
  finals,      \* its local `final_pins`
  temps,       \* its local `temp_pins`
  todo,        \* stale pins it has still to remove, as <<cid, name>>
  removedAny,  \* its local `removed_any`
  localMore,   \* what cleanup_local_pass returned
  setting      \* the environment of this behaviour, which never changes

kuboVars == <<localPins, remotePins, ipns>>
pubVars == <<pubPc, job, cid, replicated>>
passVars == <<step, finals, temps, todo, removedAny, localMore>>
vars == <<schedVars, kuboVars, pubVars, passVars, setting>>

PinNames == {"final", "temp"}
PubPoints ==
  {"idle", "pin", "name", "replicate", "schedule", "done", "failed"}
Steps == {"none", "listFinal", "listTemp", "remove", "rename",
          "rListFinal", "rListTemp", "rRemove", "rDropTemp", "rAddFinal", "end"}

\* The types, and that the batch is under way exactly while it is called.
PassTypeOK ==
  /\ TypeOK
  /\ localPins \in [Cids -> PinNames \cup {"none"}]
  /\ remotePins \subseteq Cids \X PinNames
  /\ ipns \in Cids \cup {NoCid}
  /\ pubPc \in [Pubs -> PubPoints]
  /\ job \in [Pubs -> AllJobs]
  /\ cid \in [Pubs -> Cids \cup {NoCid}]
  /\ replicated \in [Pubs -> BOOLEAN]
  /\ setting \in Settings
  /\ step \in Steps
  /\ finals \subseteq Cids /\ temps \subseteq Cids
  /\ todo \subseteq Cids \X PinNames
  /\ removedAny \in BOOLEAN /\ localMore \in BOOLEAN
  /\ step # "none" <=> pc = "cleaning"
  /\ todo # {} <=> step \in {"remove", "rRemove"}

-----------------------------------------------------------------------------
(* The Kubo node and the pin service, as src/kubo/kubo.rs calls them.      *)

\* A failed call to a server: the server may have done its part.
Fails(server, var, new, old) == server \in setting.faulty /\ var \in {new, old}

\* pin/add with a name: a CID has one recursive pin, whose name it sets.
Pinned(c, n) == [localPins EXCEPT ![c] = n]

\* pin/rm is by CID, whatever the name of the pin.
Unpinned(c) == [localPins EXCEPT ![c] = "none"]

\* list_named_recursive_pins and list_named_remote_pins: exact name only.
LocalNamed(n) == {c \in Cids : localPins[c] = n}
RemoteNamed(n) == {c \in Cids : <<c, n>> \in remotePins}

\* remote_pin_add_named: a service that refuses a second record for a CID
\* answers "duplicate", which counts as success.
RemoteAdded(c, n) ==
  {remotePins \cup {<<c, n>>}}
    \cup (IF \E m \in PinNames : <<c, m>> \in remotePins THEN {remotePins} ELSE {})

\* remote_pin_rm_named: removing what is not there counts as success.
RemoteRemoved(c, n) == remotePins \ {<<c, n>>}

-----------------------------------------------------------------------------
(* Publications: publish_did_document_to_kubo,                             *)
(* confirm_pins_and_schedule_cleanup and remote_pin_replace_named.         *)

Running(p) == pubPc[p] \notin {"idle", "done", "failed"}

\* Mutant: the fresh pin gets its final name at once.
AddNameFinal(p) == "final"

\* in_flight_pin_name if the publication replaces older pins.
AddName(p) == IF job[p].overwrite THEN "temp" ELSE "final"

WorkerIsIdle == pc = "receiving" /\ wake = <<>>

\* "sequential": callers await one publication before the next; "quiescent":
\* they also let the cleanup finish.
MayStart ==
  /\ setting.pacing # "concurrent" => \A q \in Pubs : ~Running(q)
  /\ setting.pacing = "quiescent" => WorkerIsIdle

\* The document is decoded, its IPNS key found or imported, and the block
\* stored without a pin (dag_put_cbor).
Start(p) ==
  /\ pubPc[p] = "idle"
  /\ MayStart
  /\ \E j \in setting.jobs, c \in Cids :
       /\ job' = [job EXCEPT ![p] = j]
       /\ cid' = [cid EXCEPT ![p] = c]
       /\ pubPc' = [pubPc EXCEPT ![p] =
                      IF j.kind = "document" THEN "pin" ELSE "replicate"]
  /\ UNCHANGED <<schedVars, kuboVars, replicated, passVars>>

Goto(p, point) == pubPc' = [pubPc EXCEPT ![p] = point]

PinFresh(p) ==
  /\ pubPc[p] = "pin"
  /\ LET pinned == Pinned(cid[p], AddName(p)) IN
       \/ localPins' = pinned /\ Goto(p, "name")
       \/ Fails("kubo", localPins', pinned, localPins) /\ Goto(p, "failed")
  /\ UNCHANGED <<schedVars, remotePins, ipns, job, cid, replicated, passVars>>

\* name_publish_with_retry, all attempts and their verification.
NamePublish(p) ==
  /\ pubPc[p] = "name"
  /\ \/ /\ ipns' = cid[p]
        /\ Goto(p, IF job[p].remote THEN "replicate" ELSE "schedule")
     \/ Fails("kubo", ipns', cid[p], ipns) /\ Goto(p, "failed")
  /\ UNCHANGED <<schedVars, localPins, remotePins, job, cid, replicated, passVars>>

\* remote_pin_with_retry: a failure degrades a document's publication and
\* ends a "replace".
Replicate(p) ==
  /\ pubPc[p] = "replicate"
  /\ \/ /\ remotePins' \in RemoteAdded(cid[p], "final")
        /\ replicated' = [replicated EXCEPT ![p] = TRUE]
        /\ Goto(p, "schedule")
     \/ /\ Fails("service", remotePins', remotePins \cup {<<cid[p], "final">>}, remotePins)
        /\ Goto(p, IF job[p].kind = "document" THEN "schedule" ELSE "failed")
        /\ UNCHANGED replicated
  /\ UNCHANGED <<schedVars, localPins, ipns, job, cid, passVars>>

\* The cleanup of a publication: remote_service is set only if the new CID
\* is replicated.
KeyOf(p) == [local |-> job[p].kind = "document", remote |-> replicated[p]]

ScheduleCleanup(p) ==
  /\ pubPc[p] = "schedule"
  /\ IF job[p].overwrite THEN Schedule(KeyOf(p), cid[p]) ELSE UNCHANGED schedVars
  /\ Goto(p, "done")
  /\ UNCHANGED <<kuboVars, job, cid, replicated, passVars>>

PubStep(p) ==
  Start(p) \/ PinFresh(p) \/ NamePublish(p) \/ Replicate(p) \/ ScheduleCleanup(p)

-----------------------------------------------------------------------------
(* The batches of the worker.                                              *)

\* Mutant: the protected CID is not filtered out.
StalePinsAll(pins) == pins

\* Mutant: pins under the final name are never stale.
StalePinsNone(pins) == {pin \in pins : pin[1] # heldCid /\ pin[2] # "final"}

\* stale_pins: every listed pin but those of the protected CID.
StalePins(pins) == {pin \in pins : pin[1] # heldCid}

ListedPins(final, temp) == (final \X {"final"}) \cup (temp \X {"temp"})

\* Mutant: the list of pins to remove survives the pass.
EmptyPassKeepingTodo ==
  /\ finals' = {} /\ temps' = {} /\ removedAny' = FALSE
  /\ UNCHANGED todo

EmptyPass ==
  /\ finals' = {}
  /\ temps' = {}
  /\ todo' = {}
  /\ removedAny' = FALSE

\* cleanup_one_batch: the local pass if asked for, then the remote one.
RemotePassOrEnd(k) == IF k.remote THEN "rListFinal" ELSE "end"

BeginBatch ==
  /\ Take
  /\ step' = IF ~Occupied(heldKey) THEN "none"
             ELSE IF heldKey.local THEN "listFinal" ELSE RemotePassOrEnd(heldKey)
  /\ localMore' = FALSE
  /\ EmptyPass
  /\ UNCHANGED <<kuboVars, pubVars>>

LocalPassReturns(more) ==
  /\ localMore' = more
  /\ step' = RemotePassOrEnd(heldKey)
  /\ EmptyPass

ListFinal ==
  /\ step = "listFinal"
  /\ \/ /\ finals' = LocalNamed("final")
        /\ step' = "listTemp"
        /\ UNCHANGED <<temps, todo, removedAny, localMore>>
     \/ "kubo" \in setting.faulty /\ LocalPassReturns(FALSE)
  /\ UNCHANGED <<schedVars, kuboVars, pubVars>>

ListTemp ==
  /\ step = "listTemp"
  /\ LET stale == StalePins(ListedPins(finals, LocalNamed("temp"))) IN
       \/ /\ stale # {}
          /\ todo' = stale
          /\ step' = "remove"
          /\ UNCHANGED <<finals, temps, removedAny, localMore>>
       \/ /\ stale = {} /\ heldCid \notin finals
          /\ step' = "rename"
          /\ UNCHANGED <<finals, temps, todo, removedAny, localMore>>
       \/ stale = {} /\ heldCid \in finals /\ LocalPassReturns(FALSE)
       \/ "kubo" \in setting.faulty /\ LocalPassReturns(FALSE)
  /\ UNCHANGED <<schedVars, kuboVars, pubVars>>

\* Mutant: a failed removal counts as progress.
ProgressAlways(ok) == TRUE

\* removed_any after a call that ended with `ok`.
Progress(ok) == removedAny \/ ok

\* pin_rm of one stale pin.  Kubo refuses it if the CID is not pinned (it
\* may be listed under both names, or be gone).
Remove ==
  /\ step = "remove"
  /\ \E pin \in todo, ok \in BOOLEAN :
       /\ \/ ok /\ localPins[pin[1]] # "none" /\ localPins' = Unpinned(pin[1])
          \/ ~ok /\ localPins[pin[1]] = "none" /\ UNCHANGED localPins
          \/ ~ok /\ Fails("kubo", localPins', Unpinned(pin[1]), localPins)
       /\ IF todo = {pin}
          THEN LocalPassReturns(Progress(ok))
          ELSE /\ todo' = todo \ {pin}
               /\ removedAny' = Progress(ok)
               /\ UNCHANGED <<step, finals, temps, localMore>>
  /\ UNCHANGED <<schedVars, remotePins, ipns, pubVars>>

Rename ==
  /\ step = "rename"
  /\ LET renamed == Pinned(heldCid, "final") IN
       localPins' = renamed \/ Fails("kubo", localPins', renamed, localPins)
  /\ LocalPassReturns(FALSE)
  /\ UNCHANGED <<schedVars, remotePins, ipns, pubVars>>

-----------------------------------------------------------------------------
(* cleanup_remote_pass.                                                    *)

RListFinal ==
  /\ step = "rListFinal"
  /\ \/ finals' = RemoteNamed("final") /\ step' = "rListTemp"
     \/ "service" \in setting.faulty /\ step' = "end" /\ UNCHANGED finals
  /\ UNCHANGED <<schedVars, kuboVars, pubVars, temps, todo, removedAny, localMore>>

\* Stale pins are removed first; then a pin of the protected CID that an
\* older publisher left under the in-flight name is migrated.
RListTemp ==
  /\ step = "rListTemp"
  /\ \/ /\ temps' = RemoteNamed("temp")
        /\ todo' = StalePins(ListedPins(finals, temps'))
        /\ step' = IF todo' # {} THEN "rRemove"
                   ELSE IF heldCid \in temps' THEN "rDropTemp" ELSE "end"
     \/ "service" \in setting.faulty /\ step' = "end" /\ UNCHANGED <<temps, todo>>
  /\ UNCHANGED <<schedVars, kuboVars, pubVars, finals, removedAny, localMore>>

RRemove ==
  /\ step = "rRemove"
  /\ \E pin \in todo, ok \in BOOLEAN :
       /\ LET removed == RemoteRemoved(pin[1], pin[2]) IN
            \/ ok /\ remotePins' = removed
            \/ ~ok /\ Fails("service", remotePins', removed, remotePins)
       /\ todo' = todo \ {pin}
       /\ removedAny' = Progress(ok)
       /\ step' = IF todo' = {} THEN "end" ELSE "rRemove"
  /\ UNCHANGED <<schedVars, localPins, ipns, pubVars, finals, temps, localMore>>

RDropTemp ==
  /\ step = "rDropTemp"
  /\ LET removed == RemoteRemoved(heldCid, "temp") IN
       \/ /\ remotePins' = removed
          /\ step' = IF heldCid \in finals THEN "end" ELSE "rAddFinal"
       \/ Fails("service", remotePins', removed, remotePins) /\ step' = "end"
  /\ UNCHANGED <<schedVars, localPins, ipns, pubVars,
                 finals, temps, todo, removedAny, localMore>>

RAddFinal ==
  /\ step = "rAddFinal"
  /\ step' = "end"
  /\ \/ remotePins' \in RemoteAdded(heldCid, "final")
     \/ Fails("service", remotePins', remotePins \cup {<<heldCid, "final">>}, remotePins)
  /\ UNCHANGED <<schedVars, localPins, ipns, pubVars,
                 finals, temps, todo, removedAny, localMore>>

\* cleanup_one_batch returns local_more || remote_more.  After a remote pass
\* removedAny is what that pass returned: it is FALSE unless it removed.
FinishBatch ==
  /\ step = "end"
  /\ EndBatch(localMore \/ removedAny)
  /\ step' = "none"
  /\ localMore' = FALSE
  /\ EmptyPass
  /\ UNCHANGED <<kuboVars, pubVars>>

PassStep ==
  \/ ListFinal \/ ListTemp \/ Remove \/ Rename
  \/ RListFinal \/ RListTemp \/ RRemove \/ RDropTemp \/ RAddFinal

\* The worker's steps outside a batch.
LoopStep == (Receive \/ Resend) /\ UNCHANGED <<kuboVars, pubVars, passVars>>

CleanupStep ==
  (LoopStep \/ BeginBatch \/ PassStep \/ FinishBatch) /\ UNCHANGED setting

-----------------------------------------------------------------------------

\* The process dies: publications end, the queue and the map are lost, and a
\* new process starts with an idle worker.  Kubo and the service go on.
Crash ==
  /\ setting.crashes
  /\ \E p \in Pubs : Running(p) \/ pubPc[p] = "done"
  /\ pubPc' = [p \in Pubs |-> IF Running(p) THEN "failed" ELSE pubPc[p]]
  /\ pending' = [k \in Keys |-> NoCid]
  /\ newest' = pending'
  /\ wake' = <<>> /\ pc' = "receiving" /\ reply' = TRUE
  /\ heldKey' = NoKey /\ heldCid' = NoCid
  /\ step' = "none" /\ localMore' = FALSE /\ EmptyPass
  /\ UNCHANGED <<kuboVars, job, cid, replicated>>

\* Kubo and the pin service keep what earlier publications left.  An
\* older publisher may have left remote records under the in-flight name.
Init ==
  /\ SchedInit
  /\ setting \in Settings
  /\ localPins \in [Cids -> PinNames \cup {"none"}]
  /\ \A c \in Cids \ OldCids : localPins[c] = "none"
  /\ remotePins \in SUBSET (OldCids \X PinNames)
  /\ ipns = NoCid
  /\ pubPc = [p \in Pubs |-> "idle"]
  /\ job \in [Pubs -> {CHOOSE j \in setting.jobs : TRUE}]
  /\ cid = [p \in Pubs |-> NoCid]
  /\ replicated = [p \in Pubs |-> FALSE]
  /\ step = "none" /\ localMore = FALSE
  /\ finals = {} /\ temps = {} /\ todo = {} /\ removedAny = FALSE

Next ==
  \/ CleanupStep
  \/ ((\E p \in Pubs : PubStep(p)) \/ Crash) /\ UNCHANGED setting

Spec == Init /\ [][Next]_vars

\* The worker is a Tokio task whose calls all have timeouts.
FairSpec == Spec /\ WF_vars(CleanupStep)

-----------------------------------------------------------------------------
(* Properties.                                                             *)

Quiescent == WorkerIsIdle /\ \A p \in Pubs : ~Running(p)

AllDone == \A p \in Pubs : pubPc[p] = "done"

\* Every call succeeds and the process lives on.
Calm == setting.faulty = {} /\ ~setting.crashes

\* A batch never removes the pin of the CID it protects.  Only the remote
\* migration takes its record away, to write it again under the final name.
ProtectedIsKept ==
  [][pc = "cleaning" /\ CleanupStep =>
       /\ localPins[heldCid] # "none" => localPins'[heldCid] # "none"
       /\ <<heldCid, "final">> \in remotePins => <<heldCid, "final">> \in remotePins'
    ]_vars

\* The managed name is the mark of a confirmed document: with overwrite, a
\* pin gets it only after a publication of that very document succeeded.  The
\* pin of a publication that failed half way, or that died with the process,
\* keeps the in-flight name until it is removed, whatever calls fail, lose
\* their responses or are cut off, and whichever batch lists it.
FinalNameIsConfirmed ==
  [][(\A j \in setting.jobs : j.overwrite) =>
       \A c \in Cids : localPins[c] # "final" /\ localPins'[c] = "final"
         => \E p \in Pubs : cid[p] = c /\ pubPc[p] = "done"]_vars

\* "Re-list only while we make progress, so a broken Kubo cannot spin us"
\* (pinning.rs:276): when no publication runs any more, the worker stops
\* requeueing, whatever fails and however many keys undo each other's work.
WorkerComesToRest ==
  <>[](\A p \in Pubs : ~Running(p)) => <>[]WorkerIsIdle

\* Once the publications are done and the worker is idle, the document the
\* IPNS name points to is pinned locally: doc/ipfs-publish.md:184-185 says
\* of cleanup that it "never removes the newly confirmed CID".
CurrentIsKept == Quiescent /\ AllDone /\ ipns # NoCid => localPins[ipns] # "none"

\* If publications wait for the cleanup of the previous one, the document
\* the IPNS name points to is pinned at every moment: through failed calls,
\* lost responses and crashes at any point of a publication or a batch.
CurrentIsAlwaysPinned ==
  setting.pacing = "quiescent" /\ ipns # NoCid => localPins[ipns] # "none"

\* The purpose of overwrite: in the end exactly the current document is
\* pinned, locally and (if it is replicated) at the service, under the
\* managed name.  So nothing that was replicated is lost either.
LocalIsClean == localPins = [c \in Cids |-> IF c = ipns THEN "final" ELSE "none"]
RemoteIsClean == remotePins = {<<ipns, "final">>}
OldPinsGoAway ==
  Calm /\ AllDone ~> LocalIsClean /\ (\A p \in Pubs : replicated[p] => RemoteIsClean)

=============================================================================
