------------------------------- MODULE Naming -------------------------------
(***************************************************************************)
(* One IPNS name in Kubo: the publications that set it                     *)
(* (publish_did_document_to_kubo in src/ipfs/publish.rs up to and with     *)
(* name_publish_with_retry in src/kubo/kubo.rs), and the fetches that read *)
(* it (fetch_did_document).                                                *)
(*                                                                         *)
(* A document is its CID.  A call to Kubo may fail before or after it took *)
(* effect; a publish request whose caller has given up on it may still be  *)
(* carried out.  The pauses between attempts are not modelled: anything    *)
(* may happen between two steps.                                           *)
(***************************************************************************)
EXTENDS Naturals

CONSTANTS
  Pubs,           \* publications; each runs once
  Fetches,        \* fetches; each runs once
  Cids,           \* documents
  Valid,          \* those that validate and verify and are of this DID
  NoCid,          \* the name is not set, no document
  NoPub,          \* no publication
  Attempts,       \* options.attempts
  FetchAttempts,  \* the 4 of fetch_did_document
  Settings        \* what the environment may be like

ASSUME AttemptsAreNumbers == Attempts \in Nat /\ FetchAttempts \in Nat
ASSUME NoCidIsNotACid == NoCid \notin Cids
ASSUME NoPubIsNotAPub == NoPub \notin Pubs
ASSUME DocumentsAreCids == Valid \subseteq Cids

\* overlap: publications may run at the same time.  late: Kubo may carry out
\* a request whose caller has given up on it.
ASSUME SettingsAreSettings == Settings \subseteq [overlap : BOOLEAN, late : BOOLEAN]

VARIABLES
  alias,      \* the key under the name's alias: none, the DID's own, or another
  name,       \* what the name points to
  late,       \* per publication, requests given up that Kubo may carry out
  pc,         \* where each publication is
  cid,        \* its document
  tries,      \* its local `attempt`
  request,    \* its request at Kubo
  reached,    \* history: the name pointed to its document since it began
  last,       \* history: the publication that ended last
  fetchPc,    \* where each fetch is
  fetchTries, \* its local `attempt`
  path,       \* its local `resolved_path`
  document,   \* its local `document`
  shown,      \* history: what the name pointed to since it began
  setting     \* the environment of this behaviour, which never changes

pubVars == <<pc, cid, tries, request, last>>
fetchVars == <<fetchPc, fetchTries, path, document>>
vars == <<alias, name, late, pubVars, reached, fetchVars, shown, setting>>

Ended == {"ok", "failed"}
PubPoints == {"idle", "find", "import", "store", "publish", "asked", "verify"} \cup Ended
FetchPoints == {"idle", "direct", "resolve", "read", "check"} \cup Ended

Running(p) == pc[p] \notin {"idle"} \cup Ended

\* The types, when a publication has a request under way and a fetch a path or
\* a document, that no more requests are held back than attempts were made,
\* and that a fetch that tries has an attempt left.
TypeOK ==
  /\ alias \in {"none", "own", "other"}
  /\ name \in Cids \cup {NoCid}
  /\ late \in [Pubs -> 0 .. Attempts]
  /\ pc \in [Pubs -> PubPoints]
  /\ cid \in [Pubs -> Cids \cup {NoCid}]
  /\ tries \in [Pubs -> 0 .. Attempts]
  /\ request \in [Pubs -> {"none", "sent", "done"}]
  /\ reached \in [Pubs -> BOOLEAN]
  /\ last \in Pubs \cup {NoPub}
  /\ fetchPc \in [Fetches -> FetchPoints]
  /\ fetchTries \in [Fetches -> 0 .. FetchAttempts]
  /\ path \in [Fetches -> Cids \cup {NoCid}]
  /\ document \in [Fetches -> Cids \cup {NoCid}]
  /\ shown \in [Fetches -> SUBSET (Cids \cup {NoCid})]
  /\ setting \in Settings
  /\ \A p \in Pubs : cid[p] = NoCid <=> pc[p] = "idle"
  /\ \A p \in Pubs : request[p] # "none" <=> pc[p] = "asked"
  /\ \A p \in Pubs : late[p] <= tries[p] /\ (request[p] = "sent" => late[p] < tries[p])
  /\ \A f \in Fetches : fetchPc[f] = "direct" => fetchTries[f] < FetchAttempts
  /\ \A f \in Fetches : path[f] # NoCid <=> fetchPc[f] = "read"
  /\ \A f \in Fetches : fetchPc[f] \in {"check", "ok"} => document[f] # NoCid

Init ==
  /\ alias \in {"none", "own"}
  /\ name \in IF alias = "own" THEN Cids \cup {NoCid} ELSE {NoCid}
  /\ late = [p \in Pubs |-> 0]
  /\ pc = [p \in Pubs |-> "idle"]
  /\ cid = [p \in Pubs |-> NoCid]
  /\ tries = [p \in Pubs |-> 0]
  /\ request = [p \in Pubs |-> "none"]
  /\ reached = [p \in Pubs |-> FALSE]
  /\ last = NoPub
  /\ fetchPc = [f \in Fetches |-> "idle"]
  /\ fetchTries = [f \in Fetches |-> 0]
  /\ path = [f \in Fetches |-> NoCid]
  /\ document = [f \in Fetches |-> NoCid]
  /\ shown = [f \in Fetches |-> {}]
  /\ setting \in Settings

-----------------------------------------------------------------------------
(***************************************************************************)
(* A publication.                                                          *)
(***************************************************************************)

\* Publication p goes from one point to another; one that ends is the last.
Goes(p, from, to) ==
  /\ pc[p] = from
  /\ pc' = [pc EXCEPT ![p] = to]
  /\ last' = IF to \in Ended THEN p ELSE last

\* A document is given to be published, with or without a private key.  Only the
\* documents of signed requests were validated before.
Start(p) ==
  /\ setting.overlap \/ \A q \in Pubs : ~Running(q)
  /\ Goes(p, "idle", "find")
  /\ \E c \in Cids : /\ cid' = [cid EXCEPT ![p] = c]
                     /\ reached' = [reached EXCEPT ![p] = (name = c)]
  /\ UNCHANGED <<alias, name, late, tries, request, fetchVars, shown, setting>>

\* Mutant: a key that is found is not compared with the DID.
FindUnchecked(p) ==
  /\ Goes(p, "find", IF alias = "none" THEN "import" ELSE "store")
  /\ UNCHANGED <<alias, name, late, cid, tries, request, reached, fetchVars, shown, setting>>

\* list_keys, and what follows from the key it finds under the alias.
FindKey(p) ==
  /\ \/ alias = "own" /\ Goes(p, "find", "store")
     \/ alias = "none" /\ Goes(p, "find", "import")
  /\ UNCHANGED <<alias, name, late, cid, tries, request, reached, fetchVars, shown, setting>>

\* The key under the alias is another's, or there is none and no usable
\* private key came with the document.
NoKey(p) ==
  /\ alias \in {"none", "other"}
  /\ Goes(p, "find", "failed")
  /\ UNCHANGED <<alias, name, late, cid, tries, request, reached, fetchVars, shown, setting>>

\* Mutant: an imported key is not compared with the DID.
ImportUnchecked(p) ==
  /\ alias = "none"
  /\ alias' \in {"own", "other"}
  /\ Goes(p, "import", "store")
  /\ UNCHANGED <<name, late, cid, tries, request, reached, fetchVars, shown, setting>>

\* import_key puts the private key that came along under the alias, and it is
\* then compared with the document's DID.  Kubo refuses to import over a key.
Import(p) ==
  /\ alias = "none"
  /\ alias' \in {"own", "other"}
  /\ Goes(p, "import", IF alias' = "own" THEN "store" ELSE "failed")
  /\ UNCHANGED <<name, late, cid, tries, request, reached, fetchVars, shown, setting>>

\* import_key fails, perhaps after the key was stored.
ImportFails(p) ==
  /\ alias' \in IF alias = "none" THEN {"none", "own", "other"} ELSE {alias}
  /\ Goes(p, "import", "failed")
  /\ UNCHANGED <<name, late, cid, tries, request, reached, fetchVars, shown, setting>>

\* The document is stored and pinned under its name.
Store(p) ==
  /\ Goes(p, "store", "publish")
  /\ UNCHANGED <<alias, name, late, cid, tries, request, reached, fetchVars, shown, setting>>

\* list_keys, dag_put or pin_add_named fails.
CallFails(p) ==
  /\ \E from \in {"find", "store"} : Goes(p, from, "failed")
  /\ UNCHANGED <<alias, name, late, cid, tries, request, reached, fetchVars, shown, setting>>

\* Mutant: attempts are not counted.
SendForever(p) ==
  /\ Goes(p, "publish", "asked")
  /\ request' = [request EXCEPT ![p] = "sent"]
  /\ UNCHANGED <<alias, name, late, cid, tries, reached, fetchVars, shown, setting>>

\* One more attempt: name_publish_with_options sends its request.
Send(p) ==
  /\ tries[p] < Attempts
  /\ Goes(p, "publish", "asked")
  /\ tries' = [tries EXCEPT ![p] = @ + 1]
  /\ request' = [request EXCEPT ![p] = "sent"]
  /\ UNCHANGED <<alias, name, late, cid, reached, fetchVars, shown, setting>>

\* No attempt is left.
Exhausted(p) ==
  /\ tries[p] >= Attempts
  /\ Goes(p, "publish", "failed")
  /\ UNCHANGED <<alias, name, late, cid, tries, request, reached, fetchVars, shown, setting>>

\* The request is answered with success.
Answer(p) ==
  /\ request[p] = "done"
  /\ Goes(p, "asked", "ok")
  /\ request' = [request EXCEPT ![p] = "none"]
  /\ UNCHANGED <<alias, name, late, cid, tries, reached, fetchVars, shown, setting>>

\* Mutant: an error drops the request's outcome but not the request.
KeepsRequest(p) ==
  /\ Goes(p, "asked", "verify")
  /\ late' = [late EXCEPT ![p] = IF setting.late /\ request[p] = "sent" THEN @ + 1 ELSE @]
  /\ UNCHANGED <<alias, name, cid, tries, request, reached, fetchVars, shown, setting>>

\* The request is answered with an error or not in time, whether it was
\* carried out or not.
GiveUp(p) ==
  /\ Goes(p, "asked", "verify")
  /\ request' = [request EXCEPT ![p] = "none"]
  /\ late' = [late EXCEPT ![p] = IF setting.late /\ request[p] = "sent" THEN @ + 1 ELSE @]
  /\ UNCHANGED <<alias, name, cid, tries, reached, fetchVars, shown, setting>>

\* Mutant: that the name resolves at all confirms a publication.
ConfirmAny(p) ==
  /\ name # NoCid
  /\ Goes(p, "verify", "ok")
  /\ UNCHANGED <<alias, name, late, cid, tries, request, reached, fetchVars, shown, setting>>

\* verify_name_target_after_error finds the document under the name.
Confirm(p) ==
  /\ name = cid[p]
  /\ Goes(p, "verify", "ok")
  /\ UNCHANGED <<alias, name, late, cid, tries, request, reached, fetchVars, shown, setting>>

\* It finds another, or name_resolve fails.
NotConfirmed(p) ==
  /\ Goes(p, "verify", "publish")
  /\ UNCHANGED <<alias, name, late, cid, tries, request, reached, fetchVars, shown, setting>>

-----------------------------------------------------------------------------
(***************************************************************************)
(* Kubo.                                                                   *)
(***************************************************************************)

\* Kubo publishes under the key that has the alias: the name points to p's
\* document if that is the DID's own.
PointTo(p) ==
  /\ name' = IF alias = "own" THEN cid[p] ELSE name
  /\ reached' = [q \in Pubs |-> reached[q] \/ (Running(q) /\ cid[q] = name')]
  /\ shown' = [f \in Fetches |-> IF fetchPc[f] \in {"idle"} \cup Ended
                                 THEN shown[f] ELSE shown[f] \cup {name'}]

\* A request is carried out whose caller waits for it.
CarriedOut(p) ==
  /\ request[p] = "sent"
  /\ request' = [request EXCEPT ![p] = "done"]
  /\ PointTo(p)
  /\ UNCHANGED <<alias, late, pc, cid, tries, last, fetchVars, setting>>

\* A request is carried out whose caller has given up on it.
LateCarriedOut(p) ==
  /\ late[p] > 0
  /\ late' = [late EXCEPT ![p] = @ - 1]
  /\ PointTo(p)
  /\ UNCHANGED <<alias, pubVars, fetchVars, setting>>

-----------------------------------------------------------------------------
(***************************************************************************)
(* A fetch.                                                                *)
(***************************************************************************)

FetchGoes(f, from, to) ==
  /\ fetchPc[f] = from
  /\ fetchPc' = [fetchPc EXCEPT ![f] = to]
  /\ UNCHANGED <<alias, name, late, pubVars, reached, setting>>

\* What a fetch does when an attempt has failed.
NextPoint(f) == IF fetchTries[f] < FetchAttempts THEN "direct" ELSE "failed"

Begin(f) ==
  /\ FetchGoes(f, "idle", NextPoint(f))
  /\ shown' = [shown EXCEPT ![f] = {name}]
  /\ UNCHANGED <<fetchTries, path, document>>

\* dag_get of the name itself.
GetDirect(f) ==
  /\ fetchTries' = [fetchTries EXCEPT ![f] = @ + 1]
  /\ \/ /\ name # NoCid
        /\ FetchGoes(f, "direct", "check")
        /\ document' = [document EXCEPT ![f] = name]
     \/ FetchGoes(f, "direct", "resolve") /\ UNCHANGED document
  /\ UNCHANGED <<path, shown>>

\* name_resolve.  It may fail with an error that is tried again and with one
\* that is not (should_retry_name_resolve_error).
Resolve(f) ==
  /\ \/ /\ name # NoCid
        /\ FetchGoes(f, "resolve", "read")
        /\ path' = [path EXCEPT ![f] = name]
     \/ /\ \E to \in {NextPoint(f), "failed"} : FetchGoes(f, "resolve", to)
        /\ UNCHANGED path
  /\ UNCHANGED <<fetchTries, document, shown>>

\* dag_get of what the name pointed to.
GetResolved(f) ==
  /\ path' = [path EXCEPT ![f] = NoCid]
  /\ \/ /\ FetchGoes(f, "read", "check")
        /\ document' = [document EXCEPT ![f] = path[f]]
     \/ FetchGoes(f, "read", NextPoint(f)) /\ UNCHANGED document
  /\ UNCHANGED <<fetchTries, shown>>

\* Mutant: an invalid document is returned all the same.
NoCheck(f) ==
  /\ FetchGoes(f, "check", "ok")
  /\ UNCHANGED <<fetchTries, path, document, shown>>

\* The document is validated, verified and compared with the DID.
Check(f) ==
  /\ FetchGoes(f, "check", IF document[f] \in Valid THEN "ok" ELSE "failed")
  /\ UNCHANGED <<fetchTries, path, document, shown>>

-----------------------------------------------------------------------------
PubStep(p) ==
  \/ FindKey(p) \/ NoKey(p) \/ Import(p) \/ ImportFails(p) \/ Store(p) \/ CallFails(p)
  \/ Send(p) \/ Exhausted(p) \/ Answer(p) \/ GiveUp(p) \/ Confirm(p) \/ NotConfirmed(p)

FetchStep(f) == GetDirect(f) \/ Resolve(f) \/ GetResolved(f) \/ Check(f)

Next ==
  \/ \E p \in Pubs : Start(p) \/ PubStep(p) \/ CarriedOut(p) \/ LateCarriedOut(p)
  \/ \E f \in Fetches : Begin(f) \/ FetchStep(f)

Spec == Init /\ [][Next]_vars

\* Every call has a timeout and every pause ends, so a publication or a fetch
\* that has begun goes on.
FairSpec ==
  /\ Spec
  /\ \A p \in Pubs : WF_vars(PubStep(p))
  /\ \A f \in Fetches : WF_vars(FetchStep(f))

-----------------------------------------------------------------------------
(***************************************************************************)
(* Properties.                                                             *)
(***************************************************************************)

\* A publication reports success only if the name did point to its document
\* after it began, however its attempts were answered, whoever else publishes,
\* and whatever Kubo does with requests that were given up
\* (name_publish_with_retry accepts an error when the name confirms).
SuccessWasTarget == \A p \in Pubs : pc[p] = "ok" => reached[p]

\* A publication stores, pins and publishes only under a key that is its
\* DID's own, be it found or imported (the checks in
\* publish_did_document_to_kubo), also when another imports meanwhile.
OnlyOwnKey ==
  \A p \in Pubs : pc[p] \in {"store", "publish", "asked", "verify", "ok"} => alias = "own"

\* Without overlap and late requests, the name points to the document of the
\* publication that ended last when that reported success, until the next one
\* sends its first request.
PublishedIsLive ==
  ~setting.overlap /\ ~setting.late /\ last # NoPub /\ pc[last] = "ok"
    /\ (\A p \in Pubs : pc[p] \notin {"asked", "verify"} /\ (Running(p) => tries[p] = 0))
  => name = cid[last]

\* A fetch returns a valid document of its DID that the name pointed to after
\* the fetch began, however stale the path it was read from
\* (fetch_did_document).
FetchedWasTarget ==
  \A f \in Fetches : fetchPc[f] = "ok" => document[f] \in Valid \cap shown[f]

\* Every publication and every fetch that has begun ends.
CallsEnd ==
  /\ \A p \in Pubs : Running(p) ~> pc[p] \in Ended
  /\ \A f \in Fetches : fetchPc[f] # "idle" ~> fetchPc[f] \in Ended

=============================================================================
