----------------------------- MODULE Documents ------------------------------
(***************************************************************************)
(* DID documents and the messages that are checked against them: building, *)
(* editing and signing a document (src/doc.rs, src/identity.rs,            *)
(* src/config/secrets.rs), publishing it natively and by a delegated       *)
(* request (src/ipfs/publish.rs), resolving it (src/kubo/kubo.rs), and     *)
(* signing, sealing and opening messages (src/msg.rs, src/outbox.rs,       *)
(* src/iroh/endpoint.rs).                                                  *)
(*                                                                         *)
(* Cryptography is ideal: a signature names its key and what it covers, an *)
(* envelope the key that opens it.  How a publication gets into Kubo is    *)
(* module Naming, how a message gets into an inbox is module Inbound;      *)
(* here both are one step.  A request and a packet may wait for any time   *)
(* or be lost, and a request may come again.                               *)
(***************************************************************************)
EXTENDS Access, Sequences

CONSTANTS
  Active,     \* bound: who edits, requests and sends; all owners do the rest
  Renewable,  \* bound: which keys are renewed, as <<owner, kind>>
  Protocols,  \* service protocols
  Offers,     \* sequences of protocols an endpoint may have registered
  Broken,     \* an endpoint id that does not parse
  Frags,      \* fragments of verification methods, beside "sign" and "enc"
  Files,      \* ACL files that hosts may have
  NoMa, NoKey, NoEndpoint, NoRequest, NoPacket, NoOutbox,
  MaxKeys,    \* bound: signing and encryption keys an owner has one after the other
  Scopes      \* bounds, of which a behaviour has one: see scope

ASSUME SomeKeys == MaxKeys \in Nat \ {0}
\* Seconds, edits by hand, and whether there are requests and messages.
ASSUME ScopesAreScopes ==
  Scopes \subseteq [seconds : Nat, edits : Nat, requests : BOOLEAN, mail : BOOLEAN]
ASSUME ActiveOwn == Active \subseteq Dids
ASSUME OffersAreSequences == \A s \in Offers : s \in Seq({s[i] : i \in DOMAIN s})
ASSUME OwnersAreSomebody == Nobody \notin Dids /\ Broken \notin Dids
ASSUME FilesAreFiles == \A text \in Files : IsFile(text)

VARIABLES
  now,        \* seconds, as in created_at and updated_at
  bundle,     \* per owner: the generation of its signing and encryption key
  draft,      \* per owner: the document that its program holds
  edits,      \* edits so far
  published,  \* per owner: what its IPNS name leads to
  outbox,     \* per owner: an open outbox
  request,    \* an identity publish request under way
  packet,     \* a message under way
  last,       \* what became of the last of these
  scope       \* the bounds of this behaviour, which never change

vars == <<now, bundle, draft, edits, published, outbox, request, packet, last, scope>>

\* What there is when there is no document, and Proof::default().
NoDoc == [id |-> Nobody]
NoProof == [method |-> "", key |-> NoKey, over |-> NoDoc]

-----------------------------------------------------------------------------
(* Keys, methods, services.                                                *)

Bundles == [sign : 1 .. MaxKeys, enc : 1 .. MaxKeys]

Key(o, kind, n) == [of |-> o, kind |-> kind, n |-> n]
SigningKey(o, b) == Key(o, "sign", b.sign)
EncryptionKey(o, b) == Key(o, "enc", b.enc)

IsMethod(doc, f) == \E i \in DOMAIN doc.methods : doc.methods[i].frag = f

\* get_verification_method_by_id; the first one, as Iterator::find does.
KeyOf(doc, f) ==
  IF IsMethod(doc, f)
  THEN doc.methods[CHOOSE i \in DOMAIN doc.methods :
         doc.methods[i].frag = f /\ \A j \in 1 .. i - 1 : doc.methods[j].frag # f].key
  ELSE NoKey

Knows(doc, frags, kind) ==
  \A i \in DOMAIN frags : IsMethod(doc, frags[i]) /\ KeyOf(doc, frags[i]).kind = kind

\* add_verification_method: a second method with the same id, or with the
\* same key, is dropped and no error returned.
AddMethod(doc, f, key) ==
  IF \E i \in DOMAIN doc.methods : doc.methods[i].frag = f \/ doc.methods[i].key = key
  THEN doc
  ELSE [doc EXCEPT !.methods = Append(@, [frag |-> f, key |-> key])]

\* MaEndpoint::ma_extension, with the transport strings of what is registered.
\* NoMa is an empty MaExtension: set_ma takes Null and {} as a removal.
Extensions(o) ==
  {NoMa} \cup {[i \in DOMAIN s |-> [protocol |-> s[i], endpoint |-> o]] : s \in Offers}

\* endpoint_for_service_item: a service for the protocol whose endpoint id
\* parses.
Serves(service, protocol) == service.protocol = protocol /\ service.endpoint # Broken

\* resolve_endpoint_for_protocol on ma["services"]: the first that serves.
EndpointFor(doc, protocol) ==
  IF doc.ma = NoMa \/ ~ \E i \in DOMAIN doc.ma : Serves(doc.ma[i], protocol)
  THEN NoEndpoint
  ELSE doc.ma[CHOOSE i \in DOMAIN doc.ma :
         Serves(doc.ma[i], protocol) /\ \A j \in 1 .. i - 1 : ~ Serves(doc.ma[j], protocol)].endpoint

-----------------------------------------------------------------------------
(* Signing and checking a document.                                        *)

\* Mutant: the extension is not part of what is signed.
PayloadWithoutMa(doc) == [doc EXCEPT !.proof = NoProof, !.ma = NoMa]

\* payload_document: all fields but the proof.
Payload(doc) == [doc EXCEPT !.proof = NoProof]

\* Document::sign with the method of the document that has fragment f.
Signed(doc, f, key) == [doc EXCEPT !.proof = [method |-> f, key |-> key, over |-> Payload(doc)]]

\* Document::verify.  Any assertion method may have made the proof.
Verifies(doc) ==
  /\ doc.proof # NoProof
  /\ \E i \in DOMAIN doc.assertion : doc.assertion[i] = doc.proof.method
  /\ KeyOf(doc, doc.proof.method) = doc.proof.key
  /\ doc.proof.key.kind = "sign"
  /\ doc.proof.over = Payload(doc)

\* Document::validate, where documents differ.
Validates(doc) ==
  /\ doc.assertion # <<>> /\ Knows(doc, doc.assertion, "sign")
  /\ doc.agreement # <<>> /\ Knows(doc, doc.agreement, "enc")

\* The end of fetch_did_document: what the name leads to is taken for d's.
Accepts(doc, d) == doc # NoDoc /\ Validates(doc) /\ Verifies(doc) /\ doc.id = d

\* build_identity_from_keys at a time t.
Identity(o, b, t) ==
  LET empty == [id |-> o, methods |-> <<>>, assertion |-> <<>>, agreement |-> <<>>,
                created |-> t, updated |-> t, ma |-> NoMa, proof |-> NoProof]
      keyed == AddMethod(AddMethod(empty, "sign", SigningKey(o, b)),
                         "enc", EncryptionKey(o, b))
  IN  Signed([keyed EXCEPT !.assertion = <<"sign">>, !.agreement = <<"enc">>],
             "sign", SigningKey(o, b))

\* SecretBundle::generate_identity: created_at is that of the bundle, 0 here.
Restored(o, b, t) ==
  Signed([Identity(o, b, t) EXCEPT !.created = 0], "sign", SigningKey(o, b))

\* Mutant: build_document touches the document after it has signed it.
BuiltTouchedLast(o, b, ma, t) ==
  [Signed([Restored(o, b, 0) EXCEPT !.ma = ma], "sign", SigningKey(o, b)) EXCEPT !.updated = t]

\* SecretBundle::build_document.
Built(o, b, ma, t) ==
  Signed([Restored(o, b, t) EXCEPT !.ma = ma, !.updated = t], "sign", SigningKey(o, b))

\* doc is what build_document made of bundle b at some time.
IsBuilt(doc, o, b) == doc # NoDoc /\ doc = Built(o, b, doc.ma, doc.updated)

-----------------------------------------------------------------------------
(* Signing, sealing and opening a message.                                 *)

\* Mutant: the key of the document's first method.
FirstMethodKey(doc) == doc.methods[1].key

\* Document::key_agreement_public_key_bytes.
AgreementKey(doc) == KeyOf(doc, doc.agreement[1])

\* Document::assertion_method_public_key: the first one only.
AssertionKey(doc) == KeyOf(doc, doc.assertion[1])

\* Message::enclose_for.
SealedFor(doc) == AgreementKey(doc)

\* Envelope::decrypt with the key that o runs with.
Decrypts(o, p) == p.sealed = EncryptionKey(o, bundle[o])

\* Message::verify_with_document.
VerifiedWith(p, doc) == doc.id = p.from /\ AssertionKey(doc) = p.key

\* InboundSecurity::decode of packet p by o.  A packet on the loopback wire
\* goes to the inbox as it is.
Opens(o, p) ==
  \/ p.local
  \/ /\ p.sealed # NoKey => Decrypts(o, p)
     /\ Accepts(published[p.from], p.from)
     /\ VerifiedWith(p, published[p.from])

\* Mutant: the request must also verify with what the name leads to by now.
ValidatedByPublished(r) ==
  /\ Validates(r.doc) /\ Verifies(r.doc)
  /\ VerifiedWith(r, r.doc)
  /\ Accepts(published[r.from], r.from) => VerifiedWith(r, published[r.from])

\* validate_identity_publish_message.
Validated(r) == Validates(r.doc) /\ Verifies(r.doc) /\ VerifiedWith(r, r.doc)

\* How the host of o names the sender: an entity of its own by its fragment.
CallerOf(o, p) ==
  IF p.from = o /\ p.fragment # Nobody
  THEN [kind |-> "local", who |-> p.fragment, fragment |-> Nobody]
  ELSE [kind |-> "did", who |-> p.from, fragment |-> p.fragment]

-----------------------------------------------------------------------------

Outcomes == {"none", "published", "rejected", "unread", "denied", "handled"}

IsDoc(d, o) ==
  d = [id |-> o, methods |-> d.methods, assertion |-> d.assertion, agreement |-> d.agreement,
       created |-> d.created, updated |-> d.updated, ma |-> d.ma, proof |-> d.proof]

\* A document, or none, for each owner.
IsShelf(docs) ==
  /\ DOMAIN docs = Dids
  /\ \A o \in Dids : docs[o] # NoDoc => IsDoc(docs[o], o)

\* The types; a document is held and published by its owner alone; an outbox
\* keeps what its recipient had published; a request and a packet are signed
\* with the sender's key, and a packet is sealed for who can open it.
TypeOK ==
  /\ now \in 0 .. scope.seconds
  /\ bundle \in [Dids -> Bundles]
  /\ edits \in 0 .. scope.edits
  /\ IsShelf(draft) /\ IsShelf(published)
  /\ DOMAIN outbox = Dids
  /\ \A o \in {o \in Dids : outbox[o] # NoOutbox} :
       /\ outbox[o].to \in Dids
       /\ IsDoc(outbox[o].doc, outbox[o].to)
  /\ request # NoRequest =>
       /\ request.from \in Dids
       /\ \E o \in Dids : IsDoc(request.doc, o)
       /\ request.key = SigningKey(request.from, request.by)
  /\ packet # NoPacket =>
       /\ packet.from \in Dids /\ packet.to \in Dids
       /\ packet.fragment \in Names \cup {Nobody}
       /\ packet.key = SigningKey(packet.from, packet.by)
       /\ packet.sealed # NoKey =>
            \A b \in packet.forBundle : packet.sealed = EncryptionKey(packet.to, b)
  /\ last \in Outcomes
  /\ scope \in Scopes

Init ==
  /\ now = 0
  /\ bundle = [o \in Dids |-> [sign |-> 1, enc |-> 1]]
  /\ draft = [o \in Dids |-> NoDoc]
  /\ edits = 0
  /\ published = [o \in Dids |-> NoDoc]
  /\ outbox = [o \in Dids |-> NoOutbox]
  /\ request = NoRequest
  /\ packet = NoPacket
  /\ last = "none"
  /\ scope \in Scopes

Tick ==
  /\ now < scope.seconds
  /\ now' = now + 1
  /\ last' = "none"
  /\ UNCHANGED <<bundle, draft, edits, published, outbox, request, packet, scope>>

\* The program of o starts again, with the same or with newer keys.  The
\* endpoint reads its keys once, and what was held in memory is gone.
Restart(o, b) ==
  /\ b \in {bundle[o]} \cup {[bundle[o] EXCEPT ![kind] = @ + 1] :
                            kind \in {kind \in {"sign", "enc"} : <<o, kind>> \in Renewable}}
  /\ b \in Bundles
  /\ bundle' = [bundle EXCEPT ![o] = b]
  /\ draft' = [draft EXCEPT ![o] = NoDoc]
  /\ outbox' = [outbox EXCEPT ![o] = NoOutbox]
  /\ last' = "none"
  /\ UNCHANGED <<now, edits, published, request, packet, scope>>

-----------------------------------------------------------------------------
(* The document in the program of its owner.                               *)

Holds(o, doc) ==
  /\ draft' = [draft EXCEPT ![o] = doc]
  /\ last' = "none"
  /\ UNCHANGED <<now, bundle, published, outbox, request, packet, scope>>

BuildDocument(o, ma) == Holds(o, Built(o, bundle[o], ma, now)) /\ UNCHANGED edits

\* The program goes on with the document it resolves for itself.
ResolveOwn(o) ==
  /\ Accepts(published[o], o)
  /\ Holds(o, published[o])
  /\ UNCHANGED edits

Edits(o, doc) ==
  /\ edits < scope.edits
  /\ edits' = edits + 1
  /\ Holds(o, doc)

Touch(o) == draft[o] # NoDoc /\ Edits(o, [draft[o] EXCEPT !.updated = now])

SetMa(o, ma) == draft[o] # NoDoc /\ Edits(o, [draft[o] EXCEPT !.ma = ma])

\* A program may also write a service string of its own in front.
AddBrokenService(o) ==
  /\ draft[o] # NoDoc /\ draft[o].ma # NoMa
  /\ \E p \in Protocols :
       Edits(o, [draft[o] EXCEPT !.ma = <<[protocol |-> p, endpoint |-> Broken]>> \o @])

AddVerificationMethod(o, f) ==
  draft[o] # NoDoc /\ Edits(o, AddMethod(draft[o], f, SigningKey(o, bundle[o])))

\* assertion_method is a public field.
SetAssertion(o, f) ==
  /\ draft[o] # NoDoc
  /\ \E fs \in {<<f>>, Append(draft[o].assertion, f)} :
       Edits(o, [draft[o] EXCEPT !.assertion = fs])

\* An error, when the method has another key, changes nothing.
Sign(o, f) ==
  /\ draft[o] # NoDoc
  /\ KeyOf(draft[o], f) = SigningKey(o, bundle[o])
  /\ Edits(o, Signed(draft[o], f, SigningKey(o, bundle[o])))

Edit(o) ==
  \/ Touch(o)
  \/ \E ma \in Extensions(o) : SetMa(o, ma)
  \/ AddBrokenService(o)
  \/ \E f \in Frags \cup {"sign"} :
       AddVerificationMethod(o, f) \/ SetAssertion(o, f) \/ Sign(o, f)

-----------------------------------------------------------------------------
(* Publication.                                                            *)

\* IpfsDidPublisher::publish_document decodes the document and no more.
PublishDocument(o) ==
  /\ draft[o] # NoDoc
  /\ published' = [published EXCEPT ![o] = draft[o]]
  /\ last' = "published"
  /\ UNCHANGED <<now, bundle, draft, edits, outbox, request, packet, scope>>

\* generate_identity_publish_request and Message::new, for a document that the
\* program holds or that it has resolved.
RequestPublish(o) ==
  /\ scope.requests
  /\ request = NoRequest
  /\ \E doc \in {draft[o]} \cup {published[d] : d \in {d \in Dids : Accepts(published[d], d)}} :
       /\ doc # NoDoc
       /\ request' = [from |-> o, doc |-> doc, key |-> SigningKey(o, bundle[o]), by |-> bundle[o]]
  /\ last' = "none"
  /\ UNCHANGED <<now, bundle, draft, edits, published, outbox, packet, scope>>

\* handle_ipfs_publish.  It keeps nothing of the requests that it has handled
\* and asks no ACL; while a request is fresh a copy of it is handled again.
HandlePublish ==
  /\ request # NoRequest
  /\ request' \in {NoRequest, request}
  /\ IF Validated(request)
     THEN /\ published' = [published EXCEPT ![request.doc.id] = request.doc]
          /\ last' = "published"
     ELSE /\ last' = "rejected"
          /\ UNCHANGED published
  /\ UNCHANGED <<now, bundle, draft, edits, outbox, packet, scope>>

-----------------------------------------------------------------------------
(* Messages.                                                               *)

\* MaEndpoint::outbox: the document is resolved once and kept.
OpenOutbox(o, to, protocol) ==
  /\ scope.mail
  /\ Accepts(published[to], to)
  /\ EndpointFor(published[to], protocol) # NoEndpoint
  /\ outbox' = [outbox EXCEPT ![o] =
       [to |-> to, doc |-> published[to], local |-> EndpointFor(published[to], protocol) = o]]
  /\ last' = "none"
  /\ UNCHANGED <<now, bundle, draft, edits, published, request, packet, scope>>

\* Message::new and Outbox::send.  History: by is the bundle that the sender
\* has, forBundle the bundles from which the document that the outbox kept may
\* have been built.
Send(o, fragment, broadcast) ==
  /\ outbox[o] # NoOutbox
  /\ packet = NoPacket
  /\ LET box == outbox[o]
         raw == box.local \/ broadcast
     IN  packet' =
           [from |-> o, fragment |-> fragment, to |-> box.to, local |-> box.local,
            key |-> SigningKey(o, bundle[o]),
            sealed |-> IF raw THEN NoKey ELSE SealedFor(box.doc),
            by |-> bundle[o],
            forBundle |-> {b \in Bundles : IsBuilt(box.doc, box.to, b)}]
  /\ last' = "none"
  /\ UNCHANGED <<now, bundle, draft, edits, published, outbox, request, scope>>

\* InboundSecurity::decode fails.
Refuse(o) ==
  /\ packet # NoPacket /\ packet.to = o
  /\ ~Opens(o, packet)
  /\ packet' = NoPacket
  /\ last' = "unread"
  /\ UNCHANGED <<now, bundle, draft, edits, published, outbox, request, scope>>

\* It succeeds, and the host asks the map it has loaded for a capability.
Handle(o, text, cap) ==
  /\ packet # NoPacket /\ packet.to = o
  /\ Opens(o, packet)
  /\ Readable(text)
  /\ packet' = NoPacket
  /\ last' = IF CheckCap(LoadAcl(text), CallerOf(o, packet), cap) THEN "handled" ELSE "denied"
  /\ UNCHANGED <<now, bundle, draft, edits, published, outbox, request, scope>>

Lose ==
  /\ \/ request # NoRequest /\ request' = NoRequest /\ UNCHANGED packet
     \/ packet # NoPacket /\ packet' = NoPacket /\ UNCHANGED request
  /\ last' = "none"
  /\ UNCHANGED <<now, bundle, draft, edits, published, outbox, scope>>

Next ==
  \/ Tick
  \/ \E o \in Dids :
       \/ \E b \in Bundles : Restart(o, b)
       \/ \E ma \in Extensions(o) \ {NoMa} : BuildDocument(o, ma)
       \/ PublishDocument(o)
       \/ Refuse(o)
       \/ \E text \in Files, cap \in Caps : Handle(o, text, cap)
  \/ \E o \in Active :
       \/ ResolveOwn(o)
       \/ Edit(o)
       \/ RequestPublish(o)
       \/ \E to \in Dids, p \in Protocols : OpenOutbox(o, to, p)
       \/ \E f \in Names \cup {Nobody}, b \in BOOLEAN : Send(o, f, b)
  \/ HandlePublish
  \/ Lose

Spec == Init /\ [][Next]_vars

-----------------------------------------------------------------------------
(* Properties.                                                             *)

\* What build_document returns is accepted by every resolver under the owner's
\* DID, and whoever looks for a protocol that the endpoint has registered is
\* led to that endpoint.
BuiltIsAccepted ==
  \A o \in Dids : \A ma \in Extensions(o) :
    LET doc == Built(o, bundle[o], ma, now) IN
      /\ Accepts(doc, o)
      /\ \A p \in Protocols :
           (ma # NoMa /\ \E i \in DOMAIN ma : ma[i].protocol = p) => EndpointFor(doc, p) = o

\* Documents that someone holds or may get.
Circulating ==
  {draft[o] : o \in Dids} \cup {published[o] : o \in Dids}
    \cup {outbox[o].doc : o \in {o \in Dids : outbox[o] # NoOutbox}}
    \cup (IF request = NoRequest THEN {} ELSE {request.doc})

\* One signature makes one document acceptable: after any edit a document is
\* refused until it is signed again, wherever copies of it are kept.
OneDocumentPerProof ==
  \A c, d \in {c \in Circulating : c # NoDoc /\ Accepts(c, c.id)} :
    c.proof = d.proof => c = d

\* What the validation inside publish_signed_message comes to for requests that
\* are fresh.  One to publish what the requester built passes, whatever the
\* name leads to by then (the recovery that InboundSecurity::decode keeps open
\* by not asking the resolver), whoever sent it, and each time it comes; and
\* what a request sets is a document that resolvers accept as the requester's,
\* under its name alone.  Of the checks that doc/ipfs-publish.md:140-155 lists
\* the code makes those of the signatures, the document and the DIDs.  It
\* refuses neither a replay (150-151) nor a sender without the capability
\* identity-publish (152-155), which is left to the host, and compares the IPNS
\* key (147-149) only after it has called Kubo: see module Naming.
PublishRequests ==
  [][HandlePublish =>
       /\ last' = "rejected" => ~IsBuilt(request.doc, request.from, request.by)
       /\ last' = "published" =>
            /\ Accepts(published'[request.from], request.from)
            /\ \A o \in Dids \ {request.from} : published'[o] = published[o]]_vars

\* A message is refused unread only if keys have changed: the receiver reads
\* it whenever what the sender has published was built from the bundle it
\* signed with, and the document that the outbox kept was built from the
\* bundle that the receiver has.
Understood ==
  [][packet # NoPacket /\ last' = "unread" =>
       ~ /\ IsBuilt(published[packet.from], packet.from, packet.by)
         /\ bundle[packet.to] \in packet.forBundle]_vars

\* Whatever file the host has written and read again, it lets the sender of a
\* packet do what the most specific key of the file grants, and no more.
AdmittedMayDo ==
  \A text \in Files :
    packet # NoPacket /\ Readable(text) =>
      LET acl == LoadAcl(SaveAcl(LoadAcl(text)))
          caller == CallerOf(packet.to, packet)
      IN  \A cap \in Caps : CheckCap(acl, caller, cap) <=> Granted(text, caller, cap)
=============================================================================
