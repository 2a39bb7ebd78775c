--------------------------- MODULE NamingProofs -----------------------------
(***************************************************************************)
(* Proofs about Naming, for any publications, fetches, documents, numbers  *)
(* of attempts and settings.                                               *)
(*                                                                         *)
(* ReachInv is the heart of SuccessWasTarget: while a publication runs,    *)
(* both ways to its success, a request carried out and a name that points  *)
(* to its document, imply that the name has pointed to it.  It rests on    *)
(* OnlyOwnKey: the request sets this name and no other.                    *)
(***************************************************************************)
EXTENDS Naming, TLAPS

\* Both roads to success have led the name to the document.
ReachInv ==
  \A p \in Pubs :
    (pc[p] = "ok" \/ (Running(p) /\ name = cid[p]) \/ request[p] = "done") => reached[p]

\* What a fetch holds has been shown to it.
FetchInv ==
  \A f \in Fetches :
    /\ fetchPc[f] \notin {"idle"} \cup Ended => name \in shown[f]
    /\ fetchPc[f] = "read" => path[f] \in shown[f]
    /\ fetchPc[f] \in {"check", "ok"} => document[f] \in shown[f]
    /\ fetchPc[f] = "ok" => document[f] \in Valid

\* Without late requests none is held back; without overlap one publication
\* runs, and what its request did stays done.
LiveInv ==
  /\ ~setting.late => \A p \in Pubs : late[p] = 0
  /\ ~setting.overlap => \A p, q \in Pubs : Running(p) /\ Running(q) => p = q
  /\ ~setting.late /\ ~setting.overlap =>
       \A p \in Pubs : request[p] = "done" => name = cid[p]
  /\ \A p \in Pubs : pc[p] \in {"asked", "verify"} => tries[p] > 0

IInv == TypeOK /\ OnlyOwnKey /\ ReachInv /\ FetchInv /\ LiveInv /\ PublishedIsLive

-----------------------------------------------------------------------------
LEMMA InitCorrect == Init => IInv
  BY AttemptsAreNumbers, NoCidIsNotACid, NoPubIsNotAPub
  DEF Init, IInv, TypeOK, OnlyOwnKey, ReachInv, FetchInv, LiveInv, PublishedIsLive,
      Running, Ended, PubPoints, FetchPoints

-----------------------------------------------------------------------------
(* Types.                                                                  *)

LEMMA PubType ==
  ASSUME TypeOK, NEW p \in Pubs, Start(p) \/ PubStep(p)
  PROVE  TypeOK'
<1> USE AttemptsAreNumbers, NoCidIsNotACid DEF TypeOK, Goes, fetchVars, Ended, PubPoints
<1>1. CASE Start(p)
  BY <1>1 DEF Start
<1>2. CASE FindKey(p)
  BY <1>2 DEF FindKey
<1>3. CASE NoKey(p)
  BY <1>3 DEF NoKey
<1>4. CASE Import(p)
  BY <1>4 DEF Import
<1>5. CASE ImportFails(p)
  BY <1>5 DEF ImportFails
<1>6. CASE Store(p)
  BY <1>6 DEF Store
<1>7. CASE CallFails(p)
  BY <1>7 DEF CallFails
<1>8. CASE Send(p)
  <2>1. tries[p] \in Nat /\ tries[p] < Attempts /\ tries[p] + 1 \in 0 .. Attempts
    BY <1>8 DEF Send
  <2>2. tries' \in [Pubs -> 0 .. Attempts]
    BY <1>8, <2>1 DEF Send
  <2>3. \A q \in Pubs : late'[q] <= tries'[q] /\ (request'[q] = "sent" => late'[q] < tries'[q])
    BY <1>8, <2>1 DEF Send
  <2> QED BY <1>8, <2>2, <2>3 DEF Send
<1>9. CASE Exhausted(p)
  BY <1>9 DEF Exhausted
<1>10. CASE Answer(p)
  BY <1>10 DEF Answer
<1>11. CASE GiveUp(p)
  <2>1. late[p] \in Nat /\ tries[p] \in 0 .. Attempts
    OBVIOUS
  <2>2. late' \in [Pubs -> 0 .. Attempts]
    BY <1>11, <2>1 DEF GiveUp
  <2>3. \A q \in Pubs : late'[q] <= tries'[q] /\ (request'[q] = "sent" => late'[q] < tries'[q])
    BY <1>11, <2>1 DEF GiveUp
  <2> QED BY <1>11, <2>2, <2>3 DEF GiveUp
<1>12. CASE Confirm(p)
  BY <1>12 DEF Confirm
<1>13. CASE NotConfirmed(p)
  BY <1>13 DEF NotConfirmed
<1> QED BY <1>1, <1>2, <1>3, <1>4, <1>5, <1>6, <1>7, <1>8, <1>9, <1>10, <1>11,
           <1>12, <1>13 DEF PubStep

LEMMA KuboType ==
  ASSUME TypeOK, NEW p \in Pubs, CarriedOut(p) \/ LateCarriedOut(p)
  PROVE  TypeOK'
<1> USE AttemptsAreNumbers, NoCidIsNotACid DEF TypeOK, PointTo, pubVars, fetchVars
<1>1. CASE CarriedOut(p)
  BY <1>1 DEF CarriedOut
<1>2. CASE LateCarriedOut(p)
  BY <1>2 DEF LateCarriedOut
<1> QED BY <1>1, <1>2

LEMMA FetchType ==
  ASSUME TypeOK, NEW f \in Fetches, Begin(f) \/ FetchStep(f)
  PROVE  TypeOK'
<1> USE AttemptsAreNumbers, NoCidIsNotACid
    DEF TypeOK, FetchGoes, NextPoint, pubVars, Ended, FetchPoints
<1>1. CASE Begin(f)
  BY <1>1 DEF Begin
<1>2. CASE GetDirect(f)
  BY <1>2 DEF GetDirect
<1>3. CASE Resolve(f)
  BY <1>3 DEF Resolve
<1>4. CASE GetResolved(f)
  BY <1>4 DEF GetResolved
<1>5. CASE Check(f)
  BY <1>5 DEF Check
<1> QED BY <1>1, <1>2, <1>3, <1>4, <1>5 DEF FetchStep

-----------------------------------------------------------------------------
(* Publications: the key, what was reached, and what is live.              *)

\* An own key is never given up, and only an own key lets a publication on.
LEMMA PubKey ==
  ASSUME IInv, NEW p \in Pubs, Start(p) \/ PubStep(p)
  PROVE  OnlyOwnKey'
<1> USE DEF IInv, TypeOK, OnlyOwnKey, Goes
<1>1. CASE Start(p)
  BY <1>1 DEF Start
<1>2. CASE FindKey(p)
  BY <1>2 DEF FindKey
<1>3. CASE NoKey(p)
  BY <1>3 DEF NoKey
<1>4. CASE Import(p)
  BY <1>4 DEF Import
<1>5. CASE ImportFails(p)
  BY <1>5 DEF ImportFails
<1>6. CASE Store(p)
  BY <1>6 DEF Store
<1>7. CASE CallFails(p)
  BY <1>7 DEF CallFails
<1>8. CASE Send(p)
  BY <1>8 DEF Send
<1>9. CASE Exhausted(p)
  BY <1>9 DEF Exhausted
<1>10. CASE Answer(p)
  BY <1>10 DEF Answer
<1>11. CASE GiveUp(p)
  BY <1>11 DEF GiveUp
<1>12. CASE Confirm(p)
  BY <1>12 DEF Confirm
<1>13. CASE NotConfirmed(p)
  BY <1>13 DEF NotConfirmed
<1> QED BY <1>1, <1>2, <1>3, <1>4, <1>5, <1>6, <1>7, <1>8, <1>9, <1>10, <1>11,
           <1>12, <1>13 DEF PubStep

\* A publication ends well only by an answer or a name that confirms.
LEMMA PubReach ==
  ASSUME IInv, NEW p \in Pubs, Start(p) \/ PubStep(p)
  PROVE  ReachInv'
<1> USE DEF IInv, TypeOK, ReachInv, Running, Ended, Goes
<1>1. CASE Start(p)
  BY <1>1 DEF Start
<1>2. CASE FindKey(p)
  BY <1>2 DEF FindKey
<1>3. CASE NoKey(p)
  BY <1>3 DEF NoKey
<1>4. CASE Import(p)
  BY <1>4 DEF Import
<1>5. CASE ImportFails(p)
  BY <1>5 DEF ImportFails
<1>6. CASE Store(p)
  BY <1>6 DEF Store
<1>7. CASE CallFails(p)
  BY <1>7 DEF CallFails
<1>8. CASE Send(p)
  BY <1>8 DEF Send
<1>9. CASE Exhausted(p)
  BY <1>9 DEF Exhausted
<1>10. CASE Answer(p)
  BY <1>10 DEF Answer
<1>11. CASE GiveUp(p)
  BY <1>11 DEF GiveUp
<1>12. CASE Confirm(p)
  BY <1>12 DEF Confirm
<1>13. CASE NotConfirmed(p)
  BY <1>13 DEF NotConfirmed
<1> QED BY <1>1, <1>2, <1>3, <1>4, <1>5, <1>6, <1>7, <1>8, <1>9, <1>10, <1>11,
           <1>12, <1>13 DEF PubStep

\* Publications leave fetches and the name alone until Kubo acts.
LEMMA PubFetch ==
  ASSUME IInv, NEW p \in Pubs, Start(p) \/ PubStep(p)
  PROVE  FetchInv'
<1> USE DEF IInv, TypeOK, FetchInv, Ended, fetchVars
<1>1. CASE Start(p)
  BY <1>1 DEF Start
<1>2. CASE FindKey(p)
  BY <1>2 DEF FindKey
<1>3. CASE NoKey(p)
  BY <1>3 DEF NoKey
<1>4. CASE Import(p)
  BY <1>4 DEF Import
<1>5. CASE ImportFails(p)
  BY <1>5 DEF ImportFails
<1>6. CASE Store(p)
  BY <1>6 DEF Store
<1>7. CASE CallFails(p)
  BY <1>7 DEF CallFails
<1>8. CASE Send(p)
  BY <1>8 DEF Send
<1>9. CASE Exhausted(p)
  BY <1>9 DEF Exhausted
<1>10. CASE Answer(p)
  BY <1>10 DEF Answer
<1>11. CASE GiveUp(p)
  BY <1>11 DEF GiveUp
<1>12. CASE Confirm(p)
  BY <1>12 DEF Confirm
<1>13. CASE NotConfirmed(p)
  BY <1>13 DEF NotConfirmed
<1> QED BY <1>1, <1>2, <1>3, <1>4, <1>5, <1>6, <1>7, <1>8, <1>9, <1>10, <1>11,
           <1>12, <1>13 DEF PubStep

\* What held without overlap and late requests still does.
LEMMA PubLive ==
  ASSUME IInv, NEW p \in Pubs, Start(p) \/ PubStep(p)
  PROVE  LiveInv'
<1> USE DEF IInv, TypeOK, LiveInv, Running, Ended, Goes, fetchVars
<1>1. CASE Start(p)
  BY <1>1 DEF Start
<1>2. CASE FindKey(p)
  BY <1>2 DEF FindKey
<1>3. CASE NoKey(p)
  BY <1>3 DEF NoKey
<1>4. CASE Import(p)
  BY <1>4 DEF Import
<1>5. CASE ImportFails(p)
  BY <1>5 DEF ImportFails
<1>6. CASE Store(p)
  BY <1>6 DEF Store
<1>7. CASE CallFails(p)
  BY <1>7 DEF CallFails
<1>8. CASE Send(p)
  BY <1>8 DEF Send
<1>9. CASE Exhausted(p)
  BY <1>9 DEF Exhausted
<1>10. CASE Answer(p)
  BY <1>10 DEF Answer
<1>11. CASE GiveUp(p)
  BY <1>11 DEF GiveUp
<1>12. CASE Confirm(p)
  BY <1>12 DEF Confirm
<1>13. CASE NotConfirmed(p)
  BY <1>13 DEF NotConfirmed
<1> QED BY <1>1, <1>2, <1>3, <1>4, <1>5, <1>6, <1>7, <1>8, <1>9, <1>10, <1>11,
           <1>12, <1>13 DEF PubStep

\* The publication that ends well has just set the name, or found it set.
LEMMA PubIsLive ==
  ASSUME IInv, NEW p \in Pubs, Start(p) \/ PubStep(p)
  PROVE  PublishedIsLive'
<1> USE DEF IInv, TypeOK, LiveInv, PublishedIsLive, Running, Ended, Goes
<1>1. CASE Start(p)
  BY <1>1 DEF Start
<1>2. CASE FindKey(p)
  BY <1>2 DEF FindKey
<1>3. CASE NoKey(p)
  BY <1>3 DEF NoKey
<1>4. CASE Import(p)
  BY <1>4 DEF Import
<1>5. CASE ImportFails(p)
  BY <1>5 DEF ImportFails
<1>6. CASE Store(p)
  BY <1>6 DEF Store
<1>7. CASE CallFails(p)
  BY <1>7 DEF CallFails
<1>8. CASE Send(p)
  BY <1>8 DEF Send
<1>9. CASE Exhausted(p)
  BY <1>9 DEF Exhausted
<1>10. CASE Answer(p)
  BY <1>10 DEF Answer
<1>11. CASE GiveUp(p)
  BY <1>11 DEF GiveUp
<1>12. CASE Confirm(p)
  BY <1>12 DEF Confirm
<1>13. CASE NotConfirmed(p)
  BY <1>13 DEF NotConfirmed
<1> QED BY <1>1, <1>2, <1>3, <1>4, <1>5, <1>6, <1>7, <1>8, <1>9, <1>10, <1>11,
           <1>12, <1>13 DEF PubStep

-----------------------------------------------------------------------------
(* Kubo, and fetches.                                                      *)

\* Carrying out a request sets the name for all who look.
LEMMA KuboSafe ==
  ASSUME IInv, NEW p \in Pubs, CarriedOut(p) \/ LateCarriedOut(p)
  PROVE  OnlyOwnKey' /\ ReachInv' /\ FetchInv' /\ LiveInv' /\ PublishedIsLive'
<1> USE DEF IInv, PointTo, Running
<1>1. CASE CarriedOut(p)
  <2>1. pc[p] = "asked" /\ alias = "own" /\ name' = cid[p]
    BY <1>1 DEF CarriedOut, TypeOK, OnlyOwnKey
  <2>2. OnlyOwnKey'
    BY <1>1 DEF CarriedOut, OnlyOwnKey
  <2>3. ReachInv'
    BY <1>1, <2>1 DEF CarriedOut, TypeOK, ReachInv, Ended
  <2>4. FetchInv'
    BY <1>1 DEF CarriedOut, TypeOK, FetchInv, Ended, fetchVars
  <2>5. LiveInv'
    BY <1>1, <2>1 DEF CarriedOut, TypeOK, LiveInv, Ended
  <2>6. PublishedIsLive'
    BY <1>1, <2>1 DEF CarriedOut, PublishedIsLive
  <2> QED BY <2>2, <2>3, <2>4, <2>5, <2>6
<1>2. CASE LateCarriedOut(p)
  <2>1. setting.late
    BY <1>2 DEF LateCarriedOut, LiveInv
  <2>2. OnlyOwnKey'
    BY <1>2 DEF LateCarriedOut, OnlyOwnKey, pubVars
  <2>3. ReachInv'
    BY <1>2 DEF LateCarriedOut, TypeOK, ReachInv, pubVars
  <2>4. FetchInv'
    BY <1>2 DEF LateCarriedOut, TypeOK, FetchInv, Ended, fetchVars
  <2>5. LiveInv'
    BY <1>2, <2>1 DEF LateCarriedOut, LiveInv, pubVars
  <2>6. PublishedIsLive'
    BY <1>2, <2>1 DEF LateCarriedOut, PublishedIsLive
  <2> QED BY <2>2, <2>3, <2>4, <2>5, <2>6
<1> QED BY <1>1, <1>2

\* A fetch returns what it was shown, and only after the check.
LEMMA FetchStepFetch ==
  ASSUME IInv, NEW f \in Fetches, Begin(f) \/ FetchStep(f)
  PROVE  FetchInv'
<1> USE DEF IInv, TypeOK, FetchInv, FetchGoes, NextPoint, Ended
<1>1. CASE Begin(f)
  BY <1>1 DEF Begin
<1>2. CASE GetDirect(f)
  BY <1>2 DEF GetDirect
<1>3. CASE Resolve(f)
  BY <1>3 DEF Resolve
<1>4. CASE GetResolved(f)
  BY <1>4 DEF GetResolved
<1>5. CASE Check(f)
  BY <1>5 DEF Check
<1> QED BY <1>1, <1>2, <1>3, <1>4, <1>5 DEF FetchStep

\* Fetches change nothing but themselves.
LEMMA FetchSafe ==
  ASSUME IInv, NEW f \in Fetches, Begin(f) \/ FetchStep(f)
  PROVE  OnlyOwnKey' /\ ReachInv' /\ LiveInv' /\ PublishedIsLive'
<1>1. UNCHANGED <<alias, name, late, pubVars, reached, setting>>
  BY DEF Begin, FetchStep, GetDirect, Resolve, GetResolved, Check, FetchGoes
<1> QED BY <1>1 DEF IInv, OnlyOwnKey, ReachInv, LiveInv, PublishedIsLive, Running, pubVars

-----------------------------------------------------------------------------
(* The theorems.                                                           *)

LEMMA NextCorrect == IInv /\ [Next]_vars => IInv'
<1> SUFFICES ASSUME IInv, [Next]_vars PROVE IInv'
  OBVIOUS
<1>0. TypeOK
  BY DEF IInv
<1>1. ASSUME NEW p \in Pubs, Start(p) \/ PubStep(p)
      PROVE  IInv'
  BY <1>0, <1>1, PubType, PubKey, PubReach, PubFetch, PubLive, PubIsLive DEF IInv
<1>2. ASSUME NEW p \in Pubs, CarriedOut(p) \/ LateCarriedOut(p)
      PROVE  IInv'
  BY <1>0, <1>2, KuboType, KuboSafe DEF IInv
<1>3. ASSUME NEW f \in Fetches, Begin(f) \/ FetchStep(f)
      PROVE  IInv'
  BY <1>0, <1>3, FetchType, FetchStepFetch, FetchSafe DEF IInv
<1>4. CASE UNCHANGED vars
  BY <1>4 DEF IInv, vars, pubVars, fetchVars, TypeOK, OnlyOwnKey, ReachInv, FetchInv,
              LiveInv, PublishedIsLive, Running
<1> QED BY <1>1, <1>2, <1>3, <1>4 DEF Next

LEMMA SpecIInv == Spec => []IInv
  BY InitCorrect, NextCorrect, PTL DEF Spec

\* A publication or a fetch has a request, a path or a document just when its
\* place in the code says so, and attempts are within their number.
THEOREM TypeCorrect == Spec => []TypeOK
<1>1. IInv => TypeOK
  BY DEF IInv
<1> QED BY <1>1, SpecIInv, PTL

\* Success of name_publish_with_retry means that the name did point to the
\* document, for any number of attempts and publications.
THEOREM SuccessCorrect == Spec => []SuccessWasTarget
<1>1. IInv => SuccessWasTarget
  BY DEF IInv, ReachInv, SuccessWasTarget
<1> QED BY <1>1, SpecIInv, PTL

\* publish_did_document_to_kubo stores and publishes under the DID's own key
\* only.
THEOREM KeyCorrect == Spec => []OnlyOwnKey
<1>1. IInv => OnlyOwnKey
  BY DEF IInv
<1> QED BY <1>1, SpecIInv, PTL

\* Without overlap and late requests the name stays what the publication that
\* ended last has reported.
THEOREM LiveCorrect == Spec => []PublishedIsLive
<1>1. IInv => PublishedIsLive
  BY DEF IInv
<1> QED BY <1>1, SpecIInv, PTL

\* fetch_did_document returns a valid document that the name pointed to while
\* it ran.
THEOREM FetchCorrect == Spec => []FetchedWasTarget
<1>1. IInv => FetchedWasTarget
  BY DEF IInv, FetchInv, FetchedWasTarget
<1> QED BY <1>1, SpecIInv, PTL

=============================================================================
