-------------------------- MODULE DocumentsProofs ---------------------------
(***************************************************************************)
(* Proofs about Documents, for any owners, services, bounds and files, and *)
(* about the decisions of its access lists, for any file and any caller.   *)
(***************************************************************************)
EXTENDS Documents, SequenceTheorems, WellFoundedInduction, TLAPS

-----------------------------------------------------------------------------
(* What check_cap decides on a map that was written and read again is what *)
(* the documentation promises of the file.                                 *)

\* What the file says for a key is what the map says, written and read again.
LEMMA EntryIsKept ==
  ASSUME NEW text, IsFile(text), Readable(text), NEW k \in DOMAIN text, NEW cap \in Caps
  PROVE  Has(LoadAcl(SaveAcl(LoadAcl(text)))[k], cap)
           <=> text[k] # Null /\ (cap \in text[k] \/ AnyCap \in text[k])
<1>1. text[k] = Null \/ text[k] \in Lists
  BY DEF IsFile, Readable
<1>2. LoadAcl(SaveAcl(LoadAcl(text)))[k] = LoadedEntry(SavedEntry(LoadedEntry(text[k])))
  BY DEF LoadAcl, SaveAcl
<1>3. LoadedEntry(SavedEntry(LoadedEntry(text[k]))) = LoadedEntry(text[k])
  <2>1. CASE LoadedEntry(text[k]) = Deny
    BY <2>1 DEF LoadedEntry, SavedEntry
  <2>2. CASE LoadedEntry(text[k]) # Deny
    BY <2>2 DEF LoadedEntry, SavedEntry
  <2> QED  BY <2>1, <2>2
<1>4. CASE text[k] \in {Null, {}}
  BY <1>2, <1>3, <1>4 DEF LoadedEntry, Has
<1>5. CASE text[k] \notin {Null, {}}
  <2>1. text[k] # Deny
    BY <1>1, <1>5, MarksAreDistinct DEF Lists
  <2> QED  BY <1>2, <1>3, <1>5, <2>1 DEF LoadedEntry, Has
<1> QED  BY <1>4, <1>5

LEMMA KeysAreKept ==
  ASSUME NEW text
  PROVE  DOMAIN LoadAcl(SaveAcl(LoadAcl(text))) = DOMAIN text
BY DEF LoadAcl, SaveAcl

\* The keys that can match a caller, and how specific they are.
LEMMA MatchingKeys ==
  ASSUME NEW caller \in Callers, NEW k \in AclKeys
  PROVE  /\ Matches(k, caller) <=>
              \/ k = Everyone
              \/ (k = AnyLocal /\ caller.kind = "local")
              \/ k = Normalize(caller)
         /\ Rank(Everyone) = 1 /\ Rank(AnyLocal) = 2 /\ Rank(Normalize(caller)) = 3
         /\ Normalize(caller).kind = caller.kind
         /\ Everyone # AnyLocal /\ Normalize(caller) # Everyone /\ Normalize(caller) # AnyLocal
<1> USE DEF Principal
<1>1. /\ Normalize(caller) = [kind |-> caller.kind, who |-> caller.who]
      /\ caller.kind = "did" \/ (caller.kind = "local" /\ caller.who \in Names)
  BY DEF Normalize, Callers
<1>2. /\ Everyone = [kind |-> "everyone", who |-> Nobody]
      /\ AnyLocal = [kind |-> "local", who |-> Nobody]
  BY DEF Everyone, AnyLocal
<1>3. k = [kind |-> k.kind, who |-> k.who]
  BY DEF AclKeys, Everyone, AnyLocal, EmptyKey
<1>4. /\ Everyone # AnyLocal /\ Normalize(caller) # Everyone /\ Normalize(caller) # AnyLocal
  BY <1>1, <1>2, MarksAreDistinct
<1>5. Matches(k, caller) <=>
              \/ k = Everyone
              \/ (k = AnyLocal /\ caller.kind = "local")
              \/ k = Normalize(caller)
  BY <1>1, <1>3 DEF Matches
<1>6. Rank(Everyone) = 1 /\ Rank(AnyLocal) = 2 /\ Rank(Normalize(caller)) = 3
  BY <1>4 DEF Rank
<1> QED  BY <1>1, <1>4, <1>5, <1>6

\* check_cap grants a capability exactly when the most specific key of the
\* file that matches the caller lists it, or all.
THEOREM DecisionCorrect ==
  ASSUME NEW text, IsFile(text), Readable(text), NEW caller \in Callers, NEW cap \in Caps
  PROVE  CheckCap(LoadAcl(SaveAcl(LoadAcl(text))), caller, cap) <=> Granted(text, caller, cap)
<1> DEFINE acl == LoadAcl(SaveAcl(LoadAcl(text)))
           me == Normalize(caller)
           Says(k) == text[k] # Null /\ (cap \in text[k] \/ AnyCap \in text[k])
           M(k) == Matches(k, caller)
<1>1. DOMAIN text \subseteq AclKeys
  BY DEF IsFile
<1>2. DOMAIN acl = DOMAIN text
  BY KeysAreKept
<1>3. \A k \in DOMAIN text : Has(acl[k], cap) <=> Says(k)
  BY EntryIsKept
<1>4. \A k \in DOMAIN text :
        M(k) <=> (k = Everyone \/ (k = AnyLocal /\ caller.kind = "local") \/ k = me)
  BY <1>1, MatchingKeys
<1>5. /\ Rank(Everyone) = 1 /\ Rank(AnyLocal) = 2 /\ Rank(me) = 3
      /\ me.kind = caller.kind
      /\ Everyone # AnyLocal /\ me # Everyone /\ me # AnyLocal
  BY MatchingKeys DEF AclKeys
<1>6. Granted(text, caller, cap) <=>
        \E k \in DOMAIN text :
          M(k) /\ (\A other \in DOMAIN text : M(other) => Rank(other) <= Rank(k)) /\ Says(k)
  BY DEF Granted
<1>7. CheckCap(acl, caller, cap) <=>
        LET decisive == IF me \in DOMAIN acl THEN me
                        ELSE IF me.kind = "local" /\ AnyLocal \in DOMAIN acl THEN AnyLocal
                        ELSE Everyone
        IN  decisive \in DOMAIN acl /\ Has(acl[decisive], cap)
  BY DEF CheckCap
<1> SUFFICES CheckCap(acl, caller, cap) <=> Granted(text, caller, cap)
  BY DEF acl
<1> HIDE DEF acl, me, Says, M
<1>8. CASE me \in DOMAIN text
  BY <1>2, <1>3, <1>4, <1>5, <1>6, <1>7, <1>8
<1>9. CASE me \notin DOMAIN text /\ caller.kind = "local" /\ AnyLocal \in DOMAIN text
  BY <1>2, <1>3, <1>4, <1>5, <1>6, <1>7, <1>9
<1>10. CASE me \notin DOMAIN text /\ ~(caller.kind = "local" /\ AnyLocal \in DOMAIN text)
  BY <1>2, <1>3, <1>4, <1>5, <1>6, <1>7, <1>10
<1> QED  BY <1>8, <1>9, <1>10

-----------------------------------------------------------------------------
(* What build_document returns.                                            *)

\* The first method of a list with a given fragment.
LEMMA LeastIndex ==
  ASSUME NEW S, S \subseteq Nat, S # {}
  PROVE  \E i \in S : \A j \in S : ~ (j < i)
<1>1. \E x \in S : \A y \in S : ~ (<<y, x>> \in OpToRel(<, Nat))
  BY NatLessThanWellFounded, WFMin
<1>2. \A x, y \in Nat : y < x => <<y, x>> \in OpToRel(<, Nat)
  BY DEF OpToRel
<1> QED  BY <1>1, <1>2

SignMethod(o, b) == [frag |-> "sign", key |-> SigningKey(o, b)]
EncMethod(o, b) == [frag |-> "enc", key |-> EncryptionKey(o, b)]
TwoMethods(o, b) == Append(Append(<<>>, SignMethod(o, b)), EncMethod(o, b))

LEMMA Appended ==
  ASSUME NEW S, NEW seq \in Seq(S), NEW y \in S
  PROVE  /\ DOMAIN Append(seq, y) = 1 .. Len(seq) + 1
         /\ \A i \in 1 .. Len(seq) : Append(seq, y)[i] = seq[i]
         /\ Append(seq, y)[Len(seq) + 1] = y
OBVIOUS

LEMMA TwoElements ==
  ASSUME NEW x, NEW y
  PROVE  LET s == Append(Append(<<>>, x), y) IN
           DOMAIN s = {1, 2} /\ s[1] = x /\ s[2] = y
<1>1. PICK S : Append(<<>>, x) \in Seq(S) /\ y \in S
  <2>1. Append(<<>>, x) \in Seq({x, y}) /\ y \in {x, y}
    OBVIOUS
  <2> QED  BY <2>1
<1>3. PICK one \in Seq(S) : Append(<<>>, x) = one /\ Len(one) = 1 /\ one[1] = x
  <2>1. Len(Append(<<>>, x)) = 1 /\ Append(<<>>, x)[1] = x
    OBVIOUS
  <2> QED  BY <1>1, <2>1
<1>2. /\ DOMAIN Append(one, y) = 1 .. Len(one) + 1
      /\ \A i \in 1 .. Len(one) : Append(one, y)[i] = one[i]
      /\ Append(one, y)[Len(one) + 1] = y
  BY <1>1, Appended
<1>4. DOMAIN Append(one, y) = {1, 2}
  BY <1>2, <1>3
<1>5. Append(one, y)[1] = x
  BY <1>2, <1>3
<1>6. Append(one, y)[2] = y
  BY <1>2, <1>3
<1> QED  BY <1>3, <1>4, <1>5, <1>6

LEMMA KeysDiffer ==
  ASSUME NEW o, NEW b
  PROVE  SigningKey(o, b).kind = "sign" /\ EncryptionKey(o, b).kind = "enc"
BY DEF SigningKey, EncryptionKey, Key

LEMMA TwoMethodsAreAdded ==
  ASSUME NEW o, NEW b, NEW d, IsDoc(d, o), d.methods = <<>>
  PROVE  AddMethod(AddMethod(d, "sign", SigningKey(o, b)), "enc", EncryptionKey(o, b))
           = [d EXCEPT !.methods = TwoMethods(o, b)]
<1> DEFINE one == Append(<<>>, SignMethod(o, b))
           d1 == [d EXCEPT !.methods = one]
<1>1. AddMethod(d, "sign", SigningKey(o, b)) = d1
  <2>1. DOMAIN d.methods = {}
    OBVIOUS
  <2> QED  BY <2>1 DEF AddMethod, SignMethod
<1>2. d1.methods = one
  BY DEF IsDoc
<1>3. DOMAIN one = {1} /\ one[1] = SignMethod(o, b)
  OBVIOUS
<1>4. AddMethod(d1, "enc", EncryptionKey(o, b)) = [d1 EXCEPT !.methods = TwoMethods(o, b)]
  <2>1. SignMethod(o, b).frag # "enc" /\ SignMethod(o, b).key # EncryptionKey(o, b)
    BY KeysDiffer DEF SignMethod
  <2>2. ~ \E i \in DOMAIN d1.methods :
            d1.methods[i].frag = "enc" \/ d1.methods[i].key = EncryptionKey(o, b)
    BY <1>2, <1>3, <2>1
  <2> HIDE DEF d1, one
  <2> QED  BY <1>2, <2>2 DEF AddMethod, TwoMethods, EncMethod, one
<1>5. [d1 EXCEPT !.methods = TwoMethods(o, b)] = [d EXCEPT !.methods = TwoMethods(o, b)]
  BY DEF IsDoc
<1> QED  BY <1>1, <1>4, <1>5

\* A document with one assertion and one agreement, by its other fields.
Doc(o, methods, t0, t, ma, proof) ==
  [id |-> o, methods |-> methods, assertion |-> <<"sign">>, agreement |-> <<"enc">>,
   created |-> t0, updated |-> t, ma |-> ma, proof |-> proof]

ProofBy(key, over) == [method |-> "sign", key |-> key, over |-> over]

ProofOf(o, b, ma, t) ==
  ProofBy(SigningKey(o, b), Doc(o, TwoMethods(o, b), 0, t, ma, NoProof))

LEMMA SignedDoc ==
  ASSUME NEW o, NEW ms, NEW t0, NEW t, NEW ma, NEW p, NEW key
  PROVE  Signed(Doc(o, ms, t0, t, ma, p), "sign", key)
           = Doc(o, ms, t0, t, ma, ProofBy(key, Doc(o, ms, t0, t, ma, NoProof)))
<1> DEFINE d == Doc(o, ms, t0, t, ma, p)
           n == Doc(o, ms, t0, t, ma, NoProof)
           q == ProofBy(key, n)
<1>1. Payload(d) = n
  BY DEF Payload, Doc
<1>2. Signed(d, "sign", key) = [d EXCEPT !.proof = q]
  BY <1>1 DEF Signed, ProofBy
<1> HIDE DEF q
<1>3. [d EXCEPT !.proof = q] = Doc(o, ms, t0, t, ma, q)
  BY DEF Doc
<1> QED  BY <1>2, <1>3 DEF q

\* The fields of a built document.
LEMMA BuiltFields ==
  ASSUME NEW o, NEW b, NEW ma, NEW t
  PROVE  Built(o, b, ma, t) = Doc(o, TwoMethods(o, b), 0, t, ma, ProofOf(o, b, ma, t))
<1> DEFINE e == [id |-> o, methods |-> <<>>, assertion |-> <<>>, agreement |-> <<>>,
                 created |-> t, updated |-> t, ma |-> NoMa, proof |-> NoProof]
           k == AddMethod(AddMethod(e, "sign", SigningKey(o, b)), "enc", EncryptionKey(o, b))
           i == Identity(o, b, t)
           r == Restored(o, b, t)
           ms == TwoMethods(o, b)
           key == SigningKey(o, b)
<1>1. k = [e EXCEPT !.methods = ms]
  BY TwoMethodsAreAdded DEF IsDoc
<1>2. i = Signed([k EXCEPT !.assertion = <<"sign">>, !.agreement = <<"enc">>], "sign", key)
  BY DEF Identity
<1>3. r = Signed([i EXCEPT !.created = 0], "sign", key)
  BY DEF Restored
<1>4. Built(o, b, ma, t) = Signed([r EXCEPT !.ma = ma, !.updated = t], "sign", key)
  BY DEF Built
<1> HIDE DEF k, i, r, ms, key
<1>5. [k EXCEPT !.assertion = <<"sign">>, !.agreement = <<"enc">>] = Doc(o, ms, t, t, NoMa, NoProof)
  <2>1. k = [id |-> o, methods |-> ms, assertion |-> <<>>, agreement |-> <<>>,
             created |-> t, updated |-> t, ma |-> NoMa, proof |-> NoProof]
    BY <1>1
  <2>2. [k EXCEPT !.assertion = <<"sign">>]
          = [id |-> o, methods |-> ms, assertion |-> <<"sign">>, agreement |-> <<>>,
             created |-> t, updated |-> t, ma |-> NoMa, proof |-> NoProof]
    BY <2>1
  <2>3. PICK j : j = [k EXCEPT !.assertion = <<"sign">>]
    OBVIOUS
  <2>5. j = [id |-> o, methods |-> ms, assertion |-> <<"sign">>, agreement |-> <<>>,
             created |-> t, updated |-> t, ma |-> NoMa, proof |-> NoProof]
    BY <2>2, <2>3
  <2>6. [j EXCEPT !.agreement = <<"enc">>]
          = [id |-> o, methods |-> ms, assertion |-> <<"sign">>, agreement |-> <<"enc">>,
             created |-> t, updated |-> t, ma |-> NoMa, proof |-> NoProof]
    BY <2>5
  <2>4. [k EXCEPT !.assertion = <<"sign">>, !.agreement = <<"enc">>]
          = [[k EXCEPT !.assertion = <<"sign">>] EXCEPT !.agreement = <<"enc">>]
    OBVIOUS
  <2> QED  BY <2>3, <2>4, <2>6 DEF Doc
<1>6. \E p : i = Doc(o, ms, t, t, NoMa, p)
  <2>1. i = Signed(Doc(o, ms, t, t, NoMa, NoProof), "sign", key)
    BY <1>2, <1>5
  <2>2. i = Doc(o, ms, t, t, NoMa, ProofBy(key, Doc(o, ms, t, t, NoMa, NoProof)))
    BY <2>1, SignedDoc
  <2> QED  BY <2>2
<1>a. PICK p : i = Doc(o, ms, t, t, NoMa, p)
  BY <1>6
<1>7. [i EXCEPT !.created = 0] = Doc(o, ms, 0, t, NoMa, p)
  BY <1>a DEF Doc
<1>8. \E q : r = Doc(o, ms, 0, t, NoMa, q)
  <2>1. r = Signed(Doc(o, ms, 0, t, NoMa, p), "sign", key)
    BY <1>3, <1>7
  <2>2. r = Doc(o, ms, 0, t, NoMa, ProofBy(key, Doc(o, ms, 0, t, NoMa, NoProof)))
    BY <2>1, SignedDoc
  <2> QED  BY <2>2
<1>b. PICK q : r = Doc(o, ms, 0, t, NoMa, q)
  BY <1>8
<1>9. [r EXCEPT !.ma = ma] = Doc(o, ms, 0, t, ma, q)
  BY <1>b DEF Doc
<1>10. [[r EXCEPT !.ma = ma] EXCEPT !.updated = t] = Doc(o, ms, 0, t, ma, q)
  BY <1>9 DEF Doc
<1>11. [r EXCEPT !.ma = ma, !.updated = t] = [[r EXCEPT !.ma = ma] EXCEPT !.updated = t]
  OBVIOUS
<1>12. Built(o, b, ma, t)
         = Doc(o, ms, 0, t, ma, ProofBy(key, Doc(o, ms, 0, t, ma, NoProof)))
  BY <1>4, <1>10, <1>11, SignedDoc
<1> QED  BY <1>12 DEF ProofOf, ms, key

LEMMA KeysOfTwoMethods ==
  ASSUME NEW o, NEW b, NEW doc, doc.methods = TwoMethods(o, b)
  PROVE  /\ IsMethod(doc, "sign") /\ IsMethod(doc, "enc")
         /\ KeyOf(doc, "sign") = SigningKey(o, b)
         /\ KeyOf(doc, "enc") = EncryptionKey(o, b)
<1>1. /\ DOMAIN doc.methods = {1, 2}
      /\ doc.methods[1] = [frag |-> "sign", key |-> SigningKey(o, b)]
      /\ doc.methods[2] = [frag |-> "enc", key |-> EncryptionKey(o, b)]
  BY TwoElements DEF TwoMethods, SignMethod, EncMethod
<1>2. IsMethod(doc, "sign") /\ IsMethod(doc, "enc")
  BY <1>1 DEF IsMethod
<1>3. (CHOOSE i \in DOMAIN doc.methods :
         doc.methods[i].frag = "sign" /\ \A j \in 1 .. i - 1 : doc.methods[j].frag # "sign") = 1
  <2>1. \A j \in 1 .. 1 - 1 : doc.methods[j].frag # "sign"
    OBVIOUS
  <2> QED  BY <1>1, <2>1
<1>4. (CHOOSE i \in DOMAIN doc.methods :
         doc.methods[i].frag = "enc" /\ \A j \in 1 .. i - 1 : doc.methods[j].frag # "enc") = 2
  <2>1. \A j \in 1 .. 2 - 1 : doc.methods[j].frag # "enc"
    BY <1>1
  <2> QED  BY <1>1, <2>1
<1> QED  BY <1>1, <1>2, <1>3, <1>4 DEF KeyOf

\* It is valid, its proof verifies, and its first relationships are the keys
\* that it was built from.
LEMMA BuiltIsGood ==
  ASSUME NEW o \in Dids, NEW b, NEW ma, NEW t
  PROVE  LET doc == Built(o, b, ma, t) IN
           /\ IsDoc(doc, o) /\ doc # NoDoc /\ doc.id = o /\ doc.ma = ma
           /\ Validates(doc) /\ Verifies(doc) /\ Accepts(doc, o)
           /\ AssertionKey(doc) = SigningKey(o, b)
           /\ AgreementKey(doc) = EncryptionKey(o, b)
<1> DEFINE doc == Built(o, b, ma, t)
           p == ProofOf(o, b, ma, t)
<1>1. doc = Doc(o, TwoMethods(o, b), 0, t, ma, p)
  BY BuiltFields
<1> HIDE DEF doc, p
<1>2. IsDoc(doc, o) /\ doc.id = o /\ doc.ma = ma
  BY <1>1 DEF IsDoc, Doc
<1>3. doc # NoDoc
  BY <1>2, OwnersAreSomebody DEF NoDoc
<1>4. /\ IsMethod(doc, "sign") /\ IsMethod(doc, "enc")
      /\ KeyOf(doc, "sign") = SigningKey(o, b)
      /\ KeyOf(doc, "enc") = EncryptionKey(o, b)
  BY <1>1, KeysOfTwoMethods DEF Doc
<1>5. doc.assertion = <<"sign">> /\ doc.agreement = <<"enc">>
  BY <1>1 DEF Doc
<1>6. Validates(doc)
  BY <1>4, <1>5, KeysDiffer DEF Validates, Knows
<1>7. Verifies(doc)
  <2>1. doc.proof = p /\ p.method = "sign" /\ p.key = SigningKey(o, b)
        /\ p.over = Doc(o, TwoMethods(o, b), 0, t, ma, NoProof)
    BY <1>1 DEF p, ProofOf, ProofBy, Doc
  <2>2. Payload(doc) = Doc(o, TwoMethods(o, b), 0, t, ma, NoProof)
    BY <1>1 DEF Payload, Doc
  <2>3. p # NoProof
    <3>1. NoProof.method = ""
      BY DEF NoProof
    <3> QED  BY <2>1, <3>1
  <2>4. \E i \in DOMAIN doc.assertion : doc.assertion[i] = "sign"
    BY <1>5
  <2> QED  BY <1>4, <2>1, <2>2, <2>3, <2>4, KeysDiffer DEF Verifies
<1>8. Accepts(doc, o)
  BY <1>2, <1>3, <1>6, <1>7 DEF Accepts
<1>9. AssertionKey(doc) = SigningKey(o, b) /\ AgreementKey(doc) = EncryptionKey(o, b)
  BY <1>4, <1>5 DEF AssertionKey, AgreementKey
<1> QED  BY <1>2, <1>3, <1>6, <1>7, <1>8, <1>9 DEF doc

-----------------------------------------------------------------------------
(* Types.                                                                  *)

LEMMA EditsKeepDocs ==
  ASSUME NEW o, NEW d, IsDoc(d, o), NEW x
  PROVE  /\ IsDoc([d EXCEPT !.methods = x], o)
         /\ IsDoc([d EXCEPT !.assertion = x], o)
         /\ IsDoc([d EXCEPT !.updated = x], o)
         /\ IsDoc([d EXCEPT !.ma = x], o)
         /\ IsDoc([d EXCEPT !.proof = x], o)
<1>1. IsDoc([d EXCEPT !.methods = x], o)
  BY DEF IsDoc
<1>2. IsDoc([d EXCEPT !.assertion = x], o)
  BY DEF IsDoc
<1>3. IsDoc([d EXCEPT !.updated = x], o)
  BY DEF IsDoc
<1>4. IsDoc([d EXCEPT !.ma = x], o)
  BY DEF IsDoc
<1>5. IsDoc([d EXCEPT !.proof = x], o)
  BY DEF IsDoc
<1> QED  BY <1>1, <1>2, <1>3, <1>4, <1>5

LEMMA AddMethodKeepsDocs ==
  ASSUME NEW o, NEW d, IsDoc(d, o), NEW f, NEW key
  PROVE  IsDoc(AddMethod(d, f, key), o)
<1>1. PICK x : AddMethod(d, f, key) \in {d, [d EXCEPT !.methods = x]}
  BY DEF AddMethod
<1>2. IsDoc([d EXCEPT !.methods = x], o)
  BY EditsKeepDocs
<1> QED  BY <1>1, <1>2

LEMMA SignedKeepsDocs ==
  ASSUME NEW o, NEW d, IsDoc(d, o), NEW f, NEW key
  PROVE  IsDoc(Signed(d, f, key), o)
<1>1. PICK x : Signed(d, f, key) = [d EXCEPT !.proof = x]
  BY DEF Signed
<1>2. IsDoc([d EXCEPT !.proof = x], o)
  BY EditsKeepDocs
<1> QED  BY <1>1, <1>2

LEMMA InitTypeOK == Init => TypeOK
<1> SUFFICES ASSUME Init PROVE TypeOK
  OBVIOUS
<1> USE DEF Init
<1>1. scope.seconds \in Nat /\ scope.edits \in Nat
  BY ScopesAreScopes
<1>2. bundle \in [Dids -> Bundles]
  BY SomeKeys DEF Bundles
<1>3. IsShelf(draft) /\ IsShelf(published)
  BY DEF IsShelf
<1> QED  BY <1>1, <1>2, <1>3 DEF TypeOK, Outcomes

\* An edit puts a document of o in the place of the one that o holds.
LEMMA HoldsType ==
  ASSUME TypeOK, NEW o \in Dids, NEW d, IsDoc(d, o), Holds(o, d), edits' \in 0 .. scope.edits
  PROVE  TypeOK'
<1>1. IsShelf(draft')
  BY DEF TypeOK, IsShelf, Holds
<1>2. IsShelf(draft)' <=> IsShelf(draft')
  BY DEF IsShelf
<1> QED  BY <1>1, <1>2 DEF TypeOK, Holds, Outcomes, IsShelf

LEMMA EditType ==
  ASSUME TypeOK, NEW o \in Dids, Edit(o)
  PROVE  TypeOK'
<1>1. draft[o] # NoDoc /\ IsDoc(draft[o], o)
  BY DEF TypeOK, IsShelf, Edit, Touch, SetMa, AddBrokenService, AddVerificationMethod,
         SetAssertion, Sign
<1>2. ASSUME NEW d, Edits(o, d), IsDoc(d, o) PROVE TypeOK'
  <2>1. scope.edits \in Nat
    BY ScopesAreScopes DEF TypeOK
  <2>2. edits' \in 0 .. scope.edits
    BY <1>2, <2>1 DEF Edits, TypeOK
  <2> QED  BY <1>2, <2>2, HoldsType DEF Edits
<1>3. CASE Touch(o)
  BY <1>1, <1>2, <1>3, EditsKeepDocs DEF Touch
<1>4. ASSUME NEW ma, SetMa(o, ma) PROVE TypeOK'
  BY <1>1, <1>2, <1>4, EditsKeepDocs DEF SetMa
<1>5. CASE AddBrokenService(o)
  <2>1. PICK x : Edits(o, [draft[o] EXCEPT !.ma = x])
    BY <1>5 DEF AddBrokenService
  <2> QED  BY <1>1, <1>2, <2>1, EditsKeepDocs
<1>6. ASSUME NEW f, AddVerificationMethod(o, f) PROVE TypeOK'
  BY <1>1, <1>2, <1>6, AddMethodKeepsDocs DEF AddVerificationMethod
<1>7. ASSUME NEW f, SetAssertion(o, f) PROVE TypeOK'
  <2>1. PICK x : Edits(o, [draft[o] EXCEPT !.assertion = x])
    BY <1>7 DEF SetAssertion
  <2> QED  BY <1>1, <1>2, <2>1, EditsKeepDocs
<1>8. ASSUME NEW f, Sign(o, f) PROVE TypeOK'
  BY <1>1, <1>2, <1>8, SignedKeepsDocs DEF Sign
<1> QED  BY <1>3, <1>4, <1>5, <1>6, <1>7, <1>8 DEF Edit
LEMMA RequestType ==
  ASSUME TypeOK, NEW o \in Dids, RequestPublish(o)
  PROVE  TypeOK'
<1>1. PICK doc \in {draft[o]} \cup {published[d] : d \in {d \in Dids : Accepts(published[d], d)}} :
        /\ doc # NoDoc
        /\ request' = [from |-> o, doc |-> doc, key |-> SigningKey(o, bundle[o]), by |-> bundle[o]]
  BY DEF RequestPublish
<1>2. \E d \in Dids : IsDoc(doc, d)
  BY <1>1 DEF TypeOK, IsShelf
<1>3. \E d \in Dids : IsDoc(request'.doc, d)
  BY <1>1, <1>2
<1>4. request'.from \in Dids /\ request'.key = SigningKey(request'.from, request'.by)
  BY <1>1
<1> QED  BY <1>3, <1>4 DEF RequestPublish, TypeOK, IsShelf, Outcomes, IsDoc, SigningKey, EncryptionKey, Key

LEMMA HandlePublishType ==
  ASSUME TypeOK, HandlePublish
  PROVE  TypeOK'
<1>1. PICK o \in Dids : IsDoc(request.doc, o)
  BY DEF HandlePublish, TypeOK
<1>2. request.doc.id = o
  BY <1>1 DEF IsDoc
<1>3. IsShelf(published')
  BY <1>1, <1>2 DEF HandlePublish, TypeOK, IsShelf
<1>4. IsShelf(draft')
  BY DEF HandlePublish, TypeOK
<1>5. last' \in Outcomes
  BY DEF HandlePublish, Outcomes
<1> QED  BY <1>3, <1>4, <1>5 DEF HandlePublish, TypeOK, IsShelf

LEMMA SendType ==
  ASSUME TypeOK, NEW o \in Dids, NEW f \in Names \cup {Nobody}, NEW b, Send(o, f, b)
  PROVE  TypeOK'
<1>1. outbox[o].to \in Dids
  BY DEF Send, TypeOK
<1> DEFINE box == outbox[o]
           sealed == IF box.local \/ b THEN NoKey ELSE SealedFor(box.doc)
           who == {c \in Bundles : IsBuilt(box.doc, box.to, c)}
<1>2. packet' = [from |-> o, fragment |-> f, to |-> box.to, local |-> box.local,
                 key |-> SigningKey(o, bundle[o]), sealed |-> sealed,
                 by |-> bundle[o], forBundle |-> who]
  BY DEF Send
<1>3. ASSUME sealed # NoKey, NEW c \in who PROVE sealed = EncryptionKey(box.to, c)
  <2>1. sealed = AgreementKey(box.doc)
    BY <1>3 DEF SealedFor
  <2>2. box.doc = Built(box.to, c, box.doc.ma, box.doc.updated)
    BY DEF IsBuilt
  <2>3. AgreementKey(Built(box.to, c, box.doc.ma, box.doc.updated)) = EncryptionKey(box.to, c)
    BY <1>1, BuiltIsGood
  <2> QED  BY <2>1, <2>2, <2>3
<1> HIDE DEF sealed, who
<1>4. /\ packet'.from \in Dids /\ packet'.to \in Dids
      /\ packet'.fragment \in Names \cup {Nobody}
      /\ packet'.key = SigningKey(packet'.from, packet'.by)
      /\ packet'.sealed # NoKey =>
            \A c \in packet'.forBundle : packet'.sealed = EncryptionKey(packet'.to, c)
  BY <1>1, <1>2, <1>3
<1> QED  BY <1>4 DEF Send, TypeOK, IsShelf, IsDoc, Outcomes, SigningKey, EncryptionKey, Key

LEMMA NextTypeOK == TypeOK /\ [Next]_vars => TypeOK'
<1> SUFFICES ASSUME TypeOK, [Next]_vars PROVE TypeOK'
  OBVIOUS
<1> USE DEF Outcomes
<1>1. CASE Tick
  <2>1. now' \in 0 .. scope.seconds
    BY <1>1, ScopesAreScopes DEF TypeOK, Tick
  <2> QED  BY <1>1, <2>1 DEF Tick, TypeOK, IsShelf
<1>2. ASSUME NEW o \in Dids, NEW b \in Bundles, Restart(o, b) PROVE TypeOK'
  <2>1. bundle' \in [Dids -> Bundles]
    BY <1>2 DEF Restart, TypeOK
  <2>2. IsShelf(draft')
    BY <1>2 DEF Restart, TypeOK, IsShelf
  <2>3. /\ DOMAIN outbox' = Dids
        /\ \A p \in {p \in Dids : outbox'[p] # NoOutbox} :
             outbox'[p].to \in Dids /\ IsDoc(outbox'[p].doc, outbox'[p].to)
    BY <1>2 DEF Restart, TypeOK
  <2> QED  BY <1>2, <2>1, <2>2, <2>3 DEF Restart, TypeOK, IsShelf, IsDoc
<1>3. ASSUME NEW o \in Dids, NEW ma, BuildDocument(o, ma) PROVE TypeOK'
  <2>1. IsDoc(Built(o, bundle[o], ma, now), o)
    BY BuiltIsGood
  <2>2. edits' \in 0 .. scope.edits
    BY <1>3 DEF BuildDocument, TypeOK
  <2> QED  BY <1>3, <2>1, <2>2, HoldsType DEF BuildDocument
<1>4. ASSUME NEW o \in Dids, ResolveOwn(o) PROVE TypeOK'
  <2>1. IsDoc(published[o], o)
    BY <1>4 DEF ResolveOwn, Accepts, TypeOK, IsShelf
  <2>2. edits' \in 0 .. scope.edits
    BY <1>4 DEF ResolveOwn, TypeOK
  <2> QED  BY <1>4, <2>1, <2>2, HoldsType DEF ResolveOwn
<1>5. ASSUME NEW o \in Dids, PublishDocument(o) PROVE TypeOK'
  <2>1. IsShelf(published')
    BY <1>5 DEF PublishDocument, TypeOK, IsShelf
  <2> QED  BY <1>5, <2>1 DEF PublishDocument, TypeOK, IsShelf
<1>6. ASSUME NEW o \in Dids, NEW to \in Dids, NEW p, OpenOutbox(o, to, p) PROVE TypeOK'
  <2>1. IsDoc(published[to], to)
    BY <1>6 DEF OpenOutbox, Accepts, TypeOK, IsShelf
  <2>2. /\ DOMAIN outbox' = Dids
        /\ outbox'[o].to = to /\ outbox'[o].doc = published[to]
        /\ \A q \in Dids \ {o} : outbox'[q] = outbox[q]
    BY <1>6 DEF OpenOutbox, TypeOK
  <2>3. \A q \in {q \in Dids : outbox'[q] # NoOutbox} :
           outbox'[q].to \in Dids /\ IsDoc(outbox'[q].doc, outbox'[q].to)
    BY <2>1, <2>2 DEF TypeOK
  <2> QED  BY <1>6, <2>2, <2>3 DEF OpenOutbox, TypeOK, IsShelf, IsDoc
<1>7. ASSUME NEW o \in Dids, Refuse(o) PROVE TypeOK'
  BY <1>7 DEF Refuse, TypeOK, IsShelf
<1>8. ASSUME NEW o \in Dids, NEW text, NEW cap, Handle(o, text, cap) PROVE TypeOK'
  BY <1>8 DEF Handle, TypeOK, IsShelf
<1>9. CASE Lose
  BY <1>9 DEF Lose, TypeOK, IsShelf
<1>10. CASE UNCHANGED vars
  BY <1>10 DEF vars, TypeOK, IsShelf
<1> QED
  BY <1>1, <1>2, <1>3, <1>4, <1>5, <1>6, <1>7, <1>8, <1>9, <1>10, ActiveOwn,
     EditType, RequestType, HandlePublishType, SendType DEF Next

\* The types hold in every state, and with them that requests and packets are
\* signed by who they name, and that what the outbox sealed can be opened.
THEOREM TypeCorrect == Spec => []TypeOK
<1> QED  BY InitTypeOK, NextTypeOK, PTL DEF Spec
-----------------------------------------------------------------------------
(* Properties.                                                             *)

\* A built document leads whoever asks for a registered protocol to its owner.
LEMMA RegisteredIsFound ==
  ASSUME NEW o \in Dids, NEW ma \in Extensions(o), ma # NoMa, NEW doc, doc.ma = ma,
         NEW p, \E i \in DOMAIN ma : ma[i].protocol = p
  PROVE  EndpointFor(doc, p) = o
<1>1. PICK s \in Offers : ma = [i \in DOMAIN s |-> [protocol |-> s[i], endpoint |-> o]]
  BY DEF Extensions
<1>2. DOMAIN ma \subseteq Nat
  <2>1. DOMAIN s = 1 .. Len(s) /\ Len(s) \in Nat
    BY OffersAreSequences
  <2> QED  BY <1>1, <2>1
<1>3. \A i \in DOMAIN ma : ma[i].endpoint = o
  BY <1>1
<1> DEFINE Serving == {i \in DOMAIN ma : Serves(ma[i], p)}
<1>4. Serving # {}
  BY <1>3, OwnersAreSomebody DEF Serves
<1>5. \E i \in DOMAIN doc.ma : Serves(doc.ma[i], p) /\ \A j \in 1 .. i - 1 : ~ Serves(doc.ma[j], p)
  <2>1. PICK i \in Serving : \A j \in Serving : ~ (j < i)
    <3>1. Serving \subseteq Nat
      BY <1>2
    <3> HIDE DEF Serving
    <3> QED  BY <1>4, <3>1, LeastIndex
  <2>2. ASSUME NEW j \in 1 .. i - 1 PROVE ~ Serves(ma[j], p)
    <3>1. DOMAIN ma = 1 .. Len(s) /\ Len(s) \in Nat
      BY <1>1, OffersAreSequences
    <3>2. i \in 1 .. Len(s) /\ j \in 1 .. Len(s) /\ j < i
      BY <3>1
    <3>3. j \notin Serving
      BY <2>1, <3>2
    <3> QED  BY <3>1, <3>2, <3>3
  <2> QED  BY <2>1, <2>2
<1>6. \A i \in DOMAIN doc.ma : doc.ma[i].endpoint = o
  BY <1>3
<1> QED  BY <1>5, <1>6 DEF EndpointFor

\* What build_document returns is accepted, and leads to its endpoint.
THEOREM AlwaysAccepted == Spec => []BuiltIsAccepted
<1>1. BuiltIsAccepted
  <2> SUFFICES ASSUME NEW o \in Dids, NEW ma \in Extensions(o)
               PROVE  LET doc == Built(o, bundle[o], ma, now) IN
                        /\ Accepts(doc, o)
                        /\ \A p \in Protocols :
                             (ma # NoMa /\ \E i \in DOMAIN ma : ma[i].protocol = p)
                               => EndpointFor(doc, p) = o
    BY DEF BuiltIsAccepted
  <2> DEFINE doc == Built(o, bundle[o], ma, now)
  <2>1. Accepts(doc, o) /\ doc.ma = ma
    BY BuiltIsGood
  <2> HIDE DEF doc
  <2>2. \A p \in Protocols :
          (ma # NoMa /\ \E i \in DOMAIN ma : ma[i].protocol = p) => EndpointFor(doc, p) = o
    BY <2>1, RegisteredIsFound
  <2> QED  BY <2>1, <2>2 DEF doc
<1> QED  BY <1>1, PTL

LEMMA PayloadFields ==
  ASSUME NEW o, NEW c, IsDoc(c, o)
  PROVE  /\ Payload(c).id = c.id /\ Payload(c).methods = c.methods
         /\ Payload(c).assertion = c.assertion /\ Payload(c).agreement = c.agreement
         /\ Payload(c).created = c.created /\ Payload(c).updated = c.updated
         /\ Payload(c).ma = c.ma
         /\ c.id = o
BY DEF IsDoc, Payload

LEMMA SamePayload ==
  ASSUME NEW o, NEW q, NEW c, NEW d, IsDoc(c, o), IsDoc(d, q),
         Payload(c) = Payload(d), c.proof = d.proof
  PROVE  c = d
<1>1. /\ c.id = d.id /\ c.methods = d.methods /\ c.assertion = d.assertion
      /\ c.agreement = d.agreement /\ c.created = d.created /\ c.updated = d.updated
      /\ c.ma = d.ma /\ o = q
  BY PayloadFields
<1> QED  BY <1>1 DEF IsDoc

\* No two documents that are accepted share a proof.
THEOREM AlwaysOneDocumentPerProof == Spec => []OneDocumentPerProof
<1>1. TypeOK => OneDocumentPerProof
  <2> SUFFICES ASSUME TypeOK,
                      NEW c \in {x \in Circulating : x # NoDoc /\ Accepts(x, x.id)},
                      NEW d \in {x \in Circulating : x # NoDoc /\ Accepts(x, x.id)},
                      c.proof = d.proof
               PROVE  c = d
    BY DEF OneDocumentPerProof
  <2>1. \A x \in Circulating : x # NoDoc => \E o \in Dids : IsDoc(x, o)
    BY DEF Circulating, TypeOK, IsShelf
  <2>2. PICK o, q : IsDoc(c, o) /\ IsDoc(d, q)
    BY <2>1
  <2>3. c.proof.over = Payload(c) /\ d.proof.over = Payload(d)
    BY DEF Accepts, Verifies
  <2>4. Payload(c) = Payload(d)
    BY <2>3
  <2> QED  BY <2>2, <2>4, SamePayload
<1> QED  BY <1>1, TypeCorrect, PTL

\* The sender of a packet may do what the host's file grants it.
THEOREM AlwaysAdmitted == Spec => []AdmittedMayDo
<1>1. TypeOK => AdmittedMayDo
  <2> SUFFICES ASSUME TypeOK, NEW text \in Files, packet # NoPacket, Readable(text),
                      NEW cap \in Caps
               PROVE  CheckCap(LoadAcl(SaveAcl(LoadAcl(text))), CallerOf(packet.to, packet), cap)
                        <=> Granted(text, CallerOf(packet.to, packet), cap)
    BY DEF AdmittedMayDo
  <2>1. IsFile(text)
    BY FilesAreFiles
  <2>2. CallerOf(packet.to, packet) \in Callers
    BY DEF TypeOK, CallerOf, Callers
  <2> QED  BY <2>1, <2>2, DecisionCorrect
<1> QED  BY <1>1, TypeCorrect, PTL

LEMMA PublishStep == TypeOK /\ [Next]_vars => [
       HandlePublish =>
       /\ last' = "rejected" => ~IsBuilt(request.doc, request.from, request.by)
       /\ last' = "published" =>
            /\ Accepts(published'[request.from], request.from)
            /\ \A o \in Dids \ {request.from} : published'[o] = published[o]]_vars
<1> SUFFICES ASSUME TypeOK, HandlePublish
             PROVE  /\ last' = "rejected" => ~IsBuilt(request.doc, request.from, request.by)
                    /\ last' = "published" =>
                         /\ Accepts(published'[request.from], request.from)
                         /\ \A o \in Dids \ {request.from} : published'[o] = published[o]
  OBVIOUS
<1>1. /\ request.from \in Dids
      /\ request.key = SigningKey(request.from, request.by)
  BY DEF HandlePublish, TypeOK
<1>2. PICK o \in Dids : IsDoc(request.doc, o)
  BY DEF HandlePublish, TypeOK
<1>3. request.doc.id = o /\ request.doc # NoDoc
  BY <1>2, OwnersAreSomebody DEF IsDoc, NoDoc
<1>4. CASE Validated(request)
  <2>1. last' = "published" /\ published' = [published EXCEPT ![request.doc.id] = request.doc]
    BY <1>4 DEF HandlePublish
  <2>2. request.doc.id = request.from
    BY <1>4 DEF Validated, VerifiedWith
  <2>3. Accepts(request.doc, request.from)
    BY <1>3, <1>4, <2>2 DEF Accepts, Validated
  <2>4. DOMAIN published = Dids
    BY DEF TypeOK, IsShelf
  <2> QED  BY <1>1, <2>1, <2>2, <2>3, <2>4
<1>5. CASE ~Validated(request)
  <2>1. last' = "rejected"
    BY <1>5 DEF HandlePublish
  <2>2. ASSUME IsBuilt(request.doc, request.from, request.by) PROVE FALSE
    <3>1. request.doc = Built(request.from, request.by, request.doc.ma, request.doc.updated)
      BY <2>2 DEF IsBuilt
    <3>2. /\ Validates(request.doc) /\ Verifies(request.doc)
          /\ request.doc.id = request.from
          /\ AssertionKey(request.doc) = SigningKey(request.from, request.by)
      BY <1>1, <3>1, BuiltIsGood
    <3> QED  BY <1>1, <1>5, <3>2 DEF Validated, VerifiedWith
  <2> QED  BY <2>1, <2>2
<1> QED  BY <1>4, <1>5

\* A fresh request to publish what was built is not rejected, each time that it
\* comes, and sets no name but the requester's.
THEOREM AlwaysPublishes == Spec => PublishRequests
<1> QED  BY PublishStep, TypeCorrect, PTL DEF Spec, PublishRequests

LEMMA UnreadStep == TypeOK /\ [Next]_vars => [
       packet # NoPacket /\ last' = "unread" =>
       ~ /\ IsBuilt(published[packet.from], packet.from, packet.by)
         /\ bundle[packet.to] \in packet.forBundle]_vars
<1> SUFFICES ASSUME TypeOK, Next, packet # NoPacket, last' = "unread",
                    IsBuilt(published[packet.from], packet.from, packet.by),
                    bundle[packet.to] \in packet.forBundle
             PROVE  FALSE
  OBVIOUS
<1>1. PICK o \in Dids : Refuse(o)
  BY DEF Next, Tick, Restart, BuildDocument, ResolveOwn, Edit, Touch, SetMa, AddBrokenService,
         AddVerificationMethod, SetAssertion, Sign, Edits, Holds, PublishDocument, RequestPublish,
         OpenOutbox, Send, Handle, HandlePublish, Lose
<1>2. packet.to = o /\ ~Opens(o, packet)
  BY <1>1 DEF Refuse
<1>3. /\ packet.from \in Dids
      /\ packet.key = SigningKey(packet.from, packet.by)
      /\ packet.sealed # NoKey => packet.sealed = EncryptionKey(o, bundle[o])
  BY <1>2 DEF TypeOK
<1> DEFINE doc == published[packet.from]
<1>4. doc = Built(packet.from, packet.by, doc.ma, doc.updated)
  BY DEF IsBuilt
<1>5. Accepts(doc, packet.from) /\ doc.id = packet.from
      /\ AssertionKey(doc) = SigningKey(packet.from, packet.by)
  <2> HIDE DEF doc
  <2> QED  BY <1>3, <1>4, BuiltIsGood
<1> QED  BY <1>2, <1>3, <1>5 DEF Opens, Decrypts, VerifiedWith

\* Messages are refused unread only after a change of keys.
THEOREM AlwaysUnderstood == Spec => Understood
<1> QED  BY UnreadStep, TypeCorrect, PTL DEF Spec, Understood
=============================================================================
