---------------------------- MODULE MCDocuments -----------------------------
(***************************************************************************)
(* Two owners: alice edits, requests and sends, bob is written to.         *)
(***************************************************************************)
EXTENDS Documents, TLC

CONSTANTS alice, bob, name, inbox, ipfs, use

MCRenewable == {<<alice, "sign">>, <<bob, "enc">>}
MCScopes ==
  {[seconds |-> 0, edits |-> 3, requests |-> FALSE, mail |-> FALSE],
   [seconds |-> 1, edits |-> 1, requests |-> TRUE, mail |-> FALSE],
   [seconds |-> 0, edits |-> 1, requests |-> FALSE, mail |-> TRUE]}
MCDids == {alice, bob}
MCOffers == {<<ipfs, inbox>>}

\* Every file over the keys that can match alice, her entity, or anyone, with
\* a denial and a list.
MCKeys == {Everyone, AnyLocal, Principal("local", name), Principal("did", alice)}
MCValues == {Null, {use}}
MCFiles ==
  UNION {[keys -> MCValues] : keys \in SUBSET MCKeys}
    \cup {(Everyone :> {AnyCap}) @@ (Principal("did", bob) :> {}),
          Everyone :> Text, EmptyKey :> {use},
          (Principal("group", name) :> {use}) @@ (AnyLocal :> Null)}
=============================================================================
