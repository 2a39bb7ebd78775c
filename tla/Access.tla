------------------------------- MODULE Access -------------------------------
(***************************************************************************)
(* Capability-based access control (src/acl/mod.rs): the map from          *)
(* principals to entries, its YAML form, and check_cap.                    *)
(*                                                                         *)
(* A string is a record here as soon as its form matters: a key or a       *)
(* caller is a kind and a name.  Kinds: everyone is "*", local with nobody *)
(* is "#", local with a name is "#name", did is a DID, group is            *)
(* "+handle.path", empty is the empty string.                              *)
(***************************************************************************)
EXTENDS Naturals

CONSTANTS
  Dids,     \* bare DIDs
  Names,    \* names of local entities, also the fragments of DID URLs
  Nobody,   \* no name
  Caps,     \* capabilities that are asked for
  AnyCap,   \* "*" as a capability
  Deny,     \* CapabilityEntry::Deny
  Null,     \* YAML null
  Text      \* a YAML string

ASSUME MarksAreDistinct ==
  /\ AnyCap \notin Caps
  /\ Nobody \notin Names
  /\ \A list \in SUBSET (Caps \cup {AnyCap}) : list # Deny /\ list # Null /\ list # Text
  /\ Deny # Null /\ Null # Text /\ Deny # Text

Principal(kind, who) == [kind |-> kind, who |-> who]

Everyone == Principal("everyone", Nobody)
AnyLocal == Principal("local", Nobody)
EmptyKey == Principal("empty", Nobody)

\* Keys of a map: is_principal_key, and the empty one.
AclKeys ==
  {Everyone, AnyLocal, EmptyKey}
    \cup {Principal(kind, who) : kind \in {"local", "group"}, who \in Names}
    \cup {Principal("did", d) : d \in Dids}

\* Who may ask: a DID or DID URL from outside, and an entity of this runtime,
\* which the runtime names by its fragment alone.
Callers ==
  [kind : {"did"}, who : Dids, fragment : Names \cup {Nobody}]
    \cup [kind : {"local"}, who : Names, fragment : {Nobody}]

\* normalize_principal: the fragment of a DID URL is dropped.
Normalize(caller) == Principal(caller.kind, caller.who)

-----------------------------------------------------------------------------
(* The YAML form.                                                          *)

Lists == SUBSET (Caps \cup {AnyCap})

\* A file, as an operator may write it.
IsFile(text) ==
  /\ DOMAIN text \subseteq AclKeys
  /\ \A k \in DOMAIN text : text[k] = Null \/ text[k] = Text \/ text[k] \in Lists

\* Deserialize for CapabilityEntry and validate_acl_map.
Readable(text) == EmptyKey \notin DOMAIN text /\ \A k \in DOMAIN text : text[k] # Text

LoadedEntry(value) == IF value \in {Null, {}} THEN Deny ELSE value

LoadAcl(text) == [k \in DOMAIN text |-> LoadedEntry(text[k])]

\* Serialize for CapabilityEntry.
SavedEntry(entry) == IF entry = Deny THEN Null ELSE entry

\* Mutant: entries that are written as null are left out.
SaveAllowsOnly(acl) ==
  [k \in {k \in DOMAIN acl : acl[k] # Deny} |-> SavedEntry(acl[k])]

SaveAcl(acl) == [k \in DOMAIN acl |-> SavedEntry(acl[k])]

-----------------------------------------------------------------------------
(* The decision.                                                           *)

\* CapabilityEntry::has, apply_entry.
Has(entry, cap) == entry # Deny /\ (cap \in entry \/ AnyCap \in entry)

CheckCap(acl, caller, cap) ==
  LET me == Normalize(caller)
      decisive == IF me \in DOMAIN acl THEN me
                  ELSE IF me.kind = "local" /\ AnyLocal \in DOMAIN acl THEN AnyLocal
                  ELSE Everyone
  IN  decisive \in DOMAIN acl /\ Has(acl[decisive], cap)

-----------------------------------------------------------------------------
(* What the documentation promises of a file: of the keys that match a     *)
(* caller the most specific one decides, and a key without capabilities    *)
(* denies (src/acl/mod.rs, "specific entity > local wildcard > global      *)
(* wildcard"; doc/acl.md).                                                 *)

Matches(key, caller) ==
  \/ key = Everyone
  \/ key = AnyLocal /\ caller.kind = "local"
  \/ key.kind = caller.kind /\ key.who = caller.who

Rank(key) == IF key = Everyone THEN 1 ELSE IF key = AnyLocal THEN 2 ELSE 3

Granted(text, caller, cap) ==
  \E k \in DOMAIN text :
    /\ Matches(k, caller)
    /\ \A other \in DOMAIN text : Matches(other, caller) => Rank(other) <= Rank(k)
    /\ text[k] # Null /\ (cap \in text[k] \/ AnyCap \in text[k])
=============================================================================
