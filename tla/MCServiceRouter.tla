-------------------------- MODULE MCServiceRouter ---------------------------
(* Two services, one of which is also spelled without its slash.           *)
EXTENDS ServiceRouter, TLC

MCProtocols == {"/inbox", "/crud", "crud"}

MCNorm == [p \in MCProtocols |-> IF p = "crud" THEN "/crud" ELSE p]

\* Endpoints, connections and inboxes are interchangeable.
Alike == Permutations(Endpoints) \cup Permutations(Conns) \cup Permutations(Boxes)
=============================================================================
