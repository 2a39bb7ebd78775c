----------------------------- MODULE MCNaming -------------------------------
(* The two environments checked: what may go wrong in one alone may also   *)
(* go wrong, or right, in these two.                                       *)
EXTENDS Naming

MCSettings == {[overlap |-> b, late |-> b] : b \in BOOLEAN}

=============================================================================
