--------------------------- MODULE MC_CustomEvent ---------------------------
(* TLC instance of CustomEvent: two events, two types, two details.       *)
EXTENDS CustomEvent, TLC

MCTypes == {"click", "load"}

=============================================================================
