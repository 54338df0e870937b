--------------------------- MODULE MC_FontContext ---------------------------
(* TLC instance of FontContext: the contexts are model values.            *)
EXTENDS FontContext, TLC

=============================================================================
