------------------------ MODULE MCPaperSessionSolo ------------------------
(***************************************************************************)
(* The instances where every strategy trades one symbol and bars come      *)
(* apart, with the inductive invariants in reach.                          *)
(***************************************************************************)
EXTENDS MCPaperSession, PaperSessionInvariant

=============================================================================
