----------------------------- MODULE MCResearch -----------------------------
(***************************************************************************)
(* An instance of Research for TLC.                                        *)
(***************************************************************************)
EXTENDS Research, TLC

CONSTANTS d1, d2, v1, v2, v3

ThreeVariants == <<v1, v2, v3>>

\* v1 survives everything on d1 and is not selected on d2; v2 is selected on
\* both and passes the rest on d2 only; v3 is never selected.
Selected == d1 :> {v1, v2} @@ d2 :> {v2}
Survivors == d1 :> {v1} @@ d2 :> {v1, v2}

OnePlace == [paper_observing |-> 1]

=============================================================================
