------------------------------- MODULE MCBacktest -------------------------------
EXTENDS BacktestInvariant

(* Minute bars over a few prices: flat, a step down and a step up inside    *)
(* the minute, and one that spikes and comes back.                          *)
FewBars ==
    {[open |-> o, close |-> c, low |-> IF o < c THEN o ELSE c, high |-> IF o < c THEN c ELSE o]
        : o \in {2, 4}, c \in {2, 4}}
=============================================================================
