----------------------------- MODULE DataQuality -----------------------------
(***************************************************************************)
(* The quality rules of data/quality.py on one archive's rows, and the     *)
(* selection of what a snapshot publishes.  A group is one symbol in one   *)
(* session of the declared range; its rows are told apart by what the      *)
(* gates tell apart:                                                       *)
(*   absent      no row at all                                             *)
(*   clean       every minute, once                                        *)
(*   short       minutes are missing                                       *)
(*   broken      duplicate, invalid, outside or unordered rows             *)
(*   misaligned  timestamps off the minute                                 *)
(*   malformed   rows without a canonical form, symbol or declared date    *)
(* Robustness groups that a source declares are groups without rows when   *)
(* they are missing: they are evidence, and nothing of them is published.  *)
(***************************************************************************)
EXTENDS Integers, FiniteSets

CONSTANTS
    Symbols,
    Sessions,    \* those of the declared range
    Declared,    \* the production symbols the source declares
    Core         \* PRODUCTION_SYMBOLS: SPY, QQQ and IWM

ASSUME SymbolsAssumption == Declared \subseteq Symbols /\ Core \subseteq Symbols

Groups == Symbols \X Sessions

Condition == {"absent", "clean", "short", "broken", "misaligned", "malformed"}

Rows == [Groups -> Condition]

\* _source_order_and_cadence, canonicalize_tiingo_rows and the checks of symbols
\* and dates raise for one group and end the whole import.
CadenceValidated(rows) == \A g \in Groups : rows[g] # "misaligned"
IsCanonical(rows) == \A g \in Groups : rows[g] # "malformed"

Observed(rows) == {g \in Groups : rows[g] # "absent"}
ObservedSymbols(rows) == {g[1] : g \in Observed(rows)}

\* A core symbol is held to the production gates, in every session, as soon as
\* one of its rows is observed.
EffectiveProduction(rows) == Declared \cup (Core \cap ObservedSymbols(rows))

Passed(rows, production, g) ==
    /\ rows[g] \notin {"broken", "misaligned", "malformed"}
    /\ g[1] \in production => rows[g] = "clean"

RequiresQuarantineIfBroken(production, rows, g) ==
    g[1] \notin production /\ rows[g] = "broken"
RequiresQuarantine(production, rows, g) ==
    g[1] \notin production /\ rows[g] # "clean"

\* The groups that are left out of the published bars.
Quarantined(rows) ==
    {g \in Groups : RequiresQuarantine(EffectiveProduction(rows), rows, g)}

PublishedRows(rows) == [g \in Groups |-> IF g \in Quarantined(rows) THEN "absent" ELSE rows[g]]

\* assess_minute_bars on bars that are to be published: nothing is missing of
\* the production groups and nothing is wrong with any group that is there.
QualityPassed(rows, production) ==
    \A g \in Observed(rows) \cup (production \X Sessions) : Passed(rows, production, g)

\* What stands before the first file is written: the form of the rows, the
\* production gate and the gate on what quarantine leaves.
MayPublish(rows) ==
    LET production == EffectiveProduction(rows)
    IN  /\ CadenceValidated(rows)
        /\ IsCanonical(rows)
        /\ \A g \in production \X Sessions : Passed(rows, production, g)
        /\ Observed(PublishedRows(rows)) # {}
        /\ QualityPassed(PublishedRows(rows), production)

=============================================================================
