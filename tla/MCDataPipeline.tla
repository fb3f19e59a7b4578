--------------------------- MODULE MCDataPipeline ---------------------------
(***************************************************************************)
(* An instance of DataPipeline for TLC.                                    *)
(***************************************************************************)
EXTENDS DataPipeline, TLC

CONSTANTS spy, dia,      \* a core symbol and a robustness symbol
          monday, tuesday

Archive(spyMonday, spyTuesday, diaMonday) ==
    <<spy, monday>> :> spyMonday @@ <<spy, tuesday>> :> spyTuesday
        @@ <<dia, monday>> :> diaMonday @@ <<dia, tuesday>> :> "absent"

\* An archive that passes without its robustness group, one whose core symbol
\* lacks a session, one whose rows are refused, and one without core symbols.
FewArchives ==
    {Archive("clean", "clean", "short"),
     Archive("clean", "absent", "clean"),
     Archive("clean", "clean", "malformed"),
     Archive("absent", "absent", "clean")}

\* The processes are alike.
Alike == Permutations(Workers)

=============================================================================
