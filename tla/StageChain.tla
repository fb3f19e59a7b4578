----------------------------- MODULE StageChain -----------------------------
(***************************************************************************)
(* What factory/orchestrator.py promises of the stage files of an          *)
(* experiment: they appear one at a time in the order of RESEARCH_STAGES,  *)
(* none is ever changed, and the strategies a stage is about are among     *)
(* those of the stage before it, so that nothing that was sorted out comes *)
(* back.  Module Research implements it by processes that share the files. *)
(***************************************************************************)
EXTENDS Integers, Sequences

CONSTANTS
    Experiments,    \* the experiment ids
    Variants        \* the strategies an experiment generates

VARIABLE chain      \* experiment -> its stage files, in their order

\* RESEARCH_STAGES
ResearchStages ==
    <<"PROPOSAL_ACCEPTED", "VARIANTS_GENERATED", "TRAIN_COMPLETE", "VALIDATION_COMPLETE",
      "SELECTION_SEALED", "FINAL_TEST_COMPLETE", "GATES_COMPLETE", "REGISTRY_COMPLETE",
      "REPORT_COMPLETE">>

StageCount == Len(ResearchStages)

\* The strategies that the stages so far have left.
Remaining(stages) == IF stages = << >> THEN Variants ELSE stages[Len(stages)].ids

ChainInit == chain = [e \in Experiments |-> << >>]

\* One stage file is linked under its name.
Advance(e) ==
    /\ Len(chain[e]) < StageCount
    /\ Len(chain'[e]) = Len(chain[e]) + 1
    /\ LET stage == chain'[e][Len(chain[e]) + 1]
       IN  /\ stage.stage = ResearchStages[Len(chain[e]) + 1]
           /\ stage.ids \subseteq Remaining(chain[e])
           /\ chain' = [chain EXCEPT ![e] = Append(@, stage)]

ChainNext == \E e \in Experiments : Advance(e)

ChainSpec == ChainInit /\ [][ChainNext]_chain

=============================================================================
