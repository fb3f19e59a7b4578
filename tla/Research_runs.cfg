SPECIFICATION Spec
CONSTANTS
    d1 = d1
    d2 = d2
    v1 = v1
    v2 = v2
    v3 = v3
    Workers = {w1, w2}
    Datasets = {d1, d2}
    Nothing = Nothing
    Revisions = {r1, r2}
    VariantOrder <- ThreeVariants
    Preselected <- Selected
    Robust <- Selected
    FinallyGood <- Survivors
    Capacity <- OnePlace
    MaxCommands = 2
    MaxChanges = 1
    MaxPromotions = 1
CHECK_DEADLOCK FALSE
INVARIANT FinalTestIsSealed
INVARIANT RegistryFollowsChain
PROPERTY ChainSpec
PROPERTY RefusedOnlyByOthers
