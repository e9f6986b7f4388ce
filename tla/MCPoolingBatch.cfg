SPECIFICATION MCSpec
CONSTANTS
    script = script
    plain = plain
    ScriptLength = 2
    PlainLength = 1
    Batches <- MCBatches
    Scripts <- MCScripts
    Commands <- MCCommands
    MaxGsb = 2
INVARIANTS
    BatchTruthful
PROPERTIES
    LifeSpec
    EventuallyDone
CHECK_DEADLOCK FALSE
