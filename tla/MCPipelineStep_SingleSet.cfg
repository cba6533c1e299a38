\* The flip step for a node whose moduleParameters holds one parameter set.
CONSTANTS
    Drivers = {"flipper"}
    InputValues <- SingleSetInputs
    FlipOutcomes <- GoodOutcomes
    Images <- MCImages
    TaskDirs <- GoodTaskDirs
    SubtaskDirs <- MCSubtaskDirs
SPECIFICATION Spec
\* The process exits: every behaviour stops at pc = "done".
CHECK_DEADLOCK FALSE
INVARIANT StepSucceedsOnWellFormedInputs
