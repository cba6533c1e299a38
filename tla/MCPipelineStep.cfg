\* The three steps on well-formed inputs, in every subtask directory, with
\* image operations that succeed or raise.
CONSTANTS
    Drivers = {"flipper", "permuter", "averaging"}
    InputValues <- GoodInputs
    FlipOutcomes <- GoodOutcomes
    Images <- MCImages
    TaskDirs <- GoodTaskDirs
    SubtaskDirs <- MCSubtaskDirs
SPECIFICATION Spec
\* The process exits: every behaviour stops at pc = "done".
CHECK_DEADLOCK FALSE
INVARIANT StepSucceedsOnWellFormedInputs
INVARIANT OutputsMatchParameters
INVARIANT ErrorReported
INVARIANT ErrorStackReadable
