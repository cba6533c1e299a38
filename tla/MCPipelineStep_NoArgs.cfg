\* The flip step when the image code raises an exception with no arguments.
CONSTANTS
    Drivers = {"flipper"}
    InputValues <- GoodInputs
    FlipOutcomes <- NoArgsOutcomes
    Images <- MCImages
    TaskDirs <- GoodTaskDirs
    SubtaskDirs <- MCSubtaskDirs
SPECIFICATION Spec
\* The process exits: every behaviour stops at pc = "done".
CHECK_DEADLOCK FALSE
INVARIANT ErrorReported
