\* The error file of an exception raised in flipper.py's own frame.
CONSTANTS
    Drivers = {"flipper"}
    InputValues <- SingleSetInputs
    FlipOutcomes <- GoodOutcomes
    Images <- MCImages
    TaskDirs <- GoodTaskDirs
    SubtaskDirs <- MCSubtaskDirs
SPECIFICATION Spec
\* The process exits: every behaviour stops at pc = "done".
CHECK_DEADLOCK FALSE
INVARIANT ErrorStackReadable
