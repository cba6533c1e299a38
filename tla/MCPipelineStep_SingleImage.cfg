\* The averaging step for a subtask with a single image of its data set.
CONSTANTS
    Drivers = {"averaging"}
    InputValues <- SingleImageInputs
    FlipOutcomes <- GoodOutcomes
    Images <- MCImages
    TaskDirs <- GoodTaskDirs
    SubtaskDirs <- MCSubtaskDirs
SPECIFICATION Spec
\* The process exits: every behaviour stops at pc = "done".
CHECK_DEADLOCK FALSE
INVARIANT StepSucceedsOnWellFormedInputs
