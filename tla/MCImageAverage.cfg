CONSTANTS
    Batches <- MCBatches
    PixelBits = 8

INIT Init
NEXT Next

\* average_images returns (or raises) after its last step.
CHECK_DEADLOCK FALSE

INVARIANT AverageIsMean
