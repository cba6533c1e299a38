CONSTANTS
    Files = {f1}
    Inputs <- NestedInputs
    Paths <- NestedPaths
    Levels = {0}
    MinElements = {0}

INIT Init
NEXT Next

PROPERTY ImplementsPersistable
