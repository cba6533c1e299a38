CONSTANTS
    Files = {f1}
    Inputs <- ListStructInputs
    Paths <- MCPaths
    Levels = {0}
    MinElements = {0}

INIT Init
NEXT Next

PROPERTY ImplementsPersistable
