\* Round trip of every branch of the writer and the reader, under every
\* combination of the four options, checked against the abstract codec.
CONSTANTS
    Files = {f1}
    Inputs <- GoodInputs
    Paths <- MCPaths
    Levels = {0, 4}
    MinElements = {0, 3}

INIT Init
NEXT Next

INVARIANT TypeOK
PROPERTY ImplementsPersistable
