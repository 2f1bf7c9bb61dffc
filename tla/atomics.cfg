\* The header's functions called by two threads, one call each, in either
\* order, on a uint8_t and an int16_t that start at 0 or all ones.
CONSTANTS
    a1 = a1
    a2 = a2
    c1 = c1
    c2 = c2
    NoValue = NoValue
    Threads = {a1, a2}
    Cells = {c1, c2}
    CellType <- MCCellType
    Args <- MCArgs
    MaxCalls = 1
SPECIFICATION Spec
INVARIANT TypeOK ApiMatchesDocs
