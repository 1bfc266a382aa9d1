CONSTANTS
    row1 = row1
    row2 = row2
    r1 = r1
    r2 = r2
    r3 = r3
    load1 = load1
    load2 = load2
    fabric = fabric
    sodium = sodium
    Rows = {row1}
    Loads = {load1, load2}
    Receivers = {r1, r2}
    Tags = {fabric, sodium}
    LoaderThreads = 1
    MaxRetries = 1
    CacheFull = TRUE
    None = None
SPECIFICATION Spec
INVARIANT TypeOK
INVARIANT ImageOfItem
INVARIANT RightFuture
INVARIANT WrongDetailsCameLate
SYMMETRY Symmetry
CHECK_DEADLOCK FALSE
