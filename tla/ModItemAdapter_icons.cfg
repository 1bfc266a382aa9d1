CONSTANTS
    row1 = row1
    row2 = row2
    r1 = r1
    r2 = r2
    r3 = r3
    load1 = load1
    load2 = load2
    fabric = fabric
    sodium = sodium
    Rows = {row1, row2}
    Loads = {}
    Receivers = {r1, r2}
    Tags = {fabric, sodium}
    LoaderThreads = 2
    MaxRetries = 2
    CacheFull = FALSE
    None = None
SPECIFICATION FairSpec
PROPERTY IconRequestsEnd
CHECK_DEADLOCK FALSE
