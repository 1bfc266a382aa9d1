SPECIFICATION FairSpec
CONSTANTS
    ui = ui
    pad = pad
    Producers = {ui}
    MaxPosts <- Posts
    Capacity = 2
    Calls = {"wait"}
    Movers = {}
    MaxMoves = 0
PROPERTY EmptyEventEndsWait
CHECK_DEADLOCK FALSE
