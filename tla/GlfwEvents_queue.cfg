SPECIFICATION GameSpec
CONSTANTS
    ui = ui
    pad = pad
    Producers = {ui, pad}
    MaxPosts <- Posts
    Capacity = 3
    Calls = {"poll", "wait", "timed"}
    Movers = {ui}
    MaxMoves = 1
INVARIANTS TypeOK TurnsInOrder
PROPERTIES ChannelPromise PostedIsHandled MoveIsReported
CHECK_DEADLOCK FALSE
