SPECIFICATION FairSpec
CONSTANTS
    MaxSurfaces = 2
    MaxWindows = 2
    MaxResizes = 1
    Clients = {"gl", "vulkan", "awt", "awtActivity"}
INVARIANTS TypeOK DrawnWindowIsHeld SurfaceIsHandedOver RendererHasScreen
PROPERTIES HandshakeEnds NewSurfaceIsDrawn ResizeIsTaken StopEnds
CHECK_DEADLOCK FALSE
