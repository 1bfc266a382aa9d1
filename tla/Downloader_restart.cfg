CONSTANTS
    d1 = d1
    d2 = d2
    asset = asset
    library = library
    twin = twin
    artifact = artifact
    mod = mod
    Downloaders = {d1, d2}
    Elements = {mod, library}
    VerifyFiles = TRUE
    RapidStart = TRUE
    MetadataThreads = 1
    VerifyThreads = 1
    DownloadThreads = 2
    LastAttempt = 1
    RetryInProcess = FALSE
    BadBodies = FALSE
    MayKill = TRUE
    MaxFaults = 2
    PathOf <- MCPathOf
    SizeOf <- TwoChunkMod
    Listing <- MCListing
    InitialFiles <- Leftovers
SPECIFICATION Spec
INVARIANT TypeOK
INVARIANT SizeCounterExact
INVARIANT SizeProgressReachesTotal
INVARIANT FileCounterExact
INVARIANT NoCounterBug
PROPERTY DoneMeansVerified
INVARIANT VerifiedFilesKept
SYMMETRY Symmetry
CHECK_DEADLOCK FALSE
