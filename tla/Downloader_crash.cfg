CONSTANTS
    d1 = d1
    d2 = d2
    asset = asset
    library = library
    twin = twin
    artifact = artifact
    mod = mod
    Downloaders = {d1}
    Elements = {asset, artifact}
    VerifyFiles = TRUE
    RapidStart = FALSE
    MetadataThreads = 1
    VerifyThreads = 1
    DownloadThreads = 2
    LastAttempt = 1
    RetryInProcess = FALSE
    BadBodies = FALSE
    MayKill = FALSE
    MaxFaults = 0
    PathOf <- MCPathOf
    SizeOf <- OneChunk
    Listing <- MCListing
    InitialFiles <- FreshInstall
SPECIFICATION FairSpec
PROPERTY ExceptionsThrown
CHECK_DEADLOCK FALSE
