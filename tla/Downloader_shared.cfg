CONSTANTS
    d1 = d1
    d2 = d2
    asset = asset
    library = library
    twin = twin
    artifact = artifact
    mod = mod
    Downloaders = {d1}
    Elements = {asset, twin}
    VerifyFiles = TRUE
    RapidStart = FALSE
    MetadataThreads = 1
    VerifyThreads = 2
    DownloadThreads = 2
    LastAttempt = 1
    RetryInProcess = FALSE
    BadBodies = TRUE
    MayKill = FALSE
    MaxFaults = 3
    PathOf <- MCPathOf
    SizeOf <- OneChunk
    Listing <- MCListing
    InitialFiles <- LookAlikes
SPECIFICATION FairSpec
INVARIANT RetryLimit
PROPERTY DoneMeansVerified
PROPERTY RunsEnd
PROPERTY FailuresThrown
CHECK_DEADLOCK FALSE
