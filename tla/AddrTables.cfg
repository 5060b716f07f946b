CONSTANTS
    p = p
    q = q
    Service <- MCService
    NetAddr <- MCNetAddr
    Source <- MCSource
    IpOf <- MCIpOf
    Routable <- MCRoutable
    NewBuckets = 2
    TriedBuckets = 1
    GetNewBucket <- MCNewBucket
    GetTriedBucket <- MCTriedBucket
    ADDRMAN_NEW_BUCKET_SIZE = 1
    ADDRMAN_TRIED_BUCKET_SIZE = 1
    ADDRMAN_NEW_BUCKETS_PER_ADDRESS = 2
    ADDRMAN_GETADDR_MAX = 2
    ADDRMAN_GETADDR_MAX_PCT = 75
    MaxId = 3
    DumpAt <- MCDumpAt
SYMMETRY Interchangeable
SPECIFICATION Spec
INVARIANTS
    Consistent
    BucketLimits
    ReloadFaithful
PROPERTY
    ForgetsOnlyToMakeRoom
