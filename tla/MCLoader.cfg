\* Two images seeding at once, one restart each, and a probe over the three lowest chunks.
CONSTANTS
    s1 = s1
    s2 = s2
    probe = probe
    a = a
    b = b
    b2 = b2
    x = x
    y = y
    m0 = m0
    m1 = m1
    Seeders <- MCSeeders
    Probe = probe
    Docs <- MCDocs
    Chunks <- MCChunks
    DocOf <- MCDocOf
    Images <- MCImages
    CorpusDocs <- MCCorpusDocs
    CorpusChunks <- MCCorpusChunks
    TextOf <- MCTextOf
    MetaOf <- MCMetaOf
    ModelOf <- MCModelOf
    ImageOf <- MCImageOf
    SkipIfPopulated <- MCSkipIfPopulated
    SampleSize = 3
    MaxRestarts = 1
SPECIFICATION FairSpec
INVARIANTS
    TypeOK
    VectorDescribesText
    LastLoadIsWhole
    DecisionStillHolds
    NothingReembeddedTwice
    SeedersNeverDeadlock
    EndedSeedLeavesAnIndex
PROPERTIES
    OnlyCommitsChangeTables
    EveryTransactionEnds
CHECK_DEADLOCK FALSE
