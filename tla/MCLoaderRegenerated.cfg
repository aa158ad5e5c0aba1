\* The copies a chunk keeps of its document's columns, after a smaller corpus is loaded over a larger.
CONSTANTS
    s1 = s1
    probe = probe
    a = a
    b = b
    x = x
    y = y
    m1 = m1
    Seeders <- MCSeeders
    Probe = probe
    Docs <- MCDocs
    Chunks <- MCChunks
    DocOf <- MCDocOf
    Images <- MCImages
    CorpusDocs <- MCCorpusDocs
    CorpusChunks <- MCCorpusChunks
    TextOf <- MCTextOf
    MetaOf <- MCMetaOf
    ModelOf <- MCModelOf
    ImageOf <- MCImageOf
    SkipIfPopulated = {}
    SampleSize = 1
    MaxRestarts = 0
SPECIFICATION Spec
INVARIANT ChunksAgreeWithDocuments
CHECK_DEADLOCK FALSE
