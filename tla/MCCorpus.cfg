\* Four revisions of a manual with two topics, and every question asked of it.
CONSTANTS
    None = None
    torque = torque
    filter = filter
    omitted = omitted
    Topics <- MCTopics
    PartTopics <- MCPartTopics
    FirstPart <- MCFirstPart
    Figures <- MCFigures
    Launch = 1000
    MinRevisions = 4
    MaxRevisions = 4
    RevisionGaps <- MCRevisionGaps
    BulletinDelays <- MCBulletinDelays
    DiscoveryDelays <- MCDiscoveryDelays
    SerialWindow <- MCSerialWindow
    OmittedTopic = omitted
SPECIFICATION QuestionsSpec
INVARIANTS
    TypeOK
    OneManualBelieved
    CorrectionKeepsHistory
    ConflictOnlyWherePlanted
    SeedsTellTheTruth
    PlantedBreachesAreCaught
CHECK_DEADLOCK FALSE
