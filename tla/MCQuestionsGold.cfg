\* The same corpora: the passage an answerable question was written from can be retrieved.
CONSTANTS
    None = None
    torque = torque
    filter = filter
    omitted = omitted
    Topics <- MCTopics
    PartTopics <- MCPartTopics
    FirstPart <- MCFirstPart
    Figures <- MCFigures
    Launch = 1000
    MinRevisions = 4
    MaxRevisions = 4
    RevisionGaps <- MCRevisionGaps
    BulletinDelays <- MCBulletinDelays
    DiscoveryDelays <- MCDiscoveryDelays
    SerialWindow <- MCSerialWindow
    OmittedTopic = omitted
SPECIFICATION QuestionsSpec
INVARIANT GoldIsVisible
CHECK_DEADLOCK FALSE
