\* Every result of up to three passages for the first question, two for the second, one for the third; four thresholds.
CONSTANTS
    None = None
    q1 = q1
    q2 = q2
    q3 = q3
    v1 = v1
    v2 = v2
    tighten = tighten
    drive = drive
    hub = hub
    Questions <- MCQuestions
    AskedAs <- MCAskedAs
    RetrievedFor <- MCRetrievedFor
    Supports <- MCSupports
    FamilyDocuments <- MCFamilyDocuments
    Shipped <- MCShipped
    Sweep <- MCSweep
    ForcedLimit = 2
    RetrievalK = 2
    Languages <- MCLanguages
SPECIFICATION Spec
INVARIANTS
    TypeOK
    CurveIsTheGate
    CoverageNonIncreasing
    CounterfactualEvidence
    NoPointAnswersOutOfForce
    PublishedFiguresAgree
CHECK_DEADLOCK FALSE
