\* A manual and a bulletin that state different voltages for one rail.
CONSTANTS
    None = None
    q1 = q1
    q2 = q2
    q3 = q3
    v1 = v1
    v2 = v2
    tighten = tighten
    drive = drive
    hub = hub
    Questions <- MCQuestions
    AskedAs <- MCAskedAs
    RetrievedFor <- RailRetrievedFor
    Supports <- MCSupports
    FamilyDocuments <- MCFamilyDocuments
    Shipped <- MCShipped
    Sweep <- MCSweep
    ForcedLimit = 2
    RetrievalK = 2
    Languages <- MCLanguages
SPECIFICATION Spec
INVARIANT NoAnswerOverContradiction
CHECK_DEADLOCK FALSE
