\* The code keeps 3 sentences, 480 characters and at least 50 of every stage; here each cuts.
SPECIFICATION Spec
CONSTANTS
    MaxQuoteSentences = 2
    MaxQuoteChars = 6
    StageDepth = 2
    TopK = 2
    MaxCandidates = 3
    ShareScale = 2
    FusionScale <- MCFusionScale
    Idf <- MCIdf
    Distances = {0, 1}
    Passages <- MCPassages
    Questions <- MCQuestions
    DocumentText <- MCDocumentText
INVARIANTS
    TypeOK
    TwoRunsAgree
    StagesDecideTheOrder
    AnswerIsItsQuotes
CHECK_DEADLOCK FALSE
