\* Five questions over two corpora of up to four rows; the three best of the pool are kept.
CONSTANTS
    None = None
    en = en
    m1 = m1
    m2 = m2
    part = part
    torque = torque
    bolt = bolt
    Queries <- MCQueries
    Corpora <- MCCorpora
    Shipped <- MCShipped
    TopK = 3
SPECIFICATION Spec
INVARIANTS
    TypeOK
    ShownPassagesApply
    AnswersAreCorroborated
    TornOnlyByACommit
PROPERTIES
    EveryQuestionGetsAReply
    KeepsPromise
CHECK_DEADLOCK FALSE
