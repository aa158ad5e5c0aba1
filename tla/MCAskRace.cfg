\* The same questions and corpora: the race between two SELECTs, over corpora of up to four rows; the three best of the pool are kept.
CONSTANTS
    None = None
    en = en
    m1 = m1
    m2 = m2
    part = part
    torque = torque
    bolt = bolt
    Queries <- MCQueries
    Corpora <- MCCorpora
    Shipped <- MCShipped
    TopK = 3
SPECIFICATION Spec
INVARIANT FusedWithinCandidates
CHECK_DEADLOCK FALSE
