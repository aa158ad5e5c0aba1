CONSTANTS
    None = None
    Corpora <- MCCorpora
    HeldOut <- MCHeldOut
    Graded <- MCGraded
    ReadFrom <- MCReadFrom
    Breached <- MCBreached
    Disclosed <- MCDisclosed
    MaxGenerated = 2
SPECIFICATION Spec
INVARIANTS
    TypeOK
    AcceptedEvidenceIsOfTheFreeze
    WrongVectorsComeFromACrash
    ChainLeavesOneCorpus
