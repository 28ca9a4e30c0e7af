\* Two contexts and three instance IDs of one terminus: enough for both to hold one
\* and to meet over the third; prev, which alloc does not try, is one of them.
SPECIFICATION FairSpec
CONSTANTS
    Contexts = {c1, c2}
    TIDs = {1}
    PLDM_INST_ID_MAX = 3
    NoTID = NoTID
INVARIANTS
    LocksMatch
    UndisturbedAllocFindsFree
PROPERTIES
    ImplementsAllocator
    AllocReturns
