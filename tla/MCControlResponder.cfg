\* Two slots for three types; two endpoints and two termini beside the one that
\* means none; a socket whose buffer holds error responses only, with a limit above
\* and one below the other answers, that on commands being beyond INT_MAX.
SPECIFICATION Spec
CONSTANTS
    PLDM_CONTROL_MAX_VERSION_TYPES = 2
    Types = {0, 5, 63}
    Registrations <- MCRegistrations
    Requests <- MCRequests
    INT_MAX = 20
    SOCK_MIN_SNDBUF = 4
    EIDs = {8, 9}
    TIDs = {0, 1, 2}
    InitialSndbuf = 9
    WmemMaxes = {8, 16}
    RespLens = {4, 40}
    Capacity = 1
INVARIANTS
    TableIsRegistry
PROPERTY
    AnswerReachesAsker
