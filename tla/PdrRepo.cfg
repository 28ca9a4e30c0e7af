\* Of the repository, up to three records with three handles, two entities and
\* associations of one and, one at a time, of two of them, and this terminus and one
\* other, which add different types of records.  Of the tree, two types of entities,
\* three numbers and container IDs, of which another terminus uses two, and
\* conversions that run out of handles.
CONSTANTS
    Ids = {1}
    Entities = {e1, e2}
    Unknown = Unknown
    TerminusHandles = {1, 2}
    Own = 1
    AddedTypes <- MCAddedTypes
    NullTypes = {"STATE_SENSOR"}
    UINT32_MAX = 3
    UINT16 = 3
    UINT8_MAX = 2
    MaxRecords = 3
    MaxExtended = 1
    EntityTypes = {1, 2}
    RemoteContainers = {1, 2}
    LastNumber = 3
    LastHandle = 6
    LastHandles = {2}
    StartHandles = {0, 4}
    MaxNodes = 4
    MaxForeign = 3
    MaxBuilt = 6
SPECIFICATION PdrSpec
SYMMETRY Symmetry
INVARIANTS HeadersAgree TreeIntact EntitiesFound TreeWritten
PROPERTIES TotalsMatch ChildrenKnown HandlesKeepRecords
