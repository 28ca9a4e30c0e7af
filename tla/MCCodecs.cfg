\* Buffers that are right and that miss their size by up to two bytes; messages
\* cut anywhere, and with up to two bytes more; nothing here comes near the
\* largest intmax_t, which is Msgbuf's matter.
\* Packages with room for two records and a component, whose lengths are right,
\* too small and too large.  Tables of two or three entries, whose lengths leave
\* every remainder by four; records and fields down to the smallest; names of one
\* and two bytes a character, or not names at all.
SPECIFICATION CodecsSpec
CONSTANTS
    INTMAX_MAX = 100000
    SLACK = 2
    SIZE_T_MAX = 99999
    PackageLengths = {35, 111, 120}
    HeaderSizes = {42, 112}
    BitmapLengths = {7, 8}
    StringLengths = {0, 1}
    RecordLengths = {10, 12, 22}
    DataLengths = {0, 1}
    ManifestLengths = {0, 2}
    Counts = {0, 1, 2}
    ImageOffsets = {112, 120}
    ImageSizes = {0, 8, 9}
    UINT16_MAX = 2
    Capacities = {24, 60}
    MaxEntries = 2
    Texts = {"a", "b"}
    TextLengths = {0, 1, 2, 4}
    EnumCounts = {0, 1}
    AttrStringLengths = {0, 1}
    Bounds = {0, 2}
    Integers64 = {0, 2}
    NameHandles = {0, 1}
    RecordSets = {1, 2}
    RecordTypes = {1, 254}
    FieldTypes = {1, 2}
    FieldLengths = {0, 1}
    TotalSize = 17
    MaxFields = 2
    MaxNameBytes = 11
    MaxNames = 3
    Slack = 1
INVARIANTS
    CodecsStayInBounds
    RoundTrip
    OnlySentValues
    PartsInPlace
    EntriesAsAnnounced
    BiosTablesRead
    FruSelected
    AuxNamesKept
