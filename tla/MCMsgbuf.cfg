\* Messages of two and of four bytes, memory for two, a largest intmax_t of 4 and
\* accesses of nothing, of two bytes and of more than intmax_t can hold: a few
\* refused accesses take a count to the end of its range.
SPECIFICATION BufSpec
CONSTANTS
    INTMAX_MAX = 4
    Sources <- MCSources
    SinkSizes = {2}
    Sizes = {0, 2, 5}
INVARIANTS
    BufferBounds
    CompletionTells
    FirstTerminator
