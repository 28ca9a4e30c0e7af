-------------------------------- MODULE Msgbuf --------------------------------
(***************************************************************************)
(* The message buffers of src/src/msgbuf/core.h: a decoder's, over the     *)
(* bytes of a message, an encoder's, over memory for one, and what moves   *)
(* bytes from the one to the other.  The functions may be called in any    *)
(* order and their results ignored, as the codecs do until they complete   *)
(* the buffer.  Every access is by its size; of the bytes only the NULs    *)
(* are told apart, which end strings.                                      *)
(***************************************************************************)
EXTENDS MsgbufOps, Sequences

CONSTANTS Sources,            \* the messages, sequences of bytes
          SinkSizes,          \* the sizes of the memory for messages
          Sizes               \* the sizes of arrays, spans, skips and trailers
ASSUME SourcesAssumption == \A s \in Sources : s \in Seq(Nat)
ASSUME SinkAssumption == SinkSizes \subseteq Nat
ASSUME SizesAssumption == Sizes \subseteq Nat

VARIABLES src,     \* the message under the decoder's buffer
          ro,      \* the decoder's buffer
          sink,    \* the size of the memory under the encoder's buffer
          rw,      \* the encoder's buffer
          field,   \* a struct variable_field
          call,    \* the last call: its name, its result and its span
          refused, \* history: the buffers an access of which went beyond
          torn     \* history: the buffers whose count a copy has changed alone

bufvars == <<src, ro, sink, rw, field, call, refused, torn>>

NUL == 0
Unused == Ctx(NULL, INTMAX_MIN)

\* What the caller of a function sees: the bytes from at on, if any.
Called(fn, rc, at, len) == [fn |-> fn, rc |-> rc, at |-> at, len |-> len]
Idle == Called("", "OK", 0, 0)

(***************************************************************************)
(* The functions.                                                          *)
(***************************************************************************)
pldm__msgbuf_extract_uint8(ctx) == Access(ctx, 1)
pldm__msgbuf_extract_int8(ctx) == Access(ctx, 1)
pldm__msgbuf_extract_uint16(ctx) == Access(ctx, 2)
pldm__msgbuf_extract_int16(ctx) == Access(ctx, 2)
pldm__msgbuf_extract_uint32(ctx) == Access(ctx, 4)
pldm__msgbuf_extract_int32(ctx) == Access(ctx, 4)
pldm__msgbuf_extract_real32(ctx) == Access(ctx, 4)
pldm__msgbuf_extract_uint8_to_size(ctx) == pldm__msgbuf_extract_uint8(ctx)
pldm__msgbuf_extract_uint16_to_size(ctx) == pldm__msgbuf_extract_uint16(ctx)
pldm__msgbuf_extract_uint32_to_size(ctx) == pldm__msgbuf_extract_uint32(ctx)

Extracted(ctx) ==
    {pldm__msgbuf_extract_uint8(ctx), pldm__msgbuf_extract_int8(ctx),
     pldm__msgbuf_extract_uint16(ctx), pldm__msgbuf_extract_int16(ctx),
     pldm__msgbuf_extract_uint32(ctx), pldm__msgbuf_extract_int32(ctx),
     pldm__msgbuf_extract_real32(ctx),
     pldm__msgbuf_extract_uint8_to_size(ctx),
     pldm__msgbuf_extract_uint16_to_size(ctx),
     pldm__msgbuf_extract_uint32_to_size(ctx)}

pldm_msgbuf_insert_uint64(ctx) == Access(ctx, 8)
pldm_msgbuf_insert_real32(ctx) == Access(ctx, 4)
pldm_msgbuf_insert_uint32(ctx) == Access(ctx, 4)
pldm_msgbuf_insert_uint16(ctx) == Access(ctx, 2)
pldm_msgbuf_insert_uint8(ctx) == Access(ctx, 1)
pldm_msgbuf_insert_int32(ctx) == Access(ctx, 4)
pldm_msgbuf_insert_int16(ctx) == Access(ctx, 2)
pldm_msgbuf_insert_int8(ctx) == Access(ctx, 1)

Inserted(ctx) ==
    {pldm_msgbuf_insert_uint64(ctx), pldm_msgbuf_insert_real32(ctx),
     pldm_msgbuf_insert_uint32(ctx), pldm_msgbuf_insert_uint16(ctx),
     pldm_msgbuf_insert_uint8(ctx), pldm_msgbuf_insert_int32(ctx),
     pldm_msgbuf_insert_int16(ctx), pldm_msgbuf_insert_int8(ctx)}

\* An access of as many bytes as the caller says.
Sized(ctx, n) == IF n > INTMAX_MAX THEN SetInvalid(ctx) ELSE Access(ctx, n)

\* Nothing is done for an empty array, not even in a buffer that overflowed.
pldm__msgbuf_extract_array_void(ctx, n) ==
    IF n = 0 THEN ctx ELSE Sized(ctx, n)
pldm__msgbuf_insert_array_void(ctx, n) ==
    IF n = 0 THEN ctx ELSE Sized(ctx, n)

pldm__msgbuf_span_required(ctx, n) == Sized(ctx, n)
pldm_msgbuf_skip(ctx, n) == Sized(ctx, n)

pldm__msgbuf_span_until(ctx, n) ==
    IF n > INTMAX_MAX THEN SetInvalid(ctx) ELSE SpanUntil(ctx, n)

\* strnlen() of the bytes at the cursor, in the count that remains; it is not
\* called when the buffer has overflowed.
Strnlen(s, ctx) ==
    LET Ends == {k \in 0..(ctx.remaining - 1) : s[ctx.cursor + k + 1] = NUL}
    IN CASE ctx.remaining < 0 -> 0
         [] ctx.remaining >= 0 /\ Ends = {} -> ctx.remaining
         [] OTHER -> CHOOSE k \in Ends : \A j \in Ends : k <= j

pldm__msgbuf_span_string_ascii(ctx, measured) ==
    IF ctx.remaining < 0 \/ measured = ctx.remaining
    THEN SetInvalid(ctx)
    ELSE Access(ctx, measured + 1)

\* Where memmem() finds two NULs from the byte at offset k on; -1 for nowhere.
Memmem(s, ctx, k) ==
    LET At == {j \in k..(ctx.remaining - 2) :
                  s[ctx.cursor + j + 1] = NUL /\ s[ctx.cursor + j + 2] = NUL}
    IN IF At = {} THEN -1 ELSE CHOOSE j \in At : \A i \in At : j <= i

\* A mutant: the first two NULs, wherever they are.
CodePoint_AnyOffset(s, ctx) == Memmem(s, ctx, 0)

\* The loop that looks for a NUL code point: a match at an odd offset is not
\* one, and the search goes on at the byte after it.
CodePoint(s, ctx) ==
    LET Scan[k \in 0..(Len(s) + 1)] ==
            LET end == Memmem(s, ctx, k)
            IN IF end = -1 \/ end % 2 = 0 THEN end ELSE Scan[end + 1]
    IN Scan[0]

pldm__msgbuf_span_string_utf16(ctx, end) ==
    IF ctx.remaining < 0 \/ end = -1
    THEN SetInvalid(ctx)
    ELSE Access(ctx, end + 2)

\* A mutant: a copy that fails leaves no trace in the buffers.
Copied_Forgets(ctx, n, both) ==
    IF both THEN Ctx(ctx.cursor + n, ctx.remaining - n) ELSE ctx

\* pldm__msgbuf_copy: each of the buffers counts the bytes, and their cursors
\* move only if both have them.
Copied(ctx, n, both) ==
    CASE both -> Ctx(ctx.cursor + n, ctx.remaining - n)
      [] ~both /\ n <= INTMAX_MAX /\ ctx.remaining > INTMAX_MIN + n ->
             Ctx(ctx.cursor, ctx.remaining - n)
      [] OTHER -> SetInvalid(ctx)

pldm__msgbuf_field_begin(ctx) ==
    IF ctx.remaining >= 0 THEN [ptr |-> ctx.cursor, length |-> ctx.remaining]
                          ELSE NoField

\* The result of pldm__msgbuf_field_end, which stores the length on success.
pldm__msgbuf_field_end(ctx, f) ==
    CASE f.ptr = NULL -> "EINVAL"
      [] f.ptr # NULL /\ ctx.remaining < 0 -> "EOVERFLOW"
      [] OTHER -> IF f.length < ctx.remaining \/
                     f.ptr + (f.length - ctx.remaining) # ctx.cursor
                  THEN "EINVAL" ELSE "OK"

(***************************************************************************)
(* The calls.                                                              *)
(***************************************************************************)
\* An access has failed if the buffer has overflowed after it; an empty array
\* never fails.
Result(ctx) == IF ctx.remaining < 0 THEN "EOVERFLOW" ELSE "OK"
ArrayResult(ctx, n) == IF n = 0 THEN "OK" ELSE Result(ctx)

OnRo(fn, ctx, rc) ==
    /\ ro.cursor # NULL
    /\ ro' = ctx
    /\ call' = Called(fn, rc, ro.cursor, ctx.cursor - ro.cursor)
    /\ refused' = IF rc # "OK" THEN refused \cup {"ro"} ELSE refused
    /\ UNCHANGED <<src, sink, rw, field, torn>>

OnRw(fn, ctx, rc) ==
    /\ rw.cursor # NULL
    /\ rw' = ctx
    /\ call' = Called(fn, rc, rw.cursor, ctx.cursor - rw.cursor)
    /\ refused' = IF rc # "OK" THEN refused \cup {"rw"} ELSE refused
    /\ UNCHANGED <<src, ro, sink, field, torn>>

pldm_msgbuf_ro_init_errno(s, minsize) ==
    /\ ro.cursor = NULL
    /\ src' = s
    /\ ro' = InitErrno(minsize, Len(s))
    /\ field' = NoField
    /\ call' = Called("init", Result(ro'), 0, 0)
    /\ refused' = refused \ {"ro"} /\ torn' = torn \ {"ro"}
    /\ UNCHANGED <<sink, rw>>

pldm_msgbuf_rw_init_errno(n, minsize) ==
    /\ rw.cursor = NULL
    /\ sink' = n
    /\ rw' = InitErrno(minsize, n)
    /\ call' = Called("init", Result(rw'), 0, 0)
    /\ refused' = refused \ {"rw"} /\ torn' = torn \ {"rw"}
    /\ UNCHANGED <<src, ro, field>>

Extract == \E ctx \in Extracted(ro) : OnRo("extract", ctx, Result(ctx))
Insert == \E ctx \in Inserted(rw) : OnRw("insert", ctx, Result(ctx))

ExtractArray(n) ==
    LET ctx == pldm__msgbuf_extract_array_void(ro, n)
    IN OnRo("extract_array", ctx, ArrayResult(ctx, n))
InsertArray(n) ==
    LET ctx == pldm__msgbuf_insert_array_void(rw, n)
    IN OnRw("insert_array", ctx, ArrayResult(ctx, n))

\* An array that is larger than the caller's is refused untouched.
ArrayTooLarge ==
    /\ ro.cursor # NULL \/ rw.cursor # NULL
    /\ call' = Called("array", "EINVAL", 0, 0)
    /\ UNCHANGED <<src, ro, sink, rw, field, refused, torn>>

Span(fn, ctx) == OnRo(fn, ctx, Result(ctx))
SpanRequired(n) == Span("span_required", pldm__msgbuf_span_required(ro, n))
SpanUntilTrailer(n) == Span("span_until", pldm__msgbuf_span_until(ro, n))
SpanRest == Span("span_remaining", SpanRemaining(ro))

\* The buffer after a string is spanned.
AfterAscii == {pldm__msgbuf_span_string_ascii(ro, n) :
                  n \in {n \in 0..Len(src) : n = Strnlen(src, ro)}}
AfterUtf16 == {pldm__msgbuf_span_string_utf16(ro, n) :
                  n \in {n \in -1..Len(src) : n = CodePoint(src, ro)}}

SpanStringAscii == \E ctx \in AfterAscii : Span("ascii", ctx)
SpanStringUtf16 == \E ctx \in AfterUtf16 : Span("utf16", ctx)

Skip(n) ==
    LET ctx == pldm_msgbuf_skip(rw, n) IN OnRw("skip", ctx, Result(ctx))

Copy(n) ==
    LET both == Fits(ro, n) /\ Fits(rw, n)
    IN /\ ro.cursor # NULL /\ rw.cursor # NULL
       /\ ro' = Copied(ro, n, both)
       /\ rw' = Copied(rw, n, both)
       /\ call' = Called("copy", IF both THEN "OK" ELSE "EOVERFLOW",
                         ro.cursor, IF both THEN n ELSE 0)
       /\ refused' = refused \cup {b \in {"ro", "rw"} :
                         IF b = "ro" THEN ~Fits(ro, n) ELSE ~Fits(rw, n)}
       /\ torn' = IF both THEN torn ELSE {"ro", "rw"}
       /\ UNCHANGED <<src, sink, field>>

\* pldm_msgbuf_copy_string_ascii and _utf16: the string is found first, and
\* inserted if it was.
CopyString(ctx) ==
    /\ ro.cursor # NULL /\ rw.cursor # NULL
    /\ ro' = ctx
    /\ rw' = IF ctx.remaining < 0 THEN rw
             ELSE pldm__msgbuf_insert_array_void(rw, ctx.cursor - ro.cursor)
    /\ call' = Called("copy_string",
                      IF ctx.remaining < 0 THEN "EOVERFLOW" ELSE Result(rw'),
                      ro.cursor, ctx.cursor - ro.cursor)
    /\ refused' = refused \cup {b \in {"ro", "rw"} :
                      IF b = "ro" THEN ctx.remaining < 0
                      ELSE ctx.remaining >= 0 /\ rw'.remaining < 0}
    /\ UNCHANGED <<src, sink, field, torn>>

pldm_msgbuf_copy_string_ascii ==
    \E ctx \in AfterAscii : CopyString(ctx)
pldm_msgbuf_copy_string_utf16 ==
    \E ctx \in AfterUtf16 : CopyString(ctx)

FieldBegin ==
    /\ ro.cursor # NULL
    /\ field' = pldm__msgbuf_field_begin(ro)
    /\ call' = Called("field_begin", Result(ro), 0, 0)
    /\ UNCHANGED <<src, ro, sink, rw, refused, torn>>

FieldEnd ==
    /\ ro.cursor # NULL
    /\ LET rc == pldm__msgbuf_field_end(ro, field)
       IN /\ call' = Called("field_end", rc, 0, 0)
          /\ field' = IF rc = "OK" THEN [field EXCEPT !.length = @ - ro.remaining]
                                   ELSE field
    /\ UNCHANGED <<src, ro, sink, rw, refused, torn>>

pldm_msgbuf_ro_complete ==
    /\ ro.cursor # NULL
    /\ call' = Called("ro_complete", Validate(ro), ro.cursor, 0)
    /\ ro' = Unused
    /\ UNCHANGED <<src, sink, rw, field, refused, torn>>

pldm_msgbuf_ro_complete_consumed ==
    /\ ro.cursor # NULL
    /\ call' = Called("ro_complete_consumed", Consumed(ro), ro.cursor, 0)
    /\ ro' = Unused
    /\ UNCHANGED <<src, sink, rw, field, refused, torn>>

pldm_msgbuf_rw_complete ==
    /\ rw.cursor # NULL
    /\ call' = Called("rw_complete", Validate(rw), rw.cursor, 0)
    /\ rw' = Unused
    /\ UNCHANGED <<src, ro, sink, field, refused, torn>>

pldm_msgbuf_rw_complete_consumed ==
    /\ rw.cursor # NULL
    /\ call' = Called("rw_complete_consumed", Consumed(rw), rw.cursor, 0)
    /\ rw' = Unused
    /\ UNCHANGED <<src, ro, sink, field, refused, torn>>

\* A codec that has met an error of its own gives the buffer up.
pldm_msgbuf_ro_discard(error) ==
    /\ ro.cursor # NULL
    /\ call' = Called("ro_discard", error, ro.cursor, 0)
    /\ ro' = Unused
    /\ UNCHANGED <<src, sink, rw, field, refused, torn>>

pldm_msgbuf_rw_discard(error) ==
    /\ rw.cursor # NULL
    /\ call' = Called("rw_discard", error, rw.cursor, 0)
    /\ rw' = Unused
    /\ UNCHANGED <<src, ro, sink, field, refused, torn>>

\* The length in the call is the value of *ret_used_len.  Every caller passes
\* the length it has initialised the buffer with.
pldm_msgbuf_complete_used(orig_len) ==
    /\ rw.cursor # NULL
    /\ call' = IF rw.remaining < 0 \/ rw.remaining > orig_len
               THEN Called("rw_complete_used", "EOVERFLOW", rw.cursor, 0)
               ELSE Called("rw_complete_used", "OK", rw.cursor,
                           orig_len - rw.remaining)
    /\ rw' = Unused
    /\ UNCHANGED <<src, ro, sink, field, refused, torn>>

BufInit ==
    /\ src = << >> /\ ro = Unused
    /\ sink = 0 /\ rw = Unused
    /\ field = NoField
    /\ call = Idle
    /\ refused = {} /\ torn = {}

BufNext ==
    \/ \E s \in Sources, n \in Sizes : pldm_msgbuf_ro_init_errno(s, n)
    \/ \E m \in SinkSizes, n \in Sizes : pldm_msgbuf_rw_init_errno(m, n)
    \/ Extract
    \/ Insert
    \/ \E n \in Sizes :
          \/ ExtractArray(n) \/ InsertArray(n) \/ SpanRequired(n)
          \/ Skip(n) \/ SpanUntilTrailer(n) \/ Copy(n)
    \/ ArrayTooLarge
    \/ SpanRest
    \/ SpanStringAscii
    \/ SpanStringUtf16
    \/ pldm_msgbuf_copy_string_ascii
    \/ pldm_msgbuf_copy_string_utf16
    \/ FieldBegin
    \/ FieldEnd
    \/ pldm_msgbuf_ro_complete
    \/ pldm_msgbuf_ro_complete_consumed
    \/ pldm_msgbuf_rw_complete
    \/ pldm_msgbuf_rw_complete_consumed
    \/ pldm_msgbuf_ro_discard("EPROTO")
    \/ pldm_msgbuf_rw_discard("EPROTO")
    \/ pldm_msgbuf_complete_used(sink)

BufSpec == BufInit /\ [][BufNext]_bufvars

(***************************************************************************)
(* Properties.                                                             *)
(***************************************************************************)
\* The cursors stay in their buffers and the counts within intmax_t; a buffer
\* that is completed is as pldm__msgbuf_cleanup asserts it.
BufTypeOK ==
    /\ ro.cursor \in 0..Len(src) \cup {NULL}
    /\ rw.cursor \in 0..sink \cup {NULL}
    /\ ro.remaining \in INTMAX_MIN..INTMAX_MAX
    /\ rw.remaining \in INTMAX_MIN..INTMAX_MAX
    /\ ro.cursor = NULL => ro.remaining = INTMAX_MIN
    /\ rw.cursor = NULL => rw.remaining = INTMAX_MIN
    /\ refused \subseteq {"ro", "rw"} /\ torn \subseteq {"ro", "rw"}

\* The bytes that are left by the count are those from the cursor to the end
\* of the buffer, and after a copy that failed they are at least inside it:
\* no access that the count allows is out of bounds, and no count overflows.
BufferBounds ==
    /\ BufTypeOK
    /\ ro.remaining >= 0 => /\ ro.cursor + ro.remaining <= Len(src)
                            /\ "ro" \notin torn =>
                                   ro.cursor + ro.remaining = Len(src)
    /\ rw.remaining >= 0 => /\ rw.cursor + rw.remaining <= sink
                            /\ "rw" \notin torn =>
                                   rw.cursor + rw.remaining = sink

\* pldm_msgbuf_complete succeeds if and only if no access since the buffer was
\* initialised was refused, whatever came after the one that was.
CompleteIsTruthful ==
    /\ call.fn = "ro_complete" => (call.rc = "OK" <=> "ro" \notin refused)
    /\ call.fn = "rw_complete" => (call.rc = "OK" <=> "rw" \notin refused)

\* pldm_msgbuf_complete_consumed succeeds only at the end of the buffer, and
\* pldm_msgbuf_complete_used reports the bytes up to the cursor, unless a copy
\* has failed before.
CompleteCounts ==
    /\ call.fn = "ro_complete_consumed" /\ call.rc = "OK" /\ "ro" \notin torn =>
           call.at = Len(src)
    /\ call.fn = "rw_complete_consumed" /\ call.rc = "OK" /\ "rw" \notin torn =>
           call.at = sink
    /\ call.fn = "rw_complete_used" /\ call.rc = "OK" /\ "rw" \notin torn =>
           call.len = call.at

\* A string that is found ends with the first terminator there is, a code
\* point of NUL being one only where a code point of the string begins.
FirstTerminator ==
    /\ call.fn = "ascii" /\ call.rc = "OK" =>
           {k \in 1..call.len : src[call.at + k] = NUL} = {call.len}
    /\ call.fn = "utf16" /\ call.rc = "OK" =>
           /\ call.len % 2 = 0
           /\ {k \in 1..(call.len \div 2) :
                  src[call.at + 2 * k - 1] = NUL /\ src[call.at + 2 * k] = NUL}
              = {call.len \div 2}

\* A field that is ended without an error is what was read since it was begun.
FieldIsWhatWasRead ==
    call.fn = "field_end" /\ call.rc = "OK" =>
        field.ptr + field.length = ro.cursor

\* What the calls that complete a buffer or end a field report is so: whether an
\* access was refused, how many bytes were passed, and which the field has. The
\* codecs rely on it, for they ignore the results of most accesses.
CompletionTells == CompleteIsTruthful /\ CompleteCounts /\ FieldIsWhatWasRead

=============================================================================
