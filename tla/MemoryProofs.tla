----------------------------- MODULE MemoryProofs -----------------------------
(***************************************************************************)
(* Proofs about what the library reads and writes in the caller's memory:  *)
(* the message buffers of Msgbuf and the tables of BiosTables.             *)
(*                                                                         *)
(* The message buffers keep their bounds and complete truthfully: for any  *)
(* messages, any memory, accesses of any sizes in any order, and any       *)
(* largest intmax_t.  The invariant adds to BufferBounds that a buffer     *)
(* counts below zero exactly if an access was refused since it was         *)
(* initialised, which is what pldm_msgbuf_complete relies on.  A string    *)
(* that is spanned ends at its first terminator.                           *)
(*                                                                         *)
(* A BIOS table of any size is read as it was written.  The invariant says *)
(* where each entry begins; the rest is what the loops of bios_table.c     *)
(* compute from bytes that are laid out so.                                *)
(***************************************************************************)
EXTENDS Msgbuf, BiosTables, Induction, TLAPS

Context == [cursor : Int, remaining : INTMAX_MIN..INTMAX_MAX]

\* The buffer named b, over n bytes: where it is, and that its count tells
\* whether an access was refused; T are the buffers torn, R those refused.
Sound(b, ctx, n, T, R) ==
    /\ ctx \in Context
    /\ ctx.cursor \in 0..n \cup {NULL}
    /\ ctx.cursor = NULL => ctx.remaining = INTMAX_MIN
    /\ ctx.remaining >= 0 => ctx.cursor + ctx.remaining <= n
    /\ ctx.remaining >= 0 /\ b \notin T => ctx.cursor + ctx.remaining = n
    /\ ctx.cursor # NULL => (b \in R <=> ctx.remaining < 0)

\* What an access does to a buffer in use: its bytes are passed, or it is
\* marked as overflowed where it is.
Moves(old, new) ==
    /\ new \in Context
    /\ \/ /\ old.remaining >= 0 /\ new.remaining >= 0
          /\ new.cursor >= old.cursor
          /\ new.cursor + new.remaining = old.cursor + old.remaining
       \/ new.remaining < 0 /\ new.cursor = old.cursor

Inv ==
    /\ src \in Seq(Nat) /\ sink \in Nat
    /\ refused \subseteq {"ro", "rw"} /\ torn \subseteq {"ro", "rw"}
    /\ field \in [ptr : Int, length : Int]
    /\ Sound("ro", ro, Len(src), torn, refused)
    /\ Sound("rw", rw, sink, torn, refused)
    /\ CompleteIsTruthful
    /\ CompleteCounts
    /\ FieldIsWhatWasRead

\* A record made of a cursor and a count is a buffer.
LEMMA CtxContext ==
    ASSUME NEW c \in Int, NEW r \in INTMAX_MIN..INTMAX_MAX
    PROVE  /\ Ctx(c, r) \in Context
           /\ Ctx(c, r).cursor = c
           /\ Ctx(c, r).remaining = r
BY DEF Ctx, Context

\* pldm__msgbuf_set_invalid leaves the buffer where it is, overflowed.
LEMMA SetInvalidMoves ==
    ASSUME NEW ctx \in Context
    PROVE  /\ Moves(ctx, SetInvalid(ctx))
           /\ SetInvalid(ctx).remaining < 0
           /\ SetInvalid(ctx).cursor = ctx.cursor
BY IntmaxAssumption DEF SetInvalid, Moves, Ctx, Context, INTMAX_MIN

\* Every extraction, insertion, skip and span passes its bytes or marks the
\* buffer, and the count never wraps.
LEMMA AccessMoves ==
    ASSUME NEW ctx \in Context, NEW n \in Nat
    PROVE  Moves(ctx, Access(ctx, n))
<1>1. CASE Fits(ctx, n)
  BY <1>1, IntmaxAssumption
  DEF Access, Fits, Moves, Ctx, Context, INTMAX_MIN
<1>2. CASE ~Fits(ctx, n) /\ ctx.remaining > INTMAX_MIN + n
  BY <1>2, IntmaxAssumption
  DEF Access, Fits, Moves, Ctx, Context, INTMAX_MIN
<1>3. CASE ~Fits(ctx, n) /\ ~(ctx.remaining > INTMAX_MIN + n)
  BY <1>3, SetInvalidMoves DEF Access
<1> QED BY <1>1, <1>2, <1>3

\* An access whose size the caller gives is refused when it is beyond
\* intmax_t.
LEMMA SizedMoves ==
    ASSUME NEW ctx \in Context, NEW n \in Nat
    PROVE  Moves(ctx, Sized(ctx, n))
BY AccessMoves, SetInvalidMoves DEF Sized

\* pldm__msgbuf_span_until either leaves the trailer or marks the buffer.
LEMMA SpanUntilMoves ==
    ASSUME NEW ctx \in Context, NEW n \in Nat
    PROVE  Moves(ctx, pldm__msgbuf_span_until(ctx, n))
<1>1. CASE n > INTMAX_MAX
  BY <1>1, SetInvalidMoves DEF pldm__msgbuf_span_until
<1>2. CASE ~(n > INTMAX_MAX) /\ Fits(ctx, n)
  BY <1>2, IntmaxAssumption
  DEF pldm__msgbuf_span_until, SpanUntil, Fits, Moves, Ctx, Context,
      INTMAX_MIN
<1>3. CASE ~(n > INTMAX_MAX) /\ ~Fits(ctx, n)
  <2>1. CASE ctx.remaining > INTMAX_MIN + n
    BY <1>3, <2>1, IntmaxAssumption
    DEF pldm__msgbuf_span_until, SpanUntil, Fits, Moves, Ctx, Context,
        INTMAX_MIN
  <2>2. CASE ~(ctx.remaining > INTMAX_MIN + n)
    BY <1>3, <2>2, SetInvalidMoves DEF pldm__msgbuf_span_until, SpanUntil
  <2> QED BY <2>1, <2>2
<1> QED BY <1>1, <1>2, <1>3

\* pldm__msgbuf_span_remaining takes everything, or nothing of a buffer that
\* has overflowed.
LEMMA SpanRemainingMoves ==
    ASSUME NEW ctx \in Context
    PROVE  Moves(ctx, SpanRemaining(ctx))
BY IntmaxAssumption DEF SpanRemaining, Moves, Ctx, Context, INTMAX_MIN

\* A buffer that is moved is as sound as it was.
LEMMA MovesSound ==
    ASSUME NEW b, NEW old, NEW new, NEW n \in Nat, NEW T, NEW R, NEW R2,
           old.cursor # NULL,
           Sound(b, old, n, T, R), Moves(old, new),
           b \in R2 <=> (b \in R \/ new.remaining < 0)
    PROVE  Sound(b, new, n, T, R2)
BY IntmaxAssumption DEF Sound, Moves, Context, NULL, INTMAX_MIN


\* The calls that the properties are about: the others establish them.
Judged == {"ro_complete", "rw_complete", "ro_complete_consumed",
           "rw_complete_consumed", "rw_complete_used", "field_end"}

\* A call that is not judged leaves nothing to show of its result.
LEMMA NotJudged ==
    ASSUME NEW fn, fn \notin Judged, call'.fn = fn
    PROVE  CompleteIsTruthful' /\ CompleteCounts' /\ FieldIsWhatWasRead'
BY DEF Judged, CompleteIsTruthful, CompleteCounts, FieldIsWhatWasRead

\* A call that moves the decoder's buffer and reports an error exactly if it
\* leaves it overflowed keeps the invariant.
LEMMA OnRoInv ==
    ASSUME Inv, NEW fn, fn \notin Judged, NEW ctx, NEW rc,
           OnRo(fn, ctx, rc), Moves(ro, ctx),
           rc # "OK" => ctx.remaining < 0,
           rc = "OK" => ctx.remaining >= 0 \/ ctx = ro
    PROVE  Inv'
<1> USE DEF OnRo
<1>1. call'.fn = fn
  BY DEF Called
<1>2. CompleteIsTruthful' /\ CompleteCounts' /\ FieldIsWhatWasRead'
  BY <1>1, NotJudged
<1>3. Len(src) \in Nat
  BY DEF Inv
<1>4. ("ro" \in refused') <=> ("ro" \in refused \/ ctx.remaining < 0)
  <2>1. "ro" \in refused <=> ro.remaining < 0
    BY DEF Inv, Sound
  <2>2. ctx.remaining >= 0 <=> ~(ctx.remaining < 0)
    BY DEF Moves, Context, INTMAX_MIN
  <2>3. CASE rc = "OK"
    BY <2>1, <2>2, <2>3
  <2>4. CASE rc # "OK"
    BY <2>4
  <2> QED BY <2>3, <2>4
<1>5. Sound("ro", ro', Len(src)', torn', refused')
  <2>1. Sound("ro", ctx, Len(src), torn, refused')
    BY <1>3, <1>4, MovesSound DEF Inv
  <2> QED BY <2>1
<1>6. Sound("rw", rw', sink', torn', refused')
  BY DEF Sound, Inv
<1> QED BY <1>2, <1>5, <1>6 DEF Inv

\* The same of the encoder's buffer.
LEMMA OnRwInv ==
    ASSUME Inv, NEW fn, fn \notin Judged, NEW ctx, NEW rc,
           OnRw(fn, ctx, rc), Moves(rw, ctx),
           rc # "OK" => ctx.remaining < 0,
           rc = "OK" => ctx.remaining >= 0 \/ ctx = rw
    PROVE  Inv'
<1> USE DEF OnRw
<1>1. call'.fn = fn
  BY DEF Called
<1>2. CompleteIsTruthful' /\ CompleteCounts' /\ FieldIsWhatWasRead'
  BY <1>1, NotJudged
<1>3. sink \in Nat
  BY DEF Inv
<1>4. ("rw" \in refused') <=> ("rw" \in refused \/ ctx.remaining < 0)
  <2>1. "rw" \in refused <=> rw.remaining < 0
    BY DEF Inv, Sound
  <2>2. ctx.remaining >= 0 <=> ~(ctx.remaining < 0)
    BY DEF Moves, Context, INTMAX_MIN
  <2>3. CASE rc = "OK"
    BY <2>1, <2>2, <2>3
  <2>4. CASE rc # "OK"
    BY <2>4
  <2> QED BY <2>3, <2>4
<1>5. Sound("rw", rw', sink', torn', refused')
  <2>1. Sound("rw", ctx, sink, torn, refused')
    BY <1>3, <1>4, MovesSound DEF Inv
  <2> QED BY <2>1
<1>6. Sound("ro", ro', Len(src)', torn', refused')
  BY DEF Sound, Inv
<1> QED BY <1>2, <1>5, <1>6 DEF Inv

\* The result of an access tells whether the buffer has overflowed.
LEMMA ResultTells ==
    ASSUME NEW ctx, Moves(ctx, ctx) \/ ctx \in Context
    PROVE  /\ Result(ctx) # "OK" => ctx.remaining < 0
           /\ Result(ctx) = "OK" => ctx.remaining >= 0
BY IntmaxAssumption DEF Result, Context, Moves, INTMAX_MIN

\* A buffer in use, or not, is one.
LEMMA InvContext == Inv => ro \in Context /\ rw \in Context
BY DEF Inv, Sound

\* Extractions of numbers.
LEMMA ExtractInv == Inv /\ Extract => Inv'
<1> SUFFICES ASSUME Inv, NEW ctx \in Extracted(ro),
                    OnRo("extract", ctx, Result(ctx))
             PROVE  Inv'
  BY DEF Extract
<1>1. ro \in Context
  BY InvContext
<1>2. PICK n \in Nat : ctx = Access(ro, n)
  <2>1. ctx \in {Access(ro, 1), Access(ro, 2), Access(ro, 4)}
    BY DEF Extracted, pldm__msgbuf_extract_uint8, pldm__msgbuf_extract_int8,
       pldm__msgbuf_extract_uint16, pldm__msgbuf_extract_int16,
       pldm__msgbuf_extract_uint32, pldm__msgbuf_extract_int32,
       pldm__msgbuf_extract_real32, pldm__msgbuf_extract_uint8_to_size,
       pldm__msgbuf_extract_uint16_to_size,
       pldm__msgbuf_extract_uint32_to_size
  <2> QED BY <2>1
<1>3. Moves(ro, ctx)
  BY <1>1, <1>2, AccessMoves
<1>4. ctx \in Context
  BY <1>3 DEF Moves
<1> QED BY <1>3, <1>4, ResultTells, OnRoInv DEF Judged

\* Insertions of numbers.
LEMMA InsertInv == Inv /\ Insert => Inv'
<1> SUFFICES ASSUME Inv, NEW ctx \in Inserted(rw),
                    OnRw("insert", ctx, Result(ctx))
             PROVE  Inv'
  BY DEF Insert
<1>1. rw \in Context
  BY InvContext
<1>2. PICK n \in Nat : ctx = Access(rw, n)
  <2>1. ctx \in {Access(rw, 1), Access(rw, 2), Access(rw, 4), Access(rw, 8)}
    BY DEF Inserted, pldm_msgbuf_insert_uint64, pldm_msgbuf_insert_real32,
       pldm_msgbuf_insert_uint32, pldm_msgbuf_insert_uint16,
       pldm_msgbuf_insert_uint8, pldm_msgbuf_insert_int32,
       pldm_msgbuf_insert_int16, pldm_msgbuf_insert_int8
  <2> QED BY <2>1
<1>3. Moves(rw, ctx)
  BY <1>1, <1>2, AccessMoves
<1>4. ctx \in Context
  BY <1>3 DEF Moves
<1> QED BY <1>3, <1>4, ResultTells, OnRwInv DEF Judged

\* Arrays, of which empty ones do nothing.
LEMMA ArrayInv ==
    ASSUME Inv, NEW n \in Nat
    PROVE  /\ ExtractArray(n) => Inv'
           /\ InsertArray(n) => Inv'
<1>0. ro \in Context /\ rw \in Context
  BY InvContext
<1>1. ASSUME ExtractArray(n) PROVE Inv'
  <2> DEFINE ctx == pldm__msgbuf_extract_array_void(ro, n)
  <2>1. OnRo("extract_array", ctx, ArrayResult(ctx, n))
    BY <1>1 DEF ExtractArray
  <2>2. CASE n = 0
    <3>1. ctx = ro /\ ArrayResult(ctx, n) = "OK"
      BY <2>2 DEF pldm__msgbuf_extract_array_void, ArrayResult
    <3>2. Moves(ro, ro)
      BY <1>0 DEF Moves, Context, INTMAX_MIN
    <3> QED BY <2>1, <3>1, <3>2, OnRoInv DEF Judged
  <2>3. CASE n # 0
    <3>1. ctx = Sized(ro, n) /\ ArrayResult(ctx, n) = Result(ctx)
      BY <2>3 DEF pldm__msgbuf_extract_array_void, ArrayResult
    <3>2. Moves(ro, ctx)
      BY <1>0, <3>1, SizedMoves
    <3>3. ctx \in Context
      BY <3>2 DEF Moves
    <3> HIDE DEF ctx
    <3> QED BY <2>1, <3>1, <3>2, <3>3, ResultTells, OnRoInv DEF Judged
  <2> QED BY <2>2, <2>3
<1>2. ASSUME InsertArray(n) PROVE Inv'
  <2> DEFINE ctx == pldm__msgbuf_insert_array_void(rw, n)
  <2>1. OnRw("insert_array", ctx, ArrayResult(ctx, n))
    BY <1>2 DEF InsertArray
  <2>2. CASE n = 0
    <3>1. ctx = rw /\ ArrayResult(ctx, n) = "OK"
      BY <2>2 DEF pldm__msgbuf_insert_array_void, ArrayResult
    <3>2. Moves(rw, rw)
      BY <1>0 DEF Moves, Context, INTMAX_MIN
    <3> QED BY <2>1, <3>1, <3>2, OnRwInv DEF Judged
  <2>3. CASE n # 0
    <3>1. ctx = Sized(rw, n) /\ ArrayResult(ctx, n) = Result(ctx)
      BY <2>3 DEF pldm__msgbuf_insert_array_void, ArrayResult
    <3>2. Moves(rw, ctx)
      BY <1>0, <3>1, SizedMoves
    <3>3. ctx \in Context
      BY <3>2 DEF Moves
    <3> HIDE DEF ctx
    <3> QED BY <2>1, <3>1, <3>2, <3>3, ResultTells, OnRwInv DEF Judged
  <2> QED BY <2>2, <2>3
<1> QED BY <1>1, <1>2

\* A span of the decoder's buffer that moves it.
LEMMA SpanInv ==
    ASSUME Inv, NEW fn, fn \notin Judged, NEW ctx, Moves(ro, ctx),
           Span(fn, ctx)
    PROVE  Inv'
<1>1. ctx \in Context
  BY DEF Moves
<1> QED BY <1>1, ResultTells, OnRoInv DEF Span

\* Spans of a size, up to a trailer and to the end, and skips.
LEMMA SpansInv ==
    ASSUME Inv, NEW n \in Nat
    PROVE  /\ SpanRequired(n) => Inv'
           /\ SpanUntilTrailer(n) => Inv'
           /\ SpanRest => Inv'
           /\ Skip(n) => Inv'
<1>0. ro \in Context /\ rw \in Context
  BY InvContext
<1>1. SpanRequired(n) => Inv'
  BY <1>0, SizedMoves, SpanInv
  DEF SpanRequired, pldm__msgbuf_span_required, Judged
<1>2. SpanUntilTrailer(n) => Inv'
  BY <1>0, SpanUntilMoves, SpanInv DEF SpanUntilTrailer, Judged
<1>3. SpanRest => Inv'
  BY <1>0, SpanRemainingMoves, SpanInv DEF SpanRest, Judged
<1>4. ASSUME Skip(n) PROVE Inv'
  <2>1. Moves(rw, Sized(rw, n))
    BY <1>0, SizedMoves
  <2>2. Sized(rw, n) \in Context
    BY <2>1 DEF Moves
  <2>3. OnRw("skip", Sized(rw, n), Result(Sized(rw, n)))
    BY <1>4 DEF Skip, pldm_msgbuf_skip
  <2> QED BY <2>1, <2>2, <2>3, ResultTells, OnRwInv DEF Judged
<1> QED BY <1>1, <1>2, <1>3, <1>4

\* Whatever length is measured for it, a string is passed or refused.
LEMMA StringMoves ==
    ASSUME Inv
    PROVE  /\ \A ctx \in AfterAscii : Moves(ro, ctx)
           /\ \A ctx \in AfterUtf16 : Moves(ro, ctx)
<1>0. ro \in Context
  BY InvContext
<1>1. ASSUME NEW ctx \in AfterAscii PROVE Moves(ro, ctx)
  <2>1. PICK n \in 0..Len(src) : ctx = pldm__msgbuf_span_string_ascii(ro, n)
    BY <1>1 DEF AfterAscii
  <2>2. n + 1 \in Nat
    BY <2>1 DEF Inv
  <2> QED BY <1>0, <2>1, <2>2, AccessMoves, SetInvalidMoves
          DEF pldm__msgbuf_span_string_ascii
<1>2. ASSUME NEW ctx \in AfterUtf16 PROVE Moves(ro, ctx)
  <2>1. PICK n \in -1..Len(src) : ctx = pldm__msgbuf_span_string_utf16(ro, n)
    BY <1>2 DEF AfterUtf16
  <2>2. n + 2 \in Nat
    BY <2>1 DEF Inv
  <2> QED BY <1>0, <2>1, <2>2, AccessMoves, SetInvalidMoves
          DEF pldm__msgbuf_span_string_utf16
<1> QED BY <1>1, <1>2

\* Spans of strings.
LEMMA StringInv ==
    ASSUME Inv
    PROVE  /\ SpanStringAscii => Inv'
           /\ SpanStringUtf16 => Inv'
BY StringMoves, SpanInv DEF SpanStringAscii, SpanStringUtf16, Judged


\* A copy that fails counts its bytes where it can and moves no cursor.
LEMMA CopiedSound ==
    ASSUME NEW b, NEW old, NEW n \in Nat, NEW k \in Nat,
           NEW T, NEW R, NEW R2,
           old.cursor # NULL, Sound(b, old, k, T, R),
           b \in R2 <=> (b \in R \/ ~Fits(old, n))
    PROVE  /\ Fits(old, n) => Sound(b, Copied(old, n, TRUE), k, T, R2)
           /\ \A U : b \in U => Sound(b, Copied(old, n, FALSE), k, U, R2)
BY IntmaxAssumption
DEF Sound, Copied, Fits, SetInvalid, Ctx, Context, NULL, INTMAX_MIN

\* Copies between the buffers.
LEMMA CopyInv ==
    ASSUME Inv, NEW n \in Nat, Copy(n)
    PROVE  Inv'
<1>1. Len(src) \in Nat /\ sink \in Nat
  BY DEF Inv
<1>2. CompleteIsTruthful' /\ CompleteCounts' /\ FieldIsWhatWasRead'
  <2>1. call'.fn = "copy"
    BY DEF Copy, Called
  <2> QED BY <2>1, NotJudged DEF Judged
<1>3. ro.cursor # NULL /\ rw.cursor # NULL
  BY DEF Copy
<1>4. /\ Sound("ro", ro, Len(src), torn, refused)
      /\ Sound("rw", rw, sink, torn, refused)
  BY DEF Inv
<1>5. UNCHANGED <<src, sink, field>>
  BY DEF Copy
<1>6. refused' = refused \cup {b \in {"ro", "rw"} :
                     IF b = "ro" THEN ~Fits(ro, n) ELSE ~Fits(rw, n)}
  BY DEF Copy
<1>7. /\ ("ro" \in refused') <=> ("ro" \in refused \/ ~Fits(ro, n))
      /\ ("rw" \in refused') <=> ("rw" \in refused \/ ~Fits(rw, n))
      /\ refused' \subseteq {"ro", "rw"}
  BY <1>6 DEF Inv
<1>8. CASE Fits(ro, n) /\ Fits(rw, n)
  <2>1. ro' = Copied(ro, n, TRUE) /\ rw' = Copied(rw, n, TRUE) /\ torn' = torn
    BY <1>8 DEF Copy
  <2>2. Sound("ro", Copied(ro, n, TRUE), Len(src), torn, refused')
    BY <1>1, <1>3, <1>4, <1>7, <1>8, CopiedSound
  <2>3. Sound("rw", Copied(rw, n, TRUE), sink, torn, refused')
    BY <1>1, <1>3, <1>4, <1>7, <1>8, CopiedSound
  <2>4. /\ Sound("ro", ro', Len(src)', torn', refused')
        /\ Sound("rw", rw', sink', torn', refused')
    BY <1>5, <2>1, <2>2, <2>3
  <2> QED BY <1>2, <1>5, <1>7, <2>1, <2>4 DEF Inv
<1>9. CASE ~(Fits(ro, n) /\ Fits(rw, n))
  <2>1. /\ ro' = Copied(ro, n, FALSE) /\ rw' = Copied(rw, n, FALSE)
        /\ torn' = {"ro", "rw"}
    BY <1>9 DEF Copy
  <2>2. Sound("ro", Copied(ro, n, FALSE), Len(src), {"ro", "rw"}, refused')
    BY <1>1, <1>3, <1>4, <1>7, CopiedSound
  <2>3. Sound("rw", Copied(rw, n, FALSE), sink, {"ro", "rw"}, refused')
    BY <1>1, <1>3, <1>4, <1>7, CopiedSound
  <2>4. /\ Sound("ro", ro', Len(src)', torn', refused')
        /\ Sound("rw", rw', sink', torn', refused')
    BY <1>5, <2>1, <2>2, <2>3
  <2> QED BY <1>2, <1>5, <1>7, <2>1, <2>4 DEF Inv
<1> QED BY <1>8, <1>9

\* Copies of strings.
LEMMA CopyStringInv ==
    ASSUME Inv, NEW ctx, Moves(ro, ctx), CopyString(ctx)
    PROVE  Inv'
<1>1. Len(src) \in Nat /\ sink \in Nat /\ ro \in Context /\ rw \in Context
  BY InvContext DEF Inv
<1>2. CompleteIsTruthful' /\ CompleteCounts' /\ FieldIsWhatWasRead'
  <2>1. call'.fn = "copy_string"
    BY DEF CopyString, Called
  <2> QED BY <2>1, NotJudged DEF Judged
<1>3. ro.cursor # NULL /\ rw.cursor # NULL /\ UNCHANGED <<src, sink, field, torn>>
  BY DEF CopyString
<1>4. /\ Sound("ro", ro, Len(src), torn, refused)
      /\ Sound("rw", rw, sink, torn, refused)
  BY DEF Inv
<1>5. /\ ro' = ctx
      /\ rw' = IF ctx.remaining < 0 THEN rw
               ELSE pldm__msgbuf_insert_array_void(rw, ctx.cursor - ro.cursor)
      /\ refused' = refused \cup {b \in {"ro", "rw"} :
                        IF b = "ro" THEN ctx.remaining < 0
                        ELSE ctx.remaining >= 0 /\ rw'.remaining < 0}
  BY DEF CopyString
<1>6. /\ ("ro" \in refused') <=> ("ro" \in refused \/ ctx.remaining < 0)
      /\ ("rw" \in refused') <=>
             ("rw" \in refused \/ (ctx.remaining >= 0 /\ rw'.remaining < 0))
      /\ refused' \subseteq {"ro", "rw"}
  BY <1>5 DEF Inv
<1>7. Sound("ro", ctx, Len(src), torn, refused')
  BY <1>1, <1>3, <1>4, <1>6, MovesSound
<1>8. Sound("ro", ro', Len(src)', torn', refused')
  BY <1>3, <1>5, <1>7
<1>9. Sound("rw", rw', sink', torn', refused')
  <2>1. CASE ctx.remaining < 0
    <3>1. rw' = rw /\ ~(ctx.remaining >= 0)
      BY <2>1, <1>5, <1>7 DEF Sound, Context, INTMAX_MIN
    <3> QED BY <1>3, <1>4, <1>6, <3>1 DEF Sound
  <2>2. CASE ~(ctx.remaining < 0)
    <3> DEFINE n == ctx.cursor - ro.cursor
    <3>1. ctx.remaining >= 0 /\ n \in Nat
      BY <2>2, <1>1, <1>7 DEF Sound, Context, INTMAX_MIN, Moves
    <3>2. rw' = IF n = 0 THEN rw ELSE Sized(rw, n)
      BY <2>2, <1>5 DEF pldm__msgbuf_insert_array_void
    <3> HIDE DEF n
    <3>3. Moves(rw, rw)
      BY <1>1 DEF Moves, Context, INTMAX_MIN
    <3>4. Moves(rw, rw')
      BY <3>1, <3>2, <3>3, <1>1, SizedMoves
    <3>5. ("rw" \in refused') <=> ("rw" \in refused \/ rw'.remaining < 0)
      BY <1>6, <3>1
    <3>6. Sound("rw", rw', sink, torn, refused')
      BY <3>4, <3>5, <1>1, <1>3, <1>4, MovesSound
    <3> QED BY <1>3, <3>6
  <2> QED BY <2>1, <2>2
<1> QED BY <1>2, <1>3, <1>6, <1>8, <1>9 DEF Inv

\* pldm_msgbuf_init_errno leaves a buffer unused, or over the whole of its
\* bytes.
LEMMA InitSound ==
    ASSUME NEW b, NEW minsize \in Nat, NEW n \in Nat, NEW T, NEW R, b \notin R
    PROVE  Sound(b, InitErrno(minsize, n), n, T, R)
BY IntmaxAssumption DEF Sound, InitErrno, Ctx, Context, NULL, INTMAX_MIN

\* The initialisations of the buffers.
LEMMA InitInv ==
    ASSUME Inv, NEW minsize \in Nat
    PROVE  /\ \A s \in Seq(Nat) : pldm_msgbuf_ro_init_errno(s, minsize) => Inv'
           /\ \A n \in Nat : pldm_msgbuf_rw_init_errno(n, minsize) => Inv'
<1>1. ASSUME NEW s \in Seq(Nat), pldm_msgbuf_ro_init_errno(s, minsize)
      PROVE  Inv'
  <2> USE <1>1 DEF pldm_msgbuf_ro_init_errno
  <2>1. call'.fn = "init"
    BY DEF Called
  <2>2. CompleteIsTruthful' /\ CompleteCounts' /\ FieldIsWhatWasRead'
    BY <2>1, NotJudged DEF Judged
  <2>3. Sound("ro", InitErrno(minsize, Len(s)), Len(s), torn', refused')
    BY InitSound
  <2>4. Sound("ro", ro', Len(src)', torn', refused')
    BY <2>3
  <2>5. Sound("rw", rw', sink', torn', refused')
    BY DEF Inv, Sound
  <2>6. field' \in [ptr : Int, length : Int]
    BY DEF NoField, VariableField, NULL
  <2> QED BY <2>2, <2>4, <2>5, <2>6 DEF Inv
<1>2. ASSUME NEW n \in Nat, pldm_msgbuf_rw_init_errno(n, minsize)
      PROVE  Inv'
  <2> USE <1>2 DEF pldm_msgbuf_rw_init_errno
  <2>1. call'.fn = "init"
    BY DEF Called
  <2>2. CompleteIsTruthful' /\ CompleteCounts' /\ FieldIsWhatWasRead'
    BY <2>1, NotJudged DEF Judged
  <2>3. Sound("rw", InitErrno(minsize, n), n, torn', refused')
    BY InitSound
  <2>4. Sound("rw", rw', sink', torn', refused')
    BY <2>3
  <2>5. Sound("ro", ro', Len(src)', torn', refused')
    BY DEF Inv, Sound
  <2> QED BY <2>2, <2>4, <2>5 DEF Inv
<1> QED BY <1>1, <1>2

\* An array the caller has no room for, and the fields.
LEMMA FieldInv ==
    ASSUME Inv
    PROVE  /\ ArrayTooLarge => Inv'
           /\ FieldBegin => Inv'
           /\ FieldEnd => Inv'
<1>0. ro \in Context
  BY InvContext
<1>1. ASSUME ArrayTooLarge PROVE Inv'
  <2>1. call'.fn = "array"
    BY <1>1 DEF ArrayTooLarge, Called
  <2>2. CompleteIsTruthful' /\ CompleteCounts' /\ FieldIsWhatWasRead'
    BY <2>1, NotJudged DEF Judged
  <2> QED BY <1>1, <2>2 DEF ArrayTooLarge, Inv
<1>2. ASSUME FieldBegin PROVE Inv'
  <2>1. call'.fn = "field_begin"
    BY <1>2 DEF FieldBegin, Called
  <2>2. CompleteIsTruthful' /\ CompleteCounts' /\ FieldIsWhatWasRead'
    BY <2>1, NotJudged DEF Judged
  <2>3. field' \in [ptr : Int, length : Int]
    BY <1>0, <1>2, IntmaxAssumption
    DEF FieldBegin, pldm__msgbuf_field_begin, NoField, VariableField, NULL, Context,
        INTMAX_MIN
  <2> QED BY <1>2, <2>2, <2>3 DEF FieldBegin, Inv
<1>3. ASSUME FieldEnd PROVE Inv'
  <2> DEFINE rc == pldm__msgbuf_field_end(ro, field)
  <2>0. field \in [ptr : Int, length : Int]
    BY DEF Inv
  <2>1. /\ call' = Called("field_end", rc, 0, 0)
        /\ field' = IF rc = "OK" THEN [field EXCEPT !.length = @ - ro.remaining]
                                 ELSE field
        /\ UNCHANGED <<src, ro, sink, rw, refused, torn>>
    BY <1>3 DEF FieldEnd
  <2>2. CompleteIsTruthful' /\ CompleteCounts'
    BY <2>1 DEF CompleteIsTruthful, CompleteCounts, Called
  <2>3. field' \in [ptr : Int, length : Int]
    BY <1>0, <2>0, <2>1 DEF Context, INTMAX_MIN
  <2>4. FieldIsWhatWasRead'
    <3>1. CASE rc # "OK"
      BY <3>1, <2>1 DEF FieldIsWhatWasRead, Called
    <3>2. CASE rc = "OK"
      <4>1. field.ptr + (field.length - ro.remaining) = ro.cursor
        BY <3>2 DEF pldm__msgbuf_field_end
      <4>2. field'.ptr + field'.length = ro.cursor
        BY <3>2, <4>1, <2>0, <2>1, <1>0 DEF Context, INTMAX_MIN
      <4> QED BY <4>2, <2>1 DEF FieldIsWhatWasRead
    <3> QED BY <3>1, <3>2
  <2> QED BY <2>1, <2>2, <2>3, <2>4 DEF Inv
<1> QED BY <1>1, <1>2, <1>3

\* A buffer that is not in use is sound whatever was refused.
LEMMA UnusedSound ==
    ASSUME NEW b, NEW n \in Nat, NEW T, NEW R
    PROVE  Sound(b, Unused, n, T, R)
BY IntmaxAssumption DEF Sound, Unused, Ctx, Context, NULL, INTMAX_MIN

\* The completions of the decoder's buffer.
LEMMA RoCompleteInv ==
    ASSUME Inv
    PROVE  /\ pldm_msgbuf_ro_complete => Inv'
           /\ pldm_msgbuf_ro_complete_consumed => Inv'
<1>0. /\ Len(src) \in Nat /\ ro \in Context
      /\ Sound("ro", ro, Len(src), torn, refused)
  BY InvContext DEF Inv
<1>1. ASSUME pldm_msgbuf_ro_complete PROVE Inv'
  <2>1. Sound("ro", ro', Len(src)', torn', refused')
    BY <1>0, <1>1, UnusedSound DEF pldm_msgbuf_ro_complete
  <2>2. "ro" \in refused <=> ro.remaining < 0
    BY <1>0, <1>1 DEF Sound, pldm_msgbuf_ro_complete
  <2>3. CompleteIsTruthful' /\ CompleteCounts' /\ FieldIsWhatWasRead'
    BY <1>1, <2>2 DEF pldm_msgbuf_ro_complete, Called, Validate,
       CompleteIsTruthful, CompleteCounts, FieldIsWhatWasRead
  <2> QED BY <1>1, <2>1, <2>3 DEF Inv, pldm_msgbuf_ro_complete
<1>2. ASSUME pldm_msgbuf_ro_complete_consumed PROVE Inv'
  <2>1. Sound("ro", ro', Len(src)', torn', refused')
    BY <1>0, <1>2, UnusedSound DEF pldm_msgbuf_ro_complete_consumed
  <2>2. Consumed(ro) = "OK" /\ "ro" \notin torn => ro.cursor = Len(src)
    BY <1>0 DEF Sound, Consumed, Context, INTMAX_MIN
  <2>3. CompleteIsTruthful' /\ CompleteCounts' /\ FieldIsWhatWasRead'
    BY <1>2, <2>2 DEF pldm_msgbuf_ro_complete_consumed, Called,
       CompleteIsTruthful, CompleteCounts, FieldIsWhatWasRead
  <2> QED BY <1>2, <2>1, <2>3 DEF Inv, pldm_msgbuf_ro_complete_consumed
<1> QED BY <1>1, <1>2

\* The completions of the encoder's buffer.
LEMMA RwCompleteInv ==
    ASSUME Inv
    PROVE  /\ pldm_msgbuf_rw_complete => Inv'
           /\ pldm_msgbuf_complete_used(sink) => Inv'
           /\ pldm_msgbuf_rw_complete_consumed => Inv'
<1>0. /\ sink \in Nat /\ rw \in Context
      /\ Sound("rw", rw, sink, torn, refused)
  BY InvContext DEF Inv
<1>1. ASSUME pldm_msgbuf_rw_complete PROVE Inv'
  <2>1. Sound("rw", rw', sink', torn', refused')
    BY <1>0, <1>1, UnusedSound DEF pldm_msgbuf_rw_complete
  <2>2. "rw" \in refused <=> rw.remaining < 0
    BY <1>0, <1>1 DEF Sound, pldm_msgbuf_rw_complete
  <2>3. CompleteIsTruthful' /\ CompleteCounts' /\ FieldIsWhatWasRead'
    BY <1>1, <2>2 DEF pldm_msgbuf_rw_complete, Called, Validate,
       CompleteIsTruthful, CompleteCounts, FieldIsWhatWasRead
  <2> QED BY <1>1, <2>1, <2>3 DEF Inv, pldm_msgbuf_rw_complete
<1>2. ASSUME pldm_msgbuf_complete_used(sink) PROVE Inv'
  <2> USE DEF pldm_msgbuf_complete_used
  <2>1. Sound("rw", rw', sink', torn', refused')
    BY <1>0, <1>2, UnusedSound
  <2>2. ~(rw.remaining < 0) /\ "rw" \notin torn => sink - rw.remaining = rw.cursor
    BY <1>0 DEF Sound, Context, INTMAX_MIN
  <2>3. CompleteIsTruthful' /\ CompleteCounts' /\ FieldIsWhatWasRead'
    <3>1. call'.fn = "rw_complete_used"
      BY <1>2 DEF Called
    <3>2. call'.rc = "OK" => ~(rw.remaining < 0) /\ call'.at = rw.cursor
                             /\ call'.len = sink - rw.remaining
      BY <1>2 DEF Called
    <3>3. torn' = torn
      BY <1>2
    <3> QED BY <2>2, <3>1, <3>2, <3>3
            DEF CompleteIsTruthful, CompleteCounts, FieldIsWhatWasRead
  <2> QED BY <1>2, <2>1, <2>3 DEF Inv
<1>3. ASSUME pldm_msgbuf_rw_complete_consumed PROVE Inv'
  <2>1. Sound("rw", rw', sink', torn', refused')
    BY <1>0, <1>3, UnusedSound DEF pldm_msgbuf_rw_complete_consumed
  <2>2. Consumed(rw) = "OK" /\ "rw" \notin torn => rw.cursor = sink
    BY <1>0 DEF Sound, Consumed, Context, INTMAX_MIN
  <2>3. CompleteIsTruthful' /\ CompleteCounts' /\ FieldIsWhatWasRead'
    BY <1>3, <2>2 DEF pldm_msgbuf_rw_complete_consumed, Called,
       CompleteIsTruthful, CompleteCounts, FieldIsWhatWasRead
  <2> QED BY <1>3, <2>1, <2>3 DEF Inv, pldm_msgbuf_rw_complete_consumed
<1> QED BY <1>1, <1>2, <1>3

\* Buffers that are given up.
LEMMA DiscardInv ==
    ASSUME Inv, NEW error
    PROVE  /\ pldm_msgbuf_ro_discard(error) => Inv'
           /\ pldm_msgbuf_rw_discard(error) => Inv'
<1>0. Len(src) \in Nat /\ sink \in Nat
  BY DEF Inv
<1>1. ASSUME pldm_msgbuf_ro_discard(error) PROVE Inv'
  <2> USE <1>1 DEF pldm_msgbuf_ro_discard
  <2>1. Sound("ro", ro', Len(src)', torn', refused')
    BY <1>0, UnusedSound
  <2>2. call'.fn = "ro_discard"
    BY DEF Called
  <2>3. CompleteIsTruthful' /\ CompleteCounts' /\ FieldIsWhatWasRead'
    BY <2>2, NotJudged DEF Judged
  <2> QED BY <2>1, <2>3 DEF Inv
<1>2. ASSUME pldm_msgbuf_rw_discard(error) PROVE Inv'
  <2> USE <1>2 DEF pldm_msgbuf_rw_discard
  <2>1. Sound("rw", rw', sink', torn', refused')
    BY <1>0, UnusedSound
  <2>2. call'.fn = "rw_discard"
    BY DEF Called
  <2>3. CompleteIsTruthful' /\ CompleteCounts' /\ FieldIsWhatWasRead'
    BY <2>2, NotJudged DEF Judged
  <2> QED BY <2>1, <2>3 DEF Inv
<1> QED BY <1>1, <1>2

\* No call breaks the invariant.
LEMMA BufStep == Inv /\ [BufNext]_bufvars => Inv'
<1> SUFFICES ASSUME Inv, [BufNext]_bufvars PROVE Inv'
  OBVIOUS
<1>1. ASSUME NEW s \in Sources, NEW n \in Sizes,
             pldm_msgbuf_ro_init_errno(s, n)
      PROVE  Inv'
  BY <1>1, InitInv, SourcesAssumption, SizesAssumption
<1>2. ASSUME NEW m \in SinkSizes, NEW n \in Sizes,
             pldm_msgbuf_rw_init_errno(m, n)
      PROVE  Inv'
  BY <1>2, InitInv, SinkAssumption, SizesAssumption
<1>3. ASSUME NEW n \in Sizes,
             \/ ExtractArray(n) \/ InsertArray(n) \/ SpanRequired(n)
             \/ Skip(n) \/ SpanUntilTrailer(n) \/ Copy(n)
      PROVE  Inv'
  <2>1. n \in Nat
    BY SizesAssumption
  <2> QED BY <1>3, <2>1, ArrayInv, SpansInv, CopyInv
<1>4. CASE Extract
  BY <1>4, ExtractInv
<1>5. CASE Insert
  BY <1>5, InsertInv
<1>6. CASE SpanRest
  BY <1>6, SpansInv
<1>7. CASE SpanStringAscii \/ SpanStringUtf16
  BY <1>7, StringInv
<1>8. CASE pldm_msgbuf_copy_string_ascii \/ pldm_msgbuf_copy_string_utf16
  BY <1>8, StringMoves, CopyStringInv
  DEF pldm_msgbuf_copy_string_ascii, pldm_msgbuf_copy_string_utf16
<1>9. CASE ArrayTooLarge \/ FieldBegin \/ FieldEnd
  BY <1>9, FieldInv
<1>10. CASE pldm_msgbuf_ro_complete \/ pldm_msgbuf_ro_complete_consumed
  BY <1>10, RoCompleteInv
<1>11. CASE \/ pldm_msgbuf_rw_complete \/ pldm_msgbuf_complete_used(sink)
            \/ pldm_msgbuf_rw_complete_consumed
  BY <1>11, RwCompleteInv
<1>12. CASE \/ pldm_msgbuf_ro_discard("EPROTO")
            \/ pldm_msgbuf_rw_discard("EPROTO")
  BY <1>12, DiscardInv
<1>13. CASE UNCHANGED bufvars
  BY <1>13 DEF bufvars, Inv, Sound, CompleteIsTruthful, CompleteCounts,
     FieldIsWhatWasRead
<1> QED
  BY <1>1, <1>2, <1>3, <1>4, <1>5, <1>6, <1>7, <1>8, <1>9, <1>10, <1>11,
     <1>12, <1>13 DEF BufNext

\* The buffers start unused.
LEMMA BufStart == BufInit => Inv
<1> SUFFICES ASSUME BufInit PROVE Inv
  OBVIOUS
<1>1. src \in Seq(Nat) /\ sink \in Nat /\ Len(src) = 0
  BY DEF BufInit
<1>2. field \in [ptr : Int, length : Int]
  BY DEF BufInit, NoField, VariableField, NULL
<1>3. /\ Sound("ro", ro, Len(src), torn, refused)
      /\ Sound("rw", rw, sink, torn, refused)
  BY <1>1, UnusedSound DEF BufInit
<1>4. CompleteIsTruthful /\ CompleteCounts /\ FieldIsWhatWasRead
  BY DEF BufInit, Idle, Called, CompleteIsTruthful, CompleteCounts,
     FieldIsWhatWasRead
<1> QED BY <1>1, <1>2, <1>3, <1>4 DEF BufInit, Inv

\* The invariant holds of every sequence of calls.
LEMMA BufInvariant == BufSpec => []Inv
BY BufStart, BufStep, PTL DEF BufSpec

\* No access that a buffer's count allows is outside its bytes, for messages,
\* memory and accesses of any size, and core.h's signed counts never overflow.
THEOREM MsgbufBounds == BufSpec => []BufferBounds
<1>1. Inv => BufTypeOK
  BY DEF Inv, Sound, Context, BufTypeOK
<1>2. Inv => BufferBounds
  BY <1>1 DEF Inv, Sound, BufferBounds
<1> QED BY <1>2, BufInvariant, PTL

\* pldm_msgbuf_complete succeeds exactly if every access did, its variants report
\* the bytes that were passed, and pldm_msgbuf_field_end accepts a field only if
\* it ends at the cursor: one check at the end of a codec stands for one after
\* each field.
THEOREM MsgbufCompletionTells == BufSpec => []CompletionTells
<1>1. Inv => CompletionTells
  BY DEF Inv, CompletionTells
<1> QED BY <1>1, BufInvariant, PTL

(***************************************************************************)
(* Strings.                                                                *)
(***************************************************************************)
\* Two NULs in the bytes of ctx, the first at offset j.
Pair(s, ctx, j) == s[ctx.cursor + j + 1] = NUL /\ s[ctx.cursor + j + 2] = NUL

\* memmem() finds the first two NULs at or after an offset, if there are any.
LEMMA MemmemIs ==
    ASSUME NEW s, NEW ctx \in Context, NEW k \in Nat
    PROVE  \/ Memmem(s, ctx, k) = -1
           \/ /\ Memmem(s, ctx, k) \in k..(ctx.remaining - 2)
              /\ Pair(s, ctx, Memmem(s, ctx, k))
              /\ \A j \in k..(Memmem(s, ctx, k) - 1) : ~Pair(s, ctx, j)
<1> DEFINE At == {j \in k..(ctx.remaining - 2) : Pair(s, ctx, j)}
<1>0. ctx.remaining \in Int
  BY IntmaxAssumption DEF Context, INTMAX_MIN
<1>1. Memmem(s, ctx, k) = IF At = {} THEN -1 ELSE CHOOSE j \in At : \A i \in At : j <= i
  BY DEF Memmem, Pair
<1>2. CASE At = {}
  BY <1>1, <1>2
<1>3. CASE At # {}
  <2>1. At \subseteq Nat
    BY <1>0
  <2>2. \E j \in At : \A i \in At : j <= i
    BY <1>3, <2>1, Least
  <2> DEFINE e == CHOOSE j \in At : \A i \in At : j <= i
  <2>3. e \in At /\ \A i \in At : e <= i
    BY <2>2
  <2>4. Memmem(s, ctx, k) = e
    BY <1>1, <1>3
  <2> HIDE DEF e
  <2> QED
    BY <1>0, <2>3, <2>4
<1> QED
  BY <1>2, <1>3

\* What the loop of pldm__msgbuf_span_string_utf16 returns from offset k on.
Found(s, ctx, k, n) ==
    \/ n = -1
    \/ /\ n \in k..(ctx.remaining - 2) /\ n % 2 = 0
       /\ Pair(s, ctx, n)
       /\ \A j \in k..(n - 1) : j % 2 = 0 => ~Pair(s, ctx, j)

\* The loop ends, with the first two NULs at an even offset.
LEMMA CodePointIs ==
    ASSUME NEW s \in Seq(Nat), NEW ctx \in Context, ctx.remaining <= Len(s)
    PROVE  Found(s, ctx, 0, CodePoint(s, ctx))
<1> DEFINE D == 0..(Len(s) + 1)
           E == [k \in D |-> Memmem(s, ctx, k)]
           stop == {k \in D : E[k] = -1 \/ E[k] % 2 = 0}
           Body(f) == [k \in D |-> IF k \in stop THEN E[k] ELSE f[E[k] + 1]]
           Scan == CHOOSE f : f = Body(f)
<1>1. CodePoint(s, ctx) = Scan[0]
  BY DEF CodePoint
<1>2. Len(s) \in Nat /\ ctx.remaining \in Int
  BY IntmaxAssumption DEF Context, INTMAX_MIN
<1>3. ASSUME NEW k \in D
      PROVE  /\ E[k] \in Int
             /\ k \notin stop => /\ E[k] \in k..(ctx.remaining - 2)
                                 /\ E[k] % 2 # 0
                                 /\ E[k] + 1 \in D /\ E[k] + 1 > k
             /\ k \in stop => Found(s, ctx, k, E[k])
             /\ k \notin stop => \A j \in k..(E[k] - 1) : ~Pair(s, ctx, j)
  <2>1. k \in Nat
    BY <1>2
  <2>2. E[k] = Memmem(s, ctx, k)
    OBVIOUS
  <2>3. \/ E[k] = -1
        \/ /\ E[k] \in k..(ctx.remaining - 2)
           /\ Pair(s, ctx, E[k])
           /\ \A j \in k..(E[k] - 1) : ~Pair(s, ctx, j)
    BY <2>1, <2>2, MemmemIs
  <2> DEFINE e == E[k]
  <2>4. k \in stop <=> (e = -1 \/ e % 2 = 0)
    OBVIOUS
  <2>5. \/ e = -1
        \/ /\ e \in k..(ctx.remaining - 2)
           /\ Pair(s, ctx, e)
           /\ \A j \in k..(e - 1) : ~Pair(s, ctx, j)
    BY <2>3
  <2>6. k <= Len(s) + 1
    BY <1>2
  <2> HIDE DEF e, E, stop, D
  <2>7. e \in Int
    BY <1>2, <2>1, <2>5
  <2>8. k \notin stop => /\ e \in k..(ctx.remaining - 2)
                        /\ e % 2 # 0
                        /\ \A j \in k..(e - 1) : ~Pair(s, ctx, j)
    BY <2>4, <2>5
  <2>9. k \notin stop => e + 1 \in D /\ e + 1 > k
    BY <1>2, <2>1, <2>6, <2>8 DEF D
  <2>10. k \in stop => Found(s, ctx, k, e)
    BY <2>4, <2>5 DEF Found
  <2> QED
    BY <2>7, <2>8, <2>9, <2>10 DEF e
<1> HIDE DEF E, stop
<1>4. \E f \in [D -> Int] : f = Body(f)
  <2> DEFINE m == [k \in D |-> Len(s) + 1 - k]
             step == [k \in D |-> [g \in [D -> Int] |->
                         IF k \in stop THEN E[k] ELSE g[E[k] + 1]]]
  <2>1. m \in [D -> Nat]
    BY <1>2
  <2>2. step \in [D -> [[D -> Int] -> Int]]
    BY <1>3
  <2>3. ASSUME NEW k \in D, NEW g \in [D -> Int], NEW h \in [D -> Int],
               \A j \in D : m[j] < m[k] => g[j] = h[j]
        PROVE  step[k][g] = step[k][h]
    <3>1. CASE k \in stop
      BY <3>1
    <3>2. CASE k \notin stop
      <4>1. m[E[k] + 1] < m[k]
        BY <1>2, <1>3, <3>2
      <4> QED
        BY <1>3, <2>3, <3>2, <4>1
    <3> QED
      BY <3>1, <3>2
  <2> HIDE DEF m
  <2>4. Recursive(D, Int, m, step)
    <3>1. Int # {}
      <4>1. 0 \in Int
        OBVIOUS
      <4> QED
        BY <4>1
    <3> HIDE DEF step, D
    <3> QED
      BY <2>1, <2>2, <2>3, <3>1 DEF Recursive
  <2>5. PICK f \in [D -> Int] : \A k \in D : f[k] = step[k][f]
    <3> HIDE DEF step, D
    <3> QED
      BY <2>4, Recursion DEF Defines
  <2>6. f = Body(f)
    BY <2>5
  <2> QED
    BY <2>6
<1>5. Scan = Body(Scan)
  <2> HIDE DEF D
  <2> QED
    BY <1>4
<1> HIDE DEF Scan
<1>6. ASSUME NEW k \in D PROVE Scan[k] = IF k \in stop THEN E[k] ELSE Scan[E[k] + 1]
  BY <1>5
<1> DEFINE B == {k \in D : ~Found(s, ctx, k, Scan[k])}
<1>7. B = {}
  <2> SUFFICES ASSUME B # {} PROVE FALSE
    OBVIOUS
  <2>1. PICK k \in B : \A j \in B : j <= k
    <3>1. B \subseteq Nat /\ Len(s) + 1 \in Nat /\ \A j \in B : j <= Len(s) + 1
      BY <1>2
    <3> QED
      BY <3>1, Greatest
  <2>2. k \in D
    OBVIOUS
  <2>3. CASE k \in stop
    BY <1>3, <1>6, <2>2, <2>3
  <2>4. CASE k \notin stop
    <3> DEFINE e == E[k]
               n == Scan[k]
    <3>1. /\ e \in k..(ctx.remaining - 2) /\ e % 2 # 0 /\ e + 1 \in D /\ e + 1 > k
          /\ \A j \in k..(e - 1) : ~Pair(s, ctx, j)
      BY <1>3, <2>2, <2>4
    <3>2. n = Scan[e + 1]
      BY <1>6, <2>2, <2>4
    <3>3. Found(s, ctx, e + 1, n)
      BY <1>2, <2>1, <2>2, <3>1, <3>2
    <3> HIDE DEF e, n
    <3>4. Found(s, ctx, k, n)
      <4>1. k \in Int /\ e \in Int
        BY <1>2, <2>2, <3>1
      <4>2. CASE n = -1
        BY <4>2 DEF Found
      <4>3. CASE n # -1
        <5>1. /\ n \in (e + 1)..(ctx.remaining - 2) /\ n % 2 = 0 /\ Pair(s, ctx, n)
              /\ \A j \in (e + 1)..(n - 1) : j % 2 = 0 => ~Pair(s, ctx, j)
          BY <3>3, <4>3 DEF Found
        <5>2. n \in k..(ctx.remaining - 2)
          BY <1>2, <3>1, <4>1, <5>1
        <5>3. ASSUME NEW j \in k..(n - 1), j % 2 = 0 PROVE ~Pair(s, ctx, j)
          <6>1. j \in Int /\ (j < e \/ j = e \/ j > e)
            BY <4>1, <5>3
          <6>2. j > e => j \in (e + 1)..(n - 1)
            BY <4>1, <5>1, <6>1
          <6>3. j < e => j \in k..(e - 1)
            BY <4>1, <6>1
          <6> QED
            BY <3>1, <5>1, <5>3, <6>1, <6>2, <6>3
        <5> QED
          BY <5>1, <5>2, <5>3 DEF Found
      <4> QED
        BY <4>2, <4>3
    <3> QED
      BY <3>4 DEF n
  <2> QED
    BY <2>3, <2>4
<1>8. 0 \in D
  BY <1>2
<1> QED
  BY <1>1, <1>7, <1>8

\* strnlen() finds the first NUL of what remains, if there is any.
LEMMA StrnlenIs ==
    ASSUME NEW s, NEW ctx \in Context, ctx.remaining >= 0
    PROVE  \/ Strnlen(s, ctx) = ctx.remaining
           \/ /\ Strnlen(s, ctx) \in 0..(ctx.remaining - 1)
              /\ s[ctx.cursor + Strnlen(s, ctx) + 1] = NUL
              /\ \A j \in 0..(Strnlen(s, ctx) - 1) : s[ctx.cursor + j + 1] # NUL
<1> DEFINE Ends == {k \in 0..(ctx.remaining - 1) : s[ctx.cursor + k + 1] = NUL}
<1>0. ctx.remaining \in Int
  BY IntmaxAssumption DEF Context, INTMAX_MIN
<1>1. Strnlen(s, ctx) = IF Ends = {} THEN ctx.remaining
                        ELSE CHOOSE k \in Ends : \A j \in Ends : k <= j
  BY <1>0 DEF Strnlen
<1>2. CASE Ends = {}
  BY <1>1, <1>2
<1>3. CASE Ends # {}
  <2>1. \E k \in Ends : \A j \in Ends : k <= j
    <3>1. Ends \subseteq Nat
      BY <1>0
    <3> QED
      BY <1>3, <3>1, Least
  <2> DEFINE e == CHOOSE k \in Ends : \A j \in Ends : k <= j
  <2>2. e \in Ends /\ \A i \in Ends : e <= i
    BY <2>1
  <2>3. Strnlen(s, ctx) = e
    BY <1>1, <1>3
  <2> HIDE DEF e
  <2> QED
    BY <1>0, <2>2, <2>3
<1> QED
  BY <1>2, <1>3

\* A span that is not refused is as long as it asked for.
LEMMA AccessPasses ==
    ASSUME NEW ctx \in Context, NEW n \in Nat, Access(ctx, n).remaining >= 0
    PROVE  Access(ctx, n).cursor - ctx.cursor = n
<1>1. CASE Fits(ctx, n)
  BY <1>1 DEF Access, Fits, Ctx, Context
<1>2. CASE ~Fits(ctx, n)
  BY <1>2, IntmaxAssumption
  DEF Access, Fits, SetInvalid, Ctx, Context, INTMAX_MIN
<1> QED
  BY <1>1, <1>2

\* A buffer that is marked counts below zero.
LEMMA SetInvalidCount ==
    ASSUME NEW ctx \in Context PROVE ~(SetInvalid(ctx).remaining >= 0)
BY IntmaxAssumption DEF SetInvalid, Ctx, Context, INTMAX_MIN

\* A string of characters ends with its first NUL.
LEMMA AsciiEnds ==
    ASSUME Inv, NEW ctx \in AfterAscii, ctx.remaining >= 0
    PROVE  LET len == ctx.cursor - ro.cursor
           IN {k \in 1..len : src[ro.cursor + k] = NUL} = {len}
<1>0. ro \in Context /\ ro.cursor \in Int /\ ro.remaining \in Int
  BY InvContext, IntmaxAssumption DEF Context, INTMAX_MIN
<1>1. PICK n \in 0..Len(src) : /\ n = Strnlen(src, ro)
                               /\ ctx = pldm__msgbuf_span_string_ascii(ro, n)
  BY DEF AfterAscii
<1>2. n \in Nat
  BY DEF Inv
<1>3. ro.remaining >= 0 /\ n # ro.remaining /\ ctx = Access(ro, n + 1)
  BY <1>0, <1>1, SetInvalidCount DEF pldm__msgbuf_span_string_ascii
<1>4. ctx.cursor - ro.cursor = n + 1
  BY <1>0, <1>2, <1>3, AccessPasses
<1>5. /\ src[ro.cursor + n + 1] = NUL
      /\ \A j \in 0..(n - 1) : src[ro.cursor + j + 1] # NUL
  BY <1>0, <1>1, <1>3, StrnlenIs
<1>6. ASSUME NEW k \in 1..(n + 1) PROVE src[ro.cursor + k] = NUL <=> k = n + 1
  <2>1. CASE k = n + 1
    <3>1. ro.cursor + k = ro.cursor + n + 1
      BY <1>0, <1>2, <2>1
    <3> QED
      BY <1>5, <2>1, <3>1
  <2>2. CASE k # n + 1
    <3>1. k - 1 \in 0..(n - 1) /\ ro.cursor + (k - 1) + 1 = ro.cursor + k
      BY <1>0, <1>2, <2>2
    <3>2. src[ro.cursor + (k - 1) + 1] # NUL
      BY <1>5, <3>1
    <3> QED
      BY <2>2, <3>1, <3>2
  <2> QED
    BY <2>1, <2>2
<1>7. n + 1 \in 1..(n + 1)
  BY <1>2
<1> QED
  BY <1>4, <1>6, <1>7

\* A string of code points ends with the first that is NUL.
LEMMA Utf16Ends ==
    ASSUME Inv, NEW ctx \in AfterUtf16, ctx.remaining >= 0
    PROVE  LET len == ctx.cursor - ro.cursor
           IN /\ len % 2 = 0
              /\ {k \in 1..(len \div 2) : /\ src[ro.cursor + 2 * k - 1] = NUL
                                          /\ src[ro.cursor + 2 * k] = NUL}
                 = {len \div 2}
<1>0. ro \in Context /\ ro.cursor \in Int /\ ro.remaining \in Int
  BY InvContext, IntmaxAssumption DEF Context, INTMAX_MIN
<1>1. PICK n \in -1..Len(src) : /\ n = CodePoint(src, ro)
                                /\ ctx = pldm__msgbuf_span_string_utf16(ro, n)
  BY DEF AfterUtf16
<1>2. Len(src) \in Nat /\ src \in Seq(Nat)
  BY DEF Inv
<1>3. ro.remaining >= 0 /\ n # -1 /\ ctx = Access(ro, n + 2)
  BY <1>0, <1>1, SetInvalidCount DEF pldm__msgbuf_span_string_utf16
<1>4. n \in Nat /\ n + 2 \in Nat
  BY <1>1, <1>2, <1>3
<1>5. ctx.cursor - ro.cursor = n + 2
  BY <1>0, <1>3, <1>4, AccessPasses
<1>6. ro.remaining <= Len(src)
  <2>1. Sound("ro", ro, Len(src), torn, refused)
    BY DEF Inv
  <2> QED
    BY <1>0, <1>2, <1>3, <2>1, IntmaxAssumption DEF Sound, NULL, INTMAX_MIN
<1>7. Found(src, ro, 0, n)
  BY <1>0, <1>1, <1>2, <1>6, CodePointIs
<1>8. /\ n % 2 = 0 /\ Pair(src, ro, n)
      /\ \A j \in 0..(n - 1) : j % 2 = 0 => ~Pair(src, ro, j)
  BY <1>3, <1>7 DEF Found
<1>9. PICK h \in Nat : n = 2 * h
  BY <1>4, <1>8
<1>10. (n + 2) % 2 = 0 /\ (n + 2) \div 2 = h + 1
  BY <1>4, <1>8, <1>9
<1>11. ASSUME NEW k \in 1..(h + 1)
       PROVE  (/\ src[ro.cursor + 2 * k - 1] = NUL
               /\ src[ro.cursor + 2 * k] = NUL) <=> k = h + 1
  <2> DEFINE j == 2 * (k - 1)
  <2>1. /\ j \in Nat /\ j % 2 = 0
        /\ ro.cursor + j + 1 = ro.cursor + 2 * k - 1
        /\ ro.cursor + j + 2 = ro.cursor + 2 * k
        /\ (k = h + 1 <=> j = n)
        /\ (k # h + 1 => j \in 0..(n - 1))
    BY <1>0, <1>9
  <2> HIDE DEF j
  <2>2. Pair(src, ro, j) <=> j = n
    BY <1>8, <1>9, <2>1
  <2> QED
    BY <2>1, <2>2 DEF Pair
<1>12. h + 1 \in 1..(h + 1)
  BY <1>9
<1> QED
  BY <1>5, <1>10, <1>11, <1>12

\* Only the spans of strings are called by these names.
LEMMA OtherCalls ==
    ASSUME BufNext
    PROVE  SpanStringAscii \/ SpanStringUtf16 \/ call'.fn \notin {"ascii", "utf16"}
<1>1. \A n : ExtractArray(n) => call'.fn = "extract_array"
  BY DEF ExtractArray, OnRo, Called
<1>2. \A n : InsertArray(n) => call'.fn = "insert_array"
  BY DEF InsertArray, OnRw, Called
<1>3. \A n : SpanRequired(n) => call'.fn = "span_required"
  BY DEF SpanRequired, Span, OnRo, Called
<1>4. \A n : Skip(n) => call'.fn = "skip"
  BY DEF Skip, OnRw, Called
<1>5. \A n : SpanUntilTrailer(n) => call'.fn = "span_until"
  BY DEF SpanUntilTrailer, Span, OnRo, Called
<1>6. \A n : Copy(n) => call'.fn = "copy"
  BY DEF Copy, Called
<1>7. \A ctx : CopyString(ctx) => call'.fn = "copy_string"
  BY DEF CopyString, Called
<1>8. Extract => call'.fn = "extract"
  BY DEF Extract, OnRo, Called
<1>9. Insert => call'.fn = "insert"
  BY DEF Insert, OnRw, Called
<1>10. \A s, n : pldm_msgbuf_ro_init_errno(s, n) => call'.fn = "init"
  BY DEF pldm_msgbuf_ro_init_errno, Called
<1>11. \A m, n : pldm_msgbuf_rw_init_errno(m, n) => call'.fn = "init"
  BY DEF pldm_msgbuf_rw_init_errno, Called
<1>12. SpanRest => call'.fn = "span_remaining"
  BY DEF SpanRest, Span, OnRo, Called
<1>13. /\ ArrayTooLarge => call'.fn = "array"
       /\ FieldBegin => call'.fn = "field_begin"
       /\ FieldEnd => call'.fn = "field_end"
  BY DEF ArrayTooLarge, FieldBegin, FieldEnd, Called
<1>14. /\ pldm_msgbuf_ro_complete => call'.fn = "ro_complete"
       /\ pldm_msgbuf_ro_complete_consumed => call'.fn = "ro_complete_consumed"
       /\ pldm_msgbuf_ro_discard("EPROTO") => call'.fn = "ro_discard"
  BY DEF pldm_msgbuf_ro_complete, pldm_msgbuf_ro_complete_consumed,
         pldm_msgbuf_ro_discard, Called
<1>15. /\ pldm_msgbuf_rw_complete => call'.fn = "rw_complete"
       /\ pldm_msgbuf_rw_complete_consumed => call'.fn = "rw_complete_consumed"
       /\ pldm_msgbuf_rw_discard("EPROTO") => call'.fn = "rw_discard"
       /\ pldm_msgbuf_complete_used(sink) => call'.fn = "rw_complete_used"
  BY DEF pldm_msgbuf_rw_complete, pldm_msgbuf_rw_complete_consumed,
         pldm_msgbuf_rw_discard, pldm_msgbuf_complete_used, Called
<1> QED
  BY <1>1, <1>2, <1>3, <1>4, <1>5, <1>6, <1>7, <1>8, <1>9, <1>10, <1>11, <1>12,
     <1>13, <1>14, <1>15
  DEF BufNext, pldm_msgbuf_copy_string_ascii, pldm_msgbuf_copy_string_utf16

\* A span of a string leaves what was promised of it in the call.
LEMMA FirstTerminatorStep == Inv /\ FirstTerminator /\ [BufNext]_bufvars => FirstTerminator'
<1> SUFFICES ASSUME Inv, FirstTerminator, [BufNext]_bufvars PROVE FirstTerminator'
  OBVIOUS
<1>1. CASE SpanStringAscii
  <2>1. PICK ctx \in AfterAscii : Span("ascii", ctx)
    BY <1>1 DEF SpanStringAscii
  <2>2. /\ src' = src
        /\ call'.fn = "ascii" /\ call'.rc = Result(ctx)
        /\ call'.at = ro.cursor /\ call'.len = ctx.cursor - ro.cursor
    BY <2>1 DEF Span, OnRo, Called
  <2>3. Result(ctx) = "OK" => ctx.remaining >= 0
    <3>1. ctx \in Context
      BY StringMoves DEF Moves
    <3> QED
      BY <3>1, IntmaxAssumption DEF Result, Context, INTMAX_MIN
  <2> QED
    BY <2>2, <2>3, AsciiEnds DEF FirstTerminator
<1>2. CASE SpanStringUtf16
  <2>1. PICK ctx \in AfterUtf16 : Span("utf16", ctx)
    BY <1>2 DEF SpanStringUtf16
  <2>2. /\ src' = src
        /\ call'.fn = "utf16" /\ call'.rc = Result(ctx)
        /\ call'.at = ro.cursor /\ call'.len = ctx.cursor - ro.cursor
    BY <2>1 DEF Span, OnRo, Called
  <2>3. Result(ctx) = "OK" => ctx.remaining >= 0
    <3>1. ctx \in Context
      BY StringMoves DEF Moves
    <3> QED
      BY <3>1, IntmaxAssumption DEF Result, Context, INTMAX_MIN
  <2> QED
    BY <2>2, <2>3, Utf16Ends DEF FirstTerminator
<1>3. CASE call'.fn \notin {"ascii", "utf16"}
  BY <1>3 DEF FirstTerminator
<1>4. CASE UNCHANGED bufvars
  BY <1>4 DEF bufvars, FirstTerminator
<1> QED
  BY <1>1, <1>2, <1>3, <1>4, OtherCalls

\* A string that pldm__msgbuf_span_string_ascii or _utf16 finds ends with its
\* first terminator: no NUL inside it, and for UTF-16 none that is made of
\* halves of two code points, whatever the message.
THEOREM MsgbufFirstTerminator == BufSpec => []FirstTerminator
<1>1. BufInit => FirstTerminator
  <2>1. Idle.fn \notin {"ascii", "utf16"}
    BY DEF Idle, Called
  <2> QED
    BY <2>1 DEF BufInit, FirstTerminator
<1> QED
  BY <1>1, FirstTerminatorStep, BufInvariant, PTL DEF BufSpec
-----------------------------------------------------------------------------
(* The BIOS tables.                                                         *)

USE SMTT(30), Z3T(30), ZenonT(30)

\* The kinds of tables.
Kinds == {STRING_TABLE, ATTR_TABLE, ATTR_VAL_TABLE}

\* An entry of the table at hand: it has a handle, and is not empty.
SoundEntry(e) ==
    /\ "handle" \in DOMAIN e /\ e.handle \in Nat
    /\ EntryLength(e) \in Nat /\ EntryLength(e) >= 4

SoundEntries(es) == \A i \in 1..Len(es) : SoundEntry(es[i])

\* The entries es begin at off[0], off[1] and so on in the bytes, and are all of
\* them.
LaidAt(bytes, es, off) ==
    /\ off \in [0..Len(es) -> 0..Len(bytes)]
    /\ off[0] = 0 /\ off[Len(es)] = Len(bytes)
    /\ \A i \in 0..Len(es) : i <= off[i]
    /\ \A i \in 1..Len(es) :
          /\ off[i] = off[i - 1] + EntryLength(es[i])
          /\ \A k \in 1..EntryLength(es[i]) : bytes[off[i - 1] + k] = <<es[i], k>>

\* The bytes are those of the entries es, one behind the other.
Laid(bytes, es) ==
    /\ \A q \in 1..Len(bytes) : \E i \in 1..Len(es) : \E k \in Nat : bytes[q] = <<es[i], k>>
    /\ \E off : LaidAt(bytes, es, off)

\* One sequence behind another.
LEMMA ConcatIs ==
    ASSUME NEW A, NEW s \in Seq(A), NEW B, NEW t \in Seq(B)
    PROVE  /\ s \o t \in Seq(A \cup B)
           /\ Len(s \o t) = Len(s) + Len(t)
           /\ \A q \in 1..Len(s) : (s \o t)[q] = s[q]
           /\ \A k \in 1..Len(t) : (s \o t)[Len(s) + k] = t[k]
<1>1. s \in Seq(A \cup B) /\ t \in Seq(A \cup B)
  OBVIOUS
<1> QED
  BY <1>1

\* The bytes of an entry.
LEMMA EntryBytesAre ==
    ASSUME NEW e, NEW n \in Nat
    PROVE  /\ EntryBytes(e, n) \in Seq({<<e, k>> : k \in 1..n})
           /\ Len(EntryBytes(e, n)) = n
           /\ \A k \in 1..n : EntryBytes(e, n)[k] = <<e, k>>
BY DEF EntryBytes

\* No entry, no bytes.
LEMMA LaidEmpty == Laid(<<>>, <<>>)
<1>1. LaidAt(<<>>, <<>>, [i \in 0..0 |-> 0])
  BY DEF LaidAt
<1> QED
  BY <1>1 DEF Laid

\* An entry is written behind the others.
LEMMA LaidAppend ==
    ASSUME NEW B, NEW bytes \in Seq(B), NEW S, NEW es \in Seq(S), Laid(bytes, es),
           SoundEntries(es), NEW e, SoundEntry(e)
    PROVE  Laid(bytes \o EntryBytes(e, EntryLength(e)), Append(es, e))
<1> DEFINE n == Len(es)
           len == EntryLength(e)
           new == EntryBytes(e, len)
           all == bytes \o new
           more == Append(es, e)
<1>1. PICK off : LaidAt(bytes, es, off)
  BY DEF Laid
<1> DEFINE off2 == [i \in 0..(n + 1) |-> IF i = n + 1 THEN Len(bytes) + len ELSE off[i]]
<1>2. len \in Nat /\ len >= 4 /\ n \in Nat /\ Len(bytes) \in Nat
  BY DEF SoundEntry
<1> HIDE DEF len
<1>3. Len(new) = len /\ new \in Seq({<<e, k>> : k \in 1..len}) /\ \A k \in 1..len : new[k] = <<e, k>>
  BY <1>2, EntryBytesAre
<1> HIDE DEF new
<1>4. /\ Len(all) = Len(bytes) + len
      /\ \A q \in 1..Len(bytes) : all[q] = bytes[q]
      /\ \A k \in 1..len : all[Len(bytes) + k] = <<e, k>>
  <2>1. /\ Len(all) = Len(bytes) + Len(new)
        /\ \A q \in 1..Len(bytes) : all[q] = bytes[q]
        /\ \A k \in 1..Len(new) : all[Len(bytes) + k] = new[k]
    <3> DEFINE W == {<<e, k>> : k \in 1..len}
    <3>1. new \in Seq(W)
      BY <1>3
    <3> HIDE DEF W
    <3> QED
      BY <3>1, ConcatIs
  <2> HIDE DEF all
  <2> QED
    BY <1>3, <2>1
<1>5. /\ Len(more) = n + 1 /\ more[n + 1] = e
      /\ \A i \in 1..n : more[i] = es[i]
  OBVIOUS
<1> HIDE DEF all, more
<1>6. LaidAt(all, more, off2)
  <2>0. \A i \in 0..n : off[i] \in 0..Len(bytes)
    BY <1>1 DEF LaidAt
  <2>1. /\ off \in [0..n -> 0..Len(bytes)] /\ off[0] = 0 /\ off[n] = Len(bytes)
        /\ \A i \in 0..n : i <= off[i]
        /\ \A i \in 1..n :
              /\ off[i] = off[i - 1] + EntryLength(es[i])
              /\ \A k \in 1..EntryLength(es[i]) : bytes[off[i - 1] + k] = <<es[i], k>>
    BY <1>1 DEF LaidAt
  <2>2. off2 \in [0..(n + 1) -> 0..Len(all)] /\ off2[0] = 0 /\ off2[n + 1] = Len(all)
    BY <1>2, <1>4, <2>1
  <2>3. \A i \in 0..(n + 1) : i <= off2[i]
    BY <1>2, <2>1
  <2>4. ASSUME NEW i \in 1..(n + 1)
        PROVE  /\ off2[i] = off2[i - 1] + EntryLength(more[i])
               /\ \A k \in 1..EntryLength(more[i]) : all[off2[i - 1] + k] = <<more[i], k>>
    <3>1. CASE i = n + 1
      <4>1. off2[i] = Len(bytes) + len /\ off2[i - 1] = Len(bytes) /\ more[i] = e
        BY <1>2, <1>5, <2>1, <3>1
      <4> HIDE DEF off2
      <4> QED
        BY <1>4, <4>1 DEF len
    <3>2. CASE i # n + 1
      <4>1. i \in 1..n /\ i - 1 \in 0..n /\ off2[i] = off[i] /\ off2[i - 1] = off[i - 1]
        BY <1>2, <3>2
      <4>2. off[i] = off[i - 1] + EntryLength(es[i]) /\ more[i] = es[i]
        BY <1>5, <2>1, <4>1
      <4>3. ASSUME NEW k \in 1..EntryLength(es[i])
            PROVE  all[off[i - 1] + k] = <<es[i], k>>
        <5>1. bytes[off[i - 1] + k] = <<es[i], k>>
          BY <2>1, <4>1, ZenonT(30)
        <5>2. off[i - 1] \in 0..Len(bytes) /\ off[i] \in 0..Len(bytes)
          BY <2>0, <4>1
        <5>3. EntryLength(es[i]) \in Nat
          BY <4>1 DEF SoundEntries, SoundEntry
        <5>4. off[i - 1] + k \in 1..Len(bytes)
          BY <1>2, <4>2, <5>2, <5>3
        <5> QED
          BY <1>4, <5>1, <5>4
      <4> QED
        BY <4>1, <4>2, <4>3
    <3> QED
      BY <3>1, <3>2, ZenonT(30)
  <2> HIDE DEF off2
  <2> QED
    BY <1>5, <2>2, <2>3, <2>4 DEF LaidAt
<1>7. ASSUME NEW q \in 1..Len(all)
      PROVE  \E i \in 1..Len(more) : \E k \in Nat : all[q] = <<more[i], k>>
  <2>1. CASE q <= Len(bytes)
    <3>1. PICK i \in 1..n : \E k \in Nat : bytes[q] = <<es[i], k>>
      BY <1>4, <2>1 DEF Laid
    <3> QED
      BY <1>4, <1>5, <2>1, <3>1
  <2>2. CASE q > Len(bytes)
    <3>1. q - Len(bytes) \in 1..len /\ q = Len(bytes) + (q - Len(bytes))
      BY <1>2, <1>4, <2>2
    <3>2. all[q] = <<e, q - Len(bytes)>>
      BY <1>4, <3>1
    <3> QED
      BY <1>2, <1>5, <3>1, <3>2
  <2> QED
    BY <1>2, <1>4, <2>1, <2>2
<1> HIDE DEF off2
<1>8. Laid(all, more)
  BY <1>6, <1>7, ZenonT(30) DEF Laid
<1> QED
  BY <1>8 DEF all, new, len, more

\* full is the bytes with pad bytes and the checksum behind them.
Padded(full, bytes) ==
    LET pad == pad_size_get(Len(bytes))
    IN  /\ pad \in 0..3 /\ Len(bytes) \in Nat
        /\ \E W : full \in Seq(W)
        /\ Len(full) = Len(bytes) + pad + 4
        /\ \A q \in 1..Len(bytes) : full[q] = bytes[q]
        /\ \A k \in 1..4 : full[Len(bytes) + pad + k] = <<[sum |-> Len(bytes) + pad], k>>

\* The pad bytes and the checksum are behind the entries.
LEMMA PadChecksumIs ==
    ASSUME NEW B, NEW bytes \in Seq(B)
    PROVE  Padded(PadChecksum(bytes), bytes)
<1> DEFINE pad == pad_size_get(Len(bytes))
           n == Len(bytes) + pad
           W == {<<[sum |-> n], k>> : k \in 1..4}
           pads == [k \in 1..pad |-> PadByte]
           sum == SumBytes(n)
           front == bytes \o pads
           full == front \o sum
<1>1. pad \in 0..3 /\ Len(bytes) \in Nat
  BY DEF pad_size_get
<1> HIDE DEF pad
<1>2. pads \in Seq({PadByte}) /\ Len(pads) = pad /\ \A k \in 1..pad : pads[k] = PadByte
  BY <1>1
<1> HIDE DEF pads
<1>3. sum \in Seq(W) /\ Len(sum) = 4 /\ \A k \in 1..4 : sum[k] = <<[sum |-> n], k>>
  BY DEF SumBytes
<1> HIDE DEF sum, W
<1>4. /\ front \in Seq(B \cup {PadByte}) /\ Len(front) = Len(bytes) + pad
      /\ \A q \in 1..Len(bytes) : front[q] = bytes[q]
      /\ \A k \in 1..pad : front[Len(bytes) + k] = PadByte
  <2> DEFINE P == {PadByte}
  <2>1. pads \in Seq(P)
    BY <1>2
  <2> HIDE DEF P
  <2>2. /\ front \in Seq(B \cup P) /\ Len(front) = Len(bytes) + Len(pads)
        /\ \A q \in 1..Len(bytes) : front[q] = bytes[q]
        /\ \A k \in 1..Len(pads) : front[Len(bytes) + k] = pads[k]
    BY <2>1, ConcatIs
  <2> HIDE DEF front
  <2> QED
    BY <1>2, <2>2 DEF P
<1> HIDE DEF front
<1>5. /\ full \in Seq(B \cup {PadByte} \cup W) /\ Len(full) = Len(front) + Len(sum)
      /\ \A q \in 1..Len(front) : full[q] = front[q]
      /\ \A k \in 1..Len(sum) : full[Len(front) + k] = sum[k]
  <2> DEFINE P == B \cup {PadByte}
  <2>1. front \in Seq(P)
    BY <1>4
  <2> HIDE DEF P
  <2>2. /\ full \in Seq(P \cup W) /\ Len(full) = Len(front) + Len(sum)
        /\ \A q \in 1..Len(front) : full[q] = front[q]
        /\ \A k \in 1..Len(sum) : full[Len(front) + k] = sum[k]
    <3>1. sum \in Seq(W)
      BY <1>3
    <3> QED
      BY <2>1, <3>1, ConcatIs
  <2> HIDE DEF full
  <2> QED
    BY <2>2 DEF P
<1>6. full = PadChecksum(bytes)
  BY DEF PadChecksum, full, front, pads, sum, n, pad
<1> HIDE DEF full
<1>7. \A q \in 1..Len(bytes) : full[q] = bytes[q]
  BY <1>1, <1>4, <1>5
<1>8. \A k \in 1..4 : full[n + k] = <<[sum |-> n], k>>
  BY <1>1, <1>3, <1>4, <1>5
<1>9. Len(full) = Len(bytes) + pad + 4
  BY <1>3, <1>4, <1>5
<1>10. \E V : full \in Seq(V)
  BY <1>5, ZenonT(30)
<1> QED
  BY <1>1, <1>6, <1>7, <1>8, <1>9, <1>10 DEF pad, Padded

\* What the iterator meets in full: the entries es, at off[0], off[1] and so on.
ReadsAs(full, es, off) ==
    /\ Len(full) \in Nat /\ Len(es) <= Len(full)
    /\ off \in [0..Len(es) -> Nat] /\ off[0] = 0
    /\ \A i \in 1..Len(es) :
          /\ off[i] = off[i - 1] + EntryLength(es[i])
          /\ pldm_bios_table_iter_value(full, off[i - 1]) = es[i]
          /\ ~pldm_bios_table_iter_is_end(full, off[i - 1])
          /\ SubSeq(full, off[i - 1] + 1, off[i]) = EntryBytes(es[i], EntryLength(es[i]))
    /\ pldm_bios_table_iter_is_end(full, off[Len(es)])
    /\ Len(full) - off[Len(es)] <= pad_and_check_max
    /\ \A p \in Nat : ~pldm_bios_table_iter_is_end(full, p) =>
          \E i \in 1..Len(es) : pldm_bios_table_iter_value(full, p) = es[i]

\* The pad bytes and the checksum hide no entry from the iterator and show it none.
LEMMA ClosedReads ==
    ASSUME NEW B, NEW bytes \in Seq(B), NEW S, NEW es \in Seq(S), SoundEntries(es),
           NEW off, LaidAt(bytes, es, off), Laid(bytes, es)
    PROVE  ReadsAs(PadChecksum(bytes), es, off)
<1> DEFINE pad == pad_size_get(Len(bytes))
           full == PadChecksum(bytes)
           n == Len(es)
<1>p. Padded(full, bytes)
  BY PadChecksumIs
<1>w. PICK W : full \in Seq(W)
  BY <1>p DEF Padded
<1>1. /\ pad \in 0..3
      /\ full \in Seq(W)
      /\ Len(full) = Len(bytes) + pad + 4
      /\ \A q \in 1..Len(bytes) : full[q] = bytes[q]
  BY <1>p, <1>w DEF Padded
<1>2. n \in Nat /\ Len(bytes) \in Nat
  OBVIOUS
<1> HIDE DEF pad, full
<1>0. Len(bytes) < Len(full) /\ Len(full) \in Nat
  BY <1>1, <1>2
<1>3. /\ off[0] = 0 /\ off[n] = Len(bytes) /\ off \in [0..n -> Nat]
      /\ \A i \in 0..n : off[i] \in 0..Len(bytes) /\ i <= off[i]
  BY <1>2 DEF LaidAt
<1>4. ASSUME NEW i \in 1..n
      PROVE  /\ off[i] = off[i - 1] + EntryLength(es[i])
             /\ \A k \in 1..EntryLength(es[i]) : full[off[i - 1] + k] = <<es[i], k>>
             /\ EntryLength(es[i]) \in Nat /\ EntryLength(es[i]) >= 4
             /\ off[i - 1] \in 0..Len(bytes) /\ off[i] \in 0..Len(bytes)
  <2>1. off[i - 1] \in 0..Len(bytes) /\ off[i] \in 0..Len(bytes)
    BY <1>2, <1>3
  <2>2. off[i] = off[i - 1] + EntryLength(es[i])
    BY DEF LaidAt
  <2>3. EntryLength(es[i]) \in Nat /\ EntryLength(es[i]) >= 4
    BY DEF SoundEntries, SoundEntry
  <2>4. ASSUME NEW k \in 1..EntryLength(es[i])
        PROVE  full[off[i - 1] + k] = <<es[i], k>>
    <3>1. bytes[off[i - 1] + k] = <<es[i], k>>
      BY DEF LaidAt
    <3>2. off[i - 1] + k \in 1..Len(bytes)
      BY <1>2, <2>1, <2>2, <2>3
    <3> QED
      BY <1>1, <3>1, <3>2
  <2> QED
    BY <2>1, <2>2, <2>3, <2>4
<1>5. ASSUME NEW i \in 1..n
      PROVE  /\ pldm_bios_table_iter_value(full, off[i - 1]) = es[i]
             /\ ~pldm_bios_table_iter_is_end(full, off[i - 1])
  <2>1. full[off[i - 1] + 1] = <<es[i], 1>>
    <3>1. 1 \in 1..EntryLength(es[i])
      BY <1>4
    <3> QED
      BY <1>4, <3>1
  <2>2. "handle" \in DOMAIN es[i]
    BY DEF SoundEntries, SoundEntry
  <2>3. pldm_bios_table_iter_value(full, off[i - 1]) = es[i]
    BY <2>1, <2>2 DEF pldm_bios_table_iter_value
  <2>4. es[i] # Garbage
    BY <2>2 DEF Garbage
  <2>5. off[i - 1] + 8 <= Len(full)
    <3> DEFINE o == off[i - 1]
               len == EntryLength(es[i])
    <3>0. /\ off[i] = o + len /\ len \in Nat /\ len >= 4
          /\ o \in 0..Len(bytes) /\ off[i] \in 0..Len(bytes)
      BY <1>4, ZenonT(30)
    <3> HIDE DEF o, len
    <3>1. o \in Nat /\ o + 4 <= Len(bytes)
      BY <1>2, <3>0
    <3>2. Len(full) >= Len(bytes) + 4
      BY <1>1, <1>2
    <3> QED
      BY <1>0, <1>2, <3>1, <3>2 DEF o
  <2>6. ~(off[i - 1] > Len(full)) /\ ~(Len(full) - off[i - 1] <= 7)
    BY <1>1, <1>2, <1>4, <2>5
  <2> QED
    BY <2>3, <2>4, <2>6 DEF pldm_bios_table_iter_is_end, pad_and_check_max
<1>6. ASSUME NEW i \in 1..n
      PROVE  SubSeq(full, off[i - 1] + 1, off[i]) = EntryBytes(es[i], EntryLength(es[i]))
  <2> DEFINE a == off[i - 1] + 1
             b == off[i]
             part == SubSeq(full, a, b)
             len == EntryLength(es[i])
  <2>0. /\ off[i] = off[i - 1] + len /\ len \in Nat /\ len >= 4
        /\ off[i - 1] \in 0..Len(bytes) /\ off[i] \in 0..Len(bytes)
        /\ \A k \in 1..len : full[off[i - 1] + k] = <<es[i], k>>
    BY <1>4
  <2> HIDE DEF len
  <2>1. a \in 1..Len(full) /\ b \in 1..Len(full) /\ b - a + 1 = len /\ len \in Nat
    BY <1>0, <1>2, <2>0
  <2>2. ASSUME NEW k \in 1..len
        PROVE  full[a + k - 1] = <<es[i], k>>
    <3>1. a + k - 1 = off[i - 1] + k
      BY <1>2, <2>0
    <3> HIDE DEF a
    <3> QED
      BY <2>0, <3>1, ZenonT(30)
  <2> HIDE DEF a, b, len
  <2>3. part = [k \in 1..len |-> full[a + k - 1]]
    BY <1>1, <2>1
  <2>4. part = [k \in 1..len |-> <<es[i], k>>]
    BY <2>2, <2>3
  <2> QED
    BY <2>4 DEF EntryBytes, a, b, len
<1>7. /\ Len(full) - off[n] <= pad_and_check_max
      /\ pldm_bios_table_iter_is_end(full, off[n])
  BY <1>1, <1>2, <1>3 DEF pad_and_check_max, pldm_bios_table_iter_is_end
<1>8. Len(full) \in Nat /\ n <= Len(full)
  BY <1>1, <1>2, <1>3
<1>9. ASSUME NEW p \in Nat, ~pldm_bios_table_iter_is_end(full, p)
      PROVE  \E i \in 1..n : pldm_bios_table_iter_value(full, p) = es[i]
  <2>1. p + 1 \in 1..Len(full) /\ p + 7 < Len(full)
    BY <1>8, <1>9 DEF pldm_bios_table_iter_is_end, pad_and_check_max
  <2>2. p + 1 \in 1..Len(bytes)
    BY <1>1, <1>2, <2>1
  <2>3. PICK i \in 1..n : \E k \in Nat : bytes[p + 1] = <<es[i], k>>
    BY <2>2 DEF Laid
  <2>4. full[p + 1][1] = es[i]
    BY <1>1, <2>2, <2>3
  <2>5. pldm_bios_table_iter_value(full, p) # Garbage
    BY <1>9 DEF pldm_bios_table_iter_is_end
  <2> QED
    BY <2>4, <2>5 DEF pldm_bios_table_iter_value
<1> QED
  BY <1>3, <1>4, <1>5, <1>6, <1>7, <1>8, <1>9, ZenonT(30) DEF ReadsAs, full

\* A first element before the rest of a sequence.
LEMMA FrontIs ==
    ASSUME NEW S, NEW es \in Seq(S), NEW i \in 0..(Len(es) - 1)
    PROVE  <<es[i + 1]>> \o [j \in 1..(Len(es) - (i + 1)) |-> es[i + 1 + j]]
               = [j \in 1..(Len(es) - i) |-> es[i + j]]
<1> DEFINE n == Len(es)
           x == <<es[i + 1]>>
           y == [j \in 1..(n - (i + 1)) |-> es[i + 1 + j]]
           z == [j \in 1..(n - i) |-> es[i + j]]
<1>1. n \in Nat /\ i \in Nat /\ i + 1 \in 1..n
  OBVIOUS
<1>2. x \in Seq(S) /\ Len(x) = 1 /\ x[1] = es[i + 1]
  BY <1>1
<1>3. y \in Seq(S) /\ Len(y) = n - (i + 1)
  <2>1. \A j \in 1..(n - (i + 1)) : i + 1 + j \in 1..n
    BY <1>1
  <2> QED
    BY <1>1, <2>1
<1>4. \A j \in 1..(n - (i + 1)) : y[j] = es[i + 1 + j]
  OBVIOUS
<1> HIDE DEF x, y
<1>5. /\ x \o y \in Seq(S) /\ Len(x \o y) = Len(x) + Len(y)
      /\ \A q \in 1..Len(x) : (x \o y)[q] = x[q]
      /\ \A k \in 1..Len(y) : (x \o y)[Len(x) + k] = y[k]
  <2>1. x \in Seq(S) /\ y \in Seq(S)
    BY <1>2, <1>3
  <2> QED
    BY <2>1
<1> DEFINE w == x \o y
<1> HIDE DEF w, n
<1>6. w = [j \in 1..(n - i) |-> w[j]]
  <2>1. w \in Seq(S) /\ Len(w) = n - i
    BY <1>1, <1>2, <1>3, <1>5 DEF w
  <2> QED
    BY <2>1
<1>7. ASSUME NEW j \in 1..(n - i) PROVE w[j] = es[i + j]
  <2>1. CASE j = 1
    BY <1>2, <1>5, <2>1 DEF w
  <2>2. CASE j # 1
    <3>1. j - 1 \in 1..(n - (i + 1)) /\ i + 1 + (j - 1) = i + j /\ 1 + (j - 1) = j
      BY <1>1, <2>2
    <3>2. w[1 + (j - 1)] = y[j - 1]
      BY <1>2, <1>3, <1>5, <3>1 DEF w
    <3> QED
      BY <1>4, <3>1, <3>2
  <2> QED
    BY <2>1, <2>2
<1>8. w = z
  BY <1>6, <1>7
<1> QED
  BY <1>8 DEF w, x, y, n

\* The walk comes to the entries and to nothing else.
LEMMA WalkIs ==
    ASSUME NEW S, NEW es \in Seq(S), SoundEntries(es), NEW full, NEW off,
           ReadsAs(full, es, off)
    PROVE  Walk(full) = es
<1> DEFINE n == Len(es)
           End(p) == pldm_bios_table_iter_is_end(full, p)
           E(p) == pldm_bios_table_iter_value(full, p)
           Last(p) == IF Len(full) - p > pad_and_check_max THEN <<Garbage>> ELSE <<>>
           Body(f) == [current_pos \in Nat |->
                          LET e == pldm_bios_table_iter_value(full, current_pos)
                          IN  IF pldm_bios_table_iter_is_end(full, current_pos)
                              THEN IF Len(full) - current_pos > pad_and_check_max
                                   THEN <<Garbage>> ELSE <<>>
                              ELSE <<e>> \o f[current_pos + EntryLength(e)]]
           from == CHOOSE f : f = Body(f)
           T == Seq(S \cup {Garbage})
<1>0. n \in Nat /\ Len(full) \in Nat
  BY DEF ReadsAs
<1>1. Walk(full) = from[0]
  BY DEF Walk
<1>2. ASSUME NEW f, NEW p \in Nat
      PROVE  Body(f)[p] = IF End(p) THEN Last(p) ELSE <<E(p)>> \o f[p + EntryLength(E(p))]
  OBVIOUS
<1>3. ASSUME NEW p \in Nat, ~End(p)
      PROVE  /\ E(p) \in S /\ EntryLength(E(p)) \in Nat /\ EntryLength(E(p)) >= 4
             /\ p <= Len(full)
  <2>1. PICK i \in 1..n : E(p) = es[i]
    BY <1>3 DEF ReadsAs
  <2>2. EntryLength(es[i]) \in Nat /\ EntryLength(es[i]) >= 4 /\ es[i] \in S
    BY DEF SoundEntries, SoundEntry
  <2>3. p <= Len(full)
    BY <1>0, <1>3 DEF pldm_bios_table_iter_is_end
  <2> HIDE DEF E
  <2> QED
    BY <2>1, <2>2, <2>3
<1>4. ASSUME NEW p \in Nat PROVE Last(p) \in T
  <2>1. <<>> \in T /\ <<Garbage>> \in T
    OBVIOUS
  <2> HIDE DEF T
  <2> QED
    BY <2>1
<1> HIDE DEF End, E, Last, n
<1>5. \E f : f = Body(f)
  <2> DEFINE Next(p) == p + EntryLength(E(p))
             m == [p \in Nat |-> IF p <= Len(full) THEN Len(full) + 1 - p ELSE 0]
             step == [p \in Nat |-> [g \in [Nat -> T] |->
                         IF End(p) THEN Last(p) ELSE <<E(p)>> \o g[Next(p)]]]
  <2>1. m \in [Nat -> Nat]
    BY <1>0
  <2>2. ASSUME NEW p \in Nat, ~End(p) PROVE Next(p) \in Nat /\ m[Next(p)] < m[p]
    BY <1>0, <1>3, <2>2
  <2> HIDE DEF Next
  <2>3. step \in [Nat -> [[Nat -> T] -> T]]
    <3>1. ASSUME NEW p \in Nat, NEW g \in [Nat -> T]
          PROVE  (IF End(p) THEN Last(p) ELSE <<E(p)>> \o g[Next(p)]) \in T
      <4>1. CASE End(p)
        BY <1>4, <4>1
      <4>2. CASE ~End(p)
        <5>1. <<E(p)>> \in T
          BY <1>3, <4>2
        <5>2. g[Next(p)] \in T
          BY <2>2, <4>2, ZenonT(30)
        <5> QED
          BY <4>2, <5>1, <5>2
      <4> QED
        BY <4>1, <4>2
    <3> HIDE DEF T
    <3> QED
      BY <3>1
  <2> HIDE DEF T, m
  <2>4. ASSUME NEW p \in Nat, NEW g \in [Nat -> T], NEW h \in [Nat -> T],
               \A j \in Nat : m[j] < m[p] => g[j] = h[j]
        PROVE  step[p][g] = step[p][h]
    <3>1. CASE End(p)
      BY <3>1
    <3>2. CASE ~End(p)
      <4>1. g[Next(p)] = h[Next(p)]
        BY <2>2, <2>4, <3>2
      <4> QED
        BY <3>2, <4>1
    <3> QED
      BY <3>1, <3>2
  <2>5. T # {}
    <3>1. <<>> \in T
      BY DEF T
    <3> QED
      BY <3>1
  <2>6. Recursive(Nat, T, m, step)
    <3> HIDE DEF step
    <3> QED
      BY <2>1, <2>3, <2>4, <2>5, ZenonT(30) DEF Recursive
  <2>7. PICK f \in [Nat -> T] : \A p \in Nat : f[p] = step[p][f]
    <3> HIDE DEF step
    <3> QED
      BY <2>6, Recursion DEF Defines
  <2>8. ASSUME NEW p \in Nat PROVE f[p] = Body(f)[p]
    <3>1. f[p] = IF End(p) THEN Last(p) ELSE <<E(p)>> \o f[Next(p)]
      BY <2>7
    <3>2. Body(f)[p] = IF End(p) THEN Last(p) ELSE <<E(p)>> \o f[p + EntryLength(E(p))]
      BY <1>2, ZenonT(30)
    <3> HIDE DEF Body
    <3> QED
      BY <3>1, <3>2 DEF Next
  <2>9. f = [p \in Nat |-> f[p]] /\ Body(f) = [p \in Nat |-> Body(f)[p]]
    OBVIOUS
  <2> HIDE DEF Body
  <2>10. f = Body(f)
    BY <2>8, <2>9
  <2> QED
    BY <2>10
<1> HIDE DEF Body
<1>6. from = Body(from)
  BY <1>5
<1> HIDE DEF from
<1>7. ASSUME NEW p \in Nat
      PROVE  from[p] = IF End(p) THEN Last(p) ELSE <<E(p)>> \o from[p + EntryLength(E(p))]
  BY <1>2, <1>6, ZenonT(30)
<1> DEFINE Rest(i) == [j \in 1..(n - i) |-> es[i + j]]
           Bad == {i \in 0..n : from[off[i]] # Rest(i)}
<1>8. off \in [0..n -> Nat] /\ off[0] = 0
  BY DEF ReadsAs, n
<1>9. n \notin Bad
  <2>1. End(off[n]) /\ ~(Len(full) - off[n] > pad_and_check_max) /\ off[n] \in Nat
    BY <1>0, <1>8 DEF ReadsAs, End, n, pad_and_check_max
  <2>2. from[off[n]] = <<>>
    BY <1>7, <2>1, ZenonT(30) DEF Last
  <2>3. Rest(n) = <<>>
    BY <1>0
  <2> QED
    BY <2>2, <2>3
<1>10. ASSUME NEW i \in 0..(n - 1), i + 1 \notin Bad PROVE i \notin Bad
  <2>1. i + 1 \in 1..n /\ (i + 1) - 1 = i /\ off[i] \in Nat
    BY <1>0, <1>8
  <2>2. ~End(off[i]) /\ E(off[i]) = es[i + 1] /\ off[i + 1] = off[i] + EntryLength(es[i + 1])
    BY <2>1 DEF ReadsAs, End, E, n
  <2>3. from[off[i]] = <<es[i + 1]>> \o from[off[i + 1]]
    BY <1>7, <2>1, <2>2, ZenonT(30)
  <2>4. from[off[i + 1]] = Rest(i + 1)
    BY <1>10, <2>1
  <2>5. <<es[i + 1]>> \o Rest(i + 1) = Rest(i)
    BY FrontIs DEF n
  <2> QED
    BY <2>3, <2>4, <2>5, ZenonT(30)
<1>11. Bad = {}
  <2> SUFFICES ASSUME Bad # {} PROVE FALSE
    BY ZenonT(30)
  <2>1. Bad \subseteq Nat /\ \A i \in Bad : i <= n
    BY <1>0
  <2>2. PICK i \in Bad : \A j \in Bad : j <= i
    <3> HIDE DEF Bad
    <3> QED
      BY <1>0, <2>1, Greatest, ZenonT(30)
  <2>3. i \in 0..n
    OBVIOUS
  <2> HIDE DEF Bad
  <2>4. i # n /\ i \in 0..(n - 1)
    BY <1>0, <1>9, <2>3
  <2>5. i + 1 \in Bad
    BY <1>10, <2>4
  <2> QED
    BY <2>2, <2>3, <2>5, <1>0
<1>12. from[0] = Rest(0)
  BY <1>0, <1>8, <1>11
<1>13. Rest(0) = es
  <2>1. \A j \in 1..n : 0 + j = j
    BY <1>0
  <2>2. Rest(0) = [j \in 1..n |-> es[j]]
    BY <1>0, <2>1
  <2> QED
    BY <2>2 DEF n
<1> QED
  BY <1>1, <1>12, <1>13

\* The entries es with u for those of its handle.
Updated(es, u) == [i \in DOMAIN es |-> IF es[i].handle = u.handle THEN u ELSE es[i]]

CopyState(p, c, b) == [current_pos |-> p, rc |-> c, bytes |-> b]

\* A turn of the loop from entry j + 1 on, with b copied: there is none, or the turn
\* fails, or it copies the entry.
Turned(t, es, off, u, j, b) ==
    LET e == Updated(es, u)[j + 1]
    IN  \/ j = Len(es) /\ t = CopyState(off[j], "SUCCESS", b)
        \/ t = CopyState(off[j], "INVALID_DATA", b)
        \/ t = CopyState(off[j], "INVALID_LENGTH", b)
        \/ /\ j + 1 \in 1..Len(es)
           /\ t = CopyState(off[j + 1], "SUCCESS", b \o EntryBytes(e, EntryLength(e)))

\* The turns of the loop that copies are such turns.
LEMMA CopyTurnIs ==
    ASSUME NEW S, NEW es \in Seq(S), SoundEntries(es), NEW off, ReadsAs(table, es, off),
           NEW u, SoundEntry(u), ValueWritten(u) = EntryLength(u), NEW max,
           NEW j \in 0..Len(es), NEW b
    PROVE  Turned(CopyTurn(CopyState(off[j], "SUCCESS", b), u, max), es, off, u, j, b)
<1> DEFINE c == CopyState(off[j], "SUCCESS", b)
           t == CopyTurn(c, u, max)
           e == Updated(es, u)[j + 1]
           n == Len(es)
<1>1. c.rc = "SUCCESS" /\ c.current_pos = off[j] /\ c.bytes = b
  BY DEF CopyState
<1>2. CASE j = n
  <2>1. pldm_bios_table_iter_is_end(table, off[j])
    BY <1>2 DEF ReadsAs
  <2> HIDE DEF c
  <2>2. t = c
    BY <1>1, <2>1 DEF CopyTurn
  <2> QED
    BY <1>2, <2>2 DEF c, t, Turned
<1>3. CASE j # n
  <2> DEFINE tmp == pldm_bios_table_iter_value(table, c.current_pos)
             next == c.current_pos + EntryLength(tmp)
             same == tmp.handle = u.handle
             bytes == IF same THEN EntryBytes(u, ValueWritten(u))
                              ELSE SubSeq(table, c.current_pos + 1, next)
  <2>0. j + 1 \in 1..n /\ (j + 1) - 1 = j
    BY <1>3
  <2>1. /\ pldm_bios_table_iter_value(table, off[j]) = es[j + 1]
        /\ off[j + 1] = off[j] + EntryLength(es[j + 1])
        /\ ~pldm_bios_table_iter_is_end(table, off[j])
        /\ SubSeq(table, off[j] + 1, off[j + 1]) = EntryBytes(es[j + 1], EntryLength(es[j + 1]))
    BY <2>0 DEF ReadsAs
  <2>2. e = IF es[j + 1].handle = u.handle THEN u ELSE es[j + 1]
    BY <2>0 DEF Updated
  <2>3. t = IF c.rc # "SUCCESS" \/ pldm_bios_table_iter_is_end(table, c.current_pos)
            THEN c
            ELSE IF same /\ tmp.type # u.type
            THEN [c EXCEPT !.rc = "INVALID_DATA"]
            ELSE IF Len(c.bytes) + Len(bytes) > max
            THEN [c EXCEPT !.rc = "INVALID_LENGTH"]
            ELSE [current_pos |-> next, rc |-> "SUCCESS", bytes |-> c.bytes \o bytes]
    BY ZenonT(30) DEF CopyTurn
  <2>4. /\ [c EXCEPT !.rc = "INVALID_DATA"] = CopyState(off[j], "INVALID_DATA", b)
        /\ [c EXCEPT !.rc = "INVALID_LENGTH"] = CopyState(off[j], "INVALID_LENGTH", b)
    BY DEF CopyState
  <2> HIDE DEF c, t, e
  <2>5. tmp = es[j + 1] /\ next = off[j + 1]
    BY <1>1, <2>1
  <2> HIDE DEF tmp, next
  <2>6. bytes = EntryBytes(e, EntryLength(e))
    BY <1>1, <2>1, <2>2, <2>5, ZenonT(30)
  <2> HIDE DEF bytes, same
  <2>7. \/ t = CopyState(off[j], "INVALID_DATA", b)
        \/ t = CopyState(off[j], "INVALID_LENGTH", b)
        \/ t = [current_pos |-> next, rc |-> "SUCCESS", bytes |-> c.bytes \o bytes]
    BY <1>1, <2>1, <2>3, <2>4
  <2>8. [current_pos |-> next, rc |-> "SUCCESS", bytes |-> c.bytes \o bytes]
            = CopyState(off[j + 1], "SUCCESS", b \o EntryBytes(e, EntryLength(e)))
    BY <1>1, <2>5, <2>6 DEF CopyState
  <2> QED
    BY <2>0, <2>7, <2>8, ZenonT(30) DEF t, c, e, Turned
<1> QED
  BY <1>2, <1>3

\* After an error nothing is copied.
LEMMA CopyStops ==
    ASSUME NEW c, c.rc # "SUCCESS", NEW u, NEW max
    PROVE  CopyTurn(c, u, max) = c
BY DEF CopyTurn

\* The first j of the entries.
Prefix(es, j) == [k \in 1..j |-> es[k]]

\* Updated entries are sound if the entry they are updated with is.
LEMMA UpdatedIs ==
    ASSUME NEW S, NEW es \in Seq(S), SoundEntries(es), NEW u, SoundEntry(u)
    PROVE  LET new == Updated(es, u)
           IN  /\ new \in Seq(S \cup {u}) /\ Len(new) = Len(es)
               /\ \A i \in 1..Len(es) : SoundEntry(new[i])
<1> DEFINE new == Updated(es, u)
<1>1. \A i \in 1..Len(es) : new[i] = u \/ new[i] = es[i]
  BY DEF Updated
<1>2. new \in Seq(S \cup {u}) /\ Len(new) = Len(es)
  <2>1. DOMAIN es = 1..Len(es) /\ Len(es) \in Nat /\ \A i \in 1..Len(es) : es[i] \in S
    OBVIOUS
  <2>2. new = [i \in 1..Len(es) |-> IF es[i].handle = u.handle THEN u ELSE es[i]]
    BY <2>1 DEF Updated
  <2> QED
    BY <2>1, <2>2
<1> HIDE DEF new
<1>3. \A i \in 1..Len(es) : SoundEntry(es[i])
  BY DEF SoundEntries
<1> QED
  BY <1>1, <1>2, <1>3 DEF new

\* The first j + 1 entries are the first j and the next.
LEMMA PrefixIs ==
    ASSUME NEW S, NEW es \in Seq(S), NEW j \in 0..Len(es)
    PROVE  /\ Prefix(es, j) \in Seq(S) /\ Len(Prefix(es, j)) = j
           /\ \A k \in 1..j : Prefix(es, j)[k] = es[k]
           /\ j + 1 <= Len(es) => Prefix(es, j + 1) = Append(Prefix(es, j), es[j + 1])
<1>1. j \in Nat /\ \A k \in 1..j : k \in 1..Len(es) /\ es[k] \in S
  OBVIOUS
<1>2. /\ Prefix(es, j) \in Seq(S) /\ Len(Prefix(es, j)) = j
      /\ \A k \in 1..j : Prefix(es, j)[k] = es[k]
  BY <1>1 DEF Prefix
<1>3. ASSUME j + 1 <= Len(es) PROVE Prefix(es, j + 1) = Append(Prefix(es, j), es[j + 1])
  <2> DEFINE p == Prefix(es, j)
             q == Append(p, es[j + 1])
  <2>1. es[j + 1] \in S
    BY <1>1, <1>3
  <2>2. p \in Seq(S) /\ Len(p) = j
    BY <1>2
  <2> HIDE DEF p
  <2>3. q \in Seq(S) /\ Len(q) = j + 1 /\ q[j + 1] = es[j + 1] /\ \A k \in 1..j : q[k] = p[k]
    BY <2>1, <2>2
  <2> HIDE DEF q
  <2>4. \A k \in 1..(j + 1) : q[k] = es[k]
    BY <1>1, <1>2, <2>3 DEF p
  <2>5. q = [k \in 1..(j + 1) |-> q[k]]
    BY <1>1, <2>3
  <2>6. q = Prefix(es, j + 1)
    BY <2>4, <2>5 DEF Prefix
  <2> QED
    BY <2>6 DEF p, q
<1> QED
  BY <1>2, <1>3

\* What the bytes of entries in S may be.
BytesOf(S) == {<<x, k>> : x \in S, k \in Nat}

\* The copy has the bytes of the updated entries.
LEMMA CopiedEntriesIs ==
    ASSUME NEW S, NEW es \in Seq(S), SoundEntries(es), NEW off, ReadsAs(table, es, off),
           NEW u, SoundEntry(u), ValueWritten(u) = EntryLength(u), NEW max
    PROVE  LET c == CopiedEntries(u, max)
           IN  c.rc = "SUCCESS" =>
                  /\ Laid(c.bytes, Updated(es, u))
                  /\ c.bytes \in Seq(BytesOf(S \cup {u}))
<1> DEFINE n == Len(es)
           D == 0..Len(table)
           new == Updated(es, u)
           B == BytesOf(S \cup {u})
           P == {off[j] : j \in 0..n}
           Codes == {"SUCCESS", "INVALID_DATA", "INVALID_LENGTH"}
           T == [current_pos : P, rc : Codes, bytes : Seq(B)]
           Start == [current_pos |-> 0, rc |-> "SUCCESS", bytes |-> <<>>]
           Body(f) == [i \in 0..Len(table) |->
                         IF i = 0 THEN [current_pos |-> 0, rc |-> "SUCCESS", bytes |-> <<>>]
                                  ELSE CopyTurn(f[i - 1], u, max)]
           after == CHOOSE f : f = Body(f)
<1>1. CopiedEntries(u, max) = after[Len(table)]
  BY DEF CopiedEntries
<1>2. n \in Nat /\ Len(table) \in Nat /\ n <= Len(table) /\ off[0] = 0
  BY DEF ReadsAs
<1>3. /\ new \in Seq(S \cup {u}) /\ Len(new) = n
      /\ \A i \in 1..n : SoundEntry(new[i]) /\ EntryLength(new[i]) \in Nat /\ new[i] \in S \cup {u}
  <2>1. new \in Seq(S \cup {u}) /\ Len(new) = n /\ \A i \in 1..n : SoundEntry(new[i])
    BY UpdatedIs
  <2> HIDE DEF new
  <2>2. \A i \in 1..n : new[i] \in S \cup {u}
    BY <2>1
  <2> QED
    BY <2>1, <2>2 DEF SoundEntry
<1> HIDE DEF new
<1>4. ASSUME NEW i \in 1..n
      PROVE  EntryBytes(new[i], EntryLength(new[i])) \in Seq(B)
  <2>1. new[i] \in S \cup {u} /\ EntryLength(new[i]) \in Nat
    BY <1>3
  <2>2. \A k \in 1..EntryLength(new[i]) : <<new[i], k>> \in B
    BY <2>1 DEF BytesOf
  <2> HIDE DEF B
  <2> QED
    BY <2>1, <2>2 DEF EntryBytes
<1> HIDE DEF B
<1>5. Start = CopyState(0, "SUCCESS", <<>>) /\ Start \in T
  <2>1. 0 \in P
    BY <1>2
  <2>2. <<>> \in Seq(B)
    OBVIOUS
  <2> HIDE DEF P
  <2> QED
    BY <2>1, <2>2 DEF CopyState
<1>6. ASSUME NEW p \in P, NEW r \in Codes, NEW b \in Seq(B) PROVE CopyState(p, r, b) \in T
  <2> HIDE DEF P
  <2> QED
    BY DEF CopyState
<1>7. ASSUME NEW c \in T PROVE c = CopyState(c.current_pos, c.rc, c.bytes)
  <2> HIDE DEF P
  <2> QED
    BY DEF CopyState
<1>8. ASSUME NEW c \in T PROVE CopyTurn(c, u, max) \in T
  <2>1. CASE c.rc # "SUCCESS"
    <3> HIDE DEF T
    <3> QED
      BY <2>1, CopyStops
  <2>2. CASE c.rc = "SUCCESS"
    <3> DEFINE b == c.bytes
    <3>1. c.current_pos \in P /\ b \in Seq(B)
      <4> HIDE DEF P
      <4> QED
        OBVIOUS
    <3>2. PICK j \in 0..n : c.current_pos = off[j]
      BY <3>1
    <3>3. c = CopyState(off[j], "SUCCESS", b)
      <4> HIDE DEF T
      <4> QED
        BY <1>7, <2>2, <3>2
    <3> DEFINE t == CopyTurn(CopyState(off[j], "SUCCESS", b), u, max)
               more == EntryBytes(new[j + 1], EntryLength(new[j + 1]))
    <3> HIDE DEF T
    <3>4. \/ t = CopyState(off[j], "SUCCESS", b)
          \/ t = CopyState(off[j], "INVALID_DATA", b)
          \/ t = CopyState(off[j], "INVALID_LENGTH", b)
          \/ j + 1 \in 1..n /\ t = CopyState(off[j + 1], "SUCCESS", b \o more)
      <4> HIDE DEF b, t, n
      <4>1. Turned(t, es, off, u, j, b)
        BY CopyTurnIs, ZenonT(30) DEF t, n
      <4> QED
        BY <4>1 DEF Turned, new, n
    <3>5. off[j] \in P /\ (j + 1 \in 1..n => off[j + 1] \in P)
      BY <1>2
    <3>6. j + 1 \in 1..n => b \o more \in Seq(B)
      BY <1>4, <3>1
    <3> HIDE DEF t, more, b, P
    <3>7. t \in T
      BY <1>6, <3>1, <3>4, <3>5, <3>6, ZenonT(30)
    <3> QED
      BY <3>3, <3>7 DEF t
  <2> QED
    BY <2>1, <2>2
<1> HIDE DEF T
<1>9. \E f \in [D -> T] : f = Body(f)
  <2> DEFINE m == [i \in D |-> i]
             step == [i \in D |-> [g \in [D -> T] |->
                         IF i = 0 THEN Start ELSE CopyTurn(g[i - 1], u, max)]]
  <2>1. m \in [D -> Nat]
    BY <1>2
  <2>2. step \in [D -> [[D -> T] -> T]]
    <3>1. ASSUME NEW i \in D, NEW g \in [D -> T]
          PROVE  (IF i = 0 THEN Start ELSE CopyTurn(g[i - 1], u, max)) \in T
      <4>1. CASE i = 0
        BY <1>5, <4>1
      <4>2. CASE i # 0
        <5>1. g[i - 1] \in T
          BY <1>2, <4>2
        <5> QED
          BY <1>8, <4>2, <5>1
      <4> QED
        BY <4>1, <4>2
    <3> HIDE DEF Start, D
    <3> QED
      BY <3>1
  <2>3. ASSUME NEW i \in D, NEW g \in [D -> T], NEW h \in [D -> T],
               \A j \in D : m[j] < m[i] => g[j] = h[j]
        PROVE  step[i][g] = step[i][h]
    <3>1. CASE i = 0
      BY <3>1
    <3>2. CASE i # 0
      <4>1. g[i - 1] = h[i - 1]
        BY <1>2, <2>3, <3>2
      <4> QED
        BY <3>2, <4>1
    <3> QED
      BY <3>1, <3>2
  <2>4. T # {}
    BY <1>5
  <2>5. Recursive(D, T, m, step)
    <3> HIDE DEF step, D, m
    <3> QED
      BY <2>1, <2>2, <2>3, <2>4, ZenonT(30) DEF Recursive
  <2>6. PICK f \in [D -> T] : \A i \in D : f[i] = step[i][f]
    <3> HIDE DEF step, D
    <3> QED
      BY <2>5, Recursion DEF Defines
  <2>7. f = Body(f)
    BY <2>6
  <2> QED
    BY <2>7, ZenonT(30)
<1>10. after = Body(after)
  <2> HIDE DEF Body
  <2> QED
    BY <1>9
<1> HIDE DEF after
<1>11. /\ after[0] = Start
       /\ \A i \in D : i # 0 => after[i] = CopyTurn(after[i - 1], u, max)
  BY <1>2, <1>10
<1> HIDE DEF Body, Start
<1> DEFINE At(i) == IF i <= n THEN i ELSE n
           Good(i) == /\ after[i] \in T
                      /\ after[i].rc = "SUCCESS" =>
                            /\ after[i].current_pos = off[At(i)]
                            /\ Laid(after[i].bytes, Prefix(new, At(i)))
<1>12. Good(0)
  <2>1. Prefix(new, 0) = <<>> /\ At(0) = 0
    BY <1>2 DEF Prefix
  <2>2. Start.current_pos = 0 /\ Start.bytes = <<>>
    BY DEF Start
  <2> QED
    BY <1>2, <1>5, <1>11, <2>1, <2>2, LaidEmpty
<1>13. ASSUME NEW i \in D, i # 0, Good(i - 1) PROVE Good(i)
  <2> DEFINE c == after[i - 1]
             j == At(i - 1)
             b == c.bytes
  <2>1. after[i] = CopyTurn(c, u, max) /\ c \in T
    BY <1>11, <1>13, ZenonT(30)
  <2>2. after[i] \in T
    BY <1>8, <2>1
  <2>3. CASE c.rc # "SUCCESS"
    BY <2>1, <2>2, <2>3, CopyStops
  <2>4. CASE c.rc = "SUCCESS"
    <3>1. c = CopyState(off[j], "SUCCESS", b) /\ Laid(b, Prefix(new, j)) /\ b \in Seq(B)
      <4>1. c = CopyState(c.current_pos, c.rc, c.bytes)
        BY <1>7, <2>1, ZenonT(30)
      <4>2. b \in Seq(B)
        <5> HIDE DEF P
        <5> QED
          BY <2>1 DEF T
      <4> QED
        BY <1>13, <2>4, <4>1, <4>2, ZenonT(30)
    <3>2. j \in 0..n /\ i \in Nat
      BY <1>2, <1>13
    <3> DEFINE more == EntryBytes(new[j + 1], EntryLength(new[j + 1]))
               t == after[i]
    <3>3. \/ j = n /\ t = CopyState(off[j], "SUCCESS", b)
          \/ t = CopyState(off[j], "INVALID_DATA", b)
          \/ t = CopyState(off[j], "INVALID_LENGTH", b)
          \/ j + 1 \in 1..n /\ t = CopyState(off[j + 1], "SUCCESS", b \o more)
      <4> HIDE DEF j, b, c, t, n
      <4>1. t = CopyTurn(CopyState(off[j], "SUCCESS", b), u, max)
        BY <2>1, <3>1 DEF t
      <4>2. Turned(t, es, off, u, j, b)
        BY <3>2, <4>1, CopyTurnIs, ZenonT(30) DEF n
      <4> QED
        BY <4>2 DEF Turned, new, n
    <3>4. (j = n => At(i) = n) /\ (j + 1 \in 1..n => At(i) = j + 1)
      BY <1>2, <3>2
    <3>5. ASSUME j + 1 \in 1..n PROVE Laid(b \o more, Prefix(new, j + 1))
      <4>1. /\ Prefix(new, j) \in Seq(S \cup {u}) /\ Len(Prefix(new, j)) = j
            /\ \A k \in 1..j : Prefix(new, j)[k] = new[k]
            /\ Prefix(new, j + 1) = Append(Prefix(new, j), new[j + 1])
        <5> HIDE DEF j
        <5>1. j \in 0..Len(new) /\ j + 1 <= Len(new)
          BY <1>3, <3>2, <3>5
        <5> DEFINE V == S \cup {u}
        <5>2. new \in Seq(V)
          BY <1>3
        <5> HIDE DEF V
        <5>3. /\ Prefix(new, j) \in Seq(V) /\ Len(Prefix(new, j)) = j
              /\ \A k \in 1..j : Prefix(new, j)[k] = new[k]
              /\ Prefix(new, j + 1) = Append(Prefix(new, j), new[j + 1])
          BY <5>1, <5>2, PrefixIs
        <5> QED
          BY <5>3 DEF V
      <4>2. SoundEntries(Prefix(new, j))
        <5> DEFINE p == Prefix(new, j)
        <5>1. \A k \in 1..j : k \in 1..n
          BY <1>2, <3>2
        <5> HIDE DEF j, p
        <5>2. ASSUME NEW k \in 1..j PROVE SoundEntry(p[k])
          <6>1. p[k] = new[k]
            BY <4>1, ZenonT(30) DEF p
          <6>2. SoundEntry(new[k])
            BY <1>3, <5>1, ZenonT(30)
          <6> QED
            BY <6>1, <6>2, ZenonT(30)
        <5>3. Len(p) = j
          BY <4>1 DEF p
        <5> QED
          BY <5>2, <5>3 DEF SoundEntries, p
      <4>3. SoundEntry(new[j + 1])
        BY <1>3, <3>5
      <4> HIDE DEF j, b
      <4> DEFINE p == Prefix(new, j)
                 V == S \cup {u}
      <4>4. p \in Seq(V) /\ SoundEntries(p) /\ Laid(b, p) /\ b \in Seq(B)
        BY <3>1, <4>1, <4>2
      <4> HIDE DEF p, V
      <4>5. Laid(b \o more, Append(p, new[j + 1]))
        BY <4>3, <4>4, LaidAppend
      <4> QED
        BY <4>1, <4>5, ZenonT(30) DEF p
    <3> HIDE DEF j, b, c, more, t, At
    <3>6. t.rc = "SUCCESS" => t.current_pos = off[At(i)] /\ Laid(t.bytes, Prefix(new, At(i)))
      <4>1. CASE j = n /\ t = CopyState(off[j], "SUCCESS", b)
        <5>1. t.current_pos = off[j] /\ t.bytes = b /\ At(i) = j
          BY <3>4, <4>1 DEF CopyState
        <5> QED
          BY <3>1, <5>1, ZenonT(30)
      <4>2. CASE t = CopyState(off[j], "INVALID_DATA", b)
        BY <4>2 DEF CopyState
      <4>3. CASE t = CopyState(off[j], "INVALID_LENGTH", b)
        BY <4>3 DEF CopyState
      <4>4. CASE j + 1 \in 1..n /\ t = CopyState(off[j + 1], "SUCCESS", b \o more)
        <5>1. t.current_pos = off[j + 1] /\ t.bytes = b \o more
          BY <4>4 DEF CopyState
        <5> QED
          BY <3>4, <3>5, <4>4, <5>1, ZenonT(30)
      <4> QED
        BY <3>3, <4>1, <4>2, <4>3, <4>4, ZenonT(30)
    <3> QED
      BY <2>2, <3>6 DEF t
  <2> QED
    BY <2>3, <2>4
<1> HIDE DEF Good
<1>14. \A i \in D : Good(i)
  <2> DEFINE Bad == {i \in D : ~Good(i)}
  <2> SUFFICES ASSUME Bad # {} PROVE FALSE
    OBVIOUS
  <2>1. Bad \subseteq Nat
    OBVIOUS
  <2>2. PICK i \in Bad : \A k \in Bad : i <= k
    <3> HIDE DEF Bad
    <3> QED
      BY <2>1, Least, ZenonT(30)
  <2>3. i # 0 /\ i - 1 \in D /\ i \in D
    BY <1>2, <1>12
  <2>4. i - 1 \notin Bad
    BY <2>2, <2>3
  <2> QED
    BY <1>13, <2>3, <2>4
<1>15. Good(Len(table)) /\ At(Len(table)) = n
  BY <1>2, <1>14
<1>16. Prefix(new, n) = new
  BY <1>3 DEF Prefix
<1>17. ASSUME after[Len(table)].rc = "SUCCESS"
       PROVE  Laid(after[Len(table)].bytes, new) /\ after[Len(table)].bytes \in Seq(B)
  <2>1. after[Len(table)] \in T /\ Laid(after[Len(table)].bytes, new)
    <3> HIDE DEF At
    <3> QED
      BY <1>15, <1>16, <1>17, ZenonT(30) DEF Good
  <2>2. after[Len(table)].bytes \in Seq(B)
    <3> HIDE DEF P
    <3> QED
      BY <2>1 DEF T
  <2> QED
    BY <2>1, <2>2
<1>18. ASSUME CopiedEntries(u, max).rc = "SUCCESS"
       PROVE  /\ Laid(CopiedEntries(u, max).bytes, new)
              /\ CopiedEntries(u, max).bytes \in Seq(B)
  BY <1>1, <1>17, <1>18, ZenonT(30)
<1> QED
  BY <1>18, ZenonT(30) DEF new, B

-----------------------------------------------------------------------------

\* Handles are given out in their order, and next is the next one.
Ordered(es, next) ==
    /\ \A i \in 1..Len(es) : es[i].handle < next
    /\ \A i, j \in 1..Len(es) : i < j => es[i].handle < es[j].handle

\* The invariant, of the variables but the kind of the table: bytes that are those of
\* the entries, with pad bytes and checksum if the table is closed.
TableIs(b, t, c, hs, es) ==
    /\ kind \in Kinds /\ b \in Nat /\ c \in BOOLEAN
    /\ hs \in [{STRING_TABLE, ATTR_TABLE} -> 0..UINT16_MAX]
    /\ \E S : es \in Seq(S)
    /\ SoundEntries(es)
    /\ Len(t) <= b
    /\ kind # ATTR_VAL_TABLE => Ordered(es, hs[kind])
    /\ \E body, B : /\ body \in Seq(B) /\ Laid(body, es)
                    /\ t = IF c THEN PadChecksum(body) ELSE body

BiosInv == TableIs(buffer, table, closed, handles, put)

\* The kind of the table decides how long an entry is: it must stay.
LEMMA SameKind ==
    ASSUME kind' = kind, TableIs(buffer', table', closed', handles', put')
    PROVE  BiosInv'
<1>1. \A e : EntryLength(e)' = EntryLength(e)
  BY DEF EntryLength
<1>2. ASSUME NEW e, SoundEntry(e) PROVE SoundEntry(e)'
  BY <1>1, <1>2 DEF SoundEntry
<1>3. SoundEntries(put)'
  BY <1>2 DEF TableIs, SoundEntries
<1>4. ASSUME NEW body, Laid(body, put') PROVE Laid(body, put)'
  BY <1>1, <1>4, ZenonT(30) DEF Laid, LaidAt
<1> QED
  BY <1>3, <1>4, ZenonT(30) DEF BiosInv, TableIs, Ordered, Kinds

\* The first table is empty, and so is every other when it is begun.
LEMMA BegunEmpty ==
    ASSUME BiosInv, NEW k \in Kinds, NEW capacity \in Nat, TableBegun(k, capacity)
    PROVE  BiosInv'
<1>1. /\ kind' = k /\ buffer' = capacity /\ table' = <<>> /\ closed' = FALSE /\ put' = <<>>
      /\ handles' = handles
  BY DEF TableBegun
<1>2. Laid(<<>>, <<>>)'
  <2>1. LaidAt(<<>>, <<>>, [i \in 0..0 |-> 0])'
    BY DEF LaidAt
  <2> QED
    BY <2>1 DEF Laid
<1>3. <<>> \in Seq({}) /\ Len(<<>>) = 0
  OBVIOUS
<1>4. SoundEntries(put)' /\ Ordered(put, handles[kind])'
  BY <1>1, <1>3 DEF SoundEntries, Ordered
<1>5. /\ kind' \in Kinds /\ buffer' \in Nat /\ closed' \in BOOLEAN
      /\ handles' \in [{STRING_TABLE, ATTR_TABLE} -> 0..UINT16_MAX]
      /\ Len(table') <= buffer'
  <2>1. kind' \in Kinds /\ buffer' \in Nat
    BY <1>1
  <2>2. closed' \in BOOLEAN
    BY <1>1, ZenonT(30)
  <2>3. handles' \in [{STRING_TABLE, ATTR_TABLE} -> 0..UINT16_MAX]
    BY <1>1 DEF BiosInv, TableIs
  <2>4. Len(table') <= buffer'
    BY <1>1, <1>3
  <2> QED
    BY <2>1, <2>2, <2>3, <2>4
<1>6. Laid(table, put)' /\ table' \in Seq({}) /\ put' \in Seq({}) /\ ~closed'
  BY <1>1, <1>2, <1>3 DEF Laid, LaidAt
<1>7. (\E body, B : /\ body \in Seq(B) /\ Laid(body, put)
                     /\ table = IF closed THEN PadChecksum(body) ELSE body)'
  BY <1>6
<1> QED
  BY <1>4, <1>5, <1>6, <1>7 DEF BiosInv, TableIs, Kinds

\* An entry behind the last keeps the invariant.
LEMMA WrittenKeeps ==
    ASSUME BiosInv, ~closed, NEW e, SoundEntry(e), Written(e, EntryLength(e)),
           Room >= EntryLength(e),
           handles' \in [{STRING_TABLE, ATTR_TABLE} -> 0..UINT16_MAX],
           kind # ATTR_VAL_TABLE =>
               e.handle = handles[kind] /\ handles'[kind] = handles[kind] + 1
    PROVE  BiosInv'
<1>1. PICK S : put \in Seq(S)
  BY DEF BiosInv, TableIs
<1>2. PICK B : table \in Seq(B) /\ Laid(table, put)
  BY DEF BiosInv, TableIs
<1> DEFINE len == EntryLength(e)
           more == EntryBytes(e, len)
           W == {<<e, k>> : k \in 1..len}
<1>3. /\ table' = table \o more /\ put' = Append(put, e)
      /\ kind' = kind /\ buffer' = buffer /\ closed' = closed
  BY DEF Written
<1>4. SoundEntries(put) /\ buffer \in Nat /\ kind \in Kinds /\ closed \in BOOLEAN
  BY DEF BiosInv, TableIs
<1>5. len \in Nat
  BY DEF SoundEntry
<1>6. more \in Seq(W) /\ Len(more) = len
  BY <1>5, EntryBytesAre
<1>7. Laid(table', put')
  BY <1>1, <1>2, <1>3, <1>4, LaidAppend
<1>8. table' \in Seq(B \cup W) /\ Len(table') = Len(table) + len
  <2> HIDE DEF more, W, len
  <2>1. table \in Seq(B) /\ more \in Seq(W)
    BY <1>2, <1>6
  <2>2. table \o more \in Seq(B \cup W) /\ Len(table \o more) = Len(table) + Len(more)
    BY <2>1, ConcatIs
  <2> QED
    BY <1>3, <1>6, <2>2
<1>9. Len(table') <= buffer'
  BY <1>2, <1>3, <1>4, <1>5, <1>8 DEF Room
<1>10. /\ put' \in Seq(S \cup {e}) /\ Len(put') = Len(put) + 1 /\ Len(put) \in Nat
       /\ put'[Len(put) + 1] = e /\ \A i \in 1..Len(put) : put'[i] = put[i]
  <2>1. put \in Seq(S \cup {e}) /\ e \in S \cup {e}
    BY <1>1
  <2> QED
    BY <1>3, <2>1
<1>11. SoundEntries(put')
  BY <1>4, <1>10 DEF SoundEntries
<1>12. ASSUME kind # ATTR_VAL_TABLE PROVE Ordered(put', handles'[kind])
  <2>1. Ordered(put, handles[kind]) /\ handles[kind] \in Int
    BY <1>4, <1>12 DEF BiosInv, TableIs, Kinds
  <2>2. e.handle = handles[kind] /\ handles'[kind] = handles[kind] + 1
    BY <1>12
  <2>3. \A i \in 1..Len(put) : put[i].handle < handles[kind] /\ put[i].handle \in Nat
    BY <1>4, <2>1 DEF Ordered, SoundEntries, SoundEntry
  <2>4. ASSUME NEW i \in 1..Len(put') PROVE put'[i].handle < handles'[kind]
    <3>1. CASE i = Len(put) + 1
      BY <1>10, <2>1, <2>2, <3>1
    <3>2. CASE i # Len(put) + 1
      <4>1. i \in 1..Len(put)
        BY <1>10, <3>2
      <4> QED
        BY <1>10, <2>1, <2>2, <2>3, <4>1
    <3> QED
      BY <3>1, <3>2
  <2>5. ASSUME NEW i \in 1..Len(put'), NEW j \in 1..Len(put'), i < j
        PROVE  put'[i].handle < put'[j].handle
    <3>1. i \in 1..Len(put)
      BY <1>10, <2>5
    <3>2. CASE j = Len(put) + 1
      BY <1>10, <2>2, <2>3, <3>1, <3>2
    <3>3. CASE j # Len(put) + 1
      <4>1. j \in 1..Len(put)
        BY <1>10, <3>3
      <4> QED
        BY <1>10, <2>1, <2>5, <3>1, <4>1 DEF Ordered
    <3> QED
      BY <3>2, <3>3
  <2> QED
    BY <2>4, <2>5 DEF Ordered
<1>13. \E body, V : /\ body \in Seq(V) /\ Laid(body, put')
                    /\ table' = IF closed' THEN PadChecksum(body) ELSE body
  BY <1>3, <1>7, <1>8, ZenonT(30)
<1>14. closed' \in BOOLEAN /\ buffer' \in Nat
  BY <1>3, <1>4
<1>15. TableIs(buffer', table', closed', handles', put')
  BY <1>4, <1>9, <1>10, <1>11, <1>12, <1>13, <1>14, ZenonT(30) DEF TableIs
<1> QED
  BY <1>3, <1>15, SameKind

\* A handle is taken.
LEMMA HandleTaken ==
    ASSUME BiosInv, kind \in {STRING_TABLE, ATTR_TABLE}, TakesHandle
    PROVE  /\ handles' \in [{STRING_TABLE, ATTR_TABLE} -> 0..UINT16_MAX]
           /\ handles'[kind] = handles[kind] + 1 /\ handles[kind] \in Nat
<1>1. UINT16_MAX \in Nat /\ handles \in [{STRING_TABLE, ATTR_TABLE} -> 0..UINT16_MAX]
  BY BiosAssumption DEF BiosInv, TableIs
<1>2. handles[kind] \in 0..UINT16_MAX /\ handles[kind] # UINT16_MAX
  BY <1>1 DEF TakesHandle
<1>3. handles' = [handles EXCEPT ![kind] = handles[kind] + 1]
  BY DEF TakesHandle
<1> QED
  BY <1>1, <1>2, <1>3

\* A string is encoded.
LEMMA StringKeeps ==
    ASSUME BiosInv, NEW text \in Texts, NEW n \in TextLengths,
           pldm_bios_table_string_entry_encode(text, n)
    PROVE  BiosInv'
<1> DEFINE e == [handle |-> handles[kind], text |-> text, length |-> n]
<1>1. /\ kind = STRING_TABLE /\ ~closed /\ TakesHandle /\ n \in Nat
      /\ Room >= 4 + n /\ Written(e, 4 + n)
  BY BiosAssumption DEF pldm_bios_table_string_entry_encode,
                        pldm_bios_table_string_entry_encode_length
<1>2. /\ handles' \in [{STRING_TABLE, ATTR_TABLE} -> 0..UINT16_MAX]
      /\ handles'[kind] = handles[kind] + 1 /\ handles[kind] \in Nat
  BY <1>1, HandleTaken
<1>3. e.handle = handles[kind] /\ e.length = n /\ "handle" \in DOMAIN e
  OBVIOUS
<1> HIDE DEF e
<1>4. EntryLength(e) = 4 + n
  BY <1>1, <1>3 DEF EntryLength, string_table_entry_length, STRING_TABLE, ATTR_TABLE,
        ATTR_VAL_TABLE, pldm_bios_table_string_entry_encode_length
<1>5. SoundEntry(e)
  BY <1>1, <1>2, <1>3, <1>4 DEF SoundEntry
<1> QED
  BY <1>1, <1>2, <1>3, <1>4, <1>5, WrittenKeeps

\* An attribute is encoded.
LEMMA AttrKeeps ==
    ASSUME BiosInv, NEW name, NEW type, NEW info, NEW length \in Nat, length >= 4,
           AttrEntryEncode(name, type, info, length),
           \A e : e.type = type /\ e.info = info => attr_table_entry_length(e) = length
    PROVE  BiosInv'
<1> DEFINE e == [handle |-> handles[kind], type |-> type, name |-> name, info |-> info]
<1>1. /\ kind = ATTR_TABLE /\ ~closed /\ TakesHandle
      /\ Room >= length /\ Written(e, length)
  BY DEF AttrEntryEncode
<1>2. /\ handles' \in [{STRING_TABLE, ATTR_TABLE} -> 0..UINT16_MAX]
      /\ handles'[kind] = handles[kind] + 1 /\ handles[kind] \in Nat
  BY <1>1, HandleTaken
<1>3. e.handle = handles[kind] /\ e.type = type /\ e.info = info /\ "handle" \in DOMAIN e
  OBVIOUS
<1> HIDE DEF e
<1>4. EntryLength(e) = length
  <2>1. attr_table_entry_length(e) = length
    BY <1>3
  <2> QED
    BY <1>1, <2>1 DEF EntryLength, STRING_TABLE, ATTR_TABLE, ATTR_VAL_TABLE
<1>5. SoundEntry(e)
  BY <1>2, <1>3, <1>4 DEF SoundEntry
<1> QED
  BY <1>1, <1>2, <1>3, <1>4, <1>5, WrittenKeeps

\* The types of attributes are different numbers.
LEMMA TypesAre ==
    ASSUME NEW type
    PROVE  /\ type \in AttrTypes(PLDM_BIOS_ENUMERATION) <=> type \in {0, 128}
           /\ type \in AttrTypes(PLDM_BIOS_STRING) <=> type \in {1, 129}
           /\ type \in AttrTypes(PLDM_BIOS_INTEGER) <=> type \in {3, 131}
BY DEF AttrTypes, ReadOnly, PLDM_BIOS_ENUMERATION, PLDM_BIOS_STRING, PLDM_BIOS_INTEGER

\* The length of an attribute is that of its type.
LEMMA AttrLength ==
    ASSUME NEW e
    PROVE  /\ e.type \in AttrTypes(PLDM_BIOS_ENUMERATION) =>
                 attr_table_entry_length(e) = attr_table_entry_length_enum(e)
           /\ e.type \in AttrTypes(PLDM_BIOS_STRING) =>
                 attr_table_entry_length(e) = attr_table_entry_length_string(e)
           /\ e.type \in AttrTypes(PLDM_BIOS_INTEGER) =>
                 attr_table_entry_length(e) = attr_table_entry_length_integer(e)
BY TypesAre DEF attr_table_entry_length

\* The length of a value is what its encoder writes.
LEMMA ValueLength ==
    ASSUME NEW e, e.size \in Nat,
           \/ e.type \in AttrTypes(PLDM_BIOS_ENUMERATION)
           \/ e.type \in AttrTypes(PLDM_BIOS_STRING)
           \/ e.type \in AttrTypes(PLDM_BIOS_INTEGER)
    PROVE  /\ attr_value_table_entry_length(e) = ValueWritten(e)
           /\ ValueWritten(e) \in Nat /\ ValueWritten(e) >= 4
           /\ e.type \in AttrTypes(PLDM_BIOS_ENUMERATION) => ValueWritten(e) = 4 + e.size
           /\ e.type \in AttrTypes(PLDM_BIOS_STRING) => ValueWritten(e) = 5 + e.size
           /\ e.type \in AttrTypes(PLDM_BIOS_INTEGER) => ValueWritten(e) = 11
<1>1. CASE e.type \in AttrTypes(PLDM_BIOS_ENUMERATION)
  BY <1>1, TypesAre DEF attr_value_table_entry_length, ValueWritten,
        attr_value_table_entry_length_enum, pldm_bios_table_attr_value_entry_encode_enum_length
<1>2. CASE e.type \in AttrTypes(PLDM_BIOS_STRING)
  BY <1>2, TypesAre DEF attr_value_table_entry_length, ValueWritten,
        attr_value_table_entry_length_string,
        pldm_bios_table_attr_value_entry_encode_string_length
<1>3. CASE e.type \in AttrTypes(PLDM_BIOS_INTEGER)
  BY <1>3, TypesAre DEF attr_value_table_entry_length, ValueWritten,
        attr_value_table_entry_length_integer,
        pldm_bios_table_attr_value_entry_encode_integer_length
<1> QED
  BY <1>1, <1>2, <1>3

\* Entries of values are sound in a table of values, and written with their length.
LEMMA ValueSound ==
    ASSUME kind = ATTR_VAL_TABLE, NEW e \in ValueEntries
    PROVE  /\ SoundEntry(e) /\ ValueWritten(e) = EntryLength(e) /\ e.size \in Nat
           /\ \/ e.type \in AttrTypes(PLDM_BIOS_ENUMERATION)
              \/ e.type \in AttrTypes(PLDM_BIOS_STRING)
              \/ e.type \in AttrTypes(PLDM_BIOS_INTEGER)
<1> DEFINE of(types, sizes, cvs) ==
               {ValueEntry(h, t, n, v) : h \in 0..(UINT16_MAX - 1), t \in types,
                                         n \in sizes, v \in cvs}
<1>1. \/ e \in of(AttrTypes(PLDM_BIOS_ENUMERATION), EnumCounts, {0})
      \/ e \in of(AttrTypes(PLDM_BIOS_STRING), AttrStringLengths, {0})
      \/ e \in of(AttrTypes(PLDM_BIOS_INTEGER), {0}, Integers64)
  BY DEF ValueEntries
<1>2. ASSUME NEW types, NEW sizes \in SUBSET Nat, NEW cvs, e \in of(types, sizes, cvs)
      PROVE  /\ e.handle \in Nat /\ e.type \in types /\ e.size \in Nat
             /\ "handle" \in DOMAIN e
  <2>1. PICK h \in 0..(UINT16_MAX - 1), t \in types, n \in sizes, v \in cvs :
             e = ValueEntry(h, t, n, v)
    BY <1>2
  <2>2. e = [handle |-> h, type |-> t, size |-> n, cv |-> v]
    BY <2>1 DEF ValueEntry
  <2>3. h \in Nat
    BY BiosAssumption
  <2> QED
    BY <2>2, <2>3, ZenonT(30)
<1> HIDE DEF of
<1>3. EnumCounts \in SUBSET Nat /\ AttrStringLengths \in SUBSET Nat /\ {0} \in SUBSET Nat
  BY BiosAssumption
<1>4. /\ e.handle \in Nat /\ e.size \in Nat /\ "handle" \in DOMAIN e
      /\ \/ e.type \in AttrTypes(PLDM_BIOS_ENUMERATION)
         \/ e.type \in AttrTypes(PLDM_BIOS_STRING)
         \/ e.type \in AttrTypes(PLDM_BIOS_INTEGER)
  BY <1>1, <1>2, <1>3
<1>5. EntryLength(e) = attr_value_table_entry_length(e)
  BY DEF EntryLength, STRING_TABLE, ATTR_TABLE, ATTR_VAL_TABLE
<1>6. ValueWritten(e) = EntryLength(e) /\ ValueWritten(e) \in Nat /\ ValueWritten(e) >= 4
  BY <1>4, <1>5, ValueLength
<1> QED
  BY <1>4, <1>6 DEF SoundEntry

\* A value is encoded.
LEMMA ValueKeeps ==
    ASSUME BiosInv, NEW e \in ValueEntries, AttrValueEncode(e)
    PROVE  BiosInv'
<1>1. /\ kind = ATTR_VAL_TABLE /\ ~closed /\ Written(e, ValueWritten(e)) /\ handles' = handles
      /\ \/ pldm_bios_table_attr_value_entry_encode_enum(e, Room)
         \/ pldm_bios_table_attr_value_entry_encode_string(e, Room)
         \/ pldm_bios_table_attr_value_entry_encode_integer(e, Room)
  BY DEF AttrValueEncode
<1>2. /\ SoundEntry(e) /\ ValueWritten(e) = EntryLength(e) /\ e.size \in Nat
      /\ \/ e.type \in AttrTypes(PLDM_BIOS_ENUMERATION)
         \/ e.type \in AttrTypes(PLDM_BIOS_STRING)
         \/ e.type \in AttrTypes(PLDM_BIOS_INTEGER)
  BY <1>1, ValueSound
<1>3. Room \in Int
  <2>1. PICK body, B : /\ body \in Seq(B)
                       /\ table = IF closed THEN PadChecksum(body) ELSE body
    BY DEF BiosInv, TableIs
  <2>2. table \in Seq(B)
    BY <1>1, <2>1
  <2> QED
    BY <2>2 DEF Room, BiosInv, TableIs
<1> HIDE DEF Room
<1>4. Room >= ValueWritten(e)
  <2>1. /\ e.type \in AttrTypes(PLDM_BIOS_ENUMERATION) => ValueWritten(e) = 4 + e.size
        /\ e.type \in AttrTypes(PLDM_BIOS_STRING) => ValueWritten(e) = 5 + e.size
        /\ e.type \in AttrTypes(PLDM_BIOS_INTEGER) => ValueWritten(e) = 11
    BY <1>2, ValueLength
  <2>2. CASE pldm_bios_table_attr_value_entry_encode_enum(e, Room)
    BY <1>2, <1>3, <2>1, <2>2 DEF pldm_bios_table_attr_value_entry_encode_enum
  <2>3. CASE pldm_bios_table_attr_value_entry_encode_string(e, Room)
    BY <1>2, <1>3, <2>1, <2>3 DEF pldm_bios_table_attr_value_entry_encode_string
  <2>4. CASE pldm_bios_table_attr_value_entry_encode_integer(e, Room)
    BY <1>2, <1>3, <2>1, <2>4 DEF pldm_bios_table_attr_value_entry_encode_integer,
          pldm_bios_table_attr_value_entry_encode_integer_length
  <2> QED
    BY <1>1, <2>2, <2>3, <2>4
<1>5. handles' \in [{STRING_TABLE, ATTR_TABLE} -> 0..UINT16_MAX]
  BY <1>1 DEF BiosInv, TableIs
<1> QED
  BY <1>1, <1>2, <1>4, <1>5, WrittenKeeps

\* The table is closed.
LEMMA CloseKeeps ==
    ASSUME BiosInv, pldm_bios_table_append_pad_checksum
    PROVE  BiosInv'
<1>1. /\ ~closed /\ table' = PadChecksum(table) /\ closed' = TRUE
      /\ kind' = kind /\ buffer' = buffer /\ handles' = handles /\ put' = put
      /\ buffer >= Len(table) + (pad_size_get(Len(table)) + 4)
  BY DEF pldm_bios_table_append_pad_checksum, pldm_bios_table_pad_checksum_size
<1>2. PICK B : table \in Seq(B) /\ Laid(table, put)
  BY <1>1 DEF BiosInv, TableIs
<1>3. pad_size_get(Len(table)) \in 0..3 /\ Len(table') = Len(table) + pad_size_get(Len(table)) + 4
  <2>1. Padded(PadChecksum(table), table)
    BY <1>2, PadChecksumIs
  <2> QED
    BY <1>1, <2>1 DEF Padded
<1>4. /\ kind \in Kinds /\ buffer \in Nat /\ SoundEntries(put) /\ (\E S : put \in Seq(S))
      /\ handles \in [{STRING_TABLE, ATTR_TABLE} -> 0..UINT16_MAX]
      /\ kind # ATTR_VAL_TABLE => Ordered(put, handles[kind])
  BY DEF BiosInv, TableIs
<1>5. Len(table') <= buffer'
  BY <1>1, <1>2, <1>3, <1>4
<1>6. closed' \in BOOLEAN
  BY <1>1, ZenonT(30)
<1>7. \E body, V : /\ body \in Seq(V) /\ Laid(body, put')
                   /\ table' = IF closed' THEN PadChecksum(body) ELSE body
  BY <1>1, <1>2
<1>8. TableIs(buffer', table', closed', handles', put')
  BY <1>1, <1>4, <1>5, <1>6, <1>7 DEF TableIs
<1> QED
  BY <1>1, <1>8, SameKind

\* What a closed table is read as.
LEMMA ClosedIs ==
    ASSUME BiosInv, closed, NEW S, put \in Seq(S)
    PROVE  /\ SoundEntries(put) /\ \E off : ReadsAs(table, put, off)
           /\ \E body, B : body \in Seq(B) /\ table = PadChecksum(body)
<1>1. PICK body, B : body \in Seq(B) /\ Laid(body, put) /\ table = PadChecksum(body)
  BY DEF BiosInv, TableIs
<1>2. SoundEntries(put)
  BY DEF BiosInv, TableIs
<1>3. PICK off : LaidAt(body, put, off)
  BY <1>1 DEF Laid
<1>4. ReadsAs(PadChecksum(body), put, off)
  BY <1>1, <1>2, <1>3, ClosedReads
<1> QED
  BY <1>1, <1>2, <1>4

\* A value is updated.
LEMMA UpdateKeeps ==
    ASSUME BiosInv, NEW e \in ValueEntries, NEW capacity \in Nat,
           pldm_bios_table_attr_value_copy_and_update(capacity, e)
    PROVE  BiosInv'
<1> DEFINE copy == CopiedEntries(e, capacity)
           len == Len(copy.bytes)
<1>1. /\ kind = ATTR_VAL_TABLE /\ closed /\ copy.rc = "SUCCESS"
      /\ (pad_size_get(len) + 4) + len <= capacity
      /\ table' = PadChecksum(copy.bytes) /\ buffer' = capacity
      /\ put' = Updated(put, e)
      /\ kind' = kind /\ closed' = closed /\ handles' = handles
  BY DEF pldm_bios_table_attr_value_copy_and_update, pldm_bios_table_pad_checksum_size, Updated
<1> HIDE DEF copy
<1>2. PICK S : put \in Seq(S)
  BY DEF BiosInv, TableIs
<1>3. PICK off : ReadsAs(table, put, off)
  BY <1>1, <1>2, ClosedIs
<1>4. SoundEntries(put) /\ SoundEntry(e) /\ ValueWritten(e) = EntryLength(e)
  BY <1>1, <1>2, ClosedIs, ValueSound
<1> DEFINE B == BytesOf(S \cup {e})
<1>5. Laid(copy.bytes, Updated(put, e)) /\ copy.bytes \in Seq(B)
  BY <1>1, <1>2, <1>3, <1>4, CopiedEntriesIs DEF copy
<1> HIDE DEF B
<1>6. put' \in Seq(S \cup {e}) /\ Len(put') = Len(put) /\ \A i \in 1..Len(put) : SoundEntry(put'[i])
  BY <1>1, <1>2, <1>4, UpdatedIs, ZenonT(30)
<1>7. SoundEntries(put')
  BY <1>6 DEF SoundEntries
<1>8. pad_size_get(len) \in 0..3 /\ Len(table') = len + pad_size_get(len) + 4 /\ len \in Nat
  <2> DEFINE b == copy.bytes
  <2>1. b \in Seq(B)
    BY <1>5
  <2> HIDE DEF b
  <2>2. Padded(PadChecksum(b), b)
    BY <2>1, PadChecksumIs
  <2> QED
    BY <1>1, <2>2 DEF b, Padded
<1>9. Len(table') <= buffer'
  <2> HIDE DEF len
  <2> QED
    BY <1>1, <1>8
<1>10. /\ kind \in Kinds /\ closed' \in BOOLEAN
       /\ handles' \in [{STRING_TABLE, ATTR_TABLE} -> 0..UINT16_MAX]
  BY <1>1 DEF BiosInv, TableIs
<1>11. \E body, V : /\ body \in Seq(V) /\ Laid(body, put')
                    /\ table' = IF closed' THEN PadChecksum(body) ELSE body
  BY <1>1, <1>5
<1>12. TableIs(buffer', table', closed', handles', put')
  BY <1>1, <1>6, <1>7, <1>9, <1>10, <1>11 DEF TableIs
<1> QED
  BY <1>1, <1>12, SameKind

\* The invariant holds at first.
LEMMA BiosStarts == BiosInit => BiosInv
<1> SUFFICES ASSUME BiosInit PROVE BiosInv
  OBVIOUS
<1>1. /\ kind = STRING_TABLE /\ buffer = 0 /\ table = <<>> /\ closed = FALSE /\ put = <<>>
      /\ handles = [k \in {STRING_TABLE, ATTR_TABLE} |-> 0]
  BY DEF BiosInit
<1>2. kind \in Kinds /\ buffer \in Nat
  BY <1>1 DEF Kinds
<1>3. closed \in BOOLEAN /\ ~closed
  BY <1>1, ZenonT(30)
<1>4. handles \in [{STRING_TABLE, ATTR_TABLE} -> 0..UINT16_MAX]
  BY <1>1, BiosAssumption
<1>5. <<>> \in Seq({}) /\ Len(<<>>) = 0
  OBVIOUS
<1>6. SoundEntries(put) /\ Len(table) <= buffer /\ Ordered(put, handles[kind])
  BY <1>1, <1>5 DEF SoundEntries, Ordered
<1>7. \E body, B : /\ body \in Seq(B) /\ Laid(body, put)
                   /\ table = IF closed THEN PadChecksum(body) ELSE body
  BY <1>1, <1>3, <1>5, LaidEmpty, ZenonT(30)
<1> QED
  BY <1>1, <1>2, <1>3, <1>4, <1>5, <1>6, <1>7 DEF BiosInv, TableIs

\* Every step keeps the invariant.
LEMMA BiosSteps == BiosInv /\ [BiosNext]_biosVars => BiosInv'
<1> SUFFICES ASSUME BiosInv, [BiosNext]_biosVars PROVE BiosInv'
  OBVIOUS
<1>1. ASSUME NEW text \in Texts, NEW n \in TextLengths,
             pldm_bios_table_string_entry_encode(text, n)
      PROVE  BiosInv'
  BY <1>1, StringKeeps
<1>2. ASSUME NEW name \in NameHandles, NEW type \in AttrTypes(PLDM_BIOS_ENUMERATION),
             NEW pv_num \in EnumCounts, NEW def_num \in EnumCounts,
             pldm_bios_table_attr_entry_enum_encode(name, type, pv_num, def_num)
      PROVE  BiosInv'
  <2> DEFINE info == [pv_num |-> pv_num, def_num |-> def_num]
             length == 5 + 1 + 2 * pv_num + 1 + def_num
  <2>1. length \in Nat /\ length >= 4 /\ info.pv_num = pv_num /\ info.def_num = def_num
    BY BiosAssumption
  <2>2. AttrEntryEncode(name, type, info, length)
    BY <1>2 DEF pldm_bios_table_attr_entry_enum_encode,
                pldm_bios_table_attr_entry_enum_encode_length
  <2> HIDE DEF info
  <2>3. ASSUME NEW e, e.type = type, e.info = info PROVE attr_table_entry_length(e) = length
    BY <2>1, <2>3, AttrLength DEF attr_table_entry_length_enum,
          pldm_bios_table_attr_entry_enum_encode_length
  <2> HIDE DEF length
  <2> QED
    BY <2>1, <2>2, <2>3, AttrKeeps
<1>3. ASSUME NEW name \in NameHandles, NEW type \in AttrTypes(PLDM_BIOS_STRING),
             NEW info \in [min_length : AttrStringLengths, max_length : AttrStringLengths,
                           def_length : AttrStringLengths],
             pldm_bios_table_attr_entry_string_encode(name, type, info)
      PROVE  BiosInv'
  <2> DEFINE length == 5 + 7 + info.def_length
  <2>1. length \in Nat /\ length >= 4
    BY BiosAssumption
  <2>2. AttrEntryEncode(name, type, info, length)
    BY <1>3 DEF pldm_bios_table_attr_entry_string_encode,
                pldm_bios_table_attr_entry_string_encode_length
  <2>3. ASSUME NEW e, e.type = type, e.info = info PROVE attr_table_entry_length(e) = length
    BY <2>1, <2>3, AttrLength DEF attr_table_entry_length_string,
          pldm_bios_table_attr_entry_string_encode_length
  <2> HIDE DEF length
  <2> QED
    BY <2>1, <2>2, <2>3, AttrKeeps
<1>4. ASSUME NEW name \in NameHandles, NEW type \in AttrTypes(PLDM_BIOS_INTEGER),
             NEW info \in [lower_bound : Bounds, upper_bound : Bounds,
                           scalar_increment : Integers64, default_value : Integers64],
             pldm_bios_table_attr_entry_integer_encode(name, type, info)
      PROVE  BiosInv'
  <2> DEFINE length == 5 + 28
  <2>1. length \in Nat /\ length >= 4
    OBVIOUS
  <2>2. AttrEntryEncode(name, type, info, length)
    BY <1>4 DEF pldm_bios_table_attr_entry_integer_encode,
                pldm_bios_table_attr_entry_integer_encode_length
  <2>3. ASSUME NEW e, e.type = type, e.info = info PROVE attr_table_entry_length(e) = length
    BY <2>3, AttrLength DEF attr_table_entry_length_integer,
          pldm_bios_table_attr_entry_integer_encode_length
  <2> HIDE DEF length
  <2> QED
    BY <2>1, <2>2, <2>3, AttrKeeps
<1>5. ASSUME NEW e \in ValueEntries, AttrValueEncode(e) PROVE BiosInv'
  BY <1>5, ValueKeeps
<1>6. CASE pldm_bios_table_append_pad_checksum
  BY <1>6, CloseKeeps
<1>7. ASSUME NEW e \in ValueEntries, NEW capacity \in Capacities,
             pldm_bios_table_attr_value_copy_and_update(capacity, e)
      PROVE  BiosInv'
  <2>1. capacity \in Nat
    BY BiosAssumption
  <2> QED
    BY <1>7, <2>1, UpdateKeeps
<1>8. ASSUME NEW k \in {STRING_TABLE, ATTR_TABLE, ATTR_VAL_TABLE}, NEW capacity \in Capacities,
             TableBegun(k, capacity)
      PROVE  BiosInv'
  <2>1. capacity \in Nat /\ k \in Kinds
    BY BiosAssumption DEF Kinds
  <2> QED
    BY <1>8, <2>1, BegunEmpty
<1>9. CASE UNCHANGED biosVars
  <2>1. /\ kind' = kind /\ buffer' = buffer /\ table' = table /\ closed' = closed
        /\ handles' = handles /\ put' = put
    BY <1>9 DEF biosVars
  <2>2. TableIs(buffer', table', closed', handles', put')
    BY <2>1 DEF BiosInv
  <2> QED
    BY <2>1, <2>2, SameKind
<1> QED
  BY <1>1, <1>2, <1>3, <1>4, <1>5, <1>6, <1>7, <1>8, <1>9 DEF BiosNext

\* The checksum of a closed table is accepted unless the table is too small.
LEMMA ChecksumAccepted ==
    ASSUME NEW B, NEW body \in Seq(B), NEW full, full = PadChecksum(body)
    PROVE  pldm_bios_table_checksum(full) <=> Len(full) >= 12
<1> DEFINE pad == pad_size_get(Len(body))
           n == Len(body) + pad
<1>p. Padded(full, body)
  BY PadChecksumIs
<1>w. PICK W : full \in Seq(W)
  BY <1>p DEF Padded
<1>1. /\ n \in Nat /\ Len(full) = n + 4
      /\ \A k \in 1..4 : full[n + k] = <<[sum |-> n], k>>
  BY <1>p DEF Padded
<1> HIDE DEF n
<1> DEFINE a == Len(full) - 3
           b == Len(full)
           part == SubSeq(full, a, b)
           four == 4
<1>3. /\ a = n + 1 /\ a \in 1..Len(full) /\ b \in 1..Len(full) /\ b - a + 1 = four
      /\ Len(full) - 4 = n /\ four \in Nat
  BY <1>1
<1> HIDE DEF a, b, four
<1>4. part = [k \in 1..four |-> full[a + k - 1]]
  BY <1>w, <1>3
<1>5. \A k \in 1..4 : a + k - 1 = n + k
  BY <1>1, <1>3
<1>6. part = [k \in 1..4 |-> <<[sum |-> n], k>>]
  BY <1>1, <1>4, <1>5 DEF four
<1>7. part = SumBytes(Len(full) - 4)
  BY <1>3, <1>6 DEF SumBytes
<1> QED
  BY <1>7 DEF pldm_bios_table_checksum, a, b

\* The tables of bios_table.c are read as they were written: the iterator of a closed
\* table, which cannot tell pad bytes from entries, comes to the entries that were
\* encoded and those that updates replaced and to nothing else, the searches find the
\* first that matches, handles that the library gave are unique, the checksum is
\* accepted, and nothing is written behind the buffer.
THEOREM BiosTablesAreRead == BiosSpec => []BiosTablesRead
<1>1. BiosInv => BiosTablesRead
  <2> SUFFICES ASSUME BiosInv PROVE BiosTablesRead
    OBVIOUS
  <2>1. PICK S : put \in Seq(S)
    BY DEF BiosInv, TableIs
  <2>2. Len(table) <= buffer
    BY DEF BiosInv, TableIs
  <2>3. ASSUME kind # ATTR_VAL_TABLE, NEW i \in DOMAIN put, NEW j \in DOMAIN put,
               put[i].handle = put[j].handle
        PROVE  i = j
    <3>1. i \in 1..Len(put) /\ j \in 1..Len(put) /\ Len(put) \in Nat
      BY <2>1
    <3>2. Ordered(put, handles[kind]) /\ SoundEntries(put)
      BY <2>3 DEF BiosInv, TableIs
    <3>3. put[i].handle \in Nat /\ put[j].handle \in Nat
      BY <3>1, <3>2 DEF SoundEntries, SoundEntry
    <3>4. /\ i < j => put[i].handle < put[j].handle
          /\ j < i => put[j].handle < put[i].handle
      BY <3>1, <3>2 DEF Ordered
    <3> QED
      BY <2>3, <3>1, <3>3, <3>4
  <2>4. ASSUME closed PROVE Walk(table) = put
    <3>1. PICK off : ReadsAs(table, put, off)
      BY <2>1, <2>4, ClosedIs
    <3>2. SoundEntries(put)
      BY DEF BiosInv, TableIs
    <3> QED
      BY <2>1, <3>1, <3>2, WalkIs
  <2>5. ASSUME closed PROVE pldm_bios_table_checksum(table) <=> Len(table) >= 12
    BY <2>1, <2>5, ClosedIs, ChecksumAccepted
  <2>6. ASSUME NEW P, P \subseteq DOMAIN put, NEW E, \A i \in DOMAIN put : i \in P <=> put[i] \in E
        PROVE  FindByIter(P) = First(E)
    <3>1. P = {i \in DOMAIN put : put[i] \in E}
      BY <2>6
    <3> QED
      BY <3>1 DEF First
  <2>7. ASSUME closed, NEW h
        PROVE  FindByHandle(h) = First({e \in Range(put) : e.handle = h})
    <3> DEFINE P == {i \in DOMAIN put : put[i].handle = h}
               E == {e \in Range(put) : e.handle = h}
    <3>1. P \subseteq DOMAIN put /\ \A i \in DOMAIN put : i \in P <=> put[i] \in E
      BY DEF Range
    <3>2. FindByHandle(h) = FindByIter(P)
      BY <2>4, <2>7 DEF FindByHandle, Entries
    <3> HIDE DEF P, E
    <3> QED
      BY <2>6, <3>1, <3>2 DEF E
  <2>8. ASSUME closed, NEW text, NEW n
        PROVE  pldm_bios_table_string_find_by_string(text, n)
                   = First({e \in Range(put) : e.text = text /\ e.length = n})
    <3> DEFINE P == {i \in DOMAIN put : put[i].length = n /\ put[i].text = text}
               E == {e \in Range(put) : e.text = text /\ e.length = n}
    <3>1. P \subseteq DOMAIN put /\ \A i \in DOMAIN put : i \in P <=> put[i] \in E
      BY DEF Range
    <3>2. pldm_bios_table_string_find_by_string(text, n) = FindByIter(P)
      BY <2>4, <2>8 DEF pldm_bios_table_string_find_by_string, Entries
    <3> HIDE DEF P, E
    <3> QED
      BY <2>6, <3>1, <3>2 DEF E
  <2>9. ASSUME closed, NEW name
        PROVE  pldm_bios_table_attr_find_by_string_handle(name)
                   = First({e \in Range(put) : e.name = name})
    <3> DEFINE P == {i \in DOMAIN put : put[i].name = name}
               E == {e \in Range(put) : e.name = name}
    <3>1. P \subseteq DOMAIN put /\ \A i \in DOMAIN put : i \in P <=> put[i] \in E
      BY DEF Range
    <3>2. pldm_bios_table_attr_find_by_string_handle(name) = FindByIter(P)
      BY <2>4, <2>9 DEF pldm_bios_table_attr_find_by_string_handle, Entries
    <3> HIDE DEF P, E
    <3> QED
      BY <2>6, <3>1, <3>2 DEF E
  <2> QED
    BY <2>2, <2>3, <2>4, <2>5, <2>7, <2>8, <2>9 DEF BiosTablesRead
<1> QED
  BY <1>1, BiosStarts, BiosSteps, PTL DEF BiosSpec

=============================================================================
