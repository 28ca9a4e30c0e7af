------------------------------ MODULE MsgbufOps ------------------------------
(***************************************************************************)
(* The arithmetic of struct pldm_msgbuf_ro and struct pldm_msgbuf_rw       *)
(* (src/src/msgbuf/core.h): a cursor into a buffer and a signed count of   *)
(* the bytes that remain.  A count below zero records that some access     *)
(* would have left the buffer.  The ro and rw variants differ in types     *)
(* only, and one operator stands for both.                                 *)
(***************************************************************************)
EXTENDS Integers

CONSTANT INTMAX_MAX           \* the largest intmax_t
ASSUME IntmaxAssumption == INTMAX_MAX \in Nat

INTMAX_MIN == -INTMAX_MAX - 1

NULL == -1                    \* the cursor of a buffer that is not in use

\* struct variable_field
VariableField(p, n) == [ptr |-> p, length |-> n]
NoField == VariableField(NULL, 0)

\* A value of struct pldm_msgbuf_ro or struct pldm_msgbuf_rw.
Ctx(c, r) == [cursor |-> c, remaining |-> r]

\* pldm__msgbuf_set_invalid
SetInvalid(ctx) == Ctx(ctx.cursor, INTMAX_MIN)

\* pldm__msgbuf_init_errno
InitErrno(minsize, len) ==
    IF minsize > len \/ len > INTMAX_MAX THEN Ctx(NULL, INTMAX_MIN)
                                         ELSE Ctx(0, len)

\* Whether an access of size bytes stays inside the buffer.
Fits(ctx, size) == ctx.remaining >= size

\* The three outcomes that every extraction, insertion, skip and span of a
\* given size has: inside the buffer, beyond its end, and so far beyond it
\* that the count itself would overflow.
Access(ctx, size) ==
    CASE Fits(ctx, size) -> Ctx(ctx.cursor + size, ctx.remaining - size)
      [] ~Fits(ctx, size) /\ ctx.remaining > INTMAX_MIN + size ->
             Ctx(ctx.cursor, ctx.remaining - size)
      [] OTHER -> SetInvalid(ctx)

\* pldm__msgbuf_span_until: everything up to a trailer of the given size.
SpanUntil(ctx, trailer) ==
    CASE Fits(ctx, trailer) ->
             Ctx(ctx.cursor + (ctx.remaining - trailer), trailer)
      [] ~Fits(ctx, trailer) /\ ctx.remaining > INTMAX_MIN + trailer ->
             Ctx(ctx.cursor, INTMAX_MIN + trailer)
      [] OTHER -> SetInvalid(ctx)

\* A mutant: the count is not reset.
SpanRemaining_KeepsCount(ctx) ==
    IF ctx.remaining < 0 THEN ctx
                         ELSE Ctx(ctx.cursor + ctx.remaining, ctx.remaining)

\* pldm__msgbuf_span_remaining
SpanRemaining(ctx) ==
    IF ctx.remaining < 0 THEN ctx ELSE Ctx(ctx.cursor + ctx.remaining, 0)

\* pldm__msgbuf_validate
Validate(ctx) == IF ctx.remaining < 0 THEN "EOVERFLOW" ELSE "OK"

\* pldm__msgbuf_consumed
Consumed(ctx) ==
    CASE ctx.remaining > 0 -> "EBADMSG"
      [] ctx.remaining < 0 -> "EOVERFLOW"
      [] OTHER -> "OK"

=============================================================================
