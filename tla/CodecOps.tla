------------------------------- MODULE CodecOps -------------------------------
(***************************************************************************)
(* The vocabulary in which the message encoders and decoders of libpldm    *)
(* are written down.  A C function is the sequence of the steps it takes,  *)
(* in their order, as an operator of e: the values of its arguments and of *)
(* the fields it has read so far.  One vocabulary serves both directions,  *)
(* since a step that inserts a field in an encoder extracts it in a        *)
(* decoder.  Module Exchange says what the steps do.                       *)
(*                                                                         *)
(* Values are integers.  Those a codec tests are the code's own; the other *)
(* fields of a message have values that tell one field from another.       *)
(* Errors are named by errno, as they are before pldm_xlate_errno turns    *)
(* them into completion codes.  A check of a value that returns one of the *)
(* errors of the buffer has its error named for the value.                 *)
(***************************************************************************)
EXTENDS Integers, FiniteSets, Sequences, SequencesExt

PLDM_SUCCESS == 0
PLDM_BASE == 0
PLDM_PLATFORM == 2
PLDM_BIOS == 3
PLDM_FRU == 4
PLDM_FWUP == 5
PLDM_FILE == 7
PLDM_OEM == 63

SIZE_MAX == 1000000           \* the largest size_t, here

\* The transfer flags and operations of multipart transfers.
PLDM_START == 1
PLDM_MIDDLE == 2
PLDM_END == 4
PLDM_START_AND_END == 5
PLDM_GET_NEXTPART == 0
PLDM_GET_FIRSTPART == 1
PLDM_ACKNOWLEDGEMENT_ONLY == 2

\* The arguments of a message without any.
NoFields == [none : {0}]

\* A required pointer is NULL.
NonNull == [op |-> "nonnull"]

\* The header is packed by pack_pldm_header or pack_pldm_header_errno.
Header(request, type, command) ==
    [op |-> "header",
     hdr |-> [request |-> request, type |-> type, command |-> command]]
Request(type, command) == Header(1, type, command)
Response(type, command) == Header(0, type, command)

\* pldm_msgbuf_init_errno over the payload, with its minimum size.  From here
\* on the fields go through the buffer; before, or without it, they are
\* accessed in place through a pointer to the message's structure.
Init(minsize) == [op |-> "init", n |-> minsize]

\* A field of n bytes, and a field whose failure the code returns at once.
Field(f, n) == [op |-> "field", f |-> f, n |-> n]
U8(f) == Field(f, 1)
U16(f) == Field(f, 2)
U32(f) == Field(f, 4)
U64(f) == Field(f, 8)
Checked(f, n) == [op |-> "checked", f |-> f, n |-> n]

\* A field of n bytes that an encoder stores as the value v.
Stored(f, n, v) == [op |-> "stored", f |-> f, n |-> n, v |-> v]

\* An array of n bytes with room for cap of them; a failure is returned.
Array(f, n, cap) == [op |-> "array", f |-> f, n |-> n, cap |-> cap]
Bytes(f, n) == Array(f, n, n)

\* The rest of the payload, and its length.
Rest(f, length) == [op |-> "rest", f |-> f, l |-> length]

\* At least n bytes must be left, and none of them is taken.
Need(n) == [op |-> "need", n |-> n]

\* At least n bytes of the payload must follow, without a buffer.
Left(n) == [op |-> "left", n |-> n]

\* Another message buffer, over what is left: the code is given a pointer to
\* the data at the offset, or the rest, that an earlier step has left.
Sub(minsize) == [op |-> "sub", n |-> minsize]

\* The checks of the payload's length that the code makes itself.
LengthIs(n, err) == [op |-> "length", lo |-> n, hi |-> n, err |-> err]
LengthAtLeast(n, err) == [op |-> "atleast", lo |-> n, err |-> err]
LengthAtMost(n, err) == [op |-> "atmost", hi |-> n, err |-> err]

\* The code returns an error, or success, here.
Fail(c, err) == [op |-> "fail", c |-> c, err |-> err]
Return(c) == [op |-> "return", c |-> c]

\* pldm_msg_has_error: a response that carries an error is only its code.
HasError == [op |-> "haserror"]

\* The ways a buffer is finished: pldm_msgbuf_complete, _complete_consumed
\* and _complete_used.  When c holds the buffer is finished here: an error is
\* returned, and success too when it is the last step.
Finish(how, c, last) == [op |-> "finish", how |-> how, c |-> c, last |-> last]
Complete == Finish("complete", TRUE, TRUE)
CompleteConsumed == Finish("consumed", TRUE, TRUE)
CompleteUsed == Finish("used", TRUE, TRUE)
UsedIf(c) == Finish("used", c, TRUE)
CompleteThen == Finish("complete", TRUE, FALSE)
ConsumedThen == Finish("consumed", TRUE, FALSE)

\* pldm_msgbuf_span_remaining and pldm_msgbuf_complete_consumed at the end of
\* an iterator's step: what is left is the buffer of the next step.
SpanRemainingThen == Finish("complete", TRUE, FALSE)

\* A variable set to a value: a computed length, a constant.
Set(f, v) == [op |-> "set", f |-> f, v |-> v]

\* The steps taken only when a condition holds.
When(c, steps) == IF c THEN steps ELSE << >>

\* The steps of a loop over n entries.
Each(n, steps) == FlattenSeq([i \in 1..n |-> steps])

\* The records of a set that differ from r in at most two fields.
Near(r, S) == {x \in S : Cardinality({f \in DOMAIN r : x[f] # r[f]}) <= 2}

\* A message: the codec module it is in, the functions that encode and
\* decode it ("" for none), the arguments the encoder is given, which of them
\* the decoder is given too, and for a response the encoder of its request.
Message(lib, enc, dec, args, inputs, req) ==
    [lib |-> lib, enc |-> enc, dec |-> dec, args |-> args, inputs |-> inputs,
     req |-> req, peer |-> FALSE]

\* A message that no function of the library encodes.  The peer writes it as
\* the decoder named layout would have it.
FromPeer(lib, layout, dec, args, inputs) ==
    [lib |-> lib, enc |-> layout, dec |-> dec, args |-> args,
     inputs |-> inputs, req |-> "", peer |-> TRUE]

=============================================================================
