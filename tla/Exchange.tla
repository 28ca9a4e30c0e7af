------------------------------- MODULE Exchange -------------------------------
(***************************************************************************)
(* One message on its way: an endpoint encodes it into a buffer, the       *)
(* transport delivers it whole, cut anywhere down to its bare header or    *)
(* with bytes appended, and the other endpoint decodes it.  Every pair of  *)
(* an encoder and a decoder of the library is run through it, for every    *)
(* choice of its arguments.                                                *)
(***************************************************************************)
EXTENDS MsgbufOps, BaseCodecs, PlatformRecords, FirmwareUpdateCodecs,
        BiosCodecs, FruCodecs, FileCodecs, OemCodecs, FiniteSets, TLC

CONSTANT SLACK                \* how far buffers miss their size, and how many
                              \* bytes a message has too many
ASSUME SlackAssumption == SLACK \in Nat

PLDM_INSTANCE_MAX == 31

Unset == -2                   \* a variable nothing was stored in
Torn == -3                    \* a field read from bytes of several fields
Outside == -4                 \* what no message holds

Messages == BaseMessages \cup PlatformMessages \cup RecordMessages \cup
            FirmwareUpdateMessages \cup BiosMessages \cup FruMessages \cup
            FileMessages \cup OemMessages

Program(lib, fn, e) ==
    CASE lib = "base" -> BaseProgram(fn, e)
      [] lib = "platform" -> PlatformProgram(fn, e)
      [] lib = "records" -> RecordsProgram(fn, e)
      [] lib = "fwup" -> FirmwareUpdateProgram(fn, e)
      [] lib = "bios" -> BiosProgram(fn, e)
      [] lib = "fru" -> FruProgram(fn, e)
      [] lib = "file" -> FileProgram(fn, e)
      [] lib = "oem" -> OemProgram(fn, e)

(***************************************************************************)
(* The steps of a codec.  m is the state of the function that runs:        *)
(*   dir   "encode", "decode", or "measure", an encoder in a buffer that   *)
(*         has room for everything                                         *)
(*   env   its variables                                                   *)
(*   ctx   where it is in the payload                                      *)
(*   buf   whether the payload is accessed through a message buffer        *)
(*   wire  the bytes of the payload; byte k of the n bytes of a field with *)
(*         value v is <<v, k, n>>                                          *)
(*   hdr   the header it packed                                            *)
(*   got   the fields it has stored in the payload or read from it         *)
(*   open  those of them that end where the message ends                   *)
(*   past  what the memory beyond the payload reads as                     *)
(*   over  the fields it has read from there, or from there in part        *)
(*   rc    what it returned, "" while it runs                              *)
(***************************************************************************)
Start(dir, env, wire, past) ==
    [dir |-> dir, env |-> env, wire |-> wire, got |-> {}, open |-> {},
     past |-> past, over |-> {}, rc |-> "",
     hdr |-> [request |-> 0, type |-> 0, command |-> 0],
     ctx |-> Ctx(0, 0), buf |-> FALSE]

Ret(m, rc) == [m EXCEPT !.rc = rc]
FailIf(m, c, err) == IF c THEN Ret(m, err) ELSE m

FieldBytes(v, n) == [k \in 1..n |-> <<v, k, n>>]

\* The n bytes at the cursor are not all in the payload.
Beyond(m, n) == m.ctx.cursor + n > Len(m.wire)

\* The value of the n bytes at the cursor.
Value(m, n) ==
    LET c == m.ctx.cursor
    IN CASE Beyond(m, n) -> m.past
         [] SubSeq(m.wire, c + 1, c + n) = FieldBytes(m.wire[c + 1][1], n) ->
                m.wire[c + 1][1]
         [] OTHER -> Torn

\* n bytes for field f, at the cursor.
Transfer(m, f, n) ==
    LET moved == [m EXCEPT !.ctx = IF m.buf THEN Access(@, n)
                                            ELSE Ctx(@.cursor + n, @.remaining)]
    IN CASE n <= 0 -> m
         [] n > 0 /\ m.buf /\ ~Fits(m.ctx, n) -> moved
         [] n > 0 /\ ~(m.buf /\ ~Fits(m.ctx, n)) /\ m.dir = "decode" ->
                [moved EXCEPT !.env[f] = Value(m, n),
                              !.got = @ \cup {f},
                              !.over = IF Beyond(m, n) THEN @ \cup {f} ELSE @]
         [] OTHER ->
                [moved EXCEPT
                    !.wire = SubSeq(@, 1, m.ctx.cursor) \o
                             FieldBytes(m.env[f], n),
                    !.got = @ \cup {f}]

\* A transfer whose failure is returned.
TransferOrFail(m, f, n) ==
    FailIf(Transfer(m, f, n), n > 0 /\ m.buf /\ ~Fits(m.ctx, n), "EOVERFLOW")

FinishRc(m, how) == IF how = "consumed" THEN Consumed(m.ctx)
                                        ELSE Validate(m.ctx)

LeftOver(m) == IF m.buf THEN m.ctx.remaining
                        ELSE m.env.payload_length - m.ctx.cursor

Step(m, s) ==
    CASE s.op = "nonnull" -> FailIf(m, m.env.null, "EINVAL")
      [] s.op = "header" ->
             FailIf([m EXCEPT !.hdr = s.hdr], m.env.instance_id > PLDM_INSTANCE_MAX, "EINVAL")
      [] s.op = "need" -> FailIf(m, ~Fits(m.ctx, s.n), "EOVERFLOW")
      [] s.op = "left" ->
             FailIf(m, m.dir # "measure" /\
                       m.env.payload_length - m.ctx.cursor < s.n, "EOVERFLOW")
      [] s.op = "sub" ->
             LET left == m.env.payload_length - m.ctx.cursor
             IN FailIf([m EXCEPT !.buf = TRUE, !.ctx = Ctx(@.cursor, left)],
                       s.n > left, "EOVERFLOW")
      [] s.op = "init" ->
             FailIf([m EXCEPT !.buf = TRUE,
                              !.ctx = InitErrno(s.n, m.env.payload_length)],
                    s.n > m.env.payload_length, "EOVERFLOW")
      [] s.op = "field" -> Transfer(m, s.f, s.n)
      [] s.op = "stored" ->
             [Transfer([m EXCEPT !.env[s.f] = s.v], s.f, s.n)
                 EXCEPT !.env[s.f] = m.env[s.f]]
      [] s.op = "checked" -> TransferOrFail(m, s.f, s.n)
      [] s.op = "array" -> IF s.n > s.cap THEN Ret(m, "EINVAL")
                                          ELSE TransferOrFail(m, s.f, s.n)
      [] s.op = "rest" ->
             IF m.dir = "decode"
             THEN Transfer([m EXCEPT !.env[s.l] = LeftOver(m),
                                     !.open = @ \cup {s.f}], s.f, LeftOver(m))
             ELSE Transfer(m, s.f, m.env[s.l])
      [] s.op = "length" ->
             FailIf(m, m.dir # "measure" /\ m.env.payload_length # s.lo, s.err)
      [] s.op = "atleast" ->
             FailIf(m, m.dir # "measure" /\ m.env.payload_length < s.lo, s.err)
      [] s.op = "atmost" ->
             FailIf(m, m.dir # "measure" /\ m.env.payload_length > s.hi, s.err)
      [] s.op = "fail" -> FailIf(m, s.c, s.err)
      [] s.op = "return" -> FailIf(m, s.c, "OK")
      [] s.op = "set" -> [m EXCEPT !.env[s.f] = s.v]
      [] s.op = "haserror" ->
             IF /\ m.dir = "decode"
                /\ m.env.payload_length >= 1
                /\ m.wire[1][1] # PLDM_SUCCESS
             THEN [m EXCEPT !.env.completion_code = m.wire[1][1], !.rc = "OK",
                            !.got = @ \cup {"completion_code"}]
             ELSE m
      [] s.op = "finish" ->
             FailIf(m, s.c /\ (s.last \/ FinishRc(m, s.how) # "OK"),
                    FinishRc(m, s.how))

\* The function from its step pc on.  What the later steps are may depend on
\* the values read by the earlier ones.
RECURSIVE Run(_, _, _, _, _)
Run(lib, fn, m, steps, pc) ==
    IF m.rc # "" THEN m
    ELSE IF pc > Len(steps) THEN Ret(m, "OK")
    ELSE LET n == Step(m, steps[pc])
         IN Run(lib, fn, n,
                IF n.env = m.env THEN steps ELSE Program(lib, fn, n.env),
                pc + 1)

Call(dir, lib, fn, env, wire, past) ==
    Run(lib, fn, Start(dir, env, wire, past), Program(lib, fn, env), 1)

(***************************************************************************)
(* The exchange.                                                           *)
(***************************************************************************)
VARIABLES phase,     \* "idle", "encoded", "delivered", "decoded"
          msg,       \* the message on its way, without its arguments
          sent,      \* the encoder when it returned
          wire,      \* the payload as delivered
          received   \* the decoder when it returned

vars == <<phase, msg, sent, wire, received>>

NoMessage == [lib |-> "", enc |-> "", dec |-> "", inputs |-> {}, req |-> "",
              peer |-> FALSE]
NoCall == Start("", [payload_length |-> 0], << >>, Outside)

ExchangeInit ==
    /\ phase = "idle"
    /\ msg = NoMessage
    /\ sent = NoCall
    /\ wire = << >>
    /\ received = NoCall

\* The arguments of a call: those of the message, and those every codec has.
Arguments(a, null, id, n) ==
    a @@ [null |-> null, instance_id |-> id, payload_length |-> n]

\* An encoder that nothing limits, and the bytes it writes.
Unlimited(m, a) ==
    Call("measure", m.lib, m.enc, Arguments(a, FALSE, 0, INTMAX_MAX), << >>,
         Outside)

\* The bytes an encoder wants room for: those it writes, or the least size of
\* its buffer if that is more.
Size(m, a) ==
    Max({Len(Unlimited(m, a).wire)} \cup
        {s.n : s \in {x \in Range(Program(m.lib, m.enc,
                                           Arguments(a, FALSE, 0, 0))) :
                         x.op = "init"}})

\* Whether an encoder is told the size of the buffer.  One that is not relies
\* on its caller for the room it needs.
TakesLength(m, a) ==
    \E s \in Range(Program(m.lib, m.enc, Arguments(a, FALSE, 0, 0))) :
        s.op \in {"init", "length", "atleast", "atmost"}

EncodeCall(m, a, null, id, n) ==
    /\ phase = "idle"
    /\ ~m.peer
    /\ phase' = "encoded"
    /\ msg' = [x \in DOMAIN NoMessage |-> m[x]]
    /\ sent' = Call("encode", m.lib, m.enc, Arguments(a, null, id, n), << >>,
                    Outside)
    /\ UNCHANGED <<wire, received>>

\* An encoder is called with the arguments of a message, and a buffer that
\* holds it exactly or misses its size by a little.
Encode(m, a, slack) ==
    /\ phase = "idle" /\ ~m.peer
    /\ slack = 0 \/ TakesLength(m, a)
    /\ LET size == Size(m, a)
       IN /\ size + slack >= 0
          /\ EncodeCall(m, a, FALSE, PLDM_INSTANCE_MAX, size + slack)

\* An encoder is called without a pointer it needs, or with an instance id
\* that no header can hold.
EncodeWrongly(m, a, null) ==
    EncodeCall(m, a, null, PLDM_INSTANCE_MAX + 1, INTMAX_MAX)

\* The peer writes a message that the library only decodes.
EncodeByPeer(m, a) ==
    /\ phase = "idle"
    /\ m.peer
    /\ phase' = "encoded"
    /\ msg' = [x \in DOMAIN NoMessage |-> m[x]]
    /\ sent' = Unlimited(m, a)
    /\ UNCHANGED <<wire, received>>

\* A byte no encoder wrote.
StrayByte == <<Unset, 1, 1>>

\* The transport passes on the first n bytes of the payload, none of them for
\* a message that is only its header, or the payload and some bytes more.
Deliver(n) ==
    /\ phase = "encoded"
    /\ sent.rc = "OK" /\ ~sent.env.null
    /\ phase' = "delivered"
    /\ wire' = [k \in 1..n |-> IF k <= Len(sent.wire) THEN sent.wire[k]
                                                     ELSE StrayByte]
    /\ UNCHANGED <<msg, sent, received>>

\* The variables of a decoder before it runs: its inputs, and nothing stored
\* in the others.
Fresh ==
    [f \in DOMAIN sent.env |->
        CASE f \in msg.inputs -> sent.env[f]
          [] f = "null" -> FALSE
          [] f = "payload_length" -> Len(wire)
          [] OTHER -> Unset]

\* A decoder that reads beyond the payload finds success there, or something
\* else.
Decode(past) ==
    /\ phase = "delivered"
    /\ msg.dec # ""
    /\ phase' = "decoded"
    /\ received' = Call("decode", msg.lib, msg.dec, Fresh, wire, past)
    /\ UNCHANGED <<msg, sent, wire>>

\* The endpoints turn to another message.
Forget ==
    /\ phase # "idle"
    /\ phase' = "idle"
    /\ msg' = NoMessage
    /\ sent' = NoCall
    /\ wire' = << >>
    /\ received' = NoCall

\* The calls of an encoder.
AnyEncode ==
    \/ \E m \in Messages, slack \in -SLACK..SLACK :
          \E a \in m.args : Encode(m, a, slack)
    \/ \E m \in Messages, null \in BOOLEAN :
          EncodeWrongly(m, CHOOSE a \in m.args : TRUE, null)
    \/ \E m \in Messages : \E a \in m.args : EncodeByPeer(m, a)

ExchangeNext ==
    \/ phase = "idle" /\ AnyEncode
    \/ \E n \in 0..(Len(sent.wire) + SLACK) : Deliver(n)
    \/ \E past \in {PLDM_SUCCESS, Outside} : Decode(past)
    \/ Forget

ExchangeSpec == ExchangeInit /\ [][ExchangeNext]_vars

(***************************************************************************)
(* Properties.                                                             *)
(***************************************************************************)

\* The message is a response that reports an error.
Erroneous == "completion_code" \in DOMAIN sent.env /\
             sent.env.completion_code # PLDM_SUCCESS

\* Decoders of responses that read the completion code before they know that
\* there is one.
ReadsCodeFirst ==
    {"decode_get_commands_resp", "decode_get_version_resp",
     "decode_get_date_time_resp", "decode_set_date_time_resp",
     "decode_get_bios_attribute_current_value_by_handle_resp",
     "decode_set_bios_attribute_current_value_resp",
     "decode_set_bios_table_resp",
     "decode_get_fru_record_table_metadata_resp",
     "decode_get_fru_record_table_resp",
     "decode_get_fru_record_table_resp_safe",
     "decode_get_fru_record_by_option_resp",
     "decode_set_state_effecter_states_resp", "device_identifiers",
     "decode_get_alert_status_resp",
     "decode_get_oem_energy_count_sensor_reading_resp"}

\* What a decoder may read from beyond the end of a message: the completion
\* code of an empty one; and decode_get_terminus_UID_resp, which refuses only
\* messages that are too long, everything.
MayReadBeyond ==
    CASE msg.dec = "decode_get_terminus_UID_resp" -> {"completion_code", "uuid"}
      [] msg.dec \in ReadsCodeFirst /\ wire = << >> -> {"completion_code"}
      [] OTHER -> {}

\* An encoder that reports success has written nothing beyond the buffer it
\* was given; and wherever a message was cut, a decoder reads no byte beyond
\* its end, not even one it goes on to refuse. The exceptions are those of
\* MayReadBeyond: nothing else is read there.
CodecsStayInBounds ==
    /\ phase = "encoded" /\ sent.rc = "OK" =>
           Len(sent.wire) <= sent.env.payload_length
    /\ phase = "decoded" => received.over \subseteq MayReadBeyond

\* The codes with which a decoder refuses a message for its length.
LengthErrors == {"EOVERFLOW", "EBADMSG", "INVALID_LENGTH"}

\* Responses that the decoder wants whole even when they carry an error code,
\* while the encoder stops after the code.
WantsWholeResponse ==
    {"decode_get_pdr_resp", "decode_get_pdr_repository_info_resp",
     "decode_event_message_buffer_size_resp",
     "decode_event_message_supported_resp", "decode_get_bios_table_resp",
     "decode_rw_file_memory_resp", "decode_get_file_table_resp",
     "decode_read_file_resp", "decode_write_file_resp",
     "decode_rw_file_by_type_memory_resp", "decode_rw_file_by_type_resp"}

\* Decoders that refuse a response without data, and the data they want.
WantsData ==
    [decode_get_bios_table_resp |-> "table_data",
     decode_get_file_table_resp |-> "table_data",
     decode_get_bios_attribute_current_value_by_handle_resp |->
         "attribute_data",
     decode_get_fru_record_table_resp |-> "fru_record_table_data",
     decode_get_fru_record_table_resp_safe |-> "fru_record_table_data",
     decode_get_version_resp |-> "version_data"]

Dataless == /\ msg.dec \in DOMAIN WantsData
            /\ WantsData[msg.dec] \notin sent.got

\* The fields that decoders leave to the caller unread: the states of a
\* sensor, the bitmap of a response that says it is empty, and all versions
\* but the first.
LeftUnread ==
    CASE msg.dec = "decode_pldm_state_sensor_pdr" ->
             {"state_set_id", "states_size", "states"}
      [] msg.dec = "decode_cancel_update_resp" ->
             {"non_functioning_component_bitmap"}
      [] msg.dec = "decode_get_version_resp" -> {"further_versions"}
      [] OTHER -> {}

\* The messages on whose layout the encoder and the decoder disagree: a last
\* part without data, whose checksum the encoder leaves out unless it
\* acknowledges the completion; a file's OEM classification name, which the
\* encoder adds for its length and the decoder expects for the
\* classification; a descriptor without data, which only the decoder refuses;
\* a year whose hundreds do not fit in the byte they are encoded in; and a
\* completion code that is not stored because the buffer held another one.
Disagreement ==
    \/ /\ msg.enc = "encode_base_multipart_receive_resp"
       /\ sent.env.data_length = 0
       /\ sent.env.transfer_flag #
              PLDM_BASE_MULTIPART_RECEIVE_TRANSFER_FLAG_ACK_COMPLETION
    \/ /\ msg.enc = "encode_pldm_platform_file_descriptor_pdr"
       /\ (sent.env.oem_file_classification # 0) #
              (sent.env.oem_file_classification_name_length > 1)
    \/ /\ msg.enc = "encode_query_device_identifiers_resp"
       /\ sent.env.descriptor_length = 0
    \/ /\ msg.enc = "encode_set_date_time_req"
       /\ sent.env.year >= 16000
    \/ /\ msg.enc = "encode_new_file_with_metadata_resp"
       /\ sent.env.stale # PLDM_SUCCESS

\* The header of a response names the type and the command of its request,
\* and tells it from a request.
HeaderOfRequest ==
    phase = "encoded" /\ sent.rc = "OK" /\ msg.req # "" =>
        \E m \in Messages :
            /\ m.enc = msg.req
            /\ \E a \in m.args :
                  \E s \in Range(Program(m.lib, m.enc,
                                         Arguments(a, FALSE, 0, 0))) :
                     /\ s.op = "header"
                     /\ s.hdr.request = 1
                     /\ sent.hdr = [s.hdr EXCEPT !.request = 0]

\* A message that is delivered as it was encoded is never refused for its
\* length; every field comes out with the value that went in, those a
\* decoder refuses included; and a decoder that accepts a message without an
\* error code has read all of it but what LeftUnread names. The header of a response is that of its request.
RoundTrip ==
    /\ HeaderOfRequest
    /\ phase = "decoded" /\ wire = sent.wire /\ ~Disagreement =>
           /\ received.rc \in LengthErrors =>
                  (Erroneous /\ msg.dec \in WantsWholeResponse) \/ Dataless
           /\ \A f \in received.got : received.env[f] = sent.env[f]
           /\ received.rc = "OK" /\ ~Erroneous =>
                  sent.got \ LeftUnread \subseteq received.got
           /\ received.got \subseteq sent.got

Accepted == phase = "decoded" /\ received.rc = "OK"

\* Decoders that accept a message that lacks something: one the table that its
\* count announces, the other, to which an empty response means success, the
\* completion code.
AcceptsLess == {"decode_get_firmware_parameters_resp",
                "decode_pldm_file_df_close_resp"}

\* Wherever a message was cut, and whatever bytes follow it, a decoder that
\* accepts it has read values that were sent, each whole and from its own
\* field, the field that the end of the message ends excepted; and it has
\* read all of them. (What is read beyond the end is CodecsStayInBounds'.)
OnlySentValues ==
    Accepted /\ received.over = {} /\ ~Disagreement =>
        /\ \A f \in received.got \ received.open :
               received.env[f] = sent.env[f]
        /\ ~Erroneous /\ msg.dec \notin AcceptsLess =>
               sent.got \ LeftUnread \subseteq received.got \cup received.open

=============================================================================
