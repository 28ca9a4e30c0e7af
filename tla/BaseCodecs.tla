------------------------------ MODULE BaseCodecs ------------------------------
(***************************************************************************)
(* The messages of PLDM for Messaging Control and Discovery                *)
(* (src/src/dsp/base.c).                                                   *)
(***************************************************************************)
EXTENDS CodecOps

PLDM_SET_TID == 1
PLDM_GET_TID == 2
PLDM_GET_PLDM_VERSION == 3
PLDM_GET_PLDM_TYPES == 4
PLDM_GET_PLDM_COMMANDS == 5
PLDM_NEGOTIATE_TRANSFER_PARAMETERS == 7
PLDM_MULTIPART_SEND == 8
PLDM_MULTIPART_RECEIVE == 9

PLDM_XFER_NEXT_PART == 1
PLDM_XFER_CURRENT_PART == 4
PLDM_BASE_MULTIPART_SEND_TRANSFER_FLAG_START == 1
PLDM_BASE_MULTIPART_SEND_TRANSFER_FLAG_START_AND_END == 5
PLDM_BASE_MULTIPART_RECEIVE_TRANSFER_FLAG_ACK_COMPLETION == 8
PLDM_BASE_MIN_PART_SIZE == 256

(***************************************************************************)
(* The structures, with the values their fields are given.                 *)
(***************************************************************************)
pldm_only_cc_resp ==
    [type : {PLDM_BASE}, command : {PLDM_SET_TID}, completion_code : {0, 1}]
pldm_get_commands_req == [type : {11}, version : {12}]
pldm_get_commands_resp == [completion_code : {0, 1}, commands : {11}]
pldm_get_version_req ==
    [transfer_handle : {11}, transfer_opflag : {12}, type : {13}]
pldm_get_version_resp ==
    [completion_code : {0, 1}, next_transfer_handle : {11},
     transfer_flag : {12}, version_data : {13}, further_versions : {14},
     version_size : {0, 4, 8}]
pldm_set_tid_req == [tid : {0, 9, 255}]
pldm_base_multipart_send_req ==
    [pldm_type : {PLDM_BASE, PLDM_BIOS, PLDM_FILE}, transfer_flag : {1, 2, 5},
     transfer_ctx : {11}, transfer_handle : {12}, next_transfer_handle : {13},
     section_offset : {0, 14}, section_length : {0, 15}, data_length : {0, 2},
     data : {16}, checksum : {17}]
pldm_base_multipart_send_resp ==
    [completion_code : {0, 1}, next_transfer_operation : {11}]
pldm_base_multipart_receive_req ==
    [pldm_type : {11}, transfer_opflag : 0..5, transfer_ctx : {12},
     transfer_handle : {0, 13}, section_offset : {14}, section_length : {15}]
pldm_base_multipart_receive_resp ==
    [completion_code : {0, 1}, transfer_flag : {1, 8},
     next_transfer_handle : {11}, data_length : {0, 2}, data : {12},
     checksum : {13}]
pldm_base_negotiate_transfer_params_req ==
    [requester_part_size : {11}, requester_protocol_support : {12}]
pldm_base_negotiate_transfer_params_resp ==
    [completion_code : {0, 1}, responder_part_size : {255, 256},
     responder_protocol_support : {12}]
pldm_base_get_tid_resp == [completion_code : {0, 1}, tid : {11}]
pldm_base_get_pldm_types_resp == [completion_code : {0, 1}, pldm_types : {11}]

(***************************************************************************)
(* The functions.                                                          *)
(***************************************************************************)
encode_get_types_req(e) == <<NonNull, Request(PLDM_BASE, PLDM_GET_PLDM_TYPES)>>

encode_get_commands_req(e) ==
    <<NonNull, Request(PLDM_BASE, PLDM_GET_PLDM_COMMANDS),
      U8("type"), U32("version")>>

decode_get_commands_req(e) ==
    <<NonNull, LengthIs(5, "INVALID_LENGTH"), U8("type"), U32("version")>>

encode_get_commands_resp(e) ==
    <<NonNull, Response(PLDM_BASE, PLDM_GET_PLDM_COMMANDS),
      U8("completion_code"), Return(e.completion_code # PLDM_SUCCESS),
      Bytes("commands", 32)>>

decode_get_commands_resp(e) ==
    <<NonNull, U8("completion_code"), Return(e.completion_code # PLDM_SUCCESS),
      LengthIs(33, "INVALID_LENGTH"), Bytes("commands", 32)>>

encode_get_version_req(e) ==
    <<NonNull, Request(PLDM_BASE, PLDM_GET_PLDM_VERSION),
      U32("transfer_handle"), U8("transfer_opflag"), U8("type")>>

\* The version_size bytes at version_data are the first version and those that
\* follow it, the last of which is a checksum.
encode_get_version_resp(e) ==
    <<NonNull, Response(PLDM_BASE, PLDM_GET_PLDM_VERSION),
      U8("completion_code"), Return(e.completion_code # PLDM_SUCCESS),
      U32("next_transfer_handle"), U8("transfer_flag"),
      Bytes("version_data", Min({4, e.version_size})),
      Bytes("further_versions", e.version_size - 4)>>

decode_get_version_req(e) ==
    <<LengthIs(6, "INVALID_LENGTH"), U32("transfer_handle"),
      U8("transfer_opflag"), U8("type")>>

decode_get_version_resp(e) ==
    <<NonNull, U8("completion_code"), Return(e.completion_code # PLDM_SUCCESS),
      LengthAtLeast(10, "INVALID_LENGTH"),
      U32("next_transfer_handle"), U8("transfer_flag"),
      Bytes("version_data", 4)>>

encode_get_tid_req(e) == <<NonNull, Request(PLDM_BASE, PLDM_GET_TID)>>

encode_set_tid_req(e) ==
    <<NonNull, Fail(e.tid \in {0, 255}, "INVALID_DATA"),
      Request(PLDM_BASE, PLDM_SET_TID), U8("tid")>>

decode_set_tid_req(e) == <<NonNull, Init(1), U8("tid"), CompleteConsumed>>

decode_pldm_base_multipart_receive_req(e) ==
    <<NonNull, Init(18),
      U8("pldm_type"), U8("transfer_opflag"), U32("transfer_ctx"),
      U32("transfer_handle"), U32("section_offset"), U32("section_length"),
      ConsumedThen,
      Fail(e.transfer_opflag > PLDM_XFER_CURRENT_PART, "EPROTO"),
      Fail(e.transfer_handle = 0 /\ e.transfer_opflag = PLDM_XFER_NEXT_PART,
           "EPROTO")>>

encode_pldm_base_multipart_receive_req(e) ==
    <<NonNull, Request(PLDM_BASE, PLDM_MULTIPART_RECEIVE), Init(18),
      U8("pldm_type"), U8("transfer_opflag"), U32("transfer_ctx"),
      U32("transfer_handle"), U32("section_offset"), U32("section_length"),
      CompleteUsed>>

decode_pldm_base_multipart_receive_resp(e) ==
    <<NonNull, HasError, Init(10),
      U8("completion_code"), Checked("transfer_flag", 1),
      U32("next_transfer_handle"), Checked("data_length", 4)>> \o
    When(e.data_length > 0, <<Field("data", e.data_length)>>) \o
    When(e.transfer_flag #
             PLDM_BASE_MULTIPART_RECEIVE_TRANSFER_FLAG_ACK_COMPLETION,
         <<U32("checksum")>>) \o
    <<CompleteConsumed>>

encode_base_multipart_receive_resp(e) ==
    <<NonNull, Response(PLDM_BASE, PLDM_MULTIPART_RECEIVE), Init(10),
      U8("completion_code"), UsedIf(e.completion_code # PLDM_SUCCESS),
      U8("transfer_flag"), U32("next_transfer_handle"), U32("data_length"),
      UsedIf(e.data_length = 0), Bytes("data", e.data_length)>> \o
    When(e.transfer_flag #
             PLDM_BASE_MULTIPART_RECEIVE_TRANSFER_FLAG_ACK_COMPLETION,
         <<U32("checksum")>>) \o
    <<CompleteUsed>>

decode_pldm_base_multipart_send_resp(e) ==
    <<NonNull, HasError, Init(2), U8("completion_code"),
      U8("next_transfer_operation"), CompleteConsumed>>

encode_pldm_base_multipart_send_resp(e) ==
    <<NonNull, Response(PLDM_BASE, PLDM_MULTIPART_SEND), Init(2),
      U8("completion_code"), U8("next_transfer_operation"), CompleteUsed>>

\* SectionOffset and SectionLength belong to the first part of a transfer.
SectionMisplaced(e) ==
    /\ e.transfer_flag \notin
           {PLDM_BASE_MULTIPART_SEND_TRANSFER_FLAG_START,
            PLDM_BASE_MULTIPART_SEND_TRANSFER_FLAG_START_AND_END}
    /\ e.section_offset # 0 \/ e.section_length # 0

decode_pldm_base_multipart_send_req(e) ==
    <<NonNull, Init(26),
      U8("pldm_type"), U8("transfer_flag"), U32("transfer_ctx"),
      U32("transfer_handle"), U32("next_transfer_handle"),
      U32("section_offset"), U32("section_length"),
      Fail(e.pldm_type \notin {PLDM_BASE, PLDM_FILE}, "ENOTSUP"),
      Fail(SectionMisplaced(e), "EPROTO"),
      Checked("data_length", 4)>> \o
    When(e.data_length > 0,
         <<Field("data", e.data_length), U32("checksum")>>) \o
    <<CompleteConsumed>>

encode_pldm_base_multipart_send_req(e) ==
    <<NonNull, Request(PLDM_BASE, PLDM_MULTIPART_SEND), Init(26),
      U8("pldm_type"), U8("transfer_flag"), U32("transfer_ctx"),
      U32("transfer_handle"), U32("next_transfer_handle"),
      U32("section_offset"), U32("section_length"),
      Fail(SectionMisplaced(e), "EPROTO"),
      U32("data_length"), UsedIf(e.data_length = 0),
      Bytes("data", e.data_length), U32("checksum"), CompleteUsed>>

encode_cc_only_resp(e) ==
    <<NonNull, Response(e.type, e.command), U8("completion_code")>>

encode_pldm_base_negotiate_transfer_params_req(e) ==
    <<NonNull, Request(PLDM_BASE, PLDM_NEGOTIATE_TRANSFER_PARAMETERS),
      Init(10), U16("requester_part_size"),
      Bytes("requester_protocol_support", 8), CompleteUsed>>

encode_pldm_base_negotiate_transfer_params_resp(e) ==
    <<NonNull,
      Fail(e.responder_part_size < PLDM_BASE_MIN_PART_SIZE, "EINVAL"),
      Response(PLDM_BASE, PLDM_NEGOTIATE_TRANSFER_PARAMETERS), Init(11),
      U8("completion_code"), U16("responder_part_size"),
      Bytes("responder_protocol_support", 8), CompleteUsed>>

decode_pldm_base_negotiate_transfer_params_req(e) ==
    <<NonNull, Init(10), U16("requester_part_size"),
      Bytes("requester_protocol_support", 8), CompleteConsumed>>

decode_pldm_base_negotiate_transfer_params_resp(e) ==
    <<NonNull, HasError, Init(11), U8("completion_code"),
      U16("responder_part_size"), Bytes("responder_protocol_support", 8),
      CompleteConsumed>>

decode_cc_only_resp(e) ==
    <<NonNull, LengthIs(1, "INVALID_LENGTH"), U8("completion_code")>>

encode_pldm_base_get_tid_resp(e) ==
    <<NonNull, LengthAtLeast(1, "EOVERFLOW"),
      Response(PLDM_BASE, PLDM_GET_TID)>> \o
    When(e.completion_code # PLDM_SUCCESS,
         <<U8("completion_code"), Return(TRUE)>>) \o
    <<Init(2), U8("completion_code"), U8("tid"), CompleteUsed>>

decode_pldm_base_get_tid_resp(e) ==
    <<NonNull, HasError, Init(2), U8("completion_code"), U8("tid"),
      CompleteConsumed>>

encode_pldm_base_get_pldm_types_resp(e) ==
    <<NonNull, LengthAtLeast(1, "EOVERFLOW"),
      Response(PLDM_BASE, PLDM_GET_PLDM_TYPES)>> \o
    When(e.completion_code # PLDM_SUCCESS,
         <<U8("completion_code"), Return(TRUE)>>) \o
    <<Init(9), U8("completion_code"), Field("pldm_types", 8), CompleteUsed>>

decode_pldm_base_get_pldm_types_resp(e) ==
    <<NonNull, HasError, Init(9), U8("completion_code"),
      Field("pldm_types", 8), CompleteConsumed>>

BaseProgram(fn, e) ==
    CASE fn = "encode_get_types_req" -> encode_get_types_req(e)
      [] fn = "encode_get_commands_req" -> encode_get_commands_req(e)
      [] fn = "decode_get_commands_req" -> decode_get_commands_req(e)
      [] fn = "encode_get_commands_resp" -> encode_get_commands_resp(e)
      [] fn = "decode_get_commands_resp" -> decode_get_commands_resp(e)
      [] fn = "encode_get_version_req" -> encode_get_version_req(e)
      [] fn = "encode_get_version_resp" -> encode_get_version_resp(e)
      [] fn = "decode_get_version_req" -> decode_get_version_req(e)
      [] fn = "decode_get_version_resp" -> decode_get_version_resp(e)
      [] fn = "encode_get_tid_req" -> encode_get_tid_req(e)
      [] fn = "encode_set_tid_req" -> encode_set_tid_req(e)
      [] fn = "decode_set_tid_req" -> decode_set_tid_req(e)
      [] fn = "decode_pldm_base_multipart_receive_req" ->
             decode_pldm_base_multipart_receive_req(e)
      [] fn = "encode_pldm_base_multipart_receive_req" ->
             encode_pldm_base_multipart_receive_req(e)
      [] fn = "decode_pldm_base_multipart_receive_resp" ->
             decode_pldm_base_multipart_receive_resp(e)
      [] fn = "encode_base_multipart_receive_resp" ->
             encode_base_multipart_receive_resp(e)
      [] fn = "decode_pldm_base_multipart_send_resp" ->
             decode_pldm_base_multipart_send_resp(e)
      [] fn = "encode_pldm_base_multipart_send_resp" ->
             encode_pldm_base_multipart_send_resp(e)
      [] fn = "decode_pldm_base_multipart_send_req" ->
             decode_pldm_base_multipart_send_req(e)
      [] fn = "encode_pldm_base_multipart_send_req" ->
             encode_pldm_base_multipart_send_req(e)
      [] fn = "encode_cc_only_resp" -> encode_cc_only_resp(e)
      [] fn = "encode_pldm_base_negotiate_transfer_params_req" ->
             encode_pldm_base_negotiate_transfer_params_req(e)
      [] fn = "encode_pldm_base_negotiate_transfer_params_resp" ->
             encode_pldm_base_negotiate_transfer_params_resp(e)
      [] fn = "decode_pldm_base_negotiate_transfer_params_req" ->
             decode_pldm_base_negotiate_transfer_params_req(e)
      [] fn = "decode_pldm_base_negotiate_transfer_params_resp" ->
             decode_pldm_base_negotiate_transfer_params_resp(e)
      [] fn = "decode_cc_only_resp" -> decode_cc_only_resp(e)
      [] fn = "encode_pldm_base_get_tid_resp" ->
             encode_pldm_base_get_tid_resp(e)
      [] fn = "decode_pldm_base_get_tid_resp" ->
             decode_pldm_base_get_tid_resp(e)
      [] fn = "encode_pldm_base_get_pldm_types_resp" ->
             encode_pldm_base_get_pldm_types_resp(e)
      [] fn = "decode_pldm_base_get_pldm_types_resp" ->
             decode_pldm_base_get_pldm_types_resp(e)

Base(enc, dec, args, req) == Message("base", enc, dec, args, {}, req)

BaseMessages ==
    {Base("encode_get_types_req", "", NoFields, ""),
     Base("encode_pldm_base_get_pldm_types_resp",
          "decode_pldm_base_get_pldm_types_resp",
          pldm_base_get_pldm_types_resp, "encode_get_types_req"),
     Base("encode_get_commands_req", "decode_get_commands_req",
          pldm_get_commands_req, ""),
     Base("encode_get_commands_resp", "decode_get_commands_resp",
          pldm_get_commands_resp, "encode_get_commands_req"),
     Base("encode_get_version_req", "decode_get_version_req",
          pldm_get_version_req, ""),
     Base("encode_get_version_resp", "decode_get_version_resp",
          pldm_get_version_resp, "encode_get_version_req"),
     Base("encode_get_tid_req", "", NoFields, ""),
     Base("encode_pldm_base_get_tid_resp", "decode_pldm_base_get_tid_resp",
          pldm_base_get_tid_resp, "encode_get_tid_req"),
     Base("encode_set_tid_req", "decode_set_tid_req", pldm_set_tid_req, ""),
     Base("encode_cc_only_resp", "decode_cc_only_resp", pldm_only_cc_resp, ""),
     Base("encode_pldm_base_multipart_receive_req",
          "decode_pldm_base_multipart_receive_req",
          pldm_base_multipart_receive_req, ""),
     Base("encode_base_multipart_receive_resp",
          "decode_pldm_base_multipart_receive_resp",
          pldm_base_multipart_receive_resp,
          "encode_pldm_base_multipart_receive_req"),
     Base("encode_pldm_base_multipart_send_req",
          "decode_pldm_base_multipart_send_req",
          pldm_base_multipart_send_req, ""),
     Base("encode_pldm_base_multipart_send_resp",
          "decode_pldm_base_multipart_send_resp",
          pldm_base_multipart_send_resp,
          "encode_pldm_base_multipart_send_req"),
     Base("encode_pldm_base_negotiate_transfer_params_req",
          "decode_pldm_base_negotiate_transfer_params_req",
          pldm_base_negotiate_transfer_params_req, ""),
     Base("encode_pldm_base_negotiate_transfer_params_resp",
          "decode_pldm_base_negotiate_transfer_params_resp",
          pldm_base_negotiate_transfer_params_resp,
          "encode_pldm_base_negotiate_transfer_params_req")}

=============================================================================
