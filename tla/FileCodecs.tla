------------------------------ MODULE FileCodecs ------------------------------
(***************************************************************************)
(* The messages of file transfer, src/dsp/file.c.                          *)
(***************************************************************************)
EXTENDS CodecOps

PLDM_FILE_CMD_DF_OPEN == 1
PLDM_FILE_CMD_DF_CLOSE == 2
PLDM_FILE_CMD_DF_HEARTBEAT == 3

pldm_file_df_open_req == [file_identifier : {11}, file_attribute : {12}]
pldm_file_df_open_resp == [completion_code : {0, 1}, file_descriptor : {11}]
pldm_file_df_close_req == [file_descriptor : {11}, df_close_options : {12}]
pldm_file_df_close_resp == [completion_code : {0, 1}]
pldm_file_df_heartbeat_req ==
    [file_descriptor : {11}, requester_max_interval : {12}]
pldm_file_df_heartbeat_resp ==
    [completion_code : {0, 1}, responder_max_interval : {11}]

encode_pldm_file_df_open_req(e) ==
    <<NonNull, Request(PLDM_FILE, PLDM_FILE_CMD_DF_OPEN), Init(4),
      U16("file_identifier"), U16("file_attribute"), CompleteUsed>>

decode_pldm_file_df_open_req(e) ==
    <<NonNull, Init(4), U16("file_identifier"), U16("file_attribute"),
      CompleteConsumed>>

encode_pldm_file_df_open_resp(e) ==
    <<NonNull, Response(PLDM_FILE, PLDM_FILE_CMD_DF_OPEN), Init(3),
      U8("completion_code")>> \o
    When(e.completion_code = PLDM_SUCCESS, <<U16("file_descriptor")>>) \o
    <<CompleteUsed>>

decode_pldm_file_df_open_resp(e) ==
    <<NonNull, HasError, Init(3), U8("completion_code"),
      Finish("complete", e.completion_code # PLDM_SUCCESS, TRUE),
      U16("file_descriptor"), CompleteConsumed>>

encode_pldm_file_df_close_req(e) ==
    <<NonNull, Request(PLDM_FILE, PLDM_FILE_CMD_DF_CLOSE), Init(4),
      U16("file_descriptor"), U16("df_close_options"), CompleteUsed>>

decode_pldm_file_df_close_req(e) ==
    <<NonNull, Init(4), U16("file_descriptor"), U16("df_close_options"),
      CompleteConsumed>>

encode_pldm_file_df_close_resp(e) ==
    <<NonNull, Response(PLDM_FILE, PLDM_FILE_CMD_DF_CLOSE), Init(1),
      U8("completion_code"), CompleteUsed>>

\* All the decoder does is ask pldm_msg_has_error, for which an empty payload
\* has no error.
decode_pldm_file_df_close_resp(e) ==
    <<NonNull, IF e.payload_length < 1 THEN Set("completion_code", PLDM_SUCCESS)
                                       ELSE U8("completion_code")>>

encode_pldm_file_df_heartbeat_req(e) ==
    <<NonNull, Request(PLDM_FILE, PLDM_FILE_CMD_DF_HEARTBEAT), Init(6),
      U16("file_descriptor"), U32("requester_max_interval"), CompleteUsed>>

decode_pldm_file_df_heartbeat_resp(e) ==
    <<NonNull, HasError, Init(5), U8("completion_code"),
      U32("responder_max_interval"), CompleteConsumed>>

decode_pldm_file_df_heartbeat_req(e) ==
    <<NonNull, Init(6), U16("file_descriptor"), U32("requester_max_interval"),
      CompleteConsumed>>

encode_pldm_file_df_heartbeat_resp(e) ==
    <<NonNull, Response(PLDM_FILE, PLDM_FILE_CMD_DF_HEARTBEAT), Init(5),
      U8("completion_code")>> \o
    When(e.completion_code = PLDM_SUCCESS, <<U32("responder_max_interval")>>) \o
    <<CompleteUsed>>

FileProgram(fn, e) ==
    CASE fn = "encode_pldm_file_df_open_req" -> encode_pldm_file_df_open_req(e)
      [] fn = "decode_pldm_file_df_open_req" -> decode_pldm_file_df_open_req(e)
      [] fn = "encode_pldm_file_df_open_resp" ->
             encode_pldm_file_df_open_resp(e)
      [] fn = "decode_pldm_file_df_open_resp" ->
             decode_pldm_file_df_open_resp(e)
      [] fn = "encode_pldm_file_df_close_req" ->
             encode_pldm_file_df_close_req(e)
      [] fn = "decode_pldm_file_df_close_req" ->
             decode_pldm_file_df_close_req(e)
      [] fn = "encode_pldm_file_df_close_resp" ->
             encode_pldm_file_df_close_resp(e)
      [] fn = "decode_pldm_file_df_close_resp" ->
             decode_pldm_file_df_close_resp(e)
      [] fn = "encode_pldm_file_df_heartbeat_req" ->
             encode_pldm_file_df_heartbeat_req(e)
      [] fn = "decode_pldm_file_df_heartbeat_resp" ->
             decode_pldm_file_df_heartbeat_resp(e)
      [] fn = "decode_pldm_file_df_heartbeat_req" ->
             decode_pldm_file_df_heartbeat_req(e)
      [] fn = "encode_pldm_file_df_heartbeat_resp" ->
             encode_pldm_file_df_heartbeat_resp(e)

File(enc, dec, args, req) == Message("file", enc, dec, args, {}, req)

FileMessages ==
    {File("encode_pldm_file_df_open_req", "decode_pldm_file_df_open_req",
          pldm_file_df_open_req, ""),
     File("encode_pldm_file_df_open_resp", "decode_pldm_file_df_open_resp",
          pldm_file_df_open_resp, "encode_pldm_file_df_open_req"),
     File("encode_pldm_file_df_close_req", "decode_pldm_file_df_close_req",
          pldm_file_df_close_req, ""),
     File("encode_pldm_file_df_close_resp", "decode_pldm_file_df_close_resp",
          pldm_file_df_close_resp, "encode_pldm_file_df_close_req"),
     File("encode_pldm_file_df_heartbeat_req",
          "decode_pldm_file_df_heartbeat_req", pldm_file_df_heartbeat_req, ""),
     File("encode_pldm_file_df_heartbeat_resp",
          "decode_pldm_file_df_heartbeat_resp", pldm_file_df_heartbeat_resp,
          "encode_pldm_file_df_heartbeat_req")}

=============================================================================
