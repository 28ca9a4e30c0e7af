------------------------------- MODULE FruCodecs -------------------------------
(***************************************************************************)
(* The messages of FRU data, src/dsp/fru.c.  The search in a record table  *)
(* is not modelled.                                                        *)
(***************************************************************************)
EXTENDS CodecOps

PLDM_GET_FRU_RECORD_TABLE_METADATA == 1
PLDM_GET_FRU_RECORD_TABLE == 2
PLDM_SET_FRU_RECORD_TABLE == 3
PLDM_GET_FRU_RECORD_BY_OPTION == 4

(***************************************************************************)
(* The structures.                                                         *)
(***************************************************************************)
pldm_get_fru_record_table_metadata_resp ==
    [completion_code : {0, 1}, fru_data_major_version : {11},
     fru_data_minor_version : {12}, fru_table_maximum_size : {13},
     fru_table_length : {14}, total_record_set_identifiers : {15},
     total_table_records : {16}, checksum : {17}]
pldm_get_fru_record_table_req ==
    [data_transfer_handle : {11}, transfer_operation_flag : {12}]
pldm_get_fru_record_table_resp ==
    [completion_code : {0, 1}, next_data_transfer_handle : {11},
     transfer_flag : {12}, fru_record_table_data : {13},
     fru_record_table_length : {0, 1, 3},
     max_fru_record_table_length : {2, SIZE_MAX}]
pldm_get_fru_record_by_option_req ==
    [data_transfer_handle : {11}, fru_table_handle : {12},
     record_set_identifier : {13}, record_type : {14}, field_type : {15},
     transfer_op_flag : {16}]
pldm_get_fru_record_by_option_resp ==
    [completion_code : {0, 1}, next_data_transfer_handle : {11},
     transfer_flag : {12}, fru_structure_data : {13}, data_size : {0, 3}]
pldm_set_fru_record_table_req ==
    [data_transfer_handle : {11}, transfer_flag : {12},
     fru_record_table_data : {13}, fru_record_table_length : {1, 3}]
pldm_set_fru_record_table_resp ==
    [completion_code : {0, 1}, next_data_transfer_handle : {11}]

(***************************************************************************)
(* The functions.                                                          *)
(***************************************************************************)
encode_get_fru_record_table_metadata_req(e) ==
    <<NonNull, LengthIs(0, "INVALID_LENGTH"),
      Request(PLDM_FRU, PLDM_GET_FRU_RECORD_TABLE_METADATA)>>

decode_get_fru_record_table_metadata_resp(e) ==
    <<NonNull, U8("completion_code"), Return(e.completion_code # PLDM_SUCCESS),
      LengthIs(19, "INVALID_LENGTH"), U8("fru_data_major_version"),
      U8("fru_data_minor_version"), U32("fru_table_maximum_size"),
      U32("fru_table_length"), U16("total_record_set_identifiers"),
      U16("total_table_records"), U32("checksum")>>

encode_get_fru_record_table_metadata_resp(e) ==
    <<NonNull, Response(PLDM_FRU, PLDM_GET_FRU_RECORD_TABLE_METADATA),
      U8("completion_code"), Return(e.completion_code # PLDM_SUCCESS),
      U8("fru_data_major_version"), U8("fru_data_minor_version"),
      U32("fru_table_maximum_size"), U32("fru_table_length"),
      U16("total_record_set_identifiers"), U16("total_table_records"),
      U32("checksum")>>

decode_get_fru_record_table_req(e) ==
    <<NonNull, LengthIs(5, "INVALID_LENGTH"), U32("data_transfer_handle"),
      U8("transfer_operation_flag")>>

encode_get_fru_record_table_resp(e) ==
    <<NonNull, Response(PLDM_FRU, PLDM_GET_FRU_RECORD_TABLE),
      U8("completion_code"), Return(e.completion_code # PLDM_SUCCESS),
      U32("next_data_transfer_handle"), U8("transfer_flag")>>

\* The response with the table its caller puts after it.
FruRecordTableResponse(e) ==
    encode_get_fru_record_table_resp(e) \o
    <<Field("fru_record_table_data", e.fru_record_table_length)>>

encode_get_fru_record_by_option_req(e) ==
    <<NonNull, LengthIs(11, "INVALID_LENGTH"),
      Request(PLDM_FRU, PLDM_GET_FRU_RECORD_BY_OPTION),
      U32("data_transfer_handle"), U16("fru_table_handle"),
      U16("record_set_identifier"), U8("record_type"), U8("field_type"),
      U8("transfer_op_flag")>>

decode_get_fru_record_by_option_req(e) ==
    <<NonNull, LengthIs(11, "INVALID_LENGTH"), U32("data_transfer_handle"),
      U16("fru_table_handle"), U16("record_set_identifier"),
      U8("record_type"), U8("field_type"), U8("transfer_op_flag")>>

encode_get_fru_record_by_option_resp(e) ==
    <<NonNull, LengthAtLeast(6, "INVALID_LENGTH"),
      LengthAtLeast(6 + e.data_size, "INVALID_LENGTH"),
      Response(PLDM_FRU, PLDM_GET_FRU_RECORD_BY_OPTION),
      U8("completion_code"), U32("next_data_transfer_handle"),
      U8("transfer_flag")>> \o
    When(e.completion_code = PLDM_SUCCESS,
         <<Field("fru_structure_data", e.data_size)>>)

decode_get_fru_record_by_option_resp(e) ==
    <<NonNull, U8("completion_code"), Return(e.completion_code # PLDM_SUCCESS),
      LengthAtLeast(6, "INVALID_LENGTH"), U32("next_data_transfer_handle"),
      U8("transfer_flag"), Rest("fru_structure_data", "data_size")>>

encode_get_fru_record_table_req(e) ==
    <<NonNull, LengthIs(5, "INVALID_LENGTH"),
      Request(PLDM_FRU, PLDM_GET_FRU_RECORD_TABLE),
      U32("data_transfer_handle"), U8("transfer_operation_flag")>>

decode_get_fru_record_table_resp_safe(e) ==
    <<NonNull, U8("completion_code"), Return(e.completion_code # PLDM_SUCCESS),
      LengthAtLeast(7, "INVALID_LENGTH"), U32("next_data_transfer_handle"),
      U8("transfer_flag"),
      Fail(e.payload_length - 6 > e.max_fru_record_table_length,
           "MAX_FRU_RECORD_TABLE_LENGTH"),
      Rest("fru_record_table_data", "fru_record_table_length")>>

decode_get_fru_record_table_resp(e) ==
    decode_get_fru_record_table_resp_safe(
        [e EXCEPT !.max_fru_record_table_length = SIZE_MAX])

decode_set_fru_record_table_req(e) ==
    <<NonNull, LengthAtLeast(6, "INVALID_LENGTH"), U32("data_transfer_handle"),
      U8("transfer_flag"),
      Rest("fru_record_table_data", "fru_record_table_length")>>

encode_set_fru_record_table_resp(e) ==
    <<NonNull, LengthIs(5, "INVALID_LENGTH"),
      Response(PLDM_FRU, PLDM_SET_FRU_RECORD_TABLE), U8("completion_code"),
      U32("next_data_transfer_handle")>>

FruProgram(fn, e) ==
    CASE fn = "encode_get_fru_record_table_metadata_req" ->
             encode_get_fru_record_table_metadata_req(e)
      [] fn = "decode_get_fru_record_table_metadata_resp" ->
             decode_get_fru_record_table_metadata_resp(e)
      [] fn = "encode_get_fru_record_table_metadata_resp" ->
             encode_get_fru_record_table_metadata_resp(e)
      [] fn = "decode_get_fru_record_table_req" ->
             decode_get_fru_record_table_req(e)
      [] fn = "encode_get_fru_record_table_resp" ->
             encode_get_fru_record_table_resp(e)
      [] fn = "encode_get_fru_record_by_option_req" ->
             encode_get_fru_record_by_option_req(e)
      [] fn = "decode_get_fru_record_by_option_req" ->
             decode_get_fru_record_by_option_req(e)
      [] fn = "encode_get_fru_record_by_option_resp" ->
             encode_get_fru_record_by_option_resp(e)
      [] fn = "decode_get_fru_record_by_option_resp" ->
             decode_get_fru_record_by_option_resp(e)
      [] fn = "encode_get_fru_record_table_req" ->
             encode_get_fru_record_table_req(e)
      [] fn = "decode_get_fru_record_table_resp_safe" ->
             decode_get_fru_record_table_resp_safe(e)
      [] fn = "decode_get_fru_record_table_resp" ->
             decode_get_fru_record_table_resp(e)
      [] fn = "decode_set_fru_record_table_req" ->
             decode_set_fru_record_table_req(e)
      [] fn = "encode_set_fru_record_table_resp" ->
             encode_set_fru_record_table_resp(e)
      [] fn = "fru_record_table_response" -> FruRecordTableResponse(e)

Fru(enc, dec, args, inputs, req) ==
    Message("fru", enc, dec, args, inputs, req)

FruMessages ==
    {Fru("encode_get_fru_record_table_metadata_req", "", NoFields, {}, ""),
     Fru("encode_get_fru_record_table_metadata_resp",
         "decode_get_fru_record_table_metadata_resp",
         pldm_get_fru_record_table_metadata_resp, {},
         "encode_get_fru_record_table_metadata_req"),
     Fru("encode_get_fru_record_table_req", "decode_get_fru_record_table_req",
         pldm_get_fru_record_table_req, {}, ""),
     Fru("fru_record_table_response", "decode_get_fru_record_table_resp",
         pldm_get_fru_record_table_resp, {},
         "encode_get_fru_record_table_req"),
     Fru("fru_record_table_response", "decode_get_fru_record_table_resp_safe",
         pldm_get_fru_record_table_resp, {"max_fru_record_table_length"},
         "encode_get_fru_record_table_req"),
     Fru("encode_get_fru_record_by_option_req",
         "decode_get_fru_record_by_option_req",
         pldm_get_fru_record_by_option_req, {}, ""),
     Fru("encode_get_fru_record_by_option_resp",
         "decode_get_fru_record_by_option_resp",
         pldm_get_fru_record_by_option_resp, {},
         "encode_get_fru_record_by_option_req"),
     FromPeer("fru", "decode_set_fru_record_table_req",
              "decode_set_fru_record_table_req",
              pldm_set_fru_record_table_req, {}),
     Fru("encode_set_fru_record_table_resp", "",
         pldm_set_fru_record_table_resp, {}, "")}

=============================================================================
