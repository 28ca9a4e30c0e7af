------------------------------ MODULE BiosCodecs ------------------------------
(***************************************************************************)
(* The messages of BIOS control and configuration, src/dsp/bios.c with     *)
(* src/bcd.c and src/utils.c.                                              *)
(***************************************************************************)
EXTENDS CodecOps

PLDM_GET_BIOS_TABLE == 1
PLDM_SET_BIOS_TABLE == 2
PLDM_SET_BIOS_ATTRIBUTE_CURRENT_VALUE == 7
PLDM_GET_BIOS_ATTRIBUTE_CURRENT_VALUE_BY_HANDLE == 8
PLDM_GET_DATE_TIME == 12
PLDM_SET_DATE_TIME == 13

(***************************************************************************)
(* The structures.                                                         *)
(***************************************************************************)
pldm_get_date_time_resp ==
    [completion_code : {0, 1}, seconds : {11}, minutes : {12}, hours : {13},
     day : {14}, month : {15}, year : {16}]
pldm_set_date_time_req ==
    Near([seconds |-> 59, minutes |-> 59, hours |-> 23, day |-> 29,
          month |-> 2, year |-> 2024],
         [seconds : {0, 59, 60}, minutes : {0, 59, 60}, hours : {0, 23, 24},
          day : {0, 1, 28, 29, 30, 31, 32}, month : {0, 2, 4, 12, 13},
          year : {1969, 1970, 2000, 2024, 2100, 15999, 19000}])
pldm_set_date_time_resp == [completion_code : {0, 1}]
\* message_length is the argument payload_length of the encoder, which counts
\* the message header.
pldm_get_bios_table_resp ==
    [completion_code : {0, 1}, next_transfer_handle : {11},
     transfer_flag : {12}, message_length : {0, 9, 11}, table_data : {13},
     table_length : {0}]
pldm_get_bios_table_req ==
    [transfer_handle : {11}, transfer_op_flag : {12}, table_type : {13}]
pldm_get_bios_attribute_current_value_by_handle_req ==
    [transfer_handle : {11}, transfer_op_flag : {12}, attribute_handle : {13}]
pldm_get_bios_attribute_current_value_by_handle_resp ==
    [completion_code : {0, 1}, next_transfer_handle : {11},
     transfer_flag : {12}, attribute_data : {13}, attribute_length : {0, 2}]
pldm_set_bios_attribute_current_value_req ==
    [transfer_handle : {11}, transfer_flag : {12}, attribute_data : {13},
     attribute_length : {0, 3}]
pldm_set_bios_attribute_current_value_resp ==
    [completion_code : {0, 1}, next_transfer_handle : {11}]
pldm_set_bios_table_req ==
    [transfer_handle : {11}, transfer_flag : {12}, table_type : {13},
     table_data : {14}, table_length : {0, 3}]
pldm_set_bios_table_resp ==
    [completion_code : {0, 1}, next_transfer_handle : {11}]

(***************************************************************************)
(* Binary coded decimals and dates.                                        *)
(***************************************************************************)
pldm_bcd_bcd2dec8(bcd) == ((bcd \div 16) * 10 + (bcd % 16)) % 256
pldm_bcd_dec2bcd8(dec) ==
    (((dec % 256) \div 10) * 16 + ((dec % 256) % 10)) % 256
pldm_bcd_bcd2dec16(bcd) ==
    (pldm_bcd_bcd2dec8(bcd \div 256) * 100 + pldm_bcd_bcd2dec8(bcd % 256)) %
        65536
pldm_bcd_dec2bcd16(dec) ==
    pldm_bcd_dec2bcd8(dec % 100) + pldm_bcd_dec2bcd8(dec \div 100) * 256

day_map(month) ==
    CASE month \in {1, 3, 5, 7, 8, 10, 12} -> 31
      [] month \in {4, 6, 9, 11} -> 30
      [] month = 2 -> 28
      [] OTHER -> 0

is_time_legal(seconds, minutes, hours, day, month, year) ==
    LET leap == (year % 4 = 0 /\ year % 100 # 0) \/ year % 400 = 0
        rday == day_map(month) + IF month = 2 /\ leap THEN 1 ELSE 0
    IN /\ month \in 1..12
       /\ year >= 1970 /\ day >= 1 /\ day <= rday
       /\ seconds <= 59 /\ minutes <= 59 /\ hours <= 23

IsTimeLegal(e) ==
    is_time_legal(e.seconds, e.minutes, e.hours, e.day, e.month, e.year)

(***************************************************************************)
(* The functions.                                                          *)
(***************************************************************************)
encode_get_date_time_req(e) ==
    <<NonNull, Request(PLDM_BIOS, PLDM_GET_DATE_TIME)>>

encode_get_date_time_resp(e) ==
    <<NonNull, Response(PLDM_BIOS, PLDM_GET_DATE_TIME),
      U8("completion_code"), Return(e.completion_code # PLDM_SUCCESS),
      U8("seconds"), U8("minutes"), U8("hours"), U8("day"), U8("month"),
      U16("year")>>

decode_get_date_time_resp(e) ==
    <<NonNull, U8("completion_code"), Return(e.completion_code # PLDM_SUCCESS),
      LengthIs(8, "INVALID_LENGTH"), U8("seconds"), U8("minutes"),
      U8("hours"), U8("day"), U8("month"), U16("year")>>

encode_set_date_time_req(e) ==
    <<NonNull, LengthIs(7, "INVALID_LENGTH"),
      Fail(~IsTimeLegal(e), "INVALID_DATA"),
      Request(PLDM_BIOS, PLDM_SET_DATE_TIME),
      Stored("seconds", 1, pldm_bcd_dec2bcd8(e.seconds)),
      Stored("minutes", 1, pldm_bcd_dec2bcd8(e.minutes)),
      Stored("hours", 1, pldm_bcd_dec2bcd8(e.hours)),
      Stored("day", 1, pldm_bcd_dec2bcd8(e.day)),
      Stored("month", 1, pldm_bcd_dec2bcd8(e.month)),
      Stored("year", 2, pldm_bcd_dec2bcd16(e.year))>>

decode_set_date_time_req(e) ==
    <<NonNull, LengthIs(7, "INVALID_LENGTH"),
      U8("seconds"), Set("seconds", pldm_bcd_bcd2dec8(e.seconds)),
      U8("minutes"), Set("minutes", pldm_bcd_bcd2dec8(e.minutes)),
      U8("hours"), Set("hours", pldm_bcd_bcd2dec8(e.hours)),
      U8("day"), Set("day", pldm_bcd_bcd2dec8(e.day)),
      U8("month"), Set("month", pldm_bcd_bcd2dec8(e.month)),
      U16("year"), Set("year", pldm_bcd_bcd2dec16(e.year)),
      Fail(~IsTimeLegal(e), "INVALID_DATA")>>

encode_set_date_time_resp(e) ==
    <<NonNull, LengthIs(1, "INVALID_LENGTH"),
      Response(PLDM_BIOS, PLDM_SET_DATE_TIME), U8("completion_code")>>

decode_set_date_time_resp(e) ==
    <<NonNull, U8("completion_code"), Return(e.completion_code # PLDM_SUCCESS),
      LengthIs(1, "INVALID_LENGTH")>>

encode_get_bios_table_resp(e) ==
    <<NonNull, Response(PLDM_BIOS, PLDM_GET_BIOS_TABLE),
      U8("completion_code"), Return(e.completion_code # PLDM_SUCCESS),
      U32("next_transfer_handle"), U8("transfer_flag")>> \o
    When(e.message_length > 3 + 6,
         <<Field("table_data", e.message_length - (3 + 6))>>)

encode_get_bios_table_req(e) ==
    <<NonNull, Request(PLDM_BIOS, PLDM_GET_BIOS_TABLE),
      U32("transfer_handle"), U8("transfer_op_flag"), U8("table_type")>>

decode_get_bios_table_req(e) ==
    <<NonNull, LengthIs(6, "INVALID_LENGTH"), U32("transfer_handle"),
      U8("transfer_op_flag"), U8("table_type")>>

\* The caller finds the table at the offset it is given.
decode_get_bios_table_resp(e) ==
    <<NonNull, LengthAtLeast(7, "INVALID_LENGTH"), U8("completion_code"),
      Return(e.completion_code # PLDM_SUCCESS), U32("next_transfer_handle"),
      U8("transfer_flag"), Rest("table_data", "table_length")>>

encode_get_bios_attribute_current_value_by_handle_req(e) ==
    <<NonNull,
      Request(PLDM_BIOS, PLDM_GET_BIOS_ATTRIBUTE_CURRENT_VALUE_BY_HANDLE),
      U32("transfer_handle"), U8("transfer_op_flag"),
      U16("attribute_handle")>>

decode_get_bios_attribute_current_value_by_handle_resp(e) ==
    <<NonNull, U8("completion_code"), Return(e.completion_code # PLDM_SUCCESS),
      LengthAtLeast(7, "INVALID_LENGTH"), U32("next_transfer_handle"),
      U8("transfer_flag"), Rest("attribute_data", "attribute_length")>>

decode_get_bios_attribute_current_value_by_handle_req(e) ==
    <<NonNull, LengthIs(7, "INVALID_LENGTH"), U32("transfer_handle"),
      U8("transfer_op_flag"), U16("attribute_handle")>>

encode_get_bios_current_value_by_handle_resp(e) ==
    <<NonNull,
      Response(PLDM_BIOS, PLDM_GET_BIOS_ATTRIBUTE_CURRENT_VALUE_BY_HANDLE),
      U8("completion_code"), Return(e.completion_code # PLDM_SUCCESS),
      U32("next_transfer_handle"), U8("transfer_flag"),
      Field("attribute_data", e.attribute_length)>>

encode_set_bios_attribute_current_value_req(e) ==
    <<NonNull, LengthAtLeast(5, "INVALID_LENGTH"),
      LengthAtLeast(5 + e.attribute_length, "INVALID_LENGTH"),
      Request(PLDM_BIOS, PLDM_SET_BIOS_ATTRIBUTE_CURRENT_VALUE),
      U32("transfer_handle"), U8("transfer_flag"),
      Field("attribute_data", e.attribute_length)>>

decode_set_bios_attribute_current_value_resp(e) ==
    <<NonNull, U8("completion_code"), Return(e.completion_code # PLDM_SUCCESS),
      LengthIs(5, "INVALID_LENGTH"), U32("next_transfer_handle")>>

decode_set_bios_attribute_current_value_req(e) ==
    <<NonNull, LengthAtLeast(5, "INVALID_LENGTH"), U32("transfer_handle"),
      U8("transfer_flag"), Rest("attribute_data", "attribute_length")>>

encode_set_bios_attribute_current_value_resp(e) ==
    <<NonNull, Response(PLDM_BIOS, PLDM_SET_BIOS_ATTRIBUTE_CURRENT_VALUE),
      U8("completion_code"), U32("next_transfer_handle")>>

encode_set_bios_table_req(e) ==
    <<NonNull, LengthAtLeast(6, "INVALID_LENGTH"),
      LengthAtLeast(6 + e.table_length, "INVALID_LENGTH"),
      LengthAtMost(6 + e.table_length, "INVALID_LENGTH"),
      Request(PLDM_BIOS, PLDM_SET_BIOS_TABLE), U32("transfer_handle"),
      U8("transfer_flag"), U8("table_type"),
      Field("table_data", e.table_length)>>

decode_set_bios_table_resp(e) ==
    <<NonNull, U8("completion_code"), Return(e.completion_code # PLDM_SUCCESS),
      LengthIs(5, "INVALID_LENGTH"), U32("next_transfer_handle")>>

encode_set_bios_table_resp(e) ==
    <<NonNull, Response(PLDM_BIOS, PLDM_SET_BIOS_TABLE),
      U8("completion_code"), U32("next_transfer_handle")>>

decode_set_bios_table_req(e) ==
    <<NonNull, LengthAtLeast(6, "INVALID_LENGTH"), U32("transfer_handle"),
      U8("transfer_flag"), U8("table_type"),
      Rest("table_data", "table_length")>>

BiosProgram(fn, e) ==
    CASE fn = "encode_get_date_time_req" -> encode_get_date_time_req(e)
      [] fn = "encode_get_date_time_resp" -> encode_get_date_time_resp(e)
      [] fn = "decode_get_date_time_resp" -> decode_get_date_time_resp(e)
      [] fn = "encode_set_date_time_req" -> encode_set_date_time_req(e)
      [] fn = "decode_set_date_time_req" -> decode_set_date_time_req(e)
      [] fn = "encode_set_date_time_resp" -> encode_set_date_time_resp(e)
      [] fn = "decode_set_date_time_resp" -> decode_set_date_time_resp(e)
      [] fn = "encode_get_bios_table_resp" -> encode_get_bios_table_resp(e)
      [] fn = "encode_get_bios_table_req" -> encode_get_bios_table_req(e)
      [] fn = "decode_get_bios_table_req" -> decode_get_bios_table_req(e)
      [] fn = "decode_get_bios_table_resp" -> decode_get_bios_table_resp(e)
      [] fn = "encode_get_bios_attribute_current_value_by_handle_req" ->
             encode_get_bios_attribute_current_value_by_handle_req(e)
      [] fn = "decode_get_bios_attribute_current_value_by_handle_resp" ->
             decode_get_bios_attribute_current_value_by_handle_resp(e)
      [] fn = "decode_get_bios_attribute_current_value_by_handle_req" ->
             decode_get_bios_attribute_current_value_by_handle_req(e)
      [] fn = "encode_get_bios_current_value_by_handle_resp" ->
             encode_get_bios_current_value_by_handle_resp(e)
      [] fn = "encode_set_bios_attribute_current_value_req" ->
             encode_set_bios_attribute_current_value_req(e)
      [] fn = "decode_set_bios_attribute_current_value_resp" ->
             decode_set_bios_attribute_current_value_resp(e)
      [] fn = "decode_set_bios_attribute_current_value_req" ->
             decode_set_bios_attribute_current_value_req(e)
      [] fn = "encode_set_bios_attribute_current_value_resp" ->
             encode_set_bios_attribute_current_value_resp(e)
      [] fn = "encode_set_bios_table_req" -> encode_set_bios_table_req(e)
      [] fn = "decode_set_bios_table_resp" -> decode_set_bios_table_resp(e)
      [] fn = "encode_set_bios_table_resp" -> encode_set_bios_table_resp(e)
      [] fn = "decode_set_bios_table_req" -> decode_set_bios_table_req(e)

Bios(enc, dec, args, req) == Message("bios", enc, dec, args, {}, req)

BiosMessages ==
    {Bios("encode_get_date_time_req", "", NoFields, ""),
     Bios("encode_get_date_time_resp", "decode_get_date_time_resp",
          pldm_get_date_time_resp, "encode_get_date_time_req"),
     Bios("encode_set_date_time_req", "decode_set_date_time_req",
          pldm_set_date_time_req, ""),
     Bios("encode_set_date_time_resp", "decode_set_date_time_resp",
          pldm_set_date_time_resp, "encode_set_date_time_req"),
     Bios("encode_get_bios_table_req", "decode_get_bios_table_req",
          pldm_get_bios_table_req, ""),
     Bios("encode_get_bios_table_resp", "decode_get_bios_table_resp",
          pldm_get_bios_table_resp, "encode_get_bios_table_req"),
     Bios("encode_get_bios_attribute_current_value_by_handle_req",
          "decode_get_bios_attribute_current_value_by_handle_req",
          pldm_get_bios_attribute_current_value_by_handle_req, ""),
     Bios("encode_get_bios_current_value_by_handle_resp",
          "decode_get_bios_attribute_current_value_by_handle_resp",
          pldm_get_bios_attribute_current_value_by_handle_resp,
          "encode_get_bios_attribute_current_value_by_handle_req"),
     Bios("encode_set_bios_attribute_current_value_req",
          "decode_set_bios_attribute_current_value_req",
          pldm_set_bios_attribute_current_value_req, ""),
     Bios("encode_set_bios_attribute_current_value_resp",
          "decode_set_bios_attribute_current_value_resp",
          pldm_set_bios_attribute_current_value_resp,
          "encode_set_bios_attribute_current_value_req"),
     Bios("encode_set_bios_table_req", "decode_set_bios_table_req",
          pldm_set_bios_table_req, ""),
     Bios("encode_set_bios_table_resp", "decode_set_bios_table_resp",
          pldm_set_bios_table_resp, "encode_set_bios_table_req")}

=============================================================================
