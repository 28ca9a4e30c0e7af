---------------------------- MODULE PlatformCodecs ----------------------------
(***************************************************************************)
(* The messages of PLDM for Platform Monitoring and Control                *)
(* (src/src/dsp/platform.c).  The records and the event data they carry    *)
(* are in module PlatformRecords.                                          *)
(***************************************************************************)
EXTENDS CodecOps

PLDM_GET_TERMINUS_UID == 3
PLDM_SET_EVENT_RECEIVER == 4
PLDM_GET_EVENT_RECEIVER == 5
PLDM_PLATFORM_EVENT_MESSAGE == 10
PLDM_POLL_FOR_PLATFORM_EVENT_MESSAGE == 11
PLDM_EVENT_MESSAGE_SUPPORTED == 12
PLDM_EVENT_MESSAGE_BUFFER_SIZE == 13
PLDM_SET_NUMERIC_SENSOR_ENABLE == 16
PLDM_GET_SENSOR_READING == 17
PLDM_GET_STATE_SENSOR_READINGS == 33
PLDM_SET_NUMERIC_EFFECTER_ENABLE == 48
PLDM_SET_NUMERIC_EFFECTER_VALUE == 49
PLDM_GET_NUMERIC_EFFECTER_VALUE == 50
PLDM_SET_STATE_EFFECTER_ENABLES == 56
PLDM_SET_STATE_EFFECTER_STATES == 57
PLDM_GET_STATE_EFFECTER_STATES == 58
PLDM_GET_PDR_REPOSITORY_INFO == 80
PLDM_GET_PDR == 81

PLDM_EFFECTER_DATA_SIZE_MAX == 7
PLDM_SENSOR_DATA_SIZE_MAX == 7
EFFECTER_OPER_STATE_UNAVAILABLE == 3
EFFECTER_OPER_STATE_INTEST == 8
PLDM_FAILED == 2
PLDM_SET_SENSOR_UNAVAILABLE == 2
PLDM_STATE_EVENTS_ONLY_ENABLED == 4
PLDM_EVENT_LOGGING_REJECTED == 5
PLDM_CPER_EVENT == 7
PLDM_MESSAGE_TYPE_ASYNCHRONOUS_WITH_HEARTBEAT == 3
PLDM_TRANSPORT_PROTOCOL_TYPE_MCTP == 0
PLDM_EVENT_MESSAGE_GLOBAL_ENABLE_ASYNC_KEEP_ALIVE == 3
PLDM_PLATFORM_EVENT_ID_NULL == 0
PLDM_PLATFORM_EVENT_ID_FRAGMENT == 65535

\* The width of a sensor reading or an effecter value, by its data size: an
\* unsigned and a signed type of 1, 2, 4 and 8 bytes.
ValueBytes(tag) == IF tag \in 0..7 THEN 2 ^ (tag \div 2) ELSE 0

(***************************************************************************)
(* The structures, with the values their fields are given.                 *)
(***************************************************************************)
pldm_set_state_effecter_states_req ==
    [effecter_id : {11}, comp_effecter_count : {0, 1, 8, 9}, field : {12}]
pldm_platform_cc_resp == [completion_code : {0, 1}]
pldm_get_pdr_req ==
    [record_hndl : {11}, data_transfer_hndl : {12}, transfer_op_flag : {13},
     request_cnt : {14}, record_chg_num : {15}]
pldm_get_pdr_resp ==
    [completion_code : {0, 1}, next_record_hndl : {11},
     next_data_transfer_hndl : {12}, transfer_flag : {1, 4, 5},
     resp_cnt : {0, 2}, record_data : {13}, transfer_crc : {14},
     record_data_length : {2, 3}]
pldm_pdr_repository_info_resp ==
    [completion_code : {0, 1}, repository_state : {2, 3}, update_time : {11},
     oem_update_time : {12}, record_count : {13}, repository_size : {14},
     largest_record_size : {15}, data_transfer_handle_timeout : {16}]
pldm_set_numeric_effecter_enable_req ==
    [effecter_id : {11}, effecter_operational_state : {3, 4}]
pldm_set_numeric_effecter_value_req ==
    [effecter_id : {11}, effecter_data_size : {0, 1, 3, 4, 7, 8},
     effecter_value : {12}]
pldm_get_state_sensor_readings_req ==
    [sensor_id : {11}, sensor_rearm : {12}, reserved : {13}]
pldm_get_state_sensor_readings_resp ==
    [completion_code : {0, 1}, comp_sensor_count : {0, 1, 8, 9}, field : {11}]
pldm_platform_event_message_req ==
    [format_version : {1, 2}, tid : {11}, event_class : {7, 8, 240, 255},
     event_data : {12}, event_data_length : {0, 3}]
pldm_platform_event_message_resp ==
    [completion_code : {0, 1}, platform_event_status : {5, 6}]
pldm_poll_for_platform_event_message_req ==
    [format_version : {11}, transfer_operation_flag : 0..3,
     data_transfer_handle : {12}, event_id_to_acknowledge : {0, 13, 65535}]
pldm_poll_for_platform_event_message_resp ==
    [completion_code : {0, 1}, tid : {11}, event_id : {0, 12, 65535},
     next_data_transfer_handle : {13}, transfer_flag : {1, 4, 5},
     event_class : {14}, event_data_size : {0, 2}, event_data : {15},
     checksum : {16}]
pldm_event_message_buffer_size_req ==
    [event_receiver_max_buffer_size : {11}]
pldm_event_message_buffer_size_resp ==
    [completion_code : {0, 1}, terminus_max_buffer_size : {11}]
pldm_event_message_supported_req == [format_version : {1, 2}]
pldm_event_message_supported_resp ==
    [completion_code : {0, 1}, synchrony_config : {3, 4},
     synchrony_config_support : {11}, number_event_class_returned : {0, 2},
     event_class : {12}, event_class_count : {2, 3}]
pldm_get_numeric_effecter_value_req == [effecter_id : {11}]
pldm_get_numeric_effecter_value_resp ==
    [completion_code : {0, 1}, effecter_data_size : {1, 2, 5, 6, 8},
     effecter_oper_state : {8, 9}, pending_value : {11}, present_value : {12}]
pldm_platform_set_numeric_sensor_enable_req ==
    [sensor_id : {11}, sensor_operational_state : {2, 3},
     sensor_event_message_enable : {4, 5}]
pldm_set_state_sensor_enables_req ==
    [sensor_id : {11}, field_count : {0, 1, 8, 9}, op_state : {2, 3},
     event_enable : {4, 5}]
pldm_get_sensor_reading_req == [sensor_id : {11}, rearm_event_state : {12}]
pldm_get_sensor_reading_resp ==
    [completion_code : {0, 1}, sensor_data_size : {0, 3, 4, 7, 8},
     sensor_operational_state : {11}, sensor_event_message_enable : {12},
     present_state : {13}, previous_state : {14}, event_state : {15},
     present_reading : {16}]
pldm_get_event_receiver_resp ==
    [completion_code : {0, 1}, transport_protocol_type : {0, 1},
     mctp_eid : {11}]
pldm_set_event_receiver_req ==
    [event_message_global_enable : {2, 3}, transport_protocol_type : {0, 1},
     event_receiver_address_info : {11}, heartbeat_timer : {0, 12}]
pldm_get_state_effecter_states_req == [effecter_id : {11}]
pldm_get_state_effecter_states_resp ==
    [completion_code : {0, 1}, comp_effecter_count : {0, 1, 8, 9},
     field : {11}]
pldm_set_state_effecter_enables_req ==
    [effecter_id : {11}, comp_effecter_count : {0, 1, 8, 9}, field : {12}]
pldm_get_terminus_uid_resp == [completion_code : {0, 1}, uuid : {11}]

(***************************************************************************)
(* The functions: effecters.  The entries of an array of structures are    *)
(* one field.                                                              *)
(***************************************************************************)
encode_set_state_effecter_states_resp(e) ==
    <<NonNull, Response(PLDM_PLATFORM, PLDM_SET_STATE_EFFECTER_STATES),
      U8("completion_code")>>

encode_set_state_effecter_states_req(e) ==
    <<NonNull, Fail(e.comp_effecter_count \notin 1..8, "INVALID_DATA"),
      Request(PLDM_PLATFORM, PLDM_SET_STATE_EFFECTER_STATES),
      U16("effecter_id"), U8("comp_effecter_count"),
      Field("field", 2 * e.comp_effecter_count)>>

decode_set_state_effecter_states_resp(e) ==
    <<NonNull, U8("completion_code"),
      Return(e.completion_code # PLDM_SUCCESS),
      LengthAtMost(1, "INVALID_LENGTH")>>

decode_set_state_effecter_states_req(e) ==
    <<NonNull, LengthAtMost(19, "INVALID_LENGTH"), Init(3),
      U16("effecter_id"), Checked("comp_effecter_count", 1),
      Fail(e.comp_effecter_count > 8, "INVALID_DATA"),
      Field("field", 2 * e.comp_effecter_count), Complete>>

encode_set_numeric_effecter_enable_req(e) ==
    <<NonNull, Fail(e.effecter_operational_state >
                        EFFECTER_OPER_STATE_UNAVAILABLE, "INVALID_DATA"),
      Request(PLDM_PLATFORM, PLDM_SET_NUMERIC_EFFECTER_ENABLE),
      U16("effecter_id"), U8("effecter_operational_state")>>

decode_set_numeric_effecter_value_req(e) ==
    <<NonNull, Init(4), U16("effecter_id"), Checked("effecter_data_size", 1),
      Fail(e.effecter_data_size > PLDM_EFFECTER_DATA_SIZE_MAX,
           "INVALID_DATA"),
      Field("effecter_value", ValueBytes(e.effecter_data_size)), Complete>>

encode_set_numeric_effecter_value_resp(e) ==
    <<NonNull, LengthIs(1, "INVALID_LENGTH"),
      Response(PLDM_PLATFORM, PLDM_SET_NUMERIC_EFFECTER_VALUE),
      U8("completion_code")>>

encode_set_numeric_effecter_value_req(e) ==
    <<NonNull,
      Fail(e.effecter_data_size > PLDM_EFFECTER_DATA_SIZE_MAX,
           "INVALID_DATA"),
      Request(PLDM_PLATFORM, PLDM_SET_NUMERIC_EFFECTER_VALUE),
      LengthIs(3 + ValueBytes(e.effecter_data_size), "INVALID_LENGTH"),
      U16("effecter_id"), U8("effecter_data_size"),
      Field("effecter_value", ValueBytes(e.effecter_data_size))>>

decode_set_numeric_effecter_value_resp(e) ==
    <<NonNull, LengthIs(1, "INVALID_LENGTH"), U8("completion_code")>>

encode_get_numeric_effecter_value_req(e) ==
    <<NonNull, Request(PLDM_PLATFORM, PLDM_GET_NUMERIC_EFFECTER_VALUE),
      U16("effecter_id")>>

encode_get_numeric_effecter_value_resp(e) ==
    <<NonNull,
      Fail(e.effecter_data_size > PLDM_EFFECTER_DATA_SIZE_MAX,
           "INVALID_DATA"),
      Fail(e.effecter_oper_state > EFFECTER_OPER_STATE_INTEST,
           "INVALID_DATA"),
      Response(PLDM_PLATFORM, PLDM_GET_NUMERIC_EFFECTER_VALUE),
      U8("completion_code"), U8("effecter_data_size"),
      U8("effecter_oper_state"),
      LengthIs(3 + 2 * ValueBytes(e.effecter_data_size), "INVALID_LENGTH"),
      Field("pending_value", ValueBytes(e.effecter_data_size)),
      Field("present_value", ValueBytes(e.effecter_data_size))>>

decode_get_numeric_effecter_value_req(e) ==
    <<NonNull, Init(2), U16("effecter_id"), CompleteConsumed>>

decode_get_numeric_effecter_value_resp(e) ==
    <<NonNull, Init(5), Checked("completion_code", 1),
      Return(e.completion_code # PLDM_SUCCESS),
      Checked("effecter_data_size", 1),
      Fail(e.effecter_data_size > PLDM_EFFECTER_DATA_SIZE_MAX,
           "INVALID_DATA"),
      Checked("effecter_oper_state", 1),
      Fail(e.effecter_oper_state > EFFECTER_OPER_STATE_INTEST,
           "INVALID_DATA"),
      Field("pending_value", ValueBytes(e.effecter_data_size)),
      Field("present_value", ValueBytes(e.effecter_data_size)),
      CompleteConsumed>>

encode_get_state_effecter_states_req(e) ==
    <<NonNull, Request(PLDM_PLATFORM, PLDM_GET_STATE_EFFECTER_STATES),
      Init(2), U16("effecter_id"), CompleteConsumed>>

decode_get_state_effecter_states_req(e) ==
    <<NonNull, Init(2), U16("effecter_id"), CompleteConsumed>>

decode_get_state_effecter_states_resp(e) ==
    <<NonNull, Init(2), Checked("completion_code", 1),
      Finish("complete", e.completion_code # PLDM_SUCCESS, TRUE),
      Checked("comp_effecter_count", 1),
      Fail(e.comp_effecter_count \notin 1..8, "EFFECTER_COUNT"),
      Field("field", 3 * e.comp_effecter_count), CompleteConsumed>>

encode_get_state_effecter_states_resp(e) ==
    <<NonNull, Fail(e.comp_effecter_count \notin 1..8, "EFFECTER_COUNT"),
      Response(PLDM_PLATFORM, PLDM_GET_STATE_EFFECTER_STATES), Init(2),
      U8("completion_code"), U8("comp_effecter_count"),
      Field("field", 3 * e.comp_effecter_count), CompleteConsumed>>

encode_set_state_effecter_enables_req(e) ==
    <<NonNull, Fail(e.comp_effecter_count \notin 1..8, "INVALID_DATA"),
      Request(PLDM_PLATFORM, PLDM_SET_STATE_EFFECTER_ENABLES),
      U16("effecter_id"), U8("comp_effecter_count"),
      Field("field", 2 * e.comp_effecter_count)>>

(***************************************************************************)
(* The functions: the PDR repository and sensors.                          *)
(***************************************************************************)
decode_get_pdr_req(e) ==
    <<NonNull, LengthIs(13, "INVALID_LENGTH"), Init(13), U32("record_hndl"),
      U32("data_transfer_hndl"), U8("transfer_op_flag"), U16("request_cnt"),
      U16("record_chg_num"), Complete>>

encode_get_pdr_resp(e) ==
    <<NonNull, Response(PLDM_PLATFORM, PLDM_GET_PDR), U8("completion_code"),
      Return(e.completion_code # PLDM_SUCCESS),
      U32("next_record_hndl"), U32("next_data_transfer_hndl"),
      U8("transfer_flag"), U16("resp_cnt"),
      Field("record_data", e.resp_cnt)>> \o
    When(e.transfer_flag = PLDM_END, <<U8("transfer_crc")>>)

encode_get_pdr_repository_info_req(e) ==
    <<NonNull, Request(PLDM_PLATFORM, PLDM_GET_PDR_REPOSITORY_INFO)>>

encode_get_pdr_repository_info_resp(e) ==
    <<NonNull, Response(PLDM_PLATFORM, PLDM_GET_PDR_REPOSITORY_INFO),
      U8("completion_code"), Return(e.completion_code # PLDM_SUCCESS),
      U8("repository_state"), Field("update_time", 13),
      Field("oem_update_time", 13), U32("record_count"),
      U32("repository_size"), U32("largest_record_size"),
      U8("data_transfer_handle_timeout")>>

decode_get_pdr_repository_info_resp(e) ==
    <<NonNull, Init(41), Checked("completion_code", 1),
      Return(e.completion_code # PLDM_SUCCESS),
      Checked("repository_state", 1),
      Fail(e.repository_state > PLDM_FAILED, "INVALID_DATA"),
      Bytes("update_time", 13), Bytes("oem_update_time", 13),
      U32("record_count"), U32("repository_size"),
      U32("largest_record_size"), U8("data_transfer_handle_timeout"),
      Complete>>

decode_get_pdr_repository_info_resp_safe(e) ==
    <<NonNull, HasError, Init(41), Checked("completion_code", 1),
      U8("repository_state"), Bytes("update_time", 13),
      Bytes("oem_update_time", 13), U32("record_count"),
      U32("repository_size"), U32("largest_record_size"),
      U8("data_transfer_handle_timeout"), CompleteConsumed>>

encode_get_pdr_req(e) ==
    <<NonNull, LengthIs(13, "INVALID_LENGTH"),
      Request(PLDM_PLATFORM, PLDM_GET_PDR), U32("record_hndl"),
      U32("data_transfer_hndl"), U8("transfer_op_flag"), U16("request_cnt"),
      U16("record_chg_num")>>

decode_get_pdr_resp(e) ==
    <<NonNull, Init(12), Checked("completion_code", 1),
      Finish("complete", e.completion_code # PLDM_SUCCESS, TRUE),
      U32("next_record_hndl"), U32("next_data_transfer_hndl"),
      U8("transfer_flag"), Checked("resp_cnt", 2)>> \o
    When(e.resp_cnt > 0,
         <<Fail(e.record_data_length < e.resp_cnt, "INVALID_LENGTH"),
           Bytes("record_data", e.resp_cnt)>>) \o
    When(e.transfer_flag = PLDM_END, <<U8("transfer_crc")>>) \o
    <<Complete>>

decode_get_pdr_resp_safe(e) ==
    <<NonNull, HasError, Init(12), U8("completion_code"),
      U32("next_record_hndl"), U32("next_data_transfer_hndl"),
      Checked("transfer_flag", 1), Checked("resp_cnt", 2),
      Array("record_data", e.resp_cnt, e.record_data_length)>> \o
    When(e.transfer_flag = PLDM_END, <<U8("transfer_crc")>>) \o
    <<CompleteConsumed>>

encode_get_state_sensor_readings_resp(e) ==
    <<NonNull, Fail(e.comp_sensor_count \notin 1..8, "INVALID_DATA"),
      Response(PLDM_PLATFORM, PLDM_GET_STATE_SENSOR_READINGS),
      U8("completion_code"), U8("comp_sensor_count"),
      Field("field", 4 * e.comp_sensor_count)>>

encode_get_state_sensor_readings_req(e) ==
    <<NonNull, Request(PLDM_PLATFORM, PLDM_GET_STATE_SENSOR_READINGS),
      U16("sensor_id"), U8("sensor_rearm"), U8("reserved")>>

decode_get_state_sensor_readings_resp(e) ==
    <<NonNull, Init(2), Checked("completion_code", 1),
      Return(e.completion_code # PLDM_SUCCESS),
      Checked("comp_sensor_count", 1),
      Fail(e.comp_sensor_count \notin 1..8, "INVALID_DATA"),
      Field("field", 4 * e.comp_sensor_count), CompleteConsumed>>

decode_get_state_sensor_readings_req(e) ==
    <<NonNull, Init(4), U16("sensor_id"), U8("sensor_rearm"),
      U8("reserved"), Complete>>

encode_get_sensor_reading_req(e) ==
    <<NonNull, Request(PLDM_PLATFORM, PLDM_GET_SENSOR_READING),
      U16("sensor_id"), U8("rearm_event_state")>>

decode_get_sensor_reading_resp(e) ==
    <<NonNull, Init(8), Checked("completion_code", 1),
      Return(e.completion_code # PLDM_SUCCESS),
      Checked("sensor_data_size", 1),
      Fail(e.sensor_data_size > PLDM_SENSOR_DATA_SIZE_MAX, "INVALID_DATA"),
      U8("sensor_operational_state"), U8("sensor_event_message_enable"),
      U8("present_state"), U8("previous_state"), U8("event_state"),
      Field("present_reading", ValueBytes(e.sensor_data_size)),
      CompleteConsumed>>

encode_get_sensor_reading_resp(e) ==
    <<NonNull,
      Fail(e.sensor_data_size > PLDM_SENSOR_DATA_SIZE_MAX, "INVALID_DATA"),
      Response(PLDM_PLATFORM, PLDM_GET_SENSOR_READING),
      U8("completion_code"), U8("sensor_data_size"),
      U8("sensor_operational_state"), U8("sensor_event_message_enable"),
      U8("present_state"), U8("previous_state"), U8("event_state"),
      LengthIs(7 + ValueBytes(e.sensor_data_size), "INVALID_LENGTH"),
      Field("present_reading", ValueBytes(e.sensor_data_size))>>

decode_get_sensor_reading_req(e) ==
    <<NonNull, Init(3), U16("sensor_id"), U8("rearm_event_state"), Complete>>

encode_pldm_platform_set_numeric_sensor_enable_req(e) ==
    <<NonNull,
      Fail(\/ e.sensor_operational_state > PLDM_SET_SENSOR_UNAVAILABLE
           \/ e.sensor_event_message_enable > PLDM_STATE_EVENTS_ONLY_ENABLED,
           "EINVAL"),
      Request(PLDM_PLATFORM, PLDM_SET_NUMERIC_SENSOR_ENABLE), Init(4),
      U16("sensor_id"), U8("sensor_operational_state"),
      U8("sensor_event_message_enable"), CompleteUsed>>

decode_pldm_platform_set_numeric_sensor_enable_resp(e) ==
    <<NonNull, Init(1), U8("completion_code"), CompleteConsumed>>

decode_set_numeric_sensor_enable_req(e) ==
    <<NonNull, Init(0), U16("sensor_id"), U8("sensor_operational_state"),
      U8("sensor_event_message_enable"), ConsumedThen,
      Fail(e.sensor_operational_state > PLDM_SET_SENSOR_UNAVAILABLE, "EPROTO"),
      Fail(e.sensor_event_message_enable > PLDM_STATE_EVENTS_ONLY_ENABLED,
           "EPROTO")>>

decode_set_state_sensor_enables_req(e) ==
    <<NonNull, Init(3), U16("sensor_id"), Checked("field_count", 1),
      Fail(e.field_count \notin 1..8, "EPROTO")>> \o
    Each(e.field_count,
         <<U8("op_state"), Checked("event_enable", 1),
           Fail(e.op_state > PLDM_SET_SENSOR_UNAVAILABLE, "EPROTO"),
           Fail(e.event_enable > PLDM_STATE_EVENTS_ONLY_ENABLED,
                "EPROTO")>>) \o
    <<CompleteConsumed>>

(***************************************************************************)
(* The functions: events.                                                  *)
(***************************************************************************)

\* What an offset leaves to the caller is the rest of the message.
decode_platform_event_message_req(e) ==
    <<NonNull, Init(3), U8("format_version"), U8("tid"), U8("event_class"),
      CompleteThen, Rest("event_data", "event_data_length")>>

\* pldm_platform_poll_for_platform_event_message_validate
PollInvalid(flag, id) ==
    \/ flag = PLDM_GET_FIRSTPART /\ id # PLDM_PLATFORM_EVENT_ID_NULL
    \/ flag = PLDM_GET_NEXTPART /\ id # PLDM_PLATFORM_EVENT_ID_FRAGMENT
    \/ flag = PLDM_ACKNOWLEDGEMENT_ONLY /\
           id \in {PLDM_PLATFORM_EVENT_ID_FRAGMENT, PLDM_PLATFORM_EVENT_ID_NULL}
    \/ flag > PLDM_ACKNOWLEDGEMENT_ONLY

decode_poll_for_platform_event_message_req(e) ==
    <<NonNull, Init(8), U8("format_version"),
      Checked("transfer_operation_flag", 1),
      Fail(e.transfer_operation_flag > PLDM_ACKNOWLEDGEMENT_ONLY,
           "INVALID_DATA"),
      U32("data_transfer_handle"), Checked("event_id_to_acknowledge", 2),
      Fail(PollInvalid(e.transfer_operation_flag, e.event_id_to_acknowledge),
           "INVALID_DATA"),
      Complete>>

encode_platform_event_message_resp(e) ==
    <<NonNull, Fail(e.platform_event_status > PLDM_EVENT_LOGGING_REJECTED,
                    "INVALID_DATA"),
      Response(PLDM_PLATFORM, PLDM_PLATFORM_EVENT_MESSAGE),
      U8("completion_code"), U8("platform_event_status")>>

NoEvent(id) == id \in {0, 65535}

encode_poll_for_platform_event_message_resp(e) ==
    <<NonNull, Response(PLDM_PLATFORM, PLDM_POLL_FOR_PLATFORM_EVENT_MESSAGE),
      Init(4), U8("completion_code"), U8("tid"), Checked("event_id", 2)>> \o
    When(NoEvent(e.event_id), <<LengthIs(4, "INVALID_LENGTH"), Complete>>) \o
    <<U32("next_data_transfer_handle"), U8("transfer_flag"),
      U8("event_class"), Checked("event_data_size", 4),
      Bytes("event_data", e.event_data_size)>> \o
    When(e.transfer_flag \in {PLDM_END, PLDM_START_AND_END},
         <<U32("checksum")>>) \o
    <<Complete>>

encode_platform_event_message_req(e) ==
    <<Fail(e.format_version # 1, "INVALID_DATA"), NonNull,
      Fail(e.event_data_length = 0, "INVALID_DATA"),
      LengthIs(3 + e.event_data_length, "INVALID_LENGTH"),
      Fail(e.event_class > PLDM_CPER_EVENT /\ e.event_class \notin 240..254,
           "INVALID_DATA"),
      Request(PLDM_PLATFORM, PLDM_PLATFORM_EVENT_MESSAGE),
      U8("format_version"), U8("tid"), U8("event_class"),
      Field("event_data", e.event_data_length)>>

decode_platform_event_message_resp(e) ==
    <<NonNull, Init(2), Checked("completion_code", 1),
      Return(e.completion_code # PLDM_SUCCESS),
      Checked("platform_event_status", 1),
      Fail(e.platform_event_status > PLDM_EVENT_LOGGING_REJECTED,
           "INVALID_DATA"),
      Complete>>

encode_event_message_buffer_size_req(e) ==
    <<Request(PLDM_PLATFORM, PLDM_EVENT_MESSAGE_BUFFER_SIZE),
      U16("event_receiver_max_buffer_size")>>

decode_event_message_buffer_size_resp(e) ==
    <<NonNull, Init(3), Checked("completion_code", 1),
      Return(e.completion_code # PLDM_SUCCESS),
      U16("terminus_max_buffer_size"), CompleteConsumed>>

encode_event_message_supported_req(e) ==
    <<Fail(e.format_version # 1, "INVALID_DATA"), NonNull,
      Request(PLDM_PLATFORM, PLDM_EVENT_MESSAGE_SUPPORTED),
      U8("format_version")>>

decode_event_message_supported_resp(e) ==
    <<NonNull, Init(4), Checked("completion_code", 1),
      Return(e.completion_code # PLDM_SUCCESS),
      Checked("synchrony_config", 1),
      Fail(e.synchrony_config > PLDM_MESSAGE_TYPE_ASYNCHRONOUS_WITH_HEARTBEAT,
           "INVALID_DATA"),
      U8("synchrony_config_support"),
      Checked("number_event_class_returned", 1),
      Finish("complete", e.number_event_class_returned = 0, TRUE),
      Fail(e.event_class_count < e.number_event_class_returned,
           "INVALID_LENGTH"),
      Field("event_class", e.number_event_class_returned),
      CompleteConsumed>>

encode_get_event_receiver_req(e) ==
    <<NonNull, Request(PLDM_PLATFORM, PLDM_GET_EVENT_RECEIVER)>>

encode_get_event_receiver_resp(e) ==
    <<NonNull,
      Fail(e.transport_protocol_type # PLDM_TRANSPORT_PROTOCOL_TYPE_MCTP,
           "ENOTSUP"),
      Response(PLDM_PLATFORM, PLDM_GET_EVENT_RECEIVER), Init(2),
      U8("completion_code"), U8("transport_protocol_type"), U8("mctp_eid"),
      CompleteUsed>>

decode_get_event_receiver_resp(e) ==
    <<NonNull, HasError, Init(2), U8("completion_code"),
      Checked("transport_protocol_type", 1),
      Fail(e.transport_protocol_type # PLDM_TRANSPORT_PROTOCOL_TYPE_MCTP,
           "ENOTSUP"),
      U8("mctp_eid"), CompleteConsumed>>

\* Only a receiver that is kept alive is told the interval.
KeepAlive(e) == e.event_message_global_enable =
                    PLDM_EVENT_MESSAGE_GLOBAL_ENABLE_ASYNC_KEEP_ALIVE

encode_set_event_receiver_req(e) ==
    <<NonNull,
      Fail(e.transport_protocol_type # PLDM_TRANSPORT_PROTOCOL_TYPE_MCTP,
           "INVALID_DATA"),
      Request(PLDM_PLATFORM, PLDM_SET_EVENT_RECEIVER),
      U8("event_message_global_enable"), U8("transport_protocol_type"),
      U8("event_receiver_address_info")>> \o
    When(KeepAlive(e), <<Fail(e.heartbeat_timer = 0, "INVALID_DATA"),
                         U16("heartbeat_timer")>>)

decode_set_event_receiver_resp(e) ==
    <<NonNull, Init(1), U8("completion_code"), Complete>>

\* A mutant: the buffer is never completed.
decode_set_event_receiver_req_NotCompleted(e) ==
    <<NonNull, Init(3), U8("event_message_global_enable"),
      U8("transport_protocol_type"), U8("event_receiver_address_info")>> \o
    When(KeepAlive(e), <<U16("heartbeat_timer")>>) \o
    <<Fail(KeepAlive(e) /\ e.heartbeat_timer = 0, "INVALID_DATA")>>

decode_set_event_receiver_req(e) ==
    <<NonNull, Init(3), U8("event_message_global_enable"),
      U8("transport_protocol_type"), U8("event_receiver_address_info")>> \o
    When(KeepAlive(e), <<U16("heartbeat_timer")>>) \o
    <<CompleteThen,
      Fail(KeepAlive(e) /\ e.heartbeat_timer = 0, "INVALID_DATA")>>

encode_set_event_receiver_resp(e) ==
    <<NonNull, Response(PLDM_PLATFORM, PLDM_SET_EVENT_RECEIVER),
      U8("completion_code")>>

encode_poll_for_platform_event_message_req(e) ==
    <<NonNull,
      Fail(PollInvalid(e.transfer_operation_flag, e.event_id_to_acknowledge),
           "INVALID_DATA"),
      Request(PLDM_PLATFORM, PLDM_POLL_FOR_PLATFORM_EVENT_MESSAGE), Init(4),
      U8("format_version"), U8("transfer_operation_flag"),
      U32("data_transfer_handle"), U16("event_id_to_acknowledge"), Complete>>

\* A response with an error ends with its completion code as the result.
decode_poll_for_platform_event_message_resp(e) ==
    <<NonNull, Init(4), Checked("completion_code", 1),
      Fail(e.completion_code # PLDM_SUCCESS, "COMPLETION_CODE"),
      U8("tid"), Checked("event_id", 2), Return(NoEvent(e.event_id)),
      U32("next_data_transfer_handle"), Checked("transfer_flag", 1),
      U8("event_class"), Checked("event_data_size", 4),
      Fail(e.event_data_size > e.payload_length, "INVALID_DATA"),
      Field("event_data", e.event_data_size)>> \o
    When(e.transfer_flag \in {PLDM_END, PLDM_START_AND_END},
         <<U32("checksum")>>) \o
    <<CompleteConsumed>>

encode_get_terminus_uid_req(e) ==
    <<NonNull, Request(PLDM_PLATFORM, PLDM_GET_TERMINUS_UID)>>

decode_get_terminus_UID_resp(e) ==
    <<NonNull, U8("completion_code"),
      Return(e.completion_code # PLDM_SUCCESS),
      LengthAtMost(17, "INVALID_LENGTH"), Field("uuid", 16)>>

PlatformProgram(fn, e) ==
    CASE fn = "encode_set_state_effecter_states_resp" ->
             encode_set_state_effecter_states_resp(e)
      [] fn = "encode_set_state_effecter_states_req" ->
             encode_set_state_effecter_states_req(e)
      [] fn = "decode_set_state_effecter_states_resp" ->
             decode_set_state_effecter_states_resp(e)
      [] fn = "decode_set_state_effecter_states_req" ->
             decode_set_state_effecter_states_req(e)
      [] fn = "encode_set_numeric_effecter_enable_req" ->
             encode_set_numeric_effecter_enable_req(e)
      [] fn = "decode_set_numeric_effecter_value_req" ->
             decode_set_numeric_effecter_value_req(e)
      [] fn = "encode_set_numeric_effecter_value_resp" ->
             encode_set_numeric_effecter_value_resp(e)
      [] fn = "encode_set_numeric_effecter_value_req" ->
             encode_set_numeric_effecter_value_req(e)
      [] fn = "decode_set_numeric_effecter_value_resp" ->
             decode_set_numeric_effecter_value_resp(e)
      [] fn = "encode_get_numeric_effecter_value_req" ->
             encode_get_numeric_effecter_value_req(e)
      [] fn = "encode_get_numeric_effecter_value_resp" ->
             encode_get_numeric_effecter_value_resp(e)
      [] fn = "decode_get_numeric_effecter_value_req" ->
             decode_get_numeric_effecter_value_req(e)
      [] fn = "decode_get_numeric_effecter_value_resp" ->
             decode_get_numeric_effecter_value_resp(e)
      [] fn = "encode_get_state_effecter_states_req" ->
             encode_get_state_effecter_states_req(e)
      [] fn = "decode_get_state_effecter_states_req" ->
             decode_get_state_effecter_states_req(e)
      [] fn = "decode_get_state_effecter_states_resp" ->
             decode_get_state_effecter_states_resp(e)
      [] fn = "encode_get_state_effecter_states_resp" ->
             encode_get_state_effecter_states_resp(e)
      [] fn = "encode_set_state_effecter_enables_req" ->
             encode_set_state_effecter_enables_req(e)
      [] fn = "decode_get_pdr_req" -> decode_get_pdr_req(e)
      [] fn = "encode_get_pdr_resp" -> encode_get_pdr_resp(e)
      [] fn = "encode_get_pdr_repository_info_req" ->
             encode_get_pdr_repository_info_req(e)
      [] fn = "encode_get_pdr_repository_info_resp" ->
             encode_get_pdr_repository_info_resp(e)
      [] fn = "decode_get_pdr_repository_info_resp" ->
             decode_get_pdr_repository_info_resp(e)
      [] fn = "decode_get_pdr_repository_info_resp_safe" ->
             decode_get_pdr_repository_info_resp_safe(e)
      [] fn = "encode_get_pdr_req" -> encode_get_pdr_req(e)
      [] fn = "decode_get_pdr_resp" -> decode_get_pdr_resp(e)
      [] fn = "decode_get_pdr_resp_safe" -> decode_get_pdr_resp_safe(e)
      [] fn = "encode_get_state_sensor_readings_resp" ->
             encode_get_state_sensor_readings_resp(e)
      [] fn = "encode_get_state_sensor_readings_req" ->
             encode_get_state_sensor_readings_req(e)
      [] fn = "decode_get_state_sensor_readings_resp" ->
             decode_get_state_sensor_readings_resp(e)
      [] fn = "decode_get_state_sensor_readings_req" ->
             decode_get_state_sensor_readings_req(e)
      [] fn = "encode_get_sensor_reading_req" ->
             encode_get_sensor_reading_req(e)
      [] fn = "decode_get_sensor_reading_resp" ->
             decode_get_sensor_reading_resp(e)
      [] fn = "encode_get_sensor_reading_resp" ->
             encode_get_sensor_reading_resp(e)
      [] fn = "decode_get_sensor_reading_req" ->
             decode_get_sensor_reading_req(e)
      [] fn = "encode_pldm_platform_set_numeric_sensor_enable_req" ->
             encode_pldm_platform_set_numeric_sensor_enable_req(e)
      [] fn = "decode_pldm_platform_set_numeric_sensor_enable_resp" ->
             decode_pldm_platform_set_numeric_sensor_enable_resp(e)
      [] fn = "decode_set_numeric_sensor_enable_req" ->
             decode_set_numeric_sensor_enable_req(e)
      [] fn = "decode_set_state_sensor_enables_req" ->
             decode_set_state_sensor_enables_req(e)
      [] fn = "decode_platform_event_message_req" ->
             decode_platform_event_message_req(e)
      [] fn = "decode_poll_for_platform_event_message_req" ->
             decode_poll_for_platform_event_message_req(e)
      [] fn = "encode_platform_event_message_resp" ->
             encode_platform_event_message_resp(e)
      [] fn = "encode_poll_for_platform_event_message_resp" ->
             encode_poll_for_platform_event_message_resp(e)
      [] fn = "encode_platform_event_message_req" ->
             encode_platform_event_message_req(e)
      [] fn = "decode_platform_event_message_resp" ->
             decode_platform_event_message_resp(e)
      [] fn = "encode_event_message_buffer_size_req" ->
             encode_event_message_buffer_size_req(e)
      [] fn = "decode_event_message_buffer_size_resp" ->
             decode_event_message_buffer_size_resp(e)
      [] fn = "encode_event_message_supported_req" ->
             encode_event_message_supported_req(e)
      [] fn = "decode_event_message_supported_resp" ->
             decode_event_message_supported_resp(e)
      [] fn = "encode_get_event_receiver_req" ->
             encode_get_event_receiver_req(e)
      [] fn = "encode_get_event_receiver_resp" ->
             encode_get_event_receiver_resp(e)
      [] fn = "decode_get_event_receiver_resp" ->
             decode_get_event_receiver_resp(e)
      [] fn = "encode_set_event_receiver_req" ->
             encode_set_event_receiver_req(e)
      [] fn = "decode_set_event_receiver_resp" ->
             decode_set_event_receiver_resp(e)
      [] fn = "decode_set_event_receiver_req" ->
             decode_set_event_receiver_req(e)
      [] fn = "encode_set_event_receiver_resp" ->
             encode_set_event_receiver_resp(e)
      [] fn = "encode_poll_for_platform_event_message_req" ->
             encode_poll_for_platform_event_message_req(e)
      [] fn = "decode_poll_for_platform_event_message_resp" ->
             decode_poll_for_platform_event_message_resp(e)
      [] fn = "encode_get_terminus_uid_req" -> encode_get_terminus_uid_req(e)
      [] fn = "decode_get_terminus_UID_resp" -> decode_get_terminus_UID_resp(e)

Platform(enc, dec, args, req) == Message("platform", enc, dec, args, {}, req)
PlatformInto(enc, dec, args, inputs, req) ==
    Message("platform", enc, dec, args, inputs, req)
PlatformPeer(dec, args, inputs) ==
    FromPeer("platform", dec, dec, args, inputs)

PlatformMessages ==
    {Platform("encode_set_state_effecter_states_req",
              "decode_set_state_effecter_states_req",
              pldm_set_state_effecter_states_req, ""),
     Platform("encode_set_state_effecter_states_resp",
              "decode_set_state_effecter_states_resp",
              pldm_platform_cc_resp, "encode_set_state_effecter_states_req"),
     Platform("encode_set_numeric_effecter_enable_req", "",
              pldm_set_numeric_effecter_enable_req, ""),
     Platform("encode_set_numeric_effecter_value_req",
              "decode_set_numeric_effecter_value_req",
              pldm_set_numeric_effecter_value_req, ""),
     Platform("encode_set_numeric_effecter_value_resp",
              "decode_set_numeric_effecter_value_resp",
              pldm_platform_cc_resp, "encode_set_numeric_effecter_value_req"),
     Platform("encode_get_numeric_effecter_value_req",
              "decode_get_numeric_effecter_value_req",
              pldm_get_numeric_effecter_value_req, ""),
     Platform("encode_get_numeric_effecter_value_resp",
              "decode_get_numeric_effecter_value_resp",
              pldm_get_numeric_effecter_value_resp,
              "encode_get_numeric_effecter_value_req"),
     Platform("encode_get_state_effecter_states_req",
              "decode_get_state_effecter_states_req",
              pldm_get_state_effecter_states_req, ""),
     Platform("encode_get_state_effecter_states_resp",
              "decode_get_state_effecter_states_resp",
              pldm_get_state_effecter_states_resp,
              "encode_get_state_effecter_states_req"),
     Platform("encode_set_state_effecter_enables_req", "",
              pldm_set_state_effecter_enables_req, ""),
     Platform("encode_get_pdr_req", "decode_get_pdr_req", pldm_get_pdr_req, ""),
     PlatformInto("encode_get_pdr_resp", "decode_get_pdr_resp",
                  pldm_get_pdr_resp, {"record_data_length"},
                  "encode_get_pdr_req"),
     PlatformInto("encode_get_pdr_resp", "decode_get_pdr_resp_safe",
                  pldm_get_pdr_resp, {"record_data_length"},
                  "encode_get_pdr_req"),
     Platform("encode_get_pdr_repository_info_req", "", NoFields, ""),
     Platform("encode_get_pdr_repository_info_resp",
              "decode_get_pdr_repository_info_resp",
              pldm_pdr_repository_info_resp,
              "encode_get_pdr_repository_info_req"),
     Platform("encode_get_pdr_repository_info_resp",
              "decode_get_pdr_repository_info_resp_safe",
              pldm_pdr_repository_info_resp,
              "encode_get_pdr_repository_info_req"),
     Platform("encode_get_state_sensor_readings_req",
              "decode_get_state_sensor_readings_req",
              pldm_get_state_sensor_readings_req, ""),
     Platform("encode_get_state_sensor_readings_resp",
              "decode_get_state_sensor_readings_resp",
              pldm_get_state_sensor_readings_resp,
              "encode_get_state_sensor_readings_req"),
     Platform("encode_get_sensor_reading_req", "decode_get_sensor_reading_req",
              pldm_get_sensor_reading_req, ""),
     Platform("encode_get_sensor_reading_resp",
              "decode_get_sensor_reading_resp", pldm_get_sensor_reading_resp,
              "encode_get_sensor_reading_req"),
     Platform("encode_pldm_platform_set_numeric_sensor_enable_req",
              "decode_set_numeric_sensor_enable_req",
              pldm_platform_set_numeric_sensor_enable_req, ""),
     PlatformPeer("decode_pldm_platform_set_numeric_sensor_enable_resp",
                  pldm_platform_cc_resp, {}),
     PlatformPeer("decode_set_state_sensor_enables_req",
                  pldm_set_state_sensor_enables_req, {}),
     Platform("encode_platform_event_message_req",
              "decode_platform_event_message_req",
              pldm_platform_event_message_req, ""),
     Platform("encode_platform_event_message_resp",
              "decode_platform_event_message_resp",
              pldm_platform_event_message_resp,
              "encode_platform_event_message_req"),
     Platform("encode_poll_for_platform_event_message_req",
              "decode_poll_for_platform_event_message_req",
              pldm_poll_for_platform_event_message_req, ""),
     Platform("encode_poll_for_platform_event_message_resp",
              "decode_poll_for_platform_event_message_resp",
              pldm_poll_for_platform_event_message_resp,
              "encode_poll_for_platform_event_message_req"),
     Platform("encode_event_message_buffer_size_req", "",
              pldm_event_message_buffer_size_req, ""),
     PlatformPeer("decode_event_message_buffer_size_resp",
                  pldm_event_message_buffer_size_resp, {}),
     Platform("encode_event_message_supported_req", "",
              pldm_event_message_supported_req, ""),
     PlatformPeer("decode_event_message_supported_resp",
                  pldm_event_message_supported_resp, {"event_class_count"}),
     Platform("encode_get_event_receiver_req", "", NoFields, ""),
     Platform("encode_get_event_receiver_resp",
              "decode_get_event_receiver_resp",
              pldm_get_event_receiver_resp, "encode_get_event_receiver_req"),
     Platform("encode_set_event_receiver_req",
              "decode_set_event_receiver_req", pldm_set_event_receiver_req,
              ""),
     Platform("encode_set_event_receiver_resp",
              "decode_set_event_receiver_resp", pldm_platform_cc_resp,
              "encode_set_event_receiver_req"),
     Platform("encode_get_terminus_uid_req", "", NoFields, ""),
     PlatformPeer("decode_get_terminus_UID_resp",
                  pldm_get_terminus_uid_resp, {})}

=============================================================================
