------------------------------- MODULE OemCodecs -------------------------------
(***************************************************************************)
(* The OEM messages: IBM's file I/O, host and platform messages            *)
(* (src/oem/ibm), Meta's file I/O (src/oem/meta) and NVIDIA's energy count *)
(* sensor (src/oem/nvidia).  Where a function leaves the file's data to    *)
(* its caller, the message with the data is an operator of its own.        *)
(***************************************************************************)
EXTENDS CodecOps

PLDM_GET_FILE_TABLE == 1
PLDM_READ_FILE == 4
PLDM_WRITE_FILE == 5
PLDM_READ_FILE_INTO_MEMORY == 6
PLDM_WRITE_FILE_FROM_MEMORY == 7
PLDM_READ_FILE_BY_TYPE_INTO_MEMORY == 8
PLDM_WRITE_FILE_BY_TYPE_FROM_MEMORY == 9
PLDM_NEW_FILE_AVAILABLE == 10
PLDM_READ_FILE_BY_TYPE == 11
PLDM_WRITE_FILE_BY_TYPE == 12
PLDM_FILE_ACK == 13
PLDM_NEW_FILE_AVAILABLE_WITH_META_DATA == 14
PLDM_FILE_ACK_WITH_META_DATA == 15
PLDM_HOST_GET_ALERT_STATUS == 240
PLDM_OEM_EVENT_MESSAGE == 10  \* PLDM_PLATFORM_EVENT_MESSAGE
PLDM_EVENT_TYPE_OEM_EVENT_BIOS_ATTRIBUTE_UPDATE == 240
PLDM_OEM_META_FILE_IO_CMD_READ_FILE == 3
PLDM_OEM_META_FILE_IO_READ_ATTR == 0
PLDM_OEM_META_FILE_IO_READ_DATA == 1
PLDM_OEM_GET_ENERGYCOUNT_SENSOR_READING == 17
PLDM_SENSOR_OEM_DATA_SIZE_SINT64 == 7

\* sizeof the structures a caller of Meta's functions provides.
META_WRITE_REQ_SIZE == 8
META_READ_REQ_SIZE == 16
META_READ_RESP_SIZE == 24

(***************************************************************************)
(* The structures.                                                         *)
(***************************************************************************)
pldm_read_write_file_memory_req ==
    [command : {PLDM_READ_FILE_INTO_MEMORY, PLDM_WRITE_FILE_FROM_MEMORY},
     file_handle : {11}, offset : {12}, length : {13}, address : {14}]
pldm_read_write_file_memory_resp ==
    [command : {PLDM_READ_FILE_INTO_MEMORY, PLDM_WRITE_FILE_FROM_MEMORY},
     completion_code : {0, 1}, length : {11}]
pldm_get_file_table_req ==
    [transfer_handle : {11}, operation_flag : {12}, table_type : {13}]
pldm_get_file_table_resp ==
    [completion_code : {0, 1}, next_transfer_handle : {11},
     transfer_flag : {12}, table_data : {13}, table_size : {0, 2}]
pldm_read_file_req == [file_handle : {11}, offset : {12}, length : {0, 13}]
pldm_read_file_resp ==
    [completion_code : {0, 1}, length : {0, 3}, file_data : {11}]
pldm_write_file_req ==
    [file_handle : {11}, offset : {12}, length : {0, 3}, file_data : {13}]
pldm_write_file_resp == [completion_code : {0, 1}, length : {11}]
pldm_read_write_file_by_type_memory_req ==
    [command : {PLDM_READ_FILE_BY_TYPE_INTO_MEMORY,
                PLDM_WRITE_FILE_BY_TYPE_FROM_MEMORY},
     file_type : {11}, file_handle : {12}, offset : {13}, length : {14},
     address : {15}]
pldm_read_write_file_by_type_memory_resp ==
    [command : {PLDM_READ_FILE_BY_TYPE_INTO_MEMORY,
                PLDM_WRITE_FILE_BY_TYPE_FROM_MEMORY},
     completion_code : {0, 1}, length : {11}]
pldm_new_file_req == [file_type : {11}, file_handle : {12}, length : {13}]
pldm_new_file_resp == [completion_code : {0, 1}]
pldm_read_write_file_by_type_req ==
    [command : {PLDM_FILE_ACK, PLDM_READ_FILE_BY_TYPE,
                PLDM_WRITE_FILE_BY_TYPE},
     file_type : {11}, file_handle : {12}, offset : {13}, length : {14}]
pldm_read_write_file_by_type_resp ==
    [command : {PLDM_FILE_ACK, PLDM_READ_FILE_BY_TYPE,
                PLDM_WRITE_FILE_BY_TYPE},
     completion_code : {0, 1}, length : {11}]
pldm_file_ack_req ==
    [file_type : {11}, file_handle : {12}, file_status : {13}]
pldm_file_ack_resp == [completion_code : {0, 1}]
pldm_file_ack_with_meta_data_req ==
    [file_type : {11}, file_handle : {12}, file_status : {13},
     file_meta_data_1 : {14}, file_meta_data_2 : {15},
     file_meta_data_3 : {16}, file_meta_data_4 : {17}]
pldm_file_ack_with_meta_data_resp == [completion_code : {0, 1}]
pldm_new_file_with_metadata_req ==
    [file_type : {11}, file_handle : {12}, length : {13},
     file_meta_data_1 : {14}, file_meta_data_2 : {15},
     file_meta_data_3 : {16}, file_meta_data_4 : {17}]
\* stale is what the first byte of the buffer holds before the call.
pldm_new_file_with_metadata_resp ==
    [completion_code : {0, 1}, stale : {0, 5}]
pldm_get_alert_status_req == [version_id : {11}]
pldm_get_alert_status_resp ==
    [completion_code : {0, 1}, rack_entry : {11}, pri_cec_node : {12}]
pldm_bios_attribute_update_event_req ==
    [format_version : {0, 1}, tid : {11}, event_class : {0},
     num_handles : {0, 1, 2}, bios_attribute_handles : {13}]
\* req_length and resp_len are the sizes of the caller's structures.
pldm_oem_meta_file_io_write_req ==
    [handle : {11}, length : {0, 3}, data : {12},
     req_length : {META_WRITE_REQ_SIZE + k : k \in {-1, 0, 2, 3}}]
pldm_oem_meta_file_io_read_req ==
    [version : {META_READ_REQ_SIZE, META_READ_REQ_SIZE + 1}, handle : {11},
     option : {PLDM_OEM_META_FILE_IO_READ_ATTR,
               PLDM_OEM_META_FILE_IO_READ_DATA, 2},
     length : {0, 13}, transferFlag : {14}, offset : {15}]
pldm_oem_meta_file_io_read_resp ==
    [version : {META_READ_RESP_SIZE, META_READ_RESP_SIZE + 1},
     completion_code : {0, 1}, handle : {11},
     option : {PLDM_OEM_META_FILE_IO_READ_ATTR,
               PLDM_OEM_META_FILE_IO_READ_DATA, 2},
     length : {0, 3}, size : {12}, crc32 : {13}, transferFlag : {14},
     offset : {15}, data : {16},
     resp_len : {META_READ_RESP_SIZE + k : k \in {-1, 0, 2, 3}}]
pldm_get_oem_energycount_sensor_reading_req == [sensor_id : {11}]
\* present_size is the value of *sensor_data_size when the decoder is called.
pldm_get_oem_energycount_sensor_reading_resp ==
    [completion_code : {0, 1}, sensor_data_size : 0..8,
     sensor_operational_state : {11}, present_reading : {12},
     present_size : {3, 7}]

(***************************************************************************)
(* The functions: IBM's file I/O.                                          *)
(***************************************************************************)
decode_rw_file_memory_req(e) ==
    <<NonNull, LengthIs(20, "INVALID_LENGTH"), U32("file_handle"),
      U32("offset"), U32("length"), U64("address")>>

encode_rw_file_memory_resp(e) ==
    <<NonNull, Response(PLDM_OEM, e.command), U8("completion_code"),
      Return(e.completion_code # PLDM_SUCCESS), U32("length")>>

encode_rw_file_memory_req(e) ==
    <<NonNull, Request(PLDM_OEM, e.command), U32("file_handle"),
      U32("offset"), U32("length"), U64("address")>>

decode_rw_file_memory_resp(e) ==
    <<NonNull, LengthIs(5, "INVALID_LENGTH"), U8("completion_code"),
      Return(e.completion_code # PLDM_SUCCESS), U32("length")>>

decode_get_file_table_req(e) ==
    <<NonNull, LengthIs(6, "INVALID_LENGTH"), U32("transfer_handle"),
      U8("operation_flag"), U8("table_type")>>

encode_get_file_table_resp(e) ==
    <<NonNull, Response(PLDM_OEM, PLDM_GET_FILE_TABLE), U8("completion_code"),
      Return(e.completion_code # PLDM_SUCCESS), U32("next_transfer_handle"),
      U8("transfer_flag"), Field("table_data", e.table_size)>>

encode_get_file_table_req(e) ==
    <<NonNull, Request(PLDM_OEM, PLDM_GET_FILE_TABLE), U32("transfer_handle"),
      U8("operation_flag"), U8("table_type")>>

\* The caller finds the table at the offset it is given.
decode_get_file_table_resp(e) ==
    <<NonNull, LengthAtLeast(7, "INVALID_LENGTH"), U8("completion_code"),
      Return(e.completion_code # PLDM_SUCCESS), U32("next_transfer_handle"),
      U8("transfer_flag"), Rest("table_data", "table_size")>>

decode_read_file_req(e) ==
    <<NonNull, LengthIs(12, "INVALID_LENGTH"), U32("file_handle"),
      U32("offset"), U32("length")>>

encode_read_file_req(e) ==
    <<NonNull, Fail(e.length = 0, "LENGTH"),
      Request(PLDM_OEM, PLDM_READ_FILE), U32("file_handle"), U32("offset"),
      U32("length")>>

decode_read_file_resp(e) ==
    <<NonNull, LengthAtLeast(5, "INVALID_LENGTH"), U8("completion_code"),
      Return(e.completion_code # PLDM_SUCCESS), U32("length"),
      LengthIs(5 + e.length, "INVALID_LENGTH"), Field("file_data", e.length)>>

encode_read_file_resp(e) ==
    <<NonNull, Response(PLDM_OEM, PLDM_READ_FILE), U8("completion_code"),
      Return(e.completion_code # PLDM_SUCCESS), U32("length")>>

ReadFileResponse(e) ==
    encode_read_file_resp(e) \o <<Field("file_data", e.length)>>

decode_write_file_req(e) ==
    <<NonNull, LengthAtLeast(12, "INVALID_LENGTH"), U32("file_handle"),
      U32("offset"), U32("length"), LengthIs(12 + e.length, "INVALID_LENGTH"),
      Field("file_data", e.length)>>

encode_write_file_req(e) ==
    <<NonNull, Fail(e.length = 0, "LENGTH"),
      Request(PLDM_OEM, PLDM_WRITE_FILE), U32("file_handle"), U32("offset"),
      U32("length")>>

WriteFileRequest(e) ==
    encode_write_file_req(e) \o <<Field("file_data", e.length)>>

decode_write_file_resp(e) ==
    <<NonNull, LengthIs(5, "INVALID_LENGTH"), U8("completion_code"),
      Return(e.completion_code # PLDM_SUCCESS), U32("length")>>

encode_write_file_resp(e) ==
    <<NonNull, Response(PLDM_OEM, PLDM_WRITE_FILE), U8("completion_code"),
      Return(e.completion_code # PLDM_SUCCESS), U32("length")>>

decode_rw_file_by_type_memory_req(e) ==
    <<NonNull, LengthIs(22, "INVALID_LENGTH"), U16("file_type"),
      U32("file_handle"), U32("offset"), U32("length"), U64("address")>>

encode_rw_file_by_type_memory_resp(e) ==
    <<NonNull, Response(PLDM_OEM, e.command), U8("completion_code"),
      Return(e.completion_code # PLDM_SUCCESS), U32("length")>>

encode_rw_file_by_type_memory_req(e) ==
    <<NonNull, Request(PLDM_OEM, e.command), U16("file_type"),
      U32("file_handle"), U32("offset"), U32("length"), U64("address")>>

decode_rw_file_by_type_memory_resp(e) ==
    <<NonNull, LengthIs(5, "INVALID_LENGTH"), U8("completion_code"),
      Return(e.completion_code # PLDM_SUCCESS), U32("length")>>

\* A mutant: whatever the length.
decode_new_file_req_AnyLength(e) ==
    <<NonNull, U16("file_type"), U32("file_handle"), U64("length")>>

decode_new_file_req(e) ==
    <<NonNull, LengthIs(14, "INVALID_LENGTH"), U16("file_type"),
      U32("file_handle"), U64("length")>>

encode_new_file_resp(e) ==
    <<NonNull, Response(PLDM_OEM, PLDM_NEW_FILE_AVAILABLE),
      U8("completion_code")>>

encode_new_file_req(e) ==
    <<NonNull, Request(PLDM_OEM, PLDM_NEW_FILE_AVAILABLE), U16("file_type"),
      U32("file_handle"), U64("length")>>

decode_new_file_resp(e) ==
    <<NonNull, LengthIs(1, "INVALID_LENGTH"), U8("completion_code")>>

\* A mutant: the length where the offset is.
decode_rw_file_by_type_req_Swapped(e) ==
    <<NonNull, LengthAtLeast(14, "INVALID_LENGTH"), U16("file_type"),
      U32("file_handle"), U32("length"), U32("offset")>>

\* The data of a write follow; the caller has their length.
decode_rw_file_by_type_req(e) ==
    <<NonNull, LengthAtLeast(14, "INVALID_LENGTH"), U16("file_type"),
      U32("file_handle"), U32("offset"), U32("length")>>

encode_rw_file_by_type_resp(e) ==
    <<NonNull,
      Fail(e.command \notin {PLDM_READ_FILE_BY_TYPE, PLDM_WRITE_FILE_BY_TYPE},
           "INVALID_DATA"),
      Response(PLDM_OEM, e.command), U8("completion_code"),
      Return(e.completion_code # PLDM_SUCCESS), U32("length")>>

encode_rw_file_by_type_req(e) ==
    <<NonNull,
      Fail(e.command \notin {PLDM_READ_FILE_BY_TYPE, PLDM_WRITE_FILE_BY_TYPE},
           "INVALID_DATA"),
      Request(PLDM_OEM, e.command), U16("file_type"), U32("file_handle"),
      U32("offset"), U32("length")>>

decode_rw_file_by_type_resp(e) ==
    <<NonNull, LengthIs(5, "INVALID_LENGTH"), U8("completion_code"),
      Return(e.completion_code # PLDM_SUCCESS), U32("length")>>

decode_file_ack_req(e) ==
    <<NonNull, LengthIs(7, "INVALID_LENGTH"), U16("file_type"),
      U32("file_handle"), U8("file_status")>>

encode_file_ack_resp(e) ==
    <<NonNull, Response(PLDM_OEM, PLDM_FILE_ACK), U8("completion_code")>>

encode_file_ack_req(e) ==
    <<NonNull, Request(PLDM_OEM, PLDM_FILE_ACK), U16("file_type"),
      U32("file_handle"), U8("file_status")>>

decode_file_ack_resp(e) ==
    <<NonNull, LengthIs(1, "INVALID_LENGTH"), U8("completion_code")>>

encode_file_ack_with_meta_data_req(e) ==
    <<NonNull, Request(PLDM_OEM, PLDM_FILE_ACK_WITH_META_DATA),
      U16("file_type"), U32("file_handle"), U8("file_status"),
      U32("file_meta_data_1"), U32("file_meta_data_2"),
      U32("file_meta_data_3"), U32("file_meta_data_4")>>

decode_file_ack_with_meta_data_resp(e) ==
    <<NonNull, LengthIs(1, "INVALID_LENGTH"), U8("completion_code")>>

decode_file_ack_with_meta_data_req(e) ==
    <<NonNull, LengthIs(23, "INVALID_LENGTH"), U16("file_type"),
      U32("file_handle"), U8("file_status"), U32("file_meta_data_1"),
      U32("file_meta_data_2"), U32("file_meta_data_3"),
      U32("file_meta_data_4")>>

encode_file_ack_with_meta_data_resp(e) ==
    <<NonNull, Response(PLDM_OEM, PLDM_FILE_ACK_WITH_META_DATA),
      U8("completion_code")>>

encode_new_file_with_metadata_req(e) ==
    <<NonNull, Request(PLDM_OEM, PLDM_NEW_FILE_AVAILABLE_WITH_META_DATA),
      U16("file_type"), U32("file_handle"), U64("length"),
      U32("file_meta_data_1"), U32("file_meta_data_2"),
      U32("file_meta_data_3"), U32("file_meta_data_4")>>

decode_new_file_with_metadata_resp(e) ==
    <<NonNull, LengthIs(1, "INVALID_LENGTH"), U8("completion_code")>>

decode_new_file_with_metadata_req(e) ==
    <<NonNull, LengthIs(30, "INVALID_LENGTH"), U16("file_type"),
      U32("file_handle"), U64("length"), U32("file_meta_data_1"),
      U32("file_meta_data_2"), U32("file_meta_data_3"),
      U32("file_meta_data_4")>>

\* The completion code is stored only where the buffer holds a zero already.
encode_new_file_with_metadata_resp(e) ==
    <<NonNull, Response(PLDM_OEM, PLDM_NEW_FILE_AVAILABLE_WITH_META_DATA),
      Stored("completion_code", 1,
             IF e.stale = PLDM_SUCCESS THEN e.completion_code ELSE e.stale)>>

(***************************************************************************)
(* The functions: IBM's host and platform messages.                        *)
(***************************************************************************)
encode_get_alert_status_req(e) ==
    <<NonNull, LengthIs(1, "INVALID_LENGTH"),
      Request(PLDM_OEM, PLDM_HOST_GET_ALERT_STATUS), U8("version_id")>>

decode_get_alert_status_resp(e) ==
    <<NonNull, U8("completion_code"), Return(e.completion_code # PLDM_SUCCESS),
      LengthIs(9, "INVALID_LENGTH"), U32("rack_entry"), U32("pri_cec_node")>>

decode_get_alert_status_req(e) ==
    <<NonNull, LengthIs(1, "INVALID_LENGTH"), U8("version_id")>>

encode_get_alert_status_resp(e) ==
    <<NonNull, LengthIs(9, "INVALID_DATA"),
      Response(PLDM_OEM, PLDM_HOST_GET_ALERT_STATUS), U8("completion_code"),
      U32("rack_entry"), U32("pri_cec_node")>>

encode_bios_attribute_update_event_req(e) ==
    <<Fail(e.format_version # 1, "INVALID_DATA"), NonNull,
      Fail(e.num_handles = 0, "INVALID_DATA"),
      LengthAtLeast(4, "INVALID_LENGTH"),
      LengthAtLeast(4 + 2 * e.num_handles, "INVALID_LENGTH"),
      Request(PLDM_PLATFORM, PLDM_OEM_EVENT_MESSAGE), U8("format_version"),
      U8("tid"),
      Set("event_class", PLDM_EVENT_TYPE_OEM_EVENT_BIOS_ATTRIBUTE_UPDATE),
      U8("event_class"), U8("num_handles"),
      Field("bios_attribute_handles", 2 * e.num_handles)>>

(***************************************************************************)
(* The functions: Meta's file I/O.                                         *)
(***************************************************************************)
decode_oem_meta_file_io_write_req(e) ==
    <<NonNull, Fail(e.req_length < META_WRITE_REQ_SIZE, "EINVAL"), Init(5),
      U8("handle"), Checked("length", 4),
      Array("data", e.length, e.req_length - META_WRITE_REQ_SIZE),
      CompleteConsumed>>

\* The structure that is allocated for the request has room for its payload.
decode_oem_meta_file_io_req(e) ==
    <<NonNull, Fail(SIZE_MAX - META_WRITE_REQ_SIZE < e.payload_length,
                    "PAYLOAD_LENGTH")>> \o
    decode_oem_meta_file_io_write_req(
        [e EXCEPT !.req_length = META_WRITE_REQ_SIZE + e.payload_length])

\* Meta's requests, as a peer writes them.
MetaWriteRequest(e) ==
    <<U8("handle"), U32("length"), Field("data", e.length)>>
MetaReadRequest(e) ==
    <<U8("handle"), U8("option"), U8("length")>> \o
    When(e.option = PLDM_OEM_META_FILE_IO_READ_DATA,
         <<U8("transferFlag"), U16("offset")>>)

decode_oem_meta_file_io_read_req(e) ==
    <<NonNull, Fail(e.version > META_READ_REQ_SIZE, "E2BIG"), Init(3),
      U8("handle"), Checked("option", 1), Checked("length", 1),
      Fail(e.option = PLDM_OEM_META_FILE_IO_READ_ATTR /\ e.length # 0,
           "EPROTO"),
      Fail(e.option \notin {PLDM_OEM_META_FILE_IO_READ_ATTR,
                            PLDM_OEM_META_FILE_IO_READ_DATA}, "EPROTO")>> \o
    When(e.option = PLDM_OEM_META_FILE_IO_READ_DATA,
         <<U8("transferFlag"), U16("offset")>>) \o
    <<CompleteConsumed>>

encode_oem_meta_file_io_read_resp(e) ==
    <<NonNull, Fail(e.resp_len < META_READ_RESP_SIZE, "EINVAL"),
      Fail(e.version > META_READ_RESP_SIZE, "E2BIG"),
      Response(PLDM_OEM, PLDM_OEM_META_FILE_IO_CMD_READ_FILE), Init(4),
      U8("completion_code"), U8("handle"), U8("option"), U8("length")>> \o
    (CASE e.option = PLDM_OEM_META_FILE_IO_READ_ATTR ->
              <<U16("size"), U32("crc32")>>
       [] e.option = PLDM_OEM_META_FILE_IO_READ_DATA ->
              <<U8("transferFlag"), U16("offset"),
                Array("data", e.length, e.resp_len - META_READ_RESP_SIZE)>>
       [] OTHER -> <<Fail(TRUE, "EPROTO")>>) \o
    <<Complete>>

(***************************************************************************)
(* The functions: NVIDIA's energy count sensor.                            *)
(***************************************************************************)
encode_get_oem_energy_count_sensor_reading_req(e) ==
    <<NonNull, Request(PLDM_OEM, PLDM_OEM_GET_ENERGYCOUNT_SENSOR_READING),
      U16("sensor_id")>>

\* The sizes come in pairs, unsigned and signed, of 1, 2, 4 and 8 bytes.
decode_get_oem_energy_count_sensor_reading_resp(e) ==
    LET bytes == 2 ^ (e.sensor_data_size \div 2)
    IN <<NonNull, U8("completion_code"),
         Return(e.completion_code # PLDM_SUCCESS),
         LengthAtLeast(4, "INVALID_LENGTH"), U8("sensor_data_size"),
         Fail(e.sensor_data_size > PLDM_SENSOR_OEM_DATA_SIZE_SINT64,
              "INVALID_DATA"),
         Fail(e.sensor_data_size > e.present_size, "SENSOR_DATA_SIZE"),
         U8("sensor_operational_state")>> \o
       When(e.sensor_data_size \in 0..PLDM_SENSOR_OEM_DATA_SIZE_SINT64,
            <<LengthIs(4 + bytes - 1, "INVALID_LENGTH"),
              Field("present_reading", bytes)>>)

OemProgram(fn, e) ==
    CASE fn = "decode_rw_file_memory_req" -> decode_rw_file_memory_req(e)
      [] fn = "encode_rw_file_memory_resp" -> encode_rw_file_memory_resp(e)
      [] fn = "encode_rw_file_memory_req" -> encode_rw_file_memory_req(e)
      [] fn = "decode_rw_file_memory_resp" -> decode_rw_file_memory_resp(e)
      [] fn = "decode_get_file_table_req" -> decode_get_file_table_req(e)
      [] fn = "encode_get_file_table_resp" -> encode_get_file_table_resp(e)
      [] fn = "encode_get_file_table_req" -> encode_get_file_table_req(e)
      [] fn = "decode_get_file_table_resp" -> decode_get_file_table_resp(e)
      [] fn = "decode_read_file_req" -> decode_read_file_req(e)
      [] fn = "encode_read_file_req" -> encode_read_file_req(e)
      [] fn = "decode_read_file_resp" -> decode_read_file_resp(e)
      [] fn = "encode_read_file_resp" -> encode_read_file_resp(e)
      [] fn = "decode_write_file_req" -> decode_write_file_req(e)
      [] fn = "encode_write_file_req" -> encode_write_file_req(e)
      [] fn = "decode_write_file_resp" -> decode_write_file_resp(e)
      [] fn = "encode_write_file_resp" -> encode_write_file_resp(e)
      [] fn = "decode_rw_file_by_type_memory_req" ->
             decode_rw_file_by_type_memory_req(e)
      [] fn = "encode_rw_file_by_type_memory_resp" ->
             encode_rw_file_by_type_memory_resp(e)
      [] fn = "encode_rw_file_by_type_memory_req" ->
             encode_rw_file_by_type_memory_req(e)
      [] fn = "decode_rw_file_by_type_memory_resp" ->
             decode_rw_file_by_type_memory_resp(e)
      [] fn = "decode_new_file_req" -> decode_new_file_req(e)
      [] fn = "encode_new_file_resp" -> encode_new_file_resp(e)
      [] fn = "encode_new_file_req" -> encode_new_file_req(e)
      [] fn = "decode_new_file_resp" -> decode_new_file_resp(e)
      [] fn = "decode_rw_file_by_type_req" -> decode_rw_file_by_type_req(e)
      [] fn = "encode_rw_file_by_type_resp" -> encode_rw_file_by_type_resp(e)
      [] fn = "encode_rw_file_by_type_req" -> encode_rw_file_by_type_req(e)
      [] fn = "decode_rw_file_by_type_resp" -> decode_rw_file_by_type_resp(e)
      [] fn = "decode_file_ack_req" -> decode_file_ack_req(e)
      [] fn = "encode_file_ack_resp" -> encode_file_ack_resp(e)
      [] fn = "encode_file_ack_req" -> encode_file_ack_req(e)
      [] fn = "decode_file_ack_resp" -> decode_file_ack_resp(e)
      [] fn = "encode_file_ack_with_meta_data_req" ->
             encode_file_ack_with_meta_data_req(e)
      [] fn = "decode_file_ack_with_meta_data_resp" ->
             decode_file_ack_with_meta_data_resp(e)
      [] fn = "decode_file_ack_with_meta_data_req" ->
             decode_file_ack_with_meta_data_req(e)
      [] fn = "encode_file_ack_with_meta_data_resp" ->
             encode_file_ack_with_meta_data_resp(e)
      [] fn = "encode_new_file_with_metadata_req" ->
             encode_new_file_with_metadata_req(e)
      [] fn = "decode_new_file_with_metadata_resp" ->
             decode_new_file_with_metadata_resp(e)
      [] fn = "decode_new_file_with_metadata_req" ->
             decode_new_file_with_metadata_req(e)
      [] fn = "encode_new_file_with_metadata_resp" ->
             encode_new_file_with_metadata_resp(e)
      [] fn = "encode_get_alert_status_req" -> encode_get_alert_status_req(e)
      [] fn = "decode_get_alert_status_resp" -> decode_get_alert_status_resp(e)
      [] fn = "decode_get_alert_status_req" -> decode_get_alert_status_req(e)
      [] fn = "encode_get_alert_status_resp" -> encode_get_alert_status_resp(e)
      [] fn = "encode_bios_attribute_update_event_req" ->
             encode_bios_attribute_update_event_req(e)
      [] fn = "decode_oem_meta_file_io_write_req" ->
             decode_oem_meta_file_io_write_req(e)
      [] fn = "decode_oem_meta_file_io_req" -> decode_oem_meta_file_io_req(e)
      [] fn = "decode_oem_meta_file_io_read_req" ->
             decode_oem_meta_file_io_read_req(e)
      [] fn = "encode_oem_meta_file_io_read_resp" ->
             encode_oem_meta_file_io_read_resp(e)
      [] fn = "encode_get_oem_energy_count_sensor_reading_req" ->
             encode_get_oem_energy_count_sensor_reading_req(e)
      [] fn = "decode_get_oem_energy_count_sensor_reading_resp" ->
             decode_get_oem_energy_count_sensor_reading_resp(e)
      [] fn = "read_file_response" -> ReadFileResponse(e)
      [] fn = "write_file_request" -> WriteFileRequest(e)
      [] fn = "meta_write_request" -> MetaWriteRequest(e)
      [] fn = "meta_read_request" -> MetaReadRequest(e)

Oem(enc, dec, args, req) == Message("oem", enc, dec, args, {}, req)

OemMessages ==
    {Oem("encode_rw_file_memory_req", "decode_rw_file_memory_req",
         pldm_read_write_file_memory_req, ""),
     Oem("encode_rw_file_memory_resp", "decode_rw_file_memory_resp",
         pldm_read_write_file_memory_resp, "encode_rw_file_memory_req"),
     Oem("encode_get_file_table_req", "decode_get_file_table_req",
         pldm_get_file_table_req, ""),
     Oem("encode_get_file_table_resp", "decode_get_file_table_resp",
         pldm_get_file_table_resp, "encode_get_file_table_req"),
     Oem("encode_read_file_req", "decode_read_file_req", pldm_read_file_req,
         ""),
     Oem("read_file_response", "decode_read_file_resp", pldm_read_file_resp,
         "encode_read_file_req"),
     Oem("write_file_request", "decode_write_file_req", pldm_write_file_req,
         ""),
     Oem("encode_write_file_resp", "decode_write_file_resp",
         pldm_write_file_resp, "write_file_request"),
     Oem("encode_rw_file_by_type_memory_req",
         "decode_rw_file_by_type_memory_req",
         pldm_read_write_file_by_type_memory_req, ""),
     Oem("encode_rw_file_by_type_memory_resp",
         "decode_rw_file_by_type_memory_resp",
         pldm_read_write_file_by_type_memory_resp,
         "encode_rw_file_by_type_memory_req"),
     Oem("encode_new_file_req", "decode_new_file_req", pldm_new_file_req, ""),
     Oem("encode_new_file_resp", "decode_new_file_resp", pldm_new_file_resp,
         "encode_new_file_req"),
     Oem("encode_rw_file_by_type_req", "decode_rw_file_by_type_req",
         pldm_read_write_file_by_type_req, ""),
     Oem("encode_rw_file_by_type_resp", "decode_rw_file_by_type_resp",
         pldm_read_write_file_by_type_resp, "encode_rw_file_by_type_req"),
     Oem("encode_file_ack_req", "decode_file_ack_req", pldm_file_ack_req, ""),
     Oem("encode_file_ack_resp", "decode_file_ack_resp", pldm_file_ack_resp,
         "encode_file_ack_req"),
     Oem("encode_file_ack_with_meta_data_req",
         "decode_file_ack_with_meta_data_req",
         pldm_file_ack_with_meta_data_req, ""),
     Oem("encode_file_ack_with_meta_data_resp",
         "decode_file_ack_with_meta_data_resp",
         pldm_file_ack_with_meta_data_resp,
         "encode_file_ack_with_meta_data_req"),
     Oem("encode_new_file_with_metadata_req",
         "decode_new_file_with_metadata_req",
         pldm_new_file_with_metadata_req, ""),
     Oem("encode_new_file_with_metadata_resp",
         "decode_new_file_with_metadata_resp",
         pldm_new_file_with_metadata_resp,
         "encode_new_file_with_metadata_req"),
     Oem("encode_get_alert_status_req", "decode_get_alert_status_req",
         pldm_get_alert_status_req, ""),
     Oem("encode_get_alert_status_resp", "decode_get_alert_status_resp",
         pldm_get_alert_status_resp, "encode_get_alert_status_req"),
     Oem("encode_bios_attribute_update_event_req", "",
         pldm_bios_attribute_update_event_req, ""),
     FromPeer("oem", "meta_write_request", "decode_oem_meta_file_io_write_req",
              pldm_oem_meta_file_io_write_req, {"req_length"}),
     FromPeer("oem", "meta_write_request", "decode_oem_meta_file_io_req",
              pldm_oem_meta_file_io_write_req, {}),
     FromPeer("oem", "meta_read_request", "decode_oem_meta_file_io_read_req",
              pldm_oem_meta_file_io_read_req, {"version"}),
     Oem("encode_oem_meta_file_io_read_resp", "",
         pldm_oem_meta_file_io_read_resp, ""),
     Oem("encode_get_oem_energy_count_sensor_reading_req", "",
         pldm_get_oem_energycount_sensor_reading_req, ""),
     FromPeer("oem", "decode_get_oem_energy_count_sensor_reading_resp",
              "decode_get_oem_energy_count_sensor_reading_resp",
              pldm_get_oem_energycount_sensor_reading_resp,
              {"present_size"})}

=============================================================================
