---------------------------- MODULE PlatformRecords ----------------------------
(***************************************************************************)
(* The platform descriptor records (PDRs) and the event data that messages *)
(* of PLDM for Platform Monitoring and Control carry, and the functions of *)
(* src/src/dsp/platform.c and src/src/dsp/pdr.c that encode and decode     *)
(* them.                                                                   *)
(***************************************************************************)
EXTENDS PlatformCodecs

PLDM_STATE_SENSOR_PDR == 4
PLDM_STATE_EFFECTER_PDR == 11
PLDM_SENSOR_OP_STATE == 0
PLDM_STATE_SENSOR_STATE == 1
PLDM_NUMERIC_SENSOR_STATE == 2
PLDM_RANGE_FIELD_FORMAT_MAX == 8
REFRESH_ENTIRE_REPOSITORY == 0
PLDM_PLATFORM_CPER_EVENT_WITH_HEADER == 0
PLDM_PLATFORM_CPER_EVENT_WITHOUT_HEADER == 1
PLDM_FILE_PDR_FILE_NAME_MAX_LENGTH == 255

\* The width of a range field, by its format: the integers as above, and a
\* 4 byte real.
RangeBytes(format) ==
    IF format \in 0..8 THEN <<1, 1, 2, 2, 4, 4, 4, 8, 8>>[format + 1] ELSE 0

\* sizeof(struct pldm_msgbuf_ro), which the check of a record's length adds to
\* it.
SizeofMsgbuf == 16

\* pldm_msgbuf_extract_value_pdr_hdr
PdrHdr(e, lower, upper) ==
    <<U32("record_handle"), U8("version"), U8("type"),
      U16("record_change_num"), Checked("length", 2),
      Fail(e.length + SizeofMsgbuf < lower, "RECORD_LENGTH"),
      Fail(e.length > upper, "RECORD_LENGTH")>>

(***************************************************************************)
(* The structures, with the values their fields are given.                 *)
(***************************************************************************)
pldm_state_effecter_pdr ==
    [record_handle : {11}, version : {1}, type : {PLDM_STATE_EFFECTER_PDR},
     record_change_num : {12}, length : {0}, terminus_handle : {13},
     effecter_id : {14}, entity_type : {15}, entity_instance : {16},
     container_id : {17}, effecter_semantic_id : {18}, effecter_init : {19},
     has_description_pdr : {20}, composite_effecter_count : {1, 2},
     state_set_id : {21}, states_size : {1, 3}, states : {22},
     possible_states_size : {3, 4, 8, SIZE_MAX}]
pldm_state_sensor_pdr ==
    [record_handle : {11}, version : {1}, type : {PLDM_STATE_SENSOR_PDR},
     record_change_num : {12}, length : {0}, terminus_handle : {13},
     sensor_id : {14}, entity_type : {15}, entity_instance : {16},
     container_id : {17}, sensor_init : {19},
     sensor_auxiliary_names_pdr : {20}, composite_sensor_count : {1, 2},
     state_set_id : {21}, states_size : {1, 3}, states : {22},
     possible_states_size : {3, 4, 8, SIZE_MAX}]
pldm_sensor_event_data ==
    [sensor_id : {11}, sensor_event_class_type : 0..3,
     present_op_state : {12}, previous_op_state : {13}, sensor_offset : {14},
     event_state : {15}, previous_event_state : {16},
     sensor_data_size : {0, 3, 5, 6, 8}, present_reading : {17}]
pldm_state_sensor_event_data ==
    [sensor_id : {11}, sensor_event_class_type : {PLDM_STATE_SENSOR_STATE},
     sensor_offset : {14}, event_state : {15}, previous_event_state : {16},
     present_op_state : {0}, previous_op_state : {0}, sensor_data_size : {0},
     present_reading : {0}]
pldm_platform_cper_event ==
    [format_version : {11}, format_type : {0, 1, 2},
     event_data_length : {0, 2, 3}, event_data : {12},
     cper_event_length : {3, 6}, left : {0}]
pldm_smbios_event ==
    [format_version : {11}, event_data_length : {2}, event_data : {12},
     left : {2}]
pldm_pdr_repository_chg_event_data ==
    [event_data_format : {0, 1}, number_of_change_records : {0, 1, 2},
     event_data_operation : {11}, number_of_change_entries : {0, 1, 2},
     change_entry : {12}]
pldm_message_poll_event ==
    [format_version : {11}, event_id : {0, 12, 65535},
     data_transfer_handle : {13}]
pldm_numeric_sensor_value_pdr ==
    [record_handle : {11}, version : {12}, type : {13},
     record_change_num : {14}, length : {52, 59, 300}, terminus_handle : {15},
     sensor_id : {16}, entity_type : {17}, entity_instance_num : {18},
     container_id : {19}, sensor_init : {20},
     sensor_auxiliary_names_pdr : {21}, base_unit : {22}, unit_modifier : {23},
     rate_unit : {24}, base_oem_unit_handle : {25}, aux_unit : {26},
     aux_unit_modifier : {27}, aux_rate_unit : {28}, rel : {29},
     aux_oem_unit_handle : {30}, is_linear : {31},
     sensor_data_size : {0, 3, 4, 8}, resolution : {32}, offset : {33},
     accuracy : {34}, plus_tolerance : {35}, minus_tolerance : {36},
     hysteresis : {37}, supported_thresholds : {38},
     threshold_and_hysteresis_volatility : {39},
     state_transition_interval : {40}, update_interval : {41},
     max_readable : {42}, min_readable : {43},
     range_field_format : {0, 2, 6, 8, 9}, range_field_support : {44},
     nominal_value : {45}, normal_max : {46}, normal_min : {47},
     warning_high : {48}, warning_low : {49}, critical_high : {50},
     critical_low : {51}, fatal_high : {52}, fatal_low : {53}]
pldm_numeric_effecter_value_pdr ==
    [record_handle : {11}, version : {12}, type : {13},
     record_change_num : {14}, length : {46, 53, 300}, terminus_handle : {15},
     effecter_id : {16}, entity_type : {17}, entity_instance : {18},
     container_id : {19}, effecter_semantic_id : {20}, effecter_init : {21},
     effecter_auxiliary_names : {22}, base_unit : {23}, unit_modifier : {24},
     rate_unit : {25}, base_oem_unit_handle : {26}, aux_unit : {27},
     aux_unit_modifier : {28}, aux_rate_unit : {29},
     aux_oem_unit_handle : {30}, is_linear : {31},
     effecter_data_size : {0, 3, 4, 8}, resolution : {32}, offset : {33},
     accuracy : {34}, plus_tolerance : {35}, minus_tolerance : {36},
     state_transition_interval : {37}, transition_interval : {38},
     max_settable : {39}, min_settable : {40},
     range_field_format : {0, 2, 6, 8, 9}, range_field_support : {41},
     nominal_value : {42}, normal_max : {43}, normal_min : {44},
     rated_max : {45}, rated_min : {46}]
pldm_platform_file_descriptor_pdr ==
    [record_handle : {11}, version : {12}, type : {13},
     record_change_num : {14}, length : {28, 29, 33, 281, 282},
     terminus_handle : {15}, file_identifier : {16}, entity_type : {17},
     entity_instance_num : {18}, container_id : {19},
     superior_directory_file_identifier : {20}, file_classification : {21},
     oem_file_classification : {0, 22}, file_capabilities : {23},
     file_version : {24}, file_maximum_size : {25},
     file_maximum_file_descriptor_count : {26},
     file_name_length : {1, 2, 255, 256}, file_name : {27},
     oem_file_classification_name_length : {0, 1, 4},
     oem_file_classification_name : {28}]
pldm_redfish_resource_pdr ==
    [record_handle : {11}, version : {12}, type : {13},
     record_change_num : {14}, length : {0, 31, 300}, resource_id : {15},
     resource_flags : {16}, containing_resource_id : {17},
     proposed_containing_resource_length : {0, 2},
     proposed_containing_resource_name : {18}, sub_uri_length : {0, 3},
     sub_uri : {19}, additional_resource_id_count : {0, 2},
     additional_resource_id : {20}, additional_sub_uri_length : {1, 2},
     additional_sub_uri : {21}, schema_version : {22},
     schema_dict_length_bytes : {23}, schema_dict_signature : {24},
     schema_name_length : {0, 2}, schema_name : {25}, oem_count : {0, 2},
     oem_name_length : {1}, oem_name : {26}]
pldm_redfish_action_pdr ==
    [record_handle : {11}, version : {12}, type : {13},
     record_change_num : {14}, length : {0, 4, 300},
     action_pdr_index : {15}, related_resource_count : {0, 1, 2},
     related_resource_id : {16}, action_count : {0, 1, 2},
     action_name_length : {1, 2}, action_name : {17},
     action_path_length : {1, 3}, action_path : {18}]

(***************************************************************************)
(* State effecters and state sensors.  The caller has filled in the        *)
(* record, and the encoder completes it in place.                          *)
(***************************************************************************)
encode_state_effecter_pdr(e) ==
    LET fixed == 25
        size == fixed + e.possible_states_size
        calculated == e.composite_effecter_count * (3 + e.states_size)
    IN <<NonNull,
         Fail(SIZE_MAX - fixed < e.possible_states_size, "ERROR"),
         LengthAtLeast(size, "INVALID_LENGTH"),
         Fail(e.possible_states_size # calculated, "ERROR"),
         Set("length", size - 10),
         U32("record_handle"), U8("version"), U8("type"),
         U16("record_change_num"), U16("length"), U16("terminus_handle"),
         U16("effecter_id"), U16("entity_type"), U16("entity_instance"),
         U16("container_id"), U16("effecter_semantic_id"),
         U8("effecter_init"), U8("has_description_pdr"),
         U8("composite_effecter_count")>> \o
       Each(e.composite_effecter_count,
            <<U16("state_set_id"), U8("states_size"),
              Field("states", e.states_size)>>)

encode_state_sensor_pdr(e) ==
    LET fixed == 23
        size == fixed + e.possible_states_size
        calculated == e.composite_sensor_count * (3 + e.states_size)
    IN <<NonNull,
         Fail(SIZE_MAX - fixed < e.possible_states_size, "ERROR"),
         LengthAtLeast(size, "INVALID_LENGTH"),
         Fail(e.possible_states_size # calculated, "ERROR"),
         Set("length", size - 10),
         U32("record_handle"), U8("version"), U8("type"),
         U16("record_change_num"), U16("length"), U16("terminus_handle"),
         U16("sensor_id"), U16("entity_type"), U16("entity_instance"),
         U16("container_id"), U8("sensor_init"),
         U8("sensor_auxiliary_names_pdr"), U8("composite_sensor_count")>> \o
       Each(e.composite_sensor_count,
            <<U16("state_set_id"), U8("states_size"),
              Field("states", e.states_size)>>)

decode_pldm_state_effecter_pdr(e) ==
    <<Init(26), U32("record_handle"), U8("version"), U8("type"),
      U16("record_change_num"), U16("length"), U16("terminus_handle"),
      U16("effecter_id"), U16("entity_type"), U16("entity_instance"),
      U16("container_id"), U16("effecter_semantic_id"), U8("effecter_init"),
      U8("has_description_pdr"), U8("composite_effecter_count"),
      CompleteThen>>

decode_pldm_state_sensor_pdr(e) ==
    <<Init(24), U32("record_handle"), U8("version"), U8("type"),
      U16("record_change_num"), U16("length"), U16("terminus_handle"),
      U16("sensor_id"), U16("entity_type"), U16("entity_instance"),
      U16("container_id"), U8("sensor_init"),
      U8("sensor_auxiliary_names_pdr"), U8("composite_sensor_count"),
      CompleteThen>>

pldm_platform_state_effecter_pdr_iter_init(e) ==
    <<NonNull, LengthAtLeast(26, "EOVERFLOW")>>

decode_pldm_platform_state_effecter_pdr_from_iter(e) ==
    <<NonNull, Sub(0), U16("state_set_id"), Checked("states_size", 1)>>

\* The states of one entry, a byte each, within the entry's own bytes.
decode_pldm_platform_state_effecter_pdr_possible_states_from_iter(e) ==
    <<Bytes("states", e.states_size), SpanRemainingThen>>

\* A record as pldm_pdr_delete_by_effecter_id reads it, and its possible
\* states as foreach_pldm_platform_state_effecter_pdr_possible_states does.
StateEffecterPdr(e) ==
    pldm_platform_state_effecter_pdr_iter_init(e) \o
    decode_pldm_state_effecter_pdr(e) \o
    Each(e.composite_effecter_count,
         decode_pldm_platform_state_effecter_pdr_from_iter(e) \o
         decode_pldm_platform_state_effecter_pdr_possible_states_from_iter(e))

(***************************************************************************)
(* Numeric sensors and effecters.                                          *)
(***************************************************************************)
decode_numeric_sensor_pdr_data(e) ==
    LET Value(f) == Field(f, ValueBytes(e.sensor_data_size))
        Range_(f) == Field(f, RangeBytes(e.range_field_format))
    IN <<NonNull, Init(69)>> \o PdrHdr(e, 69, e.payload_length) \o
       <<U16("terminus_handle"), U16("sensor_id"), U16("entity_type"),
         U16("entity_instance_num"), U16("container_id"), U8("sensor_init"),
         U8("sensor_auxiliary_names_pdr"), U8("base_unit"),
         U8("unit_modifier"), U8("rate_unit"), U8("base_oem_unit_handle"),
         U8("aux_unit"), U8("aux_unit_modifier"), U8("aux_rate_unit"),
         U8("rel"), U8("aux_oem_unit_handle"), U8("is_linear"),
         Checked("sensor_data_size", 1),
         Fail(e.sensor_data_size > PLDM_SENSOR_DATA_SIZE_MAX, "INVALID_DATA"),
         U32("resolution"), U32("offset"), U16("accuracy"),
         U8("plus_tolerance"), U8("minus_tolerance"), Value("hysteresis"),
         U8("supported_thresholds"),
         U8("threshold_and_hysteresis_volatility"),
         U32("state_transition_interval"), U32("update_interval"),
         Value("max_readable"), Value("min_readable"),
         Checked("range_field_format", 1),
         Fail(e.range_field_format > PLDM_RANGE_FIELD_FORMAT_MAX,
              "INVALID_DATA"),
         U8("range_field_support"), Range_("nominal_value"),
         Range_("normal_max"), Range_("normal_min"), Range_("warning_high"),
         Range_("warning_low"), Range_("critical_high"),
         Range_("critical_low"), Range_("fatal_high"), Range_("fatal_low"),
         Complete>>

decode_numeric_effecter_pdr_data(e) ==
    LET Value(f) == Field(f, ValueBytes(e.effecter_data_size))
        Range_(f) == Field(f, RangeBytes(e.range_field_format))
    IN <<NonNull, Init(63)>> \o PdrHdr(e, 63, e.payload_length) \o
       <<U16("terminus_handle"), U16("effecter_id"), U16("entity_type"),
         U16("entity_instance"), U16("container_id"),
         U16("effecter_semantic_id"), U8("effecter_init"),
         U8("effecter_auxiliary_names"), U8("base_unit"),
         U8("unit_modifier"), U8("rate_unit"), U8("base_oem_unit_handle"),
         U8("aux_unit"), U8("aux_unit_modifier"), U8("aux_rate_unit"),
         U8("aux_oem_unit_handle"), U8("is_linear"),
         Checked("effecter_data_size", 1),
         Fail(e.effecter_data_size > PLDM_EFFECTER_DATA_SIZE_MAX,
              "INVALID_DATA"),
         U32("resolution"), U32("offset"), U16("accuracy"),
         U8("plus_tolerance"), U8("minus_tolerance"),
         U32("state_transition_interval"), U32("transition_interval"),
         Value("max_settable"), Value("min_settable"),
         Checked("range_field_format", 1),
         Fail(e.range_field_format > PLDM_RANGE_FIELD_FORMAT_MAX,
              "INVALID_DATA"),
         U8("range_field_support"), Range_("nominal_value"),
         Range_("normal_max"), Range_("normal_min"), Range_("rated_max"),
         Range_("rated_min"), CompleteConsumed>>

(***************************************************************************)
(* Sensor events.  The data of a class follows 3 bytes that all have.      *)
(***************************************************************************)
encode_sensor_event_data(e) ==
    <<Return(e.null), LengthAtLeast(6, "INVALID_LENGTH"), U16("sensor_id"),
      U8("sensor_event_class_type"), U8("sensor_offset"), U8("event_state"),
      U8("previous_event_state")>>

decode_sensor_event_data(e) ==
    <<NonNull, Init(5), LengthAtLeast(3, "INVALID_LENGTH"), U16("sensor_id"),
      Checked("sensor_event_class_type", 1)>> \o
    (CASE e.sensor_event_class_type = PLDM_SENSOR_OP_STATE ->
              <<LengthIs(3 + 2, "INVALID_LENGTH")>>
       [] e.sensor_event_class_type = PLDM_STATE_SENSOR_STATE ->
              <<LengthIs(3 + 3, "INVALID_LENGTH")>>
       [] e.sensor_event_class_type = PLDM_NUMERIC_SENSOR_STATE ->
              <<LengthAtLeast(3 + 4, "INVALID_LENGTH"),
                LengthAtMost(3 + 11, "INVALID_LENGTH")>>
       [] OTHER -> <<Fail(TRUE, "INVALID_DATA")>>) \o
    <<CompleteThen>>

decode_sensor_op_data(e) ==
    <<Sub(2), U8("present_op_state"), U8("previous_op_state"),
      CompleteConsumed>>

decode_state_sensor_data(e) ==
    <<Sub(3), U8("sensor_offset"), U8("event_state"),
      U8("previous_event_state"), CompleteConsumed>>

\* The reading is narrowed to 32 bits.
decode_numeric_sensor_data(e) ==
    <<LengthAtMost(3 + 11, "INVALID_LENGTH"), Sub(4), U8("event_state"),
      U8("previous_event_state"), Checked("sensor_data_size", 1),
      Fail(e.sensor_data_size \notin 0..7, "INVALID_DATA"),
      Field("present_reading", ValueBytes(e.sensor_data_size)),
      CompleteConsumed>>

decode_numeric_sensor_event_data(e) ==
    <<LengthAtMost(3 + 11, "INVALID_LENGTH"), Sub(4), U8("event_state"),
      U8("previous_event_state"), Checked("sensor_data_size", 1),
      Fail(e.sensor_data_size \notin 0..7, "INVALID_DATA"),
      Checked("present_reading", ValueBytes(e.sensor_data_size)),
      CompleteConsumed>>

\* An event is decoded in two calls, the second by what the first has found.
SensorEvent(e, Numeric) ==
    decode_sensor_event_data(e) \o
    (CASE e.sensor_event_class_type = PLDM_SENSOR_OP_STATE ->
              decode_sensor_op_data(e)
       [] e.sensor_event_class_type = PLDM_STATE_SENSOR_STATE ->
              decode_state_sensor_data(e)
       [] OTHER -> Numeric)

(***************************************************************************)
(* Other events.                                                           *)
(***************************************************************************)
\* The code hands on a pointer to what follows, whatever its length.
decode_pldm_cper_event_data(e) ==
    <<NonNull, LengthAtLeast(4, "INVALID_LENGTH"), U8("format_version"),
      U8("format_type"), U16("event_data_length"), Rest("event_data", "left")>>

decode_pldm_platform_cper_event(e) ==
    <<NonNull, Fail(e.cper_event_length < 4, "EINVAL"), Init(4),
      U8("format_version"), Checked("format_type", 1),
      Fail(e.format_type \notin {PLDM_PLATFORM_CPER_EVENT_WITH_HEADER,
                                 PLDM_PLATFORM_CPER_EVENT_WITHOUT_HEADER},
           "EPROTO"),
      Checked("event_data_length", 2),
      Fail(e.event_data_length > e.cper_event_length - 4, "CAPACITY"),
      Array("event_data", e.event_data_length, e.cper_event_length - 4),
      CompleteConsumed>>

decode_pldm_smbios_event_data(e) ==
    <<NonNull, LengthAtLeast(4, "INVALID_LENGTH"), U8("format_version"),
      U16("event_data_length"), Rest("event_data", "left")>>

encode_pldm_pdr_repository_chg_event_data(e) ==
    LET expected == 2 + e.number_of_change_records *
                            (2 + 4 * e.number_of_change_entries)
    IN <<Return(e.null), LengthAtLeast(expected, "INVALID_LENGTH"),
         U8("event_data_format"), U8("number_of_change_records")>> \o
       Each(e.number_of_change_records,
            <<U8("event_data_operation"), U8("number_of_change_entries"),
              Field("change_entry", 4 * e.number_of_change_entries)>>)

decode_pldm_pdr_repository_chg_event_data(e) ==
    <<NonNull, Init(2), U8("event_data_format"),
      Checked("number_of_change_records", 1),
      Fail(/\ e.event_data_format = REFRESH_ENTIRE_REPOSITORY
           /\ e.number_of_change_records # 0, "INVALID_DATA"),
      Need(2 * e.number_of_change_records), CompleteThen>>

decode_pldm_pdr_repository_change_record_data(e) ==
    <<Sub(2), U8("event_data_operation"),
      Checked("number_of_change_entries", 1),
      Need(4 * e.number_of_change_entries), CompleteThen>>

\* The caller walks the records, and takes the entries of each.
ChangeEvent(e) ==
    decode_pldm_pdr_repository_chg_event_data(e) \o
    Each(e.number_of_change_records,
         decode_pldm_pdr_repository_change_record_data(e) \o
         <<Field("change_entry", 4 * e.number_of_change_entries)>>)

decode_pldm_message_poll_event_data(e) ==
    <<NonNull, Init(7), U8("format_version"), Checked("event_id", 2),
      Fail(NoEvent(e.event_id), "EPROTO"), U32("data_transfer_handle"),
      CompleteConsumed>>

encode_pldm_message_poll_event_data(e) ==
    <<NonNull, Fail(NoEvent(e.event_id), "EPROTO"), Init(7),
      U8("format_version"), U16("event_id"), U32("data_transfer_handle"),
      CompleteConsumed>>

(***************************************************************************)
(* File descriptors.                                                       *)
(***************************************************************************)
decode_pldm_platform_file_descriptor_pdr(e) ==
    <<NonNull, Init(36)>> \o PdrHdr(e, 36, e.payload_length) \o
    <<U16("terminus_handle"), U16("file_identifier"), U16("entity_type"),
      U16("entity_instance_num"), U16("container_id"),
      U16("superior_directory_file_identifier"), U8("file_classification"),
      U8("oem_file_classification"), U16("file_capabilities"),
      Field("file_version", 4), U32("file_maximum_size"),
      U8("file_maximum_file_descriptor_count"),
      Checked("file_name_length", 1),
      Field("file_name", e.file_name_length)>> \o
    When(e.oem_file_classification # 0,
         <<Checked("oem_file_classification_name_length", 1),
           Field("oem_file_classification_name",
                 e.oem_file_classification_name_length)>>) \o
    <<CompleteConsumed>>

encode_pldm_platform_file_descriptor_pdr(e) ==
    LET oem == e.oem_file_classification_name_length
        named == oem > 1
        pdr_len == 36 + e.file_name_length + (IF named THEN oem + 1 ELSE 0)
    IN <<NonNull, Fail(e.file_name_length <= 1, "EINVAL"),
         Fail(e.file_name_length > PLDM_FILE_PDR_FILE_NAME_MAX_LENGTH,
              "EINVAL"),
         Fail(oem > PLDM_FILE_PDR_FILE_NAME_MAX_LENGTH, "EINVAL"),
         Fail(e.length # pdr_len - 10, "EINVAL"),
         Init(pdr_len), U32("record_handle"), U8("version"), U8("type"),
         U16("record_change_num"), U16("length"), U16("terminus_handle"),
         U16("file_identifier"), U16("entity_type"),
         U16("entity_instance_num"), U16("container_id"),
         U16("superior_directory_file_identifier"),
         U8("file_classification"), U8("oem_file_classification"),
         U16("file_capabilities"), Bytes("file_version", 4),
         U32("file_maximum_size"), U8("file_maximum_file_descriptor_count"),
         U8("file_name_length"), Bytes("file_name", e.file_name_length)>> \o
       When(named, <<U8("oem_file_classification_name_length"),
                     Bytes("oem_file_classification_name", oem)>>) \o
       <<CompleteUsed>>

(***************************************************************************)
(* Redfish resources and actions.  A record is decoded once, which passes  *)
(* over its variable parts, and an iterator then goes through each part.   *)
(***************************************************************************)
decode_pldm_platform_redfish_resource_pdr(e) ==
    <<NonNull, Init(41)>> \o PdrHdr(e, 41, e.payload_length) \o
    <<U32("resource_id"), U8("resource_flags"),
      U32("containing_resource_id"),
      Checked("proposed_containing_resource_length", 2),
      Field("proposed_containing_resource_name",
            e.proposed_containing_resource_length),
      Checked("sub_uri_length", 2), Field("sub_uri", e.sub_uri_length),
      Checked("additional_resource_id_count", 2)>> \o
    Each(e.additional_resource_id_count,
         <<U32("additional_resource_id"),
           Checked("additional_sub_uri_length", 2),
           Field("additional_sub_uri", e.additional_sub_uri_length)>>) \o
    <<CompleteThen, Field("schema_version", 4),
      U16("schema_dict_length_bytes"), U32("schema_dict_signature"),
      Checked("schema_name_length", 1),
      Field("schema_name", e.schema_name_length),
      Checked("oem_count", 2)>> \o
    Each(e.oem_count,
         <<Checked("oem_name_length", 2),
           Field("oem_name", e.oem_name_length)>>) \o
    <<CompleteThen, CompleteConsumed>>

decode_pldm_platform_redfish_resource_pdr_additional_resource_from_iter(e) ==
    <<NonNull, Sub(7), U32("additional_resource_id"),
      Checked("additional_sub_uri_length", 2),
      Field("additional_sub_uri", e.additional_sub_uri_length),
      SpanRemainingThen>>

decode_pldm_platform_redfish_resource_pdr_oem_name_from_iter(e) ==
    <<NonNull, Sub(3), Checked("oem_name_length", 2),
      Field("oem_name", e.oem_name_length), SpanRemainingThen>>

decode_pldm_platform_redfish_action_pdr(e) ==
    <<NonNull, Init(14)>> \o PdrHdr(e, 14, e.payload_length) \o
    <<U8("action_pdr_index"), Checked("related_resource_count", 2)>> \o
    Each(e.related_resource_count, <<U32("related_resource_id")>>) \o
    <<CompleteThen, Checked("action_count", 1)>> \o
    Each(e.action_count,
         <<Checked("action_name_length", 1),
           Field("action_name", e.action_name_length),
           Checked("action_path_length", 1),
           Field("action_path", e.action_path_length)>>) \o
    <<CompleteThen, CompleteConsumed>>

decode_pldm_platform_redfish_action_pdr_related_resource_id_from_iter(e) ==
    <<NonNull, Sub(4), U32("related_resource_id"), SpanRemainingThen>>

decode_pldm_platform_redfish_action_pdr_action_from_iter(e) ==
    <<NonNull, Sub(4), Checked("action_name_length", 1),
      Field("action_name", e.action_name_length),
      Checked("action_path_length", 1),
      Field("action_path", e.action_path_length), SpanRemainingThen>>

\* The additional resources and the OEM names, and the related resources and
\* the actions, as the foreach macros go through them.
RedfishAdditional(e) ==
    Each(e.additional_resource_id_count,
         decode_pldm_platform_redfish_resource_pdr_additional_resource_from_iter(e))
RedfishOemNames(e) ==
    Each(e.oem_count,
         decode_pldm_platform_redfish_resource_pdr_oem_name_from_iter(e))
RedfishRelated(e) ==
    Each(e.related_resource_count,
         decode_pldm_platform_redfish_action_pdr_related_resource_id_from_iter(e))
RedfishActions(e) ==
    Each(e.action_count,
         decode_pldm_platform_redfish_action_pdr_action_from_iter(e))

RecordsProgram(fn, e) ==
    CASE fn = "encode_state_effecter_pdr" -> encode_state_effecter_pdr(e)
      [] fn = "encode_state_sensor_pdr" -> encode_state_sensor_pdr(e)
      [] fn = "decode_pldm_state_effecter_pdr" -> decode_pldm_state_effecter_pdr(e)
      [] fn = "decode_pldm_state_sensor_pdr" -> decode_pldm_state_sensor_pdr(e)
      [] fn = "state_effecter_pdr" -> StateEffecterPdr(e)
      [] fn = "decode_numeric_sensor_pdr_data" -> decode_numeric_sensor_pdr_data(e)
      [] fn = "decode_numeric_effecter_pdr_data" ->
             decode_numeric_effecter_pdr_data(e)
      [] fn = "encode_sensor_event_data" -> encode_sensor_event_data(e)
      [] fn = "sensor_event" -> SensorEvent(e, decode_numeric_sensor_data(e))
      [] fn = "sensor_event_union" ->
             SensorEvent(e, decode_numeric_sensor_event_data(e))
      [] fn = "decode_pldm_cper_event_data" -> decode_pldm_cper_event_data(e)
      [] fn = "decode_pldm_platform_cper_event" ->
             decode_pldm_platform_cper_event(e)
      [] fn = "decode_pldm_smbios_event_data" -> decode_pldm_smbios_event_data(e)
      [] fn = "encode_pldm_pdr_repository_chg_event_data" ->
             encode_pldm_pdr_repository_chg_event_data(e)
      [] fn = "change_event" -> ChangeEvent(e)
      [] fn = "decode_pldm_message_poll_event_data" ->
             decode_pldm_message_poll_event_data(e)
      [] fn = "encode_pldm_message_poll_event_data" ->
             encode_pldm_message_poll_event_data(e)
      [] fn = "decode_pldm_platform_file_descriptor_pdr" ->
             decode_pldm_platform_file_descriptor_pdr(e)
      [] fn = "encode_pldm_platform_file_descriptor_pdr" ->
             encode_pldm_platform_file_descriptor_pdr(e)
      [] fn = "decode_pldm_platform_redfish_resource_pdr" ->
             decode_pldm_platform_redfish_resource_pdr(e)
      [] fn = "redfish_additional" -> RedfishAdditional(e)
      [] fn = "redfish_oem_names" -> RedfishOemNames(e)
      [] fn = "decode_pldm_platform_redfish_action_pdr" ->
             decode_pldm_platform_redfish_action_pdr(e)
      [] fn = "redfish_related" -> RedfishRelated(e)
      [] fn = "redfish_actions" -> RedfishActions(e)

Record(enc, dec, args) == Message("records", enc, dec, args, {}, "")
PeerRecord(layout, dec, args) == FromPeer("records", layout, dec, args, {})
PeerEntries(iter, args, count) ==
    FromPeer("records", iter, iter, args, {count})

RecordMessages ==
    {Record("encode_state_effecter_pdr", "state_effecter_pdr",
            pldm_state_effecter_pdr),
     Record("encode_state_sensor_pdr", "decode_pldm_state_sensor_pdr",
            pldm_state_sensor_pdr),
     PeerRecord("decode_numeric_sensor_pdr_data",
                "decode_numeric_sensor_pdr_data",
                pldm_numeric_sensor_value_pdr),
     PeerRecord("decode_numeric_effecter_pdr_data",
                "decode_numeric_effecter_pdr_data",
                pldm_numeric_effecter_value_pdr),
     Record("encode_sensor_event_data", "sensor_event",
            pldm_state_sensor_event_data),
     PeerRecord("sensor_event", "sensor_event_union", pldm_sensor_event_data),
     PeerRecord("sensor_event_union", "sensor_event", pldm_sensor_event_data),
     FromPeer("records", "decode_pldm_platform_cper_event",
              "decode_pldm_platform_cper_event",
              pldm_platform_cper_event, {"cper_event_length"}),
     FromPeer("records", "decode_pldm_platform_cper_event",
              "decode_pldm_cper_event_data",
              pldm_platform_cper_event, {"cper_event_length"}),
     PeerRecord("decode_pldm_smbios_event_data",
                "decode_pldm_smbios_event_data", pldm_smbios_event),
     Record("encode_pldm_pdr_repository_chg_event_data", "change_event",
            pldm_pdr_repository_chg_event_data),
     Record("encode_pldm_message_poll_event_data",
            "decode_pldm_message_poll_event_data", pldm_message_poll_event),
     Record("encode_pldm_platform_file_descriptor_pdr",
            "decode_pldm_platform_file_descriptor_pdr",
            pldm_platform_file_descriptor_pdr),
     PeerRecord("decode_pldm_platform_redfish_resource_pdr",
                "decode_pldm_platform_redfish_resource_pdr",
                pldm_redfish_resource_pdr),
     PeerEntries("redfish_additional", pldm_redfish_resource_pdr,
                 "additional_resource_id_count"),
     PeerEntries("redfish_oem_names", pldm_redfish_resource_pdr, "oem_count"),
     PeerRecord("decode_pldm_platform_redfish_action_pdr",
                "decode_pldm_platform_redfish_action_pdr",
                pldm_redfish_action_pdr),
     PeerEntries("redfish_related", pldm_redfish_action_pdr,
                 "related_resource_count"),
     PeerEntries("redfish_actions", pldm_redfish_action_pdr,
                 "action_count")}

=============================================================================
