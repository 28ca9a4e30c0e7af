------------------------- MODULE FirmwareUpdateCodecs -------------------------
(***************************************************************************)
(* The messages of PLDM for Firmware Update (src/src/dsp/firmware_update.c *)
(* without the package, whose header and records module PackageParser has).*)
(***************************************************************************)
EXTENDS CodecOps

PLDM_QUERY_DEVICE_IDENTIFIERS == 1
PLDM_GET_FIRMWARE_PARAMETERS == 2
PLDM_QUERY_DOWNSTREAM_DEVICES == 3
PLDM_QUERY_DOWNSTREAM_IDENTIFIERS == 4
PLDM_QUERY_DOWNSTREAM_FIRMWARE_PARAMETERS == 5
PLDM_REQUEST_UPDATE == 16
PLDM_PASS_COMPONENT_TABLE == 19
PLDM_UPDATE_COMPONENT == 20
PLDM_REQUEST_FIRMWARE_DATA == 21
PLDM_TRANSFER_COMPLETE == 22
PLDM_VERIFY_COMPLETE == 23
PLDM_APPLY_COMPLETE == 24
PLDM_ACTIVATE_FIRMWARE == 26
PLDM_GET_STATUS == 27
PLDM_CANCEL_UPDATE_COMPONENT == 28
PLDM_CANCEL_UPDATE == 29
PLDM_REQUEST_DOWNSTREAM_DEVICE_UPDATE == 32
PLDM_UPDATE_SECURITY_REVISION == 34

PLDM_STR_TYPE_UNKNOWN == 0
PLDM_STR_TYPE_UTF_16BE == 5
PLDM_FIRMWARE_MAX_STRING == 64
PLDM_FWUP_BASELINE_TRANSFER_SIZE == 32
PLDM_FWUP_MIN_OUTSTANDING_REQ == 1
PLDM_FWUP_DEVICE_DESCRIPTOR_MIN_LEN == 5
PLDM_FWUP_COMPONENT_RELEASE_DATA_LEN == 8
PLDM_FWUP_APPLY_SUCCESS_WITH_ACTIVATION_METHOD == 1
PLDM_FWUP_VENDOR_DEFINED == 65535
PLDM_DOWNSTREAM_DEVICE_WILL_SEND_GET_PACKAGE_DATA == 2
PLDM_FD_STATE_IDLE == 0
PLDM_FD_STATE_LEARN_COMPONENTS == 1
PLDM_FD_STATE_READY_XFER == 2
PLDM_FD_IDLE_LEARN_COMPONENTS_READ_XFER == 3
PLDM_FD_IDLE_SELF_CONTAINED_ACTIVATION_FAILURE == 4
PLDM_FWUP_MAX_PROGRESS_PERCENT == 101

\* 0xffffffff, as a number that fits.
PLDM_FWUP_INVALID_COMPONENT_COMPARISON_TIMESTAMP == 999999

(***************************************************************************)
(* The values that fields may have.                                        *)
(***************************************************************************)
is_string_type_valid(t) == t \in 1..PLDM_STR_TYPE_UTF_16BE

get_descriptor_type_length(t) ==
    CASE t \in {0, 256, 257, 258} -> 2
      [] t \in {1, 4, 260, 261, 265} -> 4
      [] t \in {2, 264} -> 16
      [] t \in {3, 5} -> 3
      [] t = 6 -> 8
      [] t = 259 -> 1
      [] t = 262 -> 40
      [] t = 263 -> 10
      [] OTHER -> 0

is_downstream_device_update_support_valid(v) == v \in {0, 1}
is_transfer_operation_flag_valid(v) ==
    v \in {PLDM_GET_NEXTPART, PLDM_GET_FIRSTPART}
is_comp_resp_valid(v) == v \in {0, 1}
is_comp_resp_code_valid(v) == v \in 0..11 \cup 208..239
is_comp_compatibility_resp_valid(v) == v \in {0, 1}
is_comp_compatibility_resp_code_valid(v) == v \in 0..11 \cup 208..239
is_self_contained_activation_req_valid(v) == v \in {0, 1}
is_state_valid(v) == v \in 0..6
is_aux_state_valid(v) == v \in 0..4
is_aux_state_status_valid(v) == v \in {0, 9, 10} \cup 112..239
is_reason_code_valid(v) == v \in 0..7 \cup 200..255
is_non_functioning_component_indication_valid(v) == v \in {0, 1}
is_transfer_flag_valid(v) ==
    v \in {PLDM_START, PLDM_MIDDLE, PLDM_END, PLDM_START_AND_END}

(***************************************************************************)
(* The structures, with the values their fields are given.                 *)
(***************************************************************************)
pldm_query_device_identifiers_resp ==
    [completion_code : {0, 1}, device_identifiers_len : {0},
     descriptor_count : {0, 1, 2}, descriptor_type : {1, 65535},
     descriptor_length : {0, 1, 4}, descriptor_data : {12}]
pldm_vendor_defined_descriptor_title_data ==
    [vendor_defined_descriptor_title_str_type : {0, 1, 5, 6},
     vendor_defined_descriptor_title_str_len : {0, 2},
     vendor_defined_descriptor_title_str : {11}, descriptor_data : {12},
     descriptor_data_length : {1, 2}]
pldm_component_image_information ==
    [comp_classification : {11}, comp_identifier : {12},
     comp_comparison_stamp :
         {13, PLDM_FWUP_INVALID_COMPONENT_COMPARISON_TIMESTAMP},
     comp_options : {0, 2}, requested_comp_activation_method : {14},
     comp_location_offset : {0, 15}, comp_size : {0, 16},
     comp_version_string_type : {0, 1}, comp_version_string_length : {0, 3},
     comp_version_string : {17}]
pldm_get_firmware_parameters_resp ==
    Near([completion_code |-> 0, comp_count |-> 2,
          active_comp_image_set_ver_str_type |-> 1,
          active_comp_image_set_ver_str_len |-> 3,
          pending_comp_image_set_ver_str_type |-> 5,
          pending_comp_image_set_ver_str_len |-> 4,
          comp_parameter_table_length |-> 2],
         [completion_code : {0, 1}, capabilities_during_update : {11},
          comp_count : {0, 2}, active_comp_image_set_ver_str_type : {0, 1},
          active_comp_image_set_ver_str_len : {0, 3},
          pending_comp_image_set_ver_str_type : {0, 5},
          pending_comp_image_set_ver_str_len : {0, 4},
          active_comp_image_set_ver_str : {12},
          pending_comp_image_set_ver_str : {13}, comp_parameter_table : {14},
          comp_parameter_table_length : {0, 2}])
pldm_component_parameter_entry ==
    [comp_classification : {11}, comp_identifier : {12},
     comp_classification_index : {13}, active_comp_comparison_stamp : {14},
     active_comp_ver_str_type : {15}, active_comp_ver_str_len : {0, 3},
     active_comp_release_date : {16}, pending_comp_comparison_stamp : {17},
     pending_comp_ver_str_type : {18}, pending_comp_ver_str_len : {0, 4},
     pending_comp_release_date : {19}, comp_activation_methods : {20},
     capabilities_during_update : {21}, active_comp_ver_str : {22},
     pending_comp_ver_str : {23}]
pldm_query_downstream_devices_resp ==
    [completion_code : {0, 1}, downstream_device_update_supported : {0, 1, 2},
     number_of_downstream_devices : {11},
     max_number_of_downstream_devices : {12}, capabilities : {13}]
pldm_query_downstream_identifiers_req ==
    [data_transfer_handle : {11}, transfer_operation_flag : {0, 1, 2}]
pldm_query_downstream_identifiers_resp ==
    [completion_code : {0, 1}, next_data_transfer_handle : {11},
     transfer_flag : {12}, downstream_devices_length : {0, 3},
     number_of_downstream_devices : {13}, downstream_devices : {14}]
pldm_downstream_device ==
    [downstream_device_index : {11}, downstream_descriptor_count : {0, 1, 2},
     descriptor_type : {12}, descriptor_length : {1, 3},
     descriptor_data : {13}, number_of_downstream_devices : {0, 1, 2}]
pldm_get_downstream_firmware_parameters_req ==
    [data_transfer_handle : {11}, transfer_operation_flag : {0, 1, 2}]
pldm_get_downstream_firmware_parameters_resp ==
    [completion_code : {0, 1}, next_data_transfer_handle : {11},
     transfer_flag : {12}, fdp_capabilities_during_update : {13},
     downstream_device_count : {0, 2}, entries : {14}, entries_length : {0, 3}]
pldm_downstream_device_parameters_entry ==
    [downstream_device_index : {11}, active_comp_comparison_stamp : {12},
     active_comp_ver_str_type : {13}, active_comp_ver_str_len : {0, 2},
     active_comp_release_date : {14}, pending_comp_comparison_stamp : {15},
     pending_comp_ver_str_type : {16}, pending_comp_ver_str_len : {0, 3},
     pending_comp_release_date : {17}, comp_activation_methods : {18},
     capabilities_during_update : {19}, active_comp_ver_str : {20},
     pending_comp_ver_str : {21}, downstream_device_count : {0, 1, 2}]
pldm_request_downstream_device_update_req ==
    [maximum_downstream_device_transfer_size : {31, 32},
     maximum_outstanding_transfer_requests : {0, 1},
     downstream_device_package_data_length : {11}]
pldm_request_downstream_device_update_resp ==
    [completion_code : {0, 1}, downstream_device_meta_data_length : {11},
     downstream_device_will_send_get_package_data : {0, 1, 2},
     get_package_data_maximum_transfer_size : {12}]
pldm_request_update_req ==
    Near([max_transfer_size |-> 32, max_outstanding_transfer_req
          |-> 1, comp_image_set_ver_str_type |-> 1,
          comp_image_set_ver_str_len |-> 64,
          comp_img_set_ver_str_length |-> 64],
         [max_transfer_size : {31, 32}, num_of_comp : {11},
          max_outstanding_transfer_req : {0, 1}, pkg_data_len : {12},
          comp_image_set_ver_str_type : {0, 1, 5},
          comp_image_set_ver_str_len : {0, 4, 64, 65},
          comp_img_set_ver_str_length : {4, 64, 65}, comp_img_set_ver_str : {13}])
pldm_request_update_resp ==
    [completion_code : {0, 1}, fd_meta_data_len : {11},
     fd_will_send_pkg_data : {12}]
pldm_pass_component_table_req ==
    [transfer_flag : {0, 1, 2, 4, 5}, comp_classification : {11},
     comp_identifier : {12}, comp_classification_index : {13},
     comp_comparison_stamp : {14}, comp_ver_str_type : {0, 1, 5},
     comp_ver_str_len : {0, 4, 65}, comp_ver_str_length : {4, 65},
     comp_ver_str : {15}]
pldm_pass_component_table_resp ==
    [completion_code : {0, 1}, comp_resp : {0, 1, 2},
     comp_resp_code : {0, 11, 12, 208, 240}]
pldm_update_component_req ==
    [comp_classification : {11}, comp_identifier : {12},
     comp_classification_index : {13}, comp_comparison_stamp : {14},
     comp_image_size : {0, 15}, update_option_flags : {16},
     comp_ver_str_type : {0, 1, 5}, comp_ver_str_len : {0, 4, 65},
     comp_ver_str_length : {4, 65}, comp_ver_str : {17}]
pldm_update_component_resp ==
    [completion_code : {0, 1}, comp_compatibility_resp : {0, 1, 2},
     comp_compatibility_resp_code : {0, 11, 12, 239, 240},
     update_option_flags_enabled : {13}, time_before_req_fw_data : {14}]
pldm_request_firmware_data_req == [offset : {11}, length : {31, 32}]
pldm_transfer_complete_req == [transfer_result : {11}]
pldm_verify_complete_req == [verify_result : {11}]
pldm_apply_complete_req ==
    [apply_result : {0, 1}, comp_activation_methods_modification : {0, 11}]
pldm_activate_firmware_req == [self_contained_activation_req : {0, 1, 2}]
pldm_activate_firmware_resp ==
    [completion_code : {0, 1}, estimated_time_activation : {11}]
pldm_get_status_resp ==
    Near([current_state |-> 0, previous_state |-> 0, aux_state |->
          3, aux_state_status |-> 0, progress_percent |-> 101,
          reason_code |-> 0],
         [completion_code : {0, 1}, current_state : {0, 1, 3, 6, 7},
          previous_state : {0, 7}, aux_state : {2, 3, 4, 5},
          aux_state_status : {0, 9, 11, 239, 240}, progress_percent : {101, 102},
          reason_code : {0, 7, 8, 200}, update_option_flags_enabled : {11}])
pldm_cancel_update_resp ==
    [completion_code : {0, 1}, non_functioning_component_indication : {0, 1, 2},
     non_functioning_component_bitmap : {11}]
pldm_fwup_update_security_revision_req ==
    [component_classification : {11}, component_identifier : {12},
     component_classification_index : {13}]
pldm_fwup_cc_resp == [completion_code : {0, 1}]

(***************************************************************************)
(* The functions: inventory.                                               *)
(***************************************************************************)
encode_query_device_identifiers_req(e) ==
    <<NonNull, LengthIs(0, "INVALID_LENGTH"),
      Request(PLDM_FWUP, PLDM_QUERY_DEVICE_IDENTIFIERS)>>

decode_query_device_identifiers_resp(e) ==
    <<NonNull, U8("completion_code"), Return(e.completion_code # PLDM_SUCCESS),
      LengthAtLeast(6, "INVALID_LENGTH"), U32("device_identifiers_len"),
      Fail(e.device_identifiers_len < PLDM_FWUP_DEVICE_DESCRIPTOR_MIN_LEN,
           "DEVICE_IDENTIFIERS_LEN"),
      LengthIs(6 + e.device_identifiers_len, "INVALID_LENGTH"),
      U8("descriptor_count"), Fail(e.descriptor_count = 0, "INVALID_DATA")>>

encode_query_device_identifiers_resp(e) ==
    <<NonNull, Fail(e.descriptor_count < 1, "EINVAL"),
      Response(PLDM_FWUP, PLDM_QUERY_DEVICE_IDENTIFIERS), Init(0),
      Set("device_identifiers_len",
          e.descriptor_count * (4 + e.descriptor_length)),
      Set("completion_code", PLDM_SUCCESS), U8("completion_code"),
      U32("device_identifiers_len"), U8("descriptor_count")>> \o
    Each(e.descriptor_count,
         <<U16("descriptor_type"), U16("descriptor_length"),
           Bytes("descriptor_data", e.descriptor_length)>>) \o
    <<CompleteUsed>>

\* decode_descriptor_type_length_value_errno is its body.
decode_descriptor_type_length_value(e) ==
    <<NonNull, Left(PLDM_FWUP_DEVICE_DESCRIPTOR_MIN_LEN),
      U16("descriptor_type"), U16("descriptor_length"),
      Fail(/\ e.descriptor_type # PLDM_FWUP_VENDOR_DEFINED
           /\ e.descriptor_length #
                  get_descriptor_type_length(e.descriptor_type),
           "DESCRIPTOR_LENGTH"),
      Left(e.descriptor_length), Field("descriptor_data", e.descriptor_length)>>

\* The identifiers of a device, as a caller goes through them.
DeviceIdentifiers(e) ==
    decode_query_device_identifiers_resp(e) \o
    Each(e.descriptor_count, decode_descriptor_type_length_value(e))

decode_vendor_defined_descriptor_value(e) ==
    <<NonNull, LengthAtLeast(3, "EOVERFLOW"),
      U8("vendor_defined_descriptor_title_str_type"),
      U8("vendor_defined_descriptor_title_str_len"),
      Fail(\/ ~is_string_type_valid(e.vendor_defined_descriptor_title_str_type)
           \/ e.vendor_defined_descriptor_title_str_len = 0, "TITLE"),
      LengthAtLeast(3 + e.vendor_defined_descriptor_title_str_len,
                    "EOVERFLOW"),
      Field("vendor_defined_descriptor_title_str",
            e.vendor_defined_descriptor_title_str_len),
      Rest("descriptor_data", "descriptor_data_length")>>

decode_pldm_comp_image_info(e) ==
    <<NonNull, LengthAtLeast(22, "EOVERFLOW"), U16("comp_classification"),
      U16("comp_identifier"), U32("comp_comparison_stamp"),
      U16("comp_options"), U16("requested_comp_activation_method"),
      U32("comp_location_offset"), U32("comp_size"),
      U8("comp_version_string_type"), U8("comp_version_string_length"),
      Fail(\/ ~is_string_type_valid(e.comp_version_string_type)
           \/ e.comp_version_string_length = 0, "VERSION_STRING"),
      LengthAtLeast(22 + e.comp_version_string_length, "EOVERFLOW"),
      Fail(/\ (e.comp_options \div 2) % 2 = 0
           /\ e.comp_comparison_stamp #
                  PLDM_FWUP_INVALID_COMPONENT_COMPARISON_TIMESTAMP, "STAMP"),
      Fail(e.comp_location_offset = 0 \/ e.comp_size = 0, "IMAGE"),
      Field("comp_version_string", e.comp_version_string_length)>>

encode_get_firmware_parameters_req(e) ==
    <<NonNull, LengthIs(0, "INVALID_LENGTH"),
      Request(PLDM_FWUP, PLDM_GET_FIRMWARE_PARAMETERS)>>

decode_get_firmware_parameters_resp(e) ==
    LET partial == 11 + e.active_comp_image_set_ver_str_len +
                        e.pending_comp_image_set_ver_str_len
    IN <<NonNull, LengthAtLeast(1, "INVALID_DATA"), U8("completion_code"),
         Return(e.completion_code # PLDM_SUCCESS),
         LengthAtLeast(11, "INVALID_LENGTH"),
         U32("capabilities_during_update"), U16("comp_count"),
         U8("active_comp_image_set_ver_str_type"),
         U8("active_comp_image_set_ver_str_len"),
         U8("pending_comp_image_set_ver_str_type"),
         U8("pending_comp_image_set_ver_str_len"),
         Fail(\/ ~is_string_type_valid(e.active_comp_image_set_ver_str_type)
              \/ e.active_comp_image_set_ver_str_len = 0, "INVALID_DATA"),
         Fail(IF e.pending_comp_image_set_ver_str_len = 0
              THEN e.pending_comp_image_set_ver_str_type #
                       PLDM_STR_TYPE_UNKNOWN
              ELSE ~is_string_type_valid(e.pending_comp_image_set_ver_str_type),
              "INVALID_DATA"),
         LengthAtLeast(partial, "INVALID_LENGTH"),
         Field("active_comp_image_set_ver_str",
               e.active_comp_image_set_ver_str_len),
         Field("pending_comp_image_set_ver_str",
               e.pending_comp_image_set_ver_str_len)>> \o
       When(e.payload_length > partial /\ e.comp_count # 0,
            <<Rest("comp_parameter_table", "comp_parameter_table_length")>>)

encode_get_firmware_parameters_resp(e) ==
    <<NonNull,
      Fail(\/ ~is_string_type_valid(e.active_comp_image_set_ver_str_type)
           \/ e.active_comp_image_set_ver_str_len = 0, "EINVAL"),
      Fail(IF e.pending_comp_image_set_ver_str_len = 0
           THEN e.pending_comp_image_set_ver_str_type # PLDM_STR_TYPE_UNKNOWN
           ELSE ~is_string_type_valid(e.pending_comp_image_set_ver_str_type),
           "EINVAL"),
      Response(PLDM_FWUP, PLDM_GET_FIRMWARE_PARAMETERS), Init(0),
      U8("completion_code"), U32("capabilities_during_update"),
      U16("comp_count"), U8("active_comp_image_set_ver_str_type"),
      U8("active_comp_image_set_ver_str_len"),
      U8("pending_comp_image_set_ver_str_type"),
      U8("pending_comp_image_set_ver_str_len"),
      Bytes("active_comp_image_set_ver_str",
            e.active_comp_image_set_ver_str_len),
      Bytes("pending_comp_image_set_ver_str",
            e.pending_comp_image_set_ver_str_len), CompleteUsed>>

encode_get_firmware_parameters_resp_comp_entry(e) ==
    <<NonNull, Init(0), U16("comp_classification"), U16("comp_identifier"),
      U8("comp_classification_index"), U32("active_comp_comparison_stamp"),
      U8("active_comp_ver_str_type"), U8("active_comp_ver_str_len"),
      Bytes("active_comp_release_date", PLDM_FWUP_COMPONENT_RELEASE_DATA_LEN),
      U32("pending_comp_comparison_stamp"), U8("pending_comp_ver_str_type"),
      U8("pending_comp_ver_str_len"),
      Bytes("pending_comp_release_date", PLDM_FWUP_COMPONENT_RELEASE_DATA_LEN),
      U16("comp_activation_methods"), U32("capabilities_during_update"),
      Bytes("active_comp_ver_str", e.active_comp_ver_str_len),
      Bytes("pending_comp_ver_str", e.pending_comp_ver_str_len),
      CompleteUsed>>

decode_get_firmware_parameters_resp_comp_entry(e) ==
    <<NonNull, LengthAtLeast(39, "INVALID_LENGTH"),
      U16("comp_classification"), U16("comp_identifier"),
      U8("comp_classification_index"), U32("active_comp_comparison_stamp"),
      U8("active_comp_ver_str_type"), U8("active_comp_ver_str_len"),
      Field("active_comp_release_date", 8),
      U32("pending_comp_comparison_stamp"), U8("pending_comp_ver_str_type"),
      U8("pending_comp_ver_str_len"), Field("pending_comp_release_date", 8),
      U16("comp_activation_methods"), U32("capabilities_during_update"),
      LengthAtLeast(39 + e.active_comp_ver_str_len +
                         e.pending_comp_ver_str_len, "INVALID_LENGTH"),
      Field("active_comp_ver_str", e.active_comp_ver_str_len),
      Field("pending_comp_ver_str", e.pending_comp_ver_str_len)>>

(***************************************************************************)
(* The functions: downstream devices.                                      *)
(***************************************************************************)
encode_query_downstream_devices_req(e) ==
    <<NonNull, Request(PLDM_FWUP, PLDM_QUERY_DOWNSTREAM_DEVICES)>>

decode_query_downstream_devices_resp(e) ==
    <<NonNull, LengthAtLeast(1, "EINVAL"), Init(1), Checked("completion_code", 1),
      Finish("complete", e.completion_code # PLDM_SUCCESS, TRUE),
      LengthAtLeast(10, "EBADMSG"),
      Checked("downstream_device_update_supported", 1),
      Fail(~is_downstream_device_update_support_valid(
                e.downstream_device_update_supported), "EINVAL"),
      U16("number_of_downstream_devices"),
      U16("max_number_of_downstream_devices"), U32("capabilities"),
      CompleteConsumed>>

encode_query_downstream_identifiers_req(e) ==
    <<NonNull, Fail(~is_transfer_operation_flag_valid(
                         e.transfer_operation_flag), "EINVAL"),
      Request(PLDM_FWUP, PLDM_QUERY_DOWNSTREAM_IDENTIFIERS), Init(5),
      U32("data_transfer_handle"), U8("transfer_operation_flag"), Complete>>

decode_query_downstream_identifiers_resp(e) ==
    <<NonNull, LengthAtLeast(1, "EINVAL"), Init(1), Checked("completion_code", 1),
      Finish("complete", e.completion_code # PLDM_SUCCESS, TRUE),
      LengthAtLeast(12, "EBADMSG"), U32("next_data_transfer_handle"),
      U8("transfer_flag"), Checked("downstream_devices_length", 4),
      U16("number_of_downstream_devices"),
      Field("downstream_devices", e.downstream_devices_length), Complete>>

decode_pldm_downstream_device_from_iter(e) ==
    <<NonNull, Sub(3), U16("downstream_device_index"),
      U8("downstream_descriptor_count"), SpanRemainingThen>>

decode_pldm_descriptor_from_iter(e) ==
    <<NonNull, Sub(PLDM_FWUP_DEVICE_DESCRIPTOR_MIN_LEN),
      U16("descriptor_type"), Checked("descriptor_length", 2),
      Field("descriptor_data", e.descriptor_length), SpanRemainingThen>>

\* The devices and their descriptors, as foreach_pldm_downstream_device and
\* foreach_pldm_downstream_device_descriptor go through them.
DownstreamDevices(e) ==
    Each(e.number_of_downstream_devices,
         decode_pldm_downstream_device_from_iter(e) \o
         Each(e.downstream_descriptor_count,
              decode_pldm_descriptor_from_iter(e)))

encode_get_downstream_firmware_parameters_req(e) ==
    <<NonNull, Fail(~is_transfer_operation_flag_valid(
                         e.transfer_operation_flag), "OPERATION_FLAG"),
      Request(PLDM_FWUP, PLDM_QUERY_DOWNSTREAM_FIRMWARE_PARAMETERS), Init(5),
      U32("data_transfer_handle"), U8("transfer_operation_flag"), Complete>>

decode_get_downstream_firmware_parameters_resp(e) ==
    <<NonNull, Init(1), Checked("completion_code", 1),
      Finish("complete", e.completion_code # PLDM_SUCCESS, TRUE),
      LengthAtLeast(12, "EBADMSG"), U32("next_data_transfer_handle"),
      U8("transfer_flag"), U32("fdp_capabilities_during_update"),
      U16("downstream_device_count"), Rest("entries", "entries_length"),
      Complete>>

decode_pldm_downstream_device_parameters_entry_from_iter(e) ==
    <<NonNull, Sub(36), U16("downstream_device_index"),
      U32("active_comp_comparison_stamp"), U8("active_comp_ver_str_type"),
      Checked("active_comp_ver_str_len", 1),
      Bytes("active_comp_release_date", PLDM_FWUP_COMPONENT_RELEASE_DATA_LEN),
      U32("pending_comp_comparison_stamp"), U8("pending_comp_ver_str_type"),
      Checked("pending_comp_ver_str_len", 1),
      Bytes("pending_comp_release_date", PLDM_FWUP_COMPONENT_RELEASE_DATA_LEN),
      U16("comp_activation_methods"), U32("capabilities_during_update"),
      Checked("active_comp_ver_str", e.active_comp_ver_str_len),
      Checked("pending_comp_ver_str", e.pending_comp_ver_str_len),
      SpanRemainingThen>>

\* foreach_pldm_downstream_device_parameters_entry
DownstreamParameters(e) ==
    Each(e.downstream_device_count,
         decode_pldm_downstream_device_parameters_entry_from_iter(e))

encode_request_downstream_device_update_req(e) ==
    <<NonNull,
      Fail(\/ e.maximum_downstream_device_transfer_size <
                  PLDM_FWUP_BASELINE_TRANSFER_SIZE
           \/ e.maximum_outstanding_transfer_requests <
                  PLDM_FWUP_MIN_OUTSTANDING_REQ, "EINVAL"),
      Request(PLDM_FWUP, PLDM_REQUEST_DOWNSTREAM_DEVICE_UPDATE), Init(7),
      U32("maximum_downstream_device_transfer_size"),
      U8("maximum_outstanding_transfer_requests"),
      U16("downstream_device_package_data_length"), CompleteUsed>>

decode_request_downstream_device_update_req(e) ==
    <<NonNull, Init(7), U32("maximum_downstream_device_transfer_size"),
      U8("maximum_outstanding_transfer_requests"),
      U16("downstream_device_package_data_length"), CompleteConsumed>>

encode_request_downstream_device_update_resp(e) ==
    <<NonNull, Response(PLDM_FWUP, PLDM_REQUEST_DOWNSTREAM_DEVICE_UPDATE),
      Init(4), U8("completion_code"),
      U16("downstream_device_meta_data_length"),
      U8("downstream_device_will_send_get_package_data")>> \o
    When(e.downstream_device_will_send_get_package_data =
             PLDM_DOWNSTREAM_DEVICE_WILL_SEND_GET_PACKAGE_DATA,
         <<U16("get_package_data_maximum_transfer_size")>>) \o
    <<CompleteUsed>>

decode_request_downstream_device_update_resp(e) ==
    <<NonNull, HasError, Init(4), U8("completion_code"),
      U16("downstream_device_meta_data_length"),
      U8("downstream_device_will_send_get_package_data")>> \o
    When(e.downstream_device_will_send_get_package_data =
             PLDM_DOWNSTREAM_DEVICE_WILL_SEND_GET_PACKAGE_DATA,
         <<U16("get_package_data_maximum_transfer_size")>>) \o
    <<CompleteConsumed>>

(***************************************************************************)
(* The functions: the update.                                              *)
(***************************************************************************)
encode_request_update_req(e) ==
    <<NonNull, LengthIs(11 + e.comp_img_set_ver_str_length, "INVALID_LENGTH"),
      Fail(\/ e.comp_image_set_ver_str_len = 0
           \/ e.comp_image_set_ver_str_len # e.comp_img_set_ver_str_length,
           "INVALID_DATA"),
      Fail(\/ e.max_transfer_size < PLDM_FWUP_BASELINE_TRANSFER_SIZE
           \/ e.max_outstanding_transfer_req < PLDM_FWUP_MIN_OUTSTANDING_REQ,
           "INVALID_DATA"),
      Fail(~is_string_type_valid(e.comp_image_set_ver_str_type),
           "INVALID_DATA"),
      Request(PLDM_FWUP, PLDM_REQUEST_UPDATE), U32("max_transfer_size"),
      U16("num_of_comp"), U8("max_outstanding_transfer_req"),
      U16("pkg_data_len"), U8("comp_image_set_ver_str_type"),
      U8("comp_image_set_ver_str_len"),
      Field("comp_img_set_ver_str", e.comp_img_set_ver_str_length)>>

decode_request_update_req(e) ==
    <<NonNull, Init(0), U32("max_transfer_size"), U16("num_of_comp"),
      U8("max_outstanding_transfer_req"), U16("pkg_data_len"),
      Checked("comp_image_set_ver_str_type", 1),
      Fail(e.comp_image_set_ver_str_type > PLDM_STR_TYPE_UTF_16BE,
           "STRING_TYPE"),
      U8("comp_image_set_ver_str_len"),
      Array("comp_img_set_ver_str", e.comp_image_set_ver_str_len,
            PLDM_FIRMWARE_MAX_STRING), CompleteConsumed>>

decode_request_update_resp(e) ==
    <<NonNull, LengthAtLeast(1, "INVALID_DATA"), U8("completion_code"),
      Return(e.completion_code # PLDM_SUCCESS),
      LengthIs(4, "INVALID_LENGTH"), U16("fd_meta_data_len"),
      U8("fd_will_send_pkg_data")>>

encode_request_update_resp(e) ==
    <<NonNull, Response(PLDM_FWUP, PLDM_REQUEST_UPDATE), Init(0),
      Set("completion_code", PLDM_SUCCESS), U8("completion_code"),
      U16("fd_meta_data_len"), U8("fd_will_send_pkg_data"), CompleteUsed>>

encode_pass_component_table_req(e) ==
    <<NonNull, LengthIs(12 + e.comp_ver_str_length, "INVALID_LENGTH"),
      Fail(\/ e.comp_ver_str_len = 0
           \/ e.comp_ver_str_len # e.comp_ver_str_length, "INVALID_DATA"),
      Fail(~is_transfer_flag_valid(e.transfer_flag),
           "INVALID_TRANSFER_OPERATION_FLAG"),
      Fail(~is_string_type_valid(e.comp_ver_str_type), "INVALID_DATA"),
      Request(PLDM_FWUP, PLDM_PASS_COMPONENT_TABLE), U8("transfer_flag"),
      U16("comp_classification"), U16("comp_identifier"),
      U8("comp_classification_index"), U32("comp_comparison_stamp"),
      U8("comp_ver_str_type"), U8("comp_ver_str_len"),
      Field("comp_ver_str", e.comp_ver_str_length)>>

decode_pass_component_table_req(e) ==
    <<NonNull, Init(0), U8("transfer_flag"), U16("comp_classification"),
      U16("comp_identifier"), U8("comp_classification_index"),
      U32("comp_comparison_stamp"), Checked("comp_ver_str_type", 1),
      Fail(e.comp_ver_str_type > PLDM_STR_TYPE_UTF_16BE, "STRING_TYPE"),
      Checked("comp_ver_str_len", 1),
      Array("comp_ver_str", e.comp_ver_str_len, PLDM_FIRMWARE_MAX_STRING),
      CompleteConsumed>>

decode_pass_component_table_resp(e) ==
    <<NonNull, LengthAtLeast(1, "INVALID_DATA"), U8("completion_code"),
      Return(e.completion_code # PLDM_SUCCESS),
      LengthIs(3, "INVALID_LENGTH"), U8("comp_resp"), U8("comp_resp_code"),
      Fail(~is_comp_resp_valid(e.comp_resp), "INVALID_DATA"),
      Fail(~is_comp_resp_code_valid(e.comp_resp_code), "INVALID_DATA")>>

encode_pass_component_table_resp(e) ==
    <<NonNull, Response(PLDM_FWUP, PLDM_PASS_COMPONENT_TABLE), Init(0),
      Set("completion_code", PLDM_SUCCESS), U8("completion_code"),
      U8("comp_resp"), U8("comp_resp_code"), CompleteUsed>>

encode_update_component_req(e) ==
    <<NonNull, LengthIs(19 + e.comp_ver_str_length, "INVALID_LENGTH"),
      Fail(e.comp_image_size = 0, "INVALID_DATA"),
      Fail(\/ e.comp_ver_str_len = 0
           \/ e.comp_ver_str_len # e.comp_ver_str_length, "INVALID_DATA"),
      Fail(~is_string_type_valid(e.comp_ver_str_type), "INVALID_DATA"),
      Request(PLDM_FWUP, PLDM_UPDATE_COMPONENT), U16("comp_classification"),
      U16("comp_identifier"), U8("comp_classification_index"),
      U32("comp_comparison_stamp"), U32("comp_image_size"),
      U32("update_option_flags"), U8("comp_ver_str_type"),
      U8("comp_ver_str_len"), Field("comp_ver_str", e.comp_ver_str_length)>>

decode_update_component_req(e) ==
    <<NonNull, Init(0), U16("comp_classification"), U16("comp_identifier"),
      U8("comp_classification_index"), U32("comp_comparison_stamp"),
      U32("comp_image_size"), U32("update_option_flags"),
      Checked("comp_ver_str_type", 1),
      Fail(e.comp_ver_str_type > PLDM_STR_TYPE_UTF_16BE, "STRING_TYPE"),
      Checked("comp_ver_str_len", 1),
      Array("comp_ver_str", e.comp_ver_str_len, PLDM_FIRMWARE_MAX_STRING),
      CompleteConsumed>>

decode_update_component_resp(e) ==
    <<NonNull, LengthAtLeast(1, "INVALID_DATA"), U8("completion_code"),
      Return(e.completion_code # PLDM_SUCCESS),
      LengthIs(9, "INVALID_LENGTH"), U8("comp_compatibility_resp"),
      U8("comp_compatibility_resp_code"),
      Fail(~is_comp_compatibility_resp_valid(e.comp_compatibility_resp),
           "INVALID_DATA"),
      Fail(~is_comp_compatibility_resp_code_valid(
                e.comp_compatibility_resp_code), "INVALID_DATA"),
      U32("update_option_flags_enabled"), U16("time_before_req_fw_data")>>

encode_update_component_resp(e) ==
    <<NonNull, Response(PLDM_FWUP, PLDM_UPDATE_COMPONENT), Init(0),
      Set("completion_code", PLDM_SUCCESS), U8("completion_code"),
      U8("comp_compatibility_resp"), U8("comp_compatibility_resp_code"),
      U32("update_option_flags_enabled"), U16("time_before_req_fw_data"),
      CompleteUsed>>

decode_request_firmware_data_req(e) ==
    <<NonNull, LengthIs(8, "INVALID_LENGTH"), U32("offset"), U32("length"),
      Fail(e.length < PLDM_FWUP_BASELINE_TRANSFER_SIZE,
           "INVALID_TRANSFER_LENGTH")>>

encode_request_firmware_data_req(e) ==
    <<NonNull, Request(PLDM_FWUP, PLDM_REQUEST_FIRMWARE_DATA), Init(0),
      U32("offset"), U32("length"), CompleteUsed>>

\* The caller puts the data after the completion code.
encode_request_firmware_data_resp(e) ==
    <<NonNull, LengthAtLeast(1, "INVALID_DATA"),
      Response(PLDM_FWUP, PLDM_REQUEST_FIRMWARE_DATA), U8("completion_code")>>

decode_transfer_complete_req(e) ==
    <<NonNull, LengthIs(1, "INVALID_LENGTH"), U8("transfer_result")>>

encode_transfer_complete_req(e) ==
    <<NonNull, Request(PLDM_FWUP, PLDM_TRANSFER_COMPLETE), Init(0),
      U8("transfer_result"), CompleteUsed>>

encode_transfer_complete_resp(e) ==
    <<NonNull, LengthIs(1, "INVALID_LENGTH"),
      Response(PLDM_FWUP, PLDM_TRANSFER_COMPLETE), U8("completion_code")>>

decode_verify_complete_req(e) ==
    <<NonNull, LengthIs(1, "INVALID_LENGTH"), U8("verify_result")>>

encode_verify_complete_req(e) ==
    <<NonNull, Request(PLDM_FWUP, PLDM_VERIFY_COMPLETE), Init(0),
      U8("verify_result"), CompleteUsed>>

encode_verify_complete_resp(e) ==
    <<NonNull, LengthIs(1, "INVALID_LENGTH"),
      Response(PLDM_FWUP, PLDM_VERIFY_COMPLETE), U8("completion_code")>>

decode_apply_complete_req(e) ==
    <<NonNull, LengthIs(3, "INVALID_LENGTH"), U8("apply_result"),
      U16("comp_activation_methods_modification"),
      Fail(/\ e.apply_result # PLDM_FWUP_APPLY_SUCCESS_WITH_ACTIVATION_METHOD
           /\ e.comp_activation_methods_modification # 0, "INVALID_DATA")>>

encode_apply_complete_req(e) ==
    <<NonNull, Request(PLDM_FWUP, PLDM_APPLY_COMPLETE), Init(0),
      U8("apply_result"), U16("comp_activation_methods_modification"),
      CompleteUsed>>

encode_apply_complete_resp(e) ==
    <<NonNull, LengthIs(1, "INVALID_LENGTH"),
      Response(PLDM_FWUP, PLDM_APPLY_COMPLETE), U8("completion_code")>>

decode_activate_firmware_req(e) ==
    <<NonNull, Init(0), U8("self_contained_activation_req"), CompleteConsumed>>

encode_activate_firmware_req(e) ==
    <<NonNull, LengthIs(1, "INVALID_LENGTH"),
      Fail(~is_self_contained_activation_req_valid(
                e.self_contained_activation_req), "INVALID_DATA"),
      Request(PLDM_FWUP, PLDM_ACTIVATE_FIRMWARE),
      U8("self_contained_activation_req")>>

decode_activate_firmware_resp(e) ==
    <<NonNull, LengthAtLeast(1, "INVALID_DATA"), U8("completion_code"),
      Return(e.completion_code # PLDM_SUCCESS),
      LengthIs(3, "INVALID_LENGTH"), U16("estimated_time_activation")>>

encode_activate_firmware_resp(e) ==
    <<NonNull, Response(PLDM_FWUP, PLDM_ACTIVATE_FIRMWARE), Init(0),
      Set("completion_code", PLDM_SUCCESS), U8("completion_code"),
      U16("estimated_time_activation"), CompleteUsed>>

encode_get_status_req(e) ==
    <<NonNull, LengthIs(0, "INVALID_LENGTH"),
      Request(PLDM_FWUP, PLDM_GET_STATUS)>>

decode_get_status_resp(e) ==
    <<NonNull, LengthAtLeast(1, "INVALID_DATA"), U8("completion_code"),
      Return(e.completion_code # PLDM_SUCCESS),
      LengthIs(11, "INVALID_LENGTH"), U8("current_state"),
      U8("previous_state"), U8("aux_state"), U8("aux_state_status"),
      U8("progress_percent"), U8("reason_code"),
      Fail(\/ ~is_state_valid(e.current_state)
           \/ ~is_state_valid(e.previous_state)
           \/ ~is_aux_state_valid(e.aux_state)
           \/ ~is_aux_state_status_valid(e.aux_state_status)
           \/ e.progress_percent > PLDM_FWUP_MAX_PROGRESS_PERCENT
           \/ ~is_reason_code_valid(e.reason_code), "INVALID_DATA"),
      Fail(/\ e.current_state = PLDM_FD_STATE_IDLE
           /\ e.aux_state \notin
                  {PLDM_FD_IDLE_LEARN_COMPONENTS_READ_XFER,
                   PLDM_FD_IDLE_SELF_CONTAINED_ACTIVATION_FAILURE},
           "INVALID_DATA"),
      Fail(/\ e.current_state \in {PLDM_FD_STATE_LEARN_COMPONENTS,
                                   PLDM_FD_STATE_READY_XFER}
           /\ e.aux_state # PLDM_FD_IDLE_LEARN_COMPONENTS_READ_XFER,
           "INVALID_DATA"),
      U32("update_option_flags_enabled")>>

encode_get_status_resp(e) ==
    <<NonNull, Fail(e.completion_code # PLDM_SUCCESS, "EINVAL"),
      Response(PLDM_FWUP, PLDM_GET_STATUS), Init(0), U8("completion_code"),
      U8("current_state"), U8("previous_state"), U8("aux_state"),
      U8("aux_state_status"), U8("progress_percent"), U8("reason_code"),
      U32("update_option_flags_enabled"), CompleteUsed>>

encode_cancel_update_component_req(e) ==
    <<NonNull, LengthIs(0, "INVALID_LENGTH"),
      Request(PLDM_FWUP, PLDM_CANCEL_UPDATE_COMPONENT)>>

decode_cancel_update_component_resp(e) ==
    <<NonNull, LengthIs(1, "INVALID_LENGTH"), U8("completion_code")>>

encode_cancel_update_req(e) ==
    <<NonNull, LengthIs(0, "INVALID_LENGTH"),
      Request(PLDM_FWUP, PLDM_CANCEL_UPDATE)>>

decode_cancel_update_resp(e) ==
    <<NonNull, LengthAtLeast(1, "INVALID_DATA"), U8("completion_code"),
      Return(e.completion_code # PLDM_SUCCESS),
      LengthIs(10, "INVALID_LENGTH"),
      U8("non_functioning_component_indication"),
      Fail(~is_non_functioning_component_indication_valid(
                e.non_functioning_component_indication), "INVALID_DATA")>> \o
    When(e.non_functioning_component_indication # 0,
         <<U64("non_functioning_component_bitmap")>>)

encode_cancel_update_resp(e) ==
    <<NonNull, Response(PLDM_FWUP, PLDM_CANCEL_UPDATE), Init(0),
      Set("completion_code", PLDM_SUCCESS), U8("completion_code"),
      U8("non_functioning_component_indication"),
      U64("non_functioning_component_bitmap"), CompleteUsed>>

encode_pldm_fwup_update_security_revision_req(e) ==
    <<NonNull, Request(PLDM_FWUP, PLDM_UPDATE_SECURITY_REVISION), Init(5),
      U16("component_classification"), U16("component_identifier"),
      U8("component_classification_index"), CompleteUsed>>

decode_pldm_fwup_update_security_revision_resp(e) ==
    <<NonNull, Init(1), U8("completion_code"), CompleteConsumed>>

FirmwareUpdateProgram(fn, e) ==
    CASE fn = "encode_query_device_identifiers_req" ->
             encode_query_device_identifiers_req(e)
      [] fn = "decode_query_device_identifiers_resp" ->
             decode_query_device_identifiers_resp(e)
      [] fn = "encode_query_device_identifiers_resp" ->
             encode_query_device_identifiers_resp(e)
      [] fn = "decode_descriptor_type_length_value" ->
             decode_descriptor_type_length_value(e)
      [] fn = "decode_vendor_defined_descriptor_value" ->
             decode_vendor_defined_descriptor_value(e)
      [] fn = "decode_pldm_comp_image_info" -> decode_pldm_comp_image_info(e)
      [] fn = "encode_get_firmware_parameters_req" ->
             encode_get_firmware_parameters_req(e)
      [] fn = "decode_get_firmware_parameters_resp" ->
             decode_get_firmware_parameters_resp(e)
      [] fn = "encode_get_firmware_parameters_resp" ->
             encode_get_firmware_parameters_resp(e)
      [] fn = "encode_get_firmware_parameters_resp_comp_entry" ->
             encode_get_firmware_parameters_resp_comp_entry(e)
      [] fn = "decode_get_firmware_parameters_resp_comp_entry" ->
             decode_get_firmware_parameters_resp_comp_entry(e)
      [] fn = "encode_query_downstream_devices_req" ->
             encode_query_downstream_devices_req(e)
      [] fn = "decode_query_downstream_devices_resp" ->
             decode_query_downstream_devices_resp(e)
      [] fn = "encode_query_downstream_identifiers_req" ->
             encode_query_downstream_identifiers_req(e)
      [] fn = "decode_query_downstream_identifiers_resp" ->
             decode_query_downstream_identifiers_resp(e)
      [] fn = "decode_pldm_downstream_device_from_iter" ->
             decode_pldm_downstream_device_from_iter(e)
      [] fn = "decode_pldm_descriptor_from_iter" ->
             decode_pldm_descriptor_from_iter(e)
      [] fn = "encode_get_downstream_firmware_parameters_req" ->
             encode_get_downstream_firmware_parameters_req(e)
      [] fn = "decode_get_downstream_firmware_parameters_resp" ->
             decode_get_downstream_firmware_parameters_resp(e)
      [] fn = "decode_pldm_downstream_device_parameters_entry_from_iter" ->
             decode_pldm_downstream_device_parameters_entry_from_iter(e)
      [] fn = "encode_request_downstream_device_update_req" ->
             encode_request_downstream_device_update_req(e)
      [] fn = "decode_request_downstream_device_update_req" ->
             decode_request_downstream_device_update_req(e)
      [] fn = "encode_request_downstream_device_update_resp" ->
             encode_request_downstream_device_update_resp(e)
      [] fn = "decode_request_downstream_device_update_resp" ->
             decode_request_downstream_device_update_resp(e)
      [] fn = "encode_request_update_req" -> encode_request_update_req(e)
      [] fn = "decode_request_update_req" -> decode_request_update_req(e)
      [] fn = "decode_request_update_resp" -> decode_request_update_resp(e)
      [] fn = "encode_request_update_resp" -> encode_request_update_resp(e)
      [] fn = "encode_pass_component_table_req" ->
             encode_pass_component_table_req(e)
      [] fn = "decode_pass_component_table_req" ->
             decode_pass_component_table_req(e)
      [] fn = "decode_pass_component_table_resp" ->
             decode_pass_component_table_resp(e)
      [] fn = "encode_pass_component_table_resp" ->
             encode_pass_component_table_resp(e)
      [] fn = "encode_update_component_req" -> encode_update_component_req(e)
      [] fn = "decode_update_component_req" -> decode_update_component_req(e)
      [] fn = "decode_update_component_resp" -> decode_update_component_resp(e)
      [] fn = "encode_update_component_resp" -> encode_update_component_resp(e)
      [] fn = "decode_request_firmware_data_req" ->
             decode_request_firmware_data_req(e)
      [] fn = "encode_request_firmware_data_req" ->
             encode_request_firmware_data_req(e)
      [] fn = "encode_request_firmware_data_resp" ->
             encode_request_firmware_data_resp(e)
      [] fn = "decode_transfer_complete_req" -> decode_transfer_complete_req(e)
      [] fn = "encode_transfer_complete_req" -> encode_transfer_complete_req(e)
      [] fn = "encode_transfer_complete_resp" ->
             encode_transfer_complete_resp(e)
      [] fn = "decode_verify_complete_req" -> decode_verify_complete_req(e)
      [] fn = "encode_verify_complete_req" -> encode_verify_complete_req(e)
      [] fn = "encode_verify_complete_resp" -> encode_verify_complete_resp(e)
      [] fn = "decode_apply_complete_req" -> decode_apply_complete_req(e)
      [] fn = "encode_apply_complete_req" -> encode_apply_complete_req(e)
      [] fn = "encode_apply_complete_resp" -> encode_apply_complete_resp(e)
      [] fn = "decode_activate_firmware_req" -> decode_activate_firmware_req(e)
      [] fn = "encode_activate_firmware_req" -> encode_activate_firmware_req(e)
      [] fn = "decode_activate_firmware_resp" ->
             decode_activate_firmware_resp(e)
      [] fn = "encode_activate_firmware_resp" ->
             encode_activate_firmware_resp(e)
      [] fn = "encode_get_status_req" -> encode_get_status_req(e)
      [] fn = "decode_get_status_resp" -> decode_get_status_resp(e)
      [] fn = "encode_get_status_resp" -> encode_get_status_resp(e)
      [] fn = "encode_cancel_update_component_req" ->
             encode_cancel_update_component_req(e)
      [] fn = "decode_cancel_update_component_resp" ->
             decode_cancel_update_component_resp(e)
      [] fn = "encode_cancel_update_req" -> encode_cancel_update_req(e)
      [] fn = "decode_cancel_update_resp" -> decode_cancel_update_resp(e)
      [] fn = "encode_cancel_update_resp" -> encode_cancel_update_resp(e)
      [] fn = "encode_pldm_fwup_update_security_revision_req" ->
             encode_pldm_fwup_update_security_revision_req(e)
      [] fn = "decode_pldm_fwup_update_security_revision_resp" ->
             decode_pldm_fwup_update_security_revision_resp(e)
      [] fn = "device_identifiers" -> DeviceIdentifiers(e)
      [] fn = "downstream_devices" -> DownstreamDevices(e)
      [] fn = "downstream_parameters" -> DownstreamParameters(e)

Fwup(enc, dec, args, req) == Message("fwup", enc, dec, args, {}, req)
FwupPeer(layout, args) == FromPeer("fwup", layout, layout, args, {})
FwupEntries(iter, args, count) == FromPeer("fwup", iter, iter, args, {count})

FirmwareUpdateMessages ==
    {Fwup("encode_query_device_identifiers_req", "", NoFields, ""),
     Fwup("encode_query_device_identifiers_resp", "device_identifiers",
          pldm_query_device_identifiers_resp,
          "encode_query_device_identifiers_req"),
     FwupPeer("decode_vendor_defined_descriptor_value",
              pldm_vendor_defined_descriptor_title_data),
     FwupPeer("decode_pldm_comp_image_info", pldm_component_image_information),
     Fwup("encode_get_firmware_parameters_req", "", NoFields, ""),
     Fwup("encode_get_firmware_parameters_resp",
          "decode_get_firmware_parameters_resp",
          pldm_get_firmware_parameters_resp,
          "encode_get_firmware_parameters_req"),
     FwupPeer("decode_get_firmware_parameters_resp",
              pldm_get_firmware_parameters_resp),
     Fwup("encode_get_firmware_parameters_resp_comp_entry",
          "decode_get_firmware_parameters_resp_comp_entry",
          pldm_component_parameter_entry, ""),
     Fwup("encode_query_downstream_devices_req", "", NoFields, ""),
     FwupPeer("decode_query_downstream_devices_resp",
              pldm_query_downstream_devices_resp),
     Fwup("encode_query_downstream_identifiers_req", "",
          pldm_query_downstream_identifiers_req, ""),
     FwupPeer("decode_query_downstream_identifiers_resp",
              pldm_query_downstream_identifiers_resp),
     FwupEntries("downstream_devices", pldm_downstream_device,
                 "number_of_downstream_devices"),
     Fwup("encode_get_downstream_firmware_parameters_req", "",
          pldm_get_downstream_firmware_parameters_req, ""),
     FwupPeer("decode_get_downstream_firmware_parameters_resp",
              pldm_get_downstream_firmware_parameters_resp),
     FwupEntries("downstream_parameters",
                 pldm_downstream_device_parameters_entry,
                 "downstream_device_count"),
     Fwup("encode_request_downstream_device_update_req",
          "decode_request_downstream_device_update_req",
          pldm_request_downstream_device_update_req, ""),
     Fwup("encode_request_downstream_device_update_resp",
          "decode_request_downstream_device_update_resp",
          pldm_request_downstream_device_update_resp,
          "encode_request_downstream_device_update_req"),
     Fwup("encode_request_update_req", "decode_request_update_req",
          pldm_request_update_req, ""),
     Fwup("encode_request_update_resp", "decode_request_update_resp",
          pldm_request_update_resp, "encode_request_update_req"),
     FwupPeer("decode_request_update_resp", pldm_request_update_resp),
     Fwup("encode_pass_component_table_req", "decode_pass_component_table_req",
          pldm_pass_component_table_req, ""),
     Fwup("encode_pass_component_table_resp",
          "decode_pass_component_table_resp", pldm_pass_component_table_resp,
          "encode_pass_component_table_req"),
     FwupPeer("decode_pass_component_table_resp",
              pldm_pass_component_table_resp),
     Fwup("encode_update_component_req", "decode_update_component_req",
          pldm_update_component_req, ""),
     Fwup("encode_update_component_resp", "decode_update_component_resp",
          pldm_update_component_resp, "encode_update_component_req"),
     FwupPeer("decode_update_component_resp", pldm_update_component_resp),
     Fwup("encode_request_firmware_data_req",
          "decode_request_firmware_data_req", pldm_request_firmware_data_req,
          ""),
     Fwup("encode_request_firmware_data_resp", "", pldm_fwup_cc_resp,
          "encode_request_firmware_data_req"),
     Fwup("encode_transfer_complete_req", "decode_transfer_complete_req",
          pldm_transfer_complete_req, ""),
     Fwup("encode_transfer_complete_resp", "", pldm_fwup_cc_resp,
          "encode_transfer_complete_req"),
     Fwup("encode_verify_complete_req", "decode_verify_complete_req",
          pldm_verify_complete_req, ""),
     Fwup("encode_verify_complete_resp", "", pldm_fwup_cc_resp,
          "encode_verify_complete_req"),
     Fwup("encode_apply_complete_req", "decode_apply_complete_req",
          pldm_apply_complete_req, ""),
     Fwup("encode_apply_complete_resp", "", pldm_fwup_cc_resp,
          "encode_apply_complete_req"),
     Fwup("encode_activate_firmware_req", "decode_activate_firmware_req",
          pldm_activate_firmware_req, ""),
     Fwup("encode_activate_firmware_resp", "decode_activate_firmware_resp",
          pldm_activate_firmware_resp, "encode_activate_firmware_req"),
     FwupPeer("decode_activate_firmware_resp", pldm_activate_firmware_resp),
     Fwup("encode_get_status_req", "", NoFields, ""),
     Fwup("encode_get_status_resp", "decode_get_status_resp",
          pldm_get_status_resp, "encode_get_status_req"),
     Fwup("encode_cancel_update_component_req", "", NoFields, ""),
     FwupPeer("decode_cancel_update_component_resp", pldm_fwup_cc_resp),
     Fwup("encode_cancel_update_req", "", NoFields, ""),
     Fwup("encode_cancel_update_resp", "decode_cancel_update_resp",
          pldm_cancel_update_resp, "encode_cancel_update_req"),
     FwupPeer("decode_cancel_update_resp",
              {r \in pldm_cancel_update_resp :
                  r.non_functioning_component_indication # 0}),
     Fwup("encode_pldm_fwup_update_security_revision_req", "",
          pldm_fwup_update_security_revision_req, ""),
     FwupPeer("decode_pldm_fwup_update_security_revision_resp",
              pldm_fwup_cc_resp)}

=============================================================================
