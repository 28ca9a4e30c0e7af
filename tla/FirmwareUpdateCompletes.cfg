\* One UA, images of none, one and two transfers, instance IDs modulo 3 and
\* answers that are up to two requests late.
CONSTANTS
    TIDs = {t1}
    NoUA = NoUA
    Components = {c1}
    Supported = {c1}
    ImageSizes = {0, 2, 4}
    TransferSizes = {1}
    PLDM_FWUP_BASELINE_TRANSFER_SIZE = 2
    INSTANCE_ID_COUNT = 3
    UINT32 = 16
    PayloadLengths = {1}
    DEFAULT_FD_T1_TIMEOUT = 0
    DEFAULT_FD_T2_RETRY_TIME = 0
    T1Times = {0}
    T2Times = {0}
    Delays = {0}
    MaxAge = 1
    Lifetime = 2
SPECIFICATION CooperativeSpec
PROPERTY UpdateCompletes
