\* One terminus, one component and an image of one transfer; T1 = 1 tick, T2 = 0.
CONSTANTS
    TIDs = {t1}
    NoUA = NoUA
    Components = {c1}
    Supported = {c1}
    ImageSizes = {2}
    TransferSizes = {1}
    PLDM_FWUP_BASELINE_TRANSFER_SIZE = 2
    INSTANCE_ID_COUNT = 2
    UINT32 = 16
    PayloadLengths = {1, 3}
    DEFAULT_FD_T1_TIMEOUT = 1
    DEFAULT_FD_T2_RETRY_TIME = 1
    T1Times = {1}
    T2Times = {0, 1}
    Delays = {0}
    MaxAge = 2
SPECIFICATION SilentSpec
PROPERTY SilentUAEndsUpdate
