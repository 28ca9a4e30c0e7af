\* The instance of FirmwareDevice.cfg.
CONSTANTS
    TIDs = {t1, t2}
    NoUA = NoUA
    Components = {c1, c2}
    Supported = {c1}
    ImageSizes = {0, 101}
    TransferSizes = {0}
    PLDM_FWUP_BASELINE_TRANSFER_SIZE = 60
    INSTANCE_ID_COUNT = 2
    UINT32 = 128
    PayloadLengths = {1, 42, 61}
    DEFAULT_FD_T1_TIMEOUT = 1
    DEFAULT_FD_T2_RETRY_TIME = 1
    T1Times = {1}
    T2Times = {0, 1}
    Delays = {0, 2}
    MaxAge = 2
SPECIFICATION Spec
SYMMETRY TIDSymmetry
INVARIANT StatusReplyDecodes
