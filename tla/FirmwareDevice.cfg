\* Two termini, a listed and an unlisted component; an empty image and one of 101
\* bytes, where a percentage is no longer exact, in two transfers of the baseline
\* (60 here); a transfer size of 0 is what the clamp of pldm_fd_request_update is
\* for.  T1 = 1 tick, T2 = 0 or 1 ticks, so that ages up to 2 show every outcome of
\* every timeout comparison.
CONSTANTS
    TIDs = {t1, t2}
    NoUA = NoUA
    Components = {c1, c2}
    Supported = {c1}
    ImageSizes = {0, 101}
    TransferSizes = {0}
    PLDM_FWUP_BASELINE_TRANSFER_SIZE = 60
    INSTANCE_ID_COUNT = 2
    UINT32 = 128
    PayloadLengths = {1, 42, 61}
    DEFAULT_FD_T1_TIMEOUT = 1
    DEFAULT_FD_T2_RETRY_TIME = 1
    T1Times = {1}
    T2Times = {0, 1}
    Delays = {0, 2}
    MaxAge = 2
SPECIFICATION Spec
SYMMETRY TIDSymmetry
INVARIANTS AppContract NoOrphanedUpdate RequestFitsState AppInStep RequestsMakeProgress
PROPERTIES SessionHasOneUA FailedUntilCancelled
