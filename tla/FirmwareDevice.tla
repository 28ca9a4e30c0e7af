--------------------------- MODULE FirmwareDevice ---------------------------
(***************************************************************************)
(* The PLDM for Firmware Update responder of src/firmware_device/fd.c:     *)
(* struct pldm_fd, one action per request handler, response handler,       *)
(* progress step and setter, and the application behind its callbacks.     *)
(*                                                                         *)
(* The update agent (UA), other termini and the network are arbitrary: any *)
(* request and any response, from any TID, may arrive at any time.  The    *)
(* application is the one of tests/fuzz/fd/fd-fuzz.cpp, whose assertions   *)
(* are the contract the responder owes its callbacks.                      *)
(*                                                                         *)
(* Time is kept as ages: how long ago a timestamp was taken, saturating at *)
(* MaxAge, which exceeds every timeout, so that no comparison made by the  *)
(* code can tell a saturated age from the real one.                        *)
(*                                                                         *)
(* An operator named X_Y is X with the defect Y, and used nowhere: a run   *)
(* that puts it in X's place shows which property notices.                 *)
(***************************************************************************)
EXTENDS Integers, FiniteSets

CONSTANTS
    TIDs,                \* termini that send messages to the responder
    NoUA,                \* ua_address_set = false
    Components,          \* component identifiers a UA may name
    Supported,           \* those listed by ops->components()
    ImageSizes,          \* comp_image_size values
    TransferSizes,       \* transfer sizes of the UA and of the application
    PLDM_FWUP_BASELINE_TRANSFER_SIZE,  \* 32 in the code
    INSTANCE_ID_COUNT,                 \* 32 in the code
    UINT32,              \* 2^32: the modulus of uint32_t arithmetic
    PayloadLengths,      \* payload lengths of responses, completion code included
    DEFAULT_FD_T1_TIMEOUT,
    DEFAULT_FD_T2_RETRY_TIME,
    T1Times,             \* arguments of pldm_fd_set_update_idle_timeout()
    T2Times,             \* arguments of pldm_fd_set_request_retry_time()
    Delays,              \* how long one pldm_fd_progress() call may take
    MaxAge

ASSUME ComponentsAssumption == NoUA \notin TIDs /\ Supported \subseteq Components

ASSUME SizesAssumption ==
    /\ ImageSizes \subseteq Nat
    /\ TransferSizes \subseteq Nat
    /\ PLDM_FWUP_BASELINE_TRANSFER_SIZE \in Nat \ {0}
    /\ INSTANCE_ID_COUNT \in Nat \ {0}
    /\ UINT32 \in Nat \ {0}
    /\ PayloadLengths \subseteq Nat \ {0}
    /\ \A size \in ImageSizes : size < UINT32

ASSUME TimesAssumption ==
    /\ MaxAge \in Nat
    /\ DEFAULT_FD_T1_TIMEOUT \in T1Times
    /\ DEFAULT_FD_T2_RETRY_TIME \in T2Times
    /\ T1Times \subseteq 0 .. (MaxAge - 1)
    /\ T2Times \subseteq 0 .. (MaxAge - 1)
    /\ Delays \subseteq Nat

States == {"IDLE", "LEARN_COMPONENTS", "READY_XFER", "DOWNLOAD", "VERIFY",
           "APPLY", "ACTIVATE"}

\* States in which the responder, not the UA, sends the requests.
FDDriven == {"DOWNLOAD", "VERIFY", "APPLY"}

Reasons == {"INITIALIZATION", "ACTIVATE_FW", "CANCEL_UPDATE",
            "TIMEOUT_LEARN_COMPONENT", "TIMEOUT_READY_XFER",
            "TIMEOUT_DOWNLOAD", "TIMEOUT_VERIFY", "TIMEOUT_APPLY"}

ReqStates == {"UNUSED", "READY", "SENT", "FAILED"}

\* Commands of the requests the responder sends; NONE is the zeroed field.
Commands == {"REQUEST_FIRMWARE_DATA", "TRANSFER_COMPLETE", "VERIFY_COMPLETE",
             "APPLY_COMPLETE"}

\* The result codes share one numbering: 0 is success of a transfer, a verify
\* and an apply alike, and 1 is a success of apply only.
CallbackResults == {"SUCCESS", "SUCCESS_WITH_ACTIVATION_METHOD", "GENERIC_ERROR"}

Results == CallbackResults \cup {"FD_ABORTED_TRANSFER", "VENDOR_RESULT_RANGE_MAX"}

VARIABLES
    fd,    \* struct pldm_fd
    app    \* struct fuzz_ops_ctx, and whether one of its assertions has failed

vars == <<fd, app>>

\* PassComponentTable stores image size 0 in update_comp.
CompType == [id : Components, size : ImageSizes \cup {0}]

\* offset is specific.download.offset, a member of a union: meaningful in DOWNLOAD.
FdType == [state : States, prev_state : States, reason : Reasons,
           offset : Nat, update_comp : CompType,
           req : ReqStates, complete : BOOLEAN, result : Results,
           instance_id : 0 .. (INSTANCE_ID_COUNT - 1),
           command : Commands \cup {"NONE"},
           ua_address : TIDs \cup {NoUA}, max_transfer : Nat,
           t1_age : 0 .. MaxAge, sent_age : 0 .. MaxAge,
           fd_t1_timeout : T1Times, fd_t2_retry_time : T2Times]

AppType == [current_update : BOOLEAN, update_comp : CompType, offset : Nat,
            transferred : BOOLEAN, verified : BOOLEAN, applied : BOOLEAN,
            ok : BOOLEAN]

-----------------------------------------------------------------------------
(* Time *)

Saturate(age) == IF age > MaxAge THEN MaxAge ELSE age

Elapse(f, delay) ==
    [f EXCEPT !.t1_age = Saturate(@ + delay), !.sent_age = Saturate(@ + delay)]

TouchT1(f) == [f EXCEPT !.t1_age = 0]

-----------------------------------------------------------------------------
(* The application's callbacks *)

Check(a, assertion) == [a EXCEPT !.ok = @ /\ assertion]

CbUpdateComponent(a, comp) ==
    [Check(a, ~a.current_update) EXCEPT
        !.current_update = TRUE, !.update_comp = comp, !.offset = 0,
        !.transferred = FALSE, !.verified = FALSE, !.applied = FALSE]

CbFirmwareData(a, offset, len, comp) ==
    [Check(a, /\ a.current_update
              /\ ~a.transferred /\ ~a.verified /\ ~a.applied
              /\ offset = a.offset
              /\ a.offset + len <= a.update_comp.size
              /\ comp = a.update_comp) EXCEPT
        !.offset = @ + len,
        !.transferred = @ \/ (a.offset + len = a.update_comp.size)]

CbVerify(a, comp, res, pending) ==
    [Check(a, /\ a.current_update
              /\ a.transferred /\ ~a.verified /\ ~a.applied
              /\ comp = a.update_comp) EXCEPT
        !.verified = @ \/ (res = "SUCCESS" /\ ~pending)]

\* Applied with either success code; the update is then over for the application.
CbApply(a, comp, res, pending) ==
    LET done == ~pending /\ res \in {"SUCCESS", "SUCCESS_WITH_ACTIVATION_METHOD"}
    IN  [Check(a, /\ a.current_update
                  /\ a.transferred /\ a.verified /\ ~a.applied
                  /\ comp = a.update_comp) EXCEPT
            !.current_update = @ /\ ~done, !.applied = @ \/ done]

CbActivate(a) == Check(a, ~a.current_update)

CbCancelUpdateComponent(a, comp) ==
    [Check(a, /\ a.current_update
              /\ a.offset <= a.update_comp.size
              /\ comp = a.update_comp) EXCEPT
        !.current_update = FALSE]

-----------------------------------------------------------------------------
(* State changes shared by the handlers *)

SetState(f, s) ==
    IF f.state = s THEN f ELSE [f EXCEPT !.prev_state = f.state, !.state = s]

SetIdle(f, why) ==
    [f EXCEPT !.prev_state = f.state, !.state = "IDLE", !.reason = why,
              !.ua_address = NoUA]

TimeoutReason(s) ==
    CASE s = "LEARN_COMPONENTS" -> "TIMEOUT_LEARN_COMPONENT"
      [] s = "READY_XFER" -> "TIMEOUT_READY_XFER"
      [] s = "DOWNLOAD" -> "TIMEOUT_DOWNLOAD"
      [] s = "VERIFY" -> "TIMEOUT_VERIFY"
      [] s = "APPLY" -> "TIMEOUT_APPLY"
      [] OTHER -> "ACTIVATE_FW"

IdleTimeout(f) == IF f.state = "IDLE" THEN f ELSE SetIdle(f, TimeoutReason(f.state))

MaybeCancelComponent_AfterApply(f, a) ==
    IF f.state \in FDDriven THEN CbCancelUpdateComponent(a, f.update_comp) ELSE a

MaybeCancelComponent_NotInApply(f, a) ==
    IF f.state \in {"DOWNLOAD", "VERIFY"}
    THEN CbCancelUpdateComponent(a, f.update_comp) ELSE a

\* pldm_fd_maybe_cancel_component: what the application has become.
MaybeCancelComponent(f, a) ==
    IF \/ f.state \in {"DOWNLOAD", "VERIFY"}
       \/ f.state = "APPLY" /\ ~(f.complete /\ f.result = "SUCCESS")
    THEN CbCancelUpdateComponent(a, f.update_comp)
    ELSE a

ReqShouldSend_NoRetry(f) == f.req = "READY"

ReqShouldSend_Failed(f) ==
    f.req # "SENT" \/ f.sent_age >= f.fd_t2_retry_time

ReqShouldSend(f) ==
    \/ f.req = "READY"
    \/ f.req = "SENT" /\ f.sent_age >= f.fd_t2_retry_time

NextInstance(f) == [f EXCEPT !.instance_id = (@ + 1) % INSTANCE_ID_COUNT]

SendReq_StaleCommand(f, command) == [f EXCEPT !.req = "SENT", !.sent_age = 0]

SendReq_RestartsT1(f, command) ==
    [f EXCEPT !.req = "SENT", !.command = command, !.sent_age = 0, !.t1_age = 0]

\* A request with this command has been encoded: wait for its response.
SendReq(f, command) ==
    [f EXCEPT !.req = "SENT", !.command = command, !.sent_age = 0]

FwdataSize(f) ==
    LET left == f.update_comp.size - f.offset
    IN  IF left > f.max_transfer THEN f.max_transfer ELSE left

ClampTransfer_NoFloor(ua_size, app_size) ==
    IF app_size > ua_size THEN ua_size ELSE app_size

ClampTransfer(ua_size, app_size) ==
    LET limited == IF app_size > ua_size THEN ua_size ELSE app_size
    IN  IF limited < PLDM_FWUP_BASELINE_TRANSFER_SIZE
        THEN PLDM_FWUP_BASELINE_TRANSFER_SIZE ELSE limited

-----------------------------------------------------------------------------
(* GetStatus: the reply, and what decode_get_status_resp accepts of it.    *)
(* In VERIFY and APPLY the percentage is the application's own.            *)

AuxState(f) ==
    CASE f.req = "UNUSED" -> "IDLE_LEARN_COMPONENTS_READ_XFER"
      [] f.req = "FAILED" -> "OPERATION_FAILED"
      [] f.req = "READY" /\ f.complete -> "OPERATION_SUCCESSFUL"
      [] OTHER -> "OPERATION_IN_PROGRESS"

AuxStateStatus(f) == IF f.req = "FAILED" THEN f.result ELSE "SUCCESS"

PROGRESS_PERCENT_NOT_SUPPORTED == 101

DownloadPercent(size, offset) ==
    LET one_percent == (size \div 100) + (IF size % 100 # 0 THEN 1 ELSE 0)
    IN  IF size > 0 THEN offset \div one_percent
                    ELSE PROGRESS_PERCENT_NOT_SUPPORTED

GetStatusDecodes(f) ==
    /\ f.state \in {"IDLE", "LEARN_COMPONENTS", "READY_XFER"} =>
          AuxState(f) = "IDLE_LEARN_COMPONENTS_READ_XFER"
    /\ AuxStateStatus(f) \in {"SUCCESS", "GENERIC_ERROR", "VENDOR_RESULT_RANGE_MAX"}
    /\ f.state = "DOWNLOAD" =>
          DownloadPercent(f.update_comp.size, f.offset)
             <= PROGRESS_PERCENT_NOT_SUPPORTED

-----------------------------------------------------------------------------
(* Initial state: pldm_fd_setup *)

Init ==
    /\ \E id \in Components, age \in 0 .. MaxAge :
         fd = [state |-> "IDLE", prev_state |-> "IDLE",
               reason |-> "INITIALIZATION", offset |-> 0,
               update_comp |-> [id |-> id, size |-> 0],
               req |-> "UNUSED", complete |-> FALSE, result |-> "SUCCESS",
               instance_id |-> 0, command |-> "NONE",
               ua_address |-> NoUA, max_transfer |-> 0,
               t1_age |-> age, sent_age |-> age,
               fd_t1_timeout |-> DEFAULT_FD_T1_TIMEOUT,
               fd_t2_retry_time |-> DEFAULT_FD_T2_RETRY_TIME]
    /\ app = [current_update |-> FALSE, update_comp |-> fd.update_comp,
              offset |-> 0, transferred |-> FALSE, verified |-> FALSE,
              applied |-> FALSE, ok |-> TRUE]

-----------------------------------------------------------------------------
(* Requests.  A request that is refused (wrong state, undecodable, no room *)
(* for the reply) has still restarted T1 when its command is one of the    *)
(* four pldm_fd_handle_msg lists; requests refused earlier change nothing. *)

OnlyTouchT1 == fd' = TouchT1(fd) /\ UNCHANGED app

FromUA_Unchecked(tid) == TRUE

\* The address check: information requests, CancelUpdate and RequestUpdate pass it
\* from every TID, any other request only when it is the UA's.
FromUA(tid) == fd.ua_address = tid

RequestUpdate(tid, ua_size, app_size) ==
    \/ OnlyTouchT1
    \/ /\ fd.state = "IDLE"
       /\ fd' = [SetState(TouchT1(fd), "LEARN_COMPONENTS") EXCEPT
                    !.ua_address = tid,
                    !.max_transfer = ClampTransfer(ua_size, app_size)]
       /\ UNCHANGED app

PassComponentTable(tid, id, end) ==
    /\ FromUA(tid)
    /\ UNCHANGED app
    /\ \/ fd.state # "LEARN_COMPONENTS" /\ fd' = TouchT1(fd)
       \/ \* undecodable, after the temporary component was cleared
          /\ fd.state = "LEARN_COMPONENTS"
          /\ fd' = [TouchT1(fd) EXCEPT !.update_comp.size = 0]
       \/ \* decoded; the last one moves on if the reply could be encoded
          /\ fd.state = "LEARN_COMPONENTS"
          /\ LET stored == [TouchT1(fd) EXCEPT
                              !.update_comp = [id |-> id, size |-> 0]]
             IN  \/ fd' = stored
                 \/ end /\ fd' = SetState(stored, "READY_XFER")

UpdateComponent(tid, comp) ==
    /\ FromUA(tid)
    /\ \/ OnlyTouchT1
       \/ /\ fd.state = "READY_XFER"
          /\ LET stored == [TouchT1(fd) EXCEPT !.update_comp = comp]
             IN  \/ \* not listed, or refused by the application
                    fd' = stored /\ UNCHANGED app
                 \/ \* taken by the application, but no room for the reply
                    /\ comp.id \in Supported
                    /\ fd' = stored
                    /\ app' = CbCancelUpdateComponent(
                                 CbUpdateComponent(app, comp), comp)
                 \/ /\ comp.id \in Supported
                    /\ fd' = SetState([stored EXCEPT !.offset = 0,
                                          !.req = "READY", !.complete = FALSE],
                                      "DOWNLOAD")
                    /\ app' = CbUpdateComponent(app, comp)

CancelUpdateComponent(tid) ==
    /\ FromUA(tid)
    /\ fd.state \in FDDriven
    /\ fd' = SetState(fd, "READY_XFER")
    /\ app' = MaybeCancelComponent(fd, app)

\* Allowed from every TID.
CancelUpdate ==
    \/ OnlyTouchT1
    \/ /\ fd.state # "IDLE"
       /\ fd' = SetIdle(TouchT1(fd), "CANCEL_UPDATE")
       /\ app' = MaybeCancelComponent(fd, app)

ActivateFirmware(tid, activated) ==
    /\ FromUA(tid)
    /\ fd.state = "READY_XFER"
    /\ app' = CbActivate(app)
    /\ fd' = IF activated THEN SetIdle(SetState(fd, "ACTIVATE"), "ACTIVATE_FW")
                          ELSE fd

-----------------------------------------------------------------------------
(* Responses to the responder's own requests *)

MatchesRequest_AnyInstance(tid, iid, command) ==
    fd.ua_address = tid /\ fd.req = "SENT" /\ fd.command = command

\* pldm_fd_handle_resp: every other response is dropped without effect.
MatchesRequest(tid, iid, command) ==
    /\ fd.ua_address = tid
    /\ fd.req = "SENT"
    /\ fd.instance_id = iid
    /\ fd.command = command

\* Not the response this state waits for, or RETRY_REQUEST_FW_DATA, or data of
\* the wrong length: only T1 is restarted.
FwdataResp(cc, len, res) ==
    /\ fd.command = "REQUEST_FIRMWARE_DATA"
    /\ LET f == TouchT1(fd)
           size == FwdataSize(fd)
           expected == fd.state = "DOWNLOAD" /\ ~fd.complete
       IN  \/ /\ \/ ~expected
                 \/ cc = "RETRY_REQUEST_FW_DATA"
                 \/ cc = "SUCCESS" /\ len # (size + 1) % UINT32
              /\ fd' = f
              /\ UNCHANGED app
           \/ /\ expected /\ cc = "ERROR"
              /\ fd' = [f EXCEPT !.req = "READY", !.complete = TRUE,
                                 !.result = "FD_ABORTED_TRANSFER"]
              /\ UNCHANGED app
           \/ /\ expected /\ cc = "SUCCESS"
              /\ len = (size + 1) % UINT32
              /\ app' = CbFirmwareData(app, fd.offset, size, fd.update_comp)
              /\ IF res = "SUCCESS"
                 THEN IF fd.offset + size = fd.update_comp.size
                      THEN fd' = [f EXCEPT !.req = "READY", !.complete = TRUE,
                                     !.result = res, !.offset = @ + size]
                      ELSE fd' = [f EXCEPT !.req = "READY", !.offset = @ + size]
                 ELSE fd' = [f EXCEPT !.req = "READY", !.complete = TRUE,
                                      !.result = res]

TransferCompleteResp ==
    /\ fd.command = "TRANSFER_COMPLETE"
    /\ UNCHANGED app
    /\ LET f == TouchT1(fd)
           expected == fd.state = "DOWNLOAD" /\ fd.complete
       IN  \/ ~expected /\ fd' = f
           \/ /\ expected /\ fd.result = "SUCCESS"
              /\ fd' = SetState([f EXCEPT !.offset = 0, !.req = "READY",
                                          !.complete = FALSE], "VERIFY")
           \/ /\ expected /\ fd.result # "SUCCESS"
              /\ fd' = [f EXCEPT !.req = "FAILED"]

VerifyCompleteResp ==
    /\ fd.command = "VERIFY_COMPLETE"
    /\ UNCHANGED app
    /\ LET f == TouchT1(fd)
       IN  \/ fd.state # "VERIFY" /\ fd' = f
           \/ /\ fd.state = "VERIFY" /\ fd.result = "SUCCESS"
              /\ fd' = SetState([f EXCEPT !.offset = 0, !.req = "READY",
                                          !.complete = FALSE], "APPLY")
           \/ /\ fd.state = "VERIFY" /\ fd.result # "SUCCESS"
              /\ fd' = [f EXCEPT !.req = "FAILED"]

ApplyCompleteResp ==
    /\ fd.command = "APPLY_COMPLETE"
    /\ UNCHANGED app
    /\ LET f == TouchT1(fd)
       IN  \/ fd.state # "APPLY" /\ fd' = f
           \/ /\ fd.state = "APPLY" /\ fd.result = "SUCCESS"
              /\ fd' = SetState([f EXCEPT !.req = "UNUSED"], "READY_XFER")
           \/ /\ fd.state = "APPLY" /\ fd.result # "SUCCESS"
              /\ fd' = [f EXCEPT !.req = "FAILED"]

\* The response MatchesRequest lets through, by the outstanding command.
HandleResp(cc, len, res) ==
    \/ FwdataResp(cc, len, res)
    \/ TransferCompleteResp
    \/ VerifyCompleteResp
    \/ ApplyCompleteResp

-----------------------------------------------------------------------------
(* pldm_fd_progress.  The call may take a while (verify and apply may run  *)
(* in it): req_should_send reads the clock before that delay, the send     *)
(* time and the T1 check read it after.                                    *)

T1Expired(f) ==
    /\ f.state # "IDLE"
    /\ f.state \in FDDriven => f.req = "SENT"
    /\ f.t1_age > f.fd_t1_timeout

T1Check(f, a) ==
    \/ /\ T1Expired(f)
       /\ fd' = IdleTimeout(f)
       /\ app' = MaybeCancelComponent(f, a)
    \/ /\ ~T1Expired(f)
       /\ fd' = f
       /\ app' = a

\* The request is encoded and sent, or does not fit the caller's buffer: its
\* instance ID is used up, and the next call tries again.
SendThenT1Check(f, a, command, encoded) ==
    T1Check(IF encoded THEN SendReq(NextInstance(f), command)
                       ELSE NextInstance(f), a)

ProgressDownload(delay, encoded) ==
    /\ fd.state = "DOWNLOAD"
    /\ LET f == Elapse(fd, delay)
       IN  \/ ~ReqShouldSend(fd) /\ T1Check(f, app)
           \/ /\ ReqShouldSend(fd)
              /\ SendThenT1Check(f, app, IF fd.complete THEN "TRANSFER_COMPLETE"
                                         ELSE "REQUEST_FIRMWARE_DATA", encoded)

ProgressVerify(res, pending, delay, encoded) ==
    /\ fd.state = "VERIFY"
    /\ LET f == Elapse(fd, delay)
           a == CbVerify(app, fd.update_comp, res, pending)
       IN  \/ ~ReqShouldSend(fd) /\ T1Check(f, app)
           \/ /\ ReqShouldSend(fd) /\ fd.complete
              /\ SendThenT1Check(f, app, "VERIFY_COMPLETE", encoded)
           \/ /\ ReqShouldSend(fd) /\ ~fd.complete
              /\ pending /\ res = "SUCCESS"
              /\ T1Check(f, a)
           \/ /\ ReqShouldSend(fd) /\ ~fd.complete
              /\ ~(pending /\ res = "SUCCESS")
              /\ SendThenT1Check(
                   [f EXCEPT !.complete = TRUE,
                             !.result = IF pending THEN "VENDOR_RESULT_RANGE_MAX"
                                        ELSE res],
                   a, "VERIFY_COMPLETE", encoded)

ApplyResult_MethodUnmapped(res, pending) ==
    IF pending THEN "VENDOR_RESULT_RANGE_MAX" ELSE res

ApplyResult(res, pending) ==
    CASE pending -> "VENDOR_RESULT_RANGE_MAX"
      [] ~pending /\ res = "SUCCESS_WITH_ACTIVATION_METHOD" -> "SUCCESS"
      [] OTHER -> res

ProgressApply(res, pending, delay, encoded) ==
    /\ fd.state = "APPLY"
    /\ LET f == Elapse(fd, delay)
           a == CbApply(app, fd.update_comp, res, pending)
       IN  \/ ~ReqShouldSend(fd) /\ T1Check(f, app)
           \/ /\ ReqShouldSend(fd) /\ fd.complete
              /\ SendThenT1Check(f, app, "APPLY_COMPLETE", encoded)
           \/ /\ ReqShouldSend(fd) /\ ~fd.complete
              /\ pending /\ res = "SUCCESS"
              /\ T1Check(f, a)
           \/ /\ ReqShouldSend(fd) /\ ~fd.complete
              /\ ~(pending /\ res = "SUCCESS")
              /\ SendThenT1Check([f EXCEPT !.complete = TRUE,
                                           !.result = ApplyResult(res, pending)],
                                 a, "APPLY_COMPLETE", encoded)

\* The UA-driven states only run the T1 check.
ProgressOther(delay) ==
    fd.state \notin FDDriven /\ T1Check(Elapse(fd, delay), app)

-----------------------------------------------------------------------------
(* Settings, and the clock *)

SetUpdateIdleTimeout(time) ==
    fd' = [fd EXCEPT !.fd_t1_timeout = time] /\ UNCHANGED app

SetRequestRetryTime(time) ==
    fd' = [fd EXCEPT !.fd_t2_retry_time = time] /\ UNCHANGED app

Tick == fd' = Elapse(fd, 1) /\ UNCHANGED app

RequestFrom(tid) ==
    \/ \E ua_size, app_size \in TransferSizes : RequestUpdate(tid, ua_size, app_size)
    \/ \E id \in Components, end \in BOOLEAN : PassComponentTable(tid, id, end)
    \/ \E comp \in [id : Components, size : ImageSizes] : UpdateComponent(tid, comp)
    \/ CancelUpdateComponent(tid)
    \/ CancelUpdate
    \/ \E activated \in BOOLEAN : ActivateFirmware(tid, activated)

ResponseFrom(tid) ==
    \E iid \in 0 .. (INSTANCE_ID_COUNT - 1), command \in Commands :
       /\ MatchesRequest(tid, iid, command)
       /\ \E cc \in {"SUCCESS", "RETRY_REQUEST_FW_DATA", "ERROR"},
             len \in PayloadLengths, res \in CallbackResults :
                HandleResp(cc, len, res)

Request == \E tid \in TIDs : RequestFrom(tid)

Response == \E tid \in TIDs : ResponseFrom(tid)

Progress ==
    \E delay \in Delays, encoded \in BOOLEAN :
       \/ ProgressDownload(delay, encoded)
       \/ \E res \in CallbackResults, pending \in BOOLEAN :
             \/ ProgressVerify(res, pending, delay, encoded)
             \/ ProgressApply(res, pending, delay, encoded)
       \/ ProgressOther(delay)

Setting ==
    \/ \E time \in T1Times : SetUpdateIdleTimeout(time)
    \/ \E time \in T2Times : SetRequestRetryTime(time)

Next == Request \/ Response \/ Progress \/ Setting \/ Tick

Spec == Init /\ [][Next]_vars

-----------------------------------------------------------------------------
(* Properties *)

\* Every field of struct pldm_fd and of the application's context keeps its type.
TypeOK == fd \in FdType /\ app \in AppType

\* No assertion of the application of fd-fuzz.cpp ever fails: an update starts
\* only when none is running, its data arrive once each, in order and up to the
\* image size, verify follows the whole image, apply follows a successful
\* verify, nothing is called after a successful apply or a cancel, cancel only
\* during an update, all for the component the update started with, which
\* pldm_fd_check_update_component found in the list of ops->components().
AppContract == app.ok /\ (app.current_update => app.update_comp.id \in Supported)

\* An update the application has begun is never forgotten: it is the one the
\* responder downloads, verifies or applies, and when the responder leaves those
\* states (cancel, timeout, completion) the application has been told.
NoOrphanedUpdate ==
    app.current_update <=>
       /\ fd.state \in FDDriven
       /\ ~(fd.state = "APPLY" /\ fd.complete /\ fd.result = "SUCCESS")

\* The assert()s of fd.c hold wherever they are reached: a request slot is in
\* use in the states that send (req_should_send), the offset never passes the
\* image (fwdata_size), a response to VerifyComplete or ApplyComplete finds the
\* operation complete, and the outstanding command is one handle_resp knows.
AssertsHold ==
    /\ fd.state \in FDDriven => fd.req # "UNUSED"
    /\ fd.state = "DOWNLOAD" => fd.offset <= fd.update_comp.size
    /\ fd.req = "SENT" => fd.command \in Commands
    /\ \/ fd.state = "VERIFY" /\ fd.req = "SENT" /\ fd.command = "VERIFY_COMPLETE"
       \/ fd.state = "APPLY" /\ fd.req = "SENT" /\ fd.command = "APPLY_COMPLETE"
       => fd.complete

\* The request outstanding in a state is that state's own: a late response to
\* a request of an earlier state or of a cancelled update is never taken for the
\* answer to this one (handle_resp compares commands, the handlers states).
RequestFitsState ==
    fd.req = "SENT" =>
       /\ fd.state = "DOWNLOAD" =>
            fd.command = IF fd.complete THEN "TRANSFER_COMPLETE"
                         ELSE "REQUEST_FIRMWARE_DATA"
       /\ fd.state = "VERIFY" => fd.command = "VERIFY_COMPLETE"
       /\ fd.state = "APPLY" => fd.command = "APPLY_COMPLETE"

\* What the application and the responder know of the update in progress agrees:
\* same component, same offset while data are asked for, and the application has
\* been given all of the image, or has verified or applied it, exactly when the
\* responder's state and result say so.
AppInStep ==
    /\ fd.state \in FDDriven =>
         /\ app.update_comp = fd.update_comp
         /\ app.offset <= app.update_comp.size
    /\ fd.state = "DOWNLOAD" =>
         /\ ~app.verified /\ ~app.applied
         /\ ~fd.complete =>
              /\ ~app.transferred /\ app.offset = fd.offset
              /\ fd.offset < fd.update_comp.size \/ fd.update_comp.size = 0
         /\ fd.complete /\ fd.result = "SUCCESS" => app.transferred
    /\ fd.state = "VERIFY" =>
         /\ app.transferred /\ ~app.applied
         /\ app.verified <=> fd.complete /\ fd.result = "SUCCESS"
    /\ fd.state = "APPLY" =>
         /\ app.transferred /\ app.verified
         /\ app.applied <=> fd.complete /\ fd.result = "SUCCESS"

\* The UA's address is known exactly in update mode, and a transfer size of at
\* least the baseline has then been agreed.
SessionIffUpdateMode ==
    /\ fd.ua_address = NoUA <=> fd.state = "IDLE"
    /\ fd.state # "IDLE" => fd.max_transfer >= PLDM_FWUP_BASELINE_TRANSFER_SIZE

\* The inductive invariant behind the safety properties.
IInv ==
    /\ TypeOK
    /\ AppContract
    /\ NoOrphanedUpdate
    /\ AssertsHold
    /\ RequestFitsState
    /\ AppInStep
    /\ SessionIffUpdateMode

\* Update mode belongs to one UA from RequestUpdate until the responder is idle
\* again: no other terminus can take the update over, and a request or a response
\* of another terminus does nothing to it but restart T1 (RequestUpdate and
\* CancelUpdate, which pass the address check) or, with CancelUpdate, end it, which
\* the application then knows.
SessionHasOneUA ==
    [][ fd.state # "IDLE" =>
          /\ fd'.state # "IDLE" => fd'.ua_address = fd.ua_address
          /\ \A tid \in TIDs \ {fd.ua_address} :
                RequestFrom(tid) \/ ResponseFrom(tid) =>
                   \/ fd' \in {fd, TouchT1(fd)} /\ UNCHANGED app
                   \/ fd'.state = "IDLE" /\ ~app'.current_update ]_vars

\* The download percentage GetStatus reports stays between 0 and 100 for every
\* image size (the rounded-up one_percent), and says 100 only for a whole image.
DownloadPercentInRange ==
    fd.state = "DOWNLOAD" /\ fd.update_comp.size > 0 =>
       LET percent == DownloadPercent(fd.update_comp.size, fd.offset)
       IN  percent \in 0 .. 100 /\ (percent = 100 => fd.offset = fd.update_comp.size)

\* While data are asked for, every RequestFirmwareData asks for at least one byte
\* unless the image is empty, whatever transfer size the UA and the application
\* name ("Don't let it be zero, that will loop forever", fd.c).
RequestsMakeProgress ==
    fd.state = "DOWNLOAD" /\ ~fd.complete /\ fd.update_comp.size > 0 =>
       FwdataSize(fd) > 0

\* A failed transfer, verify or apply is final: the responder sends nothing more
\* for the component and stays until it is cancelled, which the application
\* hears of ("will not send more requests", fd-internal.h).
FailedUntilCancelled ==
    [][ fd.state \in FDDriven /\ fd.req = "FAILED" =>
          \/ fd'.state = fd.state /\ fd'.req = "FAILED"
                /\ fd'.instance_id = fd.instance_id
          \/ fd'.state \in {"READY_XFER", "IDLE"} /\ ~app'.current_update ]_vars

-----------------------------------------------------------------------------
(* What the repository says of the responder and the code does not do *)

\* Every GetStatus reply is one that decode_get_status_resp accepts; its test says
\* it refuses an auxiliary state other than IDLE_LEARN_COMPONENTS_READ_XFER when
\* the state is IDLE.  pldm_fd_get_aux_state reads the request slot, which a cancel
\* or a timeout leaves as it was.
StatusReplyDecodes == GetStatusDecodes(fd)

=============================================================================
