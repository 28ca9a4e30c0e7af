--------------------------- MODULE FirmwareUpdate ---------------------------
(***************************************************************************)
(* The responder of FirmwareDevice, a network that loses, duplicates and   *)
(* reorders, and an update agent that answers what it is asked.            *)
(*                                                                         *)
(* A request stays in `recent` while a response to it may still arrive:    *)
(* any number of times, in any order, or never.  The responder tells such  *)
(* responses apart by the instance ID alone, which comes back after        *)
(* INSTANCE_ID_COUNT requests; Lifetime is how many further requests an    *)
(* answer may be late.  The network and the UA are external.               *)
(***************************************************************************)
EXTENDS FirmwareDevice

CONSTANT Lifetime

ASSUME LifetimeAssumption ==
    /\ Lifetime \in Nat
    /\ Lifetime < INSTANCE_ID_COUNT
    /\ INSTANCE_ID_COUNT > 1

VARIABLES
    recent,      \* requests of the responder that may still be answered
    misplaced    \* data of another offset or component were given to the application

updateVars == <<fd, app, recent, misplaced>>

RequestMessage(f) ==
    [iid |-> f.instance_id, command |-> f.command, comp |-> f.update_comp,
     offset |-> f.offset, size |-> FwdataSize(f), age |-> 0]

\* One more instance ID has been used.
Older(messages) ==
    {[m EXCEPT !.age = @ + 1] : m \in {n \in messages : n.age < Lifetime}}

UpdateInit == Init /\ recent = {} /\ misplaced = FALSE

\* pldm_fd_progress, which returns the request with its length when it was encoded
\* and T1 did not expire.
UpdateProgress(encoded, pending, results) ==
    /\ \E delay \in Delays :
          \/ ProgressDownload(delay, encoded)
          \/ \E res \in results :
                \/ ProgressVerify(res, pending, delay, encoded)
                \/ ProgressApply(res, pending, delay, encoded)
          \/ ProgressOther(delay)
    /\ recent' = IF fd'.instance_id = fd.instance_id THEN recent
                 ELSE Older(recent) \cup
                      (IF encoded /\ fd'.state # "IDLE" THEN {RequestMessage(fd')}
                                                        ELSE {})
    /\ UNCHANGED misplaced

\* The payload of a response: the completion code, and the data if they were asked
\* for and are there.
ResponseLength(m, cc) ==
    IF m.command = "REQUEST_FIRMWARE_DATA" /\ cc = "SUCCESS" THEN m.size + 1 ELSE 1

Deliver(m, cc, res) ==
    /\ \E tid \in TIDs : MatchesRequest(tid, m.iid, m.command)
    /\ HandleResp(cc, ResponseLength(m, cc), res)
    /\ misplaced' = (misplaced \/ /\ app'.offset # app.offset
                                  /\ m.offset # fd.offset \/ m.comp # fd.update_comp)
    /\ UNCHANGED recent

\* No response to this request will arrive any more.
Lose(m) == recent' = recent \ {m} /\ UNCHANGED <<fd, app, misplaced>>

UpdateRequest == Request /\ UNCHANGED <<recent, misplaced>>

UpdateTick == Tick /\ UNCHANGED <<recent, misplaced>>

UpdateNext ==
    \/ UpdateRequest
    \/ UpdateTick
    \/ \E encoded, pending \in BOOLEAN :
          UpdateProgress(encoded, pending, CallbackResults)
    \/ \E m \in recent, cc \in {"SUCCESS", "RETRY_REQUEST_FW_DATA", "ERROR"},
          res \in CallbackResults : Deliver(m, cc, res)
    \/ \E m \in recent : Lose(m)

UpdateSpec == UpdateInit /\ [][UpdateNext]_updateVars

\* The messages a response may still come for.
MessageType ==
    [iid : 0 .. (INSTANCE_ID_COUNT - 1), command : Commands, comp : CompType,
     offset : Nat, size : Int, age : 0 .. Lifetime]

\* The responder is typed as before, and what it sent are its requests.
UpdateTypeOK == TypeOK /\ recent \subseteq MessageType /\ misplaced \in BOOLEAN

\* Counting back from the last instance ID used.
InstanceBefore(iid, age) ==
    IF iid >= age THEN iid - age ELSE iid - age + INSTANCE_ID_COUNT

\* The inductive invariant behind NoMisplacedData: a request's instance ID says how
\* many were used since, and while RequestFirmwareData waits for its answer the
\* newest request is the one that asked for the bytes at the current offset.
UpdateIInv ==
    /\ IInv
    /\ recent \subseteq MessageType
    /\ ~misplaced
    /\ \A m \in recent :
          /\ m.iid = InstanceBefore(fd.instance_id, m.age)
          /\ /\ m.age = 0
             /\ fd.req = "SENT" /\ fd.state = "DOWNLOAD" /\ ~fd.complete
             => m.offset = fd.offset /\ m.comp = fd.update_comp

\* Firmware data that reach the application are the bytes it waits for: however
\* late, often or out of order answers arrive, data asked for at another offset,
\* or for another component, are never written in their place.
NoMisplacedData == ~misplaced

-----------------------------------------------------------------------------
(* An update that is left alone: the UA starts it and answers, nothing times *)
(* out, no operation of the application fails.                               *)

Starts ==
    \/ \E tid \in TIDs, ua_size, app_size \in TransferSizes :
          RequestUpdate(tid, ua_size, app_size)
    \/ \E tid \in TIDs, id \in Components, end \in BOOLEAN :
          PassComponentTable(tid, id, end)
    \/ \E tid \in TIDs, comp \in [id : Components, size : ImageSizes] :
          UpdateComponent(tid, comp)

Successes == {"SUCCESS", "SUCCESS_WITH_ACTIVATION_METHOD"}

UpdateAnswer ==
    \E m \in recent : Deliver(m, "SUCCESS", "SUCCESS")

\* Verify knows one success code, apply two.
CooperativeProgress(encoded, pending) ==
    UpdateProgress(encoded, pending,
                   IF fd.state = "APPLY" /\ ~pending THEN Successes ELSE {"SUCCESS"})

CooperativeNext ==
    \/ Starts /\ UNCHANGED <<recent, misplaced>>
    \/ \E encoded, pending \in BOOLEAN : CooperativeProgress(encoded, pending)
    \/ UpdateAnswer
    \/ \E m \in recent : Lose(m)

\* pldm_fd_progress is called again and again, with room for the request and an
\* application that finishes, and of the answers to the requests sent and sent
\* again infinitely many come before the next retry.
CooperativeSpec ==
    /\ UpdateInit
    /\ [][CooperativeNext]_updateVars
    /\ WF_updateVars(CooperativeProgress(TRUE, FALSE))
    /\ SF_updateVars(UpdateAnswer)

\* A download that is begun is transferred, verified and applied to the end, with
\* any number of lost requests, late answers, short buffers and pending calls on the
\* way, and then the responder is ready for the next component.
UpdateCompletes == fd.state = "DOWNLOAD" ~> fd.state = "READY_XFER"

=============================================================================
