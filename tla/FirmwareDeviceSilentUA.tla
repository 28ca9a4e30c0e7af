----------------------- MODULE FirmwareDeviceSilentUA -----------------------
(***************************************************************************)
(* The responder of FirmwareDevice when the update agent stops talking: at *)
(* some moment, in any state, no message arrives any more, and only the    *)
(* application goes on calling pldm_fd_progress.                           *)
(***************************************************************************)
EXTENDS FirmwareDevice

VARIABLE silent    \* no request or response arrives any more

silentVars == <<fd, app, silent>>

SilentInit == Init /\ silent = FALSE

Message == ~silent /\ (Request \/ Response) /\ UNCHANGED silent

Local == (Progress \/ Setting \/ Tick) /\ UNCHANGED silent

FallSilent == ~silent /\ silent' = TRUE /\ UNCHANGED vars

SilentNext == Message \/ Local \/ FallSilent

\* A pldm_fd_progress call by an application whose verify and apply finish, with
\* room for the request.
ProgressDone ==
    /\ UNCHANGED silent
    /\ \E delay \in Delays :
          \/ ProgressDownload(delay, TRUE)
          \/ \E res \in CallbackResults :
                \/ ProgressVerify(res, FALSE, delay, TRUE)
                \/ ProgressApply(res, FALSE, delay, TRUE)
          \/ ProgressOther(delay)

\* The clock advances, and pldm_fd_progress is called again and again ("could be
\* called periodically by the application", firmware_fd.h) by an application whose
\* asynchronous verify or apply is over one day.
SilentSpec ==
    /\ SilentInit
    /\ [][SilentNext]_silentVars
    /\ WF_silentVars(Tick /\ UNCHANGED silent)
    /\ WF_silentVars(ProgressDone)

\* Once the UA is silent the responder leaves update mode, unless an operation has
\* failed: no retry of a request, and no state waiting for the UA, goes on forever
\* (the T1 check of pldm_fd_progress, which a request sent does not restart).
SilentUAEndsUpdate ==
    silent ~> \/ fd.state = "IDLE"
              \/ fd.state \in FDDriven /\ fd.req = "FAILED"

=============================================================================
