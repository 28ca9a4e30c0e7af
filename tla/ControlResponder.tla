-------------------------- MODULE ControlResponder --------------------------
(***************************************************************************)
(* An application that answers requests of the base type: it receives a    *)
(* message from the demux daemon, has pldm_control_handle_msg answer it,   *)
(* and sends the response to the terminus the message came from. Between   *)
(* these calls it registers types and changes the map, as a callback of    *)
(* its own or another daemon's news would make it.                         *)
(***************************************************************************)
EXTENDS Control, MctpDemux

CONSTANTS
    RespLens,          \* sizes of the buffer for a response
    Capacity           \* the messages that wait in the socket at most

VARIABLES
    pc,                \* the next call of the loop
    asked,             \* the message, its terminus, and whence it came
    answer,            \* what handle_msg left
    sent               \* where a response has just been sent

vars == <<controlvars, demuxvars, pc, asked, answer, sent>>
loopvars == <<pc, asked, answer, sent>>

NotAnswered == Refused(None)

Init ==
    /\ ControlInit /\ DemuxInit
    /\ pc = "recv" /\ asked = None /\ answer = NotAnswered /\ sent = NoEid

\* asked.kept: the endpoint alone has its terminus, and nobody has changed that.
Receive ==
    /\ pc = "recv"
    /\ \E rc \in {"SUCCESS", "RECV_FAIL", "INVALID_RECV_LEN", "NOT_PLDM_MSG"} :
          /\ pldm_transport_mctp_demux_recv(rc)
          /\ IF rc = "SUCCESS"
             THEN LET from == Head(inbox).eid
                      tid == pldm_transport_mctp_demux_get_tid(from)
                  IN /\ asked' = [tid |-> tid, msg |-> Head(inbox).msg,
                                  from |-> from,
                                  kept |-> \A eid \in EIDs \ {from} :
                                               tid_eid_map[eid] # tid]
                     /\ pc' = "handle"
             ELSE UNCHANGED <<asked, pc>>
    /\ sent' = NoEid
    /\ UNCHANGED <<controlvars, answer>>

\* The request is freed when it has been handled; without a response the loop
\* goes on to the next.
Handle ==
    /\ pc = "handle"
    /\ \E resp_len \in RespLens :
          LET a == pldm_control_handle_msg(types, asked.msg, resp_len)
          IN IF a.rc = "OK"
             THEN /\ pc' = "send" /\ answer' = a
                  /\ asked' = [asked EXCEPT !.msg = NULL]
             ELSE pc' = "recv" /\ answer' = NotAnswered /\ asked' = None
    /\ UNCHANGED <<controlvars, demuxvars, sent>>

Send ==
    /\ pc = "send"
    /\ \E rc \in {"SUCCESS", "SEND_FAIL"} :
          /\ pldm_transport_mctp_demux_send(asked.tid, answer.len, rc)
          /\ sent' = IF rc = "SUCCESS"
                     THEN pldm_transport_mctp_demux_get_eid(asked.tid)
                     ELSE NoEid
    /\ pc' = "recv" /\ asked' = None /\ answer' = NotAnswered
    /\ UNCHANGED controlvars

Change(tid, eid) ==
    /\ \/ pldm_transport_mctp_demux_map_tid(tid, eid)
       \/ pldm_transport_mctp_demux_unmap_tid(eid)
    /\ asked' = IF pc = "recv" THEN asked ELSE [asked EXCEPT !.kept = FALSE]
    /\ UNCHANGED <<controlvars, pc, answer, sent>>

Open == pldm_transport_mctp_demux_init /\ UNCHANGED <<controlvars, loopvars>>

Close ==
    /\ pc = "recv" /\ pldm_transport_mctp_demux_destroy
    /\ sent' = NoEid
    /\ UNCHANGED <<controlvars, pc, asked, answer>>

\* The messages the daemon delivers.
Messages == [eid : EIDs, pldm : {TRUE}, msg : Requests] \cup
            [eid : EIDs, pldm : {FALSE}, msg : {CHOOSE r \in Requests : TRUE}]

Configure == (Register \/ pldm_control_setup) /\ UNCHANGED <<demuxvars, loopvars>>

Environment ==
    /\ \/ \E m \in Messages : Arrive(m, Capacity)
       \/ \E value \in WmemMaxes : Sysctl(value)
    /\ UNCHANGED <<controlvars, loopvars>>

Next ==
    \/ Receive \/ Handle \/ Send \/ Open \/ Close \/ Configure \/ Environment
    \/ \E tid \in TIDs, eid \in EIDs : Change(tid, eid)

Spec == Init /\ [][Next]_vars

-----------------------------------------------------------------------------
(* Properties *)

\* A response goes to the endpoint whose request it answers, if that endpoint's
\* terminus was mapped to no other and stayed so until the response was sent;
\* and a message up to the limit that was in force when the transport was
\* initialised finds twice its length of buffer.
AnswerReachesAsker ==
    [][Send /\ sent' # NoEid =>
           /\ asked.kept => sent' = asked.from
           /\ ~lowered /\ answer.len <= sndbuf.max_size =>
                  sk_sndbuf' >= 2 * answer.len]_vars
=============================================================================
