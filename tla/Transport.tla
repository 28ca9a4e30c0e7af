------------------------------ MODULE Transport ------------------------------
(***************************************************************************)
(* pldm_transport_send_recv_msg of src/transport/transport.c: one process  *)
(* sends requests and waits for the response to each, over a transport on  *)
(* which anything may arrive at any time.                                  *)
(*                                                                         *)
(* Every call reuses the header of the one before, the worst case for      *)
(* telling responses apart.  A response to an earlier request is assumed   *)
(* to arrive before its instance ID is used again, if it does.             *)
(*                                                                         *)
(* elapsed is the time since the request was sent, and stops just after    *)
(* the deadline, where every comparison has its final outcome.             *)
(*                                                                         *)
(* An operator named X_Y is X with the defect Y, and used nowhere.         *)
(***************************************************************************)
EXTENDS Integers, Sequences

CONSTANTS
    DRAIN_MAX,    \* (PLDM_INSTANCE_MAX + 1) * PLDM_MAX_TIDS
    MSEC,         \* the clock's ticks in a millisecond
    MAX_RESPONSE_INTERVAL,    \* 4800 ms, in ticks
    QueueMax      \* bound: how many messages wait in the socket

ASSUME TransportAssumption ==
    /\ DRAIN_MAX \in Nat
    /\ MSEC \in Nat \ {0}
    /\ MAX_RESPONSE_INTERVAL \in Nat
    /\ QueueMax \in Nat

VARIABLES
    pollable,    \* the transport has init_pollfd
    queue,       \* the messages in the socket
    pc, cnt, now, rc,    \* of the call; rc is what the last one returned
    left,        \* the time poll() may still block
    elapsed,
    resp,        \* *pldm_resp_msg: "null", "live" or "dangling"
    answer,      \* the message returned
    heap,        \* how many messages are allocated
    faulty       \* a system call has failed in this call

callVars == <<pc, cnt, now, rc, left, resp, answer, heap, faulty>>
vars == <<pollable, queue, elapsed, callVars>>

-----------------------------------------------------------------------------
(* Messages *)

tid == 1

\* The fields of struct pldm_msg_hdr that are looked at.
Header == [request : 0 .. 1, instance_id : 0 .. 1, type : 0 .. 1, command : 0 .. 1]

req_hdr == [request |-> 1, instance_id |-> 0, type |-> 0, command |-> 0]

\* What a message is to the reader of this specification: the response to the
\* request of this call or of an earlier one, or neither.
Origin == {"current", "earlier", "neither"}

\* A message in the socket; a short one is rejected, and an empty one is seen by
\* recv(MSG_PEEK) as a length of 0 and never taken out.
Message ==
    [src : 0 .. 1, hdr : Header, origin : Origin, form : {"whole", "short", "empty"}]

Correlates_Requests(req, rsp) ==
    /\ req.instance_id = rsp.instance_id
    /\ req.request = 1 /\ rsp.request = 1
    /\ req.type = rsp.type
    /\ req.command = rsp.command

\* pldm_msg_hdr_correlate_response
Correlates(req, rsp) ==
    /\ req.instance_id = rsp.instance_id
    /\ req.request = 1 /\ rsp.request = 0
    /\ req.type = rsp.type
    /\ req.command = rsp.command

Response(origin) ==
    [src |-> tid, hdr |-> [req_hdr EXCEPT !.request = 0], origin |-> origin,
     form |-> "whole"]

\* Everything else that may arrive, as near to the response as can be.
Unrelated ==
    LET r == Response("neither")
    IN  {[r EXCEPT !.src = 0], [r EXCEPT !.hdr.request = 1],
         [r EXCEPT !.hdr.instance_id = 1], [r EXCEPT !.hdr.type = 1],
         [r EXCEPT !.hdr.command = 1], [r EXCEPT !.form = "short"],
         [r EXCEPT !.form = "empty"]}

NoMessage == [Response("neither") EXCEPT !.form = "empty"]

Waiting == pc \in {"wait", "poll", "recv"}

Arrive ==
    /\ Len(queue) < QueueMax
    /\ \E m \in Unrelated \cup {Response("current"), Response("earlier")} :
          /\ m.origin = "current" => Waiting
          /\ m.origin = "earlier" => pc = "idle"
          /\ queue' = Append(queue, m)
    /\ UNCHANGED <<pollable, elapsed, callVars>>

Tick ==
    /\ Waiting
    /\ elapsed <= MAX_RESPONSE_INTERVAL \/ left > 0
    /\ elapsed' = IF elapsed > MAX_RESPONSE_INTERVAL THEN elapsed ELSE elapsed + 1
    /\ left' = IF left > 0 THEN left - 1 ELSE 0
    /\ UNCHANGED <<pollable, queue, pc, cnt, now, rc, resp, answer, heap, faulty>>

-----------------------------------------------------------------------------
(* The calls on the transport *)

\* pldm_transport_poll finds a message, or does not know how to wait for one.
Ready == pollable => queue # <<>>

\* malloc() and free() of a message, as the count of those allocated sees them.
Allocated(n) == n + 1
Freed(n) == n - 1

\* pldm_transport_recv_msg: what it returns, what it leaves in the socket, in
\* *pldm_msg and on the heap.  An allocation fails before the message is taken
\* out; a short message is allocated and freed by the transport or, with NULL, by
\* the caller of the transport.
RecvMsg(fault) ==
    IF fault \/ queue = <<>> \/ Head(queue).form = "empty"
    THEN {[rc |-> "RECV_FAIL", queue |-> queue, resp |-> resp, heap |-> heap]}
    ELSE IF Head(queue).form = "short"
    THEN {[rc |-> "INVALID_RECV_LEN", queue |-> Tail(queue), resp |-> p,
           heap |-> Freed(Allocated(heap))] : p \in {resp, "null"}}
    ELSE {[rc |-> "SUCCESS", queue |-> Tail(queue), resp |-> "live",
           heap |-> Allocated(heap)]}

\* What was received is not what is wanted, and freed if there is a message.
Discard(r) ==
    IF r.rc = "SUCCESS" THEN resp' = "dangling" /\ heap' = Freed(r.heap)
                        ELSE resp' = r.resp /\ heap' = r.heap

-----------------------------------------------------------------------------
(* pldm_transport_send_recv_msg, with at most one step for each call it makes *)

Init ==
    /\ pollable \in BOOLEAN
    /\ queue = <<>>
    /\ pc = "idle" /\ rc = "NONE"
    /\ cnt = 0 /\ now = 0 /\ left = 0 /\ elapsed = 0
    /\ resp = "null" /\ answer = NoMessage /\ heap = 0
    /\ faulty = FALSE

\* The caller has disposed of the last response, and passes a null pointer.
Call ==
    /\ pc = "idle"
    /\ pc' = "drain" /\ rc' = "NONE"
    /\ cnt' = 0 /\ now' = 0 /\ left' = 0 /\ elapsed' = 0
    /\ resp' = "null" /\ answer' = NoMessage
    /\ heap' = IF rc = "SUCCESS" THEN Freed(heap) ELSE heap
    /\ faulty' = FALSE
    /\ queue' = [i \in DOMAIN queue |->
                    IF queue[i].origin = "current"
                    THEN [queue[i] EXCEPT !.origin = "earlier"] ELSE queue[i]]
    /\ UNCHANGED pollable

Return(code) == pc' = "idle" /\ rc' = code

Drain_Once(fault) ==
    /\ pc = "drain" /\ cnt = 0 /\ Ready
    /\ \E r \in RecvMsg(fault) : queue' = r.queue /\ Discard(r)
    /\ cnt' = cnt + 1 /\ pc' = "send"
    /\ UNCHANGED <<pollable, elapsed, now, rc, left, answer>>

\* One turn of the loop that empties the transport; the message is freed.
Drain(fault) ==
    /\ pc = "drain" /\ cnt <= DRAIN_MAX /\ Ready
    /\ \E r \in RecvMsg(fault) : queue' = r.queue /\ Discard(r)
    /\ cnt' = cnt + 1
    /\ UNCHANGED <<pollable, elapsed, pc, now, rc, left, answer>>

\* The loop is over: by its count, or because poll() found nothing or failed.
Drained(fault) ==
    /\ pc = "drain"
    /\ \/ cnt > DRAIN_MAX /\ ~fault
       \/ cnt <= DRAIN_MAX /\ pollable /\ (fault \/ queue = <<>>)
    /\ IF cnt = DRAIN_MAX THEN Return("TRANSPORT_BUSY") ELSE pc' = "send" /\ UNCHANGED rc
    /\ UNCHANGED <<pollable, queue, elapsed, cnt, now, left, resp, answer, heap>>

\* The request is sent and the clock read; either may fail.
Send(fault) ==
    /\ pc = "send"
    /\ IF fault THEN \E code \in {"SEND_FAIL", "POLL_FAIL"} : Return(code)
       ELSE pc' = "wait" /\ UNCHANGED rc
    /\ UNCHANGED <<pollable, queue, elapsed, cnt, now, left, resp, answer, heap>>

Timeout_Coarse(remaining) == remaining - (remaining % (2 * MSEC))

\* timeval_to_msec: what remains, rounded down to a millisecond.
Timeout(remaining) == remaining - (remaining % MSEC)

\* The head of the loop.  What remains is positive and at most 4800 ms, so
\* timeval_validate_for_msec() accepts it.
Wait(fault) ==
    /\ pc = "wait" /\ ~fault
    /\ IF now < MAX_RESPONSE_INTERVAL
       THEN /\ pc' = "poll"
            /\ left' = Timeout(MAX_RESPONSE_INTERVAL - now)
            /\ UNCHANGED rc
       ELSE Return("RECV_FAIL") /\ UNCHANGED left
    /\ UNCHANGED <<pollable, queue, elapsed, cnt, now, resp, answer, heap>>

PollReady_StaleClock(fault) ==
    /\ pc = "poll" /\ Ready
    /\ IF fault THEN Return("POLL_FAIL") ELSE pc' = "recv" /\ UNCHANGED rc
    /\ left' = 0
    /\ UNCHANGED <<pollable, queue, elapsed, cnt, now, resp, answer, heap>>

\* poll() returns 1, and the clock is read again, which may fail.
PollReady(fault) ==
    /\ pc = "poll" /\ Ready
    /\ IF fault THEN Return("POLL_FAIL") /\ UNCHANGED now
       ELSE pc' = "recv" /\ now' = elapsed /\ UNCHANGED rc
    /\ left' = 0
    /\ UNCHANGED <<pollable, queue, elapsed, cnt, resp, answer, heap>>

\* poll() returns 0 or fails.
PollFails(fault) ==
    /\ pc = "poll" /\ pollable
    /\ fault \/ (queue = <<>> /\ left = 0)
    /\ Return("RECV_FAIL")
    /\ left' = 0
    /\ UNCHANGED <<pollable, queue, elapsed, cnt, now, resp, answer, heap>>

\* A message that is not the response is freed, and the loop goes on.
Recv(fault) ==
    /\ pc = "recv"
    /\ \E r \in RecvMsg(fault) :
          LET m == Head(queue)
          IN  /\ queue' = r.queue
              /\ IF r.rc = "SUCCESS" /\ m.src = tid /\ Correlates(req_hdr, m.hdr)
                 THEN /\ Return("SUCCESS") /\ answer' = m
                      /\ resp' = r.resp /\ heap' = r.heap
                 ELSE pc' = "wait" /\ Discard(r) /\ UNCHANGED <<rc, answer>>
    /\ UNCHANGED <<pollable, elapsed, cnt, now, left>>

\* A step of the call in which a system call fails, or none does.
Step(fault) ==
    /\ faulty' = (faulty \/ fault)
    /\ \/ Drain(fault) \/ Drained(fault) \/ Send(fault) \/ Wait(fault)
       \/ PollReady(fault) \/ PollFails(fault) \/ Recv(fault)

Next == Arrive \/ Tick \/ Call \/ \E fault \in BOOLEAN : Step(fault)

Spec == Init /\ [][Next]_vars

\* The clock runs, and so does the process; no failure is counted on.
FairSpec == Spec /\ WF_vars(Tick) /\ WF_vars(Step(FALSE))

-----------------------------------------------------------------------------
(* Properties *)

TypeOK ==
    /\ pollable \in BOOLEAN
    /\ queue \in Seq(Message)
    /\ pc \in {"idle", "drain", "send", "wait", "poll", "recv"}
    /\ cnt \in 0 .. (DRAIN_MAX + 1)
    /\ now \in 0 .. (MAX_RESPONSE_INTERVAL + 1)
    /\ elapsed \in 0 .. (MAX_RESPONSE_INTERVAL + 1)
    /\ left \in 0 .. MAX_RESPONSE_INTERVAL
    /\ rc \in {"NONE", "SUCCESS", "TRANSPORT_BUSY", "SEND_FAIL", "POLL_FAIL", "RECV_FAIL"}
    /\ resp \in {"null", "live", "dangling"}
    /\ answer \in Message
    /\ heap \in Nat
    /\ faulty \in BOOLEAN

\* What the call returns is the response to its own request.  That of an earlier
\* one with the same header, left in the socket, gets through only if the drain
\* came to an end by its count or by a failing call.
OwnResponse ==
    rc = "SUCCESS" =>
       \/ answer.origin = "current"
       \/ answer.origin = "earlier" /\ (faulty \/ cnt > DRAIN_MAX)

\* "RECV_FAIL" without a failing call means that the response did not come within
\* 4800 ms, give or take the millisecond that timeval_to_msec() rounds away,
\* however many other messages came.
NoEarlyTimeout ==
    rc = "RECV_FAIL" /\ ~faulty => elapsed > MAX_RESPONSE_INTERVAL - MSEC

\* Of the messages received in this call and the earlier ones, one is still
\* allocated when the call succeeds, the one that it returns; and none when it
\* fails or goes on, and the caller has no pointer to one.
NoMessageLeaked ==
    /\ heap = IF rc = "SUCCESS" THEN 1 ELSE 0
    /\ resp = "live" <=> rc = "SUCCESS"

\* The response, once in the socket, is not thrown away by the call that waits for
\* it: it leaves the socket only as the result.
ResponseNotDiscarded ==
    [][\A i \in DOMAIN queue :
          queue[i].origin = "current" /\ pc # "idle" =>
             \/ \E j \in DOMAIN queue' : queue'[j].origin = "current"
             \/ rc' = "SUCCESS"]_vars

\* Every call returns, whatever arrives and however fast: the drain is bounded by
\* its count and the wait by the clock.
CallReturns == pc # "idle" ~> pc = "idle"

\* The inductive invariant behind OwnResponse, NoEarlyTimeout and NoMessageLeaked.
\* After a drain that ended because poll() found nothing no response to an earlier
\* request is left; a message that passes for the response is one; and poll() will
\* not give up before the deadline, less a millisecond.
IInv ==
    /\ TypeOK
    /\ pc # "idle" => rc = "NONE"
    /\ pc \in {"send", "wait", "poll", "recv"} /\ ~faulty /\ cnt <= DRAIN_MAX =>
          \A i \in 1 .. Len(queue) : queue[i].origin # "earlier"
    /\ \A i \in 1 .. Len(queue) :
          LET m == queue[i]
          IN  m.form = "whole" /\ m.src = tid /\ Correlates(req_hdr, m.hdr) =>
                 m.origin # "neither"
    /\ now <= elapsed
    /\ pc = "poll" => elapsed + left > MAX_RESPONSE_INTERVAL - MSEC
    /\ OwnResponse
    /\ NoEarlyTimeout
    /\ NoMessageLeaked

=============================================================================
