--------------------------- MODULE TransportProofs ---------------------------
(***************************************************************************)
(* That pldm_transport_send_recv_msg returns its own response, does not    *)
(* time out early and frees what it does not return, for every bound of    *)
(* the drain, every deadline and every resolution of the clock.            *)
(*                                                                         *)
(* Below, that the AF_MCTP transport sends every response to the endpoint  *)
(* that asked, and keeps the cookies of exactly the unanswered requests,   *)
(* for any sets of TIDs, networks, endpoints and request headers and any   *)
(* number of requests.                                                     *)
(***************************************************************************)
EXTENDS Transport, AfMctp, TLAPS

\* The inductive invariant, as the messages in the socket see it.
Clean(q) == \A i \in 1 .. Len(q) : q[i].origin # "earlier"

Genuine(m) ==
    m.form = "whole" /\ m.src = tid /\ Correlates(req_hdr, m.hdr) => m.origin # "neither"

AllGenuine(q) == \A i \in 1 .. Len(q) : Genuine(q[i])

Parts ==
    /\ TypeOK
    /\ pc # "idle" => rc = "NONE"
    /\ pc \in {"send", "wait", "poll", "recv"} /\ ~faulty /\ cnt <= DRAIN_MAX =>
          Clean(queue)
    /\ AllGenuine(queue)
    /\ now <= elapsed
    /\ pc = "poll" => elapsed + left > MAX_RESPONSE_INTERVAL - MSEC
    /\ OwnResponse /\ NoEarlyTimeout /\ NoMessageLeaked

\* The inductive invariant in these terms, before a step and after it.
LEMMA IInvIs == (IInv <=> Parts) /\ (IInv' <=> Parts')
  BY DEF IInv, Parts, Clean, AllGenuine, Genuine

\* timeval_to_msec() takes off less than a millisecond.
LEMMA TimeoutBounds ==
    ASSUME NEW r \in Nat
    PROVE  Timeout(r) \in 0 .. r /\ r - Timeout(r) < MSEC
  <1>1. r % MSEC \in 0 .. (MSEC - 1)
    BY TransportAssumption DEF TransportAssumption
  <1>2. r % MSEC <= r
    BY TransportAssumption, SMT DEF TransportAssumption
  <1> QED
    BY <1>1, <1>2, TransportAssumption DEF TransportAssumption, Timeout

\* What may arrive is a message, and passes for the response only if it is one.
LEMMA ArrivalsGenuine ==
    ASSUME NEW m \in Unrelated \cup {Response("current"), Response("earlier")}
    PROVE  m \in Message /\ Genuine(m)
  <1> DEFINE h == [request |-> 0, instance_id |-> 0, type |-> 0, command |-> 0]
  <1>1. \A o \in Origin : Response(o) = [src |-> 1, hdr |-> h, origin |-> o, form |-> "whole"]
    <2>1. [req_hdr EXCEPT !.request = 0] = h
      BY DEF req_hdr
    <2> HIDE DEF h
    <2> QED
      BY <2>1 DEF Response, tid
  <1>2. \/ m \in {Response("current"), Response("earlier")}
        \/ m \in {[Response("neither") EXCEPT !.src = 0],
                  [Response("neither") EXCEPT !.form = "short"],
                  [Response("neither") EXCEPT !.form = "empty"]}
        \/ m \in {[Response("neither") EXCEPT !.hdr.request = 1],
                  [Response("neither") EXCEPT !.hdr.instance_id = 1],
                  [Response("neither") EXCEPT !.hdr.type = 1],
                  [Response("neither") EXCEPT !.hdr.command = 1]}
    BY DEF Unrelated
  <1>3. \/ m.src = 0 \/ m.form # "whole" \/ m.origin # "neither"
        \/ m.hdr.request = 1 \/ m.hdr.instance_id = 1 \/ m.hdr.type = 1 \/ m.hdr.command = 1
    BY <1>1, <1>2 DEF Origin
  <1>4. m \in Message
    BY <1>1, <1>2 DEF Origin, Message, Header
  <1> QED
    BY <1>3, <1>4 DEF Genuine, Correlates, req_hdr, tid

\* The first message is taken out, and the others keep their order.
LEMMA TailFacts ==
    ASSUME NEW q \in Seq(Message), q # <<>>
    PROVE  /\ Tail(q) \in Seq(Message) /\ Head(q) \in Message /\ Head(q) = q[1]
           /\ Clean(q) => Clean(Tail(q))
           /\ AllGenuine(q) => AllGenuine(Tail(q)) /\ Genuine(Head(q))
  <1>1. /\ Tail(q) \in Seq(Message) /\ Head(q) \in Message /\ Head(q) = q[1]
        /\ Len(q) \in Nat \ {0} /\ Len(Tail(q)) = Len(q) - 1
    OBVIOUS
  <1>2. \A i \in 1 .. Len(Tail(q)) : Tail(q)[i] = q[i + 1] /\ i + 1 \in 1 .. Len(q)
    BY <1>1
  <1>3. 1 \in 1 .. Len(q)
    BY <1>1
  <1> HIDE DEF Genuine
  <1> QED
    BY <1>1, <1>2, <1>3 DEF Clean, AllGenuine

\* What pldm_transport_recv_msg returns and leaves in the socket and on the heap.
LEMMA RecvFacts ==
    ASSUME TypeOK, NEW fault \in BOOLEAN, NEW r \in RecvMsg(fault)
    PROVE  /\ r.queue \in Seq(Message)
           /\ r.rc \in {"SUCCESS", "RECV_FAIL", "INVALID_RECV_LEN"}
           /\ r.resp \in {"null", "live", "dangling"}
           /\ Clean(queue) => Clean(r.queue)
           /\ AllGenuine(queue) => AllGenuine(r.queue)
           /\ r.rc = "SUCCESS" => /\ queue # <<>> /\ Head(queue) \in Message
                      /\ Head(queue).form = "whole"
                      /\ Head(queue) = queue[1] /\ 1 \in 1 .. Len(queue)
                      /\ r.resp = "live" /\ r.heap = heap + 1
           /\ r.rc # "SUCCESS" => r.resp \in {resp, "null"} /\ r.heap = heap
  <1>1. queue \in Seq(Message) /\ resp \in {"null", "live", "dangling"} /\ heap \in Nat
    BY DEF TypeOK
  <1>2. CASE fault \/ queue = <<>> \/ Head(queue).form = "empty"
    <2>1. r = [rc |-> "RECV_FAIL", queue |-> queue, resp |-> resp, heap |-> heap]
      BY <1>2 DEF RecvMsg
    <2> QED
      BY <1>1, <2>1
  <1>3. CASE ~(fault \/ queue = <<>> \/ Head(queue).form = "empty")
    <2>1. queue # <<>> BY <1>3
    <2>2. /\ Tail(queue) \in Seq(Message) /\ Head(queue) \in Message /\ Head(queue) = queue[1]
          /\ Clean(queue) => Clean(Tail(queue))
          /\ AllGenuine(queue) => AllGenuine(Tail(queue))
      BY <1>1, <2>1, TailFacts
    <2>3. 1 \in 1 .. Len(queue)
      BY <1>1, <2>1
    <2>4. Head(queue).form \in {"whole", "short", "empty"}
      BY <2>2 DEF Message
    <2>5. \/ Head(queue).form = "short" /\ \E p \in {resp, "null"} :
                r = [rc |-> "INVALID_RECV_LEN", queue |-> Tail(queue), resp |-> p,
                     heap |-> Freed(Allocated(heap))]
          \/ /\ Head(queue).form = "whole"
             /\ r = [rc |-> "SUCCESS", queue |-> Tail(queue), resp |-> "live",
                     heap |-> Allocated(heap)]
      BY <1>3, <2>4 DEF RecvMsg
    <2>6. /\ r.queue = Tail(queue)
          /\ r.rc \in {"SUCCESS", "RECV_FAIL", "INVALID_RECV_LEN"}
          /\ r.resp \in {"null", "live", "dangling"}
      BY <1>1, <2>5
    <2>7. IF r.rc = "SUCCESS"
          THEN Head(queue).form = "whole" /\ r.resp = "live" /\ r.heap = Allocated(heap)
          ELSE r.resp \in {resp, "null"} /\ r.heap = Freed(Allocated(heap))
      BY <2>5
    <2>8. Allocated(heap) = heap + 1 /\ Freed(Allocated(heap)) = heap
      BY <1>1 DEF Allocated, Freed
    <2> QED
      BY <2>1, <2>2, <2>3, <2>6, <2>7, <2>8
  <1> QED
    BY <1>2, <1>3

\* A message that is not wanted leaves the heap as it was before it came, and the
\* caller without a message.
LEMMA DiscardFacts ==
    ASSUME TypeOK, NEW fault \in BOOLEAN, NEW r \in RecvMsg(fault), Discard(r),
           resp # "live"
    PROVE  heap' = heap /\ resp' \in {"null", "dangling"}
  <1>1. heap \in Nat /\ resp \in {"null", "live", "dangling"}
    BY DEF TypeOK
  <1>2. /\ r.rc = "SUCCESS" => r.heap = heap + 1
        /\ r.rc # "SUCCESS" => r.resp \in {resp, "null"} /\ r.heap = heap
    BY RecvFacts
  <1> QED
    BY <1>1, <1>2 DEF Discard, Freed

-----------------------------------------------------------------------------
(* One lemma per action *)

\* The socket is empty, no call has been made.
LEMMA InitIInv == Init => IInv
  <1> SUFFICES ASSUME Init PROVE IInv
    OBVIOUS
  <1>1. NoMessage \in Message
    BY ArrivalsGenuine DEF NoMessage, Unrelated
  <1>2. TypeOK
    <2>1. pollable \in BOOLEAN /\ faulty \in BOOLEAN
      BY DEF Init
    <2> QED
      BY <1>1, <2>1, TransportAssumption DEF Init, TypeOK, TransportAssumption
  <1>3. Clean(queue) /\ AllGenuine(queue)
    BY DEF Init, Clean, AllGenuine
  <1> QED
    BY <1>2, <1>3, IInvIs DEF Parts, Init, OwnResponse, NoEarlyTimeout, NoMessageLeaked

\* A message arrives; a response to an earlier request only between two calls.
LEMMA ArriveStep == IInv /\ Arrive => IInv'
  <1> SUFFICES ASSUME IInv, Arrive PROVE IInv'
    OBVIOUS
  <1> USE IInvIs DEF Parts
  <1>1. PICK m \in Unrelated \cup {Response("current"), Response("earlier")} :
            (m.origin = "earlier" => pc = "idle") /\ queue' = Append(queue, m)
    BY DEF Arrive
  <1>2. m \in Message /\ Genuine(m)
    BY ArrivalsGenuine
  <1>3. UNCHANGED <<pollable, elapsed, pc, cnt, now, rc, left, resp, answer, heap, faulty>>
    BY DEF Arrive, callVars
  <1>4. queue \in Seq(Message) /\ TypeOK
    BY DEF TypeOK
  <1>5. queue' \in Seq(Message)
    BY <1>1, <1>2, <1>4
  <1>6. \A i \in 1 .. Len(queue') : queue'[i] = m \/ (i \in 1 .. Len(queue) /\ queue'[i] = queue[i])
    BY <1>1, <1>2, <1>4
  <1>7. TypeOK'
    BY <1>3, <1>4, <1>5 DEF TypeOK
  <1>8. AllGenuine(queue)'
    BY <1>2, <1>6 DEF AllGenuine
  <1>9. pc # "idle" /\ Clean(queue) => Clean(queue)'
    BY <1>1, <1>6 DEF Clean
  <1> QED
    BY <1>3, <1>7, <1>8, <1>9 DEF OwnResponse, NoEarlyTimeout, NoMessageLeaked

\* Time passes for poll() as for the deadline.
LEMMA TickStep == IInv /\ Tick => IInv'
  <1> SUFFICES ASSUME IInv, Tick PROVE IInv'
    OBVIOUS
  <1> USE IInvIs, TransportAssumption DEF TransportAssumption, Parts
  <1>1. TypeOK'
    <2>1. TypeOK
      OBVIOUS
    <2> HIDE IInvIs DEF Parts
    <2>2. elapsed' \in 0 .. (MAX_RESPONSE_INTERVAL + 1)
      BY <2>1 DEF Tick, TypeOK
    <2>3. left' \in 0 .. MAX_RESPONSE_INTERVAL
      BY <2>1 DEF Tick, TypeOK
    <2>4. UNCHANGED <<pollable, queue, pc, cnt, now, rc, resp, answer, heap, faulty>>
      BY DEF Tick
    <2> QED
      BY <2>1, <2>2, <2>3, <2>4 DEF TypeOK
  <1>2. (now <= elapsed)' /\ elapsed' >= elapsed
    BY DEF Tick, TypeOK
  <1>3. pc = "poll" => elapsed' + left' > MAX_RESPONSE_INTERVAL - MSEC
    <2>1. TypeOK /\ (pc = "poll" => elapsed + left > MAX_RESPONSE_INTERVAL - MSEC)
      OBVIOUS
    <2> HIDE IInvIs DEF Parts
    <2>2. elapsed \in Nat /\ left \in Nat
      BY <2>1 DEF TypeOK
    <2> QED
      BY <2>1, <2>2 DEF Tick
  <1>4. rc = "NONE" /\ UNCHANGED <<queue, pc, cnt, rc, answer, resp, heap, faulty>>
    BY DEF Tick, Waiting
  <1>5. OwnResponse' /\ NoEarlyTimeout' /\ NoMessageLeaked'
    BY <1>4 DEF OwnResponse, NoEarlyTimeout, NoMessageLeaked
  <1>6. Clean(queue)' = Clean(queue) /\ AllGenuine(queue)' = AllGenuine(queue)
    BY <1>4 DEF Clean, AllGenuine
  <1> QED
    BY <1>1, <1>2, <1>3, <1>4, <1>5, <1>6

\* What was the response of the last call is that of an earlier one now.
LEMMA CallStep == IInv /\ Call => IInv'
  <1> SUFFICES ASSUME IInv, Call PROVE IInv'
    OBVIOUS
  <1> USE IInvIs, TransportAssumption DEF TransportAssumption, Parts
  <1>1. NoMessage \in Message
    BY ArrivalsGenuine DEF NoMessage, Unrelated
  <1>2. queue \in Seq(Message) /\ AllGenuine(queue) /\ TypeOK
    BY DEF TypeOK
  <1> DEFINE Aged(m) == IF m.origin = "current" THEN [m EXCEPT !.origin = "earlier"] ELSE m
  <1>3. queue' = [i \in 1 .. Len(queue) |-> Aged(queue[i])]
    BY <1>2 DEF Call
  <1>4. \A m \in Message : Aged(m) \in Message /\ (Genuine(m) => Genuine(Aged(m)))
    BY DEF Message, Origin, Genuine
  <1> HIDE DEF Aged
  <1>5. \A i \in 1 .. Len(queue) : queue[i] \in Message
    BY <1>2
  <1>6. queue' \in Seq(Message) /\ Len(queue') = Len(queue)
    BY <1>2, <1>3, <1>4, <1>5
  <1>7. AllGenuine(queue)'
    BY <1>2, <1>3, <1>4, <1>5, <1>6 DEF AllGenuine
  <1>8. heap' = 0
    BY DEF Call, Freed, NoMessageLeaked
  <1>9. TypeOK'
    <2>1. (pollable \in BOOLEAN /\ faulty \in BOOLEAN)'
      BY <1>2 DEF Call, TypeOK
    <2> QED
      BY <1>1, <1>6, <1>8, <2>1 DEF Call, TypeOK
  <1> QED
    BY <1>7, <1>9, <1>8 DEF Call, OwnResponse, NoEarlyTimeout, NoMessageLeaked

\* What a step leaves alone: which messages are in the socket, or at least which
\* were not.
LEMMA SocketKept ==
    ASSUME queue' = queue
    PROVE  Clean(queue)' = Clean(queue) /\ AllGenuine(queue)' = AllGenuine(queue)
  BY DEF Clean, AllGenuine

\* A step records whether a call has failed.
LEMMA FaultyType ==
    ASSUME TypeOK, NEW fault \in BOOLEAN, faulty' = (faulty \/ fault)
    PROVE  faulty' \in BOOLEAN /\ (faulty => faulty')
  BY DEF TypeOK

\* A message is received and freed: what is left in the socket was there before.
LEMMA DrainStep ==
    ASSUME IInv, NEW fault \in BOOLEAN, faulty' = (faulty \/ fault), Drain(fault)
    PROVE  IInv'
  <1> USE IInvIs, TransportAssumption DEF TransportAssumption, Parts
  <1>1. PICK r \in RecvMsg(fault) : queue' = r.queue /\ Discard(r)
    BY DEF Drain
  <1>2. /\ r.queue \in Seq(Message)
        /\ AllGenuine(queue) => AllGenuine(r.queue)
    BY RecvFacts
  <1>3. heap' = heap /\ resp' \in {"null", "dangling"}
    BY <1>1, DiscardFacts DEF Drain, NoMessageLeaked
  <1>4. faulty' \in BOOLEAN
    BY FaultyType
  <1>5. TypeOK'
    BY <1>1, <1>2, <1>4, <1>3 DEF Drain, TypeOK
  <1>6. AllGenuine(queue)'
    BY <1>1, <1>2
  <1>7. rc = "NONE" /\ UNCHANGED <<elapsed, pc, now, rc>> /\ pc = "drain"
    BY DEF Drain
  <1> QED
    BY <1>5, <1>6, <1>7, <1>3 DEF OwnResponse, NoEarlyTimeout, NoMessageLeaked

\* The drain ends with an empty socket, with a failure, or above its bound.
LEMMA DrainedStep ==
    ASSUME IInv, NEW fault \in BOOLEAN, faulty' = (faulty \/ fault), Drained(fault)
    PROVE  IInv'
  <1> USE IInvIs, TransportAssumption DEF TransportAssumption, Parts
  <1>1. faulty' \in BOOLEAN
    BY FaultyType
  <1>2. TypeOK'
    BY <1>1 DEF Drained, Return, TypeOK
  <1>3. ~faulty' /\ cnt' <= DRAIN_MAX => Clean(queue)'
    <2>1. ~faulty' /\ cnt' <= DRAIN_MAX => queue' = <<>>
      BY DEF Drained, TypeOK
    <2> QED
      BY <2>1 DEF Clean
  <1>4. AllGenuine(queue)'
    BY SocketKept DEF Drained
  <1>5. /\ rc = "NONE" /\ UNCHANGED <<elapsed, now, heap, resp>>
        /\ (pc' = "idle" /\ rc' = "TRANSPORT_BUSY") \/ (pc' = "send" /\ rc' = "NONE")
    BY DEF Drained, Return
  <1> QED
    BY <1>2, <1>3, <1>4, <1>5 DEF OwnResponse, NoEarlyTimeout, NoMessageLeaked

\* The request is sent, or the call ends.
LEMMA SendStep ==
    ASSUME IInv, NEW fault \in BOOLEAN, faulty' = (faulty \/ fault), Send(fault)
    PROVE  IInv'
  <1> USE IInvIs DEF Parts
  <1>1. faulty' \in BOOLEAN /\ (faulty => faulty')
    BY FaultyType
  <1>2. /\ rc = "NONE" /\ pc = "send" /\ UNCHANGED <<queue, elapsed, cnt, now, heap, resp>>
        /\ \/ pc' = "idle" /\ rc' \in {"SEND_FAIL", "POLL_FAIL"}
           \/ pc' = "wait" /\ rc' = "NONE"
    BY DEF Send, Return
  <1>3. TypeOK'
    BY <1>1, <1>2 DEF Send, TypeOK
  <1>4. Clean(queue)' = Clean(queue) /\ AllGenuine(queue)' = AllGenuine(queue)
    BY <1>2, SocketKept
  <1> QED
    BY <1>1, <1>2, <1>3, <1>4 DEF OwnResponse, NoEarlyTimeout, NoMessageLeaked

\* poll() is given the time that remains, or none does.
LEMMA WaitStep ==
    ASSUME IInv, NEW fault \in BOOLEAN, faulty' = (faulty \/ fault), Wait(fault)
    PROVE  IInv'
  <1> USE IInvIs, TransportAssumption DEF TransportAssumption, Parts
  <1>1. faulty' \in BOOLEAN /\ (faulty => faulty')
    BY FaultyType
  <1>2. /\ rc = "NONE" /\ pc = "wait" /\ UNCHANGED <<queue, elapsed, cnt, now, heap, resp>>
        /\ \/ /\ pc' = "poll" /\ rc' = "NONE" /\ now < MAX_RESPONSE_INTERVAL
              /\ left' = Timeout(MAX_RESPONSE_INTERVAL - now)
           \/ /\ pc' = "idle" /\ rc' = "RECV_FAIL" /\ left' = left
              /\ ~(now < MAX_RESPONSE_INTERVAL)
    BY DEF Wait, Return
  <1>3. now \in Nat /\ elapsed \in Nat /\ now <= elapsed
    BY DEF TypeOK
  <1>4. pc' = "poll" =>
           /\ left' \in 0 .. (MAX_RESPONSE_INTERVAL - now)
           /\ (MAX_RESPONSE_INTERVAL - now) - left' < MSEC
    <2> DEFINE remaining == MAX_RESPONSE_INTERVAL - now
    <2> SUFFICES ASSUME pc' = "poll"
                 PROVE  Timeout(remaining) \in 0 .. remaining /\ remaining - Timeout(remaining) < MSEC
      BY <1>2
    <2>1. remaining \in Nat
      BY <1>2, <1>3
    <2> QED
      BY <2>1, TimeoutBounds
  <1>5. left' \in 0 .. MAX_RESPONSE_INTERVAL
    BY <1>2, <1>3, <1>4 DEF TypeOK
  <1>6. TypeOK'
    BY <1>1, <1>2, <1>5 DEF Wait, TypeOK
  <1>7. Clean(queue)' = Clean(queue) /\ AllGenuine(queue)' = AllGenuine(queue)
    BY <1>2, SocketKept
  <1>8. pc' = "poll" => elapsed' + left' > MAX_RESPONSE_INTERVAL - MSEC
    BY <1>2, <1>3, <1>4, <1>5
  <1>9. NoEarlyTimeout'
    BY <1>2, <1>3 DEF NoEarlyTimeout
  <1> QED
    BY <1>1, <1>2, <1>6, <1>7, <1>8, <1>9 DEF OwnResponse, NoMessageLeaked

\* poll() returns: with a message, with nothing at the deadline, or with a failure.
LEMMA PollStep ==
    ASSUME IInv, NEW fault \in BOOLEAN, faulty' = (faulty \/ fault),
           PollReady(fault) \/ PollFails(fault)
    PROVE  IInv'
  <1> USE IInvIs, TransportAssumption DEF TransportAssumption, Parts
  <1>1. faulty' \in BOOLEAN /\ (faulty => faulty')
    BY FaultyType
  <1>2. /\ rc = "NONE" /\ pc = "poll" /\ left' = 0
        /\ UNCHANGED <<pollable, queue, elapsed, cnt, resp, answer, heap>>
        /\ now' \in {now, elapsed}
        /\ \/ pc' = "recv" /\ rc' = "NONE"
           \/ pc' = "idle" /\ rc' = "POLL_FAIL"
           \/ pc' = "idle" /\ rc' = "RECV_FAIL" /\ (fault \/ left = 0)
    BY DEF PollReady, PollFails, Return
  <1>3. TypeOK'
    BY <1>1, <1>2 DEF TypeOK
  <1>4. Clean(queue)' = Clean(queue) /\ AllGenuine(queue)' = AllGenuine(queue)
    BY <1>2, SocketKept
  <1>5. NoEarlyTimeout'
    BY <1>2 DEF NoEarlyTimeout, TypeOK
  <1>6. (now <= elapsed)'
    BY <1>2 DEF TypeOK
  <1> QED
    BY <1>1, <1>2, <1>3, <1>4, <1>5, <1>6 DEF OwnResponse, NoMessageLeaked

\* The response is returned, anything else is freed.
LEMMA RecvStep ==
    ASSUME IInv, NEW fault \in BOOLEAN, faulty' = (faulty \/ fault), Recv(fault)
    PROVE  IInv'
  <1> USE IInvIs, TransportAssumption DEF TransportAssumption, Parts
  <1>1. faulty' \in BOOLEAN /\ (faulty => faulty')
    BY FaultyType
  <1> DEFINE m == Head(queue)
             Mine == m.src = tid /\ Correlates(req_hdr, m.hdr)
  <1>2. PICK r \in RecvMsg(fault) :
           /\ queue' = r.queue
           /\ \/ /\ r.rc = "SUCCESS" /\ Mine /\ pc' = "idle" /\ rc' = "SUCCESS"
                 /\ resp' = r.resp /\ answer' = m /\ heap' = r.heap
              \/ /\ pc' = "wait" /\ Discard(r)
                 /\ UNCHANGED <<rc, answer>>
    BY DEF Recv, Return
  <1>3. /\ r.queue \in Seq(Message) /\ r.resp \in {"null", "live", "dangling"}
        /\ Clean(queue) => Clean(r.queue)
        /\ AllGenuine(queue) => AllGenuine(r.queue)
        /\ r.rc = "SUCCESS" => /\ m \in Message /\ m.form = "whole"
                               /\ m = queue[1] /\ 1 \in 1 .. Len(queue)
                               /\ r.resp = "live" /\ r.heap = heap + 1
    BY RecvFacts
  <1>4. /\ UNCHANGED <<pollable, elapsed, cnt, now, left>> /\ pc = "recv" /\ rc = "NONE"
        /\ heap = 0 /\ resp # "live"
    BY DEF Recv, NoMessageLeaked
  <1>5. IF rc' = "SUCCESS" THEN heap' = 1 /\ resp' = "live"
                            ELSE heap' = 0 /\ resp' \in {"null", "dangling"}
    BY <1>2, <1>3, <1>4, DiscardFacts
  <1>6. (Clean(queue) => Clean(queue)') /\ AllGenuine(queue)'
    BY <1>2, <1>3
  <1>7. rc' = "SUCCESS" => m.origin \in Origin \ {"neither"}
    BY <1>2, <1>3, <1>4 DEF AllGenuine, Genuine, Message
  <1>8. rc' = "SUCCESS" /\ ~faulty' /\ cnt' <= DRAIN_MAX => m.origin # "earlier"
    BY <1>1, <1>2, <1>3, <1>4 DEF Clean
  <1> HIDE DEF Mine
  <1>9. TypeOK'
    BY <1>1, <1>2, <1>3, <1>4, <1>5 DEF TypeOK
  <1>10. OwnResponse'
    BY <1>2, <1>4, <1>7, <1>8, <1>9 DEF OwnResponse, Origin, TypeOK
  <1> QED
    BY <1>1, <1>2, <1>4, <1>6, <1>9, <1>10, <1>5 DEF NoEarlyTimeout, NoMessageLeaked

-----------------------------------------------------------------------------
(* The theorems *)

\* Every step keeps the inductive invariant.
LEMMA IInvStep == IInv /\ [Next]_vars => IInv'
  <1> SUFFICES ASSUME IInv, [Next]_vars PROVE IInv'
    OBVIOUS
  <1>1. CASE Arrive BY <1>1, ArriveStep
  <1>2. CASE Tick BY <1>2, TickStep
  <1>3. CASE Call BY <1>3, CallStep
  <1>4. ASSUME NEW fault \in BOOLEAN, Step(fault) PROVE IInv'
    BY <1>4, DrainStep, DrainedStep, SendStep, WaitStep, PollStep, RecvStep DEF Step
  <1>5. CASE UNCHANGED vars
    BY <1>5 DEF vars, callVars, IInv, TypeOK, OwnResponse, NoEarlyTimeout, NoMessageLeaked
  <1> QED
    BY <1>1, <1>2, <1>3, <1>4, <1>5 DEF Next

\* The inductive invariant of pldm_transport_send_recv_msg holds.
THEOREM Invariance == Spec => []IInv
  BY InitIInv, IInvStep, PTL DEF Spec

\* The state of a call and of the transport under it keeps its types: in
\* particular the drain makes at most DRAIN_MAX + 1 turns.
THEOREM TypeCorrect == Spec => []TypeOK
  <1>1. IInv => TypeOK BY DEF IInv
  <1> QED BY <1>1, Invariance, PTL

\* pldm_transport_send_recv_msg returns the response to its own request, unless
\* the drain was cut short.
THEOREM ReturnsOwnResponse == Spec => []OwnResponse
  <1>1. IInv => OwnResponse BY DEF IInv
  <1> QED BY <1>1, Invariance, PTL

\* pldm_transport_send_recv_msg does not give up more than a millisecond early.
THEOREM TimesOutInTime == Spec => []NoEarlyTimeout
  <1>1. IInv => NoEarlyTimeout BY DEF IInv
  <1> QED BY <1>1, Invariance, PTL

\* pldm_transport_send_recv_msg frees every message it does not return.
THEOREM FreesMessages == Spec => []NoMessageLeaked
  <1>1. IInv => NoMessageLeaked BY DEF IInv
  <1> QED BY <1>1, Invariance, PTL


-----------------------------------------------------------------------------
(* The response is not thrown away *)

\* The response to the request of this call passes every test of the loop.
Own(m) ==
    m.origin = "current" =>
        m.form = "whole" /\ m.src = tid /\ Correlates(req_hdr, m.hdr)

AllOwn(q) == \A i \in 1 .. Len(q) : Own(q[i])

NoneYet(q) == \A i \in 1 .. Len(q) : q[i].origin # "current"

\* There is none before the request is sent, so that the drain takes none out.
AwaitInv == AllOwn(queue) /\ (pc \in {"drain", "send"} => NoneYet(queue))

\* What arrives as the response is one.
LEMMA ArrivalsOwn ==
    ASSUME NEW m \in Unrelated \cup {Response("current"), Response("earlier")}
    PROVE  Own(m)
  <1> DEFINE h == [request |-> 0, instance_id |-> 0, type |-> 0, command |-> 0]
  <1>1. \A o \in Origin : Response(o) = [src |-> 1, hdr |-> h, origin |-> o, form |-> "whole"]
    <2>1. [req_hdr EXCEPT !.request = 0] = h
      BY DEF req_hdr
    <2> HIDE DEF h
    <2> QED
      BY <2>1 DEF Response, tid
  <1>2. m.origin = "current" => m = Response("current")
    BY <1>1 DEF Unrelated, Origin
  <1>3. Response("current") = [src |-> 1, hdr |-> h, origin |-> "current", form |-> "whole"]
    BY <1>1 DEF Origin
  <1> QED
    BY <1>2, <1>3 DEF Own, Correlates, req_hdr, tid

\* recv takes at most the first message out of the socket, and only a message that
\* is not whole without success.
LEMMA RecvKeeps ==
    ASSUME TypeOK, AllOwn(queue), NEW fault \in BOOLEAN, NEW r \in RecvMsg(fault)
    PROVE  /\ AllOwn(r.queue)
           /\ NoneYet(queue) => NoneYet(r.queue)
           /\ \/ r.queue = queue
              \/ /\ queue # <<>> /\ r.queue = Tail(queue)
                 /\ Own(Head(queue))
                 /\ r.rc # "SUCCESS" => Head(queue).origin # "current"
  <1>1. queue \in Seq(Message)
    BY DEF TypeOK
  <1>2. CASE fault \/ queue = <<>> \/ Head(queue).form = "empty"
    BY <1>2 DEF RecvMsg
  <1>3. CASE ~(fault \/ queue = <<>> \/ Head(queue).form = "empty")
    <2>1. queue # <<>>
      BY <1>3
    <2>2. r.queue = Tail(queue) /\ (r.rc # "SUCCESS" => Head(queue).form = "short")
      BY <1>3 DEF RecvMsg
    <2>3. /\ Head(queue) = queue[1] /\ 1 \in 1 .. Len(queue)
          /\ \A i \in 1 .. Len(Tail(queue)) : /\ Tail(queue)[i] = queue[i + 1]
                                              /\ i + 1 \in 1 .. Len(queue)
      BY <1>1, <2>1
    <2>4. Own(Head(queue)) /\ AllOwn(r.queue)
      BY <2>2, <2>3 DEF AllOwn
    <2>5. NoneYet(queue) => NoneYet(r.queue)
      BY <2>2, <2>3 DEF NoneYet
    <2> QED
      BY <2>1, <2>2, <2>4, <2>5 DEF Own
  <1> QED
    BY <1>2, <1>3

\* Every step keeps AwaitInv; a step of the call takes the response out of the
\* socket only to return it.
LEMMA AwaitStep ==
    ASSUME TypeOK, AwaitInv, [Next]_vars
    PROVE  /\ AwaitInv'
           /\ \A i \in DOMAIN queue :
                 queue[i].origin = "current" /\ pc # "idle" =>
                    \/ \E j \in DOMAIN queue' : queue'[j].origin = "current"
                    \/ rc' = "SUCCESS"
  <1> DEFINE Kept == \A i \in DOMAIN queue :
                 queue[i].origin = "current" /\ pc # "idle" =>
                    \/ \E j \in DOMAIN queue' : queue'[j].origin = "current"
                    \/ rc' = "SUCCESS"
  <1>0. queue \in Seq(Message) /\ DOMAIN queue = 1 .. Len(queue)
    BY DEF TypeOK
  <1>1. CASE Arrive
    <2>1. PICK m \in Unrelated \cup {Response("current"), Response("earlier")} :
              (m.origin = "current" => Waiting) /\ queue' = Append(queue, m)
      BY <1>1 DEF Arrive
    <2>2. Own(m) /\ m \in Message
      BY ArrivalsOwn, ArrivalsGenuine
    <2>3. \A i \in 1 .. Len(queue') :
             queue'[i] = m \/ (i \in 1 .. Len(queue) /\ queue'[i] = queue[i])
      BY <1>0, <2>1, <2>2
    <2>4. \A i \in DOMAIN queue : i \in DOMAIN queue' /\ queue'[i] = queue[i]
      BY <1>0, <2>1, <2>2
    <2>5. pc' = pc
      BY <1>1 DEF Arrive, callVars
    <2> QED
      BY <2>1, <2>2, <2>3, <2>4, <2>5 DEF AwaitInv, AllOwn, NoneYet, Waiting
  <1>2. CASE Tick
    BY <1>2 DEF Tick, AwaitInv
  <1>3. CASE Call
    <2>1. DOMAIN queue' = DOMAIN queue /\ Len(queue') = Len(queue)
      BY <1>0, <1>3 DEF Call
    <2>2. \A i \in 1 .. Len(queue) : queue[i] \in Message
      BY <1>0
    <2>3. \A i \in 1 .. Len(queue) : queue'[i].origin # "current"
      BY <1>0, <1>3, <2>2 DEF Call, Message
    <2> QED
      BY <1>3, <2>1, <2>3 DEF Call, AwaitInv, AllOwn, Own, NoneYet
  <1>4. ASSUME NEW fault \in BOOLEAN, Step(fault) PROVE AwaitInv' /\ Kept
    <2>1. CASE Drain(fault)
      <3>1. PICK r \in RecvMsg(fault) : queue' = r.queue
        BY <2>1 DEF Drain
      <3>2. pc = "drain" /\ pc' = pc
        BY <2>1 DEF Drain
      <3> QED
        BY <1>0, <3>1, <3>2, RecvKeeps DEF AwaitInv, NoneYet
    <2>2. CASE Recv(fault)
      <3>1. PICK r \in RecvMsg(fault) :
               /\ queue' = r.queue
               /\ IF r.rc = "SUCCESS" /\ Head(queue).src = tid
                     /\ Correlates(req_hdr, Head(queue).hdr)
                  THEN Return("SUCCESS") ELSE pc' = "wait"
        BY <2>2 DEF Recv
      <3>2. pc' \in {"idle", "wait"}
        BY <3>1 DEF Return
      <3>3. AwaitInv'
        BY <3>1, <3>2, RecvKeeps DEF AwaitInv
      <3>4. CASE r.queue = queue
        BY <3>1, <3>3, <3>4
      <3>5. CASE /\ queue # <<>> /\ r.queue = Tail(queue)
                 /\ Own(Head(queue))
                 /\ r.rc # "SUCCESS" => Head(queue).origin # "current"
        <4>1. \A i \in DOMAIN queue :
                 IF i = 1 THEN queue[i] = Head(queue)
                 ELSE i - 1 \in DOMAIN Tail(queue) /\ Tail(queue)[i - 1] = queue[i]
          BY <1>0, <3>5
        <4>2. Head(queue).origin = "current" => rc' = "SUCCESS"
          BY <3>1, <3>5 DEF Own, Return
        <4>3. ASSUME NEW i \in DOMAIN queue, queue[i].origin = "current"
              PROVE  \/ \E j \in DOMAIN queue' : queue'[j].origin = "current"
                     \/ rc' = "SUCCESS"
          <5>1. CASE i = 1
            BY <4>1, <4>2, <4>3, <5>1
          <5>2. CASE i # 1
            <6>1. queue' = Tail(queue)
              BY <3>1, <3>5
            <6>2. i - 1 \in DOMAIN queue' /\ queue'[i - 1].origin = "current"
              BY <4>1, <4>3, <5>2, <6>1
            <6> QED
              BY <6>2
          <5> QED
            BY <5>1, <5>2
        <4> QED
          BY <3>3, <4>3
      <3> QED
        BY <3>1, <3>4, <3>5, RecvKeeps DEF AwaitInv
    <2>3. CASE Drained(fault) \/ Send(fault) \/ Wait(fault) \/ PollReady(fault) \/ PollFails(fault)
      <3>1. queue' = queue
        BY <2>3 DEF Drained, Send, Wait, PollReady, PollFails
      <3>2. pc' \in {"drain", "send"} => pc \in {"drain", "send"}
        BY <2>3 DEF Drained, Send, Wait, PollReady, PollFails, Return
      <3> QED
        BY <3>1, <3>2 DEF AwaitInv
    <2> QED
      BY <1>4, <2>1, <2>2, <2>3 DEF Step
  <1>5. CASE UNCHANGED vars
    BY <1>5 DEF vars, callVars, AwaitInv
  <1> QED
    BY <1>1, <1>2, <1>3, <1>4, <1>5 DEF Next

\* Once it is in the socket, the response to the request is not thrown away by
\* pldm_transport_send_recv_msg, neither by the drain nor among the messages
\* that do not match.
THEOREM KeepsResponse == Spec => ResponseNotDiscarded
  <1>1. Init => AwaitInv
    BY DEF Init, AwaitInv, AllOwn, NoneYet
  <1>2. Spec => []AwaitInv
    BY <1>1, TypeCorrect, AwaitStep, PTL DEF Spec
  <1> QED
    BY <1>2, TypeCorrect, AwaitStep, PTL DEF Spec, ResponseNotDiscarded

(***************************************************************************)
(* The AF_MCTP transport as a responder.                                   *)
(***************************************************************************)

\* The jar and the application's unanswered requests, relative to what was
\* received.
JarOf(j, t, q) ==
    /\ \A c, d \in j : c.tid = d.tid /\ c.id = d.id => c = d
    /\ \A c \in j : /\ c.n \in t
                    /\ q[c.n] = [tid |-> c.tid, id |-> c.id, smctp |-> c.smctp]
    /\ \A n \in t : \E c \in j : c.n = n

CookieParts == AfMctpTypeOK /\ JarOf(jar, todo, requests) /\ ResponseReachesAsker

\* The inductive invariant in these terms, before a step and after it.
LEMMA CookieInvIs == (CookieInv <=> CookieParts) /\ (CookieInv' <=> CookieParts')
  BY DEF CookieInv, CookieParts, JarOf

\* An address with the owner bit cleared is an address.
LEMMA ClearOwnerType ==
    ASSUME NEW a \in SockAddr PROVE ClearOwner(a) \in SockAddr
  BY DEF ClearOwner, SockAddr

\* After pldm_transport_af_mctp_init there is neither a cookie nor a request.
LEMMA CookieInvInit == pldm_transport_af_mctp_init => CookieInv
  <1> SUFFICES ASSUME pldm_transport_af_mctp_init PROVE CookieInv
    OBVIOUS
  <1>1. tid_map \in [TIDs -> FqAddr]
    BY DEF pldm_transport_af_mctp_init, FqAddr, Unmapped
  <1>2. AfMctpTypeOK
    <2>1. bound \in BOOLEAN
      BY DEF pldm_transport_af_mctp_init
    <2>2. jar \subseteq Cookie /\ answers \subseteq [n : Nat, smctp : SockAddr]
      BY DEF pldm_transport_af_mctp_init
    <2>3. requests \in Seq(Request) /\ todo \subseteq 1 .. Len(requests)
      BY DEF pldm_transport_af_mctp_init
    <2> QED
      BY <1>1, <2>1, <2>2, <2>3 DEF AfMctpTypeOK
  <1> QED
    BY <1>2, CookieInvIs DEF CookieParts, pldm_transport_af_mctp_init, JarOf, ResponseReachesAsker

\* Binding and the map leave requests and cookies alone.
LEMMA MapStep ==
    ASSUME CookieInv,
           \/ Bind
           \/ \E term \in TIDs, network \in Networks \cup {MCTP_NET_ANY}, eid \in EIDs :
                 MapTid(term, network, eid)
           \/ \E term \in TIDs : UnmapTid(term)
    PROVE  CookieInv'
  <1>1. UNCHANGED <<jar, requests, todo, answers>>
    BY DEF Bind, MapTid, UnmapTid
  <1>2. tid_map \in [TIDs -> FqAddr] /\ bound \in BOOLEAN /\ AfMctpTypeOK
    BY DEF CookieInv, AfMctpTypeOK
  <1>3. /\ Unmapped \in FqAddr
        /\ \A network \in Networks \cup {MCTP_NET_ANY}, eid \in EIDs :
              [net |-> network, eid |-> eid] \in FqAddr
    BY DEF Unmapped, FqAddr
  <1>4. tid_map' \in [TIDs -> FqAddr]
    BY <1>2, <1>3 DEF Bind, MapTid, UnmapTid
  <1>5. bound' \in BOOLEAN
    BY <1>2 DEF Bind, MapTid, UnmapTid
  <1>6. AfMctpTypeOK'
    BY <1>1, <1>2, <1>4, <1>5 DEF AfMctpTypeOK
  <1> QED
    BY <1>1, <1>6, CookieInvIs DEF CookieParts, ResponseReachesAsker

\* The new cookie has a TID and an ID that no other cookie has, and a number that
\* no other request has.
LEMMA AfMctpRecvStep ==
    ASSUME CookieInv, NEW smctp \in SockAddr, NEW id \in Ids,
           pldm_transport_af_mctp_recv(smctp, id)
    PROVE  CookieInv'
  <1> DEFINE n == Len(requests) + 1
  <1>1. AfMctpTypeOK /\ JarOf(jar, todo, requests) /\ ResponseReachesAsker
    BY CookieInvIs DEF CookieParts
  <1>2. PICK term \in TIDs :
            /\ CanTrack(term, id)
            /\ requests' = Append(requests, [tid |-> term, id |-> id, smctp |-> smctp])
            /\ jar' = jar \cup {[tid |-> term, id |-> id, smctp |-> smctp, n |-> n]}
    BY DEF pldm_transport_af_mctp_recv
  <1> DEFINE cookie == [tid |-> term, id |-> id, smctp |-> smctp, n |-> n]
             request == [tid |-> term, id |-> id, smctp |-> smctp]
  <1>3. todo' = todo \cup {n} /\ UNCHANGED <<tid_map, bound, answers>>
    BY DEF pldm_transport_af_mctp_recv
  <1>4. requests \in Seq(Request) /\ Len(requests) \in Nat
    BY <1>1 DEF AfMctpTypeOK
  <1>5. request \in Request /\ cookie \in Cookie
    BY <1>4 DEF Request, Cookie
  <1>6. /\ requests' \in Seq(Request) /\ Len(requests') = n /\ requests'[n] = request
        /\ \A i \in 1 .. Len(requests) : requests'[i] = requests[i]
    BY <1>2, <1>4, <1>5
  <1>7. AfMctpTypeOK'
    <2>1. jar' \subseteq Cookie
      BY <1>1, <1>2, <1>5 DEF AfMctpTypeOK
    <2>2. todo' \subseteq 1 .. Len(requests')
      <3>1. \A k \in todo : k \in 1 .. Len(requests)
        BY <1>1 DEF AfMctpTypeOK
      <3>2. \A k \in 1 .. Len(requests) : k \in 1 .. n
        BY <1>4
      <3>3. n \in 1 .. n
        BY <1>4
      <3> HIDE DEF n
      <3> QED
        BY <1>3, <1>6, <3>1, <3>2, <3>3
    <2> QED
      BY <1>1, <1>3, <1>6, <2>1, <2>2 DEF AfMctpTypeOK
  <1>8. \A c, d \in jar' : c.tid = d.tid /\ c.id = d.id => c = d
    <2>1. cookie.tid = term /\ cookie.id = id
      OBVIOUS
    <2>2. \A c \in jar : ~(c.tid = term /\ c.id = id)
      BY <1>2 DEF CanTrack, SameCookie
    <2> HIDE DEF cookie
    <2> QED
      BY <1>1, <1>2, <2>1, <2>2 DEF JarOf, cookie
  <1>9. \A c \in jar' : /\ c.n \in todo'
                        /\ requests'[c.n] = [tid |-> c.tid, id |-> c.id, smctp |-> c.smctp]
    <2>1. \A c \in jar : /\ c.n \in todo /\ c.n \in 1 .. Len(requests)
                         /\ requests[c.n] = [tid |-> c.tid, id |-> c.id, smctp |-> c.smctp]
      BY <1>1 DEF JarOf, AfMctpTypeOK
    <2>2. /\ cookie.n = n
          /\ [tid |-> cookie.tid, id |-> cookie.id, smctp |-> cookie.smctp] = request
      OBVIOUS
    <2> QED
      BY <1>2, <1>3, <1>6, <2>1, <2>2
  <1>10. \A k \in todo' : \E c \in jar' : c.n = k
    <2>1. cookie \in jar' /\ cookie.n = n
      BY <1>2
    <2>2. \A k \in todo : \E c \in jar' : c.n = k
      BY <1>1, <1>2 DEF JarOf
    <2> QED
      BY <1>3, <2>1, <2>2
  <1>11. ResponseReachesAsker'
    BY <1>1, <1>3, <1>4, <1>6 DEF ResponseReachesAsker
  <1> QED
    BY <1>7, <1>8, <1>9, <1>10, <1>11, CookieInvIs DEF CookieParts, JarOf

\* The cookie that is found is that of the request being answered.
LEMMA AfMctpSendStep ==
    ASSUME CookieInv, NEW n \in 1 .. MaxRequests, NEW fault \in BOOLEAN,
           pldm_transport_af_mctp_send(n, fault)
    PROVE  CookieInv'
  <1>1. AfMctpTypeOK /\ JarOf(jar, todo, requests) /\ ResponseReachesAsker
    BY CookieInvIs DEF CookieParts
  <1>2. n \in todo /\ todo' = todo \ {n} /\ UNCHANGED <<tid_map, bound, requests>>
    BY DEF pldm_transport_af_mctp_send
  <1>3. PICK cookie \in Found(requests[n].tid, requests[n].id) :
            /\ jar' = jar \ {cookie}
            /\ answers' = IF fault THEN answers
                          ELSE answers \cup {[n |-> n, smctp |-> ClearOwner(cookie.smctp)]}
    BY DEF pldm_transport_af_mctp_send
  <1>4. cookie \in jar /\ cookie.tid = requests[n].tid /\ cookie.id = requests[n].id
    BY <1>3 DEF Found, SameCookie
  <1>5. PICK c \in jar : c.n = n
    BY <1>1, <1>2 DEF JarOf
  <1>6. requests[n] = [tid |-> c.tid, id |-> c.id, smctp |-> c.smctp]
    BY <1>1, <1>5 DEF JarOf
  <1>7. cookie = c /\ requests[n].smctp = cookie.smctp
    BY <1>1, <1>4, <1>5, <1>6 DEF JarOf
  <1>8. \A d \in jar : d.n = n => d = cookie
    <2> SUFFICES ASSUME NEW d \in jar, d.n = n PROVE d = cookie
      OBVIOUS
    <2>1. requests[n] = [tid |-> d.tid, id |-> d.id, smctp |-> d.smctp]
      BY <1>1 DEF JarOf
    <2> QED
      BY <1>1, <1>4, <2>1 DEF JarOf
  <1>9. JarOf(jar', todo', requests')
    BY <1>1, <1>2, <1>3, <1>5, <1>7, <1>8 DEF JarOf
  <1>10. n \in 1 .. Len(requests) /\ n \in Nat /\ cookie.smctp \in SockAddr
    BY <1>1, <1>2, <1>4 DEF AfMctpTypeOK, Cookie
  <1>11. answers' \subseteq [n : Nat, smctp : SockAddr]
    BY <1>1, <1>3, <1>10, ClearOwnerType DEF AfMctpTypeOK
  <1>12. AfMctpTypeOK'
    BY <1>1, <1>2, <1>3, <1>11 DEF AfMctpTypeOK
  <1>13. ResponseReachesAsker'
    BY <1>1, <1>2, <1>3, <1>7, <1>10 DEF ResponseReachesAsker
  <1> QED
    BY <1>9, <1>12, <1>13, CookieInvIs DEF CookieParts

\* Every step keeps the inductive invariant.
LEMMA CookieInvStep == CookieInv /\ [AfMctpNext]_afMctpVars => CookieInv'
  <1> SUFFICES ASSUME CookieInv, [AfMctpNext]_afMctpVars PROVE CookieInv'
    OBVIOUS
  <1>1. CASE UNCHANGED afMctpVars
    BY <1>1 DEF afMctpVars, CookieInv, AfMctpTypeOK, ResponseReachesAsker
  <1> QED
    BY <1>1, MapStep, AfMctpRecvStep, AfMctpSendStep DEF AfMctpNext

\* The inductive invariant of the AF_MCTP transport holds.
THEOREM CookieInvariance == AfMctpSpec => []CookieInv
  BY CookieInvInit, CookieInvStep, PTL DEF AfMctpSpec

\* The transport's map and jar keep their types.
THEOREM AfMctpTypeCorrect == AfMctpSpec => []AfMctpTypeOK
  <1>1. CookieInv => AfMctpTypeOK BY DEF CookieInv
  <1> QED BY <1>1, CookieInvariance, PTL

\* pldm_transport_af_mctp_send sends a response to where its request came from,
\* whatever the map says by then.
THEOREM ResponsesReachAskers == AfMctpSpec => []ResponseReachesAsker
  <1>1. CookieInv => ResponseReachesAsker BY DEF CookieInv
  <1> QED BY <1>1, CookieInvariance, PTL

\* The cookie jar holds the cookies of the requests to be answered, and no others.
THEOREM NoCookieLost == AfMctpSpec => []CookiesAreTodo
  <1>1. CookieInv => CookiesAreTodo
    <2> SUFFICES ASSUME CookieInv PROVE CookiesAreTodo
      OBVIOUS
    <2>1. \A c \in jar : c.n \in todo
      BY DEF CookieInv
    <2>2. \A n \in todo : \E c \in jar : c.n = n
      BY DEF CookieInv
    <2> QED
      BY <2>1, <2>2, Zenon DEF CookiesAreTodo
  <1> QED BY <1>1, CookieInvariance, PTL

\* A request is received only from an endpoint that is mapped, under the more
\* specific mapping if there are two.
THEOREM ReceivedFromMapped == AfMctpSpec => RequestsFromMapped
  <1>1. ASSUME CookieInv, NEW smctp \in SockAddr, NEW id \in Ids,
               pldm_transport_af_mctp_recv(smctp, id)
        PROVE  DeliveredFromMapped
    <2>1. PICK term \in TIDs :
              /\ GetTid(smctp.net, smctp.eid, term)
              /\ requests' = Append(requests, [tid |-> term, id |-> id, smctp |-> smctp])
      BY <1>1 DEF pldm_transport_af_mctp_recv
    <2>2. requests \in Seq(Request) /\ [tid |-> term, id |-> id, smctp |-> smctp] \in Request
      BY <1>1 DEF CookieInv, AfMctpTypeOK, Request
    <2>3. \A n \in DOMAIN requests' \ DOMAIN requests :
             requests'[n] = [tid |-> term, id |-> id, smctp |-> smctp]
      BY <2>1, <2>2
    <2>4. smctp.net # 0 /\ smctp.eid # 0
      BY <2>1 DEF GetTid
    <2>5. \/ tid_map[term] = [net |-> smctp.net, eid |-> smctp.eid]
          \/ /\ tid_map[term] = [net |-> MCTP_NET_ANY, eid |-> smctp.eid]
             /\ \A t \in TIDs : tid_map[t] # [net |-> smctp.net, eid |-> smctp.eid]
      BY <2>1 DEF GetTid, IsFirst, Matching
    <2>6. tid_map[term] # Unmapped /\ tid_map[term].eid = smctp.eid
      BY <2>4, <2>5 DEF Unmapped, MCTP_ADDR_NULL
    <2>7. \/ tid_map[term].net = smctp.net
          \/ /\ tid_map[term].net = MCTP_NET_ANY
             /\ \A t \in TIDs : tid_map[t] # [net |-> smctp.net, eid |-> smctp.eid]
      BY <2>5
    <2> QED
      BY <2>3, <2>6, <2>7 DEF DeliveredFromMapped
  <1>2. ASSUME requests' = requests PROVE DeliveredFromMapped
    BY <1>2 DEF DeliveredFromMapped
  <1>3. CookieInv /\ [AfMctpNext]_afMctpVars => DeliveredFromMapped
    BY <1>1, <1>2 DEF AfMctpNext, afMctpVars, Bind, MapTid, UnmapTid, pldm_transport_af_mctp_send
  <1>4. CookieInv /\ [AfMctpNext]_afMctpVars => [DeliveredFromMapped]_afMctpVars
    BY <1>3
  <1> QED
    BY <1>4, CookieInvariance, PTL DEF AfMctpSpec, RequestsFromMapped

==============================================================================
