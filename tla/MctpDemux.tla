----------------------------- MODULE MctpDemux -----------------------------
(***************************************************************************)
(* The transport over the socket of the MCTP demux daemon,                 *)
(* src/transport/mctp-demux.c: its map of endpoint IDs to termini, and     *)
(* receiving and sending one message.                                      *)
(*                                                                         *)
(* A message in the socket has the endpoint it comes from, a flag that     *)
(* tells PLDM from other MCTP types, and the PLDM message, whose field len *)
(* is the length of its payload: negative without a whole header.          *)
(***************************************************************************)
EXTENDS SocketSndbuf, Sequences, FiniteSets, FiniteSetsExt

CONSTANTS
    EIDs,              \* endpoint IDs, of 0..255
    TIDs,              \* termini, 0 being none
    InitialSndbuf,     \* the kernel's buffer for a new socket
    WmemMaxes          \* the values of net.core.wmem_max

ASSUME DemuxAssumption ==
    /\ EIDs \subseteq 0..255 /\ TIDs \subseteq 0..255 /\ 0 \in TIDs
    /\ InitialSndbuf \in Nat /\ WmemMaxes \subseteq Nat

VARIABLES
    opened,            \* the application has a transport
    tid_eid_map,       \* the terminus of each endpoint, 0 for none
    sndbuf,            \* socket_send_buf
    sk_sndbuf,         \* the kernel's buffer
    wmem_max,          \* the system's limit
    lowered,           \* history: the limit has been lowered since the init
    inbox              \* what the daemon has written to the socket

demuxvars == <<opened, tid_eid_map, sndbuf, sk_sndbuf, wmem_max, lowered, inbox>>

NoEid == -1
NoMap == [eid \in EIDs |-> 0]
NoSndbuf == [size |-> 0, max_size |-> 0]

DemuxInit ==
    /\ opened = FALSE
    /\ tid_eid_map = NoMap
    /\ sndbuf = NoSndbuf
    /\ sk_sndbuf = 0
    /\ wmem_max \in WmemMaxes
    /\ lowered = FALSE
    /\ inbox = <<>>

\* A new socket; the map is all zero by calloc. An init that fails leaves the
\* application without a transport.
pldm_transport_mctp_demux_init ==
    /\ ~opened
    /\ opened' = TRUE
    /\ tid_eid_map' = NoMap
    /\ sk_sndbuf' = InitialSndbuf
    /\ sndbuf' = pldm_socket_sndbuf_init(InitialSndbuf, wmem_max)
    /\ lowered' = FALSE
    /\ inbox' = <<>>
    /\ UNCHANGED wmem_max

\* The struct is freed, and closing the socket loses what is in it.
pldm_transport_mctp_demux_destroy ==
    /\ opened
    /\ opened' = FALSE
    /\ tid_eid_map' = NoMap
    /\ sndbuf' = NoSndbuf
    /\ sk_sndbuf' = 0
    /\ lowered' = FALSE
    /\ inbox' = <<>>
    /\ UNCHANGED wmem_max

pldm_transport_mctp_demux_map_tid(tid, eid) ==
    /\ opened
    /\ tid_eid_map' = [tid_eid_map EXCEPT ![eid] = tid]
    /\ UNCHANGED <<opened, sndbuf, sk_sndbuf, wmem_max, lowered, inbox>>

\* The terminus it is called with is not looked at.
pldm_transport_mctp_demux_unmap_tid(eid) ==
    /\ opened
    /\ tid_eid_map' = [tid_eid_map EXCEPT ![eid] = 0]
    /\ UNCHANGED <<opened, sndbuf, sk_sndbuf, wmem_max, lowered, inbox>>

\* A mutant: the first endpoint that is mapped at all.
pldm_transport_mctp_demux_get_eid_AnyMapped(tid) ==
    LET eids == {eid \in EIDs : tid_eid_map[eid] # 0}
    IN IF eids = {} THEN NoEid ELSE Min(eids)

\* The first endpoint that is mapped to the terminus.
pldm_transport_mctp_demux_get_eid(tid) ==
    LET eids == {eid \in EIDs : tid_eid_map[eid] = tid}
    IN IF eids = {} THEN NoEid ELSE Min(eids)

\* 0 for an endpoint that is not mapped.
pldm_transport_mctp_demux_get_tid(eid) == tid_eid_map[eid]

\* What receiving the first message gives, the calls on the socket having
\* succeeded.
Received(m) ==
    CASE m.msg.len < 0 -> "INVALID_RECV_LEN"
      [] m.msg.len >= 0 /\ ~m.pldm -> "NOT_PLDM_MSG"
      [] m.msg.len >= 0 /\ m.pldm
             /\ pldm_transport_mctp_demux_get_tid(m.eid) = 0 -> "RECV_FAIL"
      [] OTHER -> "SUCCESS"

\* A failing peek or malloc, or a failing recv, leaves the message in the socket;
\* else it is taken, whatever becomes of it.
pldm_transport_mctp_demux_recv(rc) ==
    /\ opened
    /\ \/ /\ rc \in {"RECV_FAIL", "INVALID_RECV_LEN"}
          /\ UNCHANGED inbox
       \/ /\ inbox # <<>>
          /\ rc = Received(Head(inbox))
          /\ inbox' = Tail(inbox)
    /\ UNCHANGED <<opened, tid_eid_map, sndbuf, sk_sndbuf, wmem_max, lowered>>

\* Sending to a terminus; failing for want of an endpoint, for a length beyond
\* INT_MAX and in setsockopt comes before the buffer changes, in sendmsg after it.
pldm_transport_mctp_demux_send(tid, msg_len, rc) ==
    LET eid == pldm_transport_mctp_demux_get_eid(tid)
        room == pldm_socket_sndbuf_accomodate(sndbuf, sk_sndbuf, wmem_max, msg_len)
    IN /\ opened
       /\ \/ /\ eid = NoEid \/ msg_len > INT_MAX \/ Asks(sndbuf, msg_len)
             /\ rc = "SEND_FAIL"
             /\ UNCHANGED <<sndbuf, sk_sndbuf>>
          \/ /\ eid # NoEid /\ msg_len <= INT_MAX
             /\ rc \in {"SUCCESS", "SEND_FAIL"}
             /\ sndbuf' = room.ctx
             /\ sk_sndbuf' = room.sk
       /\ UNCHANGED <<opened, tid_eid_map, wmem_max, lowered, inbox>>

\* The administrator changes the limit.
Sysctl(value) ==
    /\ value # wmem_max
    /\ wmem_max' = value
    /\ lowered' = (lowered \/ value < sndbuf.max_size)
    /\ UNCHANGED <<opened, tid_eid_map, sndbuf, sk_sndbuf, inbox>>

\* The daemon writes a message to the socket.
Arrive(m, capacity) ==
    /\ opened /\ Len(inbox) < capacity
    /\ inbox' = Append(inbox, m)
    /\ UNCHANGED <<opened, tid_eid_map, sndbuf, sk_sndbuf, wmem_max, lowered>>

-----------------------------------------------------------------------------
(* Properties *)

\* A transport's record of its send buffer never promises more than the kernel
\* gives: a message up to that size, for which accomodate asks for nothing, has
\* the room that setsockopt would have made. Lowering the system's limit under
\* an open transport is excepted: the limit is read once, and setsockopt cuts a
\* value that is above it without telling (src/transport/socket.c).
SndbufIsThere == opened /\ ~lowered => 2 * sndbuf.size <= sk_sndbuf
=============================================================================
