-------------------------------- MODULE AfMctp --------------------------------
(***************************************************************************)
(* The AF_MCTP transport of src/transport/af-mctp.c as a responder, with   *)
(* the cookies of src/responder.c: requests are received from endpoints    *)
(* and answered in any order, while TIDs are mapped and unmapped.          *)
(*                                                                         *)
(* The application answers every request at most once, and gives up when   *)
(* the send fails.  Messages that are refused (malformed, from an endpoint *)
(* without a TID, or for want of memory) leave no trace and no step here.  *)
(*                                                                         *)
(* The jar is a set: the order of the list would show only if a cookie     *)
(* were in it twice, and then any of the two may be found here.            *)
(*                                                                         *)
(* An operator named X_Y is X with the defect Y, and used nowhere.         *)
(***************************************************************************)
EXTENDS Integers, Sequences

CONSTANTS
    TIDs,           \* a set of terminus IDs, 0 .. PLDM_MAX_TIDS - 1
    Networks,       \* the MCTP networks, without MCTP_NET_ANY
    EIDs,           \* the endpoint IDs, without the null EID
    Tags,           \* the message tags
    Ids,            \* <<instance ID, type, command>> of a request
    MaxRequests     \* bound: how many requests are received

MCTP_NET_ANY == 0
MCTP_ADDR_NULL == 0

ASSUME AfMctpAssumption ==
    /\ TIDs \subseteq Nat
    /\ Networks \subseteq Nat \ {MCTP_NET_ANY}
    /\ EIDs \subseteq Nat \ {MCTP_ADDR_NULL}
    /\ MaxRequests \in Nat

\* struct mctp_fq_addr and struct sockaddr_mctp; owner is MCTP_TAG_OWNER.
FqAddr == [net : Networks \cup {MCTP_NET_ANY}, eid : EIDs \cup {MCTP_ADDR_NULL}]
SockAddr == [net : Networks, eid : EIDs \cup {MCTP_ADDR_NULL}, tag : Tags, owner : 0 .. 1]

VARIABLES
    tid_map, bound, jar,    \* of struct pldm_transport_af_mctp
    requests,    \* the requests received by the bound transport, in order
    todo,        \* the numbers of those the application has not answered
    answers      \* what was sent: the number of the request and the address

afMctpVars == <<tid_map, bound, jar, requests, todo, answers>>

Request == [tid : TIDs, id : Ids, smctp : SockAddr]
Cookie == [tid : TIDs, id : Ids, smctp : SockAddr, n : Nat]

Unmapped == [net |-> MCTP_NET_ANY, eid |-> MCTP_ADDR_NULL]

\* No TID is mapped, and there are no cookies.
pldm_transport_af_mctp_init ==
    /\ tid_map = [tid \in TIDs |-> Unmapped]
    /\ bound = FALSE
    /\ jar = {}
    /\ requests = <<>>
    /\ todo = {}
    /\ answers = {}

\* pldm_transport_af_mctp_bind
Bind ==
    /\ bound' = TRUE
    /\ UNCHANGED <<tid_map, jar, requests, todo, answers>>

\* map_tid with MCTP_NET_ANY, map_tid_fqe with a network.
MapTid(tid, network, eid) ==
    /\ tid_map' = [tid_map EXCEPT ![tid] = [net |-> network, eid |-> eid]]
    /\ UNCHANGED <<bound, jar, requests, todo, answers>>

UnmapTid(tid) ==
    /\ tid_map' = [tid_map EXCEPT ![tid] = Unmapped]
    /\ UNCHANGED <<bound, jar, requests, todo, answers>>

\* pldm_transport_af_mctp_find_tid: the first of these is found.
Matching(network, eid) == {tid \in TIDs : tid_map[tid] = [net |-> network, eid |-> eid]}

IsFirst(tid, S) == tid \in S /\ \A t \in S : tid <= t

\* pldm_transport_af_mctp_get_tid finds tid.
GetTid(network, eid, tid) ==
    /\ network # 0 /\ eid # 0
    /\ \/ IsFirst(tid, Matching(network, eid))
       \/ /\ Matching(network, eid) = {}
          /\ IsFirst(tid, Matching(MCTP_NET_ANY, eid))

-----------------------------------------------------------------------------
(* Cookies *)

\* pldm_responder_cookie_eq
SameCookie(cookie, tid, id) == cookie.tid = tid /\ cookie.id = id

CanTrack_Always(tid, id) == TRUE

\* pldm_responder_cookie_track: "Cookie must not already be known".
CanTrack(tid, id) == \A cookie \in jar : ~SameCookie(cookie, tid, id)

\* What pldm_responder_cookie_untrack may find.
Found(tid, id) == {cookie \in jar : SameCookie(cookie, tid, id)}

\* pldm_transport_af_mctp_recv takes a request, which a bound socket receives with
\* the owner bit; a repetition of one that is not answered yet is refused.
pldm_transport_af_mctp_recv(smctp, id) ==
    /\ bound /\ smctp.owner = 1
    /\ Len(requests) < MaxRequests
    /\ \E tid \in TIDs :
          /\ GetTid(smctp.net, smctp.eid, tid)
          /\ CanTrack(tid, id)
          /\ requests' = Append(requests, [tid |-> tid, id |-> id, smctp |-> smctp])
          /\ jar' = jar \cup {[tid |-> tid, id |-> id, smctp |-> smctp,
                              n |-> Len(requests) + 1]}
    /\ todo' = todo \cup {Len(requests) + 1}
    /\ UNCHANGED <<tid_map, bound, answers>>

\* "Clear the TO to indicate a response".
ClearOwner(smctp) == [smctp EXCEPT !.owner = 0]

pldm_transport_af_mctp_send_KeepsCookie(n, fault) ==
    /\ n \in todo
    /\ \E cookie \in Found(requests[n].tid, requests[n].id) :
          /\ jar' = jar
          /\ answers' = IF fault THEN answers
                        ELSE answers \cup {[n |-> n, smctp |-> ClearOwner(cookie.smctp)]}
    /\ todo' = todo \ {n}
    /\ UNCHANGED <<tid_map, bound, requests>>

\* pldm_transport_af_mctp_send of the response to request n.  The cookie is
\* consumed before the send buffer is grown and sendto() called, which may fail;
\* that there is one is CookiesAreTodo.
pldm_transport_af_mctp_send(n, fault) ==
    /\ n \in todo
    /\ \E cookie \in Found(requests[n].tid, requests[n].id) :
          /\ jar' = jar \ {cookie}
          /\ answers' = IF fault THEN answers
                        ELSE answers \cup {[n |-> n, smctp |-> ClearOwner(cookie.smctp)]}
    /\ todo' = todo \ {n}
    /\ UNCHANGED <<tid_map, bound, requests>>

AfMctpNext ==
    \/ Bind
    \/ \E tid \in TIDs, network \in Networks \cup {MCTP_NET_ANY}, eid \in EIDs :
          MapTid(tid, network, eid)
    \/ \E tid \in TIDs : UnmapTid(tid)
    \/ \E smctp \in SockAddr, id \in Ids : pldm_transport_af_mctp_recv(smctp, id)
    \/ \E n \in 1 .. MaxRequests, fault \in BOOLEAN :
          pldm_transport_af_mctp_send(n, fault)

AfMctpSpec == pldm_transport_af_mctp_init /\ [][AfMctpNext]_afMctpVars

-----------------------------------------------------------------------------
(* Properties *)

AfMctpTypeOK ==
    /\ tid_map \in [TIDs -> FqAddr]
    /\ bound \in BOOLEAN
    /\ jar \subseteq Cookie
    /\ requests \in Seq(Request)
    /\ todo \subseteq 1 .. Len(requests)
    /\ answers \subseteq [n : Nat, smctp : SockAddr]

\* A response goes to the endpoint, and with the tag, its request came from: also
\* when the TID was mapped to another endpoint between the two, and when that
\* endpoint asked the same meanwhile.
ResponseReachesAsker ==
    \A a \in answers :
       a.n \in 1 .. Len(requests) /\ a.smctp = ClearOwner(requests[a.n].smctp)

\* A request that the application has received and not answered has its cookie, so
\* that pldm_transport_af_mctp_send does not refuse the response; and a request
\* that is answered, or whose response could not be sent, has none, so that its
\* repetition is not refused.
CookiesAreTodo == {cookie.n : cookie \in jar} = todo

\* The inductive invariant: a cookie is found by its TID and ID alone, belongs to
\* one request of the application and is a copy of it.
CookieInv ==
    /\ AfMctpTypeOK
    /\ \A c, d \in jar : c.tid = d.tid /\ c.id = d.id => c = d
    /\ \A c \in jar : /\ c.n \in todo
                      /\ requests[c.n] = [tid |-> c.tid, id |-> c.id, smctp |-> c.smctp]
    /\ \A n \in todo : \E c \in jar : c.n = n
    /\ ResponseReachesAsker

\* A request is delivered under a TID that its endpoint is mapped to, by the
\* network it came from if there is such a mapping and by MCTP_NET_ANY otherwise;
\* an endpoint that is not mapped does not get through.
DeliveredFromMapped ==
    \A n \in DOMAIN requests' \ DOMAIN requests :
       LET from == requests'[n].smctp
           to == tid_map[requests'[n].tid]
       IN  /\ to # Unmapped /\ to.eid = from.eid
           /\ \/ to.net = from.net
              \/ /\ to.net = MCTP_NET_ANY
                 /\ \A tid \in TIDs : tid_map[tid] # [net |-> from.net, eid |-> from.eid]
RequestsFromMapped == [][DeliveredFromMapped]_afMctpVars

=============================================================================
