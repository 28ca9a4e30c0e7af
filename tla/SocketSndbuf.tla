---------------------------- MODULE SocketSndbuf ----------------------------
(***************************************************************************)
(* The record a transport keeps of the send buffer of its socket,          *)
(* src/transport/socket.c, over what the kernel really has. Sizes in the   *)
(* record are half of the kernel's, which doubles what it is asked for.    *)
(***************************************************************************)
EXTENDS Integers

CONSTANTS
    INT_MAX,
    SOCK_MIN_SNDBUF    \* the least buffer the kernel leaves a socket

ASSUME SndbufAssumption ==
    INT_MAX \in Nat \ {0} /\ SOCK_MIN_SNDBUF \in Nat

AtMost(a, b) == IF a < b THEN a ELSE b
AtLeast(a, b) == IF a > b THEN a ELSE b

\* setsockopt(SO_SNDBUF): the kernel takes the value up to its limit of the
\* moment, without an error if it is less, and doubles it.
SetSndbuf(value, wmem_max) ==
    AtLeast(2 * AtMost(value, wmem_max), SOCK_MIN_SNDBUF)

pldm_socket_sndbuf_get(sk_sndbuf) == sk_sndbuf \div 2

\* The limit is read once, when the transport is initialised.
pldm_socket_sndbuf_init(sk_sndbuf, wmem_max) ==
    [size |-> pldm_socket_sndbuf_get(sk_sndbuf),
     max_size |-> AtMost(wmem_max, INT_MAX)]

\* A message asks for nothing if it is smaller than the buffer, or if the
\* buffer has the largest size already.
Asks(ctx, msg_len) == msg_len >= ctx.size /\ ctx.size # ctx.max_size

\* The record and the kernel's buffer after a message was made room for.
pldm_socket_sndbuf_accomodate(ctx, sk_sndbuf, wmem_max, msg_len) ==
    LET value == AtMost(msg_len, ctx.max_size)
    IN IF Asks(ctx, msg_len)
       THEN [ctx |-> [ctx EXCEPT !.size = value],
             sk |-> SetSndbuf(value, wmem_max)]
       ELSE [ctx |-> ctx, sk |-> sk_sndbuf]

=============================================================================
