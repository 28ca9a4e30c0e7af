-------------------------- MODULE ResponderProofs --------------------------
(***************************************************************************)
(* Proofs about the tables that a responder answers from: the types of     *)
(* src/control.c and the records of src/dsp/fru.c.                         *)
(*                                                                         *)
(* For any number of slots, types, endpoints and termini: the table that   *)
(* src/control.c keeps answers for the last registrations, a response      *)
(* reaches the endpoint that asked, and the record of the send buffer is   *)
(* no more than the kernel has.                                            *)
(*                                                                         *)
(* The invariant of the table: the used slots are a prefix of it, no type  *)
(* has two of them, and each holds what was registered last for its type.  *)
(*                                                                         *)
(* In a FRU table of any size, a search finds the records and the fields   *)
(* that are asked for.  The invariant says that the table is the records   *)
(* behind each other; the proof follows the two nested loops of fru.c      *)
(* through it, with what has been copied after each turn.                  *)
(***************************************************************************)
EXTENDS ControlResponder, FruTable, Induction, FiniteSetTheorems, TLAPS

Regs == Registrations \cup {PLDM_BASE_VERSIONS}

SlotType == [pldm_type : Types, versions : {r.versions : r \in Regs} \cup {NULL},
             versions_count : Nat,
             commands : {r.commands : r \in Regs} \cup {NULL}]

Used(table) == {i \in Slots : table[i].versions # NULL}

TableType == types \in [Slots -> SlotType]
RegistryType == registered \in [Types -> Regs \cup {NotRegistered}]

\* The slots that are used are the first ones.
Prefix(table) == \E n \in 0..PLDM_CONTROL_MAX_VERSION_TYPES : Used(table) = 1..n

\* No type has two slots.
Single(table) == \A i, j \in Used(table) :
                     table[i].pldm_type = table[j].pldm_type => i = j

\* A slot holds what was registered for its type.
Holds == \A i \in Used(types) :
             /\ types[i].pldm_type \in Registered
             /\ types[i] = Entry(types[i].pldm_type,
                                 registered[types[i].pldm_type])

\* What was registered has a slot.
Held == \A ty \in Registered : \E i \in Used(types) : types[i].pldm_type = ty

Inv == /\ TableType /\ RegistryType
       /\ Prefix(types) /\ Single(types) /\ Holds /\ Held

-----------------------------------------------------------------------------

\* The least element of a set is the one there is.
LEMMA LeastIs ==
    ASSUME NEW S \in SUBSET Int, NEW m \in S, \A x \in S : m <= x
    PROVE  Min(S) = m
<1>1. \A x \in S : (\A y \in S : x <= y) => x = m
  OBVIOUS
<1> QED BY <1>1, ZenonT(30) DEF Min

\* The slot that pldm_control_add_type takes: that of the type, or the first
\* that is free.
LEMMA PlaceIs ==
    ASSUME Inv, NEW ty \in Types, Place(types, ty) # {}
    PROVE  /\ Min(Place(types, ty)) \in Slots
           /\ ty \in Registered =>
                 /\ Min(Place(types, ty)) \in Used(types)
                 /\ types[Min(Place(types, ty))].pldm_type = ty
           /\ ty \notin Registered =>
                 /\ Min(Place(types, ty)) \notin Used(types)
                 /\ Used(types) = 1..(Min(Place(types, ty)) - 1)
<1>1. PICK n \in 0..PLDM_CONTROL_MAX_VERSION_TYPES : Used(types) = 1..n
  BY DEF Inv, Prefix
<1>2. Place(types, ty) \in SUBSET Int
  BY DEF Place, Slots
<1>3. CASE ty \in Registered
  <2>1. PICK i \in Used(types) : types[i].pldm_type = ty
    BY <1>3 DEF Inv, Held
  <2>2. i \in Place(types, ty)
    BY <2>1 DEF Place, Used
  <2>3. \A x \in Place(types, ty) : i <= x
    <3> SUFFICES ASSUME NEW x \in Place(types, ty) PROVE i <= x
      OBVIOUS
    <3>1. CASE x \in Used(types)
      <4>1. types[x].pldm_type = ty
        BY <3>1 DEF Place, Used
      <4>2. x = i
        BY <3>1, <2>1, <4>1 DEF Inv, Single
      <4> QED BY <4>2 DEF Place, Slots
    <3>2. CASE x \notin Used(types)
      BY <3>2, <1>1, <2>1, SlotsAssumption DEF Place, Used, Slots
    <3> QED BY <3>1, <3>2
  <2>4. Min(Place(types, ty)) = i
    BY <2>2, <2>3, <1>2, LeastIs
  <2> QED BY <2>4, <2>1, <1>3 DEF Used
<1>4. CASE ty \notin Registered
  <2>1. \A x \in Place(types, ty) : x \notin Used(types)
    BY <1>4 DEF Place, Used, Inv, Holds
  <2>2. n + 1 \in Slots
    BY <2>1, <1>1, SlotsAssumption DEF Place, Slots
  <2>3. n + 1 \in Place(types, ty)
    BY <2>2, <1>1 DEF Place, Used
  <2>4. \A x \in Place(types, ty) : n + 1 <= x
    BY <2>1, <1>1 DEF Place, Slots
  <2>5. Min(Place(types, ty)) = n + 1
    BY <2>3, <2>4, <1>2, LeastIs
  <2> QED BY <2>5, <2>2, <2>1, <2>3, <1>1, <1>4
<1> QED BY <1>3, <1>4

\* The slot that a registration takes keeps the prefix and the single slots.
LEMMA AddedInv ==
    ASSUME Inv, NEW ty \in Types, NEW r \in Registrations,
           pldm_control_add_type(ty, r)
    PROVE  Inv'
<1> DEFINE p == Min(Place(types, ty))
<1>1. Place(types, ty) # {}
  BY RegistrationsAssumption DEF pldm_control_add_type, AddRc
<1>2. p \in Slots
  BY <1>1, PlaceIs
<1>3. r \in Regs /\ r.versions # NULL /\ r.count % 256 \in Nat
  BY RegistrationsAssumption DEF Regs, NULL
<1>4. /\ types' = [types EXCEPT ![p] = Entry(ty, r)]
      /\ registered' = [registered EXCEPT ![ty] = r]
  BY DEF pldm_control_add_type, Added
<1>5. Entry(ty, r) \in SlotType
  BY <1>3 DEF Entry, SlotType
<1>6. TableType' /\ RegistryType'
  BY <1>2, <1>3, <1>4, <1>5 DEF Inv, TableType, RegistryType
<1> HIDE DEF p
<1>7. /\ types'[p] = Entry(ty, r)
      /\ \A i \in Slots : i # p => types'[i] = types[i]
  BY <1>2, <1>4 DEF Inv, TableType
<1>8. Entry(ty, r).versions # NULL /\ Entry(ty, r).pldm_type = ty
  BY <1>3 DEF Entry
<1>9. Used(types') = Used(types) \cup {p}
  BY <1>2, <1>7, <1>8 DEF Used
<1>10. Registered' = Registered \cup {ty}
  BY <1>3, <1>4 DEF Inv, RegistryType, Registered
<1>11. \A i \in Used(types) : i # p => types[i].pldm_type # ty
  <2> SUFFICES ASSUME NEW i \in Used(types), types[i].pldm_type = ty
               PROVE  i = p
    OBVIOUS
  <2>1. ty \in Registered
    BY DEF Inv, Holds
  <2>2. p \in Used(types) /\ types[p].pldm_type = ty
    BY <1>1, <2>1, PlaceIs DEF p
  <2> QED BY <2>2 DEF Inv, Single
<1>12. Prefix(types')
  <2>1. CASE ty \in Registered
    <3>1. p \in Used(types)
      BY <1>1, <2>1, PlaceIs DEF p
    <3>2. Used(types') = Used(types)
      BY <3>1, <1>9
    <3> QED BY <3>2 DEF Inv, Prefix
  <2>2. CASE ty \notin Registered
    <3>1. Used(types) = 1..(p - 1)
      BY <1>1, <2>2, PlaceIs DEF p
    <3>2. Used(types') = 1..p
      BY <3>1, <1>9, <1>2 DEF Slots
    <3> QED BY <3>2, <1>2, SlotsAssumption DEF Prefix, Slots
  <2> QED BY <2>1, <2>2
<1>13. Single(types')
  <2> SUFFICES ASSUME NEW i \in Used(types'), NEW j \in Used(types'),
                      types'[i].pldm_type = types'[j].pldm_type
               PROVE  i = j
    BY DEF Single
  <2>1. i \in Slots /\ j \in Slots
    BY DEF Used
  <2>2. CASE i = p \/ j = p
    BY <2>1, <2>2, <1>7, <1>8, <1>9, <1>11
  <2>3. CASE i # p /\ j # p
    BY <2>1, <2>3, <1>7, <1>9 DEF Inv, Single
  <2> QED BY <2>2, <2>3
<1>14. Holds'
  <2> SUFFICES ASSUME NEW i \in Used(types')
               PROVE  /\ types'[i].pldm_type \in Registered'
                      /\ types'[i] = Entry(types'[i].pldm_type,
                                           registered'[types'[i].pldm_type])
    BY DEF Holds
  <2>1. CASE i = p
    BY <2>1, <1>4, <1>7, <1>8, <1>10 DEF Inv, RegistryType
  <2>2. CASE i # p
    <3>1. i \in Slots /\ i \in Used(types) /\ types'[i] = types[i]
      BY <2>2, <1>7, <1>9 DEF Used
    <3>2. types[i].pldm_type # ty /\ types[i].pldm_type \in Registered
      BY <3>1, <2>2, <1>11 DEF Inv, Holds
    <3>3. registered'[types[i].pldm_type] = registered[types[i].pldm_type]
      BY <3>2, <1>4 DEF Inv, RegistryType, Registered
    <3> QED BY <3>1, <3>2, <3>3, <1>10 DEF Inv, Holds
  <2> QED BY <2>1, <2>2
<1>15. Held'
  <2> SUFFICES ASSUME NEW t \in Registered'
               PROVE  \E i \in Used(types') : types'[i].pldm_type = t
    BY DEF Held
  <2>1. CASE t = ty
    BY <2>1, <1>7, <1>8, <1>9
  <2>2. CASE t # ty
    <3>1. PICK i \in Used(types) : types[i].pldm_type = t
      BY <2>2, <1>10 DEF Inv, Held
    <3>2. i # p
      <4>1. CASE ty \in Registered
        BY <1>1, <4>1, <3>1, <2>2, PlaceIs DEF p
      <4>2. CASE ty \notin Registered
        BY <1>1, <4>2, <3>1, PlaceIs DEF p
      <4> QED BY <4>1, <4>2
    <3> QED BY <3>1, <3>2, <1>7, <1>9 DEF Used
  <2> QED BY <2>1, <2>2
<1> QED BY <1>6, <1>12, <1>13, <1>14, <1>15 DEF Inv

\* pldm_control_setup leaves the table with the one slot of the base type.
LEMMA SetupInv == types = Setup /\ registered = JustBase => Inv
<1> SUFFICES ASSUME types = Setup, registered = JustBase PROVE Inv
  OBVIOUS
<1>1. Place(Empty, PLDM_BASE) = Slots
  BY DEF Place, Empty, Unused
<1>2. 1 \in Slots /\ Slots \in SUBSET Int /\ \A x \in Slots : 1 <= x
  BY SlotsAssumption DEF Slots
<1>3. Min(Slots) = 1
  BY <1>2, LeastIs
<1>4. types = [Empty EXCEPT ![1] = Entry(PLDM_BASE, PLDM_BASE_VERSIONS)]
  BY <1>1, <1>3 DEF Setup, Added
<1>5. 0 \in Types /\ PLDM_BASE = 0
  BY TypesAssumption DEF PLDM_BASE
<1>6. /\ PLDM_BASE_VERSIONS \in Regs
      /\ PLDM_BASE_VERSIONS.versions # NULL
      /\ PLDM_BASE_VERSIONS.count = 2
  BY DEF Regs, PLDM_BASE_VERSIONS, NULL
<1>7. Entry(PLDM_BASE, PLDM_BASE_VERSIONS) \in SlotType
  BY <1>5, <1>6 DEF Entry, SlotType
<1>8. Unused \in SlotType
  BY <1>5 DEF Unused, SlotType
<1>9. Empty \in [Slots -> SlotType]
  BY <1>8 DEF Empty
<1>10. TableType
  BY <1>4, <1>7, <1>9, ZenonT(30) DEF TableType
<1>11. RegistryType
  BY <1>6 DEF RegistryType, JustBase
<1>12. /\ types[1] = Entry(PLDM_BASE, PLDM_BASE_VERSIONS)
       /\ \A i \in Slots : i # 1 => types[i] = Unused
  BY <1>2, <1>4 DEF Empty
<1>13. /\ Entry(PLDM_BASE, PLDM_BASE_VERSIONS).versions # NULL
       /\ Entry(PLDM_BASE, PLDM_BASE_VERSIONS).pldm_type = PLDM_BASE
       /\ Unused.versions = NULL
  BY <1>6 DEF Entry, Unused
<1>14. Used(types) = {1}
  BY <1>2, <1>12, <1>13, ZenonT(30) DEF Used
<1>15. Registered = {PLDM_BASE} /\ registered[PLDM_BASE] = PLDM_BASE_VERSIONS
  BY <1>5, <1>6 DEF Registered, JustBase, NotRegistered
<1>16. Prefix(types)
  BY <1>14, SlotsAssumption DEF Prefix
<1>17. Single(types) /\ Holds /\ Held
  BY <1>12, <1>13, <1>14, <1>15 DEF Single, Holds, Held
<1> QED BY <1>10, <1>11, <1>16, <1>17 DEF Inv

\* The parts of the table that the invariant speaks of are all it depends on.
LEMMA StableInv == Inv /\ UNCHANGED controlvars => Inv'
BY DEF Inv, controlvars, TableType, RegistryType, Prefix, Single, Holds, Held,
   Used, Registered

\* Every step of the responder keeps the invariant.
LEMMA StepInv == Inv /\ [Next]_vars => Inv'
<1> SUFFICES ASSUME Inv, [Next]_vars PROVE Inv'
  OBVIOUS
<1>1. CASE Configure
  <2>1. CASE Register
    BY <2>1, AddedInv DEF Register
  <2>2. CASE pldm_control_setup
    <3>1. types' = Setup /\ registered' = JustBase
      BY <2>2 DEF pldm_control_setup
    <3>2. (types = Setup /\ registered = JustBase => Inv)'
      BY SetupInv, PTL
    <3> QED BY <3>1, <3>2
  <2> QED BY <1>1, <2>1, <2>2 DEF Configure
<1>2. CASE ~Configure
  <2>1. UNCHANGED controlvars
    BY <1>2 DEF Next, vars, Receive, Handle, Send, Open, Close, Environment,
       Change
  <2> QED BY <2>1, StableInv
<1> QED BY <1>1, <1>2

\* The invariant holds whatever is registered and received.
LEMMA ControlInvariant == Spec => []Inv
<1>1. Init => Inv
  BY SetupInv DEF Init, ControlInit
<1> QED BY <1>1, StepInv, PTL DEF Spec

\* A slot answers for a type exactly if it is used and has the type.
LEMMA AnsweringIs ==
    ASSUME Inv, NEW ty \in Types, ty \in Registered
    PROVE  \E i \in Used(types) : /\ Answering(types, ty, FALSE) = {i}
                                  /\ Min(Answering(types, ty, FALSE)) = i
                                  /\ types[i].pldm_type = ty
<1>1. PICK i \in Used(types) : types[i].pldm_type = ty
  BY DEF Inv, Held
<1>2. Answering(types, ty, FALSE) = {i}
  BY <1>1 DEF Answering, Used, Inv, Single
<1>3. Min({i}) = i
  BY LeastIs, <1>1 DEF Used, Slots
<1> QED BY <1>1, <1>2, <1>3, ZenonT(30)

\* A table without a slot to spare holds as many types as it has slots.
LEMMA FullTable ==
    ASSUME Inv, NEW ty \in Types, Place(types, ty) = {}
    PROVE  /\ ty \notin Registered
           /\ Cardinality(Registered) = PLDM_CONTROL_MAX_VERSION_TYPES
<1> DEFINE f == [i \in Slots |-> types[i].pldm_type]
<1>1. Used(types) = Slots
  BY DEF Place, Used
<1>2. \A i \in Slots : types[i].pldm_type # ty
  BY DEF Place
<1>3. ty \notin Registered
  BY <1>1, <1>2 DEF Inv, Held
<1>4. f \in [Slots -> Registered]
  BY <1>1 DEF Inv, Holds
<1>5. \A i, j \in Slots : f[i] = f[j] => i = j
  BY <1>1 DEF Inv, Single
<1>6. \A t \in Registered : \E i \in Slots : f[i] = t
  BY <1>1 DEF Inv, Held
<1>7. f \in Bijection(Slots, Registered)
  BY <1>4, <1>5, <1>6 DEF Bijection, Injection, Surjection, IsInjective
<1>8. ExistsBijection(1..PLDM_CONTROL_MAX_VERSION_TYPES, Registered)
  BY <1>7 DEF ExistsBijection, Slots
<1>9. Cardinality(Registered) = PLDM_CONTROL_MAX_VERSION_TYPES
  BY <1>8, SlotsAssumption, FS_CountingElements
<1> QED BY <1>3, <1>9

\* For any number of slots, types and registrations, the table answers for
\* exactly the registered types, with what was registered last, and refuses one
\* only when it is full of others.
THEOREM AnswersAreRegistered == Spec => []TableIsRegistry
<1>1. ASSUME Inv PROVE TableIsRegistry
  <2> SUFFICES ASSUME NEW ty \in Types
               PROVE  LET slots == Answering(types, ty, FALSE)
                          slot == types[Min(slots)]
                      IN /\ slots = {} <=> ty \notin Registered
                         /\ ty \in Registered =>
                                /\ AddRc(types, ty, 2) = "OK"
                                /\ slot.versions = registered[ty].versions
                                /\ slot.versions_count = registered[ty].count % 256
                                /\ slot.commands = registered[ty].commands
                         /\ AddRc(types, ty, 2) # "OK" =>
                                Cardinality(Registered) =
                                    PLDM_CONTROL_MAX_VERSION_TYPES
    BY ZenonT(30) DEF TableIsRegistry
  <2>1. AddRc(types, ty, 2) = IF Place(types, ty) = {} THEN "ENOMEM" ELSE "OK"
    BY DEF AddRc
  <2>2. CASE ty \in Registered
    <3>1. PICK i \in Used(types) : /\ Answering(types, ty, FALSE) = {i}
                                   /\ Min(Answering(types, ty, FALSE)) = i
                                   /\ types[i].pldm_type = ty
      BY <1>1, <2>2, AnsweringIs, ZenonT(30)
    <3>2. types[i] = Entry(ty, registered[ty])
      BY <1>1, <3>1 DEF Inv, Holds
    <3>3. Place(types, ty) # {}
      BY <1>1, <2>2, FullTable
    <3>4. AddRc(types, ty, 2) = "OK"
      BY <2>1, <3>3
    <3>5. /\ types[i].versions = registered[ty].versions
          /\ types[i].versions_count = registered[ty].count % 256
          /\ types[i].commands = registered[ty].commands
      BY <3>2 DEF Entry
    <3>6. Answering(types, ty, FALSE) # {}
      BY <3>1, ZenonT(30)
    <3> QED BY <2>2, <3>1, <3>4, <3>5, <3>6, ZenonT(30)
  <2>3. CASE ty \notin Registered
    <3>1. Answering(types, ty, FALSE) = {}
      BY <1>1, <2>3 DEF Answering, Used, Inv, Holds
    <3>2. Place(types, ty) = {} =>
              Cardinality(Registered) = PLDM_CONTROL_MAX_VERSION_TYPES
      BY <1>1, FullTable
    <3>3. AddRc(types, ty, 2) # "OK" =>
              Cardinality(Registered) = PLDM_CONTROL_MAX_VERSION_TYPES
      BY <2>1, <3>2
    <3> QED BY <2>3, <3>1, <3>3, ZenonT(30)
  <2> QED BY <2>2, <2>3, ZenonT(30)
<1> QED BY <1>1, ControlInvariant, PTL

-----------------------------------------------------------------------------
(* The send buffer *)

BufInv ==
    /\ wmem_max \in Nat
    /\ opened =>
          /\ sndbuf \in [size : Int, max_size : Int]
          /\ sk_sndbuf \in Int
          /\ ~lowered => /\ sndbuf.max_size <= wmem_max
                         /\ 2 * sndbuf.size <= sk_sndbuf

\* What accomodate leaves is covered by the kernel's buffer, and has room for a
\* message up to the limit.
LEMMA AccomodateCovers ==
    ASSUME NEW ctx \in [size : Int, max_size : Int], NEW sk \in Int,
           NEW wmem \in Nat, NEW msg_len \in Int,
           ctx.max_size <= wmem, 2 * ctx.size <= sk
    PROVE  LET r == pldm_socket_sndbuf_accomodate(ctx, sk, wmem, msg_len)
           IN /\ 2 * r.ctx.size <= r.sk
              /\ msg_len <= ctx.max_size => r.sk >= 2 * msg_len
<1> DEFINE value == AtMost(msg_len, ctx.max_size)
<1>1. value \in Int /\ value <= wmem /\ (msg_len <= ctx.max_size => value = msg_len)
  BY DEF AtMost
<1>2. AtMost(value, wmem) = value
  BY <1>1 DEF AtMost
<1>3. SetSndbuf(value, wmem) >= 2 * value
  BY <1>1, <1>2, SndbufAssumption DEF SetSndbuf, AtLeast
<1> HIDE DEF value
<1>4. CASE Asks(ctx, msg_len)
  <2>1. pldm_socket_sndbuf_accomodate(ctx, sk, wmem, msg_len) =
            [ctx |-> [ctx EXCEPT !.size = value], sk |-> SetSndbuf(value, wmem)]
    BY <1>4 DEF pldm_socket_sndbuf_accomodate, value
  <2>2. [ctx EXCEPT !.size = value].size = value
    OBVIOUS
  <2> QED BY <2>1, <2>2, <1>1, <1>3
<1>5. CASE ~Asks(ctx, msg_len)
  <2>1. pldm_socket_sndbuf_accomodate(ctx, sk, wmem, msg_len) =
            [ctx |-> ctx, sk |-> sk]
    BY <1>5 DEF pldm_socket_sndbuf_accomodate
  <2>2. msg_len <= ctx.max_size => sk >= 2 * msg_len
    BY <1>5 DEF Asks
  <2> QED BY <2>1, <2>2
<1> QED BY <1>4, <1>5

\* The record and the buffer keep their types.
LEMMA AccomodateType ==
    ASSUME NEW ctx \in [size : Int, max_size : Int], NEW sk \in Int,
           NEW wmem \in Nat, NEW msg_len \in Int
    PROVE  LET r == pldm_socket_sndbuf_accomodate(ctx, sk, wmem, msg_len)
           IN /\ r.ctx \in [size : Int, max_size : Int]
              /\ r.ctx.max_size = ctx.max_size
              /\ r.sk \in Int
BY SndbufAssumption
   DEF pldm_socket_sndbuf_accomodate, SetSndbuf, AtMost, AtLeast

\* The length of a response is a number.
LEMMA HandleLen ==
    ASSUME Inv, NEW req, NEW resp_len
    PROVE  pldm_control_handle_msg(types, req, resp_len).len \in Int
<1> DEFINE room == resp_len - HDR
<1>1. \A rm, cc, data : \A len \in Int : ReplyIfRoom(rm, len, cc, data).len \in Int
  BY DEF ReplyIfRoom, Refused, Reply
<1>2. \A rm, cc : pldm_control_reply_error(cc, rm).len \in Int
  BY <1>1 DEF pldm_control_reply_error
<1>3. pldm_control_get_version(types, req, room).len \in Int
  <2> DEFINE found == Answering(types, req.arg, FALSE)
             v == types[Min(found)]
  <2>1. CASE found = {}
    BY <2>1, <1>1, <1>2, ZenonT(30) DEF pldm_control_get_version
  <2>2. CASE found # {}
    <3>1. PICK i \in found : TRUE
      BY <2>2, ZenonT(30)
    <3>2. i \in Used(types) /\ types[i].pldm_type = req.arg
      BY <3>1 DEF Answering, Used
    <3>3. req.arg \in Registered /\ req.arg \in Types
      BY <3>2 DEF Inv, Holds, Registered
    <3>4. PICK j \in Used(types) : Min(found) = j
      BY <3>3, AnsweringIs, ZenonT(30)
    <3>5. types[j] \in SlotType
      BY DEF Used, Inv, TableType
    <3>6. types[j].versions_count \in Int
      BY <3>5 DEF SlotType
    <3> HIDE DEF found, v
    <3>7. v.versions_count \in Int
      BY <3>4, <3>6 DEF v
    <3>8. 1 + 4 + 1 + v.versions_count * VER32 \in Int
      BY <3>7 DEF VER32
    <3>9. \/ \E cc : pldm_control_get_version(types, req, room) =
                         pldm_control_reply_error(cc, room)
          \/ \E cc, data : pldm_control_get_version(types, req, room) =
                 ReplyIfRoom(room, 1 + 4 + 1 + v.versions_count * VER32, cc, data)
      BY Zenon DEF pldm_control_get_version, found, v
    <3> QED BY <3>8, <3>9, <1>1, <1>2
  <2> QED BY <2>1, <2>2, ZenonT(30)
<1>4. pldm_control_get_tid(req, room).len \in Int
  BY <1>1, <1>2 DEF pldm_control_get_tid
<1>5. pldm_control_get_types(types, req, room).len \in Int
  BY <1>1, <1>2 DEF pldm_control_get_types
<1>6. pldm_control_get_commands(types, req, room).len \in Int
  <2>1. \/ \E cc : pldm_control_get_commands(types, req, room) =
                       pldm_control_reply_error(cc, room)
        \/ \E cc, data : pldm_control_get_commands(types, req, room) =
                             ReplyIfRoom(room, 1 + 32, cc, data)
    BY Zenon DEF pldm_control_get_commands
  <2> QED BY <2>1, <1>1, <1>2
<1> HIDE DEF room
<1>7. Dispatch(types, req, room).len \in Int
  BY <1>2, <1>3, <1>4, <1>5, <1>6 DEF Dispatch
<1> DEFINE body == Dispatch(types, req, room)
<1>8. [body EXCEPT !.len = @ + HDR].len \in Int
  BY <1>7 DEF HDR
<1>9. \A rc : Refused(rc).len \in Int
  BY DEF Refused
<1> QED BY <1>7, <1>8, <1>9 DEF pldm_control_handle_msg, room

-----------------------------------------------------------------------------
(* The loop *)

Asked == [tid : TIDs, msg : {m.msg : m \in Messages} \cup {NULL}, from : EIDs,
          kept : BOOLEAN]

\* The endpoints of a terminus.
Owners(tid) == {eid \in EIDs : tid_eid_map[eid] = tid}

LoopInv ==
    /\ tid_eid_map \in [EIDs -> TIDs]
    /\ inbox \in Seq(Messages)
    /\ pc \in {"recv", "handle", "send"}
    /\ pc = "send" => answer.len \in Int
    /\ pc # "recv" => /\ opened
                      /\ asked \in Asked
                      /\ asked.kept => Owners(asked.tid) = {asked.from}

\* Receiving: the terminus is the one of the endpoint.
LEMMA ReceiveLoop == LoopInv /\ BufInv /\ Receive => LoopInv' /\ BufInv'
<1> SUFFICES ASSUME LoopInv, BufInv, Receive PROVE LoopInv' /\ BufInv'
  OBVIOUS
<1>1. PICK rc \in {"SUCCESS", "RECV_FAIL", "INVALID_RECV_LEN", "NOT_PLDM_MSG"} :
          /\ pldm_transport_mctp_demux_recv(rc)
          /\ IF rc = "SUCCESS"
             THEN LET from == Head(inbox).eid
                      tid == pldm_transport_mctp_demux_get_tid(from)
                  IN /\ asked' = [tid |-> tid, msg |-> Head(inbox).msg,
                                  from |-> from,
                                  kept |-> \A eid \in EIDs \ {from} :
                                               tid_eid_map[eid] # tid]
                     /\ pc' = "handle"
             ELSE UNCHANGED <<asked, pc>>
  BY DEF Receive
<1>2. /\ pc = "recv" /\ opened
      /\ UNCHANGED <<opened, tid_eid_map, sndbuf, sk_sndbuf, wmem_max, lowered>>
      /\ \/ rc # "SUCCESS" /\ UNCHANGED inbox
         \/ inbox # <<>> /\ inbox' = Tail(inbox)
  BY <1>1 DEF Receive, pldm_transport_mctp_demux_recv
<1>3. BufInv'
  BY <1>2 DEF BufInv
<1>4. inbox' \in Seq(Messages)
  BY <1>2, SMTT(30) DEF LoopInv
<1>5. CASE rc = "SUCCESS"
  <2>1. Head(inbox) \in Messages
    BY <1>2, <1>5 DEF LoopInv
  <2>2. Head(inbox).eid \in EIDs
    BY <2>1, ZenonT(30) DEF Messages
  <2> DEFINE from == Head(inbox).eid
             tid == tid_eid_map[from]
  <2>3. /\ asked' = [tid |-> tid, msg |-> Head(inbox).msg, from |-> from,
                     kept |-> \A eid \in EIDs \ {from} : tid_eid_map[eid] # tid]
        /\ pc' = "handle"
    BY <1>1, <1>5 DEF pldm_transport_mctp_demux_get_tid
  <2>4. tid \in TIDs
    BY <2>2 DEF LoopInv
  <2>5. asked' \in Asked
    BY <2>1, <2>2, <2>3, <2>4 DEF Asked
  <2>6. asked'.kept => {eid \in EIDs : tid_eid_map[eid] = asked'.tid} = {asked'.from}
    BY <2>2, <2>3
  <2> QED BY <1>2, <1>3, <1>4, <2>3, <2>5, <2>6 DEF LoopInv, Owners
<1>6. CASE rc # "SUCCESS"
  BY <1>1, <1>2, <1>3, <1>4, <1>6 DEF LoopInv
<1> QED BY <1>5, <1>6

\* Handling leaves the transport alone.
LEMMA HandleLoop == Inv /\ LoopInv /\ BufInv /\ Handle => LoopInv' /\ BufInv'
<1> SUFFICES ASSUME Inv, LoopInv, BufInv, Handle PROVE LoopInv' /\ BufInv'
  OBVIOUS
<1>1. PICK resp_len \in RespLens :
          LET a == pldm_control_handle_msg(types, asked.msg, resp_len)
          IN IF a.rc = "OK"
             THEN /\ pc' = "send" /\ answer' = a
                  /\ asked' = [asked EXCEPT !.msg = NULL]
             ELSE pc' = "recv" /\ answer' = NotAnswered /\ asked' = None
  BY DEF Handle
<1>2. /\ pc = "handle"
      /\ UNCHANGED <<opened, tid_eid_map, sndbuf, sk_sndbuf, wmem_max, lowered,
                     inbox>>
  BY DEF Handle, demuxvars
<1>3. BufInv'
  BY <1>2 DEF BufInv
<1>4. CASE pldm_control_handle_msg(types, asked.msg, resp_len).rc = "OK"
  <2>1. /\ pc' = "send"
        /\ answer' = pldm_control_handle_msg(types, asked.msg, resp_len)
        /\ asked' = [asked EXCEPT !.msg = NULL]
    BY <1>1, <1>4
  <2>2. answer'.len \in Int
    BY <2>1, HandleLen
  <2>3. /\ asked \in Asked /\ asked' \in Asked
        /\ asked'.kept = asked.kept /\ asked'.tid = asked.tid
        /\ asked'.from = asked.from
    BY <1>2, <2>1 DEF LoopInv, Asked
  <2> QED BY <1>2, <1>3, <2>1, <2>2, <2>3 DEF LoopInv, Owners
<1>5. CASE pldm_control_handle_msg(types, asked.msg, resp_len).rc # "OK"
  BY <1>1, <1>2, <1>3, <1>5 DEF LoopInv
<1> QED BY <1>4, <1>5

\* Sending: the endpoint of a terminus that has one is that one, and the buffer
\* is made to fit.
LEMMA SendIs ==
    ASSUME LoopInv, BufInv, Send
    PROVE  /\ BufInv'
           /\ sent' # NoEid =>
                 /\ asked.kept => sent' = asked.from
                 /\ ~lowered /\ answer.len <= sndbuf.max_size =>
                        sk_sndbuf' >= 2 * answer.len
<1> DEFINE eid == pldm_transport_mctp_demux_get_eid(asked.tid)
           room == pldm_socket_sndbuf_accomodate(sndbuf, sk_sndbuf, wmem_max,
                                                 answer.len)
<1>1. PICK rc \in {"SUCCESS", "SEND_FAIL"} :
          /\ pldm_transport_mctp_demux_send(asked.tid, answer.len, rc)
          /\ sent' = IF rc = "SUCCESS" THEN eid ELSE NoEid
  BY DEF Send
<1>2. /\ UNCHANGED <<opened, tid_eid_map, wmem_max, lowered, inbox>>
      /\ \/ rc = "SEND_FAIL" /\ UNCHANGED <<sndbuf, sk_sndbuf>>
         \/ sndbuf' = room.ctx /\ sk_sndbuf' = room.sk
  BY <1>1 DEF pldm_transport_mctp_demux_send
<1>3. /\ pc = "send" /\ opened /\ answer.len \in Int /\ asked \in Asked
      /\ sndbuf \in [size : Int, max_size : Int] /\ sk_sndbuf \in Int
      /\ wmem_max \in Nat
  BY DEF Send, LoopInv, BufInv
<1>4. /\ room.ctx \in [size : Int, max_size : Int]
      /\ room.ctx.max_size = sndbuf.max_size
      /\ room.sk \in Int
  BY <1>3, AccomodateType
<1>5. ~lowered => /\ 2 * room.ctx.size <= room.sk
                  /\ answer.len <= sndbuf.max_size => room.sk >= 2 * answer.len
  BY <1>3, AccomodateCovers DEF BufInv
<1>6. asked.kept => eid = asked.from
  <2> SUFFICES ASSUME asked.kept PROVE eid = asked.from
    OBVIOUS
  <2>1. Owners(asked.tid) = {asked.from} /\ asked.from \in EIDs
    BY <1>3 DEF LoopInv, Asked
  <2>2. Min({asked.from}) = asked.from
    <3>1. EIDs \subseteq Int
      BY DemuxAssumption
    <3>2. asked.from \in Int
      BY <2>1, <3>1, ZenonT(30)
    <3> QED BY <3>2, LeastIs
  <2> QED BY <2>1, <2>2 DEF Owners, pldm_transport_mctp_demux_get_eid
<1> HIDE DEF eid, room
<1>7. BufInv'
  <2>1. CASE sndbuf' = sndbuf /\ sk_sndbuf' = sk_sndbuf
    BY <1>2, <2>1 DEF BufInv
  <2>2. CASE sndbuf' = room.ctx /\ sk_sndbuf' = room.sk
    BY <1>2, <1>3, <1>4, <1>5, <2>2 DEF BufInv
  <2> QED BY <1>2, <2>1, <2>2
<1>8. sent' # NoEid => rc = "SUCCESS" /\ sent' = eid /\ sk_sndbuf' = room.sk
  BY <1>1, <1>2
<1> QED BY <1>5, <1>6, <1>7, <1>8

\* Every step keeps the invariants.
LEMMA LoopStep == Inv /\ LoopInv /\ BufInv /\ [Next]_vars => LoopInv' /\ BufInv'
<1> SUFFICES ASSUME Inv, LoopInv, BufInv, [Next]_vars PROVE LoopInv' /\ BufInv'
  OBVIOUS
<1>1. CASE Receive
  BY <1>1, ReceiveLoop
<1>2. CASE Handle
  BY <1>2, HandleLoop
<1>3. CASE Send
  <2>1. pc' = "recv" /\ UNCHANGED <<tid_eid_map, inbox>>
    BY <1>3 DEF Send, pldm_transport_mctp_demux_send
  <2> QED BY <1>3, <2>1, SendIs DEF LoopInv
<1>4. CASE Open
  <2>1. pc = "recv"
    BY <1>4 DEF Open, pldm_transport_mctp_demux_init, LoopInv
  <2>2. sndbuf' \in [size : Int, max_size : Int] /\ sndbuf'.max_size <= wmem_max
        /\ 2 * sndbuf'.size <= InitialSndbuf
    BY <1>4, DemuxAssumption, SndbufAssumption
       DEF Open, pldm_transport_mctp_demux_init, pldm_socket_sndbuf_init,
           pldm_socket_sndbuf_get, AtMost, BufInv
  <2>3. BufInv'
    BY <1>4, <2>2, DemuxAssumption
       DEF Open, pldm_transport_mctp_demux_init, BufInv
  <2>4. NoMap \in [EIDs -> TIDs] /\ <<>> \in Seq(Messages)
    BY DemuxAssumption DEF NoMap
  <2>5. /\ tid_eid_map' = NoMap /\ inbox' = <<>> /\ pc' = pc
    BY <1>4 DEF Open, pldm_transport_mctp_demux_init, loopvars
  <2> QED BY <2>1, <2>3, <2>4, <2>5 DEF LoopInv
<1>5. CASE Close
  <2>1. NoMap \in [EIDs -> TIDs] /\ <<>> \in Seq(Messages)
    BY DemuxAssumption DEF NoMap
  <2>2. /\ tid_eid_map' = NoMap /\ inbox' = <<>> /\ pc' = "recv"
        /\ opened' = FALSE /\ wmem_max' = wmem_max
    BY <1>5 DEF Close, pldm_transport_mctp_demux_destroy
  <2> QED BY <2>1, <2>2 DEF LoopInv, BufInv
<1>6. CASE Configure
  BY <1>6 DEF Configure, demuxvars, loopvars, LoopInv, BufInv, Owners
<1>7. CASE Environment
  <2>1. UNCHANGED loopvars
    BY <1>7 DEF Environment
  <2>2. ASSUME NEW m \in Messages, Arrive(m, Capacity) PROVE LoopInv' /\ BufInv'
    <3>1. Append(inbox, m) \in Seq(Messages)
      BY DEF LoopInv
    <3> QED BY <2>1, <2>2, <3>1 DEF Arrive, loopvars, LoopInv, BufInv, Owners
  <2>3. ASSUME NEW value \in WmemMaxes, Sysctl(value)
        PROVE  LoopInv' /\ BufInv'
    <3>1. value \in Nat
      BY DemuxAssumption
    <3>2. /\ ~lowered' => ~lowered /\ ~(value < sndbuf.max_size)
          /\ wmem_max' = value
          /\ UNCHANGED <<opened, tid_eid_map, sndbuf, sk_sndbuf, inbox>>
      BY <2>3, Zenon DEF Sysctl
    <3>3. BufInv'
      BY <3>1, <3>2 DEF BufInv
    <3> QED BY <2>1, <3>2, <3>3 DEF loopvars, LoopInv, Owners
  <2> QED BY <1>7, <2>2, <2>3 DEF Environment
<1>8. ASSUME NEW tid \in TIDs, NEW eid \in EIDs, Change(tid, eid)
      PROVE  LoopInv' /\ BufInv'
  <2>1. /\ tid_eid_map' \in [EIDs -> TIDs]
        /\ UNCHANGED <<opened, sndbuf, sk_sndbuf, wmem_max, lowered, inbox>>
    BY <1>8, DemuxAssumption DEF Change, LoopInv,
       pldm_transport_mctp_demux_map_tid, pldm_transport_mctp_demux_unmap_tid
  <2>2. /\ UNCHANGED <<pc, answer>>
        /\ asked' = IF pc = "recv" THEN asked ELSE [asked EXCEPT !.kept = FALSE]
    BY <1>8 DEF Change
  <2>3. pc # "recv" => asked' \in Asked /\ ~asked'.kept
    BY <2>2, ZenonT(30) DEF LoopInv, Asked
  <2> QED BY <2>1, <2>2, <2>3 DEF LoopInv, BufInv
<1>9. CASE UNCHANGED vars
  BY <1>9 DEF vars, demuxvars, LoopInv, BufInv, Owners
<1> QED BY <1>1, <1>2, <1>3, <1>4, <1>5, <1>6, <1>7, <1>8, <1>9 DEF Next

\* The invariants of the loop hold whatever arrives and changes.
LEMMA LoopInvariant == Spec => [](Inv /\ LoopInv /\ BufInv)
<1>1. Init => LoopInv /\ BufInv
  <2>1. NoMap \in [EIDs -> TIDs] /\ <<>> \in Seq(Messages)
    BY DemuxAssumption DEF NoMap
  <2> QED BY <2>1, DemuxAssumption DEF Init, DemuxInit, LoopInv, BufInv
<1> QED BY <1>1, LoopStep, ControlInvariant, PTL DEF Spec

\* The record of the send buffer that socket.c keeps is never more than the
\* kernel has, for any sizes and limits that are not lowered.
THEOREM SndbufCovered == Spec => []SndbufIsThere
<1>1. BufInv => SndbufIsThere
  BY DEF BufInv, SndbufIsThere
<1> QED BY <1>1, LoopInvariant, PTL

\* For any endpoints and termini, a response reaches the endpoint whose request
\* it answers, and finds the buffer it needs.
THEOREM AnswersReachAskers == Spec => AnswerReachesAsker
<1>1. LoopInv /\ BufInv /\ [Next]_vars =>
          [Send /\ sent' # NoEid =>
              /\ asked.kept => sent' = asked.from
              /\ ~lowered /\ answer.len <= sndbuf.max_size =>
                     sk_sndbuf' >= 2 * answer.len]_vars
  BY SendIs
<1> QED BY <1>1, LoopInvariant, PTL DEF Spec, AnswerReachesAsker

-----------------------------------------------------------------------------
(* The records of a FRU table. *)

FruField == [type : FieldTypes, length : FieldLengths]
FruRecord == [rsi : RecordSets, type : RecordTypes, fields : Seq(FruField)]

\* A record as it is in a table, and those of a table.
FruBytes(r) == RecordHeader(r.rsi, r.type, Len(r.fields)) \o Tlvs(r.fields)
FruRecords(rs) == [i \in 1..Len(rs) |-> FruBytes(rs[i])]

\* One sequence of numbers behind another.
IsBehind(r, x, y) ==
    /\ r \in Seq(Nat) /\ Len(r) = Len(x) + Len(y)
    /\ \A k \in 1..Len(x) : r[k] = x[k]
    /\ \A k \in 1..Len(y) : r[Len(x) + k] = y[k]

\* What a concatenation of numbers gives.
LEMMA BehindIs ==
  ASSUME NEW x \in Seq(Nat), NEW y \in Seq(Nat)
  PROVE  IsBehind(x \o y, x, y)
BY DEF IsBehind

\* A sequence has a length.
LEMMA LenIs ==
  ASSUME NEW S, NEW x \in Seq(S)
  PROVE  Len(x) \in Nat
OBVIOUS

\* Three sequences behind each other.
LEMMA Behind3 ==
  ASSUME NEW x \in Seq(Nat), NEW y \in Seq(Nat), NEW z \in Seq(Nat)
  PROVE  (x \o y) \o z = x \o (y \o z)
OBVIOUS

\* A field in a table.
LEMMA TlvIs ==
  ASSUME NEW f \in FruField
  PROVE  /\ f.type \in Nat /\ f.length \in Nat
         /\ Tlv(f) \in Seq(Nat) /\ Len(Tlv(f)) = 2 + f.length
         /\ Tlv(f)[1] = f.type /\ Tlv(f)[2] = f.length
<1>1. f.type \in Nat /\ f.length \in Nat
  <2>1. f.type \in FieldTypes /\ f.length \in FieldLengths
    BY DEF FruField
  <2>2. \A x \in 0..255 : x \in Nat
    OBVIOUS
  <2>3. \A x \in 1..255 : x \in Nat
    OBVIOUS
  <2> QED
    BY <2>1, <2>2, <2>3, FruAssumption, ZenonT(30)
<1> DEFINE h == <<f.type, f.length>>
           v == [k \in 1..f.length |-> VALUE_BYTE]
<1>2. h \in Seq(Nat) /\ Len(h) = 2 /\ h[1] = f.type /\ h[2] = f.length
  BY <1>1
<1>3. v \in Seq(Nat) /\ Len(v) = f.length
  BY <1>1 DEF VALUE_BYTE
<1>4. Tlv(f) = h \o v
  BY DEF Tlv
<1> HIDE DEF h, v
<1>5. IsBehind(h \o v, h, v)
  BY <1>2, <1>3, BehindIs
<1>6. 1 \in 1..Len(h) /\ 2 \in 1..Len(h)
  BY <1>2
<1>7. /\ h \o v \in Seq(Nat) /\ Len(h \o v) = 2 + f.length
      /\ (h \o v)[1] = h[1] /\ (h \o v)[2] = h[2]
  BY <1>2, <1>3, <1>5, <1>6, ZenonT(30) DEF IsBehind
<1> QED
  BY <1>1, <1>2, <1>4, <1>7

\* The fields of a record.
TlvStrings(fs) == [i \in 1..Len(fs) |-> Tlv(fs[i])]

LEMMA TlvsAre ==
  ASSUME NEW fs \in Seq(FruField)
  PROVE  /\ Len(fs) \in Nat
         /\ TlvStrings(fs) \in [1..Len(fs) -> Seq(Nat)]
         /\ Tlvs(fs) = Joined(TlvStrings(fs))
         /\ Tlvs(fs) \in Seq(Nat)
<1>1. Len(fs) \in Nat /\ DOMAIN fs = 1..Len(fs) /\ \A i \in 1..Len(fs) : fs[i] \in FruField
  OBVIOUS
<1>2. \A i \in 1..Len(fs) : Tlv(fs[i]) \in Seq(Nat)
  BY <1>1, TlvIs
<1>3. TlvStrings(fs) \in [1..Len(fs) -> Seq(Nat)]
  BY <1>2, ZenonT(30) DEF TlvStrings
<1>4. Tlvs(fs) = Joined(TlvStrings(fs))
  BY <1>1, ZenonT(30) DEF Tlvs, TlvStrings
<1>5. IsJoined(Nat, Joined(TlvStrings(fs)), Len(fs), TlvStrings(fs))
  BY <1>1, <1>3, JoinedIs, ZenonT(30)
<1> QED
  BY <1>1, <1>3, <1>4, <1>5 DEF IsJoined

\* The fields fs are in the table behind b: the i-th ends at b + to[i].
FieldsAt(b, fs, to) ==
    /\ to \in [0..Len(fs) -> Nat] /\ to[0] = 0 /\ to[Len(fs)] = Len(Tlvs(fs))
    /\ \A i \in 1..Len(fs) :
          /\ to[i] = to[i - 1] + (2 + fs[i].length)
          /\ b + to[i] <= Len(fru_table)
          /\ fru_table[(b + to[i - 1]) + 1] = fs[i].type
          /\ fru_table[(b + to[i - 1]) + 2] = fs[i].length
          /\ SubSeq(fru_table, (b + to[i - 1]) + 1, b + to[i]) = Tlv(fs[i])

\* The string x is in the table behind b.
StringAt(b, x) ==
    /\ b \in Nat /\ b + Len(x) <= Len(fru_table)
    /\ \A k \in 1..Len(x) : fru_table[b + k] = x[k]

\* A string in the table is a part of it.
LEMMA StringIsPart ==
  ASSUME fru_table \in Seq(Nat), NEW b, NEW x \in Seq(Nat), StringAt(b, x)
  PROVE  SubSeq(fru_table, b + 1, b + Len(x)) = x
<1> DEFINE n == Len(x)
<1>1. n \in Nat /\ b \in Nat /\ Len(fru_table) \in Nat /\ b + n <= Len(fru_table)
  BY DEF StringAt
<1>2. \A k \in 1..n : fru_table[b + k] = x[k]
  BY DEF StringAt
<1>3. x = [k \in 1..n |-> x[k]]
  OBVIOUS
<1> HIDE DEF n
<1>4. SubSeq(fru_table, b + 1, b + n) = [k \in 1..n |-> fru_table[b + k]]
  BY <1>1
<1>5. [k \in 1..n |-> fru_table[b + k]] = [k \in 1..n |-> x[k]]
  BY <1>2, ZenonT(30)
<1> QED
  BY <1>3, <1>4, <1>5, ZenonT(30) DEF n

\* The i-th of the strings ss, with their ends at off, is in the table behind b.
Within(b, ss, off, i) ==
    /\ StringAt(b + off[i - 1], ss[i])
    /\ off[i - 1] \in Nat /\ off[i] \in Nat /\ off[i] = off[i - 1] + Len(ss[i])

\* One of the strings that are behind each other in the table.
LEMMA StringWithin ==
  ASSUME fru_table \in Seq(Nat), NEW b, NEW n \in Nat, NEW ss \in [1..n -> Seq(Nat)],
         NEW s \in Seq(Nat), StringAt(b, s), NEW off, JoinedAt(s, n, ss, off), NEW i \in 1..n
  PROVE  Within(b, ss, off, i)
<1>1. i - 1 \in 0..n /\ i \in 0..n /\ n \in 0..n
  OBVIOUS
<1>2. off[i - 1] \in Nat /\ off[i] \in Nat /\ off[n] \in Nat /\ off[n] = Len(s)
  BY <1>1 DEF JoinedAt
<1>3. off[i] = off[i - 1] + Len(ss[i])
  BY ZenonT(30) DEF JoinedAt
<1>4. \A k \in 1..Len(ss[i]) : off[i - 1] + k <= off[n] /\ s[off[i - 1] + k] = ss[i][k]
  BY ZenonT(30) DEF JoinedAt
<1>5. b \in Nat /\ b + Len(s) <= Len(fru_table)
  BY DEF StringAt
<1>6. \A k \in 1..Len(s) : fru_table[b + k] = s[k]
  BY DEF StringAt
<1>7. Len(ss[i]) \in Nat /\ Len(fru_table) \in Nat
  OBVIOUS
<1>8. off[i] <= off[n]
  <2>1. CASE Len(ss[i]) = 0
    <3>1. \A j \in 1..n : off[j - 1] <= off[j]
      <4> SUFFICES ASSUME NEW j \in 1..n PROVE off[j - 1] <= off[j]
        OBVIOUS
      <4>1. off[j] = off[j - 1] + Len(ss[j])
        BY ZenonT(30) DEF JoinedAt
      <4>2. off[j - 1] \in Nat /\ Len(ss[j]) \in Nat
        BY DEF JoinedAt
      <4> QED
        BY <4>1, <4>2
    <3>2. off \in [0..n -> Nat]
      BY DEF JoinedAt
    <3>3. \A j \in 0..n : off[j] <= off[n]
      BY <3>1, <3>2, Rising, ZenonT(30)
    <3> QED
      BY <1>1, <3>3
  <2>2. CASE Len(ss[i]) # 0
    <3>1. Len(ss[i]) \in 1..Len(ss[i])
      BY <1>7, <2>2
    <3> QED
      BY <1>3, <1>4, <3>1
  <2> QED
    BY <2>1, <2>2
<1>9. (b + off[i - 1]) + Len(ss[i]) <= Len(fru_table) /\ b + off[i - 1] \in Nat
  <2> DEFINE x == off[i - 1]
             y == off[i]
             z == off[n]
             l == Len(ss[i])
             m == Len(fru_table)
  <2>1. /\ x \in Nat /\ y \in Nat /\ z \in Nat /\ l \in Nat /\ m \in Nat /\ b \in Nat
        /\ y = x + l /\ y <= z /\ b + z <= m
    BY <1>2, <1>3, <1>5, <1>7, <1>8, ZenonT(30)
  <2> HIDE DEF x, y, z, l, m
  <2>2. (b + x) + l <= m /\ b + x \in Nat
    BY <2>1
  <2> QED
    BY <2>2 DEF x, l, m
<1>10. ASSUME NEW k \in 1..Len(ss[i]) PROVE fru_table[(b + off[i - 1]) + k] = ss[i][k]
  <2>1. off[i - 1] + k <= off[n] /\ s[off[i - 1] + k] = ss[i][k]
    BY <1>4, ZenonT(30)
  <2>2. off[i - 1] + k \in 1..Len(s) /\ b + (off[i - 1] + k) = (b + off[i - 1]) + k
    <3>1. k \in Nat /\ k >= 1
      BY <1>7
    <3> DEFINE x == off[i - 1]
               z == off[n]
    <3>2. x \in Nat /\ z \in Nat /\ b \in Nat /\ x + k <= z
      BY <1>2, <1>5, <2>1, ZenonT(30)
    <3> HIDE DEF x, z
    <3>3. x + k \in 1..z /\ b + (x + k) = (b + x) + k
      BY <3>1, <3>2
    <3> QED
      BY <1>2, <3>3, ZenonT(30) DEF x, z
  <2>3. fru_table[b + (off[i - 1] + k)] = s[off[i - 1] + k]
    BY <1>6, <2>2, ZenonT(30)
  <2> QED
    BY <2>1, <2>2, <2>3
<1>11. StringAt(b + off[i - 1], ss[i])
  BY <1>9, <1>10, ZenonT(30) DEF StringAt
<1> QED
  BY <1>2, <1>3, <1>11, ZenonT(30) DEF Within

\* Where the fields of a record in the table are.
LEMMA FieldsLaid ==
  ASSUME fru_table \in Seq(Nat), NEW b, NEW fs \in Seq(FruField), StringAt(b, Tlvs(fs))
  PROVE  \E to : FieldsAt(b, fs, to)
<1> DEFINE n == Len(fs)
           ss == TlvStrings(fs)
<1>1. n \in Nat /\ ss \in [1..n -> Seq(Nat)] /\ Tlvs(fs) = Joined(ss) /\ Tlvs(fs) \in Seq(Nat)
  BY TlvsAre
<1>2. IsJoined(Nat, Joined(ss), n, ss)
  BY <1>1, JoinedIs, SMTT(30)
<1>3. PICK to : JoinedAt(Tlvs(fs), n, ss, to)
  BY <1>1, <1>2 DEF IsJoined
<1>4. to \in [0..n -> Nat] /\ to[0] = 0 /\ to[n] = Len(Tlvs(fs))
  BY <1>3 DEF JoinedAt
<1>5. ASSUME NEW i \in 1..n
      PROVE  /\ to[i] = to[i - 1] + (2 + fs[i].length)
             /\ b + to[i] <= Len(fru_table)
             /\ fru_table[(b + to[i - 1]) + 1] = fs[i].type
             /\ fru_table[(b + to[i - 1]) + 2] = fs[i].length
             /\ SubSeq(fru_table, (b + to[i - 1]) + 1, b + to[i]) = Tlv(fs[i])
  <2>1. fs[i] \in FruField
    OBVIOUS
  <2>2. ss[i] = Tlv(fs[i])
    BY DEF TlvStrings
  <2> HIDE DEF n, ss
  <2> DEFINE x == Tlv(fs[i])
  <2>3. /\ fs[i].length \in Nat /\ x \in Seq(Nat) /\ Len(x) = 2 + fs[i].length
        /\ x[1] = fs[i].type /\ x[2] = fs[i].length
    BY <2>1, TlvIs
  <2>4. /\ StringAt(b + to[i - 1], x)
        /\ to[i - 1] \in Nat /\ to[i] \in Nat /\ to[i] = to[i - 1] + Len(x)
    <3>1. Within(b, ss, to, i)
      BY <1>1, <1>3, StringWithin, ZenonT(30)
    <3> QED
      BY <2>2, <3>1, ZenonT(30) DEF Within
  <2> HIDE DEF x
  <2>5. b \in Nat
    BY DEF StringAt
  <2>6. (b + to[i - 1]) + Len(x) = b + to[i]
    <3> DEFINE u == to[i - 1]
               v == to[i]
               l == Len(x)
    <3>1. u \in Nat /\ v \in Nat /\ v = u + l
      BY <2>4, ZenonT(30)
    <3>2. l \in Nat
      BY <2>3, SMTT(30)
    <3> HIDE DEF u, v, l
    <3>3. (b + u) + l = b + v
      BY <2>5, <3>1, <3>2, SMTT(30)
    <3> QED
      BY <3>3, ZenonT(30) DEF u, v, l
  <2>7. /\ (b + to[i - 1]) + Len(x) <= Len(fru_table)
        /\ \A k \in 1..Len(x) : fru_table[(b + to[i - 1]) + k] = x[k]
    BY <2>4, ZenonT(30) DEF StringAt
  <2>8. 1 \in 1..Len(x) /\ 2 \in 1..Len(x)
    BY <2>3
  <2>9. SubSeq(fru_table, (b + to[i - 1]) + 1, (b + to[i - 1]) + Len(x)) = x
    BY <2>3, <2>4, StringIsPart, ZenonT(30)
  <2> QED
    BY <2>3, <2>4, <2>6, <2>7, <2>8, <2>9, ZenonT(30) DEF x
<1> HIDE DEF ss
<1>6. FieldsAt(b, fs, to)
  BY <1>4, <1>5, ZenonT(30) DEF FieldsAt
<1> QED
  BY <1>6

\* The fields of a record that are copied, and the string that each adds.
FieldsTaken(q, copy, fs) == {i \in 1..Len(fs) : copy /\ q.ft \in {0, fs[i].type}}
FieldStrings(q, copy, fs) ==
    [i \in 1..Len(fs) |-> IF i \in FieldsTaken(q, copy, fs) THEN Tlv(fs[i]) ELSE <<>>]

FieldState ==
    [rc : {"SUCCESS", "INVALID_LENGTH"}, tlv : Nat, len : Nat, count : Nat, out : Seq(Nat)]

\* There is as much room as the table takes, and no more was written than read.
Roomy(q, b, out) == q.room = Len(fru_table) /\ Len(out) <= b

\* What the loop over fields has after i of them; sel are the strings it has added.
FieldGood(q, copy, b, fs, to, sel, out, i, s) ==
    /\ s \in FieldState
    /\ s.rc = "SUCCESS" =>
          /\ s.tlv + s.len = b + to[i]
          /\ s.count = Cardinality(FieldsTaken(q, copy, fs) \cap (1..i))
          /\ s.out = out \o sel[i]
          /\ Len(s.out) <= q.room
          /\ Roomy(q, b, out) => Len(s.out) <= b + to[i]
    /\ Roomy(q, b, out) => s.rc = "SUCCESS"

\* How many of a set of numbers are up to another one.
Counts(S, i) ==
    /\ Cardinality(S \cap (1..(i - 1))) \in Nat
    /\ Cardinality(S \cap (1..i)) =
           Cardinality(S \cap (1..(i - 1))) + (IF i \in S THEN 1 ELSE 0)

\* A number more.
LEMMA CountUpTo ==
  ASSUME NEW n \in Nat, NEW S \in SUBSET (1..n), NEW i \in 1..n
  PROVE  Counts(S, i)
<1> DEFINE A == S \cap (1..(i - 1))
<1>1. IsFiniteSet(1..(i - 1))
  BY FS_Interval
<1>2. IsFiniteSet(A)
  BY <1>1, FS_Intersection, ZenonT(30)
<1>3. Cardinality(A) \in Nat
  BY <1>2, FS_CardinalityType
<1>4. CASE i \in S
  <2>1. S \cap (1..i) = A \cup {i}
    BY <1>4
  <2>2. i \notin A
    OBVIOUS
  <2>3. Cardinality(A \cup {i}) = Cardinality(A) + 1
    <3> HIDE DEF A
    <3> QED
      BY <1>2, <2>2, FS_AddElement, ZenonT(30)
  <2>4. Cardinality(S \cap (1..i)) = Cardinality(A) + 1
    BY <2>1, <2>3, ZenonT(30)
  <2> QED
    BY <1>3, <1>4, <2>4, ZenonT(30) DEF Counts
<1>5. CASE i \notin S
  <2>1. S \cap (1..i) = A
    BY <1>5
  <2> DEFINE c == Cardinality(A)
  <2>2. c \in Nat
    BY <1>3
  <2> HIDE DEF c
  <2>3. c = c + 0
    BY <2>2
  <2>4. Cardinality(S \cap (1..i)) = Cardinality(A) + 0
    BY <2>1, <2>3, ZenonT(30) DEF c
  <2> QED
    BY <1>3, <1>5, <2>4, ZenonT(30) DEF Counts
<1> QED
  BY <1>4, <1>5

\* A turn of the loop over fields.
LEMMA FieldTurnIs ==
  ASSUME fru_table \in Seq(Nat), NEW q, q.room \in Nat, NEW copy \in BOOLEAN, NEW b \in Nat,
         NEW fs \in Seq(FruField), NEW to, FieldsAt(b, fs, to), NEW out \in Seq(Nat),
         NEW sel, JoiningSteps(Nat, Len(fs), FieldStrings(q, copy, fs), sel),
         NEW i \in 1..Len(fs), NEW s, FieldGood(q, copy, b, fs, to, sel, out, i - 1, s)
  PROVE  FieldGood(q, copy, b, fs, to, sel, out, i, FieldTurn(q, copy, s))
<1> DEFINE size == Len(fru_table)
           t == s.tlv + s.len
           n == TLV_HDR_SIZE + fru_table[t + 2]
           short == \/ size - s.len < s.tlv \/ size - TLV_HDR_SIZE < t
                    \/ fru_table[t + 2] > size
                    \/ copy /\ (q.room - Len(s.out) < n \/ size - t < n)
           taken == copy /\ (fru_table[t + 1] = q.ft \/ q.ft = 0)
           after == [s EXCEPT !.tlv = t, !.len = n]
           more == [after EXCEPT !.out = @ \o SubSeq(fru_table, t + 1, t + n),
                                 !.count = @ + 1]
           S == FieldsTaken(q, copy, fs)
<1>0. s \in FieldState
  BY ZenonT(30) DEF FieldGood
<1>1. /\ s.rc # "SUCCESS" => FieldTurn(q, copy, s) = s
      /\ s.rc = "SUCCESS" /\ short => FieldTurn(q, copy, s) = [s EXCEPT !.rc = "INVALID_LENGTH"]
      /\ s.rc = "SUCCESS" /\ ~short /\ ~taken => FieldTurn(q, copy, s) = after
      /\ s.rc = "SUCCESS" /\ ~short /\ taken => FieldTurn(q, copy, s) = more
  BY DEF FieldTurn
<1>2. CASE s.rc # "SUCCESS"
  BY <1>1, <1>2 DEF FieldGood
<1>3. CASE s.rc = "SUCCESS"
  <2>1. /\ t = b + to[i - 1]
        /\ s.count = Cardinality(S \cap (1..(i - 1)))
        /\ s.out = out \o sel[i - 1]
        /\ Len(s.out) <= q.room
        /\ Roomy(q, b, out) => Len(s.out) <= b + to[i - 1]
    BY <1>3, ZenonT(30) DEF FieldGood
  <2>2. /\ to[i] = to[i - 1] + (2 + fs[i].length)
        /\ b + to[i] <= size
        /\ fru_table[t + 1] = fs[i].type
        /\ fru_table[t + 2] = fs[i].length
        /\ SubSeq(fru_table, t + 1, b + to[i]) = Tlv(fs[i])
    <3>1. /\ to[i] = to[i - 1] + (2 + fs[i].length)
          /\ b + to[i] <= Len(fru_table)
          /\ fru_table[(b + to[i - 1]) + 1] = fs[i].type
          /\ fru_table[(b + to[i - 1]) + 2] = fs[i].length
          /\ SubSeq(fru_table, (b + to[i - 1]) + 1, b + to[i]) = Tlv(fs[i])
      BY ZenonT(30) DEF FieldsAt
    <3> HIDE DEF t
    <3> QED
      BY <2>1, <3>1, ZenonT(30)
  <2>3. /\ to[i - 1] \in Nat /\ to[i] \in Nat /\ size \in Nat /\ t \in Nat
        /\ s.tlv \in Nat /\ s.len \in Nat /\ s.count \in Nat /\ s.out \in Seq(Nat)
        /\ Len(s.out) \in Nat
    <3>1. i - 1 \in 0..Len(fs) /\ i \in 0..Len(fs)
      BY SMTT(30)
    <3>2. to \in [0..Len(fs) -> Nat]
      BY DEF FieldsAt
    <3>3. s.tlv \in Nat /\ s.len \in Nat /\ s.count \in Nat /\ s.out \in Seq(Nat)
      BY <1>0 DEF FieldState
    <3>4. size \in Nat
      OBVIOUS
    <3>5. to[i - 1] \in Nat /\ to[i] \in Nat
      BY <3>1, <3>2, ZenonT(30)
    <3> DEFINE u == s.tlv
               v == s.len
               o == s.out
    <3>6. u \in Nat /\ v \in Nat /\ o \in Seq(Nat)
      BY <3>3
    <3> HIDE DEF u, v, o
    <3>7. u + v \in Nat /\ Len(o) \in Nat
      BY <3>6
    <3> HIDE DEF size
    <3> QED
      BY <3>3, <3>4, <3>5, <3>7, ZenonT(30) DEF u, v, o
  <2>4. fs[i] \in FruField
    OBVIOUS
  <2> DEFINE x == Tlv(fs[i])
  <2>5. fs[i].length \in Nat /\ x \in Seq(Nat) /\ Len(x) = 2 + fs[i].length
    BY <2>4, TlvIs, SMTT(30)
  <2>6. n = Len(x) /\ n \in Nat /\ n >= 2 /\ fru_table[t + 2] + 2 = n /\ fru_table[t + 2] \in Nat
    <3> DEFINE l == fru_table[t + 2]
               m == Len(x)
    <3>1. l \in Nat /\ m = 2 + l /\ n = 2 + l
      <4> HIDE DEF t, x
      <4> QED
        BY <2>2, <2>5, ZenonT(30) DEF TLV_HDR_SIZE
    <3> HIDE DEF l, m, n
    <3>2. n = m /\ n \in Nat /\ n >= 2 /\ l + 2 = n
      BY <3>1
    <3> HIDE DEF t, x
    <3> QED
      BY <3>1, <3>2, ZenonT(30) DEF l, m
  <2>7. t + n = b + to[i] /\ t + n <= size
    <3> HIDE DEF t, x, n
    <3>1. to[i] = to[i - 1] + n
      BY <2>2, <2>5, <2>6, SMTT(30)
    <3> DEFINE u == to[i - 1]
               v == to[i]
    <3>2. u \in Nat /\ v \in Nat /\ v = u + n /\ t = b + u /\ b + v <= size
      BY <2>1, <2>2, <2>3, <3>1, ZenonT(30)
    <3> HIDE DEF u, v
    <3>3. t + n = b + v /\ t + n <= size
      BY <2>3, <2>6, <3>2
    <3> QED
      BY <3>3, ZenonT(30) DEF v
  <2>8. short <=> copy /\ q.room - Len(s.out) < n
    <3> DEFINE l == fru_table[t + 2]
               o == Len(s.out)
    <3>1. l \in Nat /\ l + 2 = n /\ TLV_HDR_SIZE = 2 /\ o \in Nat
      BY <2>3, <2>6 DEF TLV_HDR_SIZE
    <3>2. t = s.tlv + s.len
      OBVIOUS
    <3> DEFINE u == s.tlv
               v == s.len
    <3> HIDE DEF t, n, x, size
    <3>3. u \in Nat /\ v \in Nat /\ t = u + v /\ size \in Nat /\ n \in Nat /\ t + n <= size
      BY <2>3, <2>6, <2>7, <3>2, ZenonT(30)
    <3> HIDE DEF l, o, u, v
    <3>4. ~(size - v < u) /\ ~(size - TLV_HDR_SIZE < t) /\ ~(l > size) /\ ~(size - t < n)
      BY <3>1, <3>3, SMTT(30)
    <3> USE DEF u, v
    <3> QED
      BY <3>4, ZenonT(30) DEF l
  <2>9. taken <=> i \in S
    <3> HIDE DEF t
    <3> QED
      BY <2>2, ZenonT(30) DEF FieldsTaken
  <2>10. /\ Cardinality(S \cap (1..i)) = s.count + (IF i \in S THEN 1 ELSE 0)
    <3>1. Len(fs) \in Nat /\ S \in SUBSET (1..Len(fs))
      BY DEF FieldsTaken
    <3>2. s.count = Cardinality(S \cap (1..(i - 1)))
      BY <2>1
    <3> HIDE DEF S
    <3>3. Counts(S, i)
      BY <3>1, CountUpTo, ZenonT(30)
    <3> QED
      BY <3>2, <3>3, ZenonT(30) DEF Counts
  <2>11. sel[i - 1] \in Seq(Nat) /\ sel[i] = sel[i - 1] \o (IF i \in S THEN x ELSE <<>>)
    <3>1. FieldStrings(q, copy, fs)[i] = IF i \in S THEN x ELSE <<>>
      BY DEF FieldStrings
    <3>2. i - 1 \in 0..Len(fs)
      OBVIOUS
    <3>3. sel \in [0..Len(fs) -> Seq(Nat)]
      BY DEF JoiningSteps
    <3>4. sel[i] = sel[i - 1] \o FieldStrings(q, copy, fs)[i]
      BY ZenonT(30) DEF JoiningSteps
    <3> HIDE DEF S, x
    <3> QED
      BY <3>1, <3>2, <3>3, <3>4, ZenonT(30)
  <2>12. [s EXCEPT !.rc = "INVALID_LENGTH"] \in FieldState /\ [s EXCEPT !.rc = "INVALID_LENGTH"].rc # "SUCCESS"
    BY <1>0, ZenonT(30) DEF FieldState
  <2>13. /\ after \in FieldState /\ after.rc = s.rc /\ after.tlv = t /\ after.len = n
         /\ after.count = s.count /\ after.out = s.out
    <3> HIDE DEF t, n
    <3> QED
      BY <1>0, <2>3, <2>6, ZenonT(30) DEF FieldState
  <2>14. /\ more \in FieldState /\ more.rc = s.rc /\ more.tlv = t /\ more.len = n
         /\ more.count = s.count + 1 /\ more.out = s.out \o x
    <3>1. SubSeq(fru_table, t + 1, t + n) = x
      BY <2>2, <2>7, ZenonT(30)
    <3> HIDE DEF t, n, x
    <3> DEFINE y == s.out
               c == s.count
    <3>2. y \in Seq(Nat) /\ c \in Nat
      BY <2>3, SMTT(30)
    <3> HIDE DEF y, c
    <3>3. y \o x \in Seq(Nat) /\ c + 1 \in Nat
      BY <2>5, <3>2
    <3>4. s.out \o x \in Seq(Nat) /\ s.count + 1 \in Nat
      BY <3>3 DEF y, c
    <3>5. more = [after EXCEPT !.out = s.out \o x, !.count = s.count + 1]
      BY <2>13, <3>1, ZenonT(30)
    <3> HIDE DEF more, after
    <3> QED
      BY <2>13, <3>4, <3>5, ZenonT(30) DEF FieldState
  <2> HIDE DEF short, taken, after, more, t, n, x, size, S
  <2>15. CASE short
    <3>1. FieldTurn(q, copy, s) = [s EXCEPT !.rc = "INVALID_LENGTH"]
      BY <1>1, <1>3, <2>15, ZenonT(30)
    <3>2. ~Roomy(q, b, out)
      <4> SUFFICES ASSUME Roomy(q, b, out) PROVE FALSE
        OBVIOUS
      <4>1. q.room = size /\ Len(s.out) <= t
        BY <2>1 DEF Roomy, size
      <4>2. size - Len(s.out) < n
        BY <2>8, <2>15, <4>1
      <4> QED
        BY <2>3, <2>6, <2>7, <4>1, <4>2, SMTT(30)
    <3> QED
      BY <2>12, <3>1, <3>2, ZenonT(30) DEF FieldGood
  <2>16. CASE ~short /\ ~taken
    <3>1. FieldTurn(q, copy, s) = after
      BY <1>1, <1>3, <2>16, ZenonT(30)
    <3>2. i \notin S
      BY <2>9, <2>16
    <3>3. sel[i] = sel[i - 1]
      <4> DEFINE y == sel[i - 1]
      <4>1. y \in Seq(Nat) /\ sel[i] = y \o <<>>
        BY <2>11, <3>2, ZenonT(30)
      <4> HIDE DEF y
      <4>2. y \o <<>> = y
        BY <4>1
      <4> QED
        BY <4>1, <4>2, ZenonT(30) DEF y
    <3>4. after.out = out \o sel[i]
      BY <2>1, <2>13, <3>3, ZenonT(30)
    <3>5. after.count = Cardinality(S \cap (1..i))
      <4> DEFINE c == s.count
      <4>1. c \in Nat /\ Cardinality(S \cap (1..i)) = c + 0
        BY <2>3, <2>10, <3>2, ZenonT(30)
      <4> HIDE DEF c
      <4>2. c + 0 = c
        BY <4>1
      <4> QED
        BY <2>13, <4>1, <4>2, ZenonT(30) DEF c
    <3>6. after.tlv + after.len = b + to[i]
      BY <2>7, <2>13, ZenonT(30)
    <3>7. Len(after.out) <= q.room
      BY <2>1, <2>13, ZenonT(30)
    <3>8. Roomy(q, b, out) => Len(after.out) <= b + to[i]
      <4>1. Roomy(q, b, out) => Len(s.out) <= t
        BY <2>1
      <4>2. Roomy(q, b, out) => Len(s.out) <= t + n
        BY <2>3, <2>6, <4>1
      <4> QED
        BY <2>7, <2>13, <4>2, ZenonT(30)
    <3> QED
      BY <1>3, <2>13, <3>1, <3>4, <3>5, <3>6, <3>7, <3>8, ZenonT(30) DEF FieldGood, S
  <2>17. CASE ~short /\ taken
    <3>1. FieldTurn(q, copy, s) = more
      BY <1>1, <1>3, <2>17, ZenonT(30)
    <3>2. i \in S /\ copy
      BY <2>9, <2>17 DEF taken
    <3>3. sel[i] = sel[i - 1] \o x
      BY <2>11, <3>2, ZenonT(30)
    <3>4. more.out = out \o sel[i]
      <4>1. (out \o sel[i - 1]) \o x = out \o (sel[i - 1] \o x)
        BY <2>5, <2>11, Behind3, ZenonT(30)
      <4> QED
        BY <2>1, <2>14, <3>3, <4>1, ZenonT(30)
    <3>5. more.count = Cardinality(S \cap (1..i))
      BY <2>10, <2>14, <3>2, ZenonT(30)
    <3>6. more.tlv + more.len = b + to[i]
      BY <2>7, <2>14, ZenonT(30)
    <3>7. Len(more.out) = Len(s.out) + n
      <4> DEFINE y == s.out
      <4>1. y \in Seq(Nat) /\ more.out = y \o x
        BY <2>3, <2>14
      <4> HIDE DEF y
      <4>2. Len(y \o x) = Len(y) + Len(x)
        BY <2>5, <4>1, BehindIs, ZenonT(30) DEF IsBehind
      <4> QED
        BY <2>6, <4>1, <4>2, ZenonT(30) DEF y
    <3>8. Len(more.out) <= q.room
      <4>1. ~(q.room - Len(s.out) < n)
        BY <2>8, <2>17, <3>2
      <4> DEFINE l == Len(s.out)
                 r == q.room
      <4>2. l \in Nat /\ r \in Nat /\ ~(r - l < n) /\ Len(more.out) = l + n
        BY <2>3, <3>7, <4>1, ZenonT(30)
      <4> HIDE DEF l, r
      <4>3. l + n <= r
        BY <2>6, <4>2
      <4> QED
        BY <4>2, <4>3 DEF r
    <3>9. Roomy(q, b, out) => Len(more.out) <= b + to[i]
      <4>1. Roomy(q, b, out) => Len(s.out) <= t
        BY <2>1
      <4>2. Roomy(q, b, out) => Len(more.out) <= t + n
        BY <2>3, <2>6, <3>7, <4>1, SMTT(30)
      <4> QED
        BY <2>7, <4>2, SMTT(30)
    <3> QED
      BY <1>3, <2>14, <3>1, <3>4, <3>5, <3>6, <3>8, <3>9, ZenonT(30) DEF FieldGood, S
  <2> QED
    BY <2>15, <2>16, <2>17
<1> QED
  BY <1>2, <1>3

\* The loop over the fields of a record.
LEMMA FieldsIs ==
  ASSUME fru_table \in Seq(Nat), NEW q, q.room \in Nat, NEW copy \in BOOLEAN, NEW b \in Nat,
         NEW fs \in Seq(FruField), NEW to, FieldsAt(b, fs, to), NEW out \in Seq(Nat),
         NEW sel, JoiningSteps(Nat, Len(fs), FieldStrings(q, copy, fs), sel),
         Len(out) <= q.room
  PROVE  FieldGood(q, copy, b, fs, to, sel, out, Len(fs), Fields(q, copy, b, Len(fs), out))
<1> DEFINE n == Len(fs)
           a == [rc |-> "SUCCESS", tlv |-> b, len |-> 0, count |-> 0, out |-> out]
           Good(i, s) == FieldGood(q, copy, b, fs, to, sel, out, i, s)
           G == [i \in 0..n |-> {s \in FieldState : Good(i, s)}]
           st == [i \in 1..n |-> [x \in FieldState |-> FieldTurn(q, copy, x)]]
           Body(f) == [i \in 0..n |-> IF i = 0 THEN a ELSE FieldTurn(q, copy, f[i - 1])]
           turn == CHOOSE f : f = Body(f)
<1>0. n \in Nat /\ 0 \in 0..n /\ n \in 0..n /\ \A i \in 1..n : i # 0 /\ i \in 0..n /\ i - 1 \in 0..n
  BY SMTT(30)
<1>1. a \in FieldState /\ a.rc = "SUCCESS" /\ a.tlv = b /\ a.len = 0 /\ a.count = 0 /\ a.out = out
  BY DEF FieldState
<1>2. Good(0, a)
  <2>1. to[0] = 0 /\ sel[0] = <<>>
    BY DEF FieldsAt, JoiningSteps
  <2>2. out = out \o sel[0]
    BY <2>1
  <2>3. b + 0 = b + to[0]
    BY <2>1
  <2>4. FieldsTaken(q, copy, fs) \cap (1..0) = {}
    OBVIOUS
  <2>5. 0 = Cardinality(FieldsTaken(q, copy, fs) \cap (1..0))
    BY <2>4, FS_EmptySet, SMTT(30)
  <2>6. Roomy(q, b, out) => Len(out) <= b + to[0]
    BY <2>1 DEF Roomy
  <2> HIDE DEF a
  <2> QED
    BY <1>1, <2>2, <2>3, <2>5, <2>6, ZenonT(30) DEF FieldGood
<1>3. ASSUME NEW i \in 1..n, NEW x, Good(i - 1, x) PROVE Good(i, FieldTurn(q, copy, x))
  BY <1>3, FieldTurnIs
<1>4. \A i \in 0..n : G[i] = {s \in FieldState : Good(i, s)}
  BY ZenonT(30)
<1>5. \A i \in 1..n : \A x \in FieldState : st[i][x] = FieldTurn(q, copy, x)
  BY ZenonT(30)
<1>6. \A i \in 0..n : \A s : Good(i, s) => s \in FieldState
  BY DEF FieldGood
<1> HIDE DEF n, a, Good, G, st
<1>7. \A i \in 0..n : G[i] \subseteq FieldState
  BY <1>4, ZenonT(30)
<1>8. a \in G[0]
  BY <1>0, <1>1, <1>2, <1>4, ZenonT(30)
<1>9. \A i \in 1..n : \A x \in G[i - 1] : st[i][x] \in G[i]
  <2> SUFFICES ASSUME NEW i \in 1..n, NEW x \in G[i - 1] PROVE st[i][x] \in G[i]
    OBVIOUS
  <2>1. x \in FieldState /\ Good(i - 1, x)
    BY <1>0, <1>4, ZenonT(30)
  <2>2. Good(i, FieldTurn(q, copy, x))
    BY <1>3, <2>1, ZenonT(30)
  <2>3. st[i][x] = FieldTurn(q, copy, x)
    BY <1>5, <2>1, ZenonT(30)
  <2> QED
    BY <1>0, <1>4, <1>6, <2>2, <2>3, ZenonT(30)
<1>10. Passes(n, FieldState, G, a, st)
  BY <1>0, <1>7, <1>8, <1>9, Passing, ZenonT(30)
<1>11. PICK f \in [0..n -> FieldState] :
          /\ f[0] = a
          /\ \A i \in 1..n : f[i] = st[i][f[i - 1]]
          /\ \A i \in 0..n : f[i] \in G[i]
  BY <1>10, ZenonT(30) DEF Passes
<1>12. \A i \in 1..n : f[i] = FieldTurn(q, copy, f[i - 1])
  BY <1>0, <1>5, <1>11, ZenonT(30)
<1>13. f = Body(f)
  <2>1. \A i \in 0..n : f[i] = IF i = 0 THEN a ELSE FieldTurn(q, copy, f[i - 1])
    <3>1. \A i \in 0..n : i = 0 \/ i \in 1..n
      BY <1>0
    <3> QED
      BY <1>11, <1>12, <3>1, ZenonT(30)
  <2> QED
    BY <1>11, <2>1, ZenonT(30)
<1>14. turn = Body(turn)
  BY <1>13, ZenonT(30)
<1>15. Fields(q, copy, b, n, out) = turn[n]
  BY DEF Fields, a
<1> HIDE DEF turn
<1>16. turn[0] = a /\ \A i \in 1..n : turn[i] = FieldTurn(q, copy, turn[i - 1])
  <2>1. \A i \in 0..n : turn[i] = Body(turn)[i]
    BY <1>14, ZenonT(30)
  <2>2. \A i \in 0..n : Body(turn)[i] = IF i = 0 THEN a ELSE FieldTurn(q, copy, turn[i - 1])
    OBVIOUS
  <2> QED
    BY <1>0, <2>1, <2>2, ZenonT(30)
<1>17. GoAlike(n, f, turn)
  BY <1>11, <1>12, <1>16, ZenonT(30) DEF GoAlike
<1>18. Agree(n, f, turn)
  BY <1>0, <1>17, SameSteps
<1>19. Good(n, turn[n])
  BY <1>0, <1>4, <1>11, <1>18, ZenonT(30) DEF Agree
<1> QED
  BY <1>15, <1>19 DEF Good, n

\* The record r is in the table from b to e.
RecordAt(b, e, r) ==
    /\ b \in Nat /\ e \in Nat /\ e = (b + 5) + Len(Tlvs(r.fields)) /\ e <= Len(fru_table)
    /\ fru_table[b + 1] = r.rsi /\ fru_table[b + 2] = 0
    /\ fru_table[b + 3] = r.type /\ fru_table[b + 4] = Len(r.fields)
    /\ SubSeq(fru_table, b + 1, b + 5) = RecordHeader(r.rsi, r.type, Len(r.fields))
    /\ \E to : FieldsAt(b + 5, r.fields, to)

\* The header and the fields of a record.
LEMMA RecordIs ==
  ASSUME NEW r \in FruRecord
  PROVE  /\ r.rsi \in Nat /\ r.type \in Nat /\ r.fields \in Seq(FruField)
         /\ \A num \in Nat : /\ RecordHeader(r.rsi, r.type, num) \in Seq(Nat)
                             /\ Len(RecordHeader(r.rsi, r.type, num)) = 5
<1>1. r.rsi \in RecordSets /\ r.type \in RecordTypes /\ r.fields \in Seq(FruField)
  BY DEF FruRecord
<1>2. \A x \in 1..255 : x \in Nat
  OBVIOUS
<1>3. r.rsi \in Nat /\ r.type \in Nat
  BY <1>1, <1>2, FruAssumption, ZenonT(30)
<1> QED
  BY <1>1, <1>3 DEF RecordHeader, ENCODING

\* A record that is in the table.
LEMMA RecordLaid ==
  ASSUME fru_table \in Seq(Nat), NEW r \in FruRecord, NEW b, StringAt(b, FruBytes(r))
  PROVE  FruBytes(r) \in Seq(Nat) /\ RecordAt(b, b + Len(FruBytes(r)), r)
<1> DEFINE fs == r.fields
           m == Len(fs)
           h == RecordHeader(r.rsi, r.type, m)
           y == Tlvs(fs)
           z == FruBytes(r)
<1>1. r.rsi \in Nat /\ r.type \in Nat /\ fs \in Seq(FruField)
  BY RecordIs
<1>2. m \in Nat /\ y \in Seq(Nat)
  BY <1>1, TlvsAre
<1>3. h \in Seq(Nat) /\ Len(h) = 5
  <2> HIDE DEF m
  <2> QED
    BY <1>2, RecordIs
<1>4. h[1] = r.rsi /\ h[2] = 0 /\ h[3] = r.type /\ h[4] = m
  <2> HIDE DEF m
  <2> QED
    BY DEF RecordHeader
<1>5. z = h \o y
  BY DEF FruBytes
<1>6. b \in Nat /\ b + Len(z) <= Len(fru_table) /\ \A k \in 1..Len(z) : fru_table[b + k] = z[k]
  BY DEF StringAt
<1> HIDE DEF h, y, z, m, fs
<1>7. IsBehind(z, h, y)
  BY <1>2, <1>3, <1>5, BehindIs
<1>8. /\ z \in Seq(Nat) /\ Len(z) = 5 + Len(y)
      /\ \A k \in 1..5 : z[k] = h[k]
      /\ \A k \in 1..Len(y) : z[5 + k] = y[k]
  BY <1>3, <1>7, ZenonT(30) DEF IsBehind
<1> DEFINE l == Len(y)
           t == Len(fru_table)
<1>9. l \in Nat /\ t \in Nat /\ Len(z) = 5 + l /\ b + (5 + l) <= t
  <2>1. l \in Nat /\ t \in Nat
    BY <1>2
  <2> QED
    BY <1>6, <1>8, <2>1, ZenonT(30)
<1> HIDE DEF l, t
<1>10. /\ b + (5 + l) = (b + 5) + l /\ b + 5 \in Nat /\ b + (5 + l) \in Nat /\ b + 5 <= t
       /\ \A k \in 1..5 : k \in 1..(5 + l)
       /\ \A k \in 1..l : 5 + k \in 1..(5 + l) /\ b + (5 + k) = (b + 5) + k
       /\ 1 \in 1..5 /\ 2 \in 1..5 /\ 3 \in 1..5 /\ 4 \in 1..5
  BY <1>6, <1>9
<1>11. \A k \in 1..5 : fru_table[b + k] = h[k]
  BY <1>6, <1>8, <1>9, <1>10, ZenonT(30)
<1>12. \A k \in 1..l : fru_table[(b + 5) + k] = y[k]
  <2> SUFFICES ASSUME NEW k \in 1..l PROVE fru_table[(b + 5) + k] = y[k]
    OBVIOUS
  <2>1. fru_table[b + (5 + k)] = z[5 + k]
    BY <1>6, <1>9, <1>10, ZenonT(30)
  <2>2. z[5 + k] = y[k]
    BY <1>8, ZenonT(30) DEF l
  <2> QED
    BY <1>10, <2>1, <2>2, ZenonT(30)
<1>13. StringAt(b, h) /\ StringAt(b + 5, y)
  BY <1>3, <1>6, <1>9, <1>10, <1>11, <1>12, ZenonT(30) DEF StringAt, l, t
<1>14. SubSeq(fru_table, b + 1, b + 5) = h
  BY <1>3, <1>13, StringIsPart, ZenonT(30)
<1>15. \E to : FieldsAt(b + 5, fs, to)
  BY <1>1, <1>13, FieldsLaid, ZenonT(30) DEF y
<1>16. /\ fru_table[b + 1] = h[1] /\ fru_table[b + 2] = h[2]
       /\ fru_table[b + 3] = h[3] /\ fru_table[b + 4] = h[4]
  BY <1>10, <1>11, ZenonT(30)
<1>17. /\ b + Len(z) \in Nat /\ b + Len(z) = (b + 5) + Len(y) /\ b + Len(z) <= Len(fru_table)
  BY <1>6, <1>9, <1>10, ZenonT(30) DEF l
<1>18. RecordAt(b, b + Len(z), r)
  BY <1>4, <1>6, <1>14, <1>15, <1>16, <1>17, ZenonT(30) DEF RecordAt, h, y, m, fs
<1> QED
  BY <1>8, <1>18 DEF z

\* The number c of fields replaces m in the header behind o and in front of x.
Counted(o, x, a, d, m, c) ==
    [((o \o RecordHeader(a, d, m)) \o x) EXCEPT ![Len(o) + 4] = c]
        = o \o (RecordHeader(a, d, c) \o x)

\* The number of fields is written into the header behind o.
LEMMA HeaderCount ==
  ASSUME NEW o \in Seq(Nat), NEW x \in Seq(Nat), NEW a \in Nat, NEW d \in Nat, NEW m \in Nat,
         NEW c \in Nat
  PROVE  Counted(o, x, a, d, m, c)
<1> DEFINE g == RecordHeader(a, d, m)
           h == RecordHeader(a, d, c)
           lo == Len(o)
           lx == Len(x)
<1>1. /\ g \in Seq(Nat) /\ h \in Seq(Nat) /\ Len(g) = 5 /\ Len(h) = 5
      /\ \A k \in 1..5 : k # 4 => g[k] = h[k]
      /\ h[4] = c
  BY DEF RecordHeader, ENCODING
<1>2. lo \in Nat /\ lx \in Nat
  OBVIOUS
<1> HIDE DEF g, h, lo, lx
<1> DEFINE og == o \o g
           L == og \o x
           hx == h \o x
           R == o \o hx
<1>3. IsBehind(og, o, g)
  BY <1>1, BehindIs
<1>4. IsBehind(hx, h, x)
  BY <1>1, BehindIs
<1>5. og \in Seq(Nat) /\ hx \in Seq(Nat)
  BY <1>3, <1>4 DEF IsBehind
<1> HIDE DEF og, hx
<1>6. IsBehind(L, og, x)
  BY <1>5, BehindIs
<1>7. IsBehind(R, o, hx)
  BY <1>5, BehindIs
<1> HIDE DEF L, R
<1>8. /\ Len(og) = lo + 5 /\ Len(hx) = 5 + lx
      /\ L \in Seq(Nat) /\ Len(L) = (lo + 5) + lx
      /\ R \in Seq(Nat) /\ Len(R) = lo + (5 + lx)
  BY <1>1, <1>3, <1>4, <1>6, <1>7, ZenonT(30) DEF IsBehind, lo, lx
<1> DEFINE N == (lo + 5) + lx
<1>9. DOMAIN L = 1..N /\ DOMAIN R = 1..N
  <2>1. N = lo + (5 + lx)
    BY <1>2
  <2>2. Len(L) = N /\ Len(R) = N
    BY <1>8, <2>1, ZenonT(30)
  <2> HIDE DEF N
  <2>3. DOMAIN L = 1..Len(L) /\ DOMAIN R = 1..Len(R)
    BY <1>8
  <2> QED
    BY <2>2, <2>3
<1>10. ASSUME NEW k \in 1..N, k # lo + 4 PROVE L[k] = R[k]
  <2>1. CASE k \in 1..lo
    <3>1. k \in 1..(lo + 5)
      BY <1>2, <2>1
    <3> QED
      BY <1>3, <1>6, <1>7, <1>8, <2>1, <3>1, ZenonT(30) DEF IsBehind, lo
  <2>2. CASE k \in (lo + 1)..(lo + 5)
    <3>1. /\ k - lo \in 1..5 /\ k - lo # 4 /\ k = lo + (k - lo) /\ k \in 1..(lo + 5)
          /\ k - lo \in 1..(5 + lx)
      BY <1>2, <1>10, <2>2
    <3> DEFINE j == k - lo
    <3> HIDE DEF j
    <3>2. j \in 1..5 /\ j # 4 /\ k = lo + j /\ k \in 1..(lo + 5) /\ j \in 1..(5 + lx)
      BY <3>1 DEF j
    <3>3. L[k] = g[j]
      BY <1>1, <1>3, <1>6, <1>8, <3>2, ZenonT(30) DEF IsBehind, lo
    <3>4. R[k] = h[j]
      BY <1>1, <1>4, <1>7, <1>8, <3>2, ZenonT(30) DEF IsBehind, lo
    <3> QED
      BY <1>1, <3>2, <3>3, <3>4, ZenonT(30)
  <2>3. CASE k \in (lo + 6)..N
    <3> DEFINE j == k - (lo + 5)
    <3>1. j \in 1..lx /\ k = (lo + 5) + j /\ k = lo + (5 + j) /\ 5 + j \in 1..(5 + lx)
      BY <1>2, <2>3
    <3> HIDE DEF j
    <3>2. L[k] = x[j]
      BY <1>6, <1>8, <3>1, ZenonT(30) DEF IsBehind, lx
    <3>3. R[k] = x[j]
      <4>1. \A i \in 1..Len(hx) : R[Len(o) + i] = hx[i]
        BY <1>7 DEF IsBehind
      <4>2. R[lo + (5 + j)] = hx[5 + j]
        BY <1>8, <3>1, <4>1, ZenonT(30) DEF lo
      <4>3. \A i \in 1..Len(x) : hx[Len(h) + i] = x[i]
        BY <1>4 DEF IsBehind
      <4>4. hx[5 + j] = x[j]
        BY <1>1, <3>1, <4>3, ZenonT(30) DEF lx
      <4> QED
        BY <3>1, <4>2, <4>4, ZenonT(30)
    <3> QED
      BY <3>2, <3>3
  <2> QED
    BY <1>2, <2>1, <2>2, <2>3
<1>11. R[lo + 4] = c /\ lo + 4 \in 1..N
  <2>1. 4 \in 1..5 /\ 4 \in 1..(5 + lx) /\ lo + 4 \in 1..N
    BY <1>2
  <2> QED
    BY <1>1, <1>4, <1>7, <1>8, <2>1, ZenonT(30) DEF IsBehind, lo
<1> HIDE DEF N
<1>12. L = [k \in 1..N |-> L[k]] /\ R = [k \in 1..N |-> R[k]]
  <2>1. L = [k \in DOMAIN L |-> L[k]] /\ R = [k \in DOMAIN R |-> R[k]]
    BY <1>8
  <2> QED
    BY <1>9, <2>1
<1>13. [L EXCEPT ![lo + 4] = c] = [k \in 1..N |-> IF k = lo + 4 THEN c ELSE L[k]]
  BY <1>9, ZenonT(30)
<1>14. [L EXCEPT ![lo + 4] = c] = R
  BY <1>10, <1>11, <1>12, <1>13, ZenonT(30)
<1> QED
  BY <1>14 DEF Counted, L, R, og, hx, g, h, lo

\* The strings that the fields of a record add.
LEMMA FieldStringsAre ==
  ASSUME NEW q, NEW copy, NEW fs \in Seq(FruField)
  PROVE  /\ FieldStrings(q, copy, fs) \in [1..Len(fs) -> Seq(Nat)]
         /\ Joined(FieldStrings(q, copy, fs)) \in Seq(Nat)
         /\ Cardinality(FieldsTaken(q, copy, fs)) \in Nat
<1> DEFINE S == FieldsTaken(q, copy, fs)
<1>1. Len(fs) \in Nat /\ \A i \in 1..Len(fs) : fs[i] \in FruField
  OBVIOUS
<1>2. \A i \in 1..Len(fs) : Tlv(fs[i]) \in Seq(Nat)
  BY <1>1, TlvIs
<1>3. <<>> \in Seq(Nat)
  OBVIOUS
<1>4. \A i \in 1..Len(fs) : (IF i \in S THEN Tlv(fs[i]) ELSE <<>>) \in Seq(Nat)
  <2> HIDE DEF S
  <2> QED
    BY <1>2, <1>3
<1>5. FieldStrings(q, copy, fs) \in [1..Len(fs) -> Seq(Nat)]
  BY <1>4, ZenonT(30) DEF FieldStrings
<1>6. IsJoined(Nat, Joined(FieldStrings(q, copy, fs)), Len(fs), FieldStrings(q, copy, fs))
  BY <1>1, <1>5, JoinedIs, ZenonT(30)
<1>7. IsFiniteSet(1..Len(fs))
  BY <1>1, FS_Interval
<1>8. S \subseteq 1..Len(fs)
  BY DEF FieldsTaken
<1>9. Cardinality(S) \in Nat
  <2> HIDE DEF S
  <2> QED
    BY <1>7, <1>8, FS_Subset, FS_CardinalityType, ZenonT(30)
<1> QED
  BY <1>5, <1>6, <1>9 DEF IsJoined

\* What was read of the record r, with as much in front of it as out.
ReadAs(q, copy, b, e, r, out, f) ==
    /\ f.rc \in {"SUCCESS", "INVALID_LENGTH"}
    /\ Roomy(q, b + 5, out) => f.rc = "SUCCESS"
    /\ f.rc = "SUCCESS" =>
          /\ f.tlv + f.len = e
          /\ f.count = Cardinality(FieldsTaken(q, copy, r.fields))
          /\ f.out = out \o Joined(FieldStrings(q, copy, r.fields))
          /\ Len(f.out) <= q.room
          /\ Roomy(q, b + 5, out) => Len(f.out) <= e

\* The fields of a record that is in the table are read.
LEMMA RecordRead ==
  ASSUME fru_table \in Seq(Nat), NEW q, q.room \in Nat, NEW copy \in BOOLEAN,
         NEW r \in FruRecord, NEW b, NEW e, RecordAt(b, e, r), NEW out \in Seq(Nat),
         Len(out) <= q.room
  PROVE  ReadAs(q, copy, b, e, r, out, Fields(q, copy, b + 5, Len(r.fields), out))
<1> DEFINE fs == r.fields
           n == Len(fs)
           ss == FieldStrings(q, copy, fs)
           S == FieldsTaken(q, copy, fs)
           f == Fields(q, copy, b + 5, n, out)
<1>1. fs \in Seq(FruField)
  BY RecordIs
<1>2. n \in Nat /\ ss \in [1..n -> Seq(Nat)]
  BY <1>1, FieldStringsAre
<1>3. PICK to : FieldsAt(b + 5, fs, to)
  BY ZenonT(30) DEF RecordAt
<1>4. b + 5 \in Nat /\ e = (b + 5) + Len(Tlvs(fs))
  BY DEF RecordAt
<1>5. PICK sel : JoiningSteps(Nat, n, ss, sel)
  <2> HIDE DEF n, ss
  <2> QED
    BY <1>2, JoiningIs
<1>6. FieldGood(q, copy, b + 5, fs, to, sel, out, n, f)
  <2> HIDE DEF fs
  <2> QED
    BY <1>1, <1>3, <1>4, <1>5, FieldsIs, ZenonT(30)
<1>7. S \cap (1..n) = S
  BY DEF FieldsTaken
<1>8. sel[n] = Joined(ss)
  BY <1>5, ZenonT(30) DEF JoiningSteps
<1>9. to[n] = Len(Tlvs(fs))
  BY <1>3 DEF FieldsAt
<1>10. f.rc \in {"SUCCESS", "INVALID_LENGTH"}
  <2>1. f \in FieldState
    BY <1>6 DEF FieldGood
  <2> HIDE DEF f
  <2> QED
    BY <2>1 DEF FieldState
<1> HIDE DEF f
<1>11. (b + 5) + to[n] = e
  BY <1>4, <1>9, ZenonT(30)
<1> HIDE DEF n
<1>12. Roomy(q, b + 5, out) => f.rc = "SUCCESS"
  BY <1>6, ZenonT(30) DEF FieldGood
<1>13. f.rc = "SUCCESS" =>
          /\ f.tlv + f.len = e
          /\ f.count = Cardinality(S)
          /\ f.out = out \o Joined(ss)
          /\ Len(f.out) <= q.room
          /\ Roomy(q, b + 5, out) => Len(f.out) <= e
  BY <1>6, <1>7, <1>8, <1>11, ZenonT(30) DEF FieldGood
<1>14. ReadAs(q, copy, b, e, r, out, f)
  BY <1>10, <1>12, <1>13, ZenonT(30) DEF ReadAs
<1> QED
  BY <1>14 DEF f, n

\* The record r is asked for.
Chosen(q, r) == q.rsi \in {0, r.rsi} /\ q.rt \in {0, r.type}

\* A record in the table is recognized by its header.
LEMMA WantedIs ==
  ASSUME NEW q, NEW r \in FruRecord, NEW b, NEW e, RecordAt(b, e, r)
  PROVE  Wanted(q, b) <=> Chosen(q, r)
<1> DEFINE x == fru_table[b + 1]
           y == fru_table[b + 2]
           v == r.rsi
<1>1. x = v /\ y = 0 /\ fru_table[b + 3] = r.type
  BY DEF RecordAt
<1>2. v \in Nat
  BY RecordIs
<1> HIDE DEF x, y, v
<1>3. x + 256 * y = v
  BY <1>1, <1>2
<1>4. Wanted(q, b) <=> (v = q.rsi \/ q.rsi = 0) /\ (r.type = q.rt \/ q.rt = 0)
  BY <1>1, <1>3, ZenonT(30) DEF Wanted, x, y
<1> QED
  BY <1>4, ZenonT(30) DEF Chosen, v

\* What is selected of a record.
LEMMA SelectedIs ==
  ASSUME NEW q, NEW r \in FruRecord
  PROVE  /\ Selected(q, r) = RecordHeader(r.rsi, r.type, Cardinality(FieldsTaken(q, TRUE, r.fields)))
                             \o Joined(FieldStrings(q, TRUE, r.fields))
         /\ Selected(q, r) \in Seq(Nat)
<1> DEFINE fs == r.fields
           S == FieldsTaken(q, TRUE, fs)
           x == RecordHeader(r.rsi, r.type, Cardinality(S))
           y == Joined(FieldStrings(q, TRUE, fs))
<1>1. fs \in Seq(FruField)
  BY RecordIs
<1>2. DOMAIN fs = 1..Len(fs)
  BY <1>1
<1>3. S = {i \in DOMAIN fs : q.ft \in {0, fs[i].type}}
  BY <1>2, ZenonT(30) DEF FieldsTaken
<1>4. Cardinality(S) \in Nat /\ y \in Seq(Nat)
  BY <1>1, FieldStringsAre, ZenonT(30)
<1>5. x \in Seq(Nat)
  <2> HIDE DEF S
  <2> QED
    BY <1>4, RecordIs
<1>6. FieldStrings(q, TRUE, fs) = [i \in DOMAIN fs |-> IF i \in S THEN Tlv(fs[i]) ELSE <<>>]
  BY <1>2 DEF FieldStrings
<1>7. Selected(q, r) = x \o y
  BY <1>3, <1>6, ZenonT(30) DEF Selected
<1> HIDE DEF x, y
<1>8. x \o y \in Seq(Nat)
  BY <1>4, <1>5
<1> QED
  BY <1>7, <1>8, ZenonT(30) DEF x, y

\* What each record adds to an answer.
FruAnswers(q, rs) ==
    [i \in 1..Len(rs) |-> IF Chosen(q, rs[i]) THEN Selected(q, rs[i]) ELSE <<>>]

\* The table has the records rs: the i-th ends at off[i].
RecordsAt(rs, off) ==
    /\ off \in [0..Len(rs) -> Nat] /\ off[0] = 0 /\ off[Len(rs)] = Len(fru_table)
    /\ \A i \in 1..Len(rs) : RecordAt(off[i - 1], off[i], rs[i])
    /\ \A i \in 0..Len(rs) : off[i] <= Len(fru_table)

RecordState ==
    [rc : {"MORE", "SUCCESS", "INVALID_LENGTH"}, src : Nat, out : Seq(Nat)]

\* What the loop over records has after i turns; sel is what it has found.
RecordGood(q, rs, off, sel, i, s) ==
    /\ s \in RecordState
    /\ s.rc = "MORE" =>
          /\ i < Len(rs) /\ s.src = off[i] /\ s.out = sel[i] /\ Len(s.out) <= q.room
          /\ q.room = Len(fru_table) => Len(s.out) <= off[i]
    /\ s.rc = "SUCCESS" => s.out = sel[Len(rs)] /\ Len(s.out) <= q.room
    /\ q.room = Len(fru_table) => s.rc # "INVALID_LENGTH"

\* A record is too short for what follows only if it is the last.
LEMMA LastRecord ==
  ASSUME fru_table \in Seq(Nat), NEW rs \in Seq(FruRecord), NEW off, RecordsAt(rs, off),
         NEW i \in 1..Len(rs)
  PROVE  NoRecordAt(off[i]) <=> i = Len(rs)
<1> DEFINE t == Len(fru_table)
           n == Len(rs)
<1>1. n \in Nat /\ t \in Nat /\ off[n] = t
  BY DEF RecordsAt
<1>2. i = n => NoRecordAt(off[i])
  <2>1. t - 5 < t
    BY <1>1
  <2> QED
    BY <1>1, <2>1 DEF NoRecordAt, record_hdr_size
<1>3. ASSUME i # n PROVE ~NoRecordAt(off[i])
  <2>1. i + 1 \in 1..n /\ (i + 1) - 1 = i
    BY <1>1, <1>3
  <2>2. RecordAt(off[i], off[i + 1], rs[i + 1])
    BY <2>1 DEF RecordsAt
  <2> DEFINE x == off[i]
             y == off[i + 1]
             l == Len(Tlvs(rs[i + 1].fields))
  <2>3. x \in Nat /\ y \in Nat /\ y = (x + 5) + l /\ y <= t
    BY <2>2, ZenonT(30) DEF RecordAt
  <2>4. l \in Nat
    <3>1. rs[i + 1] \in FruRecord
      BY <2>1
    <3>2. rs[i + 1].fields \in Seq(FruField)
      BY <3>1, RecordIs
    <3>3. Tlvs(rs[i + 1].fields) \in Seq(Nat)
      BY <3>2, TlvsAre
    <3> QED
      BY <3>3
  <2> HIDE DEF x, y, l, t
  <2>5. ~(t - 5 < x)
    BY <1>1, <2>3, <2>4
  <2> QED
    BY <2>5 DEF NoRecordAt, record_hdr_size, x, t
<1> QED
  BY <1>2, <1>3

\* A number in a sequence is replaced.
LEMMA ReplacedIs ==
  ASSUME NEW x \in Seq(Nat), NEW k \in 1..Len(x), NEW c \in Nat
  PROVE  [x EXCEPT ![k] = c] \in Seq(Nat) /\ Len([x EXCEPT ![k] = c]) = Len(x)
OBVIOUS

\* Room for the five bytes of a record's header.
LEMMA HeaderFits ==
  ASSUME NEW l \in Nat, NEW b \in Nat, NEW room \in Nat
  PROVE  (~(room - l < 5) => l + 5 <= room) /\ (l <= b => l + 5 <= b + 5 /\ l <= b + 5)
OBVIOUS

\* A turn of the loop over records.
LEMMA RecordTurnIs ==
  ASSUME fru_table \in Seq(Nat), NEW q, q.room \in Nat, NEW rs \in Seq(FruRecord),
         NEW off, RecordsAt(rs, off),
         NEW sel, JoiningSteps(Nat, Len(rs), FruAnswers(q, rs), sel),
         NEW i \in Nat \ {0}, NEW s, RecordGood(q, rs, off, sel, i - 1, s)
  PROVE  RecordGood(q, rs, off, sel, i, RecordTurn(q, s))
<1> DEFINE n == Len(rs)
           t == Len(fru_table)
           wanted == Wanted(q, s.src)
           header == SubSeq(fru_table, s.src + 1, s.src + record_hdr_size)
           out == IF wanted THEN s.out \o header ELSE s.out
           f == Fields(q, wanted, s.src + record_hdr_size, fru_table[s.src + 4], out)
           end == f.tlv + f.len
           full == wanted /\ q.room - Len(s.out) < record_hdr_size
           next == [rc |-> IF NoRecordAt(end) THEN "SUCCESS" ELSE "MORE",
                    src |-> end,
                    out |-> IF wanted THEN [f.out EXCEPT ![Len(s.out) + 4] = f.count]
                            ELSE s.out]
<1>0. s \in RecordState /\ s.rc \in {"MORE", "SUCCESS", "INVALID_LENGTH"} /\ n \in Nat
  <2>1. s \in RecordState
    BY ZenonT(30) DEF RecordGood
  <2>2. s.rc \in {"MORE", "SUCCESS", "INVALID_LENGTH"}
    BY <2>1, ZenonT(30) DEF RecordState
  <2>3. n \in Nat
    BY LenIs, ZenonT(30)
  <2> QED
    BY <2>1, <2>2, <2>3, ZenonT(30)
<1>1. /\ s.rc # "MORE" => RecordTurn(q, s) = s
      /\ s.rc = "MORE" /\ s.src < t /\ ~(s.src >= t) /\ full =>
             RecordTurn(q, s) = [s EXCEPT !.rc = "INVALID_LENGTH"]
      /\ s.rc = "MORE" /\ s.src < t /\ ~(s.src >= t) /\ ~full =>
             RecordTurn(q, s) = IF f.rc # "SUCCESS" THEN [s EXCEPT !.rc = f.rc] ELSE next
  BY DEF RecordTurn
<1>2. CASE s.rc # "MORE"
  BY <1>1, <1>2 DEF RecordGood
<1>3. CASE s.rc = "MORE"
  <2> DEFINE r == rs[i]
             b == off[i - 1]
             e == off[i]
             h == RecordHeader(r.rsi, r.type, Len(r.fields))
             l == Len(Tlvs(r.fields))
             o == s.out
             lo == Len(o)
             room == q.room
  <2>1. /\ i - 1 < n /\ s.src = b /\ o = sel[i - 1] /\ lo <= room
        /\ room = t => lo <= b
    BY <1>3, ZenonT(30) DEF RecordGood
  <2>2. i \in 1..n /\ i - 1 \in 0..n
    <3>1. n \in Nat /\ i - 1 < n
      BY <1>0, <2>1, ZenonT(30)
    <3> HIDE DEF n
    <3> QED
      BY <3>1, SMTT(30)
  <2>3. r \in FruRecord /\ RecordAt(b, e, r)
    BY <2>2, SMTT(30) DEF RecordsAt
  <2>4. r.fields \in Seq(FruField) /\ r.rsi \in Nat /\ r.type \in Nat
    BY <2>3, RecordIs, ZenonT(30)
  <2>5. l \in Nat /\ Len(r.fields) \in Nat
    <3> DEFINE fs == r.fields
               y == Tlvs(fs)
    <3>1. fs \in Seq(FruField)
      BY <2>4
    <3> HIDE DEF fs
    <3>2. Len(fs) \in Nat /\ y \in Seq(Nat)
      BY <3>1, TlvsAre
    <3> HIDE DEF y
    <3>3. Len(y) \in Nat
      BY <3>2, SMTT(30)
    <3> QED
      BY <3>2, <3>3, ZenonT(30) DEF fs, y
  <2>6. o \in Seq(Nat) /\ lo \in Nat /\ t \in Nat /\ room \in Nat
    <3>1. s.out \in Seq(Nat)
      BY <1>0 DEF RecordState
    <3> QED
      BY <3>1
  <2>7. /\ b \in Nat /\ e \in Nat /\ e = (b + 5) + l /\ e <= t
        /\ fru_table[b + 4] = Len(r.fields) /\ SubSeq(fru_table, b + 1, b + 5) = h
    BY <2>3, ZenonT(30) DEF RecordAt
  <2>8. h \in Seq(Nat) /\ Len(h) = 5
    <3> HIDE DEF r
    <3> QED
      BY <2>3, <2>5, RecordIs
  <2>9. wanted \in BOOLEAN /\ (wanted <=> Chosen(q, r))
    <3>1. Wanted(q, b) <=> Chosen(q, r)
      <4> HIDE DEF b, e, r
      <4> QED
        BY <2>3, WantedIs
    <3>2. Wanted(q, b) \in BOOLEAN
      BY DEF Wanted
    <3> QED
      BY <2>1, <3>1, <3>2, ZenonT(30)
  <2>10. header = h /\ record_hdr_size = 5 /\ s.src + 4 = b + 4 /\ s.src + record_hdr_size = b + 5
    BY <2>1, <2>7, ZenonT(30) DEF record_hdr_size
  <2>11. /\ s.src < t /\ ~(s.src >= t) /\ b + 5 \in Nat /\ b + 5 <= t /\ b <= e
    <3> HIDE DEF b, e, l, t
    <3>1. b < t /\ ~(b >= t) /\ b + 5 \in Nat /\ b + 5 <= t /\ b <= e
      BY <2>5, <2>6, <2>7
    <3> QED
      BY <2>1, <3>1, ZenonT(30)
  <2>12. sel[i] = o \o (IF Chosen(q, r) THEN Selected(q, r) ELSE <<>>)
    <3>1. sel[i] = sel[i - 1] \o FruAnswers(q, rs)[i]
      BY <2>2, ZenonT(30) DEF JoiningSteps
    <3>2. FruAnswers(q, rs)[i] = IF Chosen(q, r) THEN Selected(q, r) ELSE <<>>
      BY <2>2, ZenonT(30) DEF FruAnswers
    <3> QED
      BY <2>1, <3>1, <3>2, ZenonT(30)
  <2>13. CASE full
    <3>1. RecordTurn(q, s) = [s EXCEPT !.rc = "INVALID_LENGTH"]
      BY <1>1, <1>3, <2>11, <2>13, ZenonT(30)
    <3>2. room # t
      <4>1. room - lo < 5
        BY <2>10, <2>13, ZenonT(30)
      <4>2. room = t => lo <= b
        BY <2>1, ZenonT(30)
      <4> HIDE DEF room, lo, t, b
      <4> QED
        BY <2>6, <2>7, <2>11, <4>1, <4>2, SMTT(30)
    <3>3. [s EXCEPT !.rc = "INVALID_LENGTH"] \in RecordState
      BY <1>0, ZenonT(30) DEF RecordState
    <3>4. [s EXCEPT !.rc = "INVALID_LENGTH"].rc = "INVALID_LENGTH"
      BY <1>0 DEF RecordState
    <3>5. "INVALID_LENGTH" # "MORE" /\ "INVALID_LENGTH" # "SUCCESS"
      OBVIOUS
    <3> QED
      BY <3>1, <3>2, <3>3, <3>4, <3>5, ZenonT(30) DEF RecordGood
  <2>14. CASE ~full
    <3> DEFINE after == IF wanted THEN o \o h ELSE o
    <3>1. /\ after \in Seq(Nat) /\ Len(after) <= room
          /\ room = t => Roomy(q, b + 5, after)
          /\ wanted => Len(o \o h) = lo + 5
      <4>1. wanted => ~(room - lo < 5)
        BY <2>10, <2>14, ZenonT(30)
      <4>2. room = t => lo <= b
        BY <2>1, ZenonT(30)
      <4>3. o \o h \in Seq(Nat) /\ Len(o \o h) = lo + 5
        <5>1. IsBehind(o \o h, o, h)
          <6> HIDE DEF o, h
          <6> QED
            BY <2>6, <2>8, BehindIs, ZenonT(30)
        <5> QED
          BY <2>8, <5>1, ZenonT(30) DEF IsBehind
      <4>4. /\ wanted => lo + 5 <= room
            /\ room = t => lo + 5 <= b + 5 /\ lo <= b + 5
        <5>1. lo \in Nat /\ b \in Nat /\ room \in Nat
          BY <2>6, <2>7, ZenonT(30)
        <5>2. (~(room - lo < 5) => lo + 5 <= room) /\ (lo <= b => lo + 5 <= b + 5 /\ lo <= b + 5)
          <6> HIDE DEF room, lo, b
          <6> QED
            BY <5>1, HeaderFits, ZenonT(30)
        <5> QED
          BY <4>1, <4>2, <5>2, ZenonT(30)
      <4> HIDE DEF wanted
      <4>5. CASE wanted
        BY <4>3, <4>4, <4>5, ZenonT(30) DEF Roomy
      <4>6. CASE ~wanted
        BY <2>1, <2>6, <4>4, <4>6, ZenonT(30) DEF Roomy
      <4> QED
        BY <4>5, <4>6, ZenonT(30)
    <3>2. f = Fields(q, wanted, b + 5, Len(r.fields), after)
      BY <2>7, <2>10, ZenonT(30)
    <3> HIDE DEF after
    <3>3. ReadAs(q, wanted, b, e, r, after, f)
      <4> HIDE DEF r, b, e, wanted, f
      <4> QED
        BY <2>3, <2>9, <3>1, <3>2, RecordRead, ZenonT(30)
    <3>4. f.rc \in {"SUCCESS", "INVALID_LENGTH"}
      BY <3>3, ZenonT(30) DEF ReadAs
    <3>5. RecordTurn(q, s) = IF f.rc # "SUCCESS" THEN [s EXCEPT !.rc = f.rc] ELSE next
      BY <1>1, <1>3, <2>11, <2>14, ZenonT(30)
    <3>6. CASE f.rc # "SUCCESS"
      <4>1. f.rc = "INVALID_LENGTH" /\ RecordTurn(q, s) = [s EXCEPT !.rc = f.rc]
        <5> HIDE DEF f, next
        <5> QED
          BY <3>4, <3>5, <3>6
      <4>2. room # t
        BY <3>1, <3>3, <3>6, ZenonT(30) DEF ReadAs
      <4>3. [s EXCEPT !.rc = "INVALID_LENGTH"] \in RecordState
        BY <1>0, ZenonT(30) DEF RecordState
      <4>4. [s EXCEPT !.rc = "INVALID_LENGTH"].rc = "INVALID_LENGTH"
        BY <1>0 DEF RecordState
      <4>5. "INVALID_LENGTH" # "MORE" /\ "INVALID_LENGTH" # "SUCCESS"
        OBVIOUS
      <4> HIDE DEF f
      <4>6. RecordTurn(q, s) = [s EXCEPT !.rc = "INVALID_LENGTH"]
        BY <4>1
      <4> QED
        BY <4>2, <4>3, <4>4, <4>5, <4>6, ZenonT(30) DEF RecordGood
    <3>7. CASE f.rc = "SUCCESS"
      <4> DEFINE J == Joined(FieldStrings(q, wanted, r.fields))
                 c == Cardinality(FieldsTaken(q, wanted, r.fields))
                 w == IF wanted THEN [f.out EXCEPT ![lo + 4] = f.count] ELSE o
      <4>1. RecordTurn(q, s) = next
        <5> HIDE DEF f, next
        <5> QED
          BY <3>5, <3>7
      <4>2. /\ end = e /\ f.count = c /\ f.out = after \o J /\ Len(f.out) <= room
            /\ room = t => Len(f.out) <= e
        BY <3>1, <3>3, <3>7, ZenonT(30) DEF ReadAs
      <4>3. c \in Nat /\ J \in Seq(Nat)
        <5> HIDE DEF r, wanted
        <5> QED
          BY <2>4, FieldStringsAre, SMTT(30)
      <4> HIDE DEF f
      <4>4. w = sel[i] /\ w \in Seq(Nat) /\ Len(w) <= room /\ (room = t => Len(w) <= e)
        <5>1. CASE wanted
          <6>1. Selected(q, r) = RecordHeader(r.rsi, r.type, c) \o J
            <7>1. wanted = TRUE
              BY <2>9, <5>1
            <7> HIDE DEF r, wanted
            <7>2. Selected(q, r) = RecordHeader(r.rsi, r.type, Cardinality(FieldsTaken(q, TRUE, r.fields)))
                                     \o Joined(FieldStrings(q, TRUE, r.fields))
              BY <2>3, SelectedIs, ZenonT(30)
            <7> QED
              BY <7>1, <7>2, ZenonT(30)
          <6>2. after \o J = (o \o h) \o J
            BY <5>1, ZenonT(30) DEF after
          <6>3. [((o \o h) \o J) EXCEPT ![lo + 4] = c] = o \o (RecordHeader(r.rsi, r.type, c) \o J)
            <7> DEFINE x == r.rsi
                       y == r.type
                       m == Len(r.fields)
            <7>1. x \in Nat /\ y \in Nat /\ m \in Nat
              BY <2>4, <2>5, SMTT(30)
            <7> HIDE DEF o, J, c, x, y, m
            <7>2. Counted(o, J, x, y, m, c)
              BY <2>6, <4>3, <7>1, HeaderCount, ZenonT(30)
            <7> QED
              BY <7>2, ZenonT(30) DEF Counted, x, y, m
          <6>4. sel[i] = o \o Selected(q, r)
            <7> HIDE DEF r, o
            <7> QED
              BY <2>9, <2>12, <5>1
          <6>5. w = [((o \o h) \o J) EXCEPT ![lo + 4] = c]
            BY <4>2, <5>1, <6>2, ZenonT(30)
          <6>6. w = sel[i]
            BY <6>1, <6>3, <6>4, <6>5, ZenonT(30)
          <6> DEFINE z == f.out
          <6>7. z \in Seq(Nat) /\ Len(z) = (lo + 5) + Len(J) /\ w = [z EXCEPT ![lo + 4] = c]
            <7>1. z = (o \o h) \o J
              BY <4>2, <6>2
            <7>2. o \o h \in Seq(Nat) /\ Len(o \o h) = lo + 5
              BY <3>1, <5>1, ZenonT(30) DEF after
            <7> HIDE DEF o, h, J, w, c
            <7> DEFINE oh == o \o h
            <7> HIDE DEF oh
            <7>3. IsBehind(oh \o J, oh, J)
              BY <4>3, <7>2, BehindIs, ZenonT(30) DEF oh
            <7>4. oh \o J \in Seq(Nat) /\ Len(oh \o J) = (lo + 5) + Len(J)
              BY <7>2, <7>3, ZenonT(30) DEF IsBehind, oh
            <7> QED
              BY <6>5, <7>1, <7>4, ZenonT(30) DEF oh
          <6>8. lo + 4 \in 1..Len(z)
            <7> DEFINE lj == Len(J)
                       lz == Len(z)
            <7>1. lj \in Nat /\ lz = (lo + 5) + lj
              <8>1. lz = (lo + 5) + lj
                BY <6>7, ZenonT(30)
              <8> HIDE DEF J
              <8>2. lj \in Nat
                BY <4>3, SMTT(30)
              <8> QED
                BY <8>1, <8>2, ZenonT(30)
            <7> HIDE DEF lj, lz, lo
            <7>2. lo + 4 \in 1..lz
              BY <2>6, <7>1
            <7> QED
              BY <7>2, SMTT(30) DEF lz
          <6>9. w \in Seq(Nat) /\ Len(w) = Len(z)
            <7> HIDE DEF z, lo, c, w
            <7> QED
              BY <4>3, <6>7, <6>8, ReplacedIs
          <6> QED
            BY <4>2, <6>6, <6>9, ZenonT(30)
        <5>2. CASE ~wanted
          <6>1. sel[i] = o /\ w = o
            <7>1. sel[i] = o \o <<>>
              BY <2>9, <2>12, <5>2, ZenonT(30)
            <7>2. o \o <<>> = o
              BY <2>6, SMTT(30)
            <7> QED
              BY <5>2, <7>1, <7>2, ZenonT(30)
          <6>2. room = t => lo <= e
            <7>1. lo \in Nat /\ b \in Nat /\ e \in Nat /\ b <= e /\ (room = t => lo <= b)
              BY <2>1, <2>6, <2>7, <2>11, ZenonT(30)
            <7> HIDE DEF room, t, lo, b, e
            <7> QED
              BY <7>1
          <6> QED
            BY <2>1, <2>6, <6>1, <6>2, ZenonT(30)
        <5> QED
          BY <5>1, <5>2, ZenonT(30)
      <4>5. NoRecordAt(e) <=> i = n
        BY <2>2, LastRecord, SMTT(30)
      <4> DEFINE rc == IF i = n THEN "SUCCESS" ELSE "MORE"
      <4>6. next = [rc |-> rc, src |-> e, out |-> w]
        <5> HIDE DEF e, w
        <5>1. (IF NoRecordAt(end) THEN "SUCCESS" ELSE "MORE") = rc
          BY <4>2, <4>5, SMTT(30)
        <5> HIDE DEF rc, end
        <5> QED
          BY <4>2, <5>1, ZenonT(30) DEF w
      <4> HIDE DEF next, w, e
      <4>7. next \in RecordState /\ next.rc = rc /\ next.src = e /\ next.out = w
        BY <2>7, <4>4, <4>6, ZenonT(30) DEF RecordState
      <4>8. i # n => i < n
        BY <1>0, <2>2
      <4>9. "SUCCESS" # "INVALID_LENGTH" /\ "MORE" # "INVALID_LENGTH" /\ "SUCCESS" # "MORE"
        OBVIOUS
      <4>10. CASE i = n
        <5>1. next.rc = "SUCCESS"
          BY <4>7, <4>10
        <5> QED
          BY <4>1, <4>4, <4>7, <4>9, <4>10, <5>1, ZenonT(30) DEF RecordGood
      <4>11. CASE i # n
        <5>1. next.rc = "MORE"
          BY <4>7, <4>11
        <5> QED
          BY <4>1, <4>4, <4>7, <4>8, <4>9, <4>11, <5>1, ZenonT(30) DEF RecordGood, e
      <4> QED
        BY <4>10, <4>11
    <3> QED
      BY <3>6, <3>7
  <2> QED
    BY <2>13, <2>14
<1> QED
  BY <1>2, <1>3, SMTT(30)

\* There are no more records than bytes.
LEMMA FewRecords ==
  ASSUME NEW rs \in Seq(FruRecord), NEW off, RecordsAt(rs, off)
  PROVE  Len(rs) <= Len(fru_table)
<1> DEFINE n == Len(rs)
           S == {i \in Nat : i <= n => i <= off[i]}
<1>1. n \in Nat /\ off[0] = 0 /\ off[n] = Len(fru_table)
  BY DEF RecordsAt
<1>2. 0 \in S
  BY <1>1
<1>3. ASSUME NEW i \in Nat, i \in S PROVE i + 1 \in S
  <2> SUFFICES ASSUME i + 1 <= n PROVE i + 1 <= off[i + 1]
    OBVIOUS
  <2>1. i + 1 \in 1..n /\ (i + 1) - 1 = i /\ i <= off[i]
    BY <1>1, <1>3
  <2>2. RecordAt(off[i], off[i + 1], rs[i + 1])
    BY <2>1 DEF RecordsAt
  <2> DEFINE x == off[i]
             y == off[i + 1]
             l == Len(Tlvs(rs[i + 1].fields))
  <2>3. x \in Nat /\ y \in Nat /\ y = (x + 5) + l
    BY <2>2, ZenonT(30) DEF RecordAt
  <2>4. l \in Nat
    <3>1. rs[i + 1] \in FruRecord
      BY <2>1
    <3>2. rs[i + 1].fields \in Seq(FruField)
      BY <3>1, RecordIs
    <3>3. Tlvs(rs[i + 1].fields) \in Seq(Nat)
      BY <3>2, TlvsAre
    <3> QED
      BY <3>3
  <2>5. i <= x
    BY <2>1
  <2> HIDE DEF x, y, l
  <2>6. i + 1 <= y
    BY <2>3, <2>4, <2>5
  <2> QED
    BY <2>6 DEF y
<1>4. Nat \subseteq S
  <2> HIDE DEF S
  <2> QED
    BY <1>2, <1>3, SetInduction
<1>5. n \in S
  BY <1>1, <1>4
<1>6. n <= off[n]
  BY <1>1, <1>5
<1> QED
  BY <1>1, <1>6

\* The loop over the records of a table.
LEMMA SearchIs ==
  ASSUME fru_table \in Seq(Nat), ~(Len(fru_table) < MIN_TABLE_SIZE),
         NEW q, q.room \in Nat, NEW rs \in Seq(FruRecord), rs # <<>>,
         NEW off, RecordsAt(rs, off),
         NEW sel, JoiningSteps(Nat, Len(rs), FruAnswers(q, rs), sel)
  PROVE  RecordGood(q, rs, off, sel, Len(fru_table), get_fru_record_by_option(q))
<1> DEFINE n == Len(fru_table)
           a == [rc |-> "MORE", src |-> 0, out |-> <<>>]
           Good(i, s) == RecordGood(q, rs, off, sel, i, s)
           G == [i \in 0..n |-> {s \in RecordState : Good(i, s)}]
           st == [i \in 1..n |-> [x \in RecordState |-> RecordTurn(q, x)]]
           Body(f) == [i \in 0..n |-> IF i = 0 THEN a ELSE RecordTurn(q, f[i - 1])]
           turn == CHOOSE f : f = Body(f)
<1>0. /\ n \in Nat /\ 0 \in 0..n /\ n \in 0..n
      /\ \A i \in 1..n : i # 0 /\ i \in 0..n /\ i - 1 \in 0..n /\ i \in Nat \ {0}
  OBVIOUS
<1>1. a \in RecordState /\ a.rc = "MORE" /\ a.src = 0 /\ a.out = <<>>
  BY DEF RecordState
<1>2. Good(0, a)
  <2>1. off[0] = 0 /\ sel[0] = <<>>
    BY DEF RecordsAt, JoiningSteps
  <2>2. 0 < Len(rs)
    OBVIOUS
  <2>3. Len(<<>>) <= q.room /\ Len(<<>>) <= off[0]
    BY <2>1
  <2>4. "MORE" # "SUCCESS" /\ "MORE" # "INVALID_LENGTH"
    OBVIOUS
  <2> HIDE DEF a
  <2> QED
    BY <1>1, <2>1, <2>2, <2>3, <2>4, ZenonT(30) DEF RecordGood
<1>3. ASSUME NEW i \in 1..n, NEW x, Good(i - 1, x) PROVE Good(i, RecordTurn(q, x))
  BY <1>0, <1>3, RecordTurnIs
<1>4. \A i \in 0..n : G[i] = {s \in RecordState : Good(i, s)}
  BY ZenonT(30)
<1>5. \A i \in 1..n : \A x \in RecordState : st[i][x] = RecordTurn(q, x)
  BY ZenonT(30)
<1>6. \A i \in 0..n : \A s : Good(i, s) => s \in RecordState
  BY ZenonT(30) DEF RecordGood
<1> HIDE DEF n, a, Good, G, st
<1>7. \A i \in 0..n : G[i] \subseteq RecordState
  BY <1>4, ZenonT(30)
<1>8. a \in G[0]
  BY <1>0, <1>1, <1>2, <1>4, ZenonT(30)
<1>9. \A i \in 1..n : \A x \in G[i - 1] : st[i][x] \in G[i]
  <2> SUFFICES ASSUME NEW i \in 1..n, NEW x \in G[i - 1] PROVE st[i][x] \in G[i]
    BY ZenonT(30)
  <2>1. x \in RecordState /\ Good(i - 1, x)
    BY <1>0, <1>4, ZenonT(30)
  <2>2. Good(i, RecordTurn(q, x))
    BY <1>3, <2>1, ZenonT(30)
  <2>3. st[i][x] = RecordTurn(q, x)
    BY <1>5, <2>1, ZenonT(30)
  <2> QED
    BY <1>0, <1>4, <1>6, <2>2, <2>3, ZenonT(30)
<1>10. Passes(n, RecordState, G, a, st)
  BY <1>0, <1>7, <1>8, <1>9, Passing, ZenonT(30)
<1>11. PICK f \in [0..n -> RecordState] :
          /\ f[0] = a
          /\ \A i \in 1..n : f[i] = st[i][f[i - 1]]
          /\ \A i \in 0..n : f[i] \in G[i]
  BY <1>10, ZenonT(30) DEF Passes
<1>12. \A i \in 1..n : f[i] = RecordTurn(q, f[i - 1])
  BY <1>0, <1>5, <1>11, ZenonT(30)
<1>13. f = Body(f)
  <2>1. \A i \in 0..n : f[i] = IF i = 0 THEN a ELSE RecordTurn(q, f[i - 1])
    <3>1. \A i \in 0..n : i = 0 \/ i \in 1..n
      BY <1>0
    <3> QED
      BY <1>11, <1>12, <3>1, ZenonT(30)
  <2> QED
    BY <1>11, <2>1, ZenonT(30)
<1>14. turn = Body(turn)
  BY <1>13, ZenonT(30)
<1>15. get_fru_record_by_option(q) = turn[n]
  BY ZenonT(30) DEF get_fru_record_by_option, a, n
<1> HIDE DEF turn
<1>16. turn[0] = a /\ \A i \in 1..n : turn[i] = RecordTurn(q, turn[i - 1])
  <2>1. \A i \in 0..n : turn[i] = Body(turn)[i]
    BY <1>14, ZenonT(30)
  <2>2. \A i \in 0..n : Body(turn)[i] = IF i = 0 THEN a ELSE RecordTurn(q, turn[i - 1])
    OBVIOUS
  <2> QED
    BY <1>0, <2>1, <2>2, ZenonT(30)
<1>17. GoAlike(n, f, turn)
  BY <1>11, <1>12, <1>16, ZenonT(30) DEF GoAlike
<1>18. Agree(n, f, turn)
  BY <1>0, <1>17, SameSteps
<1>19. Good(n, turn[n])
  BY <1>0, <1>4, <1>11, <1>18, ZenonT(30) DEF Agree
<1> QED
  BY <1>15, <1>19 DEF Good, n

\* A record as a string.
LEMMA FruBytesAre ==
  ASSUME NEW r \in FruRecord
  PROVE  FruBytes(r) \in Seq(Nat)
<1> DEFINE m == Len(r.fields)
           h == RecordHeader(r.rsi, r.type, m)
           y == Tlvs(r.fields)
<1>1. r.fields \in Seq(FruField)
  BY RecordIs
<1>2. m \in Nat /\ y \in Seq(Nat)
  BY <1>1, TlvsAre
<1>3. h \in Seq(Nat)
  <2> HIDE DEF m
  <2> QED
    BY <1>2, RecordIs
<1> HIDE DEF h, y
<1>4. h \o y \in Seq(Nat)
  BY <1>2, <1>3
<1> QED
  BY <1>4 DEF FruBytes, h, y

\* A table that is the records behind each other.
LEMMA RecordsLaid ==
  ASSUME NEW rs \in Seq(FruRecord), fru_table = Joined(FruRecords(rs))
  PROVE  fru_table \in Seq(Nat) /\ \E off : RecordsAt(rs, off)
<1> DEFINE n == Len(rs)
           ss == FruRecords(rs)
<1>1. n \in Nat /\ \A i \in 1..n : rs[i] \in FruRecord
  OBVIOUS
<1>2. ss \in [1..n -> Seq(Nat)] /\ \A i \in 1..n : ss[i] = FruBytes(rs[i])
  <2>1. \A i \in 1..n : FruBytes(rs[i]) \in Seq(Nat)
    BY <1>1, FruBytesAre
  <2> QED
    BY <2>1, ZenonT(30) DEF FruRecords
<1> HIDE DEF ss, n
<1>3. IsJoined(Nat, fru_table, n, ss)
  BY <1>1, <1>2, JoinedIs DEF ss
<1>4. fru_table \in Seq(Nat)
  BY <1>3 DEF IsJoined
<1>5. PICK off : JoinedAt(fru_table, n, ss, off)
  BY <1>3, SMTT(30) DEF IsJoined
<1>6. off \in [0..n -> Nat] /\ off[0] = 0 /\ off[n] = Len(fru_table)
  BY <1>5 DEF JoinedAt
<1>7. StringAt(0, fru_table)
  <2>1. /\ 0 \in Nat /\ 0 + Len(fru_table) <= Len(fru_table)
        /\ \A k \in 1..Len(fru_table) : fru_table[0 + k] = fru_table[k]
    BY <1>4
  <2> QED
    BY <2>1 DEF StringAt
<1>8. ASSUME NEW i \in 1..n PROVE RecordAt(off[i - 1], off[i], rs[i]) /\ off[i] <= Len(fru_table)
  <2>1. Within(0, ss, off, i)
    BY <1>1, <1>2, <1>4, <1>5, <1>7, StringWithin, SMTT(30)
  <2>2. 0 + off[i - 1] = off[i - 1]
    <3>1. off[i - 1] \in Nat
      BY <2>1 DEF Within
    <3> QED
      BY <3>1
  <2>3. StringAt(off[i - 1], FruBytes(rs[i])) /\ off[i] = off[i - 1] + Len(FruBytes(rs[i]))
    BY <1>2, <2>1, <2>2, ZenonT(30) DEF Within
  <2>4. rs[i] \in FruRecord
    BY <1>1
  <2>5. RecordAt(off[i - 1], off[i - 1] + Len(FruBytes(rs[i])), rs[i])
    BY <1>4, <2>3, <2>4, RecordLaid, ZenonT(30)
  <2> QED
    BY <2>3, <2>5, ZenonT(30) DEF RecordAt
<1>9. \A i \in 0..n : off[i] <= Len(fru_table)
  <2> SUFFICES ASSUME NEW i \in 0..n PROVE off[i] <= Len(fru_table)
    OBVIOUS
  <2>1. CASE i = 0
    BY <1>4, <1>6, <2>1
  <2>2. CASE i \in 1..n
    BY <1>8, <2>2
  <2> QED
    BY <1>1, <2>1, <2>2
<1>10. RecordsAt(rs, off)
  BY <1>6, <1>8, <1>9, ZenonT(30) DEF RecordsAt, n
<1> QED
  BY <1>4, <1>10

\* The table is the records that were encoded, behind each other.
FruInv == recorded \in Seq(FruRecord) /\ fru_table = Joined(FruRecords(recorded))

\* What is found in such a table.
LEMMA FruFound ==
  ASSUME FruInv
  PROVE  FruSelected
<1> SUFFICES ASSUME recorded # <<>>, NEW rsi \in RecordSets \cup {0},
                    NEW rt \in RecordTypes \cup {0}, NEW ft \in FieldTypes \cup {0},
                    NEW room \in 0..Len(fru_table)
             PROVE  LET q == [rsi |-> rsi, rt |-> rt, ft |-> ft, room |-> room]
                        s == get_fru_record_by_option(q)
                    IN  /\ s.rc = "SUCCESS" => s.out = Expected(q) /\ Len(s.out) <= room
                        /\ room = Len(fru_table) /\ room >= MIN_TABLE_SIZE => s.rc = "SUCCESS"
  BY ZenonT(30) DEF FruSelected
<1> DEFINE q == [rsi |-> rsi, rt |-> rt, ft |-> ft, room |-> room]
           s == get_fru_record_by_option(q)
           rs == recorded
           n == Len(rs)
           ss == FruAnswers(q, rs)
<1>1. rs \in Seq(FruRecord) /\ fru_table = Joined(FruRecords(rs))
  BY DEF FruInv
<1>2. fru_table \in Seq(Nat) /\ \E off : RecordsAt(rs, off)
  BY <1>1, RecordsLaid
<1>3. PICK off : RecordsAt(rs, off)
  BY <1>2
<1>4. q.room = room /\ room \in Nat
  BY <1>2
<1> HIDE DEF q
<1>5. n \in Nat /\ DOMAIN rs = 1..n /\ \A i \in 1..n : rs[i] \in FruRecord
  BY <1>1
<1>6. ss \in [1..n -> Seq(Nat)]
  <2>1. \A i \in 1..n : Selected(q, rs[i]) \in Seq(Nat)
    BY <1>5, SelectedIs, ZenonT(30)
  <2>2. <<>> \in Seq(Nat)
    OBVIOUS
  <2>3. \A i \in 1..n : (IF Chosen(q, rs[i]) THEN Selected(q, rs[i]) ELSE <<>>) \in Seq(Nat)
    BY <2>1, <2>2
  <2> QED
    BY <2>3, ZenonT(30) DEF FruAnswers
<1>7. PICK sel : JoiningSteps(Nat, n, ss, sel)
  <2> HIDE DEF n, ss
  <2> QED
    BY <1>5, <1>6, JoiningIs
<1>8. Expected(q) = sel[n]
  <2> DEFINE chosen == {i \in DOMAIN rs : q.rsi \in {0, rs[i].rsi} /\ q.rt \in {0, rs[i].type}}
  <2>1. \A i \in 1..n : i \in chosen <=> Chosen(q, rs[i])
    BY <1>5, ZenonT(30) DEF Chosen
  <2>2. Expected(q) = Joined([i \in DOMAIN rs |-> IF i \in chosen THEN Selected(q, rs[i]) ELSE <<>>])
    BY DEF Expected
  <2> HIDE DEF chosen
  <2>3. [i \in DOMAIN rs |-> IF i \in chosen THEN Selected(q, rs[i]) ELSE <<>>] = ss
    BY <1>5, <2>1 DEF FruAnswers
  <2>4. sel[n] = Joined(ss)
    BY <1>7 DEF JoiningSteps
  <2> QED
    BY <2>2, <2>3, <2>4, ZenonT(30)
<1>9. CASE Len(fru_table) < MIN_TABLE_SIZE
  <2>1. s = [rc |-> "INVALID_LENGTH", src |-> 0, out |-> <<>>]
    BY <1>9, ZenonT(30) DEF get_fru_record_by_option
  <2>2. s.rc # "SUCCESS"
    BY <2>1
  <2>3. ~(room = Len(fru_table) /\ room >= MIN_TABLE_SIZE)
    BY <1>2, <1>4, <1>9 DEF MIN_TABLE_SIZE
  <2> HIDE DEF s
  <2> QED
    BY <2>2, <2>3 DEF q, s
<1>10. CASE ~(Len(fru_table) < MIN_TABLE_SIZE)
  <2>1. RecordGood(q, rs, off, sel, Len(fru_table), s)
    BY <1>1, <1>2, <1>3, <1>4, <1>7, <1>10, SearchIs, ZenonT(30)
  <2>2. ~(Len(fru_table) < Len(rs))
    <3>1. Len(rs) <= Len(fru_table)
      BY <1>1, <1>3, FewRecords, ZenonT(30)
    <3> QED
      BY <1>2, <1>5, <3>1
  <2>3. s \in RecordState
    BY <2>1 DEF RecordGood
  <2> HIDE DEF s
  <2>4. s.rc \in {"MORE", "SUCCESS", "INVALID_LENGTH"}
    BY <2>3 DEF RecordState
  <2>5. s.rc # "MORE"
    BY <2>1, <2>2, ZenonT(30) DEF RecordGood
  <2>6. s.rc = "SUCCESS" => s.out = Expected(q) /\ Len(s.out) <= room
    BY <1>4, <1>8, <2>1, ZenonT(30) DEF RecordGood
  <2>7. room = Len(fru_table) => s.rc = "SUCCESS"
    <3>1. room = Len(fru_table) => s.rc # "INVALID_LENGTH"
      BY <1>4, <2>1, ZenonT(30) DEF RecordGood
    <3> QED
      BY <2>4, <2>5, <3>1
  <2> QED
    BY <2>6, <2>7, ZenonT(30) DEF q, s
<1> QED
  BY <1>9, <1>10, SMTT(30)

\* A table without records.
LEMMA FruEmpty ==
  Joined(FruRecords(<<>>)) = <<>>
<1>1. 0 \in Nat /\ FruRecords(<<>>) \in [1..0 -> Seq(Nat)]
  BY DEF FruRecords
<1>2. PICK f : JoiningSteps(Nat, 0, FruRecords(<<>>), f)
  <2> DEFINE n == 0
  <2>1. n \in Nat /\ FruRecords(<<>>) \in [1..n -> Seq(Nat)]
    BY <1>1
  <2> HIDE DEF n
  <2>2. \E f : JoiningSteps(Nat, n, FruRecords(<<>>), f)
    BY <2>1, JoiningIs, ZenonT(30)
  <2> QED
    BY <2>2 DEF n
<1> QED
  BY <1>2 DEF JoiningSteps

\* A record is encoded behind the others.
LEMMA FruSteps ==
  ASSUME FruInv, [FruNext]_fruVars
  PROVE  FruInv'
<1>0. recorded \in Seq(FruRecord) /\ fru_table = Joined(FruRecords(recorded))
  BY DEF FruInv
<1>1. CASE UNCHANGED fruVars
  BY <1>1, ZenonT(30) DEF FruInv, fruVars
<1>2. CASE Rebuilt
  <2>1. fru_table' = <<>> /\ recorded' = <<>>
    BY <1>2 DEF Rebuilt
  <2>2. recorded' \in Seq(FruRecord)
    BY <2>1
  <2>3. fru_table' = Joined(FruRecords(recorded'))
    BY <2>1, FruEmpty
  <2> QED
    BY <2>2, <2>3, ZenonT(30) DEF FruInv, FruRecords, FruBytes, Joined
<1>3. ASSUME NEW rsi \in RecordSets, NEW type \in RecordTypes, NEW m \in 0..MaxFields,
             NEW fields \in [1..m -> [type : FieldTypes, length : FieldLengths]],
             encode_fru_record(rsi, type, fields)
      PROVE  FruInv'
  <2> DEFINE r == [rsi |-> rsi, type |-> type, fields |-> fields]
             h == RecordHeader(rsi, type, Len(fields))
             y == Tlvs(fields)
             rs == recorded
             n == Len(rs)
             ss == FruRecords(rs)
             more == Append(rs, r)
             tt == FruRecords(more)
  <2>1. fields \in Seq(FruField)
    <3>1. m \in Nat
      BY FruAssumption
    <3>2. fields \in [1..m -> FruField]
      BY SMTT(30) DEF FruField
    <3> QED
      BY <3>1, <3>2
  <2>2. r \in FruRecord /\ r.rsi = rsi /\ r.type = type /\ r.fields = fields
    BY <2>1 DEF FruRecord
  <2>3. fru_table' = (fru_table \o h) \o y /\ recorded' = more
    BY <1>3 DEF encode_fru_record
  <2>4. FruBytes(r) = h \o y
    <3> HIDE DEF r
    <3> QED
      BY <2>2, ZenonT(30) DEF FruBytes
  <2>5. h \in Seq(Nat) /\ y \in Seq(Nat)
    <3>1. Len(fields) \in Nat /\ y \in Seq(Nat)
      BY <2>1, TlvsAre
    <3> DEFINE k == Len(fields)
    <3> HIDE DEF r, k
    <3>2. RecordHeader(r.rsi, r.type, k) \in Seq(Nat)
      BY <2>2, <3>1, RecordIs DEF k
    <3> QED
      BY <2>2, <3>1, <3>2 DEF k
  <2>6. fru_table \in Seq(Nat)
    BY <1>0, RecordsLaid
  <2> HIDE DEF h, y, r
  <2>7. fru_table' = fru_table \o FruBytes(r)
    <3> DEFINE x == fru_table
    <3>1. x \in Seq(Nat)
      BY <2>6
    <3> HIDE DEF x
    <3>2. (x \o h) \o y = x \o (h \o y)
      BY <2>5, <3>1, Behind3, ZenonT(30)
    <3> QED
      BY <2>3, <2>4, <3>2, ZenonT(30) DEF x
  <2>8. /\ n \in Nat /\ more \in Seq(FruRecord) /\ Len(more) = n + 1
        /\ \A i \in 1..n : more[i] = rs[i]
        /\ more[n + 1] = r
    BY <1>0, <2>2
  <2>9. \A i \in 1..n : rs[i] \in FruRecord
    BY <1>0
  <2> HIDE DEF more
  <2>10. \A i \in 1..n : i \in 1..(n + 1)
    BY <2>8
  <2>11. \A i \in 1..(n + 1) : more[i] \in FruRecord
    BY <2>8
  <2>12. n + 1 \in 1..(n + 1)
    BY <2>8
  <2> HIDE DEF n
  <2>13. ss = [i \in 1..n |-> FruBytes(rs[i])] /\ tt = [i \in 1..(n + 1) |-> FruBytes(more[i])]
    BY <2>8, ZenonT(30) DEF FruRecords, n
  <2>14. \A i \in 1..n : FruBytes(rs[i]) \in Seq(Nat)
    BY <2>9, FruBytesAre
  <2>15. \A i \in 1..(n + 1) : FruBytes(more[i]) \in Seq(Nat)
    BY <2>11, FruBytesAre
  <2>16. ss \in [1..n -> Seq(Nat)] /\ tt \in [1..(n + 1) -> Seq(Nat)]
    BY <2>13, <2>14, <2>15, ZenonT(30)
  <2>17. \A i \in 1..n : tt[i] = ss[i]
    BY <2>8, <2>10, <2>13, ZenonT(30)
  <2>18. tt[n + 1] = FruBytes(r)
    BY <2>8, <2>12, <2>13, ZenonT(30)
  <2> HIDE DEF ss, tt
  <2>19. Joined(tt) = Joined(ss) \o tt[n + 1]
    BY <2>8, <2>16, <2>17, JoinedAppend, ZenonT(30)
  <2>20. fru_table' = Joined(tt)
    BY <1>0, <2>7, <2>18, <2>19, ZenonT(30) DEF ss
  <2>21. recorded' \in Seq(FruRecord) /\ fru_table' = Joined(FruRecords(recorded'))
    BY <2>3, <2>8, <2>20, ZenonT(30) DEF tt
  <2> QED
    BY <2>21, ZenonT(30) DEF FruInv
<1> QED
  BY <1>1, <1>2, <1>3, ZenonT(30) DEF FruNext

\* Whatever records are encoded behind each other, by encode_fru_record, and whatever
\* is asked for, get_fru_record_by_option finds the records and the fields that are
\* asked for and no others, within the room it has; room for the table is enough.
THEOREM FruRecordsAreSelected ==
  FruSpec => []FruSelected
<1>1. FruInit => FruInv
  <2> SUFFICES ASSUME FruInit PROVE FruInv
    OBVIOUS
  <2>1. recorded = <<>> /\ fru_table = <<>>
    BY DEF FruInit
  <2>2. recorded \in Seq(FruRecord)
    BY <2>1
  <2> QED
    BY <2>1, <2>2, FruEmpty DEF FruInv
<1>2. FruInv /\ [FruNext]_fruVars => FruInv'
  BY FruSteps
<1>3. FruInv => FruSelected
  BY FruFound
<1> QED
  BY <1>1, <1>2, <1>3, PTL DEF FruSpec

=============================================================================
