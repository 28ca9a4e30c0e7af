------------------------------ MODULE Control ------------------------------
(***************************************************************************)
(* The responder of PLDM's base type, src/control.c: the table of types an  *)
(* application registers, and the four commands that report it.            *)
(*                                                                         *)
(* The version and command buffers that the application keeps are values   *)
(* of Registrations: what matters is which buffer of which length an       *)
(* answer is taken from.                                                   *)
(***************************************************************************)
EXTENDS Integers, FiniteSets, FiniteSetsExt

CONSTANTS
    PLDM_CONTROL_MAX_VERSION_TYPES,  \* the slots of the table
    Types,           \* the type numbers that are registered and asked for
    Registrations,   \* what is registered: a version buffer, the count of its
                     \* words, and a command buffer or NULL
    Requests         \* the messages that are handled

ASSUME SlotsAssumption == PLDM_CONTROL_MAX_VERSION_TYPES \in Nat \ {0}
ASSUME TypesAssumption == Types \subseteq 0..255 /\ 0 \in Types
ASSUME RegistrationsAssumption ==
    \A r \in Registrations : r.versions # "NULL" /\ r.count \in Nat

VARIABLES
    types,           \* struct pldm_control
    registered       \* history: the last registration accepted for a type

controlvars == <<types, registered>>

NULL == "NULL"
None == "none"

PLDM_BASE == 0
PLDM_GET_TID == 2
PLDM_GET_PLDM_VERSION == 3
PLDM_GET_PLDM_TYPES == 4
PLDM_GET_PLDM_COMMANDS == 5

\* What the responder registers for its own type: one version and the CRC.
PLDM_BASE_VERSIONS ==
    [versions |-> "PLDM_BASE_VERSIONS", count |-> 2,
     commands |-> "PLDM_CONTROL_COMMANDS"]

Slots == 1..PLDM_CONTROL_MAX_VERSION_TYPES

\* struct pldm_type_versions; one without versions is not used.
Unused == [pldm_type |-> 0, versions |-> NULL, versions_count |-> 0,
           commands |-> NULL]

-----------------------------------------------------------------------------
(* Registration *)

\* A mutant: only a free slot will do.
Place_FreeOnly(table, pldm_type) == {i \in Slots : table[i].versions = NULL}

\* The slot for a type: the first that is free or has the type.
Place(table, pldm_type) ==
    {i \in Slots : table[i].versions = NULL \/ table[i].pldm_type = pldm_type}

AddRc(table, pldm_type, count) ==
    CASE count < 2 -> "EINVAL"
      [] count >= 2 /\ Place(table, pldm_type) = {} -> "ENOMEM"
      [] OTHER -> "OK"

\* versions_count is a size_t for the caller and a uint8_t in the slot.
Entry(pldm_type, r) ==
    [pldm_type |-> pldm_type, versions |-> r.versions,
     versions_count |-> r.count % 256, commands |-> r.commands]

\* The table after an addition that succeeds.
Added(table, pldm_type, r) ==
    [table EXCEPT ![Min(Place(table, pldm_type))] = Entry(pldm_type, r)]

\* One that does not changes nothing.
pldm_control_add_type(pldm_type, r) ==
    /\ AddRc(types, pldm_type, r.count) = "OK"
    /\ types' = Added(types, pldm_type, r)
    /\ registered' = [registered EXCEPT ![pldm_type] = r]

\* The table that pldm_control_setup leaves, and what it registers.
Empty == [i \in Slots |-> Unused]
Setup == Added(Empty, PLDM_BASE, PLDM_BASE_VERSIONS)

NotRegistered == [versions |-> NULL, count |-> 0, commands |-> NULL]

JustBase == [ty \in Types |-> IF ty = PLDM_BASE THEN PLDM_BASE_VERSIONS
                                               ELSE NotRegistered]

ControlInit == types = Setup /\ registered = JustBase

pldm_control_setup == types' = Setup /\ registered' = JustBase

Register == \E ty \in Types, r \in Registrations : pldm_control_add_type(ty, r)

-----------------------------------------------------------------------------
(* Answers *)

\* sizeof(struct pldm_msg_hdr), and the bytes of a word of versions.
HDR == 3
VER32 == 4

PLDM_GET_TID_REQ_BYTES == 0
PLDM_GET_TYPES_REQ_BYTES == 0
PLDM_GET_VERSION_REQ_BYTES == 6
PLDM_GET_COMMANDS_REQ_BYTES == 5

\* A call that fails leaves no response; one that succeeds leaves the body, a
\* completion code and its data, in so many bytes.
Refused(rc) == [rc |-> rc, len |-> 0, cc |-> None, data |-> None]
Reply(len, cc, data) == [rc |-> "OK", len |-> len, cc |-> cc, data |-> data]

\* A body of a fixed size is not written into a smaller buffer.
ReplyIfRoom(room, len, cc, data) ==
    IF room < len THEN Refused("EOVERFLOW") ELSE Reply(len, cc, data)

pldm_control_reply_error(cc, room) == ReplyIfRoom(room, 1, cc, None)

pldm_control_get_tid(req, room) ==
    IF req.len # PLDM_GET_TID_REQ_BYTES
    THEN pldm_control_reply_error("INVALID_LENGTH", room)
    ELSE ReplyIfRoom(room, 2, "SUCCESS", "UNASSIGNED")

\* The slots that a lookup accepts; it takes the first.
Answering(table, pldm_type, withCommands) ==
    {i \in Slots : /\ table[i].pldm_type = pldm_type
                   /\ table[i].versions # NULL
                   /\ withCommands => table[i].commands # NULL}

pldm_control_get_version(table, req, room) ==
    LET found == Answering(table, req.arg, FALSE)
        v == table[Min(found)]
    IN CASE req.len # PLDM_GET_VERSION_REQ_BYTES ->
                pldm_control_reply_error("INVALID_LENGTH", room)
         [] req.len = PLDM_GET_VERSION_REQ_BYTES /\ ~req.first ->
                pldm_control_reply_error("INVALID_TRANSFER_OPERATION_FLAG", room)
         [] req.len = PLDM_GET_VERSION_REQ_BYTES /\ req.first /\ found = {} ->
                pldm_control_reply_error("INVALID_PLDM_TYPE", room)
         [] OTHER ->
                ReplyIfRoom(room, 1 + 4 + 1 + v.versions_count * VER32,
                            "SUCCESS",
                            [versions |-> v.versions, count |-> v.versions_count])

pldm_control_get_types(table, req, room) ==
    IF req.len # PLDM_GET_TYPES_REQ_BYTES
    THEN pldm_control_reply_error("INVALID_LENGTH", room)
    ELSE ReplyIfRoom(room, 1 + 8, "SUCCESS",
             {table[i].pldm_type : i \in {j \in Slots :
                 table[j].pldm_type < 64 /\ table[j].versions # NULL}})

pldm_control_get_commands(table, req, room) ==
    LET found == Answering(table, req.arg, TRUE)
    IN CASE req.len # PLDM_GET_COMMANDS_REQ_BYTES ->
                pldm_control_reply_error("INVALID_LENGTH", room)
         [] req.len = PLDM_GET_COMMANDS_REQ_BYTES /\ found = {} ->
                pldm_control_reply_error("INVALID_PLDM_TYPE", room)
         [] OTHER ->
                ReplyIfRoom(room, 1 + 32, "SUCCESS", table[Min(found)].commands)

Dispatch(table, req, room) ==
    CASE req.command = PLDM_GET_TID -> pldm_control_get_tid(req, room)
      [] req.command = PLDM_GET_PLDM_VERSION ->
             pldm_control_get_version(table, req, room)
      [] req.command = PLDM_GET_PLDM_TYPES ->
             pldm_control_get_types(table, req, room)
      [] req.command = PLDM_GET_PLDM_COMMANDS ->
             pldm_control_get_commands(table, req, room)
      [] OTHER -> pldm_control_reply_error("UNSUPPORTED_PLDM_CMD", room)

\* resp_len is the size of the response's buffer; the length of a response
\* includes the header again. That of a request's payload is negative if the
\* message is shorter than a header.
pldm_control_handle_msg(table, req, resp_len) ==
    LET body == Dispatch(table, req, resp_len - HDR)
        handled == resp_len >= HDR + 1 /\ req.len >= 0
    IN CASE ~handled -> Refused("EOVERFLOW")
         [] handled /\ req.type # PLDM_BASE -> Refused("ENOMSG")
         [] handled /\ req.type = PLDM_BASE /\ req.kind # "request" ->
                Refused("EINVAL")
         [] OTHER -> IF body.rc = "OK" THEN [body EXCEPT !.len = @ + HDR] ELSE body

-----------------------------------------------------------------------------
(* Properties *)

Registered == {ty \in Types : registered[ty].versions # NULL}

\* The table answers for exactly the types that were registered, with the
\* versions and the commands of the last registration that was accepted; one
\* of a type the table has is never refused for want of a slot, and one of
\* another type only if as many types as there are slots have been accepted.
\* pldm_control_add_type (src/control.c) reuses the slot of a type.
TableIsRegistry ==
    \A ty \in Types :
        LET slots == Answering(types, ty, FALSE)
            slot == types[Min(slots)]
        IN /\ slots = {} <=> ty \notin Registered
           /\ ty \in Registered =>
                  /\ AddRc(types, ty, 2) = "OK"
                  /\ slot.versions = registered[ty].versions
                  /\ slot.versions_count = registered[ty].count % 256
                  /\ slot.commands = registered[ty].commands
           /\ AddRc(types, ty, 2) # "OK" =>
                  Cardinality(Registered) = PLDM_CONTROL_MAX_VERSION_TYPES
=============================================================================
