------------------------- MODULE MCControlResponder -------------------------
EXTENDS ControlResponder

\* A count that does not fit the byte it is kept in, without commands; the type
\* that pldm_control_setup registers has some.
MCRegistrations == {[versions |-> "v1", count |-> 257, commands |-> NULL]}

Ask(command, len, arg) ==
    [type |-> PLDM_BASE, kind |-> "request", command |-> command, len |-> len,
     arg |-> arg, first |-> TRUE]

\* Commands with answers of different lengths, and with errors; and a message
\* without a header.
MCRequests ==
    {Ask(PLDM_GET_PLDM_TYPES, 0, 0), Ask(PLDM_GET_PLDM_VERSION, 6, 5),
     Ask(PLDM_GET_PLDM_COMMANDS, 5, 0), Ask(PLDM_GET_TID, -1, 0)}
=============================================================================
