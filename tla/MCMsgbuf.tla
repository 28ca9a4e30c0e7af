------------------------------- MODULE MCMsgbuf -------------------------------
(***************************************************************************)
(* An instance of Msgbuf for TLC.                                          *)
(***************************************************************************)
EXTENDS Msgbuf

\* A string with its terminator at the end, and one that is followed by a code
\* point of NUL at an odd and at an even offset.
MCSources == {<<1, 0>>, <<1, 0, 0, 0>>}

=============================================================================
