-------------------------- MODULE MCFirmwareDevice --------------------------
(* Small instances of FirmwareDevice for TLC. *)
EXTENDS FirmwareDevice, TLC

\* No action tells two termini apart.
TIDSymmetry == Permutations(TIDs)
=============================================================================
