-------------------------- MODULE MCFirmwareUpdate ---------------------------
(* Two pages and a half of four bytes, and counters that wrap in the middle. *)
EXTENDS FirmwareUpdate

MCLengths == {8, 10}
=============================================================================
