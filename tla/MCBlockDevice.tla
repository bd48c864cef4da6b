--------------------------- MODULE MCBlockDevice ---------------------------
(* Two blocks of two sectors for TLC. *)
EXTENDS BlockDevice
=============================================================================
