--------------------------- MODULE MCBlockDevice ---------------------------
(* The values of BlockDevice's constants for TLC.                          *)
EXTENDS BlockDevice

MCBuffers == {{0}, {0, 1}}
=============================================================================
