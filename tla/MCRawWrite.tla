----------------------------- MODULE MCRawWrite -----------------------------
(* Instances of RawWrite for TLC.                                          *)
EXTENDS RawWrite

CONSTANTS t1, t2, none
=============================================================================
