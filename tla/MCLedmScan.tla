----------------------------- MODULE MCLedmScan -----------------------------
(* LedmScan with pages of two chunks.                                      *)
EXTENDS LedmScan

TwoChunks == <<2, 1>>
=============================================================================
