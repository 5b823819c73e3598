---------------------------- MODULE MCHpBackend ----------------------------
(* HpBackend as it is: its constants are numbers and flags, given in the   *)
(* configurations.                                                         *)
EXTENDS HpBackend
=============================================================================
