--------------------------- MODULE MCStatusPipes ---------------------------
(* StatusPipes with two devices, a printer and a fax.                      *)
EXTENDS StatusPipes
CONSTANTS printer, faxer, j1

(* The printer is told apart; two dqs of the printer are as long as one of *)
(* the fax, which is not.                                                  *)
Lengths == [d \in {printer, faxer} |-> IF d = printer THEN 2 ELSE 4]
=============================================================================
