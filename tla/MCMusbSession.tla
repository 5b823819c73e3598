--------------------------- MODULE MCMusbSession ---------------------------
(***************************************************************************)
(* Instances of MusbSession for TLC.  Peripherals: interface number 1 has  *)
(* the alternate settings 7/1/2 and 7/1/3 (the usual layout), number 2 is  *)
(* the web server ff/1/1, number 3 the ff/cc/0 scanner.                    *)
(***************************************************************************)
EXTENDS MusbHistory, TLC

CONSTANTS p1, p2

TwoProcs == {p1, p2}
OneProc == {p1}
SymProcs == Permutations(TwoProcs)

OneNumber == [f \in FDs |-> CASE f \in {FD_7_1_2, FD_7_1_3} -> 1
                              [] f = FD_ff_1_1 -> 2
                              [] f = FD_ff_cc_0 -> 3
                              [] OTHER -> 0]

OldAio == {FD_7_1_2, FD_7_1_3}               \* no composite interface
AioWithEws == {FD_7_1_2, FD_7_1_3, FD_ff_1_1}

PrintAndEws == {PRINT, EWS}
PmlPrintEws == {PML, PRINT, EWS}
=============================================================================
