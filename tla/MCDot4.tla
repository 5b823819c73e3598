------------------------------- MODULE MCDot4 -------------------------------
(* Instances of Dot4 for TLC.                                              *)
EXTENDS Dot4

CONSTANTS c1, c2

(* A peripheral that splits packets and answers in time.                   *)
Prompt == [phoenix |-> FALSE, hiBytes |-> FALSE, reopen |-> FALSE, packets |-> {1, 2},
           reads |-> {1, 2}, bytes |-> 2, writes |-> 2, credit |-> 1, flight |-> 6, lost |-> 0]

(* Phoenix peripherals, which may send two packets unasked: they send      *)
(* single bytes and clients read all there is.                             *)
Phoenix == [Prompt EXCEPT !.phoenix = TRUE, !.packets = {1}, !.reads = {2}, !.bytes = 1,
                          !.writes = 1]
PhoenixReads == [Phoenix EXCEPT !.bytes = 2, !.writes = 0, !.credit = 0]

(* The two may lose step: an answer comes too late, an Error, an EIO; and  *)
(* credit never comes.                                                     *)
Lossy == [Prompt EXCEPT !.packets = {1}, !.reads = {1}, !.bytes = 1, !.writes = 1,
                        !.credit = 0, !.flight = 1, !.lost = 1]

KindsOfUse == {Prompt, Phoenix, PhoenixReads, Lossy, [Lossy EXCEPT !.phoenix = TRUE]}
WithHiBytes == {[Prompt EXCEPT !.hiBytes = TRUE]}
=============================================================================
