---------------------------- MODULE MCRasterPage ----------------------------
(***************************************************************************)
(* Instance of RasterPage: a row of color, a row of black and a row of     *)
(* both whose color is too long for the buffer; blank rows come on their   *)
(* own.  With RestartEvery = 3 and pages of up to six rows the four-row    *)
(* filter is left with 0, 1, 2 or 3 rows, before and after a skip.         *)
(***************************************************************************)
EXTENDS RasterPage

CONSTANTS c1, c2, k1

MCRows == {[color |-> c1, black |-> Clear],
           [color |-> White, black |-> k1],
           [color |-> c2, black |-> k1],
           [color |-> c2, black |-> Clear]}
MCLongRows == {c2}

=============================================================================
