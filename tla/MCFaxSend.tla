----------------------------- MODULE MCFaxSend -----------------------------
(***************************************************************************)
(* Instance of FaxSend: a file of two pages, the first of one chunk and    *)
(* the second of two; a file of one page, alone and after it; a file cut   *)
(* short by a page, alone and before it; a file that is no fax.  With and  *)
(* without a cover page, to two recipients.                                *)
(***************************************************************************)
EXTENDS FaxSend

File(n, k, c, p) == [name |-> <<n, 0>>, kind |-> k, claimed |-> c, pages |-> p]
Two  == File("two", "g3", 2, <<1, 2>>)
One  == File("one", "g3", 1, <<2>>)
Cut  == File("cut", "g3", 2, <<1>>)
Junk == File("junk", "bad", 1, << >>)

MCDocs == {<<Two>>, <<One>>, <<One, Two>>, <<Cut>>, <<Cut, One>>, <<Two, Junk>>}

=============================================================================
