---------------------------- MODULE EventHistory ----------------------------
(***************************************************************************)
(* The event history of hpssd (create_history) on the RingBuffer of        *)
(* base/utils.py.  A buffer is a list with a cursor; on the append that    *)
(* fills it, it turns into a RingBufferFull, which only overwrites.        *)
(***************************************************************************)
EXTENDS Naturals, Sequences

CONSTANT HistorySize
ASSUME HistorySizeAssumption == HistorySize \in Nat \ {0}

Ring(E) == [data : UNION {[1..n -> E] : n \in 0..HistorySize}, cur : 0..HistorySize - 1,
            full : BOOLEAN]
EmptyRing == [data |-> <<>>, cur |-> 0, full |-> FALSE]

(* get: from the oldest to the newest element.                             *)
Get(r) ==
    IF r.full THEN SubSeq(r.data, r.cur + 1, HistorySize) \o SubSeq(r.data, 1, r.cur)
              ELSE r.data

(* Mutant: a buffer that fills up starts at its second element. *)
RingAppend_Cursor(r, x) ==
    IF r.full THEN [r EXCEPT !.data[r.cur + 1] = x, !.cur = (r.cur + 1) % HistorySize]
    ELSE [data |-> Append(r.data, x), cur |-> 1 % HistorySize,
          full |-> Len(r.data) + 1 = HistorySize]

(* Mutant: a buffer never fills up. *)
RingAppend_Grows(r, x) == [r EXCEPT !.data = Append(r.data, x)]

RingAppend(r, x) ==
    IF r.full THEN [r EXCEPT !.data[r.cur + 1] = x, !.cur = (r.cur + 1) % HistorySize]
    ELSE [r EXCEPT !.data = Append(r.data, x), !.full = Len(r.data) + 1 = HistorySize]

RingReplace(r, x) ==
    IF r.full THEN [r EXCEPT !.data[((r.cur + HistorySize - 1) % HistorySize) + 1] = x]
    ELSE [r EXCEPT !.data[Len(r.data)] = x]

(* create_history: a duplicate of the newest event replaces it.            *)
Duplicate(r, e) == Get(r) # <<>> /\ Get(r)[Len(Get(r))].code = e.code
Recorded(r, e) == IF Duplicate(r, e) THEN RingReplace(r, e) ELSE RingAppend(r, e)
=============================================================================
