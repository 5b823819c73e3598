---------------------------- MODULE RecentEvents ----------------------------
(***************************************************************************)
(* What the device histories promise: per device the last Size events,     *)
(* oldest first, in which an event that repeats the code of the one before *)
(* it takes its place.  An event is stamped with the time it happens.      *)
(***************************************************************************)
EXTENDS Naturals, Sequences

CONSTANTS Size, Devices, Codes

VARIABLES recent, now

Newest(s) == SubSeq(s, IF Len(s) > Size THEN Len(s) - Size + 1 ELSE 1, Len(s))

(* s with event e recorded.                                                *)
With(s, e) ==
    IF s # <<>> /\ s[Len(s)].code = e.code THEN [s EXCEPT ![Len(s)] = e]
                                          ELSE Newest(Append(s, e))

Init == recent = [d \in Devices |-> <<>>] /\ now = 0

Happens(d, c) ==
    /\ recent' = [recent EXCEPT ![d] = With(@, [code |-> c, stamp |-> now])]
    /\ now' = now + 1

Next == \E d \in Devices, c \in Codes : Happens(d, c)
Spec == Init /\ [][Next]_<<recent, now>>
=============================================================================
