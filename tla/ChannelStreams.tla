--------------------------- MODULE ChannelStreams ---------------------------
(***************************************************************************)
(* What a transport promises the clients of its channels, whatever command *)
(* packets and waits it takes: while a channel is held, the bytes the      *)
(* peripheral sent on it wait in order until they are read, and each data  *)
(* packet written uses up one the peripheral granted.  One channel moves   *)
(* at a time, and never on behalf of another.                              *)
(***************************************************************************)
EXTENDS Naturals, Sequences

CONSTANT Chans

VARIABLES held,     \* channels that clients hold
          unread,   \* bytes sent and not read
          taken,    \* bytes the client has read
          granted   \* packets granted and not written

streams == <<held, unread, taken, granted>>

Init ==
    /\ held = {} /\ granted = [c \in Chans |-> 0]
    /\ unread = [c \in Chans |-> <<>>] /\ taken = [c \in Chans |-> <<>>]

(* The peripheral sends, grants, or both.  A byte is its place in what was *)
(* sent on the channel.                                                    *)
Extends(c) ==
    /\ Len(unread'[c]) >= Len(unread[c])
    /\ \A i \in 1..Len(unread'[c]) :
          unread'[c][i] = IF i <= Len(unread[c]) THEN unread[c][i] ELSE Len(taken[c]) + i

(* A channel comes with what the peripheral sent and granted while it was  *)
(* being opened.                                                           *)
Open(c) ==
    /\ c \notin held /\ held' = held \cup {c} /\ Extends(c)
    /\ \A d \in Chans \ {c} : unread'[d] = unread[d] /\ granted'[d] = granted[d]
    /\ UNCHANGED taken

Close(c) ==
    /\ c \in held /\ held' = held \ {c}
    /\ unread' = [unread EXCEPT ![c] = <<>>] /\ taken' = [taken EXCEPT ![c] = <<>>]
    /\ granted' = [granted EXCEPT ![c] = 0]

(* A peripheral that answers too late is past helping.                     *)
Fail ==
    /\ held' = {} /\ granted' = [c \in Chans |-> 0]
    /\ unread' = [c \in Chans |-> <<>>] /\ taken' = [c \in Chans |-> <<>>]

Receive(c) ==
    /\ c \in held /\ Extends(c) /\ granted'[c] >= granted[c]
    /\ unread' = [unread EXCEPT ![c] = unread'[c]]
    /\ granted' = [granted EXCEPT ![c] = granted'[c]]
    /\ UNCHANGED <<held, taken>>

Read(c) ==
    /\ c \in held
    /\ \E n \in 1..Len(unread[c]) :
          /\ taken' = [taken EXCEPT ![c] = @ \o SubSeq(unread[c], 1, n)]
          /\ unread' = [unread EXCEPT ![c] = SubSeq(@, n + 1, Len(@))]
    /\ UNCHANGED <<held, granted>>

Write(c) ==
    /\ c \in held /\ granted[c] > 0
    /\ granted' = [granted EXCEPT ![c] = @ - 1]
    /\ UNCHANGED <<held, unread, taken>>

Next ==
    \/ Fail
    \/ \E c \in Chans : Open(c) \/ Close(c) \/ Receive(c) \/ Read(c) \/ Write(c)

Spec == Init /\ [][Next]_streams
=============================================================================
