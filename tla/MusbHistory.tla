---------------------------- MODULE MusbHistory -----------------------------
(***************************************************************************)
(* MusbSession with a history of how each process has used its session:    *)
(* musb.c counts the channels of a device, whatever their kind, to decide  *)
(* when the transport is brought up and taken down, so what it promises of *)
(* a transport depends on whether both kinds have been open together.      *)
(***************************************************************************)
EXTENDS MusbSession

(* Whether a process has had a composite channel open together with a      *)
(* transport channel since it opened the device.                           *)
VARIABLE mixed

Mixed(p) == \E c, d \in Open(p) : c \in CompChannels /\ d \in TransportChannels

HistoryInit == Init /\ mixed = [p \in Procs |-> FALSE]
HistoryNext == Next /\ mixed' = [p \in Procs |-> index'[p] /\ (mixed[p] \/ Mixed(p)')]
HistorySpec == HistoryInit /\ [][HistoryNext]_<<vars, mixed>>

(* Without such mixing, what musb.c promises of its transports holds: a    *)
(* socket is only asked for on a transport brought up before ...           *)
SocketAfterInitUnmixed == \A p \in Procs : ~mixed[p] => SocketBacked(p)

(* ... an open transport channel belongs to a transport this process has   *)
(* up, whatever other processes do ...                                     *)
OwnTransport == \A p \in Procs : ~mixed[p] => OwnsTransport(p)

(* ... and closing the last one takes the transport down.                  *)
TransportRemoved ==
    [][\A p \in Procs : ~mixed'[p] => RemovesTransport(p)]_<<vars, mixed>>
=============================================================================
