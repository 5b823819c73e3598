---------------------------- MODULE MusbSession ----------------------------
(***************************************************************************)
(* The session layer of libhpmud over USB: hpmud.c (devices and channels   *)
(* of one process) and the open/close half of musb.c (which USB interface  *)
(* each channel claims, and when the MLC/1284.4 transport is brought up    *)
(* and taken down).  Several processes (the CUPS backend, hp-toolbox, the  *)
(* SANE backend, hpfax ...) link the library and share one peripheral; all *)
(* they share is the kernel's claims on its interfaces and the             *)
(* peripheral's own transport state.                                       *)
(*                                                                         *)
(* The library serialises the calls of one process with device[].mutex, so *)
(* a call is one action, except where another process can see it half      *)
(* done: an interface claimed only to read the device id, and an open that *)
(* holds its claim while it talks to the peripheral.                       *)
(***************************************************************************)
EXTENDS Integers, FiniteSets

CONSTANTS Procs,        \* processes that link libhpmud
          Channels,     \* channel ids the clients ask for
          Modes,        \* io modes the clients open the device with
          Present,      \* FD_IDs whose descriptor the peripheral has
          Interface,    \* FD_ID -> USB interface number in fd_table
          Disciplined,  \* clients close their channels before the device
          NoProc        \* "no process"

(* enum FD_ID *)
FD_NA == 0
FD_7_1_2 == 1
FD_7_1_3 == 2
FD_7_1_4 == 3
FD_ff_1_1 == 4
FD_ff_2_1 == 5
FD_ff_3_1 == 6
FD_ff_ff_ff == 7
FD_ff_d4_0 == 8
FD_ff_4_1 == 9
FD_ff_1_0 == 10
FD_ff_cc_0 == 11
FD_ff_2_10 == 12
FD_ff_9_1 == 13
FDs == FD_7_1_2 .. FD_ff_9_1

(* enum HPMUD_CHANNEL_ID; the channels below 0x12, WIFI and DEVMGMT need   *)
(* the MLC/1284.4 transport, PRINT may also run raw.                       *)
PML == 1
PRINT == 2
EWS == 18
SOAPSCAN == 19
SOAPFAX == 20
MARVELL_SCAN == 21
MARVELL_FAX == 22
EWS_LEDM == 23
LEDM_SCAN == 24
MARVELL_EWS == 25
ESCL_SCAN == 26
IPP == 45
IPP2 == 46
TransportChannels == {PML, PRINT, 4, 7, 14, 15, 17, 43, 44}
CompChannels == {EWS, SOAPSCAN, SOAPFAX, MARVELL_SCAN, MARVELL_FAX, EWS_LEDM,
                 LEDM_SCAN, MARVELL_EWS, ESCL_SCAN, IPP, IPP2}
ChannelIds == TransportChannels \cup CompChannels

RawModes == {"RAW", "UNI"}
TransportModes == {"MLC", "DOT4", "DOT4_PHOENIX", "DOT4_BRIDGE"}

(* The interface of a composite channel.                                   *)
CompFd_Dot4(c) == FD_7_1_3       \* mutant: the transport's interface
CompFd(c) ==
    CASE c = EWS -> FD_ff_1_1
      [] c = EWS_LEDM -> FD_ff_4_1
      [] c = SOAPSCAN -> FD_ff_2_1
      [] c = SOAPFAX -> FD_ff_3_1
      [] c = MARVELL_SCAN -> FD_ff_ff_ff
      [] c = MARVELL_FAX -> FD_ff_1_0
      [] c \in {LEDM_SCAN, ESCL_SCAN} -> FD_ff_cc_0
      [] c = MARVELL_EWS -> FD_ff_2_10
      [] c = IPP -> FD_7_1_4
      [] c = IPP2 -> FD_ff_9_1

(* The interfaces a transport may run on, in the order they are tried.     *)
TransportOrder == <<FD_7_1_3, FD_ff_ff_ff, FD_ff_d4_0, FD_7_1_2>>
TransportFds == {TransportOrder[i] : i \in DOMAIN TransportOrder}

ASSUME ConstantsAssumption ==
    /\ IsFiniteSet(Channels)
    /\ Channels \subseteq ChannelIds
    /\ Modes \subseteq RawModes \cup TransportModes
    /\ Present \subseteq FDs
    /\ Interface \in [FDs -> Nat]
    /\ Disciplined \in BOOLEAN
    /\ NoProc \notin Procs

VARIABLES
    index,        \* device[1].index is set: the process has the device open
    io_mode,      \* device[1].io_mode
    channel_cnt,  \* device[1].channel_cnt
    client_cnt,   \* device[1].channel[c].client_cnt
    chan_fd,      \* device[1].channel[c].fd; FD_NA for a transport channel
    mlc_up,       \* device[1].mlc_up
    mlc_fd,       \* device[1].mlc_fd
    hd,           \* { f : fd_table[f].hd # NULL }, the claims of the process
    pc,           \* the library call in progress
    chan, fd,     \* its channel id; its local variable fd
    link          \* peripheral: whose Init each interface last answered

vars == <<index, io_mode, channel_cnt, client_cnt, chan_fd, mlc_up, mlc_fd,
          hd, pc, chan, fd, link>>

Calls == {"idle", "open_device", "query", "init", "socket", "exit"}

TypeOK ==
    /\ index \in [Procs -> BOOLEAN]
    /\ io_mode \in [Procs -> RawModes \cup TransportModes]
    /\ channel_cnt \in [Procs -> Int]
    /\ client_cnt \in [Procs -> [Channels -> 0..1]]
    /\ chan_fd \in [Procs -> [Channels -> FDs \cup {FD_NA}]]
    /\ mlc_up \in [Procs -> BOOLEAN]
    /\ mlc_fd \in [Procs -> FDs \cup {FD_NA}]
    /\ hd \in [Procs -> SUBSET FDs]
    /\ pc \in [Procs -> Calls]
    /\ chan \in [Procs -> Channels \cup {0}]
    /\ fd \in [Procs -> FDs \cup {FD_NA}]
    /\ link \in [FDs -> Procs \cup {NoProc}]

(* A process starts with the library's static data zeroed.                 *)
Init ==
    /\ index = [p \in Procs |-> FALSE]
    /\ io_mode = [p \in Procs |-> "RAW"]
    /\ channel_cnt = [p \in Procs |-> 0]
    /\ client_cnt = [p \in Procs |-> [c \in Channels |-> 0]]
    /\ chan_fd = [p \in Procs |-> [c \in Channels |-> FD_NA]]
    /\ mlc_up = [p \in Procs |-> FALSE]
    /\ mlc_fd = [p \in Procs |-> FD_NA]
    /\ hd = [p \in Procs |-> {}]
    /\ pc = [p \in Procs |-> "idle"]
    /\ chan = [p \in Procs |-> 0]
    /\ fd = [p \in Procs |-> FD_NA]
    /\ link = [f \in FDs |-> NoProc]

-----------------------------------------------------------------------------
Open(p) == {c \in Channels : client_cnt[p][c] > 0}

(* claim_interface: a handle already held is reused; otherwise the kernel  *)
(* grants the interface number to one handle at a time, whichever          *)
(* alternate setting (FD_ID) it is wanted for.                             *)
CanClaim(p, f) ==
    \/ f \in hd[p]
    \/ \A q \in Procs : \A g \in hd[q] : Interface[g] # Interface[f]

Claimable(p) == {f \in Present : CanClaim(p, f)}

(* claim_id_interface: the first free interface in enum FD_ID order (a set *)
(* of one element, or empty when all are busy).                            *)
FirstClaimable(p) == {f \in Claimable(p) : \A g \in Claimable(p) : f <= g}

Idle(p) == pc[p] = "idle"

(* hpmud_open_device, up to the claim musb_open takes to read the device   *)
(* id.  When every interface is busy the open is undone, which leaves only *)
(* what new_device wrote and does not take back.                           *)
OpenDevice(p, m) ==
    /\ Idle(p) /\ ~index[p]
    /\ io_mode' = [io_mode EXCEPT ![p] = m]
    /\ channel_cnt' = [channel_cnt EXCEPT ![p] = 0]
    /\ \/ \E f \in FirstClaimable(p) :
          /\ index' = [index EXCEPT ![p] = TRUE]
          /\ hd' = [hd EXCEPT ![p] = @ \cup {f}]
          /\ pc' = [pc EXCEPT ![p] = "open_device"]
          /\ fd' = [fd EXCEPT ![p] = f]
       \/ /\ Claimable(p) = {}
          /\ hd' = [hd EXCEPT ![p] = {}]
          /\ UNCHANGED <<index, pc, fd>>
    /\ UNCHANGED <<client_cnt, chan_fd, mlc_up, mlc_fd, chan, link>>

(* mutant: the interface it claimed for the device id stays claimed.       *)
OpenDeviceEnd_Keep(p) ==
    /\ pc[p] = "open_device"
    /\ pc' = [pc EXCEPT ![p] = "idle"]
    /\ \E ok \in BOOLEAN :
          /\ index' = [index EXCEPT ![p] = ok]
          /\ hd' = [hd EXCEPT ![p] = IF ok THEN @ \ {fd[p]} ELSE @]
    /\ UNCHANGED <<io_mode, channel_cnt, client_cnt, chan_fd, mlc_up, mlc_fd,
                   chan, fd, link>>

(* The rest of musb_open: the device id was read, or was not and the       *)
(* device is closed and deleted again.                                     *)
OpenDeviceEnd(p) ==
    /\ pc[p] = "open_device"
    /\ pc' = [pc EXCEPT ![p] = "idle"]
    /\ \/ /\ hd' = [hd EXCEPT ![p] = @ \ {fd[p]}]
          /\ UNCHANGED index
       \/ /\ hd' = [hd EXCEPT ![p] = {}]
          /\ index' = [index EXCEPT ![p] = FALSE]
    /\ UNCHANGED <<io_mode, channel_cnt, client_cnt, chan_fd, mlc_up, mlc_fd,
                   chan, fd, link>>

(* hpmud_close_device releases every interface; it does not look at the    *)
(* channels and does not clear mlc_up.                                     *)
CloseDevice(p) ==
    /\ Idle(p) /\ index[p]
    /\ Disciplined => Open(p) = {}
    /\ hd' = [hd EXCEPT ![p] = {}]
    /\ index' = [index EXCEPT ![p] = FALSE]
    /\ UNCHANGED <<io_mode, channel_cnt, client_cnt, chan_fd, mlc_up, mlc_fd,
                   pc, chan, fd, link>>

(* hpmud_get_device_id and hpmud_get_device_status by a process that holds *)
(* no interface: claim one, ask, release.  (With an interface already      *)
(* claimed, or none free, or behind a bridge chip, they change nothing.)   *)
Query(p) ==
    /\ Idle(p) /\ index[p]
    /\ io_mode[p] \notin {"DOT4_BRIDGE", "UNI"}
    /\ hd[p] = {}
    /\ \E f \in FirstClaimable(p) :
          /\ hd' = [hd EXCEPT ![p] = {f}]
          /\ fd' = [fd EXCEPT ![p] = f]
    /\ pc' = [pc EXCEPT ![p] = "query"]
    /\ UNCHANGED <<index, io_mode, channel_cnt, client_cnt, chan_fd, mlc_up,
                   mlc_fd, chan, link>>

QueryEnd(p) ==
    /\ pc[p] = "query"
    /\ hd' = [hd EXCEPT ![p] = @ \ {fd[p]}]
    /\ pc' = [pc EXCEPT ![p] = "idle"]
    /\ UNCHANGED <<index, io_mode, channel_cnt, client_cnt, chan_fd, mlc_up,
                   mlc_fd, chan, fd, link>>

-----------------------------------------------------------------------------
(* new_channel: one client per channel.                                    *)
NewChannel_Counted(p, c) ==      \* mutant: a second client is just counted
    /\ Idle(p) /\ index[p]
    /\ client_cnt' = [client_cnt EXCEPT ![p][c] = @ + 1]
    /\ channel_cnt' = [channel_cnt EXCEPT ![p] = @ + 1]
NewChannel(p, c) ==
    /\ Idle(p) /\ index[p]
    /\ client_cnt[p][c] = 0
    /\ client_cnt' = [client_cnt EXCEPT ![p][c] = 1]
    /\ channel_cnt' = [channel_cnt EXCEPT ![p] = @ + 1]

(* del_channel, after a failed open or a close.                            *)
DelChannel_NoCount(p, c) ==      \* mutant: channel_cnt is not given back
    /\ client_cnt' = [client_cnt EXCEPT ![p][c] = @ - 1]
    /\ UNCHANGED channel_cnt
DelChannel(p, c) ==
    /\ client_cnt' = [client_cnt EXCEPT ![p][c] = @ - 1]
    /\ channel_cnt' = [channel_cnt EXCEPT
                         ![p] = IF client_cnt[p][c] <= 1 THEN @ - 1 ELSE @]

(* musb_channel_open of a composite channel, or of PRINT in raw mode (where *)
(* the result of get_interface is not looked at).  A busy interface leaves *)
(* no trace: the channel is deleted again.                                 *)
OpenOnFd(p, c, f) ==
    /\ NewChannel(p, c)
    /\ CanClaim(p, f)
    /\ hd' = [hd EXCEPT ![p] = @ \cup {f}]
    /\ chan_fd' = [chan_fd EXCEPT ![p][c] = f]
    /\ UNCHANGED <<index, io_mode, mlc_up, mlc_fd, pc, chan, fd, link>>

OpenComp(p, c) ==
    /\ c \in CompChannels
    /\ CompFd(c) \in Present
    /\ OpenOnFd(p, c, CompFd(c))

OpenRaw(p, c) ==
    /\ c = PRINT /\ io_mode[p] \in RawModes
    /\ OpenOnFd(p, c, FD_7_1_2)

(* The interface the transport is put on: the first in the order of the    *)
(* if-else chain that exists and can be claimed, if any.                   *)
TransportChoices(p) ==
    {i \in DOMAIN TransportOrder :
        TransportOrder[i] \in Present /\ CanClaim(p, TransportOrder[i])}
TransportFd(p) ==
    {TransportOrder[i] :
        i \in {j \in TransportChoices(p) : \A k \in TransportChoices(p) : j <= k}}

(* The transport's test for its first and for its last channel, after      *)
(* new_channel and before del_channel.                                     *)
FirstChannel_MlcUp(p) == ~mlc_up[p]      \* mutant: the flag, not the count
FirstChannel(p) == channel_cnt[p] + 1 = 1
LastChannel_Any(p) == TRUE               \* mutant: every close is the last
LastChannel_AfterDel(p) == channel_cnt[p] = 0   \* mutant: as if after del
LastChannel(p) == channel_cnt[p] = 1

(* musb_dot4_channel_open (and its MLC twin), first half.  Only the open   *)
(* that makes channel_cnt one claims an interface and initialises the      *)
(* transport on it.                                                        *)
OpenTransport(p, c) ==
    /\ c \in TransportChannels /\ io_mode[p] \in TransportModes
    /\ NewChannel(p, c)
    /\ chan_fd' = [chan_fd EXCEPT ![p][c] = FD_NA]
    /\ \/ /\ FirstChannel(p)
          /\ \E f \in TransportFd(p) :
                /\ fd' = [fd EXCEPT ![p] = f]
                /\ hd' = [hd EXCEPT ![p] = @ \cup {f}]
          /\ pc' = [pc EXCEPT ![p] = "init"]
       \/ /\ ~FirstChannel(p)
          /\ pc' = [pc EXCEPT ![p] = "socket"]
          /\ UNCHANGED <<fd, hd>>
    /\ chan' = [chan EXCEPT ![p] = c]
    /\ UNCHANGED <<index, io_mode, mlc_up, mlc_fd, link>>

(* Dot4Init succeeded on fd, or it failed: the channel is deleted and the  *)
(* interface stays claimed, whether or not the peripheral took the Init.   *)
TransportInit(p) ==
    /\ pc[p] = "init"
    /\ \/ /\ link' = [link EXCEPT ![fd[p]] = p]
          /\ mlc_fd' = [mlc_fd EXCEPT ![p] = fd[p]]
          /\ mlc_up' = [mlc_up EXCEPT ![p] = TRUE]
          /\ pc' = [pc EXCEPT ![p] = "socket"]
          /\ UNCHANGED <<client_cnt, channel_cnt>>
       \/ /\ \E who \in {p, link[fd[p]]} : link' = [link EXCEPT ![fd[p]] = who]
          /\ DelChannel(p, chan[p])
          /\ pc' = [pc EXCEPT ![p] = "idle"]
          /\ UNCHANGED <<mlc_up, mlc_fd>>
    /\ UNCHANGED <<index, io_mode, chan_fd, hd, chan, fd>>

(* Dot4GetSocket, Dot4OpenChannel and the phoenix Dot4Credit.  They need   *)
(* mlc_fd claimed (musb_write refuses otherwise) and a peripheral that has *)
(* been initialised on it, by whomever; they may fail all the same.        *)
TransportSocket(p) ==
    /\ pc[p] = "socket"
    /\ pc' = [pc EXCEPT ![p] = "idle"]
    /\ \/ /\ mlc_fd[p] \in hd[p] /\ link[mlc_fd[p]] # NoProc
          /\ UNCHANGED <<client_cnt, channel_cnt>>
       \/ DelChannel(p, chan[p])
    /\ UNCHANGED <<index, io_mode, chan_fd, mlc_up, mlc_fd, hd, chan, fd, link>>

-----------------------------------------------------------------------------
(* What closing c does: a composite or raw channel releases its interface; *)
(* a transport channel releases mlc_fd, and takes the transport down, when *)
(* it is the only channel of the device, of whatever kind.                 *)
CloseEffect(p, c) ==
    /\ DelChannel(p, c)
    /\ chan_fd' = [chan_fd EXCEPT ![p][c] = FD_NA]
    /\ \/ /\ chan_fd[p][c] # FD_NA
          /\ hd' = [hd EXCEPT ![p] = @ \ {chan_fd[p][c]}]
          /\ UNCHANGED <<mlc_up, link>>
       \/ /\ chan_fd[p][c] = FD_NA /\ LastChannel(p)
          /\ hd' = [hd EXCEPT ![p] = @ \ {mlc_fd[p]}]
          /\ mlc_up' = [mlc_up EXCEPT ![p] = FALSE]
          /\ \/ /\ mlc_up[p] /\ mlc_fd[p] \in hd[p]     \* Dot4Exit answered
                /\ link' = [link EXCEPT ![mlc_fd[p]] = NoProc]
             \/ UNCHANGED link                         \* not sent, or lost
       \/ /\ chan_fd[p][c] = FD_NA /\ ~LastChannel(p)
          /\ UNCHANGED <<hd, mlc_up, link>>

(* hpmud_close_channel.                                                    *)
CloseChannel(p, c) ==
    /\ Idle(p) /\ index[p] /\ client_cnt[p][c] > 0
    /\ CloseEffect(p, c)
    /\ UNCHANGED <<index, io_mode, mlc_fd, pc, chan, fd>>

(* The static data and the claims of a process that is gone, and of the    *)
(* process that may be started next in its place.                          *)
Gone(p) ==
    /\ index' = [index EXCEPT ![p] = FALSE]
    /\ io_mode' = [io_mode EXCEPT ![p] = "RAW"]
    /\ channel_cnt' = [channel_cnt EXCEPT ![p] = 0]
    /\ client_cnt' = [client_cnt EXCEPT ![p] = [c \in Channels |-> 0]]
    /\ chan_fd' = [chan_fd EXCEPT ![p] = [c \in Channels |-> FD_NA]]
    /\ mlc_up' = [mlc_up EXCEPT ![p] = FALSE]
    /\ mlc_fd' = [mlc_fd EXCEPT ![p] = FD_NA]
    /\ hd' = [hd EXCEPT ![p] = {}]
    /\ pc' = [pc EXCEPT ![p] = "idle"]
    /\ chan' = [chan EXCEPT ![p] = 0]
    /\ fd' = [fd EXCEPT ![p] = FD_NA]

(* The process exits: mud_exit runs device_cleanup, which closes the       *)
(* channels still open in index order and then the device.                 *)
Exit(p) ==
    /\ Idle(p)
    /\ pc' = [pc EXCEPT ![p] = "exit"]
    /\ UNCHANGED <<index, io_mode, channel_cnt, client_cnt, chan_fd, mlc_up,
                   mlc_fd, hd, chan, fd, link>>

CleanupChannel(p) ==
    /\ pc[p] = "exit" /\ index[p]
    /\ \E c \in Open(p) :
          /\ \A d \in Open(p) : c <= d
          /\ CloseEffect(p, c)
    /\ UNCHANGED <<index, io_mode, mlc_fd, pc, chan, fd>>

CleanupDevice(p) ==
    /\ pc[p] = "exit"
    /\ index[p] => Open(p) = {}
    /\ Gone(p)
    /\ UNCHANGED link

(* The process is killed: the kernel drops its claims, the peripheral      *)
(* learns nothing.                                                         *)
Crash(p) ==
    /\ Gone(p)
    /\ UNCHANGED link

Step(p) ==
    \/ \E m \in Modes : OpenDevice(p, m)
    \/ OpenDeviceEnd(p)
    \/ CloseDevice(p)
    \/ Query(p)
    \/ QueryEnd(p)
    \/ \E c \in Channels :
          \/ OpenComp(p, c)
          \/ OpenRaw(p, c)
          \/ OpenTransport(p, c)
          \/ CloseChannel(p, c)
    \/ TransportInit(p)
    \/ TransportSocket(p)
    \/ Exit(p)
    \/ CleanupChannel(p)
    \/ CleanupDevice(p)
    \/ Crash(p)

Next == \E p \in Procs : Step(p)

Spec == Init /\ [][Next]_vars

-----------------------------------------------------------------------------
(* Channels whose open has returned HPMUD_R_OK.                            *)
InCall(p, c) == pc[p] \in {"init", "socket"} /\ chan[p] = c
Established(p) == {c \in Open(p) : ~InCall(p, c)}
TransportOpen(p) == {c \in Established(p) : chan_fd[p][c] = FD_NA}

(* channel_cnt is the number of open channels (hpmudi.h says so), across   *)
(* failed opens, closes in any order and reopened devices.  The transport  *)
(* code decides on channel_cnt = 1 whether to initialise and whether to    *)
(* take the transport down.                                                *)
ChannelCntExact ==
    \A p \in Procs : index[p] => channel_cnt[p] = Cardinality(Open(p))

(* Two channels of one session never need the same interface: not both     *)
(* users of ff/cc/0, and no Marvell scanner next to a transport (ff/ff/ff).*)
NoSharedInterface ==
    /\ ~({LEDM_SCAN, ESCL_SCAN} \subseteq Channels)
    /\ MARVELL_SCAN \in Channels => Modes \cap TransportModes = {}

(* A channel that was opened keeps, until it is closed, the claim on the   *)
(* interface its reads and writes go to: its own for a composite or raw    *)
(* channel, mlc_fd for an MLC/1284.4 channel.  No close of another channel *)
(* of the process takes it away.                                           *)
OpenChannelBacked ==
    \A p \in Procs : \A c \in Established(p) :
        IF chan_fd[p][c] # FD_NA
        THEN chan_fd[p][c] \in hd[p]
        ELSE mlc_fd[p] \in hd[p]

(* A process that does not have the device open keeps no interface from    *)
(* the others: close_device, and an open_device that fails, release all,   *)
(* also what a failed transport open left claimed.                         *)
ReleasedWhenClosed ==
    \A p \in Procs : ~index[p] => hd[p] = {}

(* GetSocket and OpenChannel only ever go to a peripheral that this        *)
(* process itself has initialised on an interface it holds ("Initialize    *)
(* MLC transport if this is the first MLC channel").                       *)
SocketBacked(p) == pc[p] = "socket" => mlc_fd[p] \in hd[p] /\ link[mlc_fd[p]] = p
SocketAfterInit == \A p \in Procs : SocketBacked(p)

(* An open transport channel belongs to a transport this process has up:   *)
(* no other process re-initialised or left the interface under it.         *)
OwnsTransport(p) ==
    TransportOpen(p) # {} => mlc_up[p] /\ mlc_fd[p] \in hd[p] /\ link[mlc_fd[p]] = p

(* Closing the last transport channel takes the transport down and frees   *)
(* its interface for other processes ("Remove 1284.4 transport if this is  *)
(* the last 1284.4 channel").                                              *)
LastTransportClosed(p) ==
    TransportOpen(p) # {} /\ TransportOpen(p)' = {} /\ index'[p]
RemovesTransport(p) ==
    LastTransportClosed(p) => ~mlc_up'[p] /\ mlc_fd'[p] \notin hd'[p]

(***************************************************************************)
(* What the code's comments say and the code does not keep: README.md      *)
(* names the configuration in which each of these fails.                   *)
(***************************************************************************)

(* mlc_up, which get_dstat reports, says whether the transport is up       *)
(* ("0=transport down, 1=transport up"): up needs a claimed interface.     *)
MlcUpMeansUp ==
    \A p \in Procs : index[p] /\ mlc_up[p] => mlc_fd[p] \in hd[p]

(* "Only EWS channel can be opened by more than one process": another      *)
(* process that has the device open could claim the EWS interface too.     *)
EwsShareable ==
    \A p, q \in Procs :
        EWS \in Open(p) /\ index[q] /\ Idle(q) => CanClaim(q, CompFd(EWS))
=============================================================================
