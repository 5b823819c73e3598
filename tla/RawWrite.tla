------------------------------ MODULE RawWrite ------------------------------
(***************************************************************************)
(* The write path of a raw USB channel: musb_raw_channel_write, musb_write *)
(* and the write_thread that carries out one bulk transfer, so that the    *)
(* caller can have a timeout of its own (musb.c), for a client that sends  *)
(* a job of several buffers as the hp backend does (hp.c): after a partial *)
(* write it sends the rest again.                                          *)
(*                                                                         *)
(* The bytes of the job are numbered; a buffer is the number of its first  *)
(* byte, and 0 is NULL.  The peripheral accepts bytes in its own time (it  *)
(* may be out of paper) and may be unplugged.                              *)
(***************************************************************************)
EXTENDS Integers, Sequences, FiniteSets

CONSTANTS Threads,      \* identities of write threads
          NoThread,     \* tid before any thread was created
          Items,        \* bound: buffers in a job
          Size,         \* bytes of a buffer
          MaxOpens,     \* bound: times the channel is opened, one job each
          MoveOn,       \* clients go on to the next buffer after a timeout
          Prompt,       \* a killed thread is gone before the next opening
          Errors,       \* threads, endpoints and transfers may fail
          Unplug        \* the peripheral may be disconnected

ASSUME ConstantsAssumption ==
    /\ NoThread \notin Threads
    /\ {Items, Size, MaxOpens} \subseteq Nat \ {0}
    /\ {MoveOn, Prompt, Errors, Unplug} \subseteq BOOLEAN

VARIABLES
    pc,                    \* the client: in a call (write, wait), after a partial write
    item, total, size,     \* buffer being written, bytes of it done and left
    hd,                    \* the interface is claimed
    write_active, write_buf, write_size, write_return, tid,
    th,                    \* the threads
    up,                    \* the peripheral is connected
    received,              \* bytes the peripheral accepted in this job
    acked,                 \* bytes the client was told were written
    opens,                 \* channels opened so far
    movedOn                \* the client gave up a buffer of this job

client == <<pc, item, total, size>>
fdw == <<write_active, write_buf, write_size, write_return, tid>>
vars == <<client, hd, fdw, th, up, received, acked, opens, movedOn>>

NULL == 0
NOTCONN == -1
Job == 1 .. Items * Size
Idle == [st |-> "none", killed |-> FALSE, buf |-> NULL, size |-> 0, cnt |-> 0, open |-> 0]

TypeOK ==
    /\ pc \in {"closed", "ready", "write", "wait", "short"}
    /\ item \in 1..Items + 1 /\ total \in 0..2 * Size /\ size \in -Size..Size
    /\ hd \in BOOLEAN /\ write_active \in BOOLEAN
    /\ write_buf \in Job \cup {NULL} /\ write_size \in 0..Size
    /\ write_return \in NOTCONN..Size /\ tid \in Threads \cup {NoThread}
    /\ th \in [Threads -> [st : {"none", "start", "transfer", "done"},
                           killed : BOOLEAN, buf : Job \cup {NULL}, size : 0..Size,
                           cnt : 0..Size, open : 0..MaxOpens]]
    /\ up \in BOOLEAN /\ received \in Seq(Nat) /\ acked \in Seq(Job)
    /\ opens \in 0..MaxOpens /\ movedOn \in BOOLEAN

Init ==
    /\ pc = "closed" /\ item = 1 /\ total = 0 /\ size = 0
    /\ hd = FALSE
    /\ write_active = FALSE /\ write_buf = NULL /\ write_size = 0 /\ write_return = 0
    /\ tid = NoThread
    /\ th = [t \in Threads |-> Idle]
    /\ up = TRUE /\ received = <<>> /\ acked = <<>> /\ opens = 0
    /\ movedOn = FALSE

Live(t) == th[t].st # "none"

-----------------------------------------------------------------------------
(* Opening claims the interface; a new job begins.                         *)
Open ==
    /\ pc = "closed" /\ opens < MaxOpens /\ up
    /\ Prompt => \A t \in Threads : ~Live(t)
    /\ pc' = "ready" /\ item' = 1 /\ total' = 0 /\ size' = 0
    /\ hd' = TRUE /\ write_active' = FALSE
    /\ opens' = opens + 1 /\ received' = <<>> /\ acked' = <<>> /\ movedOn' = FALSE
    /\ UNCHANGED <<write_buf, write_size, write_return, tid, th, up>>

(* hpmud_write_channel of the next buffer; of what is left of a buffer;    *)
(* or, for commands whose loss the client accepts, of the next one.        *)
StartWrite ==
    /\ pc = "ready" /\ item <= Items
    /\ pc' = "write" /\ total' = 0 /\ size' = Size
    /\ UNCHANGED <<item, hd, fdw, th, up, received, acked, opens, movedOn>>

Retry ==
    /\ pc = "short" /\ pc' = "write"
    /\ UNCHANGED <<item, total, size, hd, fdw, th, up, received, acked, opens, movedOn>>

Skip ==
    /\ MoveOn /\ pc = "short" /\ pc' = "ready"
    /\ item' = item + 1 /\ movedOn' = TRUE
    /\ UNCHANGED <<total, size, hd, fdw, th, up, received, acked, opens>>

-----------------------------------------------------------------------------
(* The loop of musb_raw_channel_write calls musb_write: a thread is made   *)
(* for the rest of the buffer, unless a write is still active.             *)
Offset == (item - 1) * Size + total

Kick ==
    /\ pc = "write" /\ ~write_active
    /\ \E t \in Threads :
          /\ ~Live(t)
          /\ th' = [th EXCEPT ![t] = [Idle EXCEPT !.st = "start", !.open = opens]]
          /\ tid' = t
    /\ write_active' = TRUE /\ write_buf' = Offset + 1 /\ write_size' = size
    /\ pc' = "wait"
    /\ UNCHANGED <<item, total, size, hd, write_return, up, received, acked, opens, movedOn>>

(* pthread_create fails: the call returns, write_active is left set.       *)
KickFails ==
    /\ Errors /\ pc = "write" /\ ~write_active
    /\ write_active' = TRUE /\ write_buf' = Offset + 1 /\ write_size' = size
    /\ pc' = "short"
    /\ UNCHANGED <<item, total, size, hd, write_return, tid, th, up, received, acked, opens,
                   movedOn>>

(* A write of an earlier call is waited for instead.                       *)
Join ==
    /\ pc = "write" /\ write_active /\ pc' = "wait"
    /\ UNCHANGED <<item, total, size, hd, fdw, th, up, received, acked, opens, movedOn>>

(* Mutant: all of the request is reported as written. *)
Wake_Told ==
    LET told == size
    IN  /\ pc = "wait" /\ write_buf = NULL /\ write_return >= 0
        /\ write_active' = FALSE
        /\ total' = total + write_return /\ size' = size - write_return
        /\ acked' = acked \o [i \in 1..told |-> Offset + i]
        /\ \/ size' > 0 /\ pc' = "write" /\ UNCHANGED item
           \/ size' <= 0 /\ pc' = "ready" /\ item' = item + 1
        /\ UNCHANGED <<hd, write_buf, write_size, write_return, tid, th, up, received, opens, movedOn>>

(* The write is done: its result is counted for the buffer of this call,   *)
(* which goes on until the buffer is done, also if nothing was written.    *)
Wake ==
    LET told == IF write_return > size THEN size ELSE write_return
    IN  /\ pc = "wait" /\ write_buf = NULL /\ write_return >= 0
        /\ write_active' = FALSE
        /\ total' = total + write_return /\ size' = size - write_return
        /\ acked' = acked \o [i \in 1..told |-> Offset + i]
        /\ \/ size' > 0 /\ pc' = "write" /\ UNCHANGED item
           \/ size' <= 0 /\ pc' = "ready" /\ item' = item + 1
        /\ UNCHANGED <<hd, write_buf, write_size, write_return, tid, th, up, received, opens, movedOn>>

(* The thread found no endpoint: the call ends with what was written.      *)
WakeError ==
    /\ pc = "wait" /\ write_buf = NULL /\ write_return < 0
    /\ write_active' = FALSE /\ pc' = "short"
    /\ UNCHANGED <<item, total, size, hd, write_buf, write_size, write_return, tid, th, up,
                   received, acked, opens, movedOn>>

(* Mutant: a timed out write is no longer active. *)
Timeout_Inactive ==
    /\ pc = "wait" /\ (tid \in Threads => th[tid].st # "start")
    /\ pc' = "short" /\ write_active' = FALSE
    /\ UNCHANGED <<item, total, size, hd, write_buf, write_size, write_return, tid, th, up, received, acked, opens, movedOn>>

(* Mutant: the wait goes on after ETIMEDOUT. *)
Timeout_Ignored ==
    /\ pc = "wait" /\ (tid \in Threads => th[tid].st # "start")
    /\ UNCHANGED vars

(* The time is up, perhaps just as the write completes.  A thread gets to  *)
(* run within the timeout, which is of seconds.                            *)
Timeout ==
    /\ pc = "wait" /\ (tid \in Threads => th[tid].st # "start")
    /\ pc' = "short"
    /\ UNCHANGED <<item, total, size, hd, fdw, th, up, received, acked, opens, movedOn>>

(* release_interface: a write that is still active is killed.              *)
Close ==
    /\ pc \in {"ready", "short"} /\ pc' = "closed"
    /\ \/ /\ write_active
          /\ th' = [t \in Threads |-> IF t = tid /\ Live(t)
                                      THEN [th[t] EXCEPT !.killed = TRUE] ELSE th[t]]
       \/ ~write_active /\ UNCHANGED th
    /\ write_active' = FALSE /\ hd' = FALSE
    /\ UNCHANGED <<item, total, size, write_buf, write_size, write_return, tid, up,
                   received, acked, opens, movedOn>>

-----------------------------------------------------------------------------
(* write_thread.                                                           *)
ThreadStart(t) ==
    /\ th[t].st = "start"
    /\ th' = [th EXCEPT ![t].st = "transfer", ![t].buf = write_buf, ![t].size = write_size]
    /\ UNCHANGED <<client, hd, fdw, up, received, acked, opens, movedOn>>

(* get_out_ep finds none.                                                  *)
NoEndpoint(t) ==
    /\ Errors /\ th[t].st = "start"
    /\ write_return' = NOTCONN
    /\ th' = [th EXCEPT ![t].st = "done"]
    /\ UNCHANGED <<client, hd, write_active, write_buf, write_size, tid, up, received,
                   acked, opens, movedOn>>

(* The peripheral takes one more byte.                                     *)
Connected(t) == up /\ hd /\ th[t].open = opens

Transfer(t) ==
    /\ th[t].st = "transfer" /\ th[t].cnt < th[t].size /\ Connected(t)
    /\ received' = Append(received, th[t].buf + th[t].cnt)
    /\ th' = [th EXCEPT ![t].cnt = @ + 1]
    /\ UNCHANGED <<client, hd, fdw, up, acked, opens, movedOn>>

(* Mutant: one byte too many is reported. *)
TransferEnds_OffByOne(t) ==
    /\ th[t].st = "transfer" /\ (th[t].cnt = th[t].size \/ ~Connected(t))
    /\ write_return' = th[t].cnt + 1
    /\ th' = [th EXCEPT ![t].st = "done"]
    /\ UNCHANGED <<client, hd, write_active, write_buf, write_size, tid, up, received,
                   acked, opens, movedOn>>

(* libusb_bulk_write returns the bytes transferred, error or not.          *)
TransferEnds(t) ==
    /\ th[t].st = "transfer" /\ (th[t].cnt = th[t].size \/ ~Connected(t))
    /\ write_return' = th[t].cnt
    /\ th' = [th EXCEPT ![t].st = "done"]
    /\ UNCHANGED <<client, hd, write_active, write_buf, write_size, tid, up, received,
                   acked, opens, movedOn>>

(* A transfer may break off on a connected peripheral too (a stall).       *)
TransferFails(t) ==
    /\ Errors /\ th[t].st = "transfer" /\ th[t].cnt < th[t].size
    /\ write_return' = th[t].cnt
    /\ th' = [th EXCEPT ![t].st = "done"]
    /\ UNCHANGED <<client, hd, write_active, write_buf, write_size, tid, up, received,
                   acked, opens, movedOn>>

(* The completion is signalled under the mutex, and the thread ends.      *)
Signal(t) ==
    /\ th[t].st = "done"
    /\ write_buf' = NULL
    /\ th' = [th EXCEPT ![t] = Idle]
    /\ UNCHANGED <<client, hd, write_active, write_size, write_return, tid, up, received,
                   acked, opens, movedOn>>

(* SIGUSR1 ends the thread wherever it is.                                 *)
Die(t) ==
    /\ th[t].killed
    /\ th' = [th EXCEPT ![t] = Idle]
    /\ UNCHANGED <<client, hd, fdw, up, received, acked, opens, movedOn>>

Disconnect ==
    /\ Unplug /\ up /\ up' = FALSE
    /\ UNCHANGED <<client, hd, fdw, th, received, acked, opens, movedOn>>

-----------------------------------------------------------------------------
InCall == pc \in {"write", "wait"}

CallStep == Kick \/ KickFails \/ Join \/ Wake \/ WakeError \/ Timeout
ThreadStep == \E t \in Threads :
    \/ ThreadStart(t) \/ NoEndpoint(t) \/ Transfer(t) \/ TransferEnds(t)
    \/ TransferFails(t) \/ Signal(t) \/ Die(t)

Next ==
    \/ Open \/ StartWrite \/ Retry \/ Skip \/ Close
    \/ CallStep \/ ThreadStep \/ Disconnect

Spec == Init /\ [][Next]_vars

(* The caller and its threads are scheduled; the peripheral need not take  *)
(* anything.                                                               *)
FairSpec ==
    /\ Spec /\ WF_vars(CallStep)
    /\ WF_vars(\E t \in Threads : ThreadStart(t) \/ TransferEnds(t) \/ Signal(t) \/ Die(t))

-----------------------------------------------------------------------------
(* Properties.                                                             *)

(* "bytes_wrote - number of bytes actually wrote": what the client was     *)
(* told was written is what the peripheral got, in that order, although    *)
(* the write that is waited for may be that of an earlier call.            *)
ToldIsSent ==
    /\ Len(acked) <= Len(received)
    /\ \A i \in 1..Len(acked) : acked[i] = received[i]

(* It is for a client that sends again what it was not told was written;   *)
(* whatever else fails.                                                    *)
AckedWasSent == ~movedOn => ToldIsSent

(* Such a client gets every byte of its job printed once, in order: a      *)
(* timed out write is never started a second time while it may still       *)
(* succeed, and what one job left behind does not reach the next.          *)
JobInOrder == ~movedOn => \A i \in 1..Len(received) : received[i] = i

(* A write call ends within its timeout, the threads it waits for, and     *)
(* those it should have had, notwithstanding.  It is not bounded as a      *)
(* whole: a call that goes on for ever is one whose transfers end again    *)
(* and again without having sent a byte.                                   *)
SentNothing == \E t \in Threads :
    th[t].st = "transfer" /\ th[t].cnt = 0 /\ th'[t].st = "done"

WriteReturns == <>[]InCall => []<><<SentNothing>>_vars

(***************************************************************************)
(* What the code's comments say and the code does not keep: README.md      *)
(* names the configuration in which each of these fails.                   *)
(***************************************************************************)

(* "If write is still active, probably OOP condition": a write taken for   *)
(* active has a thread that will end it.  None has when pthread_create     *)
(* failed, and no later write of this opening starts one.                  *)
ActiveHasThread ==
    write_active /\ write_buf # NULL => tid \in Threads /\ Live(tid) /\ ~th[tid].killed

(* "timeout - in seconds": a write call ends.                              *)
CallEnds == InCall ~> ~InCall

(* release_interface aborts an outstanding write only if there is one: the *)
(* (detached) thread it sends a signal to still exists.                    *)
AbortsLive == [][hd /\ ~hd' /\ write_active => tid \in Threads /\ Live(tid)]_vars
=============================================================================
