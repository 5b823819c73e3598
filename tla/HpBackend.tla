----------------------------- MODULE HpBackend -----------------------------
(***************************************************************************)
(* A print job in the CUPS backend (prnt/backend/hp.c): main, which opens  *)
(* the device and writes the job, and pjl_read_thread, which it starts for *)
(* a LaserJet with PJL status and which keeps pa.current_status up to      *)
(* date.  They share pa, its mutex and its condition variable, and the     *)
(* mutex of the device inside libhpmud.                                    *)
(*                                                                         *)
(* A status is one of ok, error (needs the user) and ioerror (5000 to      *)
(* 5999); unset is what the uninitialised stack variable holds.            *)
(***************************************************************************)
EXTENDS Naturals, Sequences

CONSTANTS MaxBufs,      \* bound: buffers of the job
          Size,         \* units of a buffer
          MaxPolls,     \* polls for the end of the job, 10 in the code
          MaxChanges,   \* bound: times the condition of the printer changes
          ThreadFirst   \* a thread gets to run before a first write ends

ASSUME ConstantsAssumption ==
    /\ {MaxBufs, MaxChanges} \subseteq Nat /\ {Size, MaxPolls} \subseteq Nat \ {0}
    /\ ThreadFirst \in BOOLEAN

VARIABLES
    pc, phase,            \* main: where it is, loop_test's caller
    bufs, size,           \* buffers still to read, units left of this one
    retry,                \* the device was busy
    polls,                \* cnt of the job end loop
    exit_stat,
    hd, cd,               \* device, channel open
    pjl_device, current_status, eoj_pages, abort, done,  \* pa
    mutex, done_cond,     \* pa: life of the mutex and of the condition variable
    woken,                \* main's wait was signalled
    th, msg,              \* pjl_read_thread, the report it has read
    killed,               \* SIGUSR1 is pending for it
    cond, changes,        \* printer: its condition, times it changed
    reports,              \* printer: unsolicited status not read yet
    blind                 \* writes begun since current_status is error

job == <<phase, bufs, size, retry, polls, exit_stat>>
shared == <<current_status, eoj_pages, abort, done>>
sync == <<mutex, done_cond, woken>>
thread == <<th, msg, killed>>
printer == <<cond, changes, reports>>
dev == <<hd, cd, pjl_device>>
vars == <<pc, job, dev, shared, sync, thread, printer, blind>>

Writing == {"enabling", "writing", "eoj", "off"}   \* main has the device mutex
Ending == {"bugout", "checked", "waiting", "kill", "destroy", "close", "closed", "exit"}

FlagsOK ==
    /\ retry \in BOOLEAN /\ hd \in BOOLEAN /\ cd \in BOOLEAN /\ pjl_device \in BOOLEAN
    /\ eoj_pages \in BOOLEAN /\ abort \in BOOLEAN /\ done \in BOOLEAN
    /\ woken \in BOOLEAN /\ killed \in BOOLEAN

DataOK ==
    /\ pc \in Writing \cup Ending \cup {"open", "channel", "write", "test", "poll"}
    /\ phase \in {"print", "eoj"} /\ bufs \in 0..MaxBufs /\ size \in 0..Size
    /\ polls \in 0..MaxPolls /\ exit_stat \in {"OK", "FAILED", "STOP"}
    /\ current_status \in {"unset", "ok", "error", "ioerror"}
    /\ mutex \in {"none", "ready", "destroyed"} /\ done_cond = mutex
    /\ th \in {"none", "start", "loop", "read", "store", "fail", "ending", "signal", "dead"}
    /\ msg \in {"none", "ok", "error", "end"}
    /\ cond \in {"ok", "error"} /\ changes \in 0..MaxChanges
    /\ reports \in Seq({"ok", "error", "end"}) /\ blind \in Nat

TypeOK == FlagsOK /\ DataOK

(* pa is not initialised: done and abort may hold anything.                *)
Init ==
    /\ pc = "open" /\ phase = "print" /\ bufs \in 0..MaxBufs /\ size = 0
    /\ retry = FALSE /\ polls = 0 /\ exit_stat = "FAILED"
    /\ hd = FALSE /\ cd = FALSE /\ pjl_device \in BOOLEAN
    /\ current_status = "unset" /\ eoj_pages \in BOOLEAN
    /\ abort \in BOOLEAN /\ done \in BOOLEAN
    /\ mutex = "none" /\ done_cond = "none" /\ woken = FALSE
    /\ th = "none" /\ msg = "none" /\ killed = FALSE
    /\ cond \in {"ok", "error"} /\ changes = 0 /\ reports = <<>> /\ blind = 0

HasThread == pjl_device /\ th # "none"    \* pa.pjl_device && pa.tid
Free == pc # "checked"                    \* main has pa.mutex from the check to the wait

-----------------------------------------------------------------------------
(* main: the device and the channel are opened for the first data.  A busy *)
(* device is waited for (but not by a job of a class), else the job ends.  *)
NullJob ==
    /\ pc = "open" /\ bufs = 0
    /\ exit_stat' = "OK" /\ pc' = "bugout"
    /\ UNCHANGED <<phase, bufs, size, retry, polls, dev, shared, sync, thread, printer, blind>>

OpenDevice ==
    /\ pc = "open" /\ bufs > 0
    /\ \/ hd' = TRUE /\ retry' = FALSE /\ pc' = "channel"
       \/ retry' = TRUE /\ UNCHANGED <<pc, hd>>
       \/ pc' = "bugout" /\ UNCHANGED <<retry, hd>>
    /\ UNCHANGED <<phase, bufs, size, polls, exit_stat, cd, pjl_device, shared, sync, thread,
                   printer, blind>>

OpenChannel ==
    /\ pc = "channel"
    /\ \/ /\ cd' = TRUE /\ retry' = FALSE
          /\ pc' = IF pjl_device THEN "enabling" ELSE "write"
       \/ retry' = TRUE /\ UNCHANGED <<pc, cd>>
       \/ pc' = "bugout" /\ UNCHANGED <<retry, cd>>
    /\ UNCHANGED <<phase, bufs, size, polls, exit_stat, hd, pjl_device, shared, sync, thread,
                   printer, blind>>

(* pjl_ustatus_cmd: from now on the printer reports its condition.         *)
StartThread ==
    /\ pc = "enabling" /\ pc' = "write"
    /\ reports' = <<cond>>
    /\ mutex' = "ready" /\ done_cond' = "ready" /\ th' = "start"
    /\ UNCHANGED <<job, dev, shared, woken, msg, killed, cond, changes, blind>>

-----------------------------------------------------------------------------
(* main: the rest of a buffer, or the next one, is written; a loop_test    *)
(* follows on a LaserJet, or when not all was written.                     *)
BeginWrite ==
    /\ pc = "write" /\ pc' = "writing"
    /\ \/ size > 0 /\ UNCHANGED <<bufs, size>>
       \/ size = 0 /\ bufs > 0 /\ bufs' = bufs - 1 /\ size' = Size
    /\ blind' = IF current_status = "error" THEN blind + 1 ELSE blind
    /\ UNCHANGED <<phase, retry, polls, exit_stat, dev, shared, sync, thread, printer>>

ThreadRan == ThreadFirst => th # "start"

(* Mutant: a complete write is not followed by a test. *)
EndWrite_NoTest ==
    /\ pc = "writing" /\ ThreadRan
    /\ \E n \in 0..size :
          /\ size' = size - n
          /\ pc' = IF n < size THEN "test" ELSE "write"
    /\ UNCHANGED <<phase, bufs, retry, polls, exit_stat, dev, shared, sync, thread, printer, blind>>

(* hpmud_write_channel may time out or fail, whatever the printer's status *)
(* is: what is left is written again after the test.                       *)
EndWrite ==
    /\ pc = "writing" /\ ThreadRan
    /\ \E n \in 0..size :
          /\ size' = size - n
          /\ pc' = IF n < size \/ pjl_device THEN "test" ELSE "write"
    /\ UNCHANGED <<phase, bufs, retry, polls, exit_stat, dev, shared, sync, thread, printer, blind>>

(* get_printer_status: without PJL the device id tells.                    *)
Status ==
    IF ~pjl_device THEN {cond, "ioerror"}
    ELSE IF current_status = "unset" THEN {"ok", "error", "ioerror"} ELSE {current_status}

(* Mutant: any device error leaves the queue up. *)
LoopTest_QueueUp ==
    /\ pc = "test" /\ Free
    /\ \/ "ok" \in Status /\ pc' = (IF phase = "print" THEN "write" ELSE "poll") /\ UNCHANGED exit_stat
       \/ /\ "ioerror" \in Status /\ pc' = "bugout"
          /\ exit_stat' = "OK"
    /\ UNCHANGED <<phase, bufs, size, retry, polls, dev, shared, sync, thread, printer, blind>>

(* loop_test: it sleeps as long as the status is error.  A device error    *)
(* ends the job: it stops the queue unless all was sent.                   *)
LoopTest ==
    /\ pc = "test" /\ Free
    /\ \/ "ok" \in Status /\ pc' = (IF phase = "print" THEN "write" ELSE "poll") /\ UNCHANGED exit_stat
       \/ /\ "ioerror" \in Status /\ pc' = "bugout"
          /\ exit_stat' = IF phase = "print" THEN "STOP" ELSE "OK"
    /\ UNCHANGED <<phase, bufs, size, retry, polls, dev, shared, sync, thread, printer, blind>>

(* All is sent: without PJL a bounded wait, with it the end of the job is  *)
(* asked for and polled.                                                   *)
EndOfData ==
    /\ pc = "write" /\ size = 0 /\ bufs = 0
    /\ \/ HasThread /\ eoj_pages' = FALSE /\ pc' = "eoj" /\ UNCHANGED exit_stat
       \/ ~HasThread /\ exit_stat' = "OK" /\ pc' = "bugout" /\ UNCHANGED eoj_pages
    /\ UNCHANGED <<phase, bufs, size, retry, polls, dev, current_status, abort, done, sync, thread,
                   printer, blind>>

AskJobEnd ==
    /\ pc = "eoj" /\ phase' = "eoj" /\ pc' = "test"
    /\ UNCHANGED <<bufs, size, retry, polls, exit_stat, dev, shared, sync, thread, printer, blind>>

(* Mutant: the poll waits for the report. *)
PollJobEnd_Forever ==
    /\ pc = "poll" /\ Free /\ polls' = polls + 1
    /\ pc' = IF eoj_pages THEN "off" ELSE "test"
    /\ UNCHANGED <<phase, bufs, size, retry, exit_stat, dev, shared, sync, thread, printer, blind>>

PollJobEnd ==
    /\ pc = "poll" /\ Free /\ polls' = polls + 1
    /\ pc' = IF eoj_pages \/ polls' = MaxPolls THEN "off" ELSE "test"
    /\ UNCHANGED <<phase, bufs, size, retry, exit_stat, dev, shared, sync, thread, printer, blind>>

StatusOff ==
    /\ pc = "off" /\ exit_stat' = "OK" /\ pc' = "bugout"
    /\ UNCHANGED <<phase, bufs, size, retry, polls, dev, shared, sync, thread, printer, blind>>

-----------------------------------------------------------------------------
(* main, bugout: the thread is asked to end and waited for; pthread_kill   *)
(* makes sure; then the mutex, the condition, the channel and the device   *)
(* go.                                                                     *)
Checked == IF done THEN "kill" ELSE "checked"

Abort ==
    /\ pc = "bugout"
    /\ \/ HasThread /\ abort' = TRUE /\ pc' = Checked
       \/ ~HasThread /\ pc' = "close" /\ UNCHANGED abort
    /\ UNCHANGED <<job, dev, current_status, eoj_pages, done, sync, thread, printer, blind>>

CondWait ==
    /\ pc = "checked" /\ pc' = "waiting" /\ woken' = FALSE
    /\ UNCHANGED <<job, dev, shared, mutex, done_cond, thread, printer, blind>>

(* Mutant: what woke the wait is not checked. *)
Return_Unchecked ==
    /\ pc = "waiting" /\ pc' = "kill"
    /\ UNCHANGED <<job, dev, shared, sync, thread, printer, blind>>

(* pthread_cond_wait returns, done is checked again.                       *)
Return ==
    /\ pc = "waiting" /\ pc' = Checked
    /\ UNCHANGED <<job, dev, shared, sync, thread, printer, blind>>

WakeUp == woken /\ Return
Spurious == ~woken /\ Return

Kill ==
    /\ pc = "kill" /\ pc' = "destroy"
    /\ killed' = (th # "dead")
    /\ UNCHANGED <<job, dev, shared, sync, th, msg, printer, blind>>

Destroy ==
    /\ pc = "destroy" /\ pc' = "close"
    /\ mutex' = "destroyed" /\ done_cond' = "destroyed"
    /\ UNCHANGED <<job, dev, shared, woken, thread, printer, blind>>

CloseChannel ==
    /\ pc = "close" /\ pc' = "closed" /\ cd' = FALSE
    /\ UNCHANGED <<job, hd, pjl_device, shared, sync, thread, printer, blind>>

CloseDevice ==
    /\ pc = "closed" /\ pc' = "exit" /\ hd' = FALSE
    /\ UNCHANGED <<job, cd, pjl_device, shared, sync, thread, printer, blind>>

-----------------------------------------------------------------------------
(* pjl_read_thread, until the process exits.                               *)
At(p) == th = p /\ pc # "exit"

ThreadStart ==
    /\ At("start") /\ th' = "loop"
    /\ current_status' = "ok" /\ eoj_pages' = FALSE /\ abort' = FALSE /\ done' = FALSE
    /\ UNCHANGED <<pc, job, dev, sync, msg, killed, printer, blind>>

(* Mutant: abort is not looked at. *)
ThreadLoop_Deaf ==
    /\ At("loop") /\ th' = "read"
    /\ UNCHANGED <<pc, job, dev, shared, sync, msg, killed, printer, blind>>

ThreadLoop ==
    /\ At("loop")
    /\ th' = IF abort THEN "ending" ELSE "read"
    /\ UNCHANGED <<pc, job, dev, shared, sync, msg, killed, printer, blind>>

(* hpmud_read_channel: a report, an I/O error, or nothing and a sleep.     *)
ThreadRead ==
    /\ At("read") /\ pc \notin Writing
    /\ \/ /\ reports # <<>> /\ msg' = Head(reports) /\ reports' = Tail(reports)
          /\ th' = "store"
       \/ th' = "fail" /\ UNCHANGED <<msg, reports>>
       \/ reports = <<>> /\ th' = "loop" /\ UNCHANGED <<msg, reports>>
    /\ UNCHANGED <<pc, job, dev, shared, sync, killed, cond, changes, blind>>

ThreadStore ==
    /\ At("store") /\ Free /\ th' = "loop"
    /\ \/ /\ msg = "end" /\ eoj_pages' = TRUE /\ UNCHANGED <<current_status, blind>>
       \/ /\ msg # "end" /\ current_status' = msg /\ UNCHANGED eoj_pages
          /\ blind' = IF msg = "ok" THEN 0 ELSE blind
    /\ msg' = "none"
    /\ UNCHANGED <<pc, job, dev, abort, done, sync, killed, printer>>

(* Mutant: the error is logged only. *)
ThreadFail_Quiet ==
    /\ At("fail") /\ Free /\ th' = "ending"
    /\ UNCHANGED <<pc, job, dev, shared, sync, msg, killed, printer, blind>>

ThreadFail ==
    /\ At("fail") /\ Free /\ th' = "ending"
    /\ current_status' = "ioerror" /\ blind' = 0
    /\ UNCHANGED <<pc, job, dev, eoj_pages, abort, done, sync, msg, killed, printer>>

(* done is set and signalled without the mutex.                            *)
ThreadDone ==
    /\ At("ending") /\ th' = "signal" /\ done' = TRUE
    /\ UNCHANGED <<pc, job, dev, current_status, eoj_pages, abort, sync, msg, killed, printer, blind>>

ThreadSignal ==
    /\ At("signal") /\ th' = "dead" /\ killed' = FALSE
    /\ woken' = (woken \/ pc = "waiting")
    /\ UNCHANGED <<pc, job, dev, shared, mutex, done_cond, msg, printer, blind>>

(* handle_quit.                                                            *)
Die ==
    /\ killed /\ pc # "exit" /\ th' = "dead" /\ killed' = FALSE
    /\ UNCHANGED <<pc, job, dev, shared, sync, msg, printer, blind>>

-----------------------------------------------------------------------------
(* The printer runs out of paper and is looked after; reports follow once  *)
(* they are enabled.                                                       *)
Report(r) == reports' = IF th = "none" THEN reports ELSE Append(reports, r)

Trouble ==
    /\ cond = "ok" /\ changes < MaxChanges /\ pc # "exit"
    /\ cond' = "error" /\ changes' = changes + 1 /\ Report("error")
    /\ UNCHANGED <<pc, job, dev, shared, sync, thread, blind>>

Fix ==
    /\ cond = "error" /\ pc # "exit"
    /\ cond' = "ok" /\ Report("ok")
    /\ UNCHANGED <<pc, job, dev, shared, sync, thread, changes, blind>>

JobPrinted ==
    /\ phase = "eoj" /\ pc \notin Ending /\ cond = "ok"
    /\ ~eoj_pages /\ msg # "end" /\ "end" \notin {reports[i] : i \in DOMAIN reports}
    /\ Report("end")
    /\ UNCHANGED <<pc, job, dev, shared, sync, thread, cond, changes, blind>>

-----------------------------------------------------------------------------
MainStep ==
    \/ NullJob \/ OpenDevice \/ OpenChannel \/ StartThread
    \/ BeginWrite \/ EndWrite \/ LoopTest \/ EndOfData \/ AskJobEnd \/ PollJobEnd \/ StatusOff
    \/ Abort \/ CondWait \/ WakeUp \/ Kill \/ Destroy \/ CloseChannel \/ CloseDevice

ThreadStep ==
    \/ ThreadStart \/ ThreadLoop \/ ThreadRead \/ ThreadStore \/ ThreadFail
    \/ ThreadDone \/ ThreadSignal \/ Die

Next == MainStep \/ Spurious \/ ThreadStep \/ Trouble \/ Fix \/ JobPrinted

Spec == Init /\ [][Next]_vars

(* Both threads are scheduled, a busy device becomes free (MainStep as a   *)
(* whole is fair), a thread that waits for the mutex gets it in the end,   *)
(* the user looks after the printer.                                       *)
FairSpec ==
    /\ Spec /\ WF_vars(MainStep) /\ WF_vars(ThreadStep) /\ WF_vars(Fix)
    /\ SF_vars(ThreadStore \/ ThreadFail)

-----------------------------------------------------------------------------
(* Properties.                                                             *)

(* bugout waits for pa.done before it destroys the mutex and closes the    *)
(* channel: the thread never reads a closed channel or locks a mutex that  *)
(* is gone.                                                                *)
ThreadWithinLife ==
    /\ th = "read" => cd /\ hd
    /\ th \in {"store", "fail"} => mutex = "ready"

(* "manually check for operator intervention condition": after the thread  *)
(* has seen that the printer needs the user, main begins one more write at *)
(* most (of the buffer loop_test had let pass).                            *)
PausesOnError == blind <= 1

(* BACKEND_OK ("leave queue up") is only for a job that was sent in full.  *)
OkMeansSent == exit_stat = "OK" => bufs = 0 /\ size = 0

(* The thread answers the request to end.                                  *)
AbortAnswered == pc = "checked" ~> done

(* A job does not stay in loop_test or in its polls: it comes to bugout if *)
(* users look after the printer, also when status reports cannot be read.  *)
(* Writes are repeated without bound, so that a job that never comes there *)
(* is one of which nothing is taken any more, again and again.             *)
NothingTaken == pc = "writing" /\ pc' # "writing" /\ size' = size

JobEnds == <>(pc \in Ending) \/ []<><<NothingTaken>>_vars

(***************************************************************************)
(* What the code seems to promise and does not keep: README.md names the   *)
(* configuration in which each of these fails.                             *)
(***************************************************************************)

(* "IO error, get printer status": writes that fail end the job.           *)
JobGivesUp == <>(pc \in Ending)

(* What main asks of the thread, the thread's own start does not undo.     *)
AbortSticks == [][abort /\ ~abort' => pc \notin Ending \ {"bugout"}]_vars


(* "Gracefully kill the pjl_read_thread": pthread_kill has a thread to     *)
(* send its signal to.                                                     *)
KillsLive == [][pc = "kill" /\ pc' = "destroy" => th # "dead"]_vars

(* "Gracefully kill the pjl_read_thread": what the thread still uses to    *)
(* say that it is done exists.                                             *)
SignalsLive == th = "signal" => done_cond = "ready"

(* "default is ready": loop_test acts on a status that was set.            *)
StatusSet == pc = "test" /\ pjl_device => current_status # "unset"
=============================================================================
