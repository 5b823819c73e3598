------------------------- MODULE HpBackend_proofs --------------------------
(***************************************************************************)
(* Proofs about HpBackend, for jobs of any length and printers that change *)
(* their condition any number of times.  TypeOK needs a bound on polls;    *)
(* three more invariants, each inductive with it, say what has been sent,  *)
(* what main has seen of the status, and how long the thread lives.        *)
(***************************************************************************)
EXTENDS HpBackend, TLAPS

(* The last poll ends the loop; there is a report to store; a thread is    *)
(* started after the channel is open, and only if there is PJL status.     *)
Inv1 ==
    /\ DataOK
    /\ polls = MaxPolls => pc \in Ending \cup {"off"}
    /\ th = "store" => msg # "none"
    /\ pc = "enabling" => pjl_device
    /\ th # "none" => pjl_device /\ pc \notin {"open", "channel", "enabling"}
    /\ killed \/ pc \in {"checked", "waiting", "kill"} => th # "none"

(* Everything is sent before main asks for the end of the job.             *)
SentOK ==
    /\ pc \in {"open", "channel", "enabling"} => size = 0
    /\ phase = "eoj" \/ exit_stat = "OK" \/ pc \in {"eoj", "poll", "off"} =>
          bufs = 0 /\ size = 0
    /\ pc \in {"poll", "off"} => phase = "eoj"

(* A status is stored only by a thread that has started, and main comes    *)
(* back to write only with a status that was not error.                    *)
PauseOK ==
    /\ th \in {"none", "start"} => current_status = "unset"
    /\ current_status # "error" => blind = 0
    /\ pc \in {"open", "channel", "enabling", "write"} => blind = 0
    /\ blind <= 1

(* The thread that still reads has the device, the channel and the mutex,  *)
(* and is not done; main is past its wait only when it is.                 *)
Reading == {"loop", "read", "store", "fail"}

LifeOK ==
    /\ pc \in {"channel", "enabling"} => hd /\ bufs > 0
    /\ pc = "enabling" => cd
    /\ th = "start" => pc \in {"write", "writing"} /\ (pc = "write" => bufs > 0)
    /\ th \in Reading \cup {"start"} => cd /\ hd /\ mutex = "ready"
    /\ th \in Reading \cup {"ending"} => ~done
    /\ pc \in {"kill", "destroy", "close", "closed", "exit"} =>
          th \in {"none", "signal", "dead"}

-----------------------------------------------------------------------------
LEMMA FlagsInit == Init => FlagsOK
  BY DEF Init, FlagsOK

LEMMA FlagsNext ==
  ASSUME FlagsOK, [Next]_vars
  PROVE  FlagsOK'
  <1> USE DEF FlagsOK, job, dev, shared, sync, thread, printer
  <1>0. CASE UNCHANGED vars
    BY <1>0 DEF vars
  <1>1. CASE NullJob
    BY <1>1 DEF NullJob
  <1>2. CASE OpenDevice
    BY <1>2 DEF OpenDevice
  <1>3. CASE OpenChannel
    BY <1>3 DEF OpenChannel
  <1>4. CASE StartThread
    BY <1>4 DEF StartThread
  <1>5. CASE BeginWrite
    BY <1>5 DEF BeginWrite
  <1>6. CASE EndWrite
    BY <1>6 DEF EndWrite, ThreadRan
  <1>7. CASE LoopTest
    BY <1>7 DEF LoopTest, Status
  <1>8. CASE EndOfData
    BY <1>8 DEF EndOfData, HasThread
  <1>9. CASE AskJobEnd
    BY <1>9 DEF AskJobEnd
  <1>10. CASE PollJobEnd
    BY <1>10 DEF PollJobEnd
  <1>11. CASE StatusOff
    BY <1>11 DEF StatusOff
  <1>12. CASE Abort
    BY <1>12 DEF Abort, HasThread, Checked
  <1>13. CASE CondWait
    BY <1>13 DEF CondWait
  <1>14. CASE WakeUp
    BY <1>14 DEF WakeUp, Return, Checked
  <1>15. CASE Kill
    BY <1>15 DEF Kill
  <1>16. CASE Destroy
    BY <1>16 DEF Destroy
  <1>17. CASE CloseChannel
    BY <1>17 DEF CloseChannel
  <1>18. CASE CloseDevice
    BY <1>18 DEF CloseDevice
  <1>19. CASE Spurious
    BY <1>19 DEF Spurious, Return, Checked
  <1>20. CASE ThreadStart
    BY <1>20 DEF ThreadStart, At
  <1>21. CASE ThreadLoop
    BY <1>21 DEF ThreadLoop, At
  <1>22. CASE ThreadRead
    BY <1>22 DEF ThreadRead, At
  <1>23. CASE ThreadStore
    BY <1>23 DEF ThreadStore, At
  <1>24. CASE ThreadFail
    BY <1>24 DEF ThreadFail, At
  <1>25. CASE ThreadDone
    BY <1>25 DEF ThreadDone, At
  <1>26. CASE ThreadSignal
    BY <1>26 DEF ThreadSignal, At
  <1>27. CASE Die
    BY <1>27 DEF Die
  <1>28. CASE Trouble
    BY <1>28 DEF Trouble, Report
  <1>29. CASE Fix
    BY <1>29 DEF Fix, Report
  <1>30. CASE JobPrinted
    BY <1>30 DEF JobPrinted, Report
  <1> QED
    BY <1>0, <1>1, <1>2, <1>3, <1>4, <1>5, <1>6, <1>7, <1>8, <1>9, <1>10,
       <1>11, <1>12, <1>13, <1>14, <1>15, <1>16, <1>17, <1>18, <1>19, <1>20,
       <1>21, <1>22, <1>23, <1>24, <1>25, <1>26, <1>27, <1>28, <1>29, <1>30
       DEF Next, MainStep, ThreadStep

LEMMA Inv1Init == Init => Inv1
  BY ConstantsAssumption
     DEF ConstantsAssumption, Init, Inv1, DataOK, Ending, Writing

LEMMA Inv1Next ==
  ASSUME Inv1, [Next]_vars
  PROVE  Inv1'
  <1> USE ConstantsAssumption DEF ConstantsAssumption, Inv1, DataOK, Writing,
          Ending, job, dev, shared, sync, thread, printer
  <1>0. CASE UNCHANGED vars
    BY <1>0 DEF vars
  <1>1. CASE NullJob
    BY <1>1 DEF NullJob
  <1>2. CASE OpenDevice
    BY <1>2 DEF OpenDevice
  <1>3. CASE OpenChannel
    BY <1>3 DEF OpenChannel
  <1>4. CASE StartThread
    BY <1>4 DEF StartThread
  <1>5. CASE BeginWrite
    BY <1>5 DEF BeginWrite
  <1>6. CASE EndWrite
    BY <1>6 DEF EndWrite, ThreadRan
  <1>7. CASE LoopTest
    BY <1>7 DEF LoopTest, Status
  <1>8. CASE EndOfData
    BY <1>8 DEF EndOfData, HasThread
  <1>9. CASE AskJobEnd
    BY <1>9 DEF AskJobEnd
  <1>10. CASE PollJobEnd
    BY <1>10 DEF PollJobEnd
  <1>11. CASE StatusOff
    BY <1>11 DEF StatusOff
  <1>12. CASE Abort
    BY <1>12 DEF Abort, HasThread, Checked
  <1>13. CASE CondWait
    BY <1>13 DEF CondWait
  <1>14. CASE WakeUp
    BY <1>14 DEF WakeUp, Return, Checked
  <1>15. CASE Kill
    BY <1>15 DEF Kill
  <1>16. CASE Destroy
    BY <1>16 DEF Destroy
  <1>17. CASE CloseChannel
    BY <1>17 DEF CloseChannel
  <1>18. CASE CloseDevice
    BY <1>18 DEF CloseDevice
  <1>19. CASE Spurious
    BY <1>19 DEF Spurious, Return, Checked
  <1>20. CASE ThreadStart
    BY <1>20 DEF ThreadStart, At
  <1>21. CASE ThreadLoop
    BY <1>21 DEF ThreadLoop, At
  <1>22. CASE ThreadRead
    <2>1. CASE reports # <<>> /\ msg' = Head(reports) /\ reports' = Tail(reports)
      <3>1. /\ Head(reports) \in {"ok", "error", "end"}
            /\ Tail(reports) \in Seq({"ok", "error", "end"})
        BY <2>1
      <3> QED BY <1>22, <2>1, <3>1 DEF ThreadRead, At
    <2>2. CASE UNCHANGED <<msg, reports>> /\ th' \in {"fail", "loop"}
      BY <1>22, <2>2 DEF ThreadRead, At
    <2> QED BY <1>22, <2>1, <2>2 DEF ThreadRead
  <1>23. CASE ThreadStore
    BY <1>23 DEF ThreadStore, At
  <1>24. CASE ThreadFail
    BY <1>24 DEF ThreadFail, At
  <1>25. CASE ThreadDone
    BY <1>25 DEF ThreadDone, At
  <1>26. CASE ThreadSignal
    BY <1>26 DEF ThreadSignal, At
  <1>27. CASE Die
    BY <1>27 DEF Die
  <1>28. CASE Trouble
    BY <1>28 DEF Trouble, Report
  <1>29. CASE Fix
    BY <1>29 DEF Fix, Report
  <1>30. CASE JobPrinted
    BY <1>30 DEF JobPrinted, Report
  <1> QED
    BY <1>0, <1>1, <1>2, <1>3, <1>4, <1>5, <1>6, <1>7, <1>8, <1>9, <1>10,
       <1>11, <1>12, <1>13, <1>14, <1>15, <1>16, <1>17, <1>18, <1>19, <1>20,
       <1>21, <1>22, <1>23, <1>24, <1>25, <1>26, <1>27, <1>28, <1>29, <1>30
       DEF Next, MainStep, ThreadStep

LEMMA SentInit == Init => SentOK
  BY DEF Init, SentOK

LEMMA SentNext ==
  ASSUME Inv1, SentOK, [Next]_vars
  PROVE  SentOK'
  <1> USE ConstantsAssumption DEF ConstantsAssumption, Inv1, DataOK, SentOK,
          Writing, Ending, job, dev, shared, sync, thread, printer
  <1>0. CASE UNCHANGED vars
    BY <1>0 DEF vars
  <1>1. CASE NullJob
    BY <1>1 DEF NullJob
  <1>2. CASE OpenDevice
    BY <1>2 DEF OpenDevice
  <1>3. CASE OpenChannel
    BY <1>3 DEF OpenChannel
  <1>4. CASE StartThread
    BY <1>4 DEF StartThread
  <1>5. CASE BeginWrite
    BY <1>5 DEF BeginWrite
  <1>6. CASE EndWrite
    BY <1>6 DEF EndWrite, ThreadRan
  <1>7. CASE LoopTest
    BY <1>7 DEF LoopTest, Status
  <1>8. CASE EndOfData
    BY <1>8 DEF EndOfData, HasThread
  <1>9. CASE AskJobEnd
    BY <1>9 DEF AskJobEnd
  <1>10. CASE PollJobEnd
    BY <1>10 DEF PollJobEnd
  <1>11. CASE StatusOff
    BY <1>11 DEF StatusOff
  <1>12. CASE Abort
    BY <1>12 DEF Abort, HasThread, Checked
  <1>13. CASE CondWait
    BY <1>13 DEF CondWait
  <1>14. CASE WakeUp
    BY <1>14 DEF WakeUp, Return, Checked
  <1>15. CASE Kill
    BY <1>15 DEF Kill
  <1>16. CASE Destroy
    BY <1>16 DEF Destroy
  <1>17. CASE CloseChannel
    BY <1>17 DEF CloseChannel
  <1>18. CASE CloseDevice
    BY <1>18 DEF CloseDevice
  <1>19. CASE Spurious
    BY <1>19 DEF Spurious, Return, Checked
  <1>20. CASE ThreadStart
    BY <1>20 DEF ThreadStart, At
  <1>21. CASE ThreadLoop
    BY <1>21 DEF ThreadLoop, At
  <1>22. CASE ThreadRead
    BY <1>22 DEF ThreadRead, At
  <1>23. CASE ThreadStore
    BY <1>23 DEF ThreadStore, At
  <1>24. CASE ThreadFail
    BY <1>24 DEF ThreadFail, At
  <1>25. CASE ThreadDone
    BY <1>25 DEF ThreadDone, At
  <1>26. CASE ThreadSignal
    BY <1>26 DEF ThreadSignal, At
  <1>27. CASE Die
    BY <1>27 DEF Die
  <1>28. CASE Trouble
    BY <1>28 DEF Trouble, Report
  <1>29. CASE Fix
    BY <1>29 DEF Fix, Report
  <1>30. CASE JobPrinted
    BY <1>30 DEF JobPrinted, Report
  <1> QED
    BY <1>0, <1>1, <1>2, <1>3, <1>4, <1>5, <1>6, <1>7, <1>8, <1>9, <1>10,
       <1>11, <1>12, <1>13, <1>14, <1>15, <1>16, <1>17, <1>18, <1>19, <1>20,
       <1>21, <1>22, <1>23, <1>24, <1>25, <1>26, <1>27, <1>28, <1>29, <1>30
       DEF Next, MainStep, ThreadStep

LEMMA PauseInit == Init => PauseOK
  BY DEF Init, PauseOK

LEMMA PauseNext ==
  ASSUME Inv1, PauseOK, [Next]_vars
  PROVE  PauseOK'
  <1> USE ConstantsAssumption DEF ConstantsAssumption, Inv1, DataOK, PauseOK,
          Writing, Ending, job, dev, shared, sync, thread, printer
  <1>0. CASE UNCHANGED vars
    BY <1>0 DEF vars
  <1>1. CASE NullJob
    BY <1>1 DEF NullJob
  <1>2. CASE OpenDevice
    BY <1>2 DEF OpenDevice
  <1>3. CASE OpenChannel
    BY <1>3 DEF OpenChannel
  <1>4. CASE StartThread
    BY <1>4 DEF StartThread
  <1>5. CASE BeginWrite
    BY <1>5 DEF BeginWrite
  <1>6. CASE EndWrite
    BY <1>6 DEF EndWrite, ThreadRan
  <1>7. CASE LoopTest
    BY <1>7 DEF LoopTest, Status
  <1>8. CASE EndOfData
    BY <1>8 DEF EndOfData, HasThread
  <1>9. CASE AskJobEnd
    BY <1>9 DEF AskJobEnd
  <1>10. CASE PollJobEnd
    BY <1>10 DEF PollJobEnd
  <1>11. CASE StatusOff
    BY <1>11 DEF StatusOff
  <1>12. CASE Abort
    BY <1>12 DEF Abort, HasThread, Checked
  <1>13. CASE CondWait
    BY <1>13 DEF CondWait
  <1>14. CASE WakeUp
    BY <1>14 DEF WakeUp, Return, Checked
  <1>15. CASE Kill
    BY <1>15 DEF Kill
  <1>16. CASE Destroy
    BY <1>16 DEF Destroy
  <1>17. CASE CloseChannel
    BY <1>17 DEF CloseChannel
  <1>18. CASE CloseDevice
    BY <1>18 DEF CloseDevice
  <1>19. CASE Spurious
    BY <1>19 DEF Spurious, Return, Checked
  <1>20. CASE ThreadStart
    BY <1>20 DEF ThreadStart, At
  <1>21. CASE ThreadLoop
    BY <1>21 DEF ThreadLoop, At
  <1>22. CASE ThreadRead
    BY <1>22 DEF ThreadRead, At
  <1>23. CASE ThreadStore
    BY <1>23 DEF ThreadStore, At
  <1>24. CASE ThreadFail
    BY <1>24 DEF ThreadFail, At
  <1>25. CASE ThreadDone
    BY <1>25 DEF ThreadDone, At
  <1>26. CASE ThreadSignal
    BY <1>26 DEF ThreadSignal, At
  <1>27. CASE Die
    BY <1>27 DEF Die
  <1>28. CASE Trouble
    BY <1>28 DEF Trouble, Report
  <1>29. CASE Fix
    BY <1>29 DEF Fix, Report
  <1>30. CASE JobPrinted
    BY <1>30 DEF JobPrinted, Report
  <1> QED
    BY <1>0, <1>1, <1>2, <1>3, <1>4, <1>5, <1>6, <1>7, <1>8, <1>9, <1>10,
       <1>11, <1>12, <1>13, <1>14, <1>15, <1>16, <1>17, <1>18, <1>19, <1>20,
       <1>21, <1>22, <1>23, <1>24, <1>25, <1>26, <1>27, <1>28, <1>29, <1>30
       DEF Next, MainStep, ThreadStep

LEMMA LifeInit == Init => LifeOK
  BY DEF Init, LifeOK, Reading

LEMMA LifeNext ==
  ASSUME ThreadFirst, Inv1, LifeOK, [Next]_vars
  PROVE  LifeOK'
  <1> USE ConstantsAssumption DEF ConstantsAssumption, Inv1, DataOK, LifeOK,
          Reading, Writing, Ending, job, dev, shared, sync, thread, printer
  <1>0. CASE UNCHANGED vars
    BY <1>0 DEF vars
  <1>1. CASE NullJob
    BY <1>1 DEF NullJob
  <1>2. CASE OpenDevice
    BY <1>2 DEF OpenDevice
  <1>3. CASE OpenChannel
    BY <1>3 DEF OpenChannel
  <1>4. CASE StartThread
    BY <1>4 DEF StartThread
  <1>5. CASE BeginWrite
    BY <1>5 DEF BeginWrite
  <1>6. CASE EndWrite
    BY <1>6 DEF EndWrite, ThreadRan
  <1>7. CASE LoopTest
    BY <1>7 DEF LoopTest, Status
  <1>8. CASE EndOfData
    BY <1>8 DEF EndOfData, HasThread
  <1>9. CASE AskJobEnd
    BY <1>9 DEF AskJobEnd
  <1>10. CASE PollJobEnd
    BY <1>10 DEF PollJobEnd
  <1>11. CASE StatusOff
    BY <1>11 DEF StatusOff
  <1>12. CASE Abort
    BY <1>12 DEF Abort, HasThread, Checked
  <1>13. CASE CondWait
    BY <1>13 DEF CondWait
  <1>14. CASE WakeUp
    BY <1>14 DEF WakeUp, Return, Checked
  <1>15. CASE Kill
    BY <1>15 DEF Kill
  <1>16. CASE Destroy
    BY <1>16 DEF Destroy
  <1>17. CASE CloseChannel
    BY <1>17 DEF CloseChannel
  <1>18. CASE CloseDevice
    BY <1>18 DEF CloseDevice
  <1>19. CASE Spurious
    BY <1>19 DEF Spurious, Return, Checked
  <1>20. CASE ThreadStart
    BY <1>20 DEF ThreadStart, At
  <1>21. CASE ThreadLoop
    BY <1>21 DEF ThreadLoop, At
  <1>22. CASE ThreadRead
    BY <1>22 DEF ThreadRead, At
  <1>23. CASE ThreadStore
    BY <1>23 DEF ThreadStore, At
  <1>24. CASE ThreadFail
    BY <1>24 DEF ThreadFail, At
  <1>25. CASE ThreadDone
    BY <1>25 DEF ThreadDone, At
  <1>26. CASE ThreadSignal
    BY <1>26 DEF ThreadSignal, At
  <1>27. CASE Die
    BY <1>27 DEF Die
  <1>28. CASE Trouble
    BY <1>28 DEF Trouble, Report
  <1>29. CASE Fix
    BY <1>29 DEF Fix, Report
  <1>30. CASE JobPrinted
    BY <1>30 DEF JobPrinted, Report
  <1> QED
    BY <1>0, <1>1, <1>2, <1>3, <1>4, <1>5, <1>6, <1>7, <1>8, <1>9, <1>10,
       <1>11, <1>12, <1>13, <1>14, <1>15, <1>16, <1>17, <1>18, <1>19, <1>20,
       <1>21, <1>22, <1>23, <1>24, <1>25, <1>26, <1>27, <1>28, <1>29, <1>30
       DEF Next, MainStep, ThreadStep

-----------------------------------------------------------------------------
(* The variables of main, of pjl_read_thread and of what they share keep   *)
(* their types; the job end loop makes no more than MaxPolls polls.        *)
THEOREM TypeCorrect == Spec => []TypeOK
  <1>1. Init => FlagsOK /\ Inv1
    BY FlagsInit, Inv1Init
  <1>2. FlagsOK /\ Inv1 /\ [Next]_vars => (FlagsOK /\ Inv1)'
    BY FlagsNext, Inv1Next
  <1>3. FlagsOK /\ Inv1 => TypeOK
    BY DEF Inv1, TypeOK
  <1> QED
    BY <1>1, <1>2, <1>3, PTL DEF Spec

(* The backend reports a job as printed only if all of it was written,     *)
(* whatever the writes and the status of the printer were.                 *)
THEOREM SentInFull == Spec => []OkMeansSent
  <1>1. Init => Inv1 /\ SentOK
    BY Inv1Init, SentInit
  <1>2. Inv1 /\ SentOK /\ [Next]_vars => (Inv1 /\ SentOK)'
    BY Inv1Next, SentNext
  <1>3. SentOK => OkMeansSent
    BY DEF SentOK, OkMeansSent
  <1> QED
    BY <1>1, <1>2, <1>3, PTL DEF Spec

(* After pjl_read_thread has stored an error, main begins at most one more *)
(* write, however often the printer changes its condition.                 *)
THEOREM Pauses == Spec => []PausesOnError
  <1>1. Init => Inv1 /\ PauseOK
    BY Inv1Init, PauseInit
  <1>2. Inv1 /\ PauseOK /\ [Next]_vars => (Inv1 /\ PauseOK)'
    BY Inv1Next, PauseNext
  <1>3. PauseOK => PausesOnError
    BY DEF PauseOK, PausesOnError
  <1> QED
    BY <1>1, <1>2, <1>3, PTL DEF Spec

LEMMA LifeAlways == ThreadFirst => (Spec => [](Inv1 /\ LifeOK))
  <1> SUFFICES ASSUME ThreadFirst PROVE Spec => [](Inv1 /\ LifeOK)
    OBVIOUS
  <1>1. Init => Inv1 /\ LifeOK
    BY Inv1Init, LifeInit
  <1>2. Inv1 /\ LifeOK /\ [Next]_vars => (Inv1 /\ LifeOK)'
    BY Inv1Next, LifeNext
  <1> QED
    BY <1>1, <1>2, PTL DEF Spec

(* bugout closes the channel and destroys the mutex only after             *)
(* pjl_read_thread has made its last use of them to read and to store.     *)
THEOREM WithinLife ==
  ASSUME ThreadFirst
  PROVE  Spec => []ThreadWithinLife
  <1>1. LifeOK => ThreadWithinLife
    BY DEF LifeOK, ThreadWithinLife, Reading
  <1> QED
    BY <1>1, LifeAlways, PTL

=============================================================================
