--------------------------- MODULE PrintPath_proofs ---------------------------
(***************************************************************************)
(* Proofs about the two ends of the path of a print job: RawWrite, the     *)
(* writes to the device, and RasterPage, the rows in the print filter.     *)
(*                                                                         *)
(* For any number of threads, buffers, openings and any buffer size, a     *)
(* client that sends again what it was not told was written has its job    *)
(* printed once and in order.  A killed thread is assumed to be gone       *)
(* before the channel is opened again (Prompt): the code does not wait for *)
(* it.                                                                     *)
(*                                                                         *)
(* For any rows, any jobs, any size of the command buffer and any interval *)
(* between restarts of raster graphics, the rows lie on paper where the    *)
(* raster has them, each as it was given.                                  *)
(***************************************************************************)
EXTENDS RawWrite, RasterPage, FoldLemmas

-----------------------------------------------------------------------------
(* RawWrite                                                                *)

Calling == pc \in {"write", "wait", "short"}

(* The bytes of the job the client knows to be written.                    *)
Known == (item - 1) * Size + (IF Calling THEN total ELSE 0)

CallInv ==
    /\ Calling => item <= Items /\ total < Size /\ size = Size - total
    /\ pc = "wait" => write_active
    /\ hd <=> pc # "closed"
    /\ pc = "closed" => ~write_active

(* There is one thread at a time, that of the active write; it outlives    *)
(* the opening of the channel only once it is killed.                      *)
ThreadInv ==
    \A t \in Threads :
        /\ Live(t) => /\ t = tid /\ write_buf # NULL
                      /\ th[t].killed <=> pc = "closed"
                      /\ ~th[t].killed => write_active
        /\ th[t].cnt <= th[t].size
        /\ th[t].st \in {"none", "start"} => th[t].cnt = 0
        /\ th[t].st = "done" => write_return = th[t].cnt \/ (write_return < 0 /\ th[t].cnt = 0)

(* What the last thread wrote, if it had an endpoint.                      *)
Wrote == IF write_return < 0 THEN 0 ELSE write_return

HasThread == tid \in Threads /\ Live(tid)

(* The write the client waits for, or will wait for, is that of the bytes  *)
(* after those it knows of, or one that never got a thread.                *)
WriteInv ==
    IF ~write_active THEN Len(received) = Known
    ELSE /\ Calling
         /\ write_buf = NULL => Len(received) = Known + Wrote /\ write_return <= size
         /\ write_buf # NULL /\ ~HasThread => Len(received) = Known
         /\ write_buf # NULL /\ HasThread =>
               /\ write_buf = Known + 1 /\ write_size = size
               /\ Len(received) = Known + th[tid].cnt
               /\ th[tid].st = "transfer" => th[tid].buf = Known + 1 /\ th[tid].size = size
               /\ th[tid].st = "done" => write_return <= size

InOrder(s) == \A i \in 1..Len(s) : s[i] = i

JobInv ==
    /\ InOrder(received) /\ InOrder(acked) /\ Len(acked) <= Len(received)
    /\ pc # "closed" => Len(acked) = Known /\ WriteInv

IInv == TypeOK /\ CallInv /\ ThreadInv /\ (~movedOn => JobInv)

-----------------------------------------------------------------------------
(* Arithmetic: the bytes of a buffer are bytes of the job.                 *)
ThreadState ==
    [st : {"none", "start", "transfer", "done"}, killed : BOOLEAN, buf : Job \cup {NULL},
     size : 0..Size, cnt : 0..Size, open : 0..MaxOpens]

LEMMA Product ==
    ASSUME NEW i \in Nat, NEW n \in Nat, NEW z \in Nat, i <= n
    PROVE  i * z <= n * z /\ i * z \in Nat /\ (i - 1) * z + z = i * z
  <1>1. (n - i) * z >= 0 /\ (n - i) * z = n * z - i * z
    BY SMTT(30)
  <1> QED
    BY <1>1, SMTT(30)

LEMMA OffsetOfCall ==
    ASSUME TypeOK, CallInv, Calling
    PROVE  /\ Offset = Known /\ Offset \in Nat /\ size \in 1..Size /\ total \in 0..Size
           /\ Offset + size <= Items * Size /\ Items * Size \in Nat
           /\ item * Size = Offset + size
  <1> DEFINE a == (item - 1) * Size
             b == item * Size
             c == Items * Size
  <1>1. /\ item \in Nat \ {0} /\ item <= Items /\ Items \in Nat /\ Size \in Nat \ {0}
        /\ total \in 0..Size /\ total < Size /\ size = Size - total
    BY ConstantsAssumption DEF TypeOK, CallInv
  <1>2. a + Size = b /\ b <= c /\ b \in Nat /\ c \in Nat
    <2>1. b <= c /\ b \in Nat /\ a + Size = b
      <3>1. item \in Nat /\ Items \in Nat /\ Size \in Nat /\ item <= Items
        BY <1>1
      <3> QED
        BY <3>1, Product, Zenon
    <2>2. c \in Nat
      BY <1>1, Product
    <2> QED
      BY <2>1, <2>2
  <1>3. a \in Nat
    <2>1. item - 1 \in Nat /\ item - 1 <= Items
      BY <1>1
    <2> QED
      BY <1>1, <2>1, Product
  <1>4. Offset = a + total /\ Known = a + total
    BY DEF Offset, Known
  <1> HIDE DEF a, b, c
  <1>5. /\ Offset = Known /\ Offset \in Nat /\ size \in 1..Size /\ total \in 0..Size
        /\ Offset + size <= c /\ c \in Nat /\ b = Offset + size
    BY <1>1, <1>2, <1>3, <1>4
  <1> QED
    BY <1>5 DEF b, c

LEMMA KnownIsNat == TypeOK => Known \in Nat
  <1> SUFFICES ASSUME TypeOK PROVE Known \in Nat
    OBVIOUS
  <1>1. item - 1 \in Nat /\ Size \in Nat /\ total \in Nat
    BY ConstantsAssumption DEF TypeOK
  <1>2. (item - 1) * Size \in Nat
    BY <1>1, Product
  <1> QED
    BY <1>1, <1>2 DEF Known

-----------------------------------------------------------------------------
(* The invariant holds at first, and implies the properties.               *)
LEMMA InvInit == Init => IInv
  <1> SUFFICES ASSUME Init PROVE IInv
    OBVIOUS
  <1>1. TypeOK
    <2>1. Size \in Nat \ {0} /\ Items \in Nat \ {0} /\ MaxOpens \in Nat \ {0}
      BY ConstantsAssumption
    <2>2. th \in [Threads -> ThreadState]
      BY <2>1 DEF Init, Idle, ThreadState, NULL
    <2>3. /\ item \in 1..Items + 1 /\ total \in 0..2 * Size /\ size \in -Size..Size
          /\ write_size \in 0..Size /\ write_return \in NOTCONN..Size /\ opens \in 0..MaxOpens
      BY <2>1 DEF Init, NOTCONN
    <2>4. received \in Seq(Nat) /\ acked \in Seq(Job)
      BY EmptySeq DEF Init
    <2>5. hd \in BOOLEAN /\ write_active \in BOOLEAN /\ up \in BOOLEAN /\ movedOn \in BOOLEAN
      BY Zenon DEF Init
    <2> QED
      BY <2>2, <2>3, <2>4, <2>5 DEF Init, TypeOK, ThreadState
  <1>2. CallInv /\ ThreadInv
    BY DEF Init, CallInv, ThreadInv, Calling, Live, Idle
  <1>3. JobInv
    BY DEF Init, JobInv, InOrder
  <1> QED
    BY <1>1, <1>2, <1>3 DEF IInv

LEMMA InvProperties == IInv => TypeOK /\ AckedWasSent /\ JobInOrder
  <1> SUFFICES ASSUME IInv PROVE TypeOK /\ AckedWasSent /\ JobInOrder
    OBVIOUS
  <1>1. TypeOK
    BY DEF IInv
  <1>2. Len(received) \in Nat /\ Len(acked) \in Nat
    BY <1>1, LenProperties DEF TypeOK
  <1>3. ~movedOn => ToldIsSent
    BY <1>2 DEF IInv, JobInv, InOrder, ToldIsSent
  <1>4. JobInOrder
    BY DEF IInv, JobInv, InOrder, JobInOrder
  <1> QED
    BY <1>1, <1>3, <1>4 DEF AckedWasSent

-----------------------------------------------------------------------------
(* While the channel is open and no write is active, no thread lives.      *)
LEMMA NoneLives ==
    ASSUME IInv, pc # "closed", ~write_active \/ write_buf = NULL, NEW t \in Threads
    PROVE  ~Live(t)
  BY DEF IInv, ThreadInv

(* The steps of the client between its calls.                              *)
LEMMA OpenStep ==
    ASSUME IInv, Prompt, Open
    PROVE  IInv'
  <1> USE DEF Open
  <1>1. \A t \in Threads : ~Live(t)
    OBVIOUS
  <1>2. TypeOK'
    <2>1. Size \in Nat \ {0} /\ Items \in Nat \ {0} /\ MaxOpens \in Nat
      BY ConstantsAssumption
    <2>2. /\ item' \in 1..Items + 1 /\ total' \in 0..2 * Size /\ size' \in -Size..Size
          /\ opens' \in 0..MaxOpens
      BY <2>1 DEF IInv, TypeOK
    <2>3. received' \in Seq(Nat) /\ acked' \in Seq(Job)
      BY EmptySeq
    <2> QED
      BY <2>2, <2>3 DEF IInv, TypeOK
  <1>3. CallInv'
    BY DEF CallInv, Calling
  <1>4. ThreadInv'
    BY <1>1 DEF IInv, ThreadInv, Live
  <1>5. JobInv'
    <2>1. Known' = 0
      BY ConstantsAssumption DEF Known, Calling
    <2>2. Len(received') = 0 /\ Len(acked') = 0
      OBVIOUS
    <2> QED
      BY <2>1, <2>2 DEF JobInv, WriteInv, InOrder
  <1> QED
    BY <1>2, <1>3, <1>4, <1>5 DEF IInv

LEMMA StartWriteStep ==
    ASSUME IInv, StartWrite
    PROVE  IInv'
  <1> USE DEF StartWrite, fdw
  <1>1. Size \in Nat \ {0} /\ Items \in Nat \ {0} /\ item \in Nat
    BY ConstantsAssumption DEF IInv, TypeOK
  <1>2. TypeOK'
    <2>1. total' \in 0..2 * Size /\ size' \in -Size..Size
      BY <1>1
    <2> QED
      BY <2>1 DEF IInv, TypeOK
  <1>3. CallInv'
    BY <1>1 DEF IInv, CallInv, Calling
  <1>4. ThreadInv'
    BY DEF IInv, ThreadInv, Live
  <1>5. ASSUME ~movedOn'
        PROVE  JobInv'
    <2>1. Known' = Known
      BY DEF Known, Calling
    <2>2. JobInv /\ ~write_active
      BY <1>5 DEF IInv, JobInv, WriteInv, Calling
    <2> QED
      BY <2>1, <2>2 DEF JobInv, WriteInv
  <1> QED
    BY <1>2, <1>3, <1>4, <1>5 DEF IInv

LEMMA RetryStep ==
    ASSUME IInv, Retry
    PROVE  IInv'
  <1> USE DEF Retry, fdw
  <1>1. TypeOK'
    BY DEF IInv, TypeOK
  <1>2. CallInv' /\ ThreadInv'
    BY DEF IInv, CallInv, ThreadInv, Calling, Live
  <1>3. ASSUME ~movedOn'
        PROVE  JobInv'
    <2>1. Known' = Known /\ Calling /\ Calling'
      BY DEF Known, Calling
    <2> QED
      BY <1>3, <2>1 DEF IInv, JobInv, WriteInv, Wrote, HasThread, Live
  <1> QED
    BY <1>1, <1>2, <1>3 DEF IInv

LEMMA SkipStep ==
    ASSUME IInv, Skip
    PROVE  IInv'
  <1> USE DEF Skip, fdw
  <1>1. Items \in Nat \ {0} /\ item \in 1..Items
    BY ConstantsAssumption DEF IInv, TypeOK, CallInv, Calling
  <1>2. item' \in 1..Items + 1
    BY <1>1
  <1>3. TypeOK'
    BY <1>2 DEF IInv, TypeOK
  <1>4. CallInv' /\ ThreadInv'
    BY DEF IInv, CallInv, ThreadInv, Calling, Live
  <1> QED
    BY <1>3, <1>4 DEF IInv

LEMMA CloseStep ==
    ASSUME IInv, Close
    PROVE  IInv'
  <1> USE DEF Close
  <1>1. \A t \in Threads :
           th'[t] = IF Live(t) THEN [th[t] EXCEPT !.killed = TRUE] ELSE th[t]
    <2>1. CASE write_active
      BY <2>1 DEF IInv, ThreadInv
    <2>2. CASE ~write_active
      BY <2>2, NoneLives
    <2> QED
      BY <2>1, <2>2
  <1>2. th' \in [Threads -> ThreadState]
    <2>1. th \in [Threads -> ThreadState]
      BY DEF IInv, TypeOK, ThreadState
    <2>2. th' = [t \in Threads |-> th'[t]]
      <3>1. CASE write_active
        BY <3>1, Zenon
      <3>2. CASE ~write_active
        BY <2>1, <3>2
      <3> QED
        BY <3>1, <3>2
    <2>3. ASSUME NEW t \in Threads
          PROVE  th'[t] \in ThreadState
      <3> DEFINE x == th[t]
      <3>1. x \in ThreadState /\ th'[t] = IF Live(t) THEN [x EXCEPT !.killed = TRUE] ELSE x
        BY <1>1, <2>1
      <3> HIDE DEF x
      <3> QED
        BY <3>1 DEF ThreadState
    <2> QED
      BY <2>2, <2>3
  <1>3. TypeOK'
    BY <1>2 DEF IInv, TypeOK, ThreadState
  <1>4. CallInv'
    BY DEF IInv, CallInv, Calling
  <1>5. \A t \in Threads :
           /\ th'[t].st = th[t].st /\ th'[t].cnt = th[t].cnt /\ th'[t].size = th[t].size
           /\ Live(t) => th'[t].killed
    BY <1>1 DEF IInv, TypeOK
  <1>6. ThreadInv'
    BY <1>5 DEF IInv, ThreadInv, Live
  <1>7. ~movedOn' => JobInv'
    BY DEF IInv, JobInv
  <1> QED
    BY <1>3, <1>4, <1>6, <1>7 DEF IInv

-----------------------------------------------------------------------------
(* The steps of a call of musb_write.                                      *)
LEMMA KickStep ==
    ASSUME IInv, Kick
    PROVE  IInv'
  <1>1. PICK t \in Threads :
           /\ ~Live(t) /\ tid' = t
           /\ th' = [th EXCEPT ![t] = [Idle EXCEPT !.st = "start", !.open = opens]]
    BY DEF Kick
  <1>2. /\ pc = "write" /\ ~write_active /\ pc' = "wait" /\ write_active'
        /\ write_buf' = Offset + 1 /\ write_size' = size
        /\ UNCHANGED <<item, total, size, hd, write_return, up, received, acked, opens, movedOn>>
    BY DEF Kick
  <1>3. /\ th'[t].st = "start" /\ th'[t].cnt = 0 /\ th'[t].size = 0 /\ th'[t].killed = FALSE
        /\ th'[t] \in ThreadState /\ \A u \in Threads \ {t} : th'[u] = th[u]
        /\ th' \in [Threads -> ThreadState]
    <2> DEFINE x == th'[t]
    <2>1. th \in [Threads -> ThreadState] /\ opens \in 0..MaxOpens
      BY DEF IInv, TypeOK, ThreadState
    <2>2. /\ th' = [u \in Threads |-> th'[u]] /\ \A u \in Threads \ {t} : th'[u] = th[u]
          /\ x = [Idle EXCEPT !.st = "start", !.open = opens]
      BY <1>1, <2>1, Zenon
    <2> HIDE DEF x
    <2>3. x = [st |-> "start", killed |-> FALSE, buf |-> NULL, size |-> 0, cnt |-> 0, open |-> opens]
      BY <2>2 DEF Idle
    <2>4. /\ x \in ThreadState
          /\ x.st = "start" /\ x.cnt = 0 /\ x.size = 0 /\ x.killed = FALSE
      BY <2>1, <2>3, ConstantsAssumption DEF ThreadState
    <2>5. \A u \in Threads : th'[u] \in ThreadState
      BY <2>1, <2>2, <2>4 DEF x
    <2> QED
      BY <2>2, <2>4, <2>5 DEF x
  <1>4. /\ Offset = Known /\ Offset \in Nat /\ size \in 1..Size
        /\ Offset + size <= Items * Size /\ Items * Size \in Nat
    BY <1>2, OffsetOfCall DEF IInv, Calling
  <1>6. TypeOK'
    <2>1. write_buf' \in Job /\ write_size' \in 0..Size
      BY <1>2, <1>4, ConstantsAssumption DEF Job
    <2> QED
      BY <1>1, <1>2, <1>3, <2>1 DEF IInv, TypeOK, ThreadState
  <1>8. CallInv'
    BY <1>2 DEF IInv, CallInv, Calling
  <1>9. ThreadInv'
    <2>1. \A u \in Threads : ~Live(u)
      BY <1>2, NoneLives
    <2>2. write_buf' # NULL
      BY <1>2, <1>4 DEF NULL
    <2>3. ASSUME NEW u \in Threads, u # t
          PROVE  /\ ~(Live(u)') /\ th'[u].cnt <= th'[u].size
                 /\ th'[u].st \in {"none", "start"} => th'[u].cnt = 0
                 /\ th'[u].st # "done"
      BY <1>3, <2>1, <2>3 DEF IInv, ThreadInv, Live
    <2>4. /\ th'[t].cnt = 0 /\ th'[t].size = 0 /\ th'[t].st = "start" /\ ~th'[t].killed
          /\ tid' = t /\ pc' # "closed" /\ write_active'
      BY <1>1, <1>2, <1>3
    <2> QED
      BY <2>2, <2>3, <2>4 DEF ThreadInv
  <1>10. ASSUME ~movedOn'
         PROVE  JobInv'
    <2>1. Known' = Known /\ Calling'
      BY <1>2 DEF Known, Calling
    <2>2. JobInv /\ Len(received) = Known
      BY <1>2, <1>10 DEF IInv, JobInv, WriteInv
    <2>3. /\ th'[t].st = "start" /\ th'[t].cnt = 0 /\ tid' = t
          /\ write_buf' = Known + 1 /\ write_buf' # NULL
      BY <1>1, <1>2, <1>3, <1>4 DEF NULL
    <2>4. WriteInv'
      BY <1>2, <1>4, <2>1, <2>2, <2>3 DEF WriteInv, Wrote, HasThread, Live
    <2> QED
      BY <1>2, <2>1, <2>2, <2>4 DEF JobInv, InOrder
  <1> QED
    BY <1>6, <1>8, <1>9, <1>10 DEF IInv

LEMMA KickFailsStep ==
    ASSUME IInv, KickFails
    PROVE  IInv'
  <1> USE DEF KickFails
  <1>1. /\ Offset \in Nat /\ size \in 1..Size
        /\ Offset + size <= Items * Size /\ Items * Size \in Nat
    BY OffsetOfCall DEF IInv, Calling
  <1>2. TypeOK'
    <2>1. write_buf' \in Job /\ write_size' \in 0..Size
      BY <1>1, ConstantsAssumption DEF Job
    <2> QED
      BY <2>1 DEF IInv, TypeOK
  <1>3. CallInv'
    BY DEF IInv, CallInv, Calling
  <1>4. \A t \in Threads : ~Live(t)
    BY NoneLives
  <1>5. ThreadInv'
    BY <1>4 DEF IInv, ThreadInv, Live
  <1>6. ASSUME ~movedOn'
        PROVE  JobInv'
    <2>1. Known' = Known /\ Calling'
      BY DEF Known, Calling
    <2>2. JobInv /\ Len(received) = Known /\ ~HasThread'
      BY <1>4, <1>6 DEF IInv, JobInv, WriteInv, HasThread, Live
    <2>3. WriteInv'
      BY <1>1, <2>1, <2>2 DEF WriteInv, NULL
    <2> QED
      BY <2>1, <2>2, <2>3 DEF JobInv, InOrder
  <1> QED
    BY <1>2, <1>3, <1>5, <1>6 DEF IInv

(* Joining a write and giving up waiting change nothing but the client.    *)
LEMMA WaitStep ==
    ASSUME IInv, Join \/ Timeout
    PROVE  IInv'
  <1>1. /\ pc \in {"write", "wait"} /\ pc' \in {"wait", "short"} /\ write_active
        /\ UNCHANGED <<item, total, size, hd, fdw, th, up, received, acked, opens, movedOn>>
    BY DEF Join, Timeout, IInv, CallInv
  <1> USE DEF fdw
  <1>2. TypeOK'
    BY <1>1 DEF IInv, TypeOK
  <1>3. CallInv' /\ ThreadInv'
    BY <1>1 DEF IInv, CallInv, ThreadInv, Calling, Live
  <1>4. ASSUME ~movedOn'
        PROVE  JobInv'
    <2>1. Known' = Known /\ Calling /\ Calling'
      BY <1>1 DEF Known, Calling
    <2> QED
      BY <1>1, <1>4, <2>1 DEF IInv, JobInv, WriteInv, Wrote, HasThread, Live
  <1> QED
    BY <1>2, <1>3, <1>4 DEF IInv

LEMMA WakeStep ==
    ASSUME IInv, Wake
    PROVE  IInv'
  <1> DEFINE told == IF write_return > size THEN size ELSE write_return
             w == [i \in 1..told |-> Offset + i]
  <1>1. /\ pc = "wait" /\ write_buf = NULL /\ write_return >= 0 /\ write_active' = FALSE
        /\ total' = total + write_return /\ size' = size - write_return
        /\ acked' = acked \o w
        /\ UNCHANGED <<hd, write_buf, write_size, write_return, tid, th, up, received, opens, movedOn>>
    BY DEF Wake
  <1>2. \/ size' > 0 /\ pc' = "write" /\ item' = item
        \/ size' <= 0 /\ pc' = "ready" /\ item' = item + 1
    BY DEF Wake
  <1>3. /\ Offset = Known /\ Offset \in Nat /\ size \in 1..Size /\ total \in 0..Size
        /\ Offset + size <= Items * Size /\ Items * Size \in Nat /\ item * Size = Offset + size
    BY <1>1, OffsetOfCall DEF IInv, Calling
  <1>4. /\ write_return \in 0..Size /\ Size \in Nat \ {0} /\ Items \in Nat \ {0}
        /\ item \in 1..Items /\ size = Size - total /\ total < Size
    BY <1>1, ConstantsAssumption DEF IInv, TypeOK, CallInv, Calling, NOTCONN
  <1>5. told \in Nat /\ told <= size
    BY <1>3, <1>4
  <1> HIDE DEF told
  <1>6. /\ w \in Seq(Job) /\ Len(w) = told
        /\ \A i \in 1..told : w[i] = Offset + i
    <2>1. \A i \in 1..told : Offset + i \in Job
      BY <1>3, <1>5 DEF Job
    <2>2. w \in [1..told -> Job]
      BY <2>1
    <2> QED
      BY <1>5, <2>2, SeqDef, LenProperties
  <1> HIDE DEF w
  <1>7. /\ acked' \in Seq(Job) /\ Len(acked') = Len(acked) + told
        /\ \A i \in 1..Len(acked) + told :
              acked'[i] = IF i <= Len(acked) THEN acked[i] ELSE w[i - Len(acked)]
    <2>1. acked \in Seq(Job)
      BY DEF IInv, TypeOK
    <2> QED
      BY <1>1, <1>6, <2>1, ConcatProperties
  <1>8. TypeOK'
    <2>1. total' \in 0..2 * Size /\ size' \in -Size..Size /\ item' \in 1..Items + 1
      BY <1>1, <1>2, <1>3, <1>4
    <2>2. pc' \in {"closed", "ready", "write", "wait", "short"}
      BY <1>2
    <2> QED
      BY <1>1, <1>7, <2>1, <2>2 DEF IInv, TypeOK
  <1>9. CallInv'
    BY <1>1, <1>2, <1>3, <1>4 DEF IInv, CallInv, Calling
  <1>10. ThreadInv'
    <2>1. \A t \in Threads : ~Live(t)
      BY <1>1, NoneLives
    <2> QED
      BY <1>1, <2>1 DEF IInv, ThreadInv, Live
  <1>11. ASSUME ~movedOn'
         PROVE  JobInv'
    <2>1. JobInv /\ write_active
      BY <1>1, <1>11 DEF IInv, CallInv
    <2>2. /\ Len(acked) = Known /\ Len(received) = Known + write_return /\ write_return <= size
          /\ Known \in Nat
      BY <1>1, <1>3, <1>4, <2>1 DEF JobInv, WriteInv, Wrote
    <2>3. told = write_return
      BY <1>3, <1>4, <2>2 DEF told
    <2>4. Known' = Known + write_return
      <3>1. Known = (item - 1) * Size + total
        BY <1>1 DEF Known, Calling
      <3>2. CASE size' > 0
        BY <1>1, <1>2, <1>3, <1>4, <3>1, <3>2 DEF Known, Calling
      <3>3. CASE size' <= 0
        <4>1. write_return = size /\ item' = item + 1 /\ ~Calling'
          BY <1>1, <1>2, <1>3, <1>4, <2>2, <3>3 DEF Calling
        <4>2. Known' = item * Size
          BY <1>4, <4>1 DEF Known
        <4> QED
          BY <1>3, <4>1, <4>2
      <3> QED
        BY <1>2, <3>2, <3>3
    <2>5. InOrder(acked')
      <3> SUFFICES ASSUME NEW i \in 1..Len(acked')
                   PROVE  acked'[i] = i
        BY DEF InOrder
      <3>1. CASE i <= Len(acked)
        BY <1>5, <1>7, <2>1, <2>2, <3>1 DEF JobInv, InOrder
      <3>2. CASE i > Len(acked)
        <4>1. i - Len(acked) \in 1..told /\ i \in 1..Len(acked) + told /\ ~(i <= Len(acked))
          BY <1>5, <1>7, <2>2, <3>2
        <4>2. acked'[i] = Offset + (i - Len(acked))
          BY <1>6, <1>7, <4>1
        <4> QED
          BY <1>3, <2>2, <4>1, <4>2
      <3> QED
        BY <1>5, <1>7, <2>2, <3>1, <3>2
    <2>6. /\ Len(acked') = Known' /\ Len(received') = Known' /\ Len(acked') <= Len(received')
          /\ InOrder(received')
      BY <1>1, <1>7, <2>1, <2>2, <2>3, <2>4 DEF JobInv, InOrder
    <2> QED
      BY <1>1, <2>5, <2>6 DEF JobInv, WriteInv, InOrder
  <1> QED
    BY <1>8, <1>9, <1>10, <1>11 DEF IInv

LEMMA WakeErrorStep ==
    ASSUME IInv, WakeError
    PROVE  IInv'
  <1> USE DEF WakeError
  <1>1. TypeOK'
    BY DEF IInv, TypeOK
  <1>2. CallInv'
    BY DEF IInv, CallInv, Calling
  <1>3. ThreadInv'
    <2>1. \A t \in Threads : ~Live(t)
      BY NoneLives DEF IInv, CallInv
    <2> QED
      BY <2>1 DEF IInv, ThreadInv, Live
  <1>4. ASSUME ~movedOn'
        PROVE  JobInv'
    <2>1. Known' = Known /\ Known \in Nat
      BY KnownIsNat DEF Known, Calling, IInv
    <2>2. JobInv /\ write_active
      BY <1>4 DEF IInv, CallInv
    <2>3. Len(received) = Known
      BY <2>1, <2>2 DEF JobInv, WriteInv, Wrote
    <2> QED
      BY <2>1, <2>2, <2>3 DEF JobInv, WriteInv, InOrder
  <1> QED
    BY <1>1, <1>2, <1>3, <1>4 DEF IInv

-----------------------------------------------------------------------------
(* The steps of the thread.                                                *)

(* A thread that lives is that of the active write, or killed.             *)
LEMMA LivesAs ==
    ASSUME IInv, NEW t \in Threads, Live(t)
    PROVE  /\ t = tid /\ write_buf # NULL /\ th[t] \in ThreadState
           /\ \A u \in Threads \ {t} : ~Live(u)
           /\ pc # "closed" => write_active /\ ~th[t].killed
           /\ pc = "closed" => th[t].killed
  BY DEF IInv, ThreadInv, TypeOK, ThreadState

LEMMA ThreadStartStep ==
    ASSUME IInv, NEW t \in Threads, ThreadStart(t)
    PROVE  IInv'
  <1> USE DEF fdw, client
  <1>1. /\ th[t].st = "start" /\ Live(t)
        /\ UNCHANGED <<client, hd, fdw, up, received, acked, opens, movedOn>>
        /\ th' = [th EXCEPT ![t].st = "transfer", ![t].buf = write_buf, ![t].size = write_size]
    BY DEF ThreadStart, Live
  <1>2. /\ t = tid /\ write_buf # NULL /\ \A u \in Threads \ {t} : ~Live(u)
        /\ pc # "closed" => write_active /\ ~th[t].killed
        /\ pc = "closed" => th[t].killed
    BY <1>1, LivesAs
  <1>3. th \in [Threads -> ThreadState] /\ write_buf \in Job \cup {NULL} /\ write_size \in 0..Size
    BY DEF IInv, TypeOK, ThreadState
  <1>4. /\ th' = [u \in Threads |-> th'[u]] /\ \A u \in Threads \ {t} : th'[u] = th[u]
        /\ th'[t] = [th[t] EXCEPT !.st = "transfer", !.buf = write_buf, !.size = write_size]
    BY <1>1, <1>3, Zenon
  <1>5. /\ th'[t] \in ThreadState
        /\ th'[t].st = "transfer" /\ th'[t].cnt = th[t].cnt /\ th'[t].killed = th[t].killed
        /\ th'[t].buf = write_buf /\ th'[t].size = write_size
    <2> DEFINE y == th[t]
               x == th'[t]
    <2>1. y \in ThreadState
      BY <1>3
    <2>2. x = [y EXCEPT !.st = "transfer", !.buf = write_buf, !.size = write_size]
      BY <1>4
    <2> HIDE DEF x, y
    <2>3. x \in ThreadState /\ x.st = "transfer" /\ x.cnt = y.cnt /\ x.killed = y.killed
          /\ x.buf = write_buf /\ x.size = write_size
      BY <1>3, <2>1, <2>2 DEF ThreadState
    <2> QED
      BY <2>3 DEF x, y
  <1>6. TypeOK'
    <2>1. th' \in [Threads -> ThreadState]
      BY <1>3, <1>4, <1>5
    <2> QED
      BY <1>1, <2>1 DEF IInv, TypeOK, ThreadState
  <1>7. CallInv'
    BY <1>1 DEF IInv, CallInv, Calling
  <1>8. ThreadInv'
    <2>1. th[t].cnt = 0
      BY <1>1 DEF IInv, ThreadInv
    <2>2. 0 <= write_size
      BY <1>3, ConstantsAssumption
    <2>3. \A u \in Threads \ {t} :
             /\ ~Live(u)' /\ th'[u].cnt <= th'[u].size
             /\ th'[u].st \in {"none", "start"} => th'[u].cnt = 0
             /\ th'[u].st # "done"
      BY <1>2, <1>4 DEF IInv, ThreadInv, Live
    <2>4. /\ th'[t].cnt <= th'[t].size /\ th'[t].st = "transfer"
          /\ th'[t].killed <=> pc = "closed"
      BY <1>2, <1>5, <2>1, <2>2
    <2> QED
      BY <1>1, <1>2, <1>5, <2>3, <2>4 DEF ThreadInv
  <1>9. ASSUME ~movedOn'
        PROVE  JobInv'
    <2>1. Known' = Known /\ (Calling' <=> Calling)
      BY <1>1 DEF Known, Calling
    <2>2. JobInv
      BY <1>1, <1>9 DEF IInv
    <2>3. ASSUME pc' # "closed"
          PROVE  WriteInv'
      <3>1. WriteInv /\ write_active
        BY <1>1, <1>2, <2>2, <2>3 DEF JobInv
      <3> QED
        BY <1>1, <1>2, <1>5, <2>1, <3>1 DEF WriteInv, Wrote, HasThread, Live
    <2> QED
      BY <1>1, <2>1, <2>2, <2>3 DEF JobInv, InOrder
  <1> QED
    BY <1>6, <1>7, <1>8, <1>9 DEF IInv

LEMMA TransferStep ==
    ASSUME IInv, NEW t \in Threads, Transfer(t)
    PROVE  IInv'
  <1> USE DEF fdw, client
  <1>1. /\ th[t].st = "transfer" /\ Live(t) /\ th[t].cnt < th[t].size /\ hd
        /\ UNCHANGED <<client, hd, fdw, up, acked, opens, movedOn>>
        /\ received' = Append(received, th[t].buf + th[t].cnt)
        /\ th' = [th EXCEPT ![t].cnt = th[t].cnt + 1]
    BY DEF Transfer, Connected, Live
  <1>2. /\ t = tid /\ write_buf # NULL /\ \A u \in Threads \ {t} : ~Live(u)
        /\ pc # "closed" /\ write_active /\ ~th[t].killed
    BY <1>1, LivesAs DEF IInv, CallInv
  <1>3. th \in [Threads -> ThreadState]
    BY DEF IInv, TypeOK, ThreadState
  <1>4. /\ th' = [u \in Threads |-> th'[u]] /\ \A u \in Threads \ {t} : th'[u] = th[u]
        /\ th'[t] = [th[t] EXCEPT !.cnt = th[t].cnt + 1]
    BY <1>1, <1>3, Zenon
  <1>5. /\ th[t].cnt + 1 \in 0..Size /\ th[t].cnt \in Nat /\ th[t].size \in Nat
        /\ th[t].buf \in Nat /\ th[t].buf + th[t].cnt \in Nat
    <2>1. th[t] \in ThreadState /\ Size \in Nat
      BY <1>3, ConstantsAssumption
    <2>2. th[t].cnt \in 0..Size /\ th[t].size \in 0..Size /\ th[t].buf \in Job \cup {0}
      BY <2>1 DEF ThreadState, NULL
    <2>3. th[t].buf \in Nat
      BY <2>2 DEF Job
    <2> QED
      BY <1>1, <2>1, <2>2, <2>3
  <1>6. /\ th'[t] \in ThreadState
        /\ th'[t].st = "transfer" /\ th'[t].cnt = th[t].cnt + 1 /\ th'[t].killed = th[t].killed
        /\ th'[t].buf = th[t].buf /\ th'[t].size = th[t].size
    <2> DEFINE y == th[t]
               x == th'[t]
    <2>1. y \in ThreadState /\ y.cnt + 1 \in 0..Size /\ y.st = "transfer"
      BY <1>1, <1>3, <1>5
    <2>2. x = [y EXCEPT !.cnt = y.cnt + 1]
      BY <1>4
    <2> HIDE DEF x, y
    <2>3. x \in ThreadState /\ x.st = y.st /\ x.cnt = y.cnt + 1 /\ x.killed = y.killed
          /\ x.buf = y.buf /\ x.size = y.size
      BY <2>1, <2>2 DEF ThreadState
    <2> QED
      BY <2>1, <2>3 DEF x, y
  <1>7. /\ received' \in Seq(Nat) /\ Len(received') = Len(received) + 1
        /\ \A i \in 1..Len(received) : received'[i] = received[i]
        /\ received'[Len(received) + 1] = th[t].buf + th[t].cnt
        /\ Len(received) \in Nat /\ Len(acked) \in Nat
    <2>1. received \in Seq(Nat) /\ acked \in Seq(Job)
      BY DEF IInv, TypeOK
    <2> QED
      BY <1>1, <1>5, <2>1, AppendProperties, LenProperties
  <1>8. TypeOK'
    <2>1. th' \in [Threads -> ThreadState]
      BY <1>3, <1>4, <1>6
    <2> QED
      BY <1>1, <1>7, <2>1 DEF IInv, TypeOK, ThreadState
  <1>9. CallInv'
    BY <1>1 DEF IInv, CallInv, Calling
  <1>10. ThreadInv'
    BY <1>1, <1>2, <1>4, <1>5, <1>6 DEF IInv, ThreadInv, Live
  <1>11. ASSUME ~movedOn'
         PROVE  JobInv'
    <2>1. Known' = Known /\ (Calling' <=> Calling) /\ Known \in Nat
      BY <1>1, KnownIsNat DEF Known, Calling, IInv
    <2>2. JobInv /\ WriteInv
      BY <1>1, <1>2, <1>11 DEF IInv, JobInv
    <2>3. /\ Len(received) = Known + th[t].cnt /\ th[t].buf = Known + 1
          /\ write_buf = Known + 1 /\ write_size = size /\ th[t].size = size /\ Calling
      BY <1>1, <1>2, <2>2 DEF WriteInv, HasThread
    <2>4. InOrder(received')
      <3>1. received'[Len(received) + 1] = Len(received) + 1
        <4>1. th[t].buf + th[t].cnt = Len(received) + 1
          BY <1>5, <2>1, <2>3
        <4> QED
          BY <1>7, <4>1
      <3> QED
        BY <1>7, <2>2, <3>1 DEF JobInv, InOrder
    <2>5. Len(received') = Known + th'[t].cnt
      <3>1. Len(received') = Len(received) + 1 /\ th'[t].cnt = th[t].cnt + 1 /\ th[t].cnt \in Nat
        BY <1>5, <1>6, <1>7
      <3> QED
        BY <2>1, <2>3, <3>1
    <2>6. WriteInv'
      BY <1>1, <1>2, <1>6, <2>1, <2>3, <2>5 DEF WriteInv, Wrote, HasThread, Live
    <2> QED
      BY <1>1, <1>7, <2>1, <2>2, <2>4, <2>6 DEF JobInv, InOrder
  <1> QED
    BY <1>8, <1>9, <1>10, <1>11 DEF IInv

(* A transfer is over, whatever was sent of it, or there was no endpoint.  *)
LEMMA DoneStep ==
    ASSUME IInv, NEW t \in Threads, TransferEnds(t) \/ TransferFails(t) \/ NoEndpoint(t)
    PROVE  IInv'
  <1> USE DEF client
  <1>1. /\ Live(t)
        /\ UNCHANGED <<client, hd, write_active, write_buf, write_size, tid, up, received,
                       acked, opens, movedOn>>
        /\ th' = [th EXCEPT ![t].st = "done"]
        /\ \/ th[t].st = "transfer" /\ write_return' = th[t].cnt
           \/ th[t].st = "start" /\ write_return' = NOTCONN
    BY DEF TransferEnds, TransferFails, NoEndpoint, Live
  <1>2. /\ t = tid /\ write_buf # NULL /\ \A u \in Threads \ {t} : ~Live(u)
        /\ pc # "closed" => write_active /\ ~th[t].killed
        /\ pc = "closed" => th[t].killed
    BY <1>1, LivesAs
  <1>3. th \in [Threads -> ThreadState]
    BY DEF IInv, TypeOK, ThreadState
  <1>4. /\ th' = [u \in Threads |-> th'[u]] /\ \A u \in Threads \ {t} : th'[u] = th[u]
        /\ th'[t] = [th[t] EXCEPT !.st = "done"]
    BY <1>1, <1>3, Zenon
  <1>5. /\ th'[t] \in ThreadState
        /\ th'[t].st = "done" /\ th'[t].cnt = th[t].cnt /\ th'[t].killed = th[t].killed
        /\ th'[t].buf = th[t].buf /\ th'[t].size = th[t].size
        /\ th[t].cnt \in 0..Size
    <2> DEFINE y == th[t]
               x == th'[t]
    <2>1. y \in ThreadState /\ x = [y EXCEPT !.st = "done"]
      BY <1>3, <1>4
    <2> HIDE DEF x, y
    <2>2. x \in ThreadState /\ x.st = "done" /\ x.cnt = y.cnt /\ x.killed = y.killed
          /\ x.buf = y.buf /\ x.size = y.size /\ y.cnt \in 0..Size
      BY <2>1 DEF ThreadState
    <2> QED
      BY <2>2 DEF x, y
  <1>6. TypeOK'
    <2>1. th' \in [Threads -> ThreadState]
      BY <1>3, <1>4, <1>5
    <2>2. write_return' \in NOTCONN..Size
      BY <1>1, <1>5, ConstantsAssumption DEF NOTCONN
    <2> QED
      BY <1>1, <2>1, <2>2 DEF IInv, TypeOK, ThreadState
  <1>7. CallInv'
    BY <1>1 DEF IInv, CallInv, Calling
  <1>8. ThreadInv'
    <2>1. \A u \in Threads \ {t} :
             /\ ~Live(u)' /\ th'[u].cnt <= th'[u].size
             /\ th'[u].st \in {"none", "start"} => th'[u].cnt = 0
             /\ th'[u].st # "done"
      BY <1>2, <1>4 DEF IInv, ThreadInv, Live
    <2>2. th[t].cnt <= th[t].size /\ (th[t].st = "start" => th[t].cnt = 0)
      BY DEF IInv, ThreadInv
    <2>3. write_return' = th'[t].cnt \/ (write_return' < 0 /\ th'[t].cnt = 0)
      BY <1>1, <1>5, <2>2 DEF NOTCONN
    <2>4. th'[t].cnt <= th'[t].size /\ th'[t].st = "done"
      BY <1>5, <2>2
    <2>5. th'[t].killed <=> pc = "closed"
      BY <1>2, <1>5
    <2> QED
      BY <1>1, <1>2, <1>5, <2>1, <2>3, <2>4, <2>5 DEF ThreadInv
  <1>9. ASSUME ~movedOn'
        PROVE  JobInv'
    <2>1. Known' = Known /\ (Calling' <=> Calling)
      BY <1>1 DEF Known, Calling
    <2>2. JobInv
      BY <1>1, <1>9 DEF IInv
    <2>3. ASSUME pc' # "closed"
          PROVE  WriteInv'
      <3>1. WriteInv /\ write_active /\ HasThread /\ HasThread'
        BY <1>1, <1>2, <1>5, <2>2, <2>3 DEF JobInv, HasThread, Live
      <3>2. size \in 0..Size /\ th[t].cnt <= th[t].size
        BY <2>3, <3>1, OffsetOfCall, <1>1 DEF WriteInv, IInv, ThreadInv
      <3>3. write_return' <= size
        BY <1>1, <1>2, <3>1, <3>2 DEF WriteInv, NOTCONN
      <3> QED
        BY <1>1, <1>2, <1>5, <2>1, <3>1, <3>3 DEF WriteInv
    <2> QED
      BY <1>1, <2>1, <2>2, <2>3 DEF JobInv, InOrder
  <1> QED
    BY <1>6, <1>7, <1>8, <1>9 DEF IInv

(* A thread that is done, or killed, is gone.                              *)
LEMMA GoneStep ==
    ASSUME IInv, NEW t \in Threads, Signal(t) \/ Die(t)
    PROVE  IInv'
  <1>1. /\ UNCHANGED <<pc, item, total, size, hd, write_active, write_size, write_return, tid, up,
                       received, acked, opens, movedOn>>
        /\ th' = [th EXCEPT ![t] = Idle]
        /\ \/ th[t].st = "done" /\ write_buf' = NULL
           \/ th[t].killed /\ write_buf' = write_buf
    BY DEF Signal, Die, client, fdw
  <1>2. th \in [Threads -> ThreadState]
    BY DEF IInv, TypeOK, ThreadState
  <1>3. /\ th' = [u \in Threads |-> th'[u]] /\ \A u \in Threads \ {t} : th'[u] = th[u]
        /\ th'[t] = Idle
    BY <1>1, <1>2, Zenon
  <1>4. Idle \in ThreadState /\ Idle.st = "none" /\ Idle.cnt = 0 /\ Idle.size = 0
    BY ConstantsAssumption DEF Idle, ThreadState, IInv, TypeOK, NULL
  <1>5. TypeOK'
    <2>1. th' \in [Threads -> ThreadState] /\ write_buf' \in Job \cup {NULL}
      BY <1>1, <1>2, <1>3, <1>4 DEF IInv, TypeOK
    <2> QED
      BY <1>1, <2>1 DEF IInv, TypeOK, ThreadState
  <1>6. CallInv'
    BY <1>1 DEF IInv, CallInv, Calling
  <1>7. ThreadInv'
    <2>1. \A u \in Threads \ {t} : Live(u) => write_buf' = write_buf
      BY <1>1, LivesAs DEF Live
    <2> QED
      BY <1>1, <1>3, <1>4, <2>1 DEF IInv, ThreadInv, Live
  <1>8. ASSUME ~movedOn'
        PROVE  JobInv'
    <2>1. Known' = Known /\ (Calling' <=> Calling)
      BY <1>1 DEF Known, Calling
    <2>2. JobInv
      BY <1>1, <1>8 DEF IInv
    <2>3. ASSUME pc' # "closed"
          PROVE  WriteInv'
      <3>1. WriteInv
        BY <1>1, <2>2, <2>3 DEF JobInv
      <3>2. CASE ~write_active
        BY <1>1, <2>1, <3>1, <3>2 DEF WriteInv
      <3>3. CASE write_active /\ th[t].st = "done" /\ write_buf' = NULL
        <4>1. /\ t = tid /\ write_buf # NULL /\ HasThread /\ th[t].cnt \in Nat
              /\ write_return = th[t].cnt \/ (write_return < 0 /\ th[t].cnt = 0)
          BY <3>3, LivesAs, <1>2, ConstantsAssumption DEF Live, HasThread, IInv, ThreadInv, ThreadState
        <4>2. Wrote = th[t].cnt
          BY <4>1 DEF Wrote
        <4>3. Len(received) = Known + Wrote /\ write_return <= size /\ Calling
          BY <3>1, <3>3, <4>1, <4>2 DEF WriteInv
        <4> QED
          BY <1>1, <2>1, <3>3, <4>3 DEF WriteInv, Wrote
      <3>4. CASE write_active /\ th[t].killed /\ write_buf' = write_buf
        <4>1. ~Live(t)
          BY <1>1, <2>3, <3>4, LivesAs
        <4>2. /\ HasThread' <=> HasThread
              /\ HasThread => th'[tid] = th[tid]
          BY <1>1, <1>3, <1>4, <4>1 DEF HasThread, Live
        <4> QED
          BY <1>1, <2>1, <3>1, <3>4, <4>2 DEF WriteInv, Wrote
      <3> QED
        BY <1>1, <3>2, <3>3, <3>4 DEF IInv, TypeOK
    <2> QED
      BY <1>1, <2>1, <2>2, <2>3 DEF JobInv, InOrder
  <1> QED
    BY <1>5, <1>6, <1>7, <1>8 DEF IInv

-----------------------------------------------------------------------------
LEMMA InvNext ==
    ASSUME IInv, Prompt, [Next]_vars
    PROVE  IInv'
  <1>1. ASSUME UNCHANGED <<pc, item, total, size, hd, fdw, th, received, acked, opens, movedOn>>,
               up' \in BOOLEAN
        PROVE  IInv'
    <2>1. TypeOK' /\ CallInv' /\ ThreadInv'
      BY <1>1 DEF IInv, TypeOK, CallInv, ThreadInv, Calling, Live, fdw
    <2>2. JobInv' <=> JobInv
      BY <1>1 DEF JobInv, WriteInv, Wrote, HasThread, InOrder, Known, Calling, Live, fdw
    <2> QED
      BY <1>1, <2>1, <2>2 DEF IInv
  <1>2. CASE UNCHANGED vars
    BY <1>1, <1>2 DEF vars, client, IInv, TypeOK
  <1>3. CASE Disconnect
    BY <1>1, <1>3 DEF Disconnect, client
  <1>4. CASE CallStep
    BY <1>4, KickStep, KickFailsStep, WaitStep, WakeStep, WakeErrorStep DEF CallStep
  <1>5. CASE ThreadStep
    BY <1>5, ThreadStartStep, TransferStep, DoneStep, GoneStep DEF ThreadStep
  <1> QED
    BY <1>2, <1>3, <1>4, <1>5, OpenStep, StartWriteStep, RetryStep, SkipStep, CloseStep DEF Next

(* IInv is an invariant if killed threads are gone before an opening.      *)
LEMMA Invariant ==
    ASSUME Prompt
    PROVE  Spec => []IInv
  <1>1. IInv /\ [Next]_vars => IInv'
    BY InvNext
  <1> QED
    BY <1>1, InvInit, PTL DEF Spec

(* The variables of the write path keep their types: no write goes beyond  *)
(* its buffer or the job.                                                  *)
THEOREM TypeCorrect ==
    ASSUME Prompt
    PROVE  Spec => []TypeOK
  BY Invariant, InvProperties, PTL

(* What musb_raw_channel_write reports to a client that sends again what   *)
(* was not reported is what the peripheral accepted.                       *)
THEOREM ReportedWasSent ==
    ASSUME Prompt
    PROVE  Spec => []AckedWasSent
  BY Invariant, InvProperties, PTL

(* Such a client has its job printed once and in order: a write that timed *)
(* out is waited for by the next call, never repeated.                     *)
THEOREM OnceInOrder ==
    ASSUME Prompt
    PROVE  Spec => []JobInOrder
  BY Invariant, InvProperties, PTL

-----------------------------------------------------------------------------
(* RasterPage.  The printer follows the commands in the buffer, in order;  *)
(* FoldLeft chooses a table of what it is after each of them.              *)

-----------------------------------------------------------------------------
(* The printer's commands, one by one: the table FoldLeft chooses.            *)

TakenBy(p, buf) == FoldLeft(Take, p, buf)

IsTaken(it, b, s, n) ==
  it = [u \in SUBSET (1..n) |-> IF u = {} THEN b ELSE Take(it[u \ {Max(u)}], s[Max(u)])]

LEMMA TakenExists ==
  ASSUME NEW b, NEW s, NEW n \in Nat
  PROVE  \E it : IsTaken(it, b, s, n)
<1> DEFINE T == {m \in 0..n : \E it : IsTaken(it, b, s, m)}
<1>1. 0 \in T
  <2> DEFINE it == [u \in SUBSET (1..0) |-> b]
  <2>1. \A u \in SUBSET (1..0) : u = {}
    OBVIOUS
  <2> IsTaken(it, b, s, 0)
    BY <2>1 DEF IsTaken
  <2> QED
    OBVIOUS
<1>2. ASSUME NEW k \in 0..n, k \in T, k < n PROVE k + 1 \in T
  <2>1. PICK it : IsTaken(it, b, s, k)
    BY <1>2
  <2> DEFINE m == k + 1
             old(u) == IF u = {} THEN b ELSE Take(it[u \ {Max(u)}], s[Max(u)])
             jt == [u \in SUBSET (1..m) |-> IF m \in u THEN Take(it[u \ {m}], s[m]) ELSE it[u]]
  <2>2. m \in 1..n /\ m \notin 1..k /\ 1..m = (1..k) \cup {m} /\ m \in Int
    BY <1>2
  <2>3. ASSUME NEW u \in SUBSET (1..k) PROVE it[u] = old(u) /\ jt[u] = it[u]
    <3>1. it[u] = old(u)
      <4> DEFINE F == [v \in SUBSET (1..k) |-> old(v)]
      <4>1. it = F
        BY <2>1, Zenon DEF IsTaken
      <4>2. F[u] = old(u)
        OBVIOUS
      <4> HIDE DEF F, old
      <4> QED
        BY <4>1, <4>2, Zenon
    <3>2. u \in SUBSET (1..m) /\ m \notin u
      BY <2>2
    <3>3. jt[u] = it[u]
      <4> HIDE DEF m
      <4> QED
        BY <3>2
    <3> QED
      BY <3>1, <3>3
  <2>4. ASSUME NEW u \in SUBSET (1..m)
        PROVE  jt[u] = IF u = {} THEN b ELSE Take(jt[u \ {Max(u)}], s[Max(u)])
    <3>1. CASE m \in u
      <4>1. Max(u) = m
        <5>1. u \in SUBSET Int /\ \A j \in u : j <= m
          OBVIOUS
        <5> HIDE DEF m
        <5> QED
          BY <3>1, <5>1, MaxIs
      <4>2. u \ {m} \in SUBSET (1..k)
        BY <2>2
      <4>3. jt[u] = Take(it[u \ {m}], s[m])
        BY <3>1
      <4>4. jt[u \ {m}] = it[u \ {m}]
        BY <2>3, <4>2
      <4> HIDE DEF jt, m
      <4> QED
        BY <3>1, <4>1, <4>3, <4>4
    <3>2. CASE m \notin u
      <4>1. u \in SUBSET (1..k)
        BY <3>2, <2>2
      <4>2. u \ {Max(u)} \in SUBSET (1..k)
        BY <4>1
      <4>3. jt[u] = old(u)
        BY <2>3, <4>1
      <4>4. jt[u \ {Max(u)}] = it[u \ {Max(u)}]
        BY <2>3, <4>2
      <4> HIDE DEF jt, m
      <4> QED
        BY <4>3, <4>4
    <3> QED
      BY <3>1, <3>2
  <2>5. IsTaken(jt, b, s, m)
    <3>1. jt = [u \in SUBSET (1..m) |-> IF u = {} THEN b ELSE Take(jt[u \ {Max(u)}], s[Max(u)])]
      <4> DEFINE G == [u \in SUBSET (1..m) |-> IF u = {} THEN b ELSE Take(jt[u \ {Max(u)}], s[Max(u)])]
      <4>1. \A u \in SUBSET (1..m) : jt[u] = G[u]
        BY <2>4
      <4> QED
        BY <4>1
    <3> HIDE DEF jt, m
    <3> QED
      BY <3>1, Zenon DEF IsTaken
  <2> HIDE DEF jt
  <2> QED
    BY <2>2, <2>5
<1> HIDE DEF T
<1>3. 0..n \subseteq T
  BY <1>1, <1>2, Induction
<1> QED
  BY <1>3 DEF T

(* The entries that matter: the first i positions.                         *)
TakenStep(it, s, i) == it[1..i] = Take(it[1..(i - 1)], s[i])

LEMMA TakenAt ==
  ASSUME NEW b, NEW s, NEW n \in Nat, NEW it, IsTaken(it, b, s, n)
  PROVE  it[{}] = b /\ \A i \in 1..n : TakenStep(it, s, i)
<1> DEFINE new(u) == IF u = {} THEN b ELSE Take(it[u \ {Max(u)}], s[Max(u)])
           F == [u \in SUBSET (1..n) |-> new(u)]
<1>1. it = F
  BY Zenon DEF IsTaken
<1>2. ASSUME NEW u \in SUBSET (1..n) PROVE it[u] = new(u)
  <2>1. F[u] = new(u)
    OBVIOUS
  <2> HIDE DEF F, new
  <2> QED
    BY <1>1, <2>1, Zenon
<1>3. it[{}] = b
  BY <1>2
<1>4. ASSUME NEW i \in 1..n PROVE TakenStep(it, s, i)
  <2>1. 1..i \in SUBSET (1..n) /\ 1..i # {} /\ (1..i) \ {i} = 1..(i - 1)
    OBVIOUS
  <2>2. Max(1..i) = i
    <3>1. 1..i \in SUBSET Int /\ i \in 1..i /\ \A k \in 1..i : k <= i
      OBVIOUS
    <3> QED
      BY <3>1, MaxIs, Zenon
  <2>3. it[1..i] = new(1..i)
    BY <1>2, <2>1
  <2> QED
    BY <2>1, <2>2, <2>3 DEF TakenStep
<1> QED
  BY <1>3, <1>4

LEMMA TakenTable ==
  ASSUME NEW b, NEW s, NEW n \in Nat, DOMAIN s = 1..n
  PROVE  \E it : IsTaken(it, b, s, n) /\ TakenBy(b, s) = it[1..n]
<1>1. PICK it : IsTaken(it, b, s, n)
  BY TakenExists
<1> DEFINE jt == CHOOSE jt : jt = [u \in SUBSET (1..n) |-> IF u = {} THEN b ELSE Take(jt[u \ {Max(u)}], s[Max(u)])]
<1>2. jt = [u \in SUBSET (1..n) |-> IF u = {} THEN b ELSE Take(jt[u \ {Max(u)}], s[Max(u)])]
  BY <1>1, Zenon DEF IsTaken
<1>3. TakenBy(b, s) = (CHOOSE kt : kt = [u \in SUBSET DOMAIN s |-> IF u = {} THEN b ELSE Take(kt[u \ {Max(u)}], s[Max(u)])])[DOMAIN s]
  BY DEF TakenBy, FoldLeft, MapThenFoldSet
<1>4. TakenBy(b, s) = jt[1..n]
  BY <1>3
<1>5. IsTaken(jt, b, s, n)
  BY <1>2, Zenon DEF IsTaken
<1> QED
  BY <1>4, <1>5

-----------------------------------------------------------------------------
(* The rows of the filter, one by one: the table FoldLeft chooses.          *)

DrainedBy(b, s) == FoldLeft(LAMBDA t, i : NextOutput(t), b, s)

IsDrain(it, b, s, n) ==
  it = [u \in SUBSET (1..n) |-> IF u = {} THEN b ELSE NextOutput(it[u \ {Max(u)}])]

LEMMA DrainExists ==
  ASSUME NEW b, NEW s, NEW n \in Nat
  PROVE  \E it : IsDrain(it, b, s, n)
<1> DEFINE T == {m \in 0..n : \E it : IsDrain(it, b, s, m)}
<1>1. 0 \in T
  <2> DEFINE it == [u \in SUBSET (1..0) |-> b]
  <2>1. \A u \in SUBSET (1..0) : u = {}
    OBVIOUS
  <2> IsDrain(it, b, s, 0)
    BY <2>1 DEF IsDrain
  <2> QED
    OBVIOUS
<1>2. ASSUME NEW k \in 0..n, k \in T, k < n PROVE k + 1 \in T
  <2>1. PICK it : IsDrain(it, b, s, k)
    BY <1>2
  <2> DEFINE m == k + 1
             old(u) == IF u = {} THEN b ELSE NextOutput(it[u \ {Max(u)}])
             jt == [u \in SUBSET (1..m) |-> IF m \in u THEN NextOutput(it[u \ {m}]) ELSE it[u]]
  <2>2. m \in 1..n /\ m \notin 1..k /\ 1..m = (1..k) \cup {m} /\ m \in Int
    BY <1>2
  <2>3. ASSUME NEW u \in SUBSET (1..k) PROVE it[u] = old(u) /\ jt[u] = it[u]
    <3>1. it[u] = old(u)
      <4> DEFINE F == [v \in SUBSET (1..k) |-> old(v)]
      <4>1. it = F
        BY <2>1, Zenon DEF IsDrain
      <4>2. F[u] = old(u)
        OBVIOUS
      <4> HIDE DEF F, old
      <4> QED
        BY <4>1, <4>2, Zenon
    <3>2. u \in SUBSET (1..m) /\ m \notin u
      BY <2>2
    <3>3. jt[u] = it[u]
      <4> HIDE DEF m
      <4> QED
        BY <3>2
    <3> QED
      BY <3>1, <3>3
  <2>4. ASSUME NEW u \in SUBSET (1..m)
        PROVE  jt[u] = IF u = {} THEN b ELSE NextOutput(jt[u \ {Max(u)}])
    <3>1. CASE m \in u
      <4>1. Max(u) = m
        <5>1. u \in SUBSET Int /\ \A j \in u : j <= m
          OBVIOUS
        <5> HIDE DEF m
        <5> QED
          BY <3>1, <5>1, MaxIs
      <4>2. u \ {m} \in SUBSET (1..k)
        BY <2>2
      <4>3. jt[u] = NextOutput(it[u \ {m}])
        BY <3>1
      <4>4. jt[u \ {m}] = it[u \ {m}]
        BY <2>3, <4>2
      <4> HIDE DEF jt, m
      <4> QED
        BY <3>1, <4>1, <4>3, <4>4
    <3>2. CASE m \notin u
      <4>1. u \in SUBSET (1..k)
        BY <3>2, <2>2
      <4>2. u \ {Max(u)} \in SUBSET (1..k)
        BY <4>1
      <4>3. jt[u] = old(u)
        BY <2>3, <4>1
      <4>4. jt[u \ {Max(u)}] = it[u \ {Max(u)}]
        BY <2>3, <4>2
      <4> HIDE DEF jt, m
      <4> QED
        BY <4>3, <4>4
    <3> QED
      BY <3>1, <3>2
  <2>5. IsDrain(jt, b, s, m)
    <3>1. jt = [u \in SUBSET (1..m) |-> IF u = {} THEN b ELSE NextOutput(jt[u \ {Max(u)}])]
      <4> DEFINE G == [u \in SUBSET (1..m) |-> IF u = {} THEN b ELSE NextOutput(jt[u \ {Max(u)}])]
      <4>1. \A u \in SUBSET (1..m) : jt[u] = G[u]
        BY <2>4
      <4> QED
        BY <4>1
    <3> HIDE DEF jt, m
    <3> QED
      BY <3>1, Zenon DEF IsDrain
  <2> HIDE DEF jt
  <2> QED
    BY <2>2, <2>5
<1> HIDE DEF T
<1>3. 0..n \subseteq T
  BY <1>1, <1>2, Induction
<1> QED
  BY <1>3 DEF T

(* The entries that matter: the first i positions.                         *)
DrainStep(it, s, i) == it[1..i] = NextOutput(it[1..(i - 1)])

LEMMA DrainAt ==
  ASSUME NEW b, NEW s, NEW n \in Nat, NEW it, IsDrain(it, b, s, n)
  PROVE  it[{}] = b /\ \A i \in 1..n : DrainStep(it, s, i)
<1> DEFINE new(u) == IF u = {} THEN b ELSE NextOutput(it[u \ {Max(u)}])
           F == [u \in SUBSET (1..n) |-> new(u)]
<1>1. it = F
  BY Zenon DEF IsDrain
<1>2. ASSUME NEW u \in SUBSET (1..n) PROVE it[u] = new(u)
  <2>1. F[u] = new(u)
    OBVIOUS
  <2> HIDE DEF F, new
  <2> QED
    BY <1>1, <2>1, Zenon
<1>3. it[{}] = b
  BY <1>2
<1>4. ASSUME NEW i \in 1..n PROVE DrainStep(it, s, i)
  <2>1. 1..i \in SUBSET (1..n) /\ 1..i # {} /\ (1..i) \ {i} = 1..(i - 1)
    OBVIOUS
  <2>2. Max(1..i) = i
    <3>1. 1..i \in SUBSET Int /\ i \in 1..i /\ \A k \in 1..i : k <= i
      OBVIOUS
    <3> QED
      BY <3>1, MaxIs, Zenon
  <2>3. it[1..i] = new(1..i)
    BY <1>2, <2>1
  <2> QED
    BY <2>1, <2>2, <2>3 DEF DrainStep
<1> QED
  BY <1>3, <1>4

LEMMA DrainTable ==
  ASSUME NEW b, NEW s, NEW n \in Nat, DOMAIN s = 1..n
  PROVE  \E it : IsDrain(it, b, s, n) /\ DrainedBy(b, s) = it[1..n]
<1>1. PICK it : IsDrain(it, b, s, n)
  BY DrainExists
<1> DEFINE jt == CHOOSE jt : jt = [u \in SUBSET (1..n) |-> IF u = {} THEN b ELSE NextOutput(jt[u \ {Max(u)}])]
<1>2. jt = [u \in SUBSET (1..n) |-> IF u = {} THEN b ELSE NextOutput(jt[u \ {Max(u)}])]
  BY <1>1, Zenon DEF IsDrain
<1>3. DrainedBy(b, s) = (CHOOSE kt : kt = [u \in SUBSET DOMAIN s |-> IF u = {} THEN b ELSE NextOutput(kt[u \ {Max(u)}])])[DOMAIN s]
  BY DEF DrainedBy, FoldLeft, MapThenFoldSet
<1>4. DrainedBy(b, s) = jt[1..n]
  BY <1>3
<1>5. IsDrain(jt, b, s, n)
  BY <1>2, Zenon DEF IsDrain
<1> QED
  BY <1>4, <1>5

(* Taking no command, and one more.                                        *)
LEMMA TakenEmpty ==
  ASSUME NEW b
  PROVE  TakenBy(b, << >>) = b
<1>1. PICK it : IsTaken(it, b, << >>, 0) /\ TakenBy(b, << >>) = it[1..0]
  <2>1. 0 \in Nat /\ DOMAIN << >> = 1..0
    OBVIOUS
  <2> QED
    BY <2>1, TakenTable
<1>2. it[{}] = b
  <2>1. 0 \in Nat
    OBVIOUS
  <2> QED
    BY <1>1, <2>1, TakenAt
<1>3. 1..0 = {}
  OBVIOUS
<1> QED
  BY <1>1, <1>2, <1>3

LEMMA TakenAppend ==
  ASSUME NEW b, NEW S, NEW s \in Seq(S), NEW c \in S
  PROVE  TakenBy(b, Append(s, c)) = Take(TakenBy(b, s), c)
<1> DEFINE t == Append(s, c)
           k == Len(s)
           n == k + 1
<1>1. /\ k \in Nat /\ n \in Nat /\ DOMAIN s = 1..k /\ DOMAIN t = 1..n /\ t[n] = c
      /\ \A i \in 1..k : t[i] = s[i]
  OBVIOUS
<1> HIDE DEF t, k
<1>2. PICK it : IsTaken(it, b, t, n) /\ TakenBy(b, t) = it[1..n]
  BY <1>1, TakenTable
<1>3. PICK jt : IsTaken(jt, b, s, k) /\ TakenBy(b, s) = jt[1..k]
  BY <1>1, TakenTable
<1>4. it[{}] = b /\ \A i \in 1..n : TakenStep(it, t, i)
  BY <1>1, <1>2, TakenAt
<1>5. jt[{}] = b /\ \A i \in 1..k : TakenStep(jt, s, i)
  BY <1>1, <1>3, TakenAt
<1> DEFINE T == {m \in 0..k : jt[1..m] = it[1..m]}
<1>6. 0 \in T
  <2>1. 1..0 = {} /\ 0 \in 0..k
    BY <1>1
  <2> QED
    BY <1>4, <1>5, <2>1
<1>7. ASSUME NEW m \in 0..k, m \in T, m < k PROVE m + 1 \in T
  <2>1. m + 1 \in 1..k /\ m + 1 \in 1..n /\ (m + 1) - 1 = m /\ m + 1 \in 0..k
    BY <1>1, <1>7
  <2>2. jt[1..(m + 1)] = Take(jt[1..m], s[m + 1])
    BY <1>5, <2>1 DEF TakenStep
  <2>3. it[1..(m + 1)] = Take(it[1..m], t[m + 1])
    BY <1>4, <2>1 DEF TakenStep
  <2>4. jt[1..m] = it[1..m] /\ t[m + 1] = s[m + 1]
    BY <1>1, <1>7, <2>1
  <2>5. jt[1..(m + 1)] = it[1..(m + 1)]
    BY <2>2, <2>3, <2>4, Zenon
  <2> QED
    BY <2>1, <2>5
<1>8. jt[1..k] = it[1..k]
  <2> HIDE DEF T
  <2>1. 0..k \subseteq T
    BY <1>1, <1>6, <1>7, Induction
  <2>2. k \in 0..k
    BY <1>1
  <2> QED
    BY <2>1, <2>2 DEF T
<1>9. n \in 1..n /\ n - 1 = k
  BY <1>1
<1>10. it[1..n] = Take(it[1..k], t[n])
  BY <1>4, <1>9 DEF TakenStep
<1> QED
  BY <1>1, <1>2, <1>3, <1>8, <1>10 DEF t

(* Begins of sequences, element by element.                                *)
LEMMA PrefixIs ==
  ASSUME NEW S, NEW s \in Seq(S), NEW t \in Seq(S)
  PROVE  IsPrefix(s, t) <=> Len(s) <= Len(t) /\ \A i \in 1..Len(s) : s[i] = t[i]
<1>1. ASSUME Len(s) <= Len(t)
      PROVE  SubSeq(s, 1, Len(s)) = SubSeq(t, 1, Len(s)) <=> \A i \in 1..Len(s) : s[i] = t[i]
  <2> DEFINE a == SubSeq(s, 1, Len(s))
             b == SubSeq(t, 1, Len(s))
  <2>1. /\ a \in Seq(S) /\ Len(a) = Len(s) /\ \A i \in 1..Len(s) : a[i] = s[i]
        /\ b \in Seq(S) /\ Len(b) = Len(s) /\ \A i \in 1..Len(s) : b[i] = t[i]
    BY <1>1
  <2>2. (\A i \in 1..Len(a) : a[i] = b[i]) => a = b
    <3> HIDE DEF a, b
    <3> QED
      BY <2>1, SeqEqual
  <2> HIDE DEF a, b
  <2>3. a = b <=> \A i \in 1..Len(s) : s[i] = t[i]
    BY <2>1, <2>2
  <2> QED
    BY <2>3 DEF a, b
<1> QED
  BY <1>1 DEF IsPrefix

-----------------------------------------------------------------------------
(* What the printer is once it has taken the commands in the buffer.       *)
Settled(s) == TakenBy(s.p, s.h.buf)

(* A printer on its way to another: the pages it has ejected and the sheet *)
(* under its head are begins of those of the other.                        *)
Earlier(p, q) ==
  /\ Len(p.pages) <= Len(q.pages)
  /\ \A n \in 1..Len(p.pages) : p.pages[n] = q.pages[n]
  /\ \/ Len(p.pages) = Len(q.pages) /\ IsPrefix(p.sheet, q.sheet)
     \/ Len(p.pages) < Len(q.pages) /\ IsPrefix(p.sheet, q.pages[Len(p.pages) + 1])

Marks == {White, Clear, NoRow, Garbage} \cup {r.color : r \in Rows} \cup {r.black : r \in Rows}
RowMarks == [color : Marks, black : Marks]
Commands == [cmd : {"start", "FF", "UEL"}] \cup [cmd : {"Y"}, n : Nat]
            \cup [cmd : {"V", "W"}, data : [from : Marks, to : Marks]]
Hosts == [buf : Seq(Commands), yPos : Int, colorSeed : Marks, colorSeeded : BOOLEAN,
          blackSeed : Marks, blackSeeded : BOOLEAN, resetSeedRow : BOOLEAN,
          colorRows : [0..3 -> Marks], blackRows : [0..3 -> Marks],
          rowIndex : 0..3, buffered : 0..3, ready : 0..4, delivered : 0..3]
Printers == [open : BOOLEAN, pages : Seq(Seq(RowMarks)), sheet : Seq(RowMarks),
             colorSeed : Marks, blackSeed : Marks]

Typed(s) ==
  /\ s \in [h : Hosts, p : Printers]
  /\ Settled(s) \in Printers
  /\ Earlier(s.p, Settled(s))

(* A seed row a compressor has not used since it was cleared is clear; so  *)
(* is that of black until a first black row, and always in ljcolor.        *)
Seeded(s) ==
  /\ ~s.h.colorSeeded => s.h.colorSeed = ColorZero
  /\ ~s.h.blackSeeded => s.h.blackSeed = Clear
  /\ ~s.h.resetSeedRow => s.h.blackSeed = Clear
  /\ lang = "ljcolor" => s.h.blackSeed = Clear
Agree(s) ==
  /\ Settled(s).colorSeed = s.h.colorSeed
  /\ Settled(s).blackSeed = s.h.blackSeed


LEMMA EarlierRefl ==
  ASSUME NEW p \in Printers
  PROVE  Earlier(p, p)
<1>1. p.pages \in Seq(Seq(RowMarks)) /\ p.sheet \in Seq(RowMarks)
  BY DEF Printers
<1>2. IsPrefix(p.sheet, p.sheet)
  <2>1. Len(p.sheet) <= Len(p.sheet)
    BY <1>1
  <2> QED
    BY <1>1, <2>1, PrefixIs
<1>3. Len(p.pages) <= Len(p.pages)
  BY <1>1
<1> QED
  BY <1>2, <1>3 DEF Earlier

LEMMA PrefixTrans ==
  ASSUME NEW S, NEW s \in Seq(S), NEW t \in Seq(S), NEW u \in Seq(S), IsPrefix(s, t), IsPrefix(t, u)
  PROVE  IsPrefix(s, u)
<1>1. /\ Len(s) <= Len(t) /\ Len(t) <= Len(u)
      /\ \A i \in 1..Len(s) : s[i] = t[i]
      /\ \A i \in 1..Len(t) : t[i] = u[i]
  BY PrefixIs
<1>2. Len(s) \in Nat /\ Len(t) \in Nat /\ Len(u) \in Nat
  OBVIOUS
<1>3. Len(s) <= Len(u) /\ \A i \in 1..Len(s) : i \in 1..Len(t)
  BY <1>1, <1>2
<1>4. \A i \in 1..Len(s) : s[i] = u[i]
  BY <1>1, <1>3
<1> QED
  BY <1>3, <1>4, PrefixIs

LEMMA EarlierTrans ==
  ASSUME NEW p \in Printers, NEW q \in Printers, NEW r \in Printers, Earlier(p, q), Earlier(q, r)
  PROVE  Earlier(p, r)
<1> DEFINE k == Len(p.pages)
           l == Len(q.pages)
           m == Len(r.pages)
<1>1. /\ p.pages \in Seq(Seq(RowMarks)) /\ p.sheet \in Seq(RowMarks)
      /\ q.pages \in Seq(Seq(RowMarks)) /\ q.sheet \in Seq(RowMarks)
      /\ r.pages \in Seq(Seq(RowMarks)) /\ r.sheet \in Seq(RowMarks)
  BY DEF Printers
<1>2. k \in Nat /\ l \in Nat /\ m \in Nat /\ k <= l /\ l <= m
  BY <1>1 DEF Earlier
<1>3. /\ \A n \in 1..k : p.pages[n] = q.pages[n]
      /\ \A n \in 1..l : q.pages[n] = r.pages[n]
  BY DEF Earlier
<1>4. /\ \A n \in 1..l : q.pages[n] \in Seq(RowMarks)
      /\ \A n \in 1..m : r.pages[n] \in Seq(RowMarks)
  BY <1>1
<1>5. /\ \/ k = l /\ IsPrefix(p.sheet, q.sheet)
         \/ k < l /\ IsPrefix(p.sheet, q.pages[k + 1])
      /\ \/ l = m /\ IsPrefix(q.sheet, r.sheet)
         \/ l < m /\ IsPrefix(q.sheet, r.pages[l + 1])
  BY DEF Earlier
<1> HIDE DEF k, l, m
<1>6. k <= m /\ \A n \in 1..k : p.pages[n] = r.pages[n]
  <2>1. \A n \in 1..k : n \in 1..l
    BY <1>2
  <2> QED
    BY <1>2, <1>3, <2>1
<1>7. CASE k = l /\ l = m
  <2>1. IsPrefix(p.sheet, r.sheet)
    BY <1>1, <1>2, <1>5, <1>7, PrefixTrans
  <2> QED
    BY <1>6, <1>7, <2>1 DEF Earlier, k, l, m
<1>8. CASE k = l /\ l < m
  <2>1. l + 1 \in 1..m /\ k + 1 = l + 1
    BY <1>2, <1>8
  <2>2. IsPrefix(p.sheet, q.sheet) /\ IsPrefix(q.sheet, r.pages[l + 1]) /\ r.pages[l + 1] \in Seq(RowMarks)
    BY <1>2, <1>4, <1>5, <1>8, <2>1
  <2>3. IsPrefix(p.sheet, r.pages[k + 1])
    BY <1>1, <2>1, <2>2, PrefixTrans
  <2>4. k < m
    BY <1>8
  <2> QED
    BY <1>6, <2>3, <2>4 DEF Earlier, k, m
<1>9. CASE k < l
  <2>1. k + 1 \in 1..l /\ k < m
    BY <1>2, <1>9
  <2>2. IsPrefix(p.sheet, r.pages[k + 1])
    BY <1>2, <1>3, <1>5, <1>9, <2>1
  <2> QED
    BY <1>6, <2>1, <2>2 DEF Earlier, k, m
<1> QED
  BY <1>2, <1>7, <1>8, <1>9

-----------------------------------------------------------------------------
(* What the printer makes of each command.                                 *)
LEMMA MarksAre ==
  /\ White \in Marks /\ Clear \in Marks /\ NoRow \in Marks /\ Garbage \in Marks /\ ColorZero \in Marks
  /\ \A r \in Rows : r.color \in Marks /\ r.black \in Marks
  /\ \A r \in Rows : r.color # NoRow /\ r.black # NoRow
  /\ White # NoRow /\ Clear # NoRow /\ ColorZero # NoRow
<1>1. ColorZero \in {White, Clear}
  BY DEF ColorZero
<1>2. \A r \in Rows : r.color # NoRow /\ r.black # NoRow
  BY RasterAssumption
<1>3. White # NoRow /\ Clear # NoRow
  BY DEF White, Clear, NoRow
<1> QED
  BY <1>1, <1>2, <1>3 DEF Marks

LEMMA PrinterFields ==
  ASSUME NEW p \in Printers
  PROVE  /\ p.open \in BOOLEAN /\ p.pages \in Seq(Seq(RowMarks)) /\ p.sheet \in Seq(RowMarks)
         /\ p.colorSeed \in Marks /\ p.blackSeed \in Marks
BY DEF Printers

(* A printer, field by field.                                              *)
Is(p, open, pages, sheet, color, black) ==
  /\ p.open = open /\ p.pages = pages /\ p.sheet = sheet /\ p.colorSeed = color /\ p.blackSeed = black

LEMMA ClearedIs ==
  ASSUME NEW p \in Printers
  PROVE  SeedsCleared(p) \in Printers /\ Is(SeedsCleared(p), p.open, p.pages, p.sheet, ColorZero, Clear)
BY MarksAre DEF Printers, Is, SeedsCleared, SeedsOf

LEMMA TakeStart ==
  ASSUME NEW p \in Printers, NEW c, c.cmd = "start", p.open
  PROVE  Take(p, c) \in Printers /\ Is(Take(p, c), p.open, p.pages, p.sheet, ColorZero, Clear)
<1>1. Take(p, c) = SeedsCleared(p)
  BY DEF Take, Obeyed
<1> QED
  BY <1>1, ClearedIs

LEMMA BlanksAre ==
  ASSUME NEW n \in Nat
  PROVE  /\ [i \in 1..n |-> Blank] \in Seq(RowMarks) /\ Len([i \in 1..n |-> Blank]) = n
         /\ \A i \in 1..n : [j \in 1..n |-> Blank][i] = Blank
<1>1. Blank \in RowMarks
  BY MarksAre DEF Blank, RowMarks
<1> QED
  BY <1>1

LEMMA TakeY ==
  ASSUME NEW p \in Printers, NEW c, c.cmd = "Y", c.n \in Nat, p.open
  PROVE  /\ Take(p, c) \in Printers
         /\ Is(Take(p, c), p.open, p.pages, p.sheet \o [i \in 1..c.n |-> Blank], ColorZero, Clear)
<1> DEFINE b == [i \in 1..c.n |-> Blank]
           q == SeedsCleared(p)
<1>1. b \in Seq(RowMarks)
  BY BlanksAre
<1>2. Take(p, c) = [q EXCEPT !.sheet = @ \o b]
  BY DEF Take, Obeyed
<1>3. q \in Printers /\ Is(q, p.open, p.pages, p.sheet, ColorZero, Clear)
  BY ClearedIs
<1> HIDE DEF b, q
<1>4. q.sheet \o b \in Seq(RowMarks) /\ q.sheet \o b = p.sheet \o b
  BY <1>1, <1>3, PrinterFields DEF Is
<1>5. [q EXCEPT !.sheet = q.sheet \o b] \in Printers
  BY <1>3, <1>4 DEF Printers
<1>6. Is([q EXCEPT !.sheet = q.sheet \o b], p.open, p.pages, p.sheet \o b, ColorZero, Clear)
  BY <1>3, <1>4 DEF Printers, Is
<1> QED
  BY <1>2, <1>5, <1>6 DEF b

LEMMA DecodedIs ==
  ASSUME NEW seed \in Marks, NEW data \in [from : Marks, to : Marks]
  PROVE  Decoded(data, seed) \in Marks
BY MarksAre DEF Decoded

LEMMA TakeV ==
  ASSUME NEW p \in Printers, NEW c, c.cmd = "V", c.data \in [from : Marks, to : Marks], p.open
  PROVE  /\ Take(p, c) \in Printers
         /\ Is(Take(p, c), p.open, p.pages, p.sheet, p.colorSeed, Decoded(c.data, p.blackSeed))
<1> DEFINE black == Decoded(c.data, p.blackSeed)
<1>1. Take(p, c) = [p EXCEPT !.blackSeed = black]
  BY DEF Take, Obeyed
<1>2. black \in Marks
  BY DecodedIs, PrinterFields
<1> HIDE DEF black
<1> QED
  BY <1>1, <1>2 DEF Printers, Is, black

LEMMA TakeW ==
  ASSUME NEW p \in Printers, NEW c, c.cmd = "W", c.data \in [from : Marks, to : Marks], p.open
  PROVE  LET color == Decoded(c.data, p.colorSeed) IN
         /\ Take(p, c) \in Printers /\ color \in Marks
         /\ Is(Take(p, c), p.open, p.pages, Append(p.sheet, [color |-> color, black |-> p.blackSeed]),
               color, p.blackSeed)
<1> DEFINE color == Decoded(c.data, p.colorSeed)
           sheet == Append(p.sheet, [color |-> color, black |-> p.blackSeed])
<1>1. Take(p, c) = [p EXCEPT !.colorSeed = color, !.sheet = sheet]
  BY DEF Take, Obeyed
<1>2. color \in Marks
  BY DecodedIs, PrinterFields
<1>3. sheet \in Seq(RowMarks)
  <2>1. [color |-> color, black |-> p.blackSeed] \in RowMarks
    BY <1>2, PrinterFields DEF RowMarks
  <2> QED
    BY <2>1, PrinterFields
<1> HIDE DEF color, sheet
<1>4. Take(p, c) \in Printers /\ Is(Take(p, c), p.open, p.pages, sheet, color, p.blackSeed)
  BY <1>1, <1>2, <1>3 DEF Printers, Is
<1> QED
  BY <1>2, <1>4 DEF color, sheet

LEMMA TakeFF ==
  ASSUME NEW p \in Printers, NEW c, c.cmd = "FF", p.open
  PROVE  /\ Take(p, c) \in Printers
         /\ Is(Take(p, c), p.open, Append(p.pages, p.sheet), << >>, ColorZero, Clear)
<1> DEFINE q == SeedsCleared(p)
           pages == Append(p.pages, p.sheet)
<1>1. Take(p, c) = [q EXCEPT !.pages = Append(q.pages, p.sheet), !.sheet = << >>]
  BY DEF Take, Obeyed
<1>2. q \in Printers /\ Is(q, p.open, p.pages, p.sheet, ColorZero, Clear)
  BY ClearedIs
<1>3. Take(p, c) = [q EXCEPT !.pages = pages, !.sheet = << >>]
  BY <1>1, <1>2 DEF Is
<1>4. pages \in Seq(Seq(RowMarks)) /\ << >> \in Seq(RowMarks)
  BY PrinterFields
<1> HIDE DEF q, pages
<1>5. Take(p, c) \in Printers /\ Is(Take(p, c), p.open, pages, << >>, ColorZero, Clear)
  BY <1>2, <1>3, <1>4 DEF Printers, Is
<1> QED
  BY <1>5 DEF pages

LEMMA TakeUEL ==
  ASSUME NEW p \in Printers, NEW c, c.cmd = "UEL", p.open
  PROVE  Take(p, c) \in Printers /\ Is(Take(p, c), FALSE, p.pages, p.sheet, p.colorSeed, p.blackSeed)
<1>1. Take(p, c) = [p EXCEPT !.open = FALSE]
  BY DEF Take, Obeyed
<1> QED
  BY <1>1 DEF Printers, Is

(* A command leaves the printer a printer, further on.                     *)
LEMMA FurtherSheet ==
  ASSUME NEW p \in Printers, NEW q \in Printers, q.pages = p.pages, IsPrefix(p.sheet, q.sheet)
  PROVE  Earlier(p, q)
<1>1. Len(p.pages) \in Nat
  BY PrinterFields
<1> QED
  BY <1>1 DEF Earlier

LEMMA TakeTyped ==
  ASSUME NEW p \in Printers, NEW c \in Commands
  PROVE  Take(p, c) \in Printers /\ Earlier(p, Take(p, c))
<1> DEFINE q == Take(p, c)
<1>0. /\ c.cmd \in {"start", "V", "UEL", "Y", "W", "FF"}
      /\ c.cmd = "Y" => c.n \in Nat
      /\ c.cmd \in {"V", "W"} => c.data \in [from : Marks, to : Marks]
  BY DEF Commands
<1>1. CASE ~p.open
  <2>1. q = p
    BY <1>1 DEF Take
  <2> QED
    BY <2>1, EarlierRefl
<1>2. CASE p.open /\ c.cmd \in {"start", "V", "UEL"}
  <2>1. q \in Printers /\ q.pages = p.pages /\ q.sheet = p.sheet
    <3>1. c.cmd = "start" => q \in Printers /\ q.pages = p.pages /\ q.sheet = p.sheet
      BY <1>2, TakeStart DEF Is
    <3>2. c.cmd = "V" => q \in Printers /\ q.pages = p.pages /\ q.sheet = p.sheet
      BY <1>0, <1>2, TakeV DEF Is
    <3>3. c.cmd = "UEL" => q \in Printers /\ q.pages = p.pages /\ q.sheet = p.sheet
      BY <1>2, TakeUEL DEF Is
    <3> QED
      BY <1>2, <3>1, <3>2, <3>3
  <2>2. IsPrefix(p.sheet, p.sheet)
    <3>1. p.sheet \in Seq(RowMarks) /\ Len(p.sheet) <= Len(p.sheet)
      BY PrinterFields
    <3> QED
      BY <3>1, PrefixIs
  <2> HIDE DEF q
  <2> QED
    BY <2>1, <2>2, FurtherSheet DEF q
<1>3. CASE p.open /\ c.cmd = "Y"
  <2> DEFINE b == [i \in 1..c.n |-> Blank]
  <2>2. b \in Seq(RowMarks) /\ p.sheet \in Seq(RowMarks)
    BY <1>0, <1>3, BlanksAre, PrinterFields
  <2>3. q \in Printers /\ q.pages = p.pages /\ q.sheet = p.sheet \o b
    BY <1>0, <1>3, TakeY DEF Is
  <2> HIDE DEF b, q
  <2>4. /\ p.sheet \o b \in Seq(RowMarks) /\ Len(p.sheet) <= Len(p.sheet \o b)
        /\ \A i \in 1..Len(p.sheet) : (p.sheet \o b)[i] = p.sheet[i]
    BY <2>2
  <2>6. IsPrefix(p.sheet, q.sheet)
    BY <2>2, <2>3, <2>4, PrefixIs
  <2> QED
    BY <2>3, <2>6, FurtherSheet DEF q
<1>4. CASE p.open /\ c.cmd = "W"
  <2> DEFINE row == [color |-> Decoded(c.data, p.colorSeed), black |-> p.blackSeed]
  <2>1. q \in Printers /\ q.pages = p.pages /\ q.sheet = Append(p.sheet, row) /\ row \in RowMarks
    BY <1>0, <1>4, TakeW, PrinterFields DEF Is, RowMarks
  <2>2. p.sheet \in Seq(RowMarks)
    BY PrinterFields
  <2> HIDE DEF row, q
  <2>4. /\ Append(p.sheet, row) \in Seq(RowMarks) /\ Len(p.sheet) <= Len(Append(p.sheet, row))
        /\ \A i \in 1..Len(p.sheet) : Append(p.sheet, row)[i] = p.sheet[i]
    BY <2>1, <2>2
  <2>6. IsPrefix(p.sheet, q.sheet)
    BY <2>1, <2>2, <2>4, PrefixIs
  <2> QED
    BY <2>1, <2>6, FurtherSheet DEF q
<1>5. CASE p.open /\ c.cmd = "FF"
  <2> DEFINE g == Append(p.pages, p.sheet)
             k == Len(p.pages)
  <2>1. p.pages \in Seq(Seq(RowMarks)) /\ p.sheet \in Seq(RowMarks)
    BY PrinterFields
  <2>2. q \in Printers /\ q.pages = g
    BY <1>5, TakeFF DEF Is
  <2>3. /\ g \in Seq(Seq(RowMarks)) /\ Len(g) = k + 1 /\ g[k + 1] = p.sheet /\ k \in Nat
        /\ \A n \in 1..k : p.pages[n] = g[n]
    BY <2>1
  <2> HIDE DEF g, q
  <2>5. IsPrefix(p.sheet, p.sheet)
    <3>1. Len(p.sheet) <= Len(p.sheet)
      BY <2>1
    <3> QED
      BY <2>1, <3>1, PrefixIs
  <2> QED
    BY <2>2, <2>3, <2>5 DEF Earlier, q
<1> QED
  BY <1>0, <1>1, <1>2, <1>3, <1>4, <1>5, PrinterFields

-----------------------------------------------------------------------------
(* The buffer of the encapsulator.                                         *)

(* A host that differs from another in nothing but its buffer.             *)
Keeps(g, h) ==
  /\ g.yPos = h.yPos /\ g.colorSeed = h.colorSeed /\ g.colorSeeded = h.colorSeeded
  /\ g.blackSeed = h.blackSeed /\ g.blackSeeded = h.blackSeeded /\ g.resetSeedRow = h.resetSeedRow
  /\ g.colorRows = h.colorRows /\ g.blackRows = h.blackRows /\ g.rowIndex = h.rowIndex
  /\ g.buffered = h.buffered /\ g.ready = h.ready /\ g.delivered = h.delivered

States == [h : Hosts, p : Printers]

LEMMA HostBuf ==
  ASSUME NEW h \in Hosts, NEW b \in Seq(Commands)
  PROVE  [h EXCEPT !.buf = b] \in Hosts /\ [h EXCEPT !.buf = b].buf = b /\ Keeps([h EXCEPT !.buf = b], h)
BY DEF Hosts, Keeps

LEMMA CleanupIs ==
  ASSUME NEW s, Typed(s)
  PROVE  /\ Typed(Cleanup(s)) /\ Settled(Cleanup(s)) = Settled(s) /\ Cleanup(s).p = Settled(s)
         /\ Cleanup(s).h.buf = << >> /\ Keeps(Cleanup(s).h, s.h)
<1> DEFINE t == Cleanup(s)
           q == Settled(s)
           e == << >>
<1>1. s \in States /\ q \in Printers /\ s.h \in Hosts /\ s.p \in Printers
  BY DEF Typed, States
<1>2. t = [s EXCEPT !.p = q, !.h.buf = e]
  BY DEF Cleanup, Settled, TakenBy
<1>3. e \in Seq(Commands)
  OBVIOUS
<1> HIDE DEF q, e, t
<1>4. t \in States /\ t.p = q /\ t.h = [s.h EXCEPT !.buf = e]
  BY <1>1, <1>2, <1>3 DEF States, Hosts
<1>5. t.h \in Hosts /\ t.h.buf = e /\ Keeps(t.h, s.h)
  BY <1>1, <1>3, <1>4, HostBuf
<1>6. Settled(t) = q
  BY <1>4, <1>5, TakenEmpty DEF Settled, e
<1>7. Typed(t)
  BY <1>1, <1>4, <1>6, EarlierRefl DEF Typed, States
<1> QED
  BY <1>4, <1>5, <1>6, <1>7 DEF t, q, e

(* A command past an empty buffer.                                         *)
LEMMA DirectIs ==
  ASSUME NEW s, Typed(s), s.h.buf = << >>, NEW c \in Commands
  PROVE  /\ Typed(Direct(s, c)) /\ Settled(Direct(s, c)) = Take(Settled(s), c)
         /\ Direct(s, c).h = s.h /\ Direct(s, c).p = Take(Settled(s), c)
<1> DEFINE t == Direct(s, c)
           q == Take(Settled(s), c)
<1>1. s \in States /\ Settled(s) \in Printers /\ Settled(s) = s.p
  BY TakenEmpty DEF Typed, States, Settled
<1>2. q \in Printers
  BY <1>1, TakeTyped
<1>3. t = [s EXCEPT !.p = q]
  BY <1>1 DEF Direct
<1> HIDE DEF q, t
<1>4. t \in States /\ t.p = q /\ t.h = s.h
  BY <1>1, <1>2, <1>3 DEF States
<1>5. Settled(t) = q
  BY <1>4, TakenEmpty DEF Settled
<1>6. Typed(t)
  BY <1>2, <1>4, <1>5, EarlierRefl DEF Typed, States
<1> QED
  BY <1>4, <1>5, <1>6 DEF t, q

LEMMA SendIs ==
  ASSUME NEW s, Typed(s), NEW c \in Commands
  PROVE  /\ Typed(Send(s, c)) /\ Settled(Send(s, c)) = Take(Settled(s), c)
         /\ Keeps(Send(s, c).h, s.h)
<1> DEFINE room == IF IsLong(c) \/ Len(s.h.buf) >= BufSize THEN Cleanup(s) ELSE s
           t == Send(s, c)
<1>1. /\ Typed(room) /\ Settled(room) = Settled(s) /\ Keeps(room.h, s.h)
      /\ IsLong(c) => room.h.buf = << >>
  <2>1. Keeps(s.h, s.h)
    BY DEF Keeps
  <2> QED
    BY <2>1, CleanupIs
<1> HIDE DEF room
<1>2. CASE IsLong(c)
  <2>1. t = Direct(room, c)
    BY <1>2 DEF Send, room
  <2>2. room.h.buf = << >>
    BY <1>1, <1>2
  <2> HIDE DEF t
  <2> QED
    BY <1>1, <2>1, <2>2, DirectIs DEF t
<1>3. CASE ~IsLong(c)
  <2> DEFINE b == Append(room.h.buf, c)
  <2>1. t = [room EXCEPT !.h.buf = b]
    BY <1>3 DEF Send, room
  <2>2. room \in States /\ room.h \in Hosts /\ room.p \in Printers /\ room.h.buf \in Seq(Commands)
    BY <1>1 DEF Typed, States, Hosts
  <2>3. b \in Seq(Commands)
    BY <2>2
  <2>4. Settled(t) = Take(Settled(room), c) /\ t \in States /\ t.p = room.p /\ Keeps(t.h, room.h)
    <3> HIDE DEF b, t
    <3>1. t \in States /\ t.p = room.p /\ t.h = [room.h EXCEPT !.buf = b]
      BY <2>1, <2>2, <2>3 DEF States, Hosts
    <3>2. t.h.buf = b /\ Keeps(t.h, room.h)
      BY <2>2, <2>3, <3>1, HostBuf
    <3>3. TakenBy(room.p, b) = Take(TakenBy(room.p, room.h.buf), c)
      BY <2>2, TakenAppend DEF b
    <3> QED
      BY <3>1, <3>2, <3>3 DEF Settled
  <2>5. Earlier(room.p, Settled(t)) /\ Settled(t) \in Printers
    <3>1. Earlier(room.p, Settled(room)) /\ Settled(room) \in Printers
      BY <1>1 DEF Typed
    <3>2. Take(Settled(room), c) \in Printers /\ Earlier(Settled(room), Take(Settled(room), c))
      BY <3>1, TakeTyped
    <3> QED
      BY <2>2, <2>4, <3>1, <3>2, EarlierTrans
  <2>6. Typed(t)
    BY <2>4, <2>5 DEF Typed, States
  <2>7. Keeps(t.h, s.h)
    BY <1>1, <2>4 DEF Keeps
  <2> QED
    BY <1>1, <2>4, <2>6, <2>7
<1> QED
  BY <1>2, <1>3

-----------------------------------------------------------------------------
(* One row through the compressors.                                        *)

KeepsRows(g, h) ==
  /\ g.colorRows = h.colorRows /\ g.blackRows = h.blackRows /\ g.rowIndex = h.rowIndex
  /\ g.buffered = h.buffered /\ g.ready = h.ready /\ g.delivered = h.delivered

(* The state between rows: host and printer agree on the seeds.            *)
Flows(s) == Typed(s) /\ Settled(s).open = TRUE /\ Seeded(s) /\ Agree(s)

(* What a raster looks like on paper.                                      *)
Shown(color, black) == [color |-> color, black |-> IF black = NoRow THEN Clear ELSE black]
BlackRow(black) == IF black = NoRow THEN Clear ELSE black

LEMMA SettledSame ==
  ASSUME NEW s, Typed(s), NEW t \in States, t.p = s.p, t.h.buf = s.h.buf
  PROVE  Typed(t) /\ Settled(t) = Settled(s)
<1>1. Settled(t) = Settled(s)
  BY DEF Settled
<1> QED
  BY <1>1 DEF Typed, States

LEMMA SendBlackIs ==
  ASSUME lang = "pcl3gui2", NEW s, Flows(s), NEW black \in Marks
  PROVE  LET t == SendBlack(s, black)  q == Settled(s)  r == Settled(t) IN
         /\ Flows(t) /\ r.pages = q.pages /\ r.sheet = q.sheet
         /\ r.blackSeed = BlackRow(black)
         /\ t.h.resetSeedRow = (s.h.resetSeedRow \/ black # NoRow)
         /\ KeepsRows(t.h, s.h) /\ t.h.yPos = s.h.yPos
<1> DEFINE row == BlackRow(black)
           skip == black = NoRow /\ ~s.h.resetSeedRow
           data == IF skip THEN Same ELSE Change(s.h.blackSeed, row)
           cmd == [cmd |-> "V", data |-> data]
           seed == IF skip THEN s.h.blackSeed ELSE row
           reset == s.h.resetSeedRow \/ black # NoRow
           coded == [s EXCEPT !.h.blackSeeded = TRUE, !.h.blackSeed = seed, !.h.resetSeedRow = reset]
           t == SendBlack(s, black)
           q == Settled(s)
<1>1. s \in States /\ s.h \in Hosts /\ q \in Printers /\ Typed(s) /\ q.open = TRUE
  BY DEF Flows, Typed, States
<1>2. t = Send(coded, cmd)
  BY DEF SendBlack, BlackRow
<1>3. row \in Marks /\ row # NoRow
  BY MarksAre DEF BlackRow
<1>4. seed = row /\ q.blackSeed = s.h.blackSeed
  BY MarksAre DEF Flows, Seeded, Agree, BlackRow
<1>5. s.h.blackSeed \in Marks /\ s.h.resetSeedRow \in BOOLEAN /\ reset \in BOOLEAN
  BY <1>1 DEF Hosts
<1>6. data \in [from : Marks, to : Marks]
  BY <1>3, <1>5, MarksAre DEF Same, Change
<1>7. Decoded(data, q.blackSeed) = row
  <2>1. CASE skip
    BY <1>4, <2>1 DEF Decoded
  <2>2. CASE ~skip /\ s.h.blackSeed = row
    BY <1>4, <2>2 DEF Decoded, Change
  <2>3. CASE ~skip /\ s.h.blackSeed # row
    <3>1. data = [from |-> s.h.blackSeed, to |-> row]
      BY <2>3 DEF Change
    <3>2. data # Same
      BY <1>3, <3>1 DEF Same
    <3> HIDE DEF data
    <3> QED
      BY <1>4, <3>1, <3>2 DEF Decoded
  <2> QED
    BY <2>1, <2>2, <2>3
<1>8. cmd \in Commands /\ cmd.cmd = "V" /\ cmd.data = data
  BY <1>6 DEF Commands
<1> HIDE DEF seed, reset, row, data, cmd
<1> DEFINE g == [s.h EXCEPT !.blackSeeded = TRUE, !.blackSeed = seed, !.resetSeedRow = reset]
<1>9. /\ g \in Hosts /\ g.buf = s.h.buf /\ KeepsRows(g, s.h) /\ g.yPos = s.h.yPos
      /\ g.blackSeeded = TRUE /\ g.blackSeed = row /\ g.resetSeedRow = reset
      /\ g.colorSeeded = s.h.colorSeeded /\ g.colorSeed = s.h.colorSeed
  BY <1>1, <1>3, <1>4, <1>5 DEF Hosts, KeepsRows
<1>10. coded = [s EXCEPT !.h = g]
  BY <1>1 DEF States, Hosts
<1> HIDE DEF g
<1>11. coded \in States /\ coded.p = s.p /\ coded.h = g
  BY <1>1, <1>9, <1>10 DEF States
<1> HIDE DEF coded
<1>12. Typed(coded) /\ Settled(coded) = q
  BY <1>1, <1>9, <1>11, SettledSame
<1>13. Typed(t) /\ Settled(t) = Take(q, cmd) /\ Keeps(t.h, g)
  BY <1>2, <1>8, <1>11, <1>12, SendIs
<1>14. Is(Settled(t), q.open, q.pages, q.sheet, q.colorSeed, row)
  <2> HIDE DEF q
  <2> QED
    BY <1>1, <1>6, <1>7, <1>8, <1>13, TakeV
<1> HIDE DEF t, q
<1>15. KeepsRows(t.h, s.h) /\ t.h.resetSeedRow = reset /\ t.h.yPos = s.h.yPos
  BY <1>9, <1>13 DEF Keeps, KeepsRows
<1>16. Agree(t)
  <2>1. q.colorSeed = s.h.colorSeed
    BY DEF Flows, Agree, q
  <2> QED
    BY <1>9, <1>13, <1>14, <2>1 DEF Agree, Is, Keeps
<1>17. Seeded(t)
  <2>1. ~t.h.colorSeeded => t.h.colorSeed = ColorZero
    BY <1>9, <1>13 DEF Flows, Seeded, Keeps
  <2>2. t.h.blackSeeded = TRUE /\ t.h.blackSeed = row
    BY <1>9, <1>13 DEF Keeps
  <2>3. ~reset => row = Clear
    BY DEF reset, row, BlackRow
  <2>4. lang = "ljcolor" => row = Clear
    OBVIOUS
  <2> QED
    BY <1>15, <2>1, <2>2, <2>3, <2>4 DEF Seeded
<1> QED
  BY <1>1, <1>13, <1>14, <1>15, <1>16, <1>17 DEF Flows, Is, t, q, row, reset

LEMMA SendColorIs ==
  ASSUME NEW s, Flows(s), NEW color \in Marks, color # NoRow
  PROVE  LET t == SendColor(s, color)  q == Settled(s)  r == Settled(t) IN
         /\ Flows(t) /\ r.pages = q.pages
         /\ r.sheet = Append(q.sheet, [color |-> color, black |-> q.blackSeed])
         /\ t.h.resetSeedRow = s.h.resetSeedRow
         /\ KeepsRows(t.h, s.h) /\ t.h.yPos = s.h.yPos
<1> DEFINE data == Change(s.h.colorSeed, color)
           cmd == [cmd |-> "W", data |-> data]
           coded == [s EXCEPT !.h.colorSeeded = TRUE, !.h.colorSeed = color]
           t == SendColor(s, color)
           q == Settled(s)
<1>1. s \in States /\ s.h \in Hosts /\ q \in Printers /\ Typed(s) /\ q.open = TRUE
  BY DEF Flows, Typed, States
<1>2. t = Send(coded, cmd)
  BY DEF SendColor
<1>3. q.colorSeed = s.h.colorSeed /\ s.h.colorSeed \in Marks
  BY <1>1 DEF Flows, Agree, Hosts
<1>4. data \in [from : Marks, to : Marks]
  BY <1>3, MarksAre DEF Same, Change
<1>5. Decoded(data, q.colorSeed) = color
  <2>1. CASE s.h.colorSeed = color
    BY <1>3, <2>1 DEF Decoded, Change
  <2>2. CASE s.h.colorSeed # color
    <3>1. data = [from |-> s.h.colorSeed, to |-> color]
      BY <2>2 DEF Change
    <3>2. data # Same
      BY <3>1 DEF Same
    <3> HIDE DEF data
    <3> QED
      BY <1>3, <3>1, <3>2 DEF Decoded
  <2> QED
    BY <2>1, <2>2
<1>6. cmd \in Commands /\ cmd.cmd = "W" /\ cmd.data = data
  BY <1>4 DEF Commands
<1> HIDE DEF data, cmd
<1> DEFINE g == [s.h EXCEPT !.colorSeeded = TRUE, !.colorSeed = color]
<1>7. /\ g \in Hosts /\ g.buf = s.h.buf /\ KeepsRows(g, s.h) /\ g.yPos = s.h.yPos
      /\ g.colorSeeded = TRUE /\ g.colorSeed = color /\ g.resetSeedRow = s.h.resetSeedRow
      /\ g.blackSeeded = s.h.blackSeeded /\ g.blackSeed = s.h.blackSeed
  BY <1>1 DEF Hosts, KeepsRows
<1>8. coded = [s EXCEPT !.h = g]
  BY <1>1 DEF States, Hosts
<1> HIDE DEF g
<1>9. coded \in States /\ coded.p = s.p /\ coded.h = g
  BY <1>1, <1>7, <1>8 DEF States
<1> HIDE DEF coded
<1>10. Typed(coded) /\ Settled(coded) = q
  BY <1>1, <1>7, <1>9, SettledSame
<1>11. Typed(t) /\ Settled(t) = Take(q, cmd) /\ Keeps(t.h, g)
  BY <1>2, <1>6, <1>9, <1>10, SendIs
<1>12. Is(Settled(t), q.open, q.pages, Append(q.sheet, [color |-> color, black |-> q.blackSeed]),
          color, q.blackSeed)
  <2> HIDE DEF q
  <2> QED
    BY <1>1, <1>4, <1>5, <1>6, <1>11, TakeW
<1> HIDE DEF t, q
<1>13. KeepsRows(t.h, s.h) /\ t.h.resetSeedRow = s.h.resetSeedRow /\ t.h.yPos = s.h.yPos
  BY <1>7, <1>11 DEF Keeps, KeepsRows
<1>14. Agree(t)
  <2>1. q.blackSeed = s.h.blackSeed
    BY DEF Flows, Agree, q
  <2> QED
    BY <1>7, <1>11, <1>12, <2>1 DEF Agree, Is, Keeps
<1>15. Seeded(t)
  <2>1. t.h.colorSeeded = TRUE /\ t.h.blackSeeded = s.h.blackSeeded /\ t.h.blackSeed = s.h.blackSeed
    BY <1>7, <1>11 DEF Keeps
  <2> QED
    BY <1>13, <2>1 DEF Seeded, Flows
<1> QED
  BY <1>1, <1>11, <1>12, <1>13, <1>14, <1>15 DEF Flows, Is, t, q

(* A row leaves the filter: on paper it is the one delivered stands at.    *)
LEMMA NextOutputIs ==
  ASSUME lang = "pcl3gui2", NEW s, Flows(s), s.h.ready > 0, s.h.colorRows[s.h.delivered] # NoRow
  PROVE  LET t == NextOutput(s)  q == Settled(s)  r == Settled(t)
             i == s.h.delivered
         IN
         /\ Flows(t) /\ r.pages = q.pages
         /\ r.sheet = Append(q.sheet, Shown(s.h.colorRows[i], s.h.blackRows[i]))
         /\ t.h.resetSeedRow = (s.h.resetSeedRow \/ s.h.blackRows[i] # NoRow)
         /\ t.h.colorRows = s.h.colorRows /\ t.h.blackRows = s.h.blackRows
         /\ t.h.rowIndex = s.h.rowIndex /\ t.h.buffered = s.h.buffered /\ t.h.yPos = s.h.yPos
         /\ t.h.ready = s.h.ready - 1 /\ t.h.delivered = (i + 1) % 4
<1> DEFINE i == s.h.delivered
           color == s.h.colorRows[i]
           black == s.h.blackRows[i]
           u == SendBlack(s, black)
           v == SendColor(u, color)
           t == NextOutput(s)
           q == Settled(s)
<1>1. s.h \in Hosts /\ i \in 0..3 /\ color \in Marks /\ black \in Marks /\ s.h.ready \in 1..4
  BY DEF Flows, Typed, Hosts
<1>2. t = [v EXCEPT !.h.ready = @ - 1, !.h.delivered = (i + 1) % 4]
  BY DEF NextOutput
<1>3. /\ Flows(u) /\ Settled(u).pages = q.pages /\ Settled(u).sheet = q.sheet
      /\ Settled(u).blackSeed = BlackRow(black)
      /\ u.h.resetSeedRow = (s.h.resetSeedRow \/ black # NoRow)
      /\ KeepsRows(u.h, s.h) /\ u.h.yPos = s.h.yPos
  <2> HIDE DEF black
  <2> QED
    BY <1>1, SendBlackIs
<1> HIDE DEF u
<1>4. /\ Flows(v) /\ Settled(v).pages = Settled(u).pages
      /\ Settled(v).sheet = Append(Settled(u).sheet, [color |-> color, black |-> Settled(u).blackSeed])
      /\ v.h.resetSeedRow = u.h.resetSeedRow
      /\ KeepsRows(v.h, u.h) /\ v.h.yPos = u.h.yPos
  <2> HIDE DEF color
  <2>1. color # NoRow
    BY DEF color
  <2> QED
    BY <1>1, <1>3, <2>1, SendColorIs
<1> HIDE DEF v
<1>5. v \in States /\ v.h \in Hosts /\ v.h.ready = s.h.ready
  BY <1>3, <1>4 DEF Flows, Typed, States, KeepsRows
<1> DEFINE n == s.h.ready - 1
           d == (i + 1) % 4
           g == [v.h EXCEPT !.ready = n, !.delivered = d]
<1>6. n \in 0..4 /\ d \in 0..3
  BY <1>1
<1>7. t = [v EXCEPT !.h.ready = n, !.h.delivered = d]
  BY <1>2, <1>5
<1> HIDE DEF n, d, t
<1>8. /\ g \in Hosts /\ g.buf = v.h.buf /\ g.colorRows = v.h.colorRows /\ g.blackRows = v.h.blackRows
      /\ g.rowIndex = v.h.rowIndex /\ g.buffered = v.h.buffered /\ g.yPos = v.h.yPos
      /\ g.colorSeeded = v.h.colorSeeded /\ g.colorSeed = v.h.colorSeed
      /\ g.blackSeeded = v.h.blackSeeded /\ g.blackSeed = v.h.blackSeed
      /\ g.resetSeedRow = v.h.resetSeedRow /\ g.ready = n /\ g.delivered = d
  BY <1>5, <1>6 DEF Hosts
<1>9. t = [v EXCEPT !.h = g]
  BY <1>5, <1>7 DEF States, Hosts
<1> HIDE DEF g
<1>10. t \in States /\ t.p = v.p /\ t.h = g
  BY <1>5, <1>8, <1>9 DEF States
<1>11. Typed(t) /\ Settled(t) = Settled(v)
  BY <1>4, <1>8, <1>10, SettledSame DEF Flows
<1>12. Flows(t)
  BY <1>4, <1>8, <1>10, <1>11 DEF Flows, Seeded, Agree
<1>13. Settled(t).sheet = Append(q.sheet, Shown(color, black)) /\ Settled(t).pages = q.pages
  BY <1>3, <1>4, <1>11 DEF Shown, BlackRow
<1>14. /\ t.h.resetSeedRow = (s.h.resetSeedRow \/ black # NoRow)
       /\ t.h.colorRows = s.h.colorRows /\ t.h.blackRows = s.h.blackRows
       /\ t.h.rowIndex = s.h.rowIndex /\ t.h.buffered = s.h.buffered /\ t.h.yPos = s.h.yPos
       /\ t.h.ready = n /\ t.h.delivered = d
  BY <1>3, <1>4, <1>8, <1>10 DEF KeepsRows
<1> QED
  BY <1>12, <1>13, <1>14 DEF t, n, d

(* Rows n of the filter are on paper, behind a sheet.                      *)
Followed(sheet, old, colorRows, blackRows, n) ==
  /\ Len(sheet) = Len(old) + n
  /\ \A i \in 1..Len(old) : sheet[i] = old[i]
  /\ \A i \in 0..n - 1 : sheet[Len(old) + i + 1] = Shown(colorRows[i], blackRows[i])

LEMMA FollowedNext ==
  ASSUME NEW old \in Seq(RowMarks), NEW sheet \in Seq(RowMarks), NEW c, NEW b, NEW k \in Nat,
         Followed(sheet, old, c, b, k), NEW row \in RowMarks, row = Shown(c[k], b[k])
  PROVE  Followed(Append(sheet, row), old, c, b, k + 1)
<1> DEFINE g == Append(sheet, row)
           m == Len(old)
<1>1. m \in Nat /\ Len(sheet) = m + k /\ Len(g) = m + k + 1 /\ g[m + k + 1] = row
      /\ \A i \in 1..m + k : g[i] = sheet[i]
  BY DEF Followed
<1>2. /\ \A i \in 1..m : sheet[i] = old[i]
      /\ \A i \in 0..k - 1 : sheet[m + i + 1] = Shown(c[i], b[i])
  BY DEF Followed
<1> HIDE DEF g, m
<1>3. \A i \in 1..m : g[i] = old[i]
  BY <1>1, <1>2
<1>4. ASSUME NEW i \in 0..(k + 1) - 1 PROVE g[m + i + 1] = Shown(c[i], b[i])
  <2>1. CASE i = k
    BY <1>1, <2>1
  <2>2. CASE i # k
    <3>1. i \in 0..k - 1 /\ m + i + 1 \in 1..m + k
      BY <1>1, <2>2
    <3> QED
      BY <1>1, <1>2, <3>1
  <2> QED
    BY <2>1, <2>2
<1>5. Len(g) = m + (k + 1)
  BY <1>1
<1> QED
  BY <1>3, <1>4, <1>5 DEF Followed, g, m

LEMMA ShownIs ==
  ASSUME NEW c \in Marks, NEW b \in Marks
  PROVE  Shown(c, b) \in RowMarks
BY MarksAre DEF Shown, RowMarks

(* How far the filter is emptied after k of n rows.                        *)
Emptied(s, n, k, u) ==
  /\ Flows(u) /\ Settled(u).pages = Settled(s).pages
  /\ u.h.ready = n - k /\ u.h.delivered = k % 4
  /\ u.h.colorRows = s.h.colorRows /\ u.h.blackRows = s.h.blackRows
  /\ u.h.rowIndex = s.h.rowIndex /\ u.h.buffered = s.h.buffered /\ u.h.yPos = s.h.yPos
  /\ Followed(Settled(u).sheet, Settled(s).sheet, s.h.colorRows, s.h.blackRows, k)
  /\ (\A i \in 0..3 : s.h.blackRows[i] = NoRow) => u.h.resetSeedRow = s.h.resetSeedRow

LEMMA FlowsFields ==
  ASSUME NEW s, Flows(s)
  PROVE  /\ s \in States /\ s.h \in Hosts /\ Settled(s) \in Printers /\ Typed(s)
         /\ Settled(s).sheet \in Seq(RowMarks) /\ Settled(s).pages \in Seq(Seq(RowMarks))
         /\ Settled(s).open = TRUE
BY PrinterFields DEF Flows, Typed, States

LEMMA EmptiedNext ==
  ASSUME lang = "pcl3gui2", NEW s, Flows(s), NEW n \in 0..4, NEW k \in Nat, k < n,
         \A i \in 0..n - 1 : s.h.colorRows[i] # NoRow, NEW u, Emptied(s, n, k, u)
  PROVE  Emptied(s, n, k + 1, NextOutput(u))
<1> DEFINE t == NextOutput(u)
           c == s.h.colorRows
           b == s.h.blackRows
<1>1. k \in 0..3 /\ k \in 0..n - 1 /\ k % 4 = k
  OBVIOUS
<1>2. /\ Flows(u) /\ u.h.ready = n - k /\ u.h.delivered = k /\ u.h.colorRows = c /\ u.h.blackRows = b
      /\ Settled(u).pages = Settled(s).pages
      /\ u.h.rowIndex = s.h.rowIndex /\ u.h.buffered = s.h.buffered /\ u.h.yPos = s.h.yPos
  BY <1>1 DEF Emptied
<1>3. u.h.ready > 0 /\ u.h.colorRows[u.h.delivered] # NoRow
  BY <1>1, <1>2
<1>4. /\ Flows(t) /\ Settled(t).pages = Settled(u).pages
      /\ Settled(t).sheet = Append(Settled(u).sheet, Shown(c[k], b[k]))
      /\ t.h.resetSeedRow = (u.h.resetSeedRow \/ b[k] # NoRow)
      /\ t.h.colorRows = c /\ t.h.blackRows = b
      /\ t.h.rowIndex = u.h.rowIndex /\ t.h.buffered = u.h.buffered /\ t.h.yPos = u.h.yPos
      /\ t.h.ready = u.h.ready - 1 /\ t.h.delivered = (k + 1) % 4
  <2> HIDE DEF t
  <2> QED
    BY <1>2, <1>3, NextOutputIs DEF t
<1>5. Followed(Settled(t).sheet, Settled(s).sheet, c, b, k + 1)
  <2>1. Settled(s).sheet \in Seq(RowMarks) /\ Settled(u).sheet \in Seq(RowMarks)
    BY <1>2, FlowsFields
  <2>2. c[k] \in Marks /\ b[k] \in Marks
    BY <1>1, FlowsFields DEF Hosts
  <2>3. Shown(c[k], b[k]) \in RowMarks
    BY <2>2, ShownIs
  <2>4. Followed(Settled(u).sheet, Settled(s).sheet, c, b, k)
    BY DEF Emptied
  <2> HIDE DEF t, c, b
  <2> QED
    BY <1>4, <2>1, <2>3, <2>4, FollowedNext
<1>6. (\A i \in 0..3 : b[i] = NoRow) => t.h.resetSeedRow = s.h.resetSeedRow
  <2>1. s.h.resetSeedRow \in BOOLEAN
    BY FlowsFields DEF Hosts
  <2>2. (\A i \in 0..3 : b[i] = NoRow) => u.h.resetSeedRow = s.h.resetSeedRow
    BY DEF Emptied
  <2> HIDE DEF t, b
  <2> QED
    BY <1>1, <1>4, <2>1, <2>2
<1>7. t.h.ready = n - (k + 1)
  BY <1>2, <1>4
<1> QED
  BY <1>2, <1>4, <1>5, <1>6, <1>7 DEF Emptied

LEMMA DrainedIs ==
  ASSUME lang = "pcl3gui2", NEW s, Flows(s), s.h.delivered = 0,
         \A i \in 0..s.h.ready - 1 : s.h.colorRows[i] # NoRow
  PROVE  Emptied(s, s.h.ready, s.h.ready, Drained(s))
<1> DEFINE n == s.h.ready
           w == [i \in 1..n |-> i]
<1>1. n \in 0..4 /\ n \in Nat
  <2>1. s.h \in Hosts
    BY FlowsFields
  <2> QED
    BY <2>1 DEF Hosts
<1>2. DOMAIN w = 1..n
  OBVIOUS
<1>3. Drained(s) = DrainedBy(s, w)
  BY DEF Drained, DrainedBy
<1> HIDE DEF n, w
<1>4. PICK it : IsDrain(it, s, w, n) /\ DrainedBy(s, w) = it[1..n]
  BY <1>1, <1>2, DrainTable
<1>5. it[{}] = s /\ \A i \in 1..n : DrainStep(it, w, i)
  BY <1>1, <1>4, DrainAt
<1> DEFINE T == {k \in 0..n : Emptied(s, n, k, it[1..k])}
<1>6. 0 \in T
  <2>1. 1..0 = {} /\ 0 \in 0..n /\ 0 % 4 = 0 /\ n - 0 = n
    BY <1>1
  <2>2. Followed(Settled(s).sheet, Settled(s).sheet, s.h.colorRows, s.h.blackRows, 0)
    <3>1. Settled(s).sheet \in Seq(RowMarks)
      BY FlowsFields
    <3> QED
      BY <3>1 DEF Followed
  <2>3. Emptied(s, n, 0, s)
    BY <2>1, <2>2 DEF Emptied, n
  <2> QED
    BY <1>5, <2>1, <2>3
<1>7. ASSUME NEW k \in 0..n, k \in T, k < n PROVE k + 1 \in T
  <2>1. k + 1 \in 1..n /\ (k + 1) - 1 = k /\ k + 1 \in 0..n /\ k \in Nat
    BY <1>1, <1>7
  <2>2. it[1..(k + 1)] = NextOutput(it[1..k])
    BY <1>5, <2>1 DEF DrainStep
  <2>3. Emptied(s, n, k, it[1..k])
    BY <1>7
  <2>4. \A i \in 0..n - 1 : s.h.colorRows[i] # NoRow
    BY DEF n
  <2>5. Emptied(s, n, k + 1, NextOutput(it[1..k]))
    BY <1>1, <1>7, <2>1, <2>3, <2>4, EmptiedNext
  <2> QED
    BY <2>1, <2>2, <2>5
<1>8. Emptied(s, n, n, it[1..n])
  <2> HIDE DEF T
  <2>1. 0..n \subseteq T
    BY <1>1, <1>6, <1>7, Induction
  <2>2. n \in 0..n
    BY <1>1
  <2> QED
    BY <2>1, <2>2 DEF T
<1> QED
  BY <1>3, <1>4, <1>8 DEF n

-----------------------------------------------------------------------------
(* The filter between rows, and the page that sheet, filter and skipped    *)
(* rows make up.                                                           *)
Rest(h) == h.ready = 0 /\ h.rowIndex = h.buffered

NoBlack(h) == h.resetSeedRow = FALSE /\ \A i \in 0..3 : h.blackRows[i] = NoRow

MakeUp(sheet, h, skip, page) ==
  /\ Len(page) = Len(sheet) + h.buffered + skip
  /\ \A i \in 1..Len(sheet) : page[i] = sheet[i]
  /\ \A i \in 0..h.buffered - 1 :
        page[Len(sheet) + i + 1] = Shown(h.colorRows[i], h.blackRows[i]) /\ h.colorRows[i] # NoRow
  /\ \A i \in Len(sheet) + h.buffered + 1 .. Len(page) : page[i] = Blank

(* A host whose seeds are cleared, whatever those of the printer.          *)
Flushed(s) ==
  /\ Typed(s) /\ Settled(s).open = TRUE /\ Seeded(s)
  /\ s.h.colorSeed = ColorZero /\ s.h.blackSeed = Clear

LEMMA FlushColorIs ==
  ASSUME NEW s, Typed(s), Seeded(s)
  PROVE  LET t == FlushColor(s) IN
         /\ Typed(t) /\ Settled(t) = Settled(s) /\ Seeded(t)
         /\ t.h.colorSeed = ColorZero /\ t.h.blackSeed = s.h.blackSeed
         /\ t.h.resetSeedRow = s.h.resetSeedRow /\ KeepsRows(t.h, s.h) /\ t.h.yPos = s.h.yPos
<1> DEFINE t == FlushColor(s)
<1>1. s \in States /\ s.h \in Hosts /\ ColorZero \in Marks
  BY MarksAre DEF Typed, States
<1>2. CASE s.h.colorSeeded
  <2> DEFINE g == [s.h EXCEPT !.colorSeeded = FALSE, !.colorSeed = ColorZero]
  <2>1. t = [s EXCEPT !.h.colorSeeded = FALSE, !.h.colorSeed = ColorZero]
    BY <1>2 DEF FlushColor
  <2>2. /\ g \in Hosts /\ g.buf = s.h.buf /\ KeepsRows(g, s.h) /\ g.yPos = s.h.yPos
        /\ g.colorSeeded = FALSE /\ g.colorSeed = ColorZero /\ g.resetSeedRow = s.h.resetSeedRow
        /\ g.blackSeeded = s.h.blackSeeded /\ g.blackSeed = s.h.blackSeed
    BY <1>1 DEF Hosts, KeepsRows
  <2>3. t = [s EXCEPT !.h = g]
    BY <1>1, <2>1 DEF States, Hosts
  <2> HIDE DEF g, t
  <2>4. t \in States /\ t.p = s.p /\ t.h = g
    BY <1>1, <2>2, <2>3 DEF States
  <2>5. Typed(t) /\ Settled(t) = Settled(s)
    BY <2>2, <2>4, SettledSame
  <2> QED
    BY <2>2, <2>4, <2>5 DEF Seeded, KeepsRows, t
<1>3. CASE ~s.h.colorSeeded
  <2>1. t = s
    BY <1>3 DEF FlushColor
  <2> QED
    BY <1>3, <2>1 DEF Seeded, KeepsRows
<1> QED
  BY <1>2, <1>3

LEMMA FlushBlackIs ==
  ASSUME NEW s, Typed(s), Seeded(s)
  PROVE  LET t == FlushBlack(s) IN
         /\ Typed(t) /\ Settled(t) = Settled(s) /\ Seeded(t)
         /\ t.h.colorSeed = s.h.colorSeed /\ t.h.blackSeed = Clear
         /\ t.h.resetSeedRow = s.h.resetSeedRow /\ KeepsRows(t.h, s.h) /\ t.h.yPos = s.h.yPos
<1> DEFINE t == FlushBlack(s)
<1>1. s \in States /\ s.h \in Hosts /\ Clear \in Marks
  BY MarksAre DEF Typed, States
<1>2. CASE s.h.blackSeeded
  <2> DEFINE g == [s.h EXCEPT !.blackSeeded = FALSE, !.blackSeed = Clear]
  <2>1. t = [s EXCEPT !.h.blackSeeded = FALSE, !.h.blackSeed = Clear]
    BY <1>2 DEF FlushBlack
  <2>2. /\ g \in Hosts /\ g.buf = s.h.buf /\ KeepsRows(g, s.h) /\ g.yPos = s.h.yPos
        /\ g.blackSeeded = FALSE /\ g.blackSeed = Clear /\ g.resetSeedRow = s.h.resetSeedRow
        /\ g.colorSeeded = s.h.colorSeeded /\ g.colorSeed = s.h.colorSeed
    BY <1>1 DEF Hosts, KeepsRows
  <2>3. t = [s EXCEPT !.h = g]
    BY <1>1, <2>1 DEF States, Hosts
  <2> HIDE DEF g, t
  <2>4. t \in States /\ t.p = s.p /\ t.h = g
    BY <1>1, <2>2, <2>3 DEF States
  <2>5. Typed(t) /\ Settled(t) = Settled(s)
    BY <2>2, <2>4, SettledSame
  <2> QED
    BY <2>2, <2>4, <2>5 DEF Seeded, KeepsRows, t
<1>3. CASE ~s.h.blackSeeded
  <2>1. t = s
    BY <1>3 DEF FlushBlack
  <2> QED
    BY <1>3, <2>1 DEF Seeded, KeepsRows
<1> QED
  BY <1>2, <1>3

LEMMA ReleasedIs ==
  ASSUME NEW s, Flows(s)
  PROVE  LET t == ErnieReleased(s) IN
         /\ Flows(t) /\ Settled(t) = Settled(s)
         /\ t.h.ready = s.h.buffered /\ t.h.delivered = 0 /\ t.h.buffered = 0 /\ t.h.rowIndex = 0
         /\ t.h.colorRows = s.h.colorRows /\ t.h.blackRows = s.h.blackRows
         /\ t.h.resetSeedRow = s.h.resetSeedRow /\ t.h.yPos = s.h.yPos
<1> DEFINE n == s.h.buffered
           t == ErnieReleased(s)
           g == [s.h EXCEPT !.delivered = 0, !.ready = n, !.buffered = 0, !.rowIndex = 0]
<1>1. s \in States /\ s.h \in Hosts /\ Typed(s)
  BY FlowsFields
<1>2. n \in 0..4
  BY <1>1 DEF Hosts
<1>3. t = [s EXCEPT !.h.delivered = 0, !.h.ready = n, !.h.buffered = 0, !.h.rowIndex = 0]
  BY DEF ErnieReleased
<1> HIDE DEF n
<1>4. /\ g \in Hosts /\ g.buf = s.h.buf /\ g.yPos = s.h.yPos
      /\ g.colorSeeded = s.h.colorSeeded /\ g.colorSeed = s.h.colorSeed
      /\ g.blackSeeded = s.h.blackSeeded /\ g.blackSeed = s.h.blackSeed
      /\ g.resetSeedRow = s.h.resetSeedRow /\ g.colorRows = s.h.colorRows /\ g.blackRows = s.h.blackRows
      /\ g.rowIndex = 0 /\ g.buffered = 0 /\ g.ready = n /\ g.delivered = 0
  <2> DEFINE h == s.h
  <2>1. h \in Hosts /\ 0 \in 0..3
    BY <1>1
  <2> HIDE DEF h
  <2>2. [h EXCEPT !.delivered = 0, !.ready = n, !.buffered = 0, !.rowIndex = 0] \in Hosts
    BY <1>2, <2>1 DEF Hosts
  <2>3. LET f == [h EXCEPT !.delivered = 0, !.ready = n, !.buffered = 0, !.rowIndex = 0] IN
        /\ f.buf = h.buf /\ f.yPos = h.yPos
        /\ f.colorSeeded = h.colorSeeded /\ f.colorSeed = h.colorSeed
        /\ f.blackSeeded = h.blackSeeded /\ f.blackSeed = h.blackSeed
        /\ f.resetSeedRow = h.resetSeedRow /\ f.colorRows = h.colorRows /\ f.blackRows = h.blackRows
        /\ f.rowIndex = 0 /\ f.buffered = 0 /\ f.ready = n /\ f.delivered = 0
    BY <2>1 DEF Hosts
  <2> QED
    BY <2>2, <2>3 DEF h
<1>5. t = [s EXCEPT !.h = g]
  BY <1>1, <1>3 DEF States, Hosts
<1> HIDE DEF g, t
<1>6. t \in States /\ t.p = s.p /\ t.h = g
  BY <1>1, <1>4, <1>5 DEF States
<1>7. Typed(t) /\ Settled(t) = Settled(s)
  BY <1>1, <1>4, <1>6, SettledSame
<1> QED
  BY <1>4, <1>6, <1>7 DEF Flows, Seeded, Agree, t, n

(* The rows of the filter go to the sheet, the page stays what it is.      *)
LEMMA MakeUpReleased ==
  ASSUME NEW old \in Seq(RowMarks), NEW sheet \in Seq(RowMarks), NEW page \in Seq(RowMarks), NEW skip \in Nat,
         NEW h \in Hosts, NEW g, g.buffered = 0, MakeUp(old, h, skip, page),
         Followed(sheet, old, h.colorRows, h.blackRows, h.buffered)
  PROVE  MakeUp(sheet, g, skip, page)
<1> DEFINE m == Len(old)
           n == h.buffered
           c == h.colorRows
           b == h.blackRows
<1>1. m \in Nat /\ n \in Nat
  BY DEF Hosts
<1>2. /\ Len(page) = m + n + skip
      /\ \A i \in 1..m : page[i] = old[i]
      /\ \A i \in 0..n - 1 : page[m + i + 1] = Shown(c[i], b[i])
      /\ \A i \in m + n + 1 .. Len(page) : page[i] = Blank
  BY DEF MakeUp
<1>3. /\ Len(sheet) = m + n
      /\ \A i \in 1..m : sheet[i] = old[i]
      /\ \A i \in 0..n - 1 : sheet[m + i + 1] = Shown(c[i], b[i])
  BY DEF Followed
<1> HIDE DEF m, n, c, b
<1>4. ASSUME NEW i \in 1..m + n PROVE page[i] = sheet[i]
  <2>1. CASE i <= m
    <3>1. i \in 1..m
      BY <1>1, <2>1
    <3> QED
      BY <1>2, <1>3, <3>1
  <2>2. CASE ~(i <= m)
    <3>1. i - m - 1 \in 0..n - 1 /\ m + (i - m - 1) + 1 = i
      BY <1>1, <2>2
    <3> QED
      BY <1>2, <1>3, <3>1
  <2> QED
    BY <2>1, <2>2
<1>5. Len(page) = (m + n) + 0 + skip /\ m + n + 0 = m + n
  BY <1>1, <1>2
<1> QED
  BY <1>2, <1>3, <1>4, <1>5 DEF MakeUp

LEMMA FlushIs ==
  ASSUME lang \in {"pcl3gui2", "ljcolor"}, NEW s, Flows(s), Rest(s.h), lang = "ljcolor" => s.h.buffered = 0,
         NEW page \in Seq(RowMarks), NEW skip \in Nat, MakeUp(Settled(s).sheet, s.h, skip, page)
  PROVE  LET t == Flush(s) IN
         /\ Flushed(t) /\ Settled(t).pages = Settled(s).pages /\ Rest(t.h) /\ t.h.buffered = 0
         /\ MakeUp(Settled(t).sheet, t.h, skip, page)
         /\ NoBlack(s.h) => NoBlack(t.h)
<1> DEFINE t == Flush(s)
<1>1. Typed(s) /\ Seeded(s) /\ Settled(s).open = TRUE
  BY DEF Flows
<1>2. CASE lang = "ljcolor"
  <2>1. t = FlushColor(s)
    BY <1>2 DEF Flush
  <2>2. /\ Typed(t) /\ Settled(t) = Settled(s) /\ Seeded(t)
        /\ t.h.colorSeed = ColorZero /\ t.h.blackSeed = s.h.blackSeed
        /\ t.h.resetSeedRow = s.h.resetSeedRow /\ KeepsRows(t.h, s.h)
    BY <1>1, <2>1, FlushColorIs
  <2> HIDE DEF t
  <2>3. t.h.blackSeed = Clear
    BY <1>1, <1>2, <2>2 DEF Seeded
  <2>4. MakeUp(Settled(t).sheet, t.h, skip, page)
    BY <2>2 DEF MakeUp, KeepsRows
  <2> QED
    BY <1>1, <1>2, <2>2, <2>3, <2>4 DEF Flushed, Rest, NoBlack, KeepsRows, t
<1>3. CASE lang = "pcl3gui2"
  <2> DEFINE r == ErnieReleased(s)
             d == Drained(r)
             u == FlushColor(d)
  <2>1. t = FlushBlack(u)
    BY <1>3 DEF Flush
  <2>2. /\ Flows(r) /\ Settled(r) = Settled(s)
        /\ r.h.ready = s.h.buffered /\ r.h.delivered = 0 /\ r.h.buffered = 0 /\ r.h.rowIndex = 0
        /\ r.h.colorRows = s.h.colorRows /\ r.h.blackRows = s.h.blackRows
        /\ r.h.resetSeedRow = s.h.resetSeedRow /\ r.h.yPos = s.h.yPos
    BY ReleasedIs
  <2>3. \A i \in 0..r.h.ready - 1 : r.h.colorRows[i] # NoRow
    BY <2>2 DEF MakeUp
  <2> HIDE DEF r
  <2>4. Emptied(r, r.h.ready, r.h.ready, d)
    BY <1>3, <2>2, <2>3, DrainedIs
  <2> HIDE DEF d
  <2>5. /\ Flows(d) /\ Settled(d).pages = Settled(s).pages /\ d.h.ready = 0
        /\ d.h.colorRows = s.h.colorRows /\ d.h.blackRows = s.h.blackRows
        /\ d.h.rowIndex = 0 /\ d.h.buffered = 0
        /\ Followed(Settled(d).sheet, Settled(s).sheet, s.h.colorRows, s.h.blackRows, s.h.buffered)
        /\ (\A i \in 0..3 : s.h.blackRows[i] = NoRow) => d.h.resetSeedRow = s.h.resetSeedRow
    <3>1. r.h.ready \in 0..4
      <4>1. r.h \in Hosts
        BY <2>2, FlowsFields
      <4> QED
        BY <4>1 DEF Hosts
    <3>2. r.h.ready - r.h.ready = 0
      BY <3>1
    <3> QED
      BY <2>2, <2>4, <3>2 DEF Emptied
  <2>6. /\ Typed(u) /\ Settled(u) = Settled(d) /\ Seeded(u)
        /\ u.h.colorSeed = ColorZero /\ u.h.resetSeedRow = d.h.resetSeedRow /\ KeepsRows(u.h, d.h)
    BY <2>5, FlushColorIs DEF Flows
  <2> HIDE DEF u
  <2>7. /\ Typed(t) /\ Settled(t) = Settled(u) /\ Seeded(t)
        /\ t.h.colorSeed = u.h.colorSeed /\ t.h.blackSeed = Clear
        /\ t.h.resetSeedRow = u.h.resetSeedRow /\ KeepsRows(t.h, u.h)
    BY <2>1, <2>6, FlushBlackIs
  <2> HIDE DEF t
  <2>8. /\ t.h.buffered = 0 /\ t.h.rowIndex = 0 /\ t.h.ready = 0 /\ t.h.blackRows = s.h.blackRows
        /\ t.h.resetSeedRow = d.h.resetSeedRow
    BY <2>5, <2>6, <2>7 DEF KeepsRows
  <2>9. MakeUp(Settled(t).sheet, t.h, skip, page)
    <3>1. Settled(s).sheet \in Seq(RowMarks) /\ Settled(d).sheet \in Seq(RowMarks) /\ s.h \in Hosts
      BY <2>5, FlowsFields
    <3>2. MakeUp(Settled(d).sheet, t.h, skip, page)
      BY <2>5, <2>8, <3>1, MakeUpReleased
    <3> QED
      BY <2>6, <2>7, <3>2
  <2>10. NoBlack(s.h) => NoBlack(t.h)
    BY <2>5, <2>8 DEF NoBlack
  <2>11. Settled(t).open = TRUE /\ Settled(t).pages = Settled(s).pages
    BY <2>5, <2>6, <2>7 DEF Flows
  <2> QED
    BY <2>6, <2>7, <2>8, <2>9, <2>10, <2>11 DEF Flushed, Rest, t
<1> QED
  BY <1>2, <1>3

(* A page, one row longer, when the row went into the filter.              *)
Longer(sheet, page, colorRows, blackRows, i) ==
  /\ page \in Seq(RowMarks) /\ Len(page) = Len(sheet) + (i + 1)
  /\ \A j \in 1..Len(sheet) : page[j] = sheet[j]
  /\ \A j \in 0..i : page[Len(sheet) + j + 1] = Shown(colorRows[j], blackRows[j]) /\ colorRows[j] # NoRow

LEMMA MakeUpKept ==
  ASSUME NEW sheet \in Seq(RowMarks), NEW page \in Seq(RowMarks),
         NEW h \in Hosts, MakeUp(sheet, h, 0, page), NEW c \in Marks, c # NoRow, NEW b \in Marks
  PROVE  Longer(sheet, Append(page, Shown(c, b)), [h.colorRows EXCEPT ![h.buffered] = c],
                [h.blackRows EXCEPT ![h.buffered] = b], h.buffered)
<1> DEFINE i == h.buffered
           color == [h.colorRows EXCEPT ![i] = c]
           black == [h.blackRows EXCEPT ![i] = b]
           row == Shown(c, b)
           p == Append(page, row)
           m == Len(sheet)
<1>1. row \in RowMarks
  BY ShownIs
<1>2. /\ i \in 0..3 /\ h.colorRows \in [0..3 -> Marks] /\ h.blackRows \in [0..3 -> Marks]
  BY DEF Hosts
<1>3. /\ color[i] = c /\ black[i] = b
      /\ \A j \in 0..i - 1 : color[j] = h.colorRows[j] /\ black[j] = h.blackRows[j]
  BY <1>2
<1>4. /\ m \in Nat /\ Len(page) = m + i /\ \A j \in 1..m : page[j] = sheet[j]
      /\ \A j \in 0..i - 1 : page[m + j + 1] = Shown(h.colorRows[j], h.blackRows[j]) /\ h.colorRows[j] # NoRow
  BY <1>2 DEF MakeUp
<1> HIDE DEF row
<1>5. /\ p \in Seq(RowMarks) /\ Len(p) = Len(page) + 1 /\ p[Len(page) + 1] = row
      /\ \A j \in 1..Len(page) : p[j] = page[j]
  BY <1>1
<1> HIDE DEF i, color, black, p, m
<1>6. Len(p) = m + (i + 1) /\ p[m + i + 1] = row
  BY <1>2, <1>4, <1>5
<1>7. \A j \in 1..m : p[j] = sheet[j]
  BY <1>2, <1>4, <1>5
<1>8. ASSUME NEW j \in 0..i PROVE p[m + j + 1] = Shown(color[j], black[j]) /\ color[j] # NoRow
  <2>1. CASE j = i
    BY <1>3, <1>6, <2>1 DEF row
  <2>2. CASE j # i
    <3>1. j \in 0..i - 1 /\ m + j + 1 \in 1..Len(page)
      BY <1>2, <1>4, <2>2
    <3> QED
      BY <1>3, <1>4, <1>5, <3>1
  <2> QED
    BY <2>1, <2>2
<1>9. Longer(sheet, p, color, black, i)
  BY <1>5, <1>6, <1>7, <1>8 DEF Longer, m
<1> QED
  BY <1>9 DEF i, color, black, p, row

(* A row goes into the filter, which may then be full.                     *)
Kept(s, row) ==
  [s EXCEPT !.h.blackRows[s.h.rowIndex] = row.black,
            !.h.rowIndex = (@ + 1) % 4,
            !.h.colorRows[s.h.buffered] = row.color,
            !.h.buffered = (s.h.buffered + 1) % 4,
            !.h.delivered = 0,
            !.h.ready = IF s.h.buffered + 1 = 4 THEN 4 ELSE 0]

LEMMA KeptIs ==
  ASSUME NEW s, Flows(s), Rest(s.h), NEW row, row.color \in Marks, row.black \in Marks
  PROVE  LET t == Kept(s, row)
             i == s.h.buffered
         IN
         /\ Flows(t) /\ Settled(t) = Settled(s)
         /\ t.h.colorRows = [s.h.colorRows EXCEPT ![i] = row.color]
         /\ t.h.blackRows = [s.h.blackRows EXCEPT ![i] = row.black]
         /\ t.h.rowIndex = (i + 1) % 4 /\ t.h.buffered = (i + 1) % 4
         /\ t.h.delivered = 0 /\ t.h.ready = (IF i = 3 THEN 4 ELSE 0)
         /\ t.h.resetSeedRow = s.h.resetSeedRow
<1> DEFINE h == s.h
           i == h.buffered
           n == (i + 1) % 4
           full == IF i = 3 THEN 4 ELSE 0
           color == [h.colorRows EXCEPT ![i] = row.color]
           black == [h.blackRows EXCEPT ![i] = row.black]
           g == [h EXCEPT !.blackRows = black, !.rowIndex = n, !.colorRows = color, !.buffered = n,
                          !.delivered = 0, !.ready = full]
           t == Kept(s, row)
<1>1. s \in States /\ h \in Hosts /\ Typed(s)
  BY FlowsFields
<1>2. i \in 0..3 /\ h.rowIndex = i /\ h.colorRows \in [0..3 -> Marks] /\ h.blackRows \in [0..3 -> Marks]
  BY <1>1 DEF Hosts, Rest
<1>3. /\ n \in 0..3 /\ full \in 0..4 /\ 0 \in 0..3
      /\ color \in [0..3 -> Marks] /\ black \in [0..3 -> Marks]
  BY <1>2
<1>4. t = [s EXCEPT !.h.blackRows = black, !.h.rowIndex = n, !.h.colorRows = color,
                    !.h.buffered = n, !.h.delivered = 0, !.h.ready = full]
  <2>1. (IF i + 1 = 4 THEN 4 ELSE 0) = full
    BY <1>2
  <2> QED
    BY <1>1, <1>2, <2>1 DEF Kept, States, Hosts
<1> HIDE DEF h, i, n, full, color, black
<1>5. g \in Hosts
  BY <1>1, <1>3 DEF Hosts
<1>6. /\ g.buf = h.buf /\ g.yPos = h.yPos
      /\ g.colorSeeded = h.colorSeeded /\ g.colorSeed = h.colorSeed
      /\ g.blackSeeded = h.blackSeeded /\ g.blackSeed = h.blackSeed
      /\ g.resetSeedRow = h.resetSeedRow
      /\ g.colorRows = color /\ g.blackRows = black
      /\ g.rowIndex = n /\ g.buffered = n /\ g.ready = full /\ g.delivered = 0
  BY <1>1 DEF Hosts
<1>7. t = [s EXCEPT !.h = g]
  BY <1>1, <1>4 DEF States, Hosts, h
<1> HIDE DEF g, t
<1>8. t \in States /\ t.p = s.p /\ t.h = g
  BY <1>1, <1>5, <1>7 DEF States
<1>9. Typed(t) /\ Settled(t) = Settled(s)
  BY <1>1, <1>6, <1>8, SettledSame DEF h
<1>10. Flows(t)
  BY <1>6, <1>8, <1>9 DEF Flows, Seeded, Agree, h
<1> QED
  BY <1>6, <1>8, <1>9, <1>10 DEF t, h, i, n, full, color, black

LEMMA ErnieIs ==
  ASSUME lang = "pcl3gui2", NEW s, Flows(s), Rest(s.h),
         NEW row, row.color \in Marks, row.black \in Marks, row.color # NoRow,
         NEW page \in Seq(RowMarks), MakeUp(Settled(s).sheet, s.h, 0, page)
  PROVE  LET t == Ernie(s, row)
             p == Append(page, Shown(row.color, row.black))
         IN /\ Flows(t) /\ Rest(t.h) /\ Settled(t).pages = Settled(s).pages
            /\ MakeUp(Settled(t).sheet, t.h, 0, p)
            /\ NoBlack(s.h) /\ row.black = NoRow => NoBlack(t.h)
<1> DEFINE i == s.h.buffered
           color == [s.h.colorRows EXCEPT ![i] = row.color]
           black == [s.h.blackRows EXCEPT ![i] = row.black]
           p == Append(page, Shown(row.color, row.black))
           k == Kept(s, row)
           t == Ernie(s, row)
           old == Settled(s).sheet
<1>1. s.h \in Hosts /\ old \in Seq(RowMarks) /\ i \in 0..3
  <2>1. s.h \in Hosts
    BY FlowsFields
  <2> QED
    BY <2>1, FlowsFields DEF Hosts
<1>2. /\ Flows(k) /\ Settled(k) = Settled(s) /\ k.h.colorRows = color /\ k.h.blackRows = black
      /\ k.h.rowIndex = (i + 1) % 4 /\ k.h.buffered = (i + 1) % 4
      /\ k.h.delivered = 0 /\ k.h.ready = (IF i = 3 THEN 4 ELSE 0)
      /\ k.h.resetSeedRow = s.h.resetSeedRow
  BY KeptIs
<1>3. /\ p \in Seq(RowMarks) /\ Len(p) = Len(old) + (i + 1)
      /\ \A j \in 1..Len(old) : p[j] = old[j]
      /\ \A j \in 0..i : p[Len(old) + j + 1] = Shown(color[j], black[j]) /\ color[j] # NoRow
  <2>1. Longer(old, p, color, black, i)
    BY <1>1, MakeUpKept
  <2> QED
    BY <2>1 DEF Longer
<1>4. t = IF i + 1 = 4 THEN Drained(k) ELSE k
  BY DEF Ernie, Kept
<1>5. NoBlack(s.h) /\ row.black = NoRow => s.h.resetSeedRow = FALSE /\ \A j \in 0..3 : black[j] = NoRow
  <2>1. s.h.blackRows \in [0..3 -> Marks]
    BY <1>1 DEF Hosts
  <2> QED
    BY <2>1 DEF NoBlack
<1>6. Len(old) \in Nat
  BY <1>1
<1> HIDE DEF k, t, p, color, black, old
<1>7. CASE i = 3
  <2>1. t = Drained(k) /\ k.h.ready = 4 /\ k.h.rowIndex = 0 /\ k.h.buffered = 0
    BY <1>2, <1>4, <1>7
  <2>2. \A j \in 0..k.h.ready - 1 : k.h.colorRows[j] # NoRow
    BY <1>2, <1>3, <1>7, <2>1
  <2>3. Emptied(k, 4, 4, t)
    BY <1>2, <2>1, <2>2, DrainedIs
  <2>4. /\ Flows(t) /\ Settled(t).pages = Settled(s).pages /\ t.h.ready = 0
        /\ t.h.rowIndex = 0 /\ t.h.buffered = 0
        /\ t.h.colorRows = color /\ t.h.blackRows = black
        /\ Followed(Settled(t).sheet, old, color, black, 4)
        /\ (\A j \in 0..3 : black[j] = NoRow) => t.h.resetSeedRow = s.h.resetSeedRow
    BY <1>2, <2>1, <2>3 DEF Emptied, old
  <2> DEFINE new == Settled(t).sheet
  <2>5. /\ Len(new) = Len(old) + 4 /\ \A j \in 1..Len(old) : new[j] = old[j]
        /\ \A j \in 0..3 : new[Len(old) + j + 1] = Shown(color[j], black[j])
    BY <2>4 DEF Followed
  <2> HIDE DEF new
  <2>6. ASSUME NEW j \in 1..Len(new) PROVE p[j] = new[j]
    <3>1. CASE j <= Len(old)
      <4>1. j \in 1..Len(old)
        BY <1>6, <2>5, <3>1
      <4> QED
        BY <1>3, <2>5, <4>1
    <3>2. CASE ~(j <= Len(old))
      <4>1. j - Len(old) - 1 \in 0..3 /\ j - Len(old) - 1 \in 0..i /\ Len(old) + (j - Len(old) - 1) + 1 = j
        BY <1>6, <1>7, <2>5, <3>2
      <4> QED
        BY <1>3, <2>5, <4>1
    <3> QED
      BY <3>1, <3>2
  <2>7. Len(p) = Len(new) + 0 + 0 /\ Len(new) + 0 + 1 > Len(p) /\ Len(new) \in Nat
    BY <1>3, <1>6, <1>7, <2>5
  <2>8. MakeUp(new, t.h, 0, p)
    BY <2>4, <2>6, <2>7 DEF MakeUp
  <2>9. NoBlack(s.h) /\ row.black = NoRow => NoBlack(t.h)
    BY <1>5, <2>4 DEF NoBlack
  <2> QED
    BY <2>4, <2>8, <2>9 DEF Rest, new, t, p
<1>8. CASE i # 3
  <2>1. t = k /\ k.h.ready = 0 /\ k.h.rowIndex = i + 1 /\ k.h.buffered = i + 1
    BY <1>1, <1>2, <1>4, <1>8
  <2>2. MakeUp(old, t.h, 0, p)
    <3>1. Len(p) = Len(old) + (i + 1) + 0 /\ (i + 1) - 1 = i
      BY <1>1, <1>3, <1>6
    <3>2. \A j \in Len(old) + (i + 1) + 1 .. Len(p) : p[j] = Blank
      BY <1>1, <1>6, <3>1
    <3> QED
      BY <1>2, <1>3, <2>1, <3>1, <3>2 DEF MakeUp
  <2>3. NoBlack(s.h) /\ row.black = NoRow => NoBlack(t.h)
    BY <1>2, <1>5, <2>1 DEF NoBlack
  <2> QED
    BY <1>2, <2>1, <2>2, <2>3 DEF Rest, t, p, old
<1> QED
  BY <1>7, <1>8

-----------------------------------------------------------------------------
(* Commands that clear the seeds of the printer, after those of the host   *)
(* have been.                                                              *)
LEMMA FlowsAgain ==
  ASSUME NEW s, Flushed(s), NEW t, Typed(t), Keeps(t.h, s.h), NEW pages, NEW sheet,
         Is(Settled(t), TRUE, pages, sheet, ColorZero, Clear)
  PROVE  Flows(t) /\ Settled(t).pages = pages /\ Settled(t).sheet = sheet
<1>1. Seeded(t)
  BY DEF Flushed, Seeded, Keeps
<1>2. Agree(t)
  BY DEF Flushed, Agree, Keeps, Is
<1> QED
  BY <1>1, <1>2 DEF Flows, Is

LEMMA StartedIs ==
  ASSUME NEW s, Flushed(s)
  PROVE  LET t == Send(s, [cmd |-> "start"]) IN
         /\ Flows(t) /\ Settled(t).pages = Settled(s).pages /\ Settled(t).sheet = Settled(s).sheet
         /\ Keeps(t.h, s.h)
<1> DEFINE c == [cmd |-> "start"]
           t == Send(s, c)
           q == Settled(s)
<1>1. c \in Commands /\ c.cmd = "start"
  BY DEF Commands
<1>2. Typed(s) /\ q \in Printers /\ q.open = TRUE
  BY DEF Flushed, Typed
<1> HIDE DEF c
<1>3. Typed(t) /\ Settled(t) = Take(q, c) /\ Keeps(t.h, s.h)
  BY <1>1, <1>2, SendIs
<1> HIDE DEF t
<1>4. Is(Settled(t), TRUE, q.pages, q.sheet, ColorZero, Clear)
  <2> HIDE DEF q
  <2> QED
    BY <1>1, <1>2, <1>3, TakeStart DEF Is
<1> QED
  BY <1>3, <1>4, FlowsAgain DEF t, c

LEMMA SkippedIs ==
  ASSUME NEW s, Flushed(s), NEW n \in Nat
  PROVE  LET t == Send(s, [cmd |-> "Y", n |-> n]) IN
         /\ Flows(t) /\ Settled(t).pages = Settled(s).pages
         /\ Settled(t).sheet = Settled(s).sheet \o [i \in 1..n |-> Blank]
         /\ Keeps(t.h, s.h)
<1> DEFINE c == [cmd |-> "Y", n |-> n]
           t == Send(s, c)
           q == Settled(s)
           b == [i \in 1..n |-> Blank]
<1>1. c \in Commands /\ c.cmd = "Y" /\ c.n = n
  BY DEF Commands
<1>2. Typed(s) /\ q \in Printers /\ q.open = TRUE
  BY DEF Flushed, Typed
<1> HIDE DEF c
<1>3. Typed(t) /\ Settled(t) = Take(q, c) /\ Keeps(t.h, s.h)
  BY <1>1, <1>2, SendIs
<1> HIDE DEF t
<1>4. Is(Settled(t), TRUE, q.pages, q.sheet \o b, ColorZero, Clear)
  <2>1. Is(Take(q, c), q.open, q.pages, q.sheet \o [i \in 1..c.n |-> Blank], ColorZero, Clear)
    <3> HIDE DEF q
    <3> QED
      BY <1>1, <1>2, TakeY
  <2> QED
    BY <1>1, <1>2, <1>3, <2>1
<1> HIDE DEF b
<1> QED
  BY <1>3, <1>4, FlowsAgain DEF t, c, b

LEMMA FormFeedIs ==
  ASSUME NEW s, Flushed(s)
  PROVE  LET t == FormFeed(s) IN
         /\ Flows(t) /\ Settled(t).pages = Append(Settled(s).pages, Settled(s).sheet)
         /\ Settled(t).sheet = << >>
         /\ Keeps(t.h, s.h)
<1> DEFINE c == [cmd |-> "FF"]
           t == FormFeed(s)
           q == Settled(s)
<1>1. c \in Commands /\ c.cmd = "FF"
  BY DEF Commands
<1>2. Typed(s) /\ q \in Printers /\ q.open = TRUE
  BY DEF Flushed, Typed
<1>3. Typed(t) /\ Settled(t) = Take(q, c) /\ Keeps(t.h, s.h)
  <2>1. CASE lang = "ljcolor"
    <3> DEFINE u == Cleanup(s)
    <3>1. t = Direct(u, c)
      BY <2>1 DEF FormFeed
    <3>2. Typed(u) /\ Settled(u) = q /\ u.h.buf = << >> /\ Keeps(u.h, s.h)
      BY <1>2, CleanupIs
    <3> HIDE DEF u, t, c
    <3>3. Typed(t) /\ Settled(t) = Take(Settled(u), c) /\ t.h = u.h
      BY <1>1, <3>1, <3>2, DirectIs
    <3> QED
      BY <3>2, <3>3
  <2>2. CASE lang # "ljcolor"
    <3> DEFINE u == Send(s, c)
    <3>1. t = Cleanup(u)
      BY <2>2 DEF FormFeed
    <3> HIDE DEF t, c
    <3>2. Typed(u) /\ Settled(u) = Take(q, c) /\ Keeps(u.h, s.h)
      BY <1>1, <1>2, SendIs
    <3> HIDE DEF u
    <3>3. Typed(t) /\ Settled(t) = Settled(u) /\ Keeps(t.h, u.h)
      BY <3>1, <3>2, CleanupIs
    <3> QED
      BY <3>2, <3>3 DEF Keeps
  <2> QED
    BY <2>1, <2>2
<1> HIDE DEF c, t
<1>4. Is(Settled(t), TRUE, Append(q.pages, q.sheet), << >>, ColorZero, Clear)
  <2> HIDE DEF q
  <2> QED
    BY <1>1, <1>2, <1>3, TakeFF DEF Is
<1> QED
  BY <1>3, <1>4, FlowsAgain DEF t

-----------------------------------------------------------------------------
(* A row through the pipeline of ljcolor.                                  *)
LEMMA CountedIs ==
  ASSUME NEW s, Flows(s)
  PROVE  LET t == [s EXCEPT !.h.yPos = @ + 1] IN
         Flows(t) /\ Settled(t) = Settled(s) /\ KeepsRows(t.h, s.h) /\ t.h.resetSeedRow = s.h.resetSeedRow
<1> DEFINE y == s.h.yPos + 1
           g == [s.h EXCEPT !.yPos = y]
           t == [s EXCEPT !.h.yPos = y]
<1>1. s \in States /\ s.h \in Hosts /\ Typed(s)
  BY FlowsFields
<1>2. y \in Int
  BY <1>1 DEF Hosts
<1> HIDE DEF y
<1>3. /\ g \in Hosts /\ g.buf = s.h.buf /\ KeepsRows(g, s.h)
      /\ g.colorSeeded = s.h.colorSeeded /\ g.colorSeed = s.h.colorSeed
      /\ g.blackSeeded = s.h.blackSeeded /\ g.blackSeed = s.h.blackSeed
      /\ g.resetSeedRow = s.h.resetSeedRow
  BY <1>1, <1>2 DEF Hosts, KeepsRows
<1>4. t = [s EXCEPT !.h = g]
  BY <1>1 DEF States, Hosts
<1> HIDE DEF g, t
<1>5. t \in States /\ t.p = s.p /\ t.h = g
  BY <1>1, <1>3, <1>4 DEF States
<1>6. Typed(t) /\ Settled(t) = Settled(s)
  BY <1>1, <1>3, <1>5, SettledSame
<1>7. Flows(t)
  BY <1>3, <1>5, <1>6 DEF Flows, Seeded, Agree
<1> QED
  BY <1>3, <1>5, <1>6, <1>7 DEF t, y

LEMMA RestartedIs ==
  ASSUME lang = "ljcolor", NEW s, Flows(s)
  PROVE  LET t == Restarted(s) IN
         /\ Flows(t) /\ Settled(t).pages = Settled(s).pages /\ Settled(t).sheet = Settled(s).sheet
         /\ KeepsRows(t.h, s.h) /\ t.h.resetSeedRow = s.h.resetSeedRow
<1> DEFINE t == Restarted(s)
           u == FlushColor(s)
<1>1. CASE s.h.yPos % RestartEvery = 0
  <2>1. t = Send(u, [cmd |-> "start"])
    BY <1>1 DEF Restarted
  <2>2. /\ Typed(u) /\ Settled(u) = Settled(s) /\ Seeded(u)
        /\ u.h.colorSeed = ColorZero /\ u.h.blackSeed = s.h.blackSeed
        /\ u.h.resetSeedRow = s.h.resetSeedRow /\ KeepsRows(u.h, s.h)
    BY FlushColorIs DEF Flows
  <2> HIDE DEF u
  <2>3. Flushed(u)
    BY <2>2 DEF Flushed, Flows, Seeded
  <2>4. /\ Flows(t) /\ Settled(t).pages = Settled(u).pages /\ Settled(t).sheet = Settled(u).sheet
        /\ Keeps(t.h, u.h)
    BY <2>1, <2>3, StartedIs
  <2> QED
    BY <2>2, <2>4 DEF Keeps, KeepsRows
<1>2. CASE s.h.yPos % RestartEvery # 0
  BY <1>2 DEF Restarted, KeepsRows
<1> QED
  BY <1>1, <1>2

LEMMA LJEncapsulateIs ==
  ASSUME lang = "ljcolor", NEW s, Flows(s), NEW row, row.color \in Marks, row.color # NoRow
  PROVE  LET t == LJEncapsulate(s, row) IN
         /\ Flows(t) /\ Settled(t).pages = Settled(s).pages
         /\ Settled(t).sheet = Append(Settled(s).sheet, Shown(row.color, NoRow))
         /\ KeepsRows(t.h, s.h) /\ t.h.resetSeedRow = s.h.resetSeedRow
<1> DEFINE u == [s EXCEPT !.h.yPos = @ + 1]
           v == SendColor(u, row.color)
           t == LJEncapsulate(s, row)
<1>1. t = Restarted(v)
  BY DEF LJEncapsulate
<1>2. Flows(u) /\ Settled(u) = Settled(s) /\ KeepsRows(u.h, s.h) /\ u.h.resetSeedRow = s.h.resetSeedRow
  BY CountedIs
<1> HIDE DEF u
<1>3. /\ Flows(v) /\ Settled(v).pages = Settled(u).pages
      /\ Settled(v).sheet = Append(Settled(u).sheet, [color |-> row.color, black |-> Settled(u).blackSeed])
      /\ v.h.resetSeedRow = u.h.resetSeedRow /\ KeepsRows(v.h, u.h)
  BY <1>2, SendColorIs
<1>4. Settled(u).blackSeed = Clear
  BY <1>2 DEF Flows, Agree, Seeded
<1> HIDE DEF v
<1>5. /\ Flows(t) /\ Settled(t).pages = Settled(v).pages /\ Settled(t).sheet = Settled(v).sheet
      /\ KeepsRows(t.h, v.h) /\ t.h.resetSeedRow = v.h.resetSeedRow
  BY <1>1, <1>3, RestartedIs
<1> HIDE DEF t
<1>6. Settled(t).sheet = Append(Settled(s).sheet, Shown(row.color, NoRow))
  BY <1>2, <1>3, <1>4, <1>5 DEF Shown
<1>7. KeepsRows(t.h, s.h)
  BY <1>2, <1>3, <1>5 DEF KeepsRows
<1> QED
  BY <1>2, <1>3, <1>5, <1>6, <1>7 DEF t

-----------------------------------------------------------------------------
(* A page and what makes it up.                                            *)
LEMMA MakeUpSent ==
  ASSUME NEW sheet \in Seq(RowMarks), NEW page \in Seq(RowMarks), NEW row \in RowMarks,
         NEW h, NEW g, h.buffered = 0, g.buffered = 0, MakeUp(sheet, h, 0, page)
  PROVE  MakeUp(Append(sheet, row), g, 0, Append(page, row))
<1> DEFINE a == Append(sheet, row)
           b == Append(page, row)
<1>1. Len(page) = Len(sheet) /\ Len(sheet) \in Nat /\ \A i \in 1..Len(sheet) : page[i] = sheet[i]
  BY DEF MakeUp
<1>2. /\ Len(a) = Len(sheet) + 1 /\ Len(b) = Len(sheet) + 1
      /\ a[Len(sheet) + 1] = row /\ b[Len(sheet) + 1] = row
      /\ \A i \in 1..Len(sheet) : a[i] = sheet[i] /\ b[i] = page[i]
  BY <1>1
<1> HIDE DEF a, b
<1>3. \A i \in 1..Len(a) : b[i] = a[i]
  <2>1. \A i \in 1..Len(a) : i = Len(sheet) + 1 \/ i \in 1..Len(sheet)
    BY <1>1, <1>2
  <2> QED
    BY <1>1, <1>2, <2>1
<1>4. Len(b) = Len(a) + 0 + 0 /\ Len(a) + 0 + 1 > Len(b) /\ Len(a) \in Nat
  BY <1>1, <1>2
<1> QED
  BY <1>3, <1>4 DEF MakeUp, a, b

LEMMA MakeUpSkipped ==
  ASSUME NEW sheet \in Seq(RowMarks), NEW page \in Seq(RowMarks), NEW n \in Nat,
         NEW h, NEW g, h.buffered = 0, g.buffered = 0, MakeUp(sheet, h, n, page)
  PROVE  MakeUp(sheet \o [i \in 1..n |-> Blank], g, 0, page)
<1> DEFINE b == [i \in 1..n |-> Blank]
           a == sheet \o b
           m == Len(sheet)
<1>1. b \in Seq(RowMarks) /\ Len(b) = n /\ \A i \in 1..n : b[i] = Blank
  BY BlanksAre
<1> HIDE DEF b
<1>2. /\ m \in Nat /\ Len(a) = m + n
      /\ \A i \in 1..m : a[i] = sheet[i]
      /\ \A i \in m + 1 .. m + n : a[i] = b[i - m]
  <2>1. m \in Nat
    OBVIOUS
  <2>2. /\ Len(a) = m + Len(b)
        /\ \A i \in 1 .. Len(a) : a[i] = IF i <= m THEN sheet[i] ELSE b[i - m]
    BY <1>1, ConcatProperties
  <2> HIDE DEF a, m
  <2> QED
    BY <1>1, <2>1, <2>2
<1>3. /\ Len(page) = m + 0 + n /\ \A i \in 1..m : page[i] = sheet[i]
      /\ \A i \in m + 0 + 1 .. Len(page) : page[i] = Blank
  BY DEF MakeUp
<1> HIDE DEF a, m
<1>4. ASSUME NEW i \in 1..Len(a) PROVE page[i] = a[i]
  <2>1. CASE i <= m
    <3>1. i \in 1..m
      BY <1>2, <2>1
    <3> QED
      BY <1>2, <1>3, <3>1
  <2>2. CASE ~(i <= m)
    <3>1. i \in m + 1 .. m + n /\ i - m \in 1..n /\ i \in m + 0 + 1 .. Len(page)
      BY <1>2, <1>3, <2>2
    <3> QED
      BY <1>1, <1>2, <1>3, <3>1
  <2> QED
    BY <2>1, <2>2
<1>5. Len(page) = Len(a) + 0 + 0 /\ Len(a) + 0 + 1 > Len(page) /\ Len(a) \in Nat
  BY <1>2, <1>3
<1> QED
  BY <1>4, <1>5 DEF MakeUp, a, b

LEMMA MakeUpMore ==
  ASSUME NEW sheet \in Seq(RowMarks), NEW page \in Seq(RowMarks), NEW n \in Nat,
         NEW h \in Hosts, MakeUp(sheet, h, n, page)
  PROVE  Append(page, Blank) \in Seq(RowMarks) /\ MakeUp(sheet, h, n + 1, Append(page, Blank))
<1> DEFINE b == Append(page, Blank)
           m == Len(sheet)
           k == h.buffered
<1>1. Blank \in RowMarks
  BY MarksAre DEF Blank, RowMarks
<1>2. m \in Nat /\ k \in Nat
  BY DEF Hosts
<1>3. /\ Len(page) = m + k + n /\ \A i \in 1..m : page[i] = sheet[i]
      /\ \A i \in 0..k - 1 : page[m + i + 1] = Shown(h.colorRows[i], h.blackRows[i]) /\ h.colorRows[i] # NoRow
      /\ \A i \in m + k + 1 .. Len(page) : page[i] = Blank
  BY DEF MakeUp
<1> HIDE DEF m, k
<1>4. b \in Seq(RowMarks) /\ Len(b) = m + k + n + 1 /\ b[m + k + n + 1] = Blank
      /\ \A i \in 1..m + k + n : b[i] = page[i]
  BY <1>1, <1>2, <1>3
<1> HIDE DEF b
<1>5. \A i \in 1..m : b[i] = sheet[i]
  BY <1>2, <1>3, <1>4
<1>6. \A i \in 0..k - 1 : b[m + i + 1] = Shown(h.colorRows[i], h.blackRows[i]) /\ h.colorRows[i] # NoRow
  <2>1. \A i \in 0..k - 1 : m + i + 1 \in 1..m + k + n
    BY <1>2
  <2> QED
    BY <1>3, <1>4, <2>1
<1>7. \A i \in m + k + 1 .. Len(b) : b[i] = Blank
  <2>1. \A i \in m + k + 1 .. Len(b) :
           i = m + k + n + 1 \/ (i \in m + k + 1 .. Len(page) /\ i \in 1..m + k + n)
    BY <1>2, <1>3, <1>4
  <2> QED
    BY <1>3, <1>4, <2>1
<1>8. Len(b) = m + k + (n + 1)
  BY <1>2, <1>4
<1> QED
  BY <1>4, <1>5, <1>6, <1>7, <1>8 DEF MakeUp, m, k, b

(* With the filter empty the sheet is the page but for blanks at its end.  *)
LEMMA MakeUpAll ==
  ASSUME NEW sheet \in Seq(RowMarks), NEW page \in Seq(RowMarks), NEW n \in Nat,
         NEW h, h.buffered = 0, MakeUp(sheet, h, n, page)
  PROVE  IsAll(sheet, page)
<1>1. /\ Len(sheet) \in Nat /\ Len(page) = Len(sheet) + 0 + n
      /\ \A i \in 1..Len(sheet) : page[i] = sheet[i]
      /\ \A i \in Len(sheet) + 0 + 1 .. Len(page) : page[i] = Blank
  BY DEF MakeUp
<1>2. Len(sheet) <= Len(page) /\ \A i \in 1..Len(sheet) : sheet[i] = page[i]
  BY <1>1
<1>3. IsPrefix(sheet, page)
  BY <1>2, PrefixIs
<1>4. Len(sheet) + 0 + 1 = Len(sheet) + 1
  BY <1>1
<1> QED
  BY <1>1, <1>3, <1>4 DEF IsAll

LEMMA MakeUpPrefix ==
  ASSUME NEW sheet \in Seq(RowMarks), NEW page \in Seq(RowMarks), NEW n \in Nat,
         NEW h \in Hosts, MakeUp(sheet, h, n, page)
  PROVE  IsPrefix(sheet, page)
<1>1. /\ Len(sheet) \in Nat /\ h.buffered \in Nat /\ Len(page) = Len(sheet) + h.buffered + n
      /\ \A i \in 1..Len(sheet) : page[i] = sheet[i]
  BY DEF MakeUp, Hosts
<1>2. Len(sheet) <= Len(page)
  BY <1>1
<1>3. \A i \in 1..Len(sheet) : sheet[i] = page[i]
  BY <1>1
<1> QED
  BY <1>2, <1>3, PrefixIs

-----------------------------------------------------------------------------
(* A row, and the blank ones before it, through the pipeline.              *)
Ready(s) == Flows(s) /\ Rest(s.h) /\ (lang = "ljcolor" => s.h.buffered = 0)

LEMMA ExecuteIs ==
  ASSUME lang \in {"pcl3gui2", "ljcolor"}, NEW s, Ready(s),
         NEW row, row.color \in Marks, row.black \in Marks, row.color # NoRow,
         lang = "ljcolor" => row.black = NoRow,
         NEW page \in Seq(RowMarks), MakeUp(Settled(s).sheet, s.h, 0, page)
  PROVE  LET t == Execute(s, row)
             p == Append(page, Shown(row.color, row.black))
         IN /\ Ready(t) /\ Settled(t).pages = Settled(s).pages
            /\ MakeUp(Settled(t).sheet, t.h, 0, p)
            /\ NoBlack(s.h) /\ row.black = NoRow => NoBlack(t.h)
<1> DEFINE t == Execute(s, row)
           p == Append(page, Shown(row.color, row.black))
<1>1. Flows(s) /\ Rest(s.h)
  BY DEF Ready
<1>2. CASE lang = "pcl3gui2"
  <2>1. t = Ernie(s, row)
    BY <1>2 DEF Execute
  <2>2. lang # "ljcolor"
    BY <1>2
  <2> QED
    BY <1>1, <1>2, <2>1, <2>2, ErnieIs DEF Ready
<1>3. CASE lang = "ljcolor"
  <2>1. t = LJEncapsulate(s, row)
    BY <1>3 DEF Execute
  <2> HIDE DEF t
  <2>2. /\ Flows(t) /\ Settled(t).pages = Settled(s).pages
        /\ Settled(t).sheet = Append(Settled(s).sheet, Shown(row.color, NoRow))
        /\ KeepsRows(t.h, s.h) /\ t.h.resetSeedRow = s.h.resetSeedRow
    BY <1>1, <1>3, <2>1, LJEncapsulateIs
  <2>3. Shown(row.color, row.black) = Shown(row.color, NoRow) /\ Shown(row.color, NoRow) \in RowMarks
    BY <1>3, MarksAre, ShownIs
  <2>4. s.h.buffered = 0 /\ t.h.buffered = 0 /\ Rest(t.h)
    BY <1>1, <1>3, <2>2 DEF Ready, Rest, KeepsRows
  <2>5. Settled(s).sheet \in Seq(RowMarks)
    BY <1>1, FlowsFields
  <2>6. MakeUp(Settled(t).sheet, t.h, 0, p)
    BY <2>2, <2>3, <2>4, <2>5, MakeUpSent
  <2>7. NoBlack(s.h) => NoBlack(t.h)
    BY <2>2 DEF NoBlack, KeepsRows
  <2> QED
    BY <2>2, <2>4, <2>6, <2>7 DEF Ready, t
<1> QED
  BY <1>2, <1>3

LEMMA UnskippedIs ==
  ASSUME lang \in {"pcl3gui2", "ljcolor"}, NEW s, Ready(s), skipcount \in Nat,
         NEW page \in Seq(RowMarks), MakeUp(Settled(s).sheet, s.h, skipcount, page)
  PROVE  LET t == Unskipped(s) IN
         /\ Ready(t) /\ Settled(t).pages = Settled(s).pages
         /\ MakeUp(Settled(t).sheet, t.h, 0, page)
         /\ NoBlack(s.h) => NoBlack(t.h)
<1> DEFINE t == Unskipped(s)
<1>1. CASE skipcount = 0
  <2>1. t = s
    BY <1>1 DEF Unskipped
  <2> QED
    BY <1>1, <2>1
<1>2. CASE skipcount # 0
  <2> DEFINE f == Flush(s)
  <2>1. skipcount > 0
    BY <1>2
  <2>2. t = Send(f, [cmd |-> "Y", n |-> skipcount])
    BY <2>1 DEF Unskipped
  <2> HIDE DEF t
  <2>3. /\ Flushed(f) /\ Settled(f).pages = Settled(s).pages /\ Rest(f.h) /\ f.h.buffered = 0
        /\ MakeUp(Settled(f).sheet, f.h, skipcount, page)
        /\ NoBlack(s.h) => NoBlack(f.h)
    BY FlushIs DEF Ready
  <2> HIDE DEF f
  <2>4. /\ Flows(t) /\ Settled(t).pages = Settled(f).pages
        /\ Settled(t).sheet = Settled(f).sheet \o [i \in 1..skipcount |-> Blank]
        /\ Keeps(t.h, f.h)
    BY <2>2, <2>3, SkippedIs
  <2>5. Settled(f).sheet \in Seq(RowMarks)
    BY <2>3, PrinterFields DEF Flushed, Typed
  <2>6. t.h.buffered = 0 /\ Rest(t.h)
    BY <2>3, <2>4 DEF Keeps, Rest
  <2>7. MakeUp(Settled(f).sheet \o [i \in 1..skipcount |-> Blank], t.h, 0, page)
    BY <2>3, <2>5, <2>6, MakeUpSkipped
  <2>8. NoBlack(s.h) => NoBlack(t.h)
    BY <2>3, <2>4 DEF NoBlack, Keeps
  <2>9. MakeUp(Settled(t).sheet, t.h, 0, page)
    BY <2>4, <2>7
  <2>10. Settled(t).pages = Settled(s).pages
    BY <2>3, <2>4
  <2> QED
    BY <2>4, <2>6, <2>8, <2>9, <2>10 DEF Ready, t
<1> QED
  BY <1>1, <1>2

-----------------------------------------------------------------------------
(* The inductive invariant.  The operators of the printer and of the       *)
(* pipeline depend on lang; the invariant names that dependence, so that   *)
(* what it says of the next state follows from lang' = lang.               *)
ZeroIn(l) == IF l = "ljcolor" THEN Clear ELSE White
ClearedIn(l, p) == SeedsOf(p, ZeroIn(l), Clear)
ObeyedIn(l, p, c) ==
  CASE c.cmd = "start" -> ClearedIn(l, p)
    [] c.cmd = "Y"     -> [ClearedIn(l, p) EXCEPT !.sheet = @ \o [i \in 1..c.n |-> Blank]]
    [] c.cmd = "V"     -> [p EXCEPT !.blackSeed = Decoded(c.data, @)]
    [] c.cmd = "W"     -> LET color == Decoded(c.data, p.colorSeed) IN
                          [p EXCEPT !.colorSeed = color,
                                    !.sheet = Append(@, [color |-> color, black |-> p.blackSeed])]
    [] c.cmd = "FF"    -> [ClearedIn(l, p) EXCEPT !.pages = Append(@, p.sheet), !.sheet = << >>]
    [] c.cmd = "UEL"   -> [p EXCEPT !.open = FALSE]
TakeIn(l, p, c) == IF p.open THEN ObeyedIn(l, p, c) ELSE p
TakenIn(l, p, b) == FoldLeft(LAMBDA q, c : TakeIn(l, q, c), p, b)

LEMMA TakenInLang ==
  ASSUME NEW p, NEW b
  PROVE  TakenBy(p, b) = TakenIn(lang, p, b)
BY DEF TakenBy, TakenIn, Take, TakeIn, Obeyed, ObeyedIn, SeedsCleared, ClearedIn, ColorZero, ZeroIn

(* The seeds of a host h against those of a printer q that has taken what  *)
(* the host has sent.                                                      *)
Steady(l, h, q) ==
  /\ ~h.colorSeeded => h.colorSeed = ZeroIn(l)
  /\ ~h.blackSeeded => h.blackSeed = Clear
  /\ ~h.resetSeedRow => h.blackSeed = Clear
  /\ l = "ljcolor" => h.blackSeed = Clear
  /\ q.colorSeed = h.colorSeed /\ q.blackSeed = h.blackSeed

(* What the printer has ejected, and the one page under way, are the pages *)
(* given so far.                                                           *)
Between(l, h, q, pages, skip, sent) ==
  /\ h.colorSeed = ZeroIn(l) /\ h.blackSeed = Clear /\ h.buffered = 0
  /\ skip = 0 /\ sent = FALSE /\ q.sheet = << >> /\ Len(q.pages) = Len(pages)
UnderWay(h, q, pages, skip, sent) ==
  /\ Len(pages) = Len(q.pages) + 1
  /\ MakeUp(q.sheet, h, skip, pages[Len(pages)])
  /\ sent = FALSE => q.sheet = << >> /\ h.buffered = 0
Ended(p, q, pages) == q = p /\ q.sheet = << >> /\ Len(q.pages) = Len(pages)

Sound(l, k, s, q, ph, pages, skip, sent) ==
  /\ l \in {"pcl3gui2", "ljcolor"} /\ k \in BOOLEAN /\ (k = TRUE => l = "pcl3gui2")
  /\ ph \in {"between", "page", "closed"} /\ skip \in Nat /\ sent \in BOOLEAN
  /\ pages \in Seq(Seq(RowMarks)) /\ s \in States /\ q \in Printers /\ Earlier(s.p, q)
  /\ Rest(s.h) /\ (k = FALSE => NoBlack(s.h)) /\ (l = "ljcolor" => skip = 0 /\ s.h.buffered = 0)
  /\ \A n \in 1..Len(q.pages) : IsAll(q.pages[n], pages[n])
  /\ ph # "closed" => q.open = TRUE /\ Steady(l, s.h, q)
  /\ ph = "between" => Between(l, s.h, q, pages, skip, sent)
  /\ ph = "page" => UnderWay(s.h, q, pages, skip, sent)
  /\ ph = "closed" => Ended(s.p, q, pages)

FilterInv ==
  Sound(lang, krgb, [h |-> host, p |-> printer], TakenIn(lang, printer, host.buf),
        phase, given, skipcount, dataSent)

LEMMA InvIs ==
  FilterInv = Sound(lang, krgb, State, Settled(State), phase, given, skipcount, dataSent)
<1>1. Settled(State) = TakenIn(lang, printer, host.buf)
  BY TakenInLang DEF Settled, State
<1> QED
  BY <1>1 DEF FilterInv, State

LEMMA InvPrimed ==
  ASSUME lang' = lang, krgb' = krgb, NEW t, t \in States, Becomes(t),
         Sound(lang, krgb, t, Settled(t), phase', given', skipcount', dataSent')
  PROVE  FilterInv'
<1>1. Settled(t) = TakenIn(lang, t.p, t.h.buf)
  BY TakenInLang DEF Settled
<1>2. t = [h |-> t.h, p |-> t.p]
  BY DEF States
<1>3. t = [h |-> host', p |-> printer'] /\ Settled(t) = TakenIn(lang', printer', host'.buf)
  BY <1>1, <1>2 DEF Becomes
<1>4. Sound(lang', krgb', [h |-> host', p |-> printer'], TakenIn(lang', printer', host'.buf),
            phase', given', skipcount', dataSent')
  BY <1>3
<1> QED
  BY <1>4 DEF FilterInv

(* The invariant against the words of the lemmas above.                    *)
LEMMA SteadyIs ==
  ASSUME NEW s
  PROVE  Steady(lang, s.h, Settled(s)) <=> Seeded(s) /\ Agree(s)
BY DEF Steady, Seeded, Agree, ZeroIn, ColorZero

LEMMA OpenIs ==
  ASSUME FilterInv, phase # "closed"
  PROVE  /\ Ready(State) /\ lang \in {"pcl3gui2", "ljcolor"} /\ krgb \in BOOLEAN
         /\ krgb = TRUE => lang = "pcl3gui2"
         /\ krgb = FALSE => NoBlack(State.h)
         /\ skipcount \in Nat /\ dataSent \in BOOLEAN /\ given \in Seq(Seq(RowMarks))
         /\ lang = "ljcolor" => skipcount = 0
         /\ \A n \in 1..Len(Settled(State).pages) : IsAll(Settled(State).pages[n], given[n])
<1> DEFINE s == State
           q == Settled(State)
<1>1. Sound(lang, krgb, s, q, phase, given, skipcount, dataSent)
  BY InvIs
<1> HIDE DEF s
<1>2. /\ s \in States /\ Settled(s) \in Printers /\ Earlier(s.p, Settled(s))
      /\ Rest(s.h) /\ (lang = "ljcolor" => s.h.buffered = 0)
      /\ Settled(s).open = TRUE /\ Steady(lang, s.h, Settled(s))
  BY <1>1 DEF Sound, s
<1>3. Typed(s)
  BY <1>2 DEF Typed, States
<1>4. Ready(s)
  BY <1>2, <1>3, SteadyIs DEF Ready, Flows
<1> QED
  BY <1>1, <1>4 DEF Sound, s

LEMMA PageIs ==
  ASSUME FilterInv, phase = "page"
  PROVE  UnderWay(State.h, Settled(State), given, skipcount, dataSent) /\ Len(given) \in 1..Len(given)
<1> DEFINE q == Settled(State)
<1>1. Sound(lang, krgb, State, q, phase, given, skipcount, dataSent)
  BY InvIs
<1> HIDE DEF q
<1>2. q \in Printers /\ given \in Seq(Seq(RowMarks)) /\ UnderWay(State.h, q, given, skipcount, dataSent)
  BY <1>1 DEF Sound
<1>3. Len(q.pages) \in Nat
  BY <1>2, PrinterFields
<1>4. Len(given) = Len(q.pages) + 1
  BY <1>2 DEF UnderWay
<1>5. Len(given) \in 1..Len(given)
  BY <1>3, <1>4
<1> QED
  BY <1>2, <1>5 DEF q

LEMMA BetweenIs ==
  ASSUME FilterInv, phase = "between"
  PROVE  Between(lang, State.h, Settled(State), given, skipcount, dataSent) /\ Flushed(State)
<1>1. Sound(lang, krgb, State, Settled(State), phase, given, skipcount, dataSent)
  BY InvIs
<1>2. Between(lang, State.h, Settled(State), given, skipcount, dataSent)
  BY <1>1 DEF Sound
<1>3. Flows(State)
  BY OpenIs DEF Ready
<1>4. State.h.colorSeed = ColorZero /\ State.h.blackSeed = Clear
  BY <1>2 DEF Between, ColorZero, ZeroIn
<1> QED
  BY <1>2, <1>3, <1>4 DEF Flushed, Flows

-----------------------------------------------------------------------------
(* The steps.                                                              *)
LEMMA PageSound ==
  ASSUME lang \in {"pcl3gui2", "ljcolor"}, krgb \in BOOLEAN, krgb = TRUE => lang = "pcl3gui2",
         NEW t, Ready(t), krgb = FALSE => NoBlack(t.h),
         NEW skip \in Nat, lang = "ljcolor" => skip = 0, NEW sent \in BOOLEAN,
         NEW pages \in Seq(Seq(RowMarks)),
         \A n \in 1..Len(Settled(t).pages) : IsAll(Settled(t).pages[n], pages[n]),
         UnderWay(t.h, Settled(t), pages, skip, sent)
  PROVE  t \in States /\ Sound(lang, krgb, t, Settled(t), "page", pages, skip, sent)
<1>1. /\ t \in States /\ Settled(t) \in Printers /\ Earlier(t.p, Settled(t))
      /\ Settled(t).open = TRUE /\ Seeded(t) /\ Agree(t) /\ Rest(t.h)
      /\ lang = "ljcolor" => t.h.buffered = 0
  BY DEF Ready, Flows, Typed, States
<1>2. Steady(lang, t.h, Settled(t))
  BY <1>1, SteadyIs
<1> QED
  BY <1>1, <1>2 DEF Sound

LEMMA BetweenSound ==
  ASSUME lang \in {"pcl3gui2", "ljcolor"}, krgb \in BOOLEAN, krgb = TRUE => lang = "pcl3gui2",
         NEW t, Ready(t), krgb = FALSE => NoBlack(t.h),
         NEW pages \in Seq(Seq(RowMarks)),
         \A n \in 1..Len(Settled(t).pages) : IsAll(Settled(t).pages[n], pages[n]),
         Between(lang, t.h, Settled(t), pages, 0, FALSE)
  PROVE  t \in States /\ Sound(lang, krgb, t, Settled(t), "between", pages, 0, FALSE)
<1>1. /\ t \in States /\ Settled(t) \in Printers /\ Earlier(t.p, Settled(t))
      /\ Settled(t).open = TRUE /\ Seeded(t) /\ Agree(t) /\ Rest(t.h)
      /\ lang = "ljcolor" => t.h.buffered = 0
  BY DEF Ready, Flows, Typed, States
<1>2. Steady(lang, t.h, Settled(t))
  BY <1>1, SteadyIs
<1> QED
  BY <1>1, <1>2 DEF Sound

(* A row joins the page under way.                                         *)
LEMMA GivenIs ==
  ASSUME NEW pages \in Seq(Seq(RowMarks)), Len(pages) \in 1..Len(pages), NEW row \in RowMarks
  PROVE  LET more == [pages EXCEPT ![Len(pages)] = Append(@, row)] IN
         /\ more \in Seq(Seq(RowMarks)) /\ Len(more) = Len(pages)
         /\ pages[Len(pages)] \in Seq(RowMarks)
         /\ more[Len(more)] = Append(pages[Len(pages)], row)
         /\ \A n \in 1..Len(pages) - 1 : more[n] = pages[n]
<1> DEFINE k == Len(pages)
           page == Append(pages[k], row)
           more == [pages EXCEPT ![k] = page]
<1>1. pages[k] \in Seq(RowMarks) /\ k \in Nat /\ k \in 1..k
  OBVIOUS
<1>2. page \in Seq(RowMarks)
  BY <1>1
<1> HIDE DEF page
<1>3. more \in Seq(Seq(RowMarks)) /\ Len(more) = k
  BY <1>2
<1>4. more[k] = page /\ \A n \in 1..k - 1 : more[n] = pages[n]
  BY <1>1
<1> HIDE DEF more, k
<1>5. more[Len(more)] = page
  BY <1>3, <1>4
<1> QED
  BY <1>1, <1>3, <1>4, <1>5 DEF more, page, k

(* After a row the page is made up of what the pipeline holds.             *)
LEMMA RowSound ==
  ASSUME FilterInv, phase = "page", NEW row \in RowMarks, NEW t, Ready(t), krgb = FALSE => NoBlack(t.h),
         Settled(t).pages = Settled(State).pages,
         NEW skip \in Nat, lang = "ljcolor" => skip = 0, NEW sent \in BOOLEAN,
         sent = FALSE => Settled(t).sheet = << >> /\ t.h.buffered = 0,
         MakeUp(Settled(t).sheet, t.h, skip, Append(given[Len(given)], row))
  PROVE  /\ t \in States
         /\ Sound(lang, krgb, t, Settled(t), "page", [given EXCEPT ![Len(given)] = Append(@, row)], skip, sent)
<1> DEFINE more == [given EXCEPT ![Len(given)] = Append(@, row)]
           q == Settled(State)
<1>1. /\ lang \in {"pcl3gui2", "ljcolor"} /\ krgb \in BOOLEAN /\ (krgb = TRUE => lang = "pcl3gui2")
      /\ given \in Seq(Seq(RowMarks))
      /\ \A n \in 1..Len(q.pages) : IsAll(q.pages[n], given[n])
  BY OpenIs
<1>2. Len(given) \in 1..Len(given) /\ Len(given) = Len(q.pages) + 1
  BY PageIs DEF UnderWay
<1>3. /\ more \in Seq(Seq(RowMarks)) /\ Len(more) = Len(given)
      /\ more[Len(more)] = Append(given[Len(given)], row)
      /\ \A n \in 1..Len(given) - 1 : more[n] = given[n]
  BY <1>1, <1>2, GivenIs
<1> HIDE DEF more
<1>4. Len(q.pages) \in Nat
  <2>1. q.pages \in Seq(Seq(RowMarks))
    BY OpenIs, FlowsFields DEF Ready
  <2> QED
    BY <2>1
<1> HIDE DEF q
<1>5. \A n \in 1..Len(Settled(t).pages) : IsAll(Settled(t).pages[n], more[n])
  <2>1. Settled(t).pages = q.pages
    BY DEF q
  <2>2. \A n \in 1..Len(q.pages) : n \in 1..Len(given) - 1
    BY <1>2, <1>4
  <2> QED
    BY <1>1, <1>3, <2>1, <2>2
<1>6. UnderWay(t.h, Settled(t), more, skip, sent)
  <2>1. Len(more) = Len(Settled(t).pages) + 1
    BY <1>2, <1>3 DEF q
  <2> QED
    BY <1>3, <2>1 DEF UnderWay
<1>7. t \in States /\ Sound(lang, krgb, t, Settled(t), "page", more, skip, sent)
  BY <1>1, <1>3, <1>5, <1>6, PageSound
<1> QED
  BY <1>7 DEF more

(* A raster handed to Job::SendRasters.                                    *)
LEMMA SendRastersIs ==
  ASSUME FilterInv, phase = "page",
         NEW r, r.color \in Marks, r.black \in Marks, r.color # NoRow,
         krgb = FALSE => r.black = NoRow
  PROVE  LET t == SendRasters(State, r)
             row == Shown(r.color, r.black)
         IN /\ t \in States
            /\ Sound(lang, krgb, t, Settled(t), "page", [given EXCEPT ![Len(given)] = Append(@, row)], 0, TRUE)
<1> DEFINE s == State
           u == Unskipped(s)
           t == SendRasters(s, r)
           row == Shown(r.color, r.black)
           page == given[Len(given)]
<1>1. /\ Ready(s) /\ lang \in {"pcl3gui2", "ljcolor"} /\ krgb \in BOOLEAN
      /\ krgb = TRUE => lang = "pcl3gui2"
      /\ krgb = FALSE => NoBlack(s.h)
      /\ skipcount \in Nat /\ given \in Seq(Seq(RowMarks))
  BY OpenIs
<1>2. /\ MakeUp(Settled(s).sheet, s.h, skipcount, page) /\ page \in Seq(RowMarks)
  <2>1. MakeUp(Settled(s).sheet, s.h, skipcount, page) /\ Len(given) \in 1..Len(given)
    BY PageIs DEF UnderWay
  <2> QED
    BY <1>1, <2>1
<1>3. t = Execute(u, r)
  BY DEF SendRasters
<1> HIDE DEF t, page, s
<1>4. /\ Ready(u) /\ Settled(u).pages = Settled(s).pages
      /\ MakeUp(Settled(u).sheet, u.h, 0, page)
      /\ NoBlack(s.h) => NoBlack(u.h)
  BY <1>1, <1>2, UnskippedIs
<1> HIDE DEF u
<1>5. lang = "ljcolor" => r.black = NoRow
  BY <1>1
<1>6. /\ Ready(t) /\ Settled(t).pages = Settled(u).pages
      /\ MakeUp(Settled(t).sheet, t.h, 0, Append(page, row))
      /\ NoBlack(u.h) /\ r.black = NoRow => NoBlack(t.h)
  BY <1>1, <1>2, <1>3, <1>4, <1>5, ExecuteIs
<1>7. row \in RowMarks
  BY ShownIs
<1>8. krgb = FALSE => NoBlack(t.h)
  BY <1>1, <1>4, <1>6
<1>9. Settled(t).pages = Settled(State).pages
  BY <1>4, <1>6 DEF s
<1> HIDE DEF row
<1>10. MakeUp(Settled(t).sheet, t.h, 0, Append(given[Len(given)], row))
  BY <1>6 DEF page
<1>11. /\ t \in States
       /\ Sound(lang, krgb, t, Settled(t), "page", [given EXCEPT ![Len(given)] = Append(@, row)], 0, TRUE)
  BY <1>6, <1>7, <1>8, <1>9, <1>10, RowSound
<1> QED
  BY <1>11 DEF t, row, s

LEMMA DataRowKeeps ==
  ASSUME FilterInv, DataRow
  PROVE  FilterInv'
<1>1. PICK row \in Rows :
        /\ krgb \/ row.black = Clear
        /\ Gives(row)
        /\ Becomes(SendRasters(State, RasterOf(row)))
        /\ skipcount' = 0 /\ dataSent' = TRUE
  BY DEF DataRow
<1>2. /\ phase = "page" /\ given' = [given EXCEPT ![Len(given)] = Append(@, row)]
      /\ lang' = lang /\ krgb' = krgb /\ phase' = "page"
  BY <1>1 DEF Gives
<1> DEFINE r == RasterOf(row)
           t == SendRasters(State, r)
<1>3. krgb \in BOOLEAN
  BY <1>2, OpenIs
<1>4. /\ row.color \in Marks /\ row.black \in Marks /\ row.color # NoRow /\ row.black # NoRow
      /\ NoRow \in Marks /\ row = [color |-> row.color, black |-> row.black]
  BY MarksAre, RasterAssumption
<1>5. r.color = row.color /\ r.black = (IF krgb = TRUE THEN row.black ELSE NoRow)
  BY <1>3 DEF RasterOf
<1>6. r.color \in Marks /\ r.black \in Marks /\ r.color # NoRow /\ (krgb = FALSE => r.black = NoRow)
  BY <1>4, <1>5
<1>7. Shown(r.color, r.black) = row
  <2>1. krgb = FALSE => row.black = Clear
    BY <1>1
  <2>2. (IF r.black = NoRow THEN Clear ELSE r.black) = row.black
    BY <1>3, <1>4, <1>5, <2>1
  <2>3. Shown(r.color, r.black) = [color |-> row.color, black |-> row.black]
    BY <1>5, <2>2 DEF Shown
  <2> QED
    BY <1>4, <2>3
<1> HIDE DEF r
<1>8. /\ t \in States
      /\ Sound(lang, krgb, t, Settled(t), "page", [given EXCEPT ![Len(given)] = Append(@, row)], 0, TRUE)
  <2>1. /\ t \in States
        /\ Sound(lang, krgb, t, Settled(t), "page",
                 [given EXCEPT ![Len(given)] = Append(@, Shown(r.color, r.black))], 0, TRUE)
    BY <1>2, <1>6, SendRastersIs
  <2> QED
    BY <1>7, <2>1
<1>9. Becomes(t)
  BY <1>1 DEF r
<1> HIDE DEF t
<1> QED
  BY <1>1, <1>2, <1>8, <1>9, InvPrimed

LEMMA BlankRowKeeps ==
  ASSUME FilterInv, BlankRow
  PROVE  FilterInv'
<1> DEFINE t == SendRasters(State, BlankRaster)
<1>1. /\ phase = "page" /\ given' = [given EXCEPT ![Len(given)] = Append(@, Blank)]
      /\ lang' = lang /\ krgb' = krgb /\ phase' = "page"
      /\ Becomes(t) /\ skipcount' = 0 /\ dataSent' = TRUE
  BY DEF BlankRow, Gives
<1>2. /\ BlankRaster.color = White /\ BlankRaster.black = NoRow
      /\ White \in Marks /\ NoRow \in Marks /\ White # NoRow
  BY MarksAre DEF BlankRaster
<1>3. Shown(BlankRaster.color, BlankRaster.black) = Blank
  BY <1>2 DEF Shown, Blank
<1>4. /\ t \in States
      /\ Sound(lang, krgb, t, Settled(t), "page", [given EXCEPT ![Len(given)] = Append(@, Blank)], 0, TRUE)
  <2>1. /\ t \in States
        /\ Sound(lang, krgb, t, Settled(t), "page",
                 [given EXCEPT ![Len(given)] = Append(@, Shown(BlankRaster.color, BlankRaster.black))], 0, TRUE)
    BY <1>1, <1>2, SendRastersIs
  <2> QED
    BY <1>3, <2>1
<1> HIDE DEF t
<1> QED
  BY <1>1, <1>4, InvPrimed

LEMMA SkippedRowKeeps ==
  ASSUME FilterInv, SkippedRow
  PROVE  FilterInv'
<1> DEFINE t == State
           n == skipcount + 1
<1>1. /\ phase = "page" /\ given' = [given EXCEPT ![Len(given)] = Append(@, Blank)]
      /\ lang' = lang /\ krgb' = krgb /\ phase' = "page" /\ lang = "pcl3gui2"
      /\ Becomes(t) /\ skipcount' = n /\ dataSent' = dataSent
  BY DEF SkippedRow, Gives, CanSkipRasters, Becomes, State
<1>2. /\ Ready(t) /\ (krgb = FALSE => NoBlack(t.h)) /\ skipcount \in Nat /\ dataSent \in BOOLEAN
      /\ given \in Seq(Seq(RowMarks))
  BY <1>1, OpenIs
<1>3. UnderWay(t.h, Settled(t), given, skipcount, dataSent) /\ Len(given) \in 1..Len(given)
  BY <1>1, PageIs
<1>4. Settled(t).sheet \in Seq(RowMarks) /\ t.h \in Hosts /\ given[Len(given)] \in Seq(RowMarks)
      /\ Blank \in RowMarks
  <2>1. Blank \in RowMarks
    BY MarksAre DEF Blank, RowMarks
  <2>2. given[Len(given)] \in Seq(RowMarks)
    BY <1>2, <1>3
  <2> QED
    BY <1>2, <2>1, <2>2, FlowsFields DEF Ready
<1>5. MakeUp(Settled(t).sheet, t.h, n, Append(given[Len(given)], Blank))
  <2>1. MakeUp(Settled(t).sheet, t.h, skipcount, given[Len(given)])
    BY <1>3 DEF UnderWay
  <2> QED
    BY <1>2, <1>4, <2>1, MakeUpMore
<1>6. n \in Nat /\ (lang = "ljcolor" => n = 0)
  BY <1>1, <1>2
<1>7. dataSent = FALSE => Settled(t).sheet = << >> /\ t.h.buffered = 0
  BY <1>3 DEF UnderWay
<1> HIDE DEF n
<1>8. /\ t \in States
      /\ Sound(lang, krgb, t, Settled(t), "page", [given EXCEPT ![Len(given)] = Append(@, Blank)], n, dataSent)
  BY <1>1, <1>2, <1>4, <1>5, <1>6, <1>7, RowSound
<1> HIDE DEF t
<1> QED
  BY <1>1, <1>8, InvPrimed

(* A page begins, at an empty sheet.                                       *)
LEMMA EmptyPage ==
  ASSUME NEW sheet, sheet = << >>, NEW h, h.buffered = 0
  PROVE  MakeUp(sheet, h, 0, << >>)
<1>1. Len(sheet) = 0 /\ Len(<< >>) = 0
  OBVIOUS
<1> QED
  BY <1>1 DEF MakeUp

LEMMA StartPageKeeps ==
  ASSUME FilterInv, StartPage
  PROVE  FilterInv'
<1> DEFINE t == IF lang = "pcl3gui2" THEN Send(Cleanup(State), [cmd |-> "start"]) ELSE State
           u == Cleanup(State)
           q == Settled(State)
           more == Append(given, << >>)
<1>1. /\ phase = "between" /\ given' = more /\ lang' = lang /\ krgb' = krgb /\ phase' = "page"
      /\ Becomes(t) /\ skipcount' = skipcount /\ dataSent' = dataSent
  BY DEF StartPage
<1>2. /\ Ready(State) /\ lang \in {"pcl3gui2", "ljcolor"} /\ krgb \in BOOLEAN
      /\ krgb = TRUE => lang = "pcl3gui2"
      /\ krgb = FALSE => NoBlack(State.h)
      /\ given \in Seq(Seq(RowMarks))
      /\ skipcount \in Nat /\ dataSent \in BOOLEAN /\ (lang = "ljcolor" => skipcount = 0)
      /\ \A n \in 1..Len(q.pages) : IsAll(q.pages[n], given[n])
  BY <1>1, OpenIs
<1>3. Between(lang, State.h, q, given, skipcount, dataSent) /\ Flushed(State)
  BY <1>1, BetweenIs
<1>4. /\ State.h.buffered = 0 /\ skipcount = 0 /\ dataSent = FALSE /\ q.sheet = << >>
      /\ Len(q.pages) = Len(given) /\ Rest(State.h) /\ Flows(State)
  BY <1>2, <1>3 DEF Between, Ready
<1>5. Flows(t) /\ Settled(t).pages = q.pages /\ Settled(t).sheet = q.sheet /\ Keeps(t.h, State.h)
  <2>1. CASE lang = "pcl3gui2"
    <3>1. t = Send(u, [cmd |-> "start"])
      BY <2>1
    <3>2. Typed(u) /\ Settled(u) = q /\ Keeps(u.h, State.h)
      BY <1>4, CleanupIs DEF Flows
    <3> HIDE DEF u, t
    <3>3. Flushed(u)
      BY <1>3, <3>2 DEF Flushed, Seeded, Keeps
    <3>4. Flows(t) /\ Settled(t).pages = Settled(u).pages /\ Settled(t).sheet = Settled(u).sheet
          /\ Keeps(t.h, u.h)
      BY <3>1, <3>3, StartedIs
    <3> QED
      BY <3>2, <3>4 DEF Keeps
  <2>2. CASE lang # "pcl3gui2"
    <3>1. t = State
      BY <2>2
    <3> HIDE DEF t
    <3> QED
      BY <1>4, <3>1 DEF Keeps
  <2> QED
    BY <2>1, <2>2
<1> HIDE DEF t, q
<1>6. Ready(t) /\ t.h.buffered = 0 /\ (krgb = FALSE => NoBlack(t.h))
  BY <1>2, <1>4, <1>5 DEF Ready, Rest, NoBlack, Keeps
<1>7. << >> \in Seq(RowMarks)
  OBVIOUS
<1>8. /\ more \in Seq(Seq(RowMarks)) /\ Len(more) = Len(given) + 1 /\ more[Len(more)] = << >>
      /\ \A n \in 1..Len(given) : more[n] = given[n]
  BY <1>2, <1>7
<1> HIDE DEF more
<1>9. \A n \in 1..Len(Settled(t).pages) : IsAll(Settled(t).pages[n], more[n])
  BY <1>2, <1>4, <1>5, <1>8
<1>10. MakeUp(Settled(t).sheet, t.h, 0, more[Len(more)])
  BY <1>4, <1>5, <1>6, <1>8, EmptyPage
<1>11. UnderWay(t.h, Settled(t), more, skipcount, dataSent)
  BY <1>4, <1>5, <1>6, <1>8, <1>10 DEF UnderWay
<1>12. t \in States /\ Sound(lang, krgb, t, Settled(t), "page", more, skipcount, dataSent)
  BY <1>2, <1>6, <1>8, <1>9, <1>11, PageSound
<1> QED
  BY <1>1, <1>12, InvPrimed

(* The page that is made up when the pipeline is emptied is ejected.       *)
LEMMA EjectIs ==
  ASSUME FilterInv, phase = "page", NEW s, Ready(s), krgb = FALSE => NoBlack(s.h),
         Settled(s).pages = Settled(State).pages,
         NEW page \in Seq(RowMarks), NEW skip \in Nat, MakeUp(Settled(s).sheet, s.h, skip, page),
         \A sheet \in Seq(RowMarks) : IsAll(sheet, page) => IsAll(sheet, given[Len(given)])
  PROVE  LET t == FormFeed(Flush(s)) IN
         t \in States /\ Sound(lang, krgb, t, Settled(t), "between", given, 0, FALSE)
<1> DEFINE f == Flush(s)
           t == FormFeed(f)
           q == Settled(State)
<1>1. /\ lang \in {"pcl3gui2", "ljcolor"} /\ krgb \in BOOLEAN /\ (krgb = TRUE => lang = "pcl3gui2")
      /\ given \in Seq(Seq(RowMarks))
      /\ \A n \in 1..Len(q.pages) : IsAll(q.pages[n], given[n])
  BY OpenIs
<1>2. Len(given) = Len(q.pages) + 1
  BY PageIs DEF UnderWay
<1> HIDE DEF q
<1>3. /\ Flushed(f) /\ Settled(f).pages = Settled(s).pages /\ Rest(f.h) /\ f.h.buffered = 0
      /\ MakeUp(Settled(f).sheet, f.h, skip, page)
      /\ NoBlack(s.h) => NoBlack(f.h)
  BY <1>1, FlushIs DEF Ready
<1> HIDE DEF f
<1>4. /\ Flows(t) /\ Settled(t).pages = Append(Settled(f).pages, Settled(f).sheet)
      /\ Settled(t).sheet = << >> /\ Keeps(t.h, f.h)
  BY <1>3, FormFeedIs
<1> HIDE DEF t
<1>5. Settled(f).sheet \in Seq(RowMarks) /\ Settled(f).pages \in Seq(Seq(RowMarks))
      /\ Settled(f).pages = q.pages
  <2>1. Settled(f) \in Printers
    BY <1>3 DEF Flushed, Typed
  <2> QED
    BY <1>3, <2>1, PrinterFields DEF q
<1>6. IsAll(Settled(f).sheet, given[Len(given)])
  BY <1>3, <1>5, MakeUpAll
<1> DEFINE all == Settled(t).pages
           old == Settled(f).pages
           sheet == Settled(f).sheet
<1>7. /\ Len(all) = Len(old) + 1 /\ Len(old) \in Nat /\ all[Len(old) + 1] = sheet
      /\ \A n \in 1..Len(old) : all[n] = old[n]
  BY <1>4, <1>5
<1>8. ASSUME NEW n \in 1..Len(all) PROVE IsAll(all[n], given[n])
  <2> HIDE DEF all, old, sheet
  <2>1. CASE n = Len(old) + 1
    <3>1. n = Len(given)
      BY <1>2, <1>5, <2>1 DEF old
    <3> QED
      BY <1>6, <1>7, <2>1, <3>1 DEF sheet
  <2>2. CASE n # Len(old) + 1
    <3>1. n \in 1..Len(old)
      BY <1>7, <2>2
    <3>2. all[n] = q.pages[n] /\ n \in 1..Len(q.pages)
      BY <1>5, <1>7, <3>1 DEF old
    <3> QED
      BY <1>1, <3>2
  <2> QED
    BY <2>1, <2>2
<1>9. Ready(t) /\ t.h.buffered = 0 /\ (krgb = FALSE => NoBlack(t.h))
  BY <1>3, <1>4 DEF Ready, Rest, NoBlack, Keeps
<1>10. t.h.colorSeed = ZeroIn(lang) /\ t.h.blackSeed = Clear
  BY <1>3, <1>4 DEF Flushed, Keeps, ColorZero, ZeroIn
<1>11. Len(Settled(t).pages) = Len(given)
  BY <1>2, <1>5, <1>7
<1>12. Between(lang, t.h, Settled(t), given, 0, FALSE)
  BY <1>4, <1>9, <1>10, <1>11 DEF Between
<1>13. t \in States /\ Sound(lang, krgb, t, Settled(t), "between", given, 0, FALSE)
  BY <1>1, <1>8, <1>9, <1>12, BetweenSound
<1> QED
  BY <1>13 DEF t, f

(* A page of nothing but blank rows is the page of one.                    *)
LEMMA OneBlank ==
  ASSUME NEW page \in Seq(RowMarks), Len(page) > 0, \A i \in 1..Len(page) : page[i] = Blank,
         NEW sheet \in Seq(RowMarks), IsAll(sheet, <<Blank>>)
  PROVE  IsAll(sheet, page)
<1>1. <<Blank>> \in Seq(RowMarks) /\ Len(<<Blank>>) = 1 /\ <<Blank>>[1] = Blank
  BY MarksAre DEF Blank, RowMarks
<1>2. /\ Len(sheet) <= Len(<<Blank>>) /\ \A i \in 1..Len(sheet) : sheet[i] = <<Blank>>[i]
  <2>1. IsPrefix(sheet, <<Blank>>)
    BY DEF IsAll
  <2> DEFINE one == <<Blank>>
  <2>2. one \in Seq(RowMarks) /\ IsPrefix(sheet, one)
    BY <1>1, <2>1
  <2> HIDE DEF one
  <2>3. Len(sheet) <= Len(one) /\ \A i \in 1..Len(sheet) : sheet[i] = one[i]
    BY <2>2, PrefixIs
  <2> QED
    BY <2>3 DEF one
<1>3. Len(sheet) \in Nat /\ Len(sheet) <= 1 /\ Len(page) \in Nat
  BY <1>1, <1>2
<1>4. \A i \in 1..Len(sheet) : i = 1 /\ i \in 1..Len(page)
  BY <1>3
<1>5. Len(sheet) <= Len(page) /\ \A i \in 1..Len(sheet) : sheet[i] = page[i]
  BY <1>1, <1>2, <1>3, <1>4
<1>6. IsPrefix(sheet, page)
  BY <1>5, PrefixIs
<1>7. \A i \in Len(sheet) + 1 .. Len(page) : i \in 1..Len(page)
  BY <1>3
<1> QED
  BY <1>6, <1>7 DEF IsAll

LEMMA NewPageKeeps ==
  ASSUME FilterInv, NewPage
  PROVE  FilterInv'
<1> DEFINE s == IF ~dataSent /\ skipcount > 0 THEN Execute(State, BlankRaster) ELSE State
           t == FormFeed(Flush(s))
           page == given[Len(given)]
           q == Settled(State)
<1>1. /\ phase = "page" /\ phase' = "between" /\ Becomes(t) /\ skipcount' = 0 /\ dataSent' = FALSE
      /\ lang' = lang /\ krgb' = krgb /\ given' = given
  BY DEF NewPage
<1>2. /\ Ready(State) /\ lang \in {"pcl3gui2", "ljcolor"} /\ krgb \in BOOLEAN
      /\ krgb = TRUE => lang = "pcl3gui2"
      /\ krgb = FALSE => NoBlack(State.h)
      /\ skipcount \in Nat /\ dataSent \in BOOLEAN /\ given \in Seq(Seq(RowMarks))
  BY <1>1, OpenIs
<1>3. /\ page \in Seq(RowMarks) /\ MakeUp(q.sheet, State.h, skipcount, page)
      /\ dataSent = FALSE => q.sheet = << >> /\ State.h.buffered = 0
  <2>1. UnderWay(State.h, q, given, skipcount, dataSent) /\ Len(given) \in 1..Len(given)
    BY <1>1, PageIs
  <2> QED
    BY <1>2, <2>1 DEF UnderWay
<1>4. t \in States /\ Sound(lang, krgb, t, Settled(t), "between", given, 0, FALSE)
  <2>1. CASE dataSent = FALSE /\ skipcount > 0
    <3>1. s = Execute(State, BlankRaster)
      BY <2>1
    <3>2. /\ BlankRaster.color = White /\ BlankRaster.black = NoRow
          /\ White \in Marks /\ NoRow \in Marks /\ White # NoRow
      BY MarksAre DEF BlankRaster
    <3>3. Shown(BlankRaster.color, BlankRaster.black) = Blank
      BY <3>2 DEF Shown, Blank
    <3>4. MakeUp(q.sheet, State.h, 0, << >>) /\ << >> \in Seq(RowMarks)
      BY <1>3, <2>1, EmptyPage
    <3> HIDE DEF s
    <3>5. /\ Ready(s) /\ Settled(s).pages = q.pages
          /\ MakeUp(Settled(s).sheet, s.h, 0, Append(<< >>, Blank))
          /\ NoBlack(State.h) => NoBlack(s.h)
      <4> DEFINE r == BlankRaster
      <4>1. r.color \in Marks /\ r.black \in Marks /\ r.color # NoRow /\ r.black = NoRow
            /\ Shown(r.color, r.black) = Blank /\ s = Execute(State, r)
        BY <3>1, <3>2, <3>3
      <4> HIDE DEF r
      <4> QED
        BY <1>2, <3>4, <4>1, ExecuteIs
    <3>6. Append(<< >>, Blank) = <<Blank>> /\ <<Blank>> \in Seq(RowMarks)
      BY MarksAre DEF Blank, RowMarks
    <3>7. MakeUp(Settled(s).sheet, s.h, 0, <<Blank>>)
      BY <3>5, <3>6
    <3>8. Len(page) > 0 /\ \A i \in 1..Len(page) : page[i] = Blank
      <4>1. Len(q.sheet) = 0 /\ State.h.buffered = 0
        BY <1>3, <2>1
      <4>2. /\ Len(page) = Len(q.sheet) + State.h.buffered + skipcount
            /\ \A i \in Len(q.sheet) + State.h.buffered + 1 .. Len(page) : page[i] = Blank
        BY <1>3 DEF MakeUp
      <4> HIDE DEF page, q
      <4> QED
        BY <1>2, <2>1, <4>1, <4>2
    <3>9. \A sheet \in Seq(RowMarks) : IsAll(sheet, <<Blank>>) => IsAll(sheet, page)
      BY <1>3, <3>8, OneBlank
    <3> QED
      BY <1>1, <1>2, <3>5, <3>6, <3>7, <3>9, EjectIs
  <2>2. CASE ~(dataSent = FALSE /\ skipcount > 0)
    <3>1. s = State
      BY <1>2, <2>2
    <3> HIDE DEF s
    <3> QED
      BY <1>1, <1>2, <1>3, <3>1, EjectIs
  <2> QED
    BY <2>1, <2>2
<1> HIDE DEF t
<1> QED
  BY <1>1, <1>4, InvPrimed

LEMMA EndJobKeeps ==
  ASSUME FilterInv, EndJob
  PROVE  FilterInv'
<1> DEFINE u == Cleanup(State)
           c == [cmd |-> "UEL"]
           t == Direct(u, c)
           q == Settled(State)
<1>1. /\ phase = "between" /\ phase' = "closed" /\ Becomes(t)
      /\ skipcount' = skipcount /\ dataSent' = dataSent
      /\ lang' = lang /\ krgb' = krgb /\ given' = given
  BY DEF EndJob
<1>2. Sound(lang, krgb, State, q, phase, given, skipcount, dataSent)
  BY InvIs
<1>3. Between(lang, State.h, q, given, skipcount, dataSent) /\ Flushed(State)
  BY <1>1, BetweenIs
<1>4. Typed(State) /\ q \in Printers /\ q.open = TRUE
  BY <1>3 DEF Flushed, Typed
<1>5. Typed(u) /\ Settled(u) = q /\ u.h.buf = << >> /\ Keeps(u.h, State.h)
  BY <1>4, CleanupIs
<1>6. c \in Commands /\ c.cmd = "UEL"
  BY DEF Commands
<1> HIDE DEF u, c
<1>7. Typed(t) /\ Settled(t) = Take(q, c) /\ t.h = u.h /\ t.p = Take(q, c)
  BY <1>5, <1>6, DirectIs
<1>8. Is(Take(q, c), FALSE, q.pages, q.sheet, q.colorSeed, q.blackSeed)
  <2> HIDE DEF q
  <2> QED
    BY <1>4, <1>6, TakeUEL
<1> HIDE DEF t
<1>9. t \in States /\ Settled(t) \in Printers /\ Earlier(t.p, Settled(t))
  BY <1>7 DEF Typed, States
<1>10. Settled(t).pages = q.pages /\ Settled(t).sheet = q.sheet /\ Settled(t) = t.p
  BY <1>7, <1>8 DEF Is
<1> HIDE DEF q
<1>11. Ended(t.p, Settled(t), given)
  BY <1>3, <1>10 DEF Ended, Between
<1>12. /\ Rest(t.h) /\ (krgb = FALSE => NoBlack(t.h))
       /\ lang = "ljcolor" => skipcount = 0 /\ t.h.buffered = 0
  BY <1>2, <1>5, <1>7 DEF Sound, Rest, NoBlack, Keeps
<1>13. Sound(lang, krgb, t, Settled(t), "closed", given, skipcount, dataSent)
  BY <1>2, <1>9, <1>10, <1>11, <1>12 DEF Sound
<1> QED
  BY <1>1, <1>9, <1>13, InvPrimed

LEMMA InitInv ==
  ASSUME FilterInit
  PROVE  FilterInv
<1> DEFINE s == State
           e == << >>
           none == [i \in 0..3 |-> NoRow]
<1>1. PICK y \in IF lang = "ljcolor" THEN 0 .. RestartEvery - 1 ELSE {0} :
        host = [buf |-> e, yPos |-> y,
                colorSeed |-> ColorZero, colorSeeded |-> FALSE,
                blackSeed |-> Clear, blackSeeded |-> FALSE, resetSeedRow |-> FALSE,
                colorRows |-> none, blackRows |-> none,
                rowIndex |-> 0, buffered |-> 0, ready |-> 0, delivered |-> 0]
  BY DEF FilterInit
<1>2. printer = [open |-> TRUE, pages |-> e, sheet |-> e, colorSeed |-> ColorZero, blackSeed |-> Clear]
  BY DEF FilterInit
<1>3. y \in Int /\ ColorZero \in Marks /\ Clear \in Marks /\ NoRow \in Marks
  BY RasterAssumption, MarksAre
<1>4. none \in [0..3 -> Marks] /\ \A i \in 0..3 : none[i] = NoRow
  BY <1>3
<1>5. e \in Seq(Commands) /\ e \in Seq(Seq(RowMarks)) /\ e \in Seq(RowMarks) /\ Len(e) = 0
  OBVIOUS
<1> HIDE DEF none, e
<1>6. host \in Hosts
  BY <1>1, <1>3, <1>4, <1>5 DEF Hosts
<1>7. printer \in Printers
  BY <1>2, <1>3, <1>5 DEF Printers
<1>8. s \in States /\ s.h = host /\ s.p = printer
  BY <1>6, <1>7 DEF State, States
<1> HIDE DEF s
<1>9. Settled(s) = printer
  BY <1>1, <1>8, TakenEmpty DEF Settled, e
<1>10. Rest(s.h) /\ NoBlack(s.h) /\ s.h.buffered = 0
  BY <1>1, <1>4, <1>8 DEF Rest, NoBlack
<1>11. Earlier(s.p, printer)
  BY <1>7, <1>8, EarlierRefl
<1>12. Steady(lang, s.h, printer)
  BY <1>1, <1>2, <1>8 DEF Steady, ColorZero, ZeroIn
<1>13. /\ lang \in {"pcl3gui2", "ljcolor"} /\ krgb \in BOOLEAN /\ (krgb = TRUE => lang = "pcl3gui2")
       /\ phase = "between" /\ given = e /\ skipcount = 0 /\ dataSent = FALSE
  BY DEF FilterInit, e
<1>14. printer.open = TRUE /\ printer.sheet = << >> /\ Len(printer.pages) = 0 /\ Len(given) = 0
  BY <1>2, <1>5, <1>13 DEF e
<1>15. Between(lang, s.h, printer, given, skipcount, dataSent)
  BY <1>1, <1>8, <1>10, <1>13, <1>14 DEF Between, ColorZero, ZeroIn
<1>16. Sound(lang, krgb, s, printer, phase, given, skipcount, dataSent)
  <2>1. skipcount \in Nat /\ dataSent \in BOOLEAN /\ given \in Seq(Seq(RowMarks))
    BY <1>5, <1>13
  <2>2. \A n \in 1..Len(printer.pages) : IsAll(printer.pages[n], given[n])
    BY <1>14
  <2>3. phase # "closed" /\ phase # "page" /\ phase \in {"between", "page", "closed"}
    BY <1>13
  <2>4. skipcount = 0 /\ printer.open = TRUE
    BY <1>13, <1>14
  <2>5. lang \in {"pcl3gui2", "ljcolor"} /\ krgb \in BOOLEAN /\ (krgb = TRUE => lang = "pcl3gui2")
    BY <1>13
  <2> QED
    BY <1>7, <1>8, <1>10, <1>11, <1>12, <1>15, <2>1, <2>2, <2>3, <2>4, <2>5 DEF Sound
<1> QED
  BY <1>9, <1>16, InvIs DEF s

(* What the invariant says of the seeds: host and printer agree.           *)
LEMMA InvSeeds ==
  ASSUME FilterInv
  PROVE  SeedsAgree
<1>1. CASE phase = "page"
  <2>1. Agree(State)
    BY <1>1, OpenIs DEF Ready, Flows
  <2> QED
    BY <2>1 DEF SeedsAgree, Agree, Settled, TakenBy, State
<1>2. CASE phase # "page"
  BY <1>2 DEF SeedsAgree
<1> QED
  BY <1>1, <1>2

(* What it says of the paper.  The printer stands before commands still in *)
(* the buffer, so its pages and its sheet are begins of those it will have.*)
LEMMA InvPages ==
  ASSUME FilterInv
  PROVE  PageAsGiven
<1> DEFINE p == printer
           q == Settled(State)
           k == Len(p.pages)
           l == Len(q.pages)
<1>1. Sound(lang, krgb, State, q, phase, given, skipcount, dataSent)
  BY InvIs
<1>2. State \in States /\ State.p = p /\ State.h = host
  BY <1>1 DEF Sound, State
<1>3. /\ p \in Printers /\ q \in Printers /\ host \in Hosts /\ Earlier(p, q)
      /\ given \in Seq(Seq(RowMarks)) /\ skipcount \in Nat
      /\ phase \in {"between", "page", "closed"}
      /\ \A n \in 1..l : IsAll(q.pages[n], given[n])
  BY <1>1, <1>2 DEF Sound, States
<1>4. /\ p.pages \in Seq(Seq(RowMarks)) /\ p.sheet \in Seq(RowMarks)
      /\ q.pages \in Seq(Seq(RowMarks)) /\ q.sheet \in Seq(RowMarks)
  BY <1>3, PrinterFields
<1>5. k \in Nat /\ l \in Nat /\ k <= l /\ Len(given) \in Nat
  BY <1>3, <1>4 DEF Earlier
<1>6. l <= Len(given)
      /\ (phase # "page" => l = Len(given) /\ q.sheet = << >>)
      /\ (phase = "page" => Len(given) = l + 1 /\ MakeUp(q.sheet, host, skipcount, given[Len(given)]))
      /\ (phase = "closed" => q = p)
  <2>1. CASE phase = "page"
    <3>1. UnderWay(host, q, given, skipcount, dataSent)
      BY <1>1, <1>2, <2>1 DEF Sound
    <3> HIDE DEF q
    <3> QED
      BY <1>5, <2>1, <3>1 DEF UnderWay
  <2>2. CASE phase = "between"
    <3>1. Between(lang, host, q, given, skipcount, dataSent)
      BY <1>1, <1>2, <2>2 DEF Sound
    <3> HIDE DEF q
    <3> QED
      BY <1>5, <2>2, <3>1 DEF Between
  <2>3. CASE phase = "closed"
    <3>1. Ended(p, q, given)
      BY <1>1, <1>2, <2>3 DEF Sound
    <3> HIDE DEF q
    <3> QED
      BY <1>5, <2>3, <3>1 DEF Ended
  <2> QED
    BY <1>3, <2>1, <2>2, <2>3
<1> HIDE DEF q, p
<1>7. \A n \in 1..k : IsAll(p.pages[n], given[n])
  <2>1. \A n \in 1..k : p.pages[n] = q.pages[n] /\ n \in 1..l
    BY <1>3, <1>5 DEF Earlier
  <2> QED
    BY <1>3, <2>1
<1>8. p.sheet # << >> => IsPrefix(p.sheet, given[k + 1])
  <2> SUFFICES ASSUME p.sheet # << >> PROVE IsPrefix(p.sheet, given[k + 1])
    OBVIOUS
  <2>1. \/ k = l /\ IsPrefix(p.sheet, q.sheet)
        \/ k < l /\ IsPrefix(p.sheet, q.pages[k + 1])
    BY <1>3 DEF Earlier
  <2>2. CASE k = l /\ IsPrefix(p.sheet, q.sheet)
    <3>1. q.sheet # << >>
      <4>1. Len(p.sheet) <= Len(q.sheet)
        BY <1>4, <2>2, PrefixIs
      <4>2. Len(p.sheet) # 0
        BY <1>4
      <4> QED
        BY <1>4, <4>1, <4>2
    <3>2. Len(given) = k + 1 /\ MakeUp(q.sheet, host, skipcount, given[k + 1])
      BY <1>6, <2>2, <3>1
    <3>3. given[k + 1] \in Seq(RowMarks)
      BY <1>3, <1>5, <3>2
    <3>4. IsPrefix(q.sheet, given[k + 1])
      BY <1>3, <1>4, <3>2, <3>3, MakeUpPrefix
    <3> QED
      BY <1>4, <2>2, <3>3, <3>4, PrefixTrans
  <2>3. CASE k < l /\ IsPrefix(p.sheet, q.pages[k + 1])
    <3>1. k + 1 \in 1..l /\ k + 1 \in 1..Len(given)
      BY <1>5, <1>6, <2>3
    <3>2. q.pages[k + 1] \in Seq(RowMarks) /\ given[k + 1] \in Seq(RowMarks)
      BY <1>3, <1>4, <3>1
    <3>3. IsPrefix(q.pages[k + 1], given[k + 1])
      BY <1>3, <3>1 DEF IsAll
    <3> QED
      BY <1>4, <2>3, <3>2, <3>3, PrefixTrans
  <2> QED
    BY <2>1, <2>2, <2>3
<1>9. DOMAIN p.pages = 1..k
  BY <1>4
<1>10. k <= Len(given) /\ (phase = "closed" => k = Len(given))
  BY <1>3, <1>5, <1>6
<1> QED
  BY <1>7, <1>8, <1>9, <1>10 DEF PageAsGiven, p

LEMMA NextInv ==
  ASSUME FilterInv, [FilterNext]_filterVars
  PROVE  FilterInv'
<1>1. CASE UNCHANGED filterVars
  BY <1>1 DEF FilterInv, filterVars
<1>2. CASE FilterNext
  BY <1>2, StartPageKeeps, DataRowKeeps, SkippedRowKeeps, BlankRowKeeps, NewPageKeeps, EndJobKeeps
  DEF FilterNext
<1> QED
  BY <1>1, <1>2

(* The seed rows: whatever rows a job has, however small the buffer of     *)
(* commands and however often ljcolor starts raster graphics anew, a       *)
(* printer that takes what is in the buffer has the seed rows the next row *)
(* is encoded against, in every page of every job.                         *)
THEOREM SeedsKept == FilterSpec => []SeedsAgree
<1>1. FilterInit => FilterInv
  BY InitInv
<1>2. FilterInv /\ [FilterNext]_filterVars => FilterInv'
  BY NextInv
<1>3. FilterInv => SeedsAgree
  BY InvSeeds
<1> QED
  BY <1>1, <1>2, <1>3, PTL DEF FilterSpec

(* The paper: for the same jobs, every ejected page is the page the raster *)
(* gave but for blank rows at its end, the sheet under the head begins the *)
(* next one, and the end of the job leaves none behind.                    *)
THEOREM PagesKept == FilterSpec => []PageAsGiven
<1>1. FilterInit => FilterInv
  BY InitInv
<1>2. FilterInv /\ [FilterNext]_filterVars => FilterInv'
  BY NextInv
<1>3. FilterInv => PageAsGiven
  BY InvPages
<1> QED
  BY <1>1, <1>2, <1>3, PTL DEF FilterSpec

===============================================================================
