-------------------------- MODULE LedmScan_proofs --------------------------
(***************************************************************************)
(* Proofs about LedmScan, for every list of chunk sizes, number of sheets, *)
(* of faults and of jobs of other clients: TypeOK, NoChannelLeft,          *)
(* NoJobLeft, PagesWhole.                                                  *)
(*                                                                         *)
(* ControlInv says where the two threads and a cancel can be at a time,    *)
(* and at which of these places the session's channel is open.  It is kept *)
(* whatever fails, and gives TypeOK and NoChannelLeft.                     *)
(*                                                                         *)
(* PagesInv adds the job and, while nothing has failed, the page: what is  *)
(* in the thread's image, in ps->buf and still in the stream is the page   *)
(* the scanner feeds (Held); the pages it fed are those that were kept,    *)
(* and the one on its way (Sending).                                       *)
(***************************************************************************)
EXTENDS LedmScan, FoldLemmas

(* Places.                                                                 *)
Starting == {"loop", "paper", "start", "create", "poll"}
Live == {"scanning", "ready", "sending"}
Scanning == {"idle", "enter", "entered", "reading"}
Closing == {"ip", "page", "close"}

(* Which thread is where: one start, one read, one cancel at a time.       *)
PlaceInv ==
  /\ main \in Starting \cup {"parse"} => rd \in {"none", "ended"}
  /\ cancel # "none" => (rd = "canceling" \/ main \in {"aborting", "closing"})
  /\ main \in {"aborting", "closing"} => cancel # "none" /\ rd # "canceling"
  /\ rd = "canceling" => cancel # "none"
  /\ at # "none" => main = "parse" \/ rd = "reading"
  /\ at \in Closing => rd = "reading"
  /\ rd = "reading" => at # "none"
  /\ ~session => main = "exited"
  /\ wrecked => main = "exited" /\ rd = "ended"

Devices == [job : Nat, state : {"none", "scanning", "ready", "sending", "completed", "canceled"},
            sheets : Nat, pages : Nat, side : {1, 2}, other : BOOLEAN]

DevInv ==
  /\ dev \in Devices
  /\ dev.state = "none" => dev.pages = 0

(* An open channel is the one of the handle; a page's channel is closed    *)
(* before its thread ends, a cancel's before the cancel.                   *)
HttpInv ==
  /\ open = IF http = "none" THEN 0 ELSE 1
  /\ http = "cancel" => cancel = "request" \/ wrecked
  /\ http = "page" =>
       \/ main \in {"poll", "parse"} \/ wrecked
       \/ main = "aborting" /\ cancel \in {"begin", "ip", "page", "close"}
       \/ /\ main \in {"wait", "active"}
          /\ \/ rd \in Scanning
             \/ rd = "back" /\ ret # "eof"
             \/ rd = "canceling" /\ cancel \in {"begin", "ip", "page", "close"}

(* TypeOK, conjunct by conjunct.                                           *)
Flags ==
  session \in BOOLEAN /\ userCancel \in BOOLEAN /\ ip \in BOOLEAN /\ wrecked \in BOOLEAN

Places ==
    /\ source \in Sources /\ leaving \in {"exit", "close"}
    /\ main \in {"loop", "paper", "start", "create", "poll", "parse", "wait", "active", "aborting",
                 "finally", "closing", "close", "exited"}
    /\ rd \in {"none", "idle", "enter", "entered", "reading", "back", "canceling", "failing", "ended"}
    /\ ret \in {"good", "eof", "error", "cancelled"}
    /\ at \in {"none", "size", "data", "crlf", "convert", "ip", "page", "close"}
    /\ cancel \in {"none", "begin", "ip", "page", "close", "open", "request"}
    /\ http \in {"none", "page", "cancel"}

Numbers ==
  job \in Nat /\ page \in Nat /\ faults \in Nat /\ others \in Nat /\ (job = 0) = (page = 0)

ControlInv == Flags /\ Places /\ Numbers /\ DevInv /\ PlaceInv /\ HttpInv

-----------------------------------------------------------------------------
(* What the operators give.                                                *)

LEMMA TypeIs == ControlInv => TypeOK
<1>1. ASSUME Flags PROVE \A b \in {session, userCancel, ip, wrecked} : b \in BOOLEAN
  BY <1>1 DEF Flags
<1>2. ASSUME ControlInv PROVE open \in 0..2  BY <1>2 DEF ControlInv, HttpInv
<1> QED BY <1>1, <1>2 DEF ControlInv, Places, Numbers, TypeOK

LEMMA FedIs ==
  ASSUME NEW d \in Devices, Feeder /\ d.side = 2 => d.sheets > 0
  PROVE  /\ Fed(d) \in Devices /\ Fed(d).state = "scanning" /\ Fed(d).job = d.job
         /\ Fed(d).pages = d.pages + 1
<1> DEFINE side == IF source = "duplex" THEN 3 - d.side ELSE 2
           sheets == IF Feeder /\ d.side = 2 THEN d.sheets - 1 ELSE d.sheets
<1>1. side \in {1, 2} /\ sheets \in Nat /\ d.pages + 1 \in Nat  BY DEF Devices
<1>2. Fed(d) = [d EXCEPT !.state = "scanning", !.pages = d.pages + 1, !.side = side, !.sheets = sheets]
  BY DEF Fed
<1> HIDE DEF side, sheets
<1> QED BY <1>1, <1>2 DEF Devices

LEMMA CreatedIs ==
  ASSUME NEW d \in Devices
  PROVE  /\ Created(d) \in Devices /\ Created(d).job = d.job + 1
         /\ \/ Created(d).state = "scanning" /\ Created(d).pages = d.pages + 1
            \/ Created(d).state = "completed" /\ Created(d).pages = d.pages
<1> DEFINE e == [d EXCEPT !.job = @ + 1, !.side = 2]
<1>1. /\ e \in Devices /\ e.job = d.job + 1 /\ e.side = 2 /\ e.sheets = d.sheets /\ e.pages = d.pages
      /\ d.job + 1 \in Nat /\ d.sheets \in Nat /\ d.pages \in Nat
  <2>1. d.job + 1 \in Nat /\ 2 \in {1, 2}  BY DEF Devices
  <2>2. e = [d EXCEPT !.job = d.job + 1, !.side = 2]  OBVIOUS
  <2> QED BY <2>1, <2>2 DEF Devices
<1>2. CASE Feeder /\ d.sheets = 0
  <2>1. Created(d) = [d EXCEPT !.job = d.job + 1, !.state = "completed"]  BY <1>2 DEF Created
  <2> QED BY <2>1, <1>1 DEF Devices
<1>3. CASE ~(Feeder /\ d.sheets = 0)
  <2>1. Created(d) = Fed(e)  BY <1>3 DEF Created
  <2> HIDE DEF e
  <2>2. Feeder /\ e.side = 2 => e.sheets > 0  BY <1>1, <1>3
  <2> QED BY <1>1, <2>1, <2>2, FedIs
<1> QED BY <1>2, <1>3

LEMMA InitControl == Init => ControlInv
<1> SUFFICES ASSUME Init PROVE ControlInv  OBVIOUS
<1>1. MaxSheets \in Nat  BY ConstantsAssumption
<1>2. DevInv
  <2>1. dev.pages = 0  BY DEF Init
  <2>2. dev \in Devices
    <3>1. dev \in [job : {0}, state : {"none"}, sheets : 0..MaxSheets, pages : {0}, side : {2}, other : {FALSE}]
      BY DEF Init
    <3>2. 0..MaxSheets \subseteq Nat /\ {0} \subseteq Nat  BY <1>1
    <3> QED BY <3>1, <3>2 DEF Devices
  <2> QED BY <2>1, <2>2 DEF DevInv
<1>3. Flags /\ Places /\ Numbers  BY DEF Init, Flags, Places, Numbers
<1>4. PlaceInv /\ HttpInv  BY DEF Init, PlaceInv, HttpInv, Starting, Closing
<1> QED BY <1>2, <1>3, <1>4 DEF ControlInv

-----------------------------------------------------------------------------
(* Each action keeps ControlInv.                                           *)

LEMMA StartScanControl == ControlInv /\ StartScan => ControlInv'
<1> SUFFICES ASSUME ControlInv, StartScan PROVE ControlInv'  OBVIOUS
<1> USE DEF StartScan, ControlInv, GIL, Feeder, outside
<1>1. Flags'  BY DEF Flags
<1>2. Places'  BY DEF Places
<1>3. Numbers'  BY DEF Numbers
<1>4. DevInv'  BY DEF DevInv
<1>5. PlaceInv'  BY DEF Flags, PlaceInv, Closing, Starting
<1>6. HttpInv'  BY DEF HttpInv
<1> QED BY <1>1, <1>2, <1>3, <1>4, <1>5, <1>6

LEMMA IsPaperInAdfControl == ControlInv /\ IsPaperInAdf => ControlInv'
<1> SUFFICES ASSUME ControlInv, IsPaperInAdf PROVE ControlInv'  OBVIOUS
<1> USE DEF IsPaperInAdf, ControlInv, NoFault, EndStart, CloseHttp, Feeder, Fault
<1>1. Flags'  BY DEF Flags
<1>2. Places'  BY DEF Places
<1>3. Numbers'  BY DEF Numbers
<1>4. DevInv'  BY DEF DevInv, Devices
<1>5. PlaceInv'  BY DEF Flags, PlaceInv, Closing, Starting
<1>6. HttpInv'  BY DEF Places, HttpInv, PlaceInv, Starting
<1> QED BY <1>1, <1>2, <1>3, <1>4, <1>5, <1>6

LEMMA ScannerStatusControl == ControlInv /\ ScannerStatus => ControlInv'
<1> SUFFICES ASSUME ControlInv, ScannerStatus PROVE ControlInv'  OBVIOUS
<1> USE DEF ScannerStatus, ControlInv, Busy, NoFault, Goto, EndStart, CloseHttp, Feeder, Fault
<1>1. Flags'  BY DEF Flags
<1>2. Places'  BY DEF Places
<1>3. Numbers'  BY DEF Numbers
<1>4. DevInv'  BY DEF DevInv, Devices
<1>5. PlaceInv'  BY DEF Flags, PlaceInv, Closing, Starting
<1>6. HttpInv'  BY DEF HttpInv
<1> QED BY <1>1, <1>2, <1>3, <1>4, <1>5, <1>6

LEMMA CreateJobControl == ControlInv /\ CreateJob => ControlInv'
<1> SUFFICES ASSUME ControlInv, CreateJob PROVE ControlInv'  OBVIOUS
<1> USE DEF CreateJob, ControlInv, Busy, NoFault, OpenPage, Goto, EndStart, CloseHttp, Feeder, Fault
<1>1. Flags'  BY DEF Flags
<1>2. Places'  BY DEF Places
<1>3. Created(dev).job \in Nat /\ Created(dev).job # 0 /\ Created(dev) \in Devices
      /\ (Created(dev).state = "none" => Created(dev).pages = 0)
  <2>1. dev \in Devices /\ dev.job \in Nat  BY DEF DevInv, Devices
  <2>2. Created(dev) \in Devices /\ Created(dev).job = dev.job + 1 /\ Created(dev).state # "none"
    BY <2>1, CreatedIs
  <2> QED BY <2>1, <2>2
<1>4. Numbers'  BY <1>3 DEF Numbers
<1>5. DevInv'  BY <1>3 DEF DevInv
<1>6. PlaceInv'  BY DEF Flags, PlaceInv, Closing, Starting
<1>7. HttpInv'  BY DEF Places, HttpInv, PlaceInv, Starting
<1> QED BY <1>1, <1>2, <1>4, <1>5, <1>6, <1>7

LEMMA NextPageControl == ControlInv /\ NextPage => ControlInv'
<1> SUFFICES ASSUME ControlInv, NextPage PROVE ControlInv'  OBVIOUS
<1> USE DEF NextPage, ControlInv, Feeder, OpenPage, Goto
<1>1. Flags'  BY DEF Flags
<1>2. Places'  BY DEF Places
<1>3. Numbers'  BY DEF Numbers
<1>4. DevInv'  BY DEF DevInv, Devices
<1>5. PlaceInv'  BY DEF Flags, PlaceInv, Closing, Starting
<1>6. HttpInv'  BY DEF Places, HttpInv, PlaceInv, Starting
<1> QED BY <1>1, <1>2, <1>3, <1>4, <1>5, <1>6

LEMMA PollJobControl == ControlInv /\ PollJob => ControlInv'
<1> SUFFICES ASSUME ControlInv, PollJob PROVE ControlInv'  OBVIOUS
<1> USE DEF PollJob, ControlInv, NoFault, Started, EndStart, CloseHttp, Feeder, outside, Fault
<1>1. Flags'  BY DEF Flags
<1>2. Places'  BY DEF Places
<1>3. Numbers'  BY DEF Numbers
<1>4. DevInv'  BY DEF DevInv, Devices
<1>5. PlaceInv'  BY DEF Flags, PlaceInv, Closing, Starting
<1>6. HttpInv'  BY DEF HttpInv, Scanning
<1> QED BY <1>1, <1>2, <1>3, <1>4, <1>5, <1>6

LEMMA GetSizeControl == ControlInv /\ GetSize => ControlInv'
<1> SUFFICES ASSUME ControlInv, GetSize PROVE ControlInv'  OBVIOUS
<1> USE DEF GetSize, ControlInv, Lost, NoFault, Read, ReadAs, threads
<1>1. Flags'  BY DEF Flags
<1>2. Places'  BY DEF Places
<1>3. Numbers'  BY DEF Numbers
<1>4. DevInv'  BY DEF DevInv
<1>5. PlaceInv'  BY DEF Flags, PlaceInv, Closing
<1>6. HttpInv'  BY DEF HttpInv
<1> QED BY <1>1, <1>2, <1>3, <1>4, <1>5, <1>6

LEMMA GetOtherSizeControl == ControlInv /\ GetOtherSize => ControlInv'
<1> SUFFICES ASSUME ControlInv, GetOtherSize PROVE ControlInv'  OBVIOUS
<1> USE DEF GetOtherSize, ControlInv, NoFault, Fault, ReadAs, threads
<1>1. Flags'  BY DEF Flags
<1>2. Places'  BY DEF Places
<1>3. Numbers'  BY DEF Numbers
<1>4. DevInv'  BY DEF DevInv
<1>5. PlaceInv'  BY DEF Flags, PlaceInv, Closing, Starting
<1>6. HttpInv'  BY DEF HttpInv, Scanning
<1> QED BY <1>1, <1>2, <1>3, <1>4, <1>5, <1>6

LEMMA GetSizeFailsControl == ControlInv /\ GetSizeFails => ControlInv'
<1> SUFFICES ASSUME ControlInv, GetSizeFails PROVE ControlInv'  OBVIOUS
<1> USE DEF GetSizeFails, ControlInv, Lost, Wreck, Fault, NoFault
<1>1. Flags'  BY DEF Flags
<1>2. Places'  BY DEF Places
<1>3. Numbers'  BY DEF Numbers
<1>4. DevInv'  BY DEF DevInv
<1>5. PlaceInv'  BY DEF Flags, PlaceInv, Closing
<1>6. HttpInv'  BY DEF HttpInv
<1> QED BY <1>1, <1>2, <1>3, <1>4, <1>5, <1>6

LEMMA GetDataControl == ControlInv /\ GetData => ControlInv'
<1> SUFFICES ASSUME ControlInv, GetData PROVE ControlInv'  OBVIOUS
<1> USE DEF GetData, ControlInv, Lost, NoFault, Fault, Read, ReadAs, threads
<1>1. Flags'  BY DEF Flags
<1>2. Places'  BY DEF Places
<1>3. Numbers'  BY DEF Numbers
<1>4. DevInv'  BY DEF DevInv
<1>5. PlaceInv'  BY DEF Flags, PlaceInv, Closing
<1>6. HttpInv'  BY DEF HttpInv
<1> QED BY <1>1, <1>2, <1>3, <1>4, <1>5, <1>6

LEMMA GetCrlfControl == ControlInv /\ GetCrlf => ControlInv'
<1> SUFFICES ASSUME ControlInv, GetCrlf PROVE ControlInv'  OBVIOUS
<1> USE DEF GetCrlf, ControlInv, Lost, NoFault, Read, ReadAs, threads, Fault
<1>1. Flags'  BY DEF Flags
<1>2. Places'  BY DEF Places
<1>3. Numbers'  BY DEF Numbers
<1>4. DevInv'  BY DEF DevInv
<1>5. PlaceInv'  BY DEF Flags, PlaceInv, Closing
<1>6. HttpInv'  BY DEF HttpInv
<1> QED BY <1>1, <1>2, <1>3, <1>4, <1>5, <1>6

LEMMA ParseHeaderControl == ControlInv /\ ParseHeader => ControlInv'
<1> SUFFICES ASSUME ControlInv, ParseHeader PROVE ControlInv'  OBVIOUS
<1> USE DEF ParseHeader, ControlInv, Lost, Used, outside, NextRead, NoFault, Fault, EndStart,
  CloseHttp, Feeder
<1>1. Flags'  BY DEF Flags
<1>2. Places'  BY DEF Places
<1>3. Numbers'  BY DEF Numbers
<1>4. DevInv'  BY DEF DevInv
<1>5. PlaceInv'  BY DEF Flags, PlaceInv, Closing, Starting
<1>6. HttpInv'  BY DEF HttpInv, Scanning
<1> QED BY <1>1, <1>2, <1>3, <1>4, <1>5, <1>6

LEMMA ConvertControl == ControlInv /\ Convert => ControlInv'
<1> SUFFICES ASSUME ControlInv, Convert PROVE ControlInv'  OBVIOUS
<1> USE DEF Convert, ControlInv, Lost, Used, outside, NoFault, Fault
<1>1. Flags'  BY DEF Flags
<1>2. Places'  BY DEF Places
<1>3. Numbers'  BY DEF Numbers
<1>4. DevInv'  BY DEF DevInv
<1>5. PlaceInv'  BY DEF Flags, PlaceInv, Closing
<1>6. HttpInv'  BY DEF HttpInv, PlaceInv, Scanning
<1> QED BY <1>1, <1>2, <1>3, <1>4, <1>5, <1>6

LEMMA CloseIpControl == ControlInv /\ CloseIp => ControlInv'
<1> SUFFICES ASSUME ControlInv, CloseIp PROVE ControlInv'  OBVIOUS
<1> USE DEF CloseIp, ControlInv, Ending, outside
<1>1. Flags'  BY DEF Flags
<1>2. Places'  BY DEF Places
<1>3. Numbers'  BY DEF Numbers
<1>4. DevInv'  BY DEF DevInv
<1>5. PlaceInv'  BY DEF Flags, PlaceInv, Closing, Starting
<1>6. HttpInv'  BY DEF HttpInv, Scanning
<1> QED BY <1>1, <1>2, <1>3, <1>4, <1>5, <1>6

LEMMA EndPageControl == ControlInv /\ EndPage => ControlInv'
<1> SUFFICES ASSUME ControlInv, EndPage PROVE ControlInv'  OBVIOUS
<1> USE DEF EndPage, ControlInv, Ending, outside
<1>1. Flags'  BY DEF Flags
<1>2. Places'  BY DEF Places
<1>3. Numbers'  BY DEF Numbers
<1>4. DevInv'  BY DEF DevInv
<1>5. PlaceInv'  BY DEF Flags, PlaceInv, Closing, Starting
<1>6. HttpInv'  BY DEF HttpInv, Scanning
<1> QED BY <1>1, <1>2, <1>3, <1>4, <1>5, <1>6

LEMMA ClosePageControl == ControlInv /\ ClosePage => ControlInv'
<1> SUFFICES ASSUME ControlInv, ClosePage PROVE ControlInv'  OBVIOUS
<1> USE DEF ClosePage, ControlInv, Ending, CloseHttp, outside
<1>1. Flags'  BY DEF Flags
<1>2. Places'  BY DEF Places
<1>3. Numbers'  BY DEF Numbers
<1>4. DevInv'  BY DEF DevInv
<1>5. PlaceInv'  BY DEF Flags, PlaceInv, Closing, Starting
<1>6. HttpInv'  BY DEF HttpInv, Scanning
<1> QED BY <1>1, <1>2, <1>3, <1>4, <1>5, <1>6

LEMMA UseClosedControl == ControlInv /\ UseClosed => ControlInv'
<1> SUFFICES ASSUME ControlInv, UseClosed PROVE ControlInv'  OBVIOUS
<1> USE DEF UseClosed, ControlInv, Lost, NoFault, Wreck
<1>1. Flags'  BY DEF Flags
<1>2. Places'  BY DEF Places
<1>3. Numbers'  BY DEF Numbers
<1>4. DevInv'  BY DEF DevInv
<1>5. PlaceInv'  BY DEF Flags, PlaceInv, Closing
<1>6. HttpInv'  BY DEF HttpInv
<1> QED BY <1>1, <1>2, <1>3, <1>4, <1>5, <1>6

LEMMA ReadScanControl == ControlInv /\ ReadScan => ControlInv'
<1> SUFFICES ASSUME ControlInv, ReadScan PROVE ControlInv'  OBVIOUS
<1> USE DEF ReadScan, ControlInv, GIL, Thread, outside
<1>1. Flags'  BY DEF Flags
<1>2. Places'  BY DEF Places
<1>3. Numbers'  BY DEF Numbers
<1>4. DevInv'  BY DEF DevInv
<1>5. PlaceInv'  BY DEF Flags, PlaceInv, Closing
<1>6. HttpInv'  BY DEF HttpInv, PlaceInv, Scanning
<1> QED BY <1>1, <1>2, <1>3, <1>4, <1>5, <1>6

LEMMA EnterReadControl == ControlInv /\ EnterRead => ControlInv'
<1> SUFFICES ASSUME ControlInv, EnterRead PROVE ControlInv'  OBVIOUS
<1> USE DEF EnterRead, ControlInv, NoFault, Wreck, Thread, outside
<1>1. Flags'  BY DEF Flags
<1>2. Places'  BY DEF Places
<1>3. Numbers'  BY DEF Numbers
<1>4. DevInv'  BY DEF DevInv
<1>5. PlaceInv'  BY DEF Flags, PlaceInv, Closing
<1>6. HttpInv'  BY DEF HttpInv, Scanning
<1> QED BY <1>1, <1>2, <1>3, <1>4, <1>5, <1>6

LEMMA GetIpDataControl == ControlInv /\ GetIpData => ControlInv'
<1> SUFFICES ASSUME ControlInv, GetIpData PROVE ControlInv'  OBVIOUS
<1> USE DEF GetIpData, ControlInv, NoFault, Wreck, Thread, outside
<1>1. Flags'  BY DEF Flags
<1>2. Places'  BY DEF Places
<1>3. Numbers'  BY DEF Numbers
<1>4. DevInv'  BY DEF DevInv
<1>5. PlaceInv'  BY DEF Flags, PlaceInv, Closing
<1>6. HttpInv'  BY DEF HttpInv, Scanning
<1> QED BY <1>1, <1>2, <1>3, <1>4, <1>5, <1>6

LEMMA ReturnReadControl == ControlInv /\ ReturnRead => ControlInv'
<1> SUFFICES ASSUME ControlInv, ReturnRead PROVE ControlInv'  OBVIOUS
<1> USE DEF ReturnRead, ControlInv, GIL, Thread, outside
<1>1. Flags'  BY DEF Flags
<1>2. Places'  BY DEF Places
<1>3. Numbers'  BY DEF Numbers
<1>4. DevInv'  BY DEF DevInv
<1>5. PlaceInv'  BY DEF Flags, PlaceInv, Closing
<1>6. HttpInv'  BY DEF HttpInv, Scanning
<1> QED BY <1>1, <1>2, <1>3, <1>4, <1>5, <1>6

LEMMA EndThreadControl == ControlInv /\ EndThread => ControlInv'
<1> SUFFICES ASSUME ControlInv, EndThread PROVE ControlInv'  OBVIOUS
<1> USE DEF EndThread, ControlInv, GIL, Thread, outside
<1>1. Flags'  BY DEF Flags
<1>2. Places'  BY DEF Places
<1>3. Numbers'  BY DEF Numbers
<1>4. DevInv'  BY DEF DevInv
<1>5. PlaceInv'  BY DEF Flags, PlaceInv, Closing
<1>6. HttpInv'  BY DEF HttpInv, Scanning
<1> QED BY <1>1, <1>2, <1>3, <1>4, <1>5, <1>6

LEMMA CancelFlagControl == ControlInv /\ CancelFlag => ControlInv'
<1> SUFFICES ASSUME ControlInv, CancelFlag PROVE ControlInv'  OBVIOUS
<1> USE DEF CancelFlag, ControlInv, Canceling
<1>1. Flags'  BY DEF Flags
<1>2. Places'  BY DEF Places
<1>3. Numbers'  BY DEF Numbers
<1>4. DevInv'  BY DEF DevInv
<1>5. PlaceInv'  BY DEF Flags, PlaceInv, Closing
<1>6. HttpInv'  BY DEF HttpInv
<1> QED BY <1>1, <1>2, <1>3, <1>4, <1>5, <1>6

LEMMA CancelIpControl == ControlInv /\ CancelIp => ControlInv'
<1> SUFFICES ASSUME ControlInv, CancelIp PROVE ControlInv'  OBVIOUS
<1> USE DEF CancelIp, ControlInv, Canceling
<1>1. Flags'  BY DEF Flags
<1>2. Places'  BY DEF Places
<1>3. Numbers'  BY DEF Numbers
<1>4. DevInv'  BY DEF DevInv
<1>5. PlaceInv'  BY DEF Flags, PlaceInv, Closing, Starting
<1>6. HttpInv'  BY DEF HttpInv, Scanning
<1> QED BY <1>1, <1>2, <1>3, <1>4, <1>5, <1>6

LEMMA CancelPageControl == ControlInv /\ CancelPage => ControlInv'
<1> SUFFICES ASSUME ControlInv, CancelPage PROVE ControlInv'  OBVIOUS
<1> USE DEF CancelPage, ControlInv, CancelJob, EndCancel, Canceling
<1>1. Flags'  BY DEF Flags
<1>2. Places'  BY DEF Places
<1>3. Numbers'  BY DEF Numbers
<1>4. DevInv'  BY DEF DevInv
<1>5. PlaceInv'  BY DEF Flags, PlaceInv, Closing, Starting
<1>6. HttpInv'  BY DEF HttpInv, Scanning
<1> QED BY <1>1, <1>2, <1>3, <1>4, <1>5, <1>6

LEMMA CancelCloseControl == ControlInv /\ CancelClose => ControlInv'
<1> SUFFICES ASSUME ControlInv, CancelClose PROVE ControlInv'  OBVIOUS
<1> USE DEF CancelClose, CancelJob, ControlInv, CloseHttp, EndCancel, Canceling
<1>1. Flags'  BY DEF Flags
<1>2. Places'  BY DEF Places
<1>3. Numbers'  BY DEF Numbers
<1>4. DevInv'  BY DEF DevInv
<1>5. PlaceInv'  BY DEF Flags, PlaceInv, Closing, Starting
<1>6. HttpInv'  BY DEF HttpInv
<1> QED BY <1>1, <1>2, <1>3, <1>4, <1>5, <1>6

LEMMA CancelOpenControl == ControlInv /\ CancelOpen => ControlInv'
<1> SUFFICES ASSUME ControlInv, CancelOpen PROVE ControlInv'  OBVIOUS
<1> USE DEF CancelOpen, ControlInv, NoFault, Canceling, Fault, EndCancel
<1>1. Flags'  BY DEF Flags
<1>2. Places'  BY DEF Places
<1>3. Numbers'  BY DEF Numbers
<1>4. DevInv'  BY DEF DevInv
<1>5. PlaceInv'  BY DEF Flags, PlaceInv, Closing, Starting
<1>6. HttpInv'  BY DEF Places, HttpInv, PlaceInv, Starting, Scanning
<1> QED BY <1>1, <1>2, <1>3, <1>4, <1>5, <1>6

LEMMA CancelRequestControl == ControlInv /\ CancelRequest => ControlInv'
<1> SUFFICES ASSUME ControlInv, CancelRequest PROVE ControlInv'  OBVIOUS
<1> USE DEF CancelRequest, ControlInv, CloseHttp, EndCancel, Canceling, NoFault, Fault
<1>1. Flags'  BY DEF Flags
<1>2. Places'  BY DEF Places
<1>3. Numbers'  BY DEF Numbers
<1>4. dev' = dev \/ dev' = [dev EXCEPT !.state = "canceled"]  BY DEF Canceled
<1>5. DevInv'  BY <1>4 DEF DevInv, Devices
<1>6. PlaceInv'  BY DEF Flags, PlaceInv, Closing, Starting
<1>7. HttpInv'  BY DEF HttpInv
<1> QED BY <1>1, <1>2, <1>3, <1>5, <1>6, <1>7

LEMMA CancelLostControl == ControlInv /\ CancelLost => ControlInv'
<1> SUFFICES ASSUME ControlInv, CancelLost PROVE ControlInv'  OBVIOUS
<1> USE DEF CancelLost, ControlInv, NoFault, Wreck
<1>1. Flags'  BY DEF Flags
<1>2. Places'  BY DEF Places
<1>3. Numbers'  BY DEF Numbers
<1>4. DevInv'  BY DEF DevInv
<1>5. PlaceInv'  BY DEF Flags, PlaceInv, Closing
<1>6. HttpInv'  BY DEF HttpInv
<1> QED BY <1>1, <1>2, <1>3, <1>4, <1>5, <1>6

LEMMA WaitForScanActiveControl == ControlInv /\ WaitForScanActive => ControlInv'
<1> SUFFICES ASSUME ControlInv, WaitForScanActive PROVE ControlInv'  OBVIOUS
<1> USE DEF WaitForScanActive, ControlInv, Main, GIL, outside
<1>1. Flags'  BY DEF Flags
<1>2. Places'  BY DEF Places
<1>3. Numbers'  BY DEF Numbers
<1>4. DevInv'  BY DEF DevInv
<1>5. PlaceInv'  BY DEF Flags, PlaceInv, Closing, Starting
<1>6. HttpInv'  BY DEF HttpInv
<1> QED BY <1>1, <1>2, <1>3, <1>4, <1>5, <1>6

LEMMA SeeErrorControl == ControlInv /\ SeeError => ControlInv'
<1> SUFFICES ASSUME ControlInv, SeeError PROVE ControlInv'  OBVIOUS
<1> USE DEF SeeError, ControlInv, Main, GIL, outside
<1>1. Flags'  BY DEF Flags
<1>2. Places'  BY DEF Places
<1>3. Numbers'  BY DEF Numbers
<1>4. DevInv'  BY DEF DevInv
<1>5. PlaceInv'  BY DEF Flags, PlaceInv, Closing, Starting
<1>6. HttpInv'  BY DEF HttpInv, Scanning
<1> QED BY <1>1, <1>2, <1>3, <1>4, <1>5, <1>6

LEMMA KeepPageControl == ControlInv /\ KeepPage => ControlInv'
<1> SUFFICES ASSUME ControlInv, KeepPage PROVE ControlInv'  OBVIOUS
<1> USE DEF KeepPage, ControlInv, Main, GIL, outside, Feeder
<1>1. Flags'  BY DEF Flags
<1>2. Places'  BY DEF Places
<1>3. Numbers'  BY DEF Numbers
<1>4. DevInv'  BY DEF DevInv
<1>5. PlaceInv'  BY DEF Flags, PlaceInv, Closing
<1>6. HttpInv'  BY DEF HttpInv, Scanning
<1> QED BY <1>1, <1>2, <1>3, <1>4, <1>5, <1>6

LEMMA NoDataControl == ControlInv /\ NoData => ControlInv'
<1> SUFFICES ASSUME ControlInv, NoData PROVE ControlInv'  OBVIOUS
<1> USE DEF NoData, ControlInv, Main, GIL, outside
<1>1. Flags'  BY DEF Flags
<1>2. Places'  BY DEF Places
<1>3. Numbers'  BY DEF Numbers
<1>4. DevInv'  BY DEF DevInv
<1>5. PlaceInv'  BY DEF Flags, PlaceInv, Closing
<1>6. HttpInv'  BY DEF HttpInv, Scanning
<1> QED BY <1>1, <1>2, <1>3, <1>4, <1>5, <1>6

LEMMA FinallyControl == ControlInv /\ Finally => ControlInv'
<1> SUFFICES ASSUME ControlInv, Finally PROVE ControlInv'  OBVIOUS
<1> USE DEF Finally, ControlInv, Main, GIL, outside
<1>1. Flags'  BY DEF Flags
<1>2. Places'  BY DEF Places
<1>3. Numbers'  BY DEF Numbers
<1>4. DevInv'  BY DEF DevInv
<1>5. PlaceInv'  BY DEF Flags, PlaceInv, Closing, Starting
<1>6. HttpInv'  BY DEF HttpInv
<1> QED BY <1>1, <1>2, <1>3, <1>4, <1>5, <1>6

LEMMA CloseScanControl == ControlInv /\ CloseScan => ControlInv'
<1> SUFFICES ASSUME ControlInv, CloseScan PROVE ControlInv'  OBVIOUS
<1> USE DEF CloseScan, ControlInv, Main, GIL, outside
<1>1. Flags'  BY DEF Flags
<1>2. Places'  BY DEF Places
<1>3. Numbers'  BY DEF Numbers
<1>4. DevInv'  BY DEF DevInv
<1>5. PlaceInv'  BY DEF Flags, PlaceInv, Closing, Starting
<1>6. HttpInv'  BY DEF HttpInv
<1> QED BY <1>1, <1>2, <1>3, <1>4, <1>5, <1>6

LEMMA ScannerReadyControl == ControlInv /\ ScannerReady => ControlInv'
<1> SUFFICES ASSUME ControlInv, ScannerReady PROVE ControlInv'  OBVIOUS
<1> USE DEF ScannerReady, ControlInv, Scanner, threads, sane
<1>1. Flags'  BY DEF Flags
<1>2. Places'  BY DEF Places
<1>3. Numbers'  BY DEF Numbers
<1>4. DevInv'  BY DEF DevInv, Devices
<1>5. PlaceInv'  BY DEF Flags, PlaceInv, Closing
<1>6. HttpInv'  BY DEF HttpInv
<1> QED BY <1>1, <1>2, <1>3, <1>4, <1>5, <1>6

LEMMA NextSheetControl == ControlInv /\ NextSheet => ControlInv'
<1> SUFFICES ASSUME ControlInv, NextSheet PROVE ControlInv'  OBVIOUS
<1> USE DEF NextSheet, ControlInv, Scanner, threads, sane, Feeder
<1>1. Flags'  BY DEF Flags
<1>2. Places'  BY DEF Places
<1>3. Numbers'  BY DEF Numbers
<1>4. \/ dev' = Fed(dev) /\ Feeder /\ (dev.sheets > 0 \/ dev.side = 1)
      \/ dev' = [dev EXCEPT !.state = "completed"]
  OBVIOUS
<1>5. DevInv'
  <2>1. dev \in Devices  BY DEF DevInv
  <2>2. CASE dev' = Fed(dev) /\ (dev.sheets > 0 \/ dev.side = 1)
    <3>1. Feeder /\ dev.side = 2 => dev.sheets > 0  BY <2>2
    <3>2. Fed(dev) \in Devices /\ Fed(dev).state = "scanning"  BY <2>1, <3>1, FedIs
    <3> QED BY <2>2, <3>2 DEF DevInv
  <2>3. CASE dev' = [dev EXCEPT !.state = "completed"]  BY <2>1, <2>3 DEF DevInv, Devices
  <2> QED BY <1>4, <2>2, <2>3
<1>6. PlaceInv'  BY DEF Flags, PlaceInv, Closing
<1>7. HttpInv'  BY DEF HttpInv
<1> QED BY <1>1, <1>2, <1>3, <1>5, <1>6, <1>7

LEMMA KeyboardInterruptControl == ControlInv /\ KeyboardInterrupt => ControlInv'
<1> SUFFICES ASSUME ControlInv, KeyboardInterrupt PROVE ControlInv'  OBVIOUS
<1> USE DEF KeyboardInterrupt, ControlInv, Main, GIL, outside
<1>1. Flags'  BY DEF Flags
<1>2. Places'  BY DEF Places
<1>3. Numbers'  BY DEF Numbers
<1>4. DevInv'  BY DEF DevInv
<1>5. PlaceInv'  BY DEF Flags, PlaceInv, Closing, Starting
<1>6. HttpInv'  BY DEF HttpInv
<1> QED BY <1>1, <1>2, <1>3, <1>4, <1>5, <1>6

LEMMA PanelCancelControl == ControlInv /\ PanelCancel => ControlInv'
<1> SUFFICES ASSUME ControlInv, PanelCancel PROVE ControlInv'  OBVIOUS
<1> USE DEF PanelCancel, ControlInv, Scanner, threads, sane
<1>1. Flags'  BY DEF Flags
<1>2. Places'  BY DEF Places
<1>3. Numbers'  BY DEF Numbers
<1>4. DevInv'  BY DEF DevInv, Devices
<1>5. PlaceInv'  BY DEF Flags, PlaceInv, Closing
<1>6. HttpInv'  BY DEF HttpInv
<1> QED BY <1>1, <1>2, <1>3, <1>4, <1>5, <1>6

LEMMA OtherJobControl == ControlInv /\ OtherJob => ControlInv'
<1> SUFFICES ASSUME ControlInv, OtherJob PROVE ControlInv'  OBVIOUS
<1> USE DEF OtherJob, ControlInv, Busy, Scanner, threads, sane
<1>1. Flags'  BY DEF Flags
<1>2. Places'  BY DEF Places
<1>3. Numbers'  BY DEF Numbers
<1>4. DevInv'  BY DEF DevInv, Devices
<1>5. PlaceInv'  BY DEF Flags, PlaceInv, Closing
<1>6. HttpInv'  BY DEF HttpInv
<1> QED BY <1>1, <1>2, <1>3, <1>4, <1>5, <1>6

-----------------------------------------------------------------------------
(* The stream of a page.                                                   *)

(* Units in the first c chunks, tokens they take in the stream.            *)
Pixels == Nat \X Nat
UnitsTo(c) == SumOf(0, SubSeq(ChunkSizes, 1, c))
TokensTo(c) == UnitsTo(c) + 2 * c
ImageTo(p, m) == [i \in 1..m |-> <<p, i>>]
From(p, n) == SubSeq(StreamOf(p), n + 1, Len(StreamOf(p)))

-----------------------------------------------------------------------------
(* The page, and the stream it is sent in, position by position.           *)
Tokens(p) ==
  {[size |-> n] : n \in Nat} \cup {[unit |-> <<p, i>>] : i \in Nat} \cup {[crlf |-> TRUE]}

Chunk(p, c) ==
  <<[size |-> ChunkSizes[c]]>> \o [i \in 1..ChunkSizes[c] |-> [unit |-> <<p, UnitsTo(c - 1) + i>>]]
  \o <<[crlf |-> TRUE]>>

Chunks(p) == [c \in 1..Len(ChunkSizes) |-> Chunk(p, c)]

EndOfPage == <<[size |-> 0], [crlf |-> TRUE]>>

LEMMA StreamIs ==
  ASSUME NEW p
  PROVE  StreamOf(p) = FlattenSeq(Chunks(p)) \o EndOfPage
BY DEF StreamOf, Chunks, Chunk, EndOfPage, UnitsTo, SumOf

LEMMA Sizes ==
  /\ Len(ChunkSizes) \in Nat /\ Len(ChunkSizes) # 0 /\ ChunkSizes \in Seq(Nat)
  /\ \A c \in 1..Len(ChunkSizes) : ChunkSizes[c] \in Nat /\ ChunkSizes[c] # 0
<1>1. ChunkSizes \in Seq(Nat \ {0}) /\ ChunkSizes # << >>  BY ConstantsAssumption
<1> QED BY <1>1

LEMMA UnitsGrow ==
  ASSUME NEW c \in 0..Len(ChunkSizes), c # Len(ChunkSizes)
  PROVE  UnitsTo(c + 1) = UnitsTo(c) + ChunkSizes[c + 1]
<1>1. 0 \in Nat /\ ChunkSizes \in Seq(Nat)  BY Sizes
<1> QED BY <1>1, SumGrows DEF UnitsTo

LEMMA UnitsType ==
  /\ UnitsTo(0) = 0
  /\ \A c \in 0..Len(ChunkSizes) : UnitsTo(c) \in Nat
<1>1. UnitsTo(0) = 0
  <2>1. SubSeq(ChunkSizes, 1, 0) = << >>  OBVIOUS
  <2> QED BY <2>1, SumEmpty DEF UnitsTo
<1> DEFINE n == Len(ChunkSizes)
           T == {c \in 0..n : UnitsTo(c) \in Nat}
<1>2. 0 \in T  BY <1>1, Sizes
<1>3. ASSUME NEW c \in 0..n, c \in T, c < n PROVE c + 1 \in T
  <2>1. c # n /\ c + 1 \in 0..n /\ c + 1 \in 1..n  BY <1>3, Sizes
  <2>2. UnitsTo(c + 1) = UnitsTo(c) + ChunkSizes[c + 1]  BY <2>1, UnitsGrow
  <2>3. ChunkSizes[c + 1] \in Nat  BY <2>1, Sizes
  <2> QED BY <1>3, <2>1, <2>2, <2>3
<1>4. 0..n \subseteq T
  <2> n \in Nat  BY Sizes
  <2> HIDE DEF T, n
  <2> QED BY <1>2, <1>3, Induction
<1> QED BY <1>1, <1>4

(* A chunk is its size, its units and the end of its line.                 *)
LEMMA ChunkIs ==
  ASSUME NEW p, NEW c \in 1..Len(ChunkSizes)
  PROVE  /\ Chunk(p, c) \in Seq(Tokens(p)) /\ Len(Chunk(p, c)) = ChunkSizes[c] + 2
         /\ Chunk(p, c)[1] = [size |-> ChunkSizes[c]]
         /\ \A i \in 1..ChunkSizes[c] : Chunk(p, c)[i + 1] = [unit |-> <<p, UnitsTo(c - 1) + i>>]
<1> DEFINE n == ChunkSizes[c]
           u == UnitsTo(c - 1)
           a == [size |-> n]
           m == [i \in 1..n |-> [unit |-> <<p, u + i>>]]
           z == [crlf |-> TRUE]
           S == Tokens(p)
<1>1. n \in Nat /\ u \in Nat
  <2>1. c - 1 \in 0..Len(ChunkSizes)  OBVIOUS
  <2> QED BY <2>1, Sizes, UnitsType
<1>2. a \in S /\ z \in S /\ \A i \in 1..n : [unit |-> <<p, u + i>>] \in S
  <2>1. \A i \in 1..n : u + i \in Nat  BY <1>1
  <2> QED BY <1>1, <2>1 DEF Tokens
<1>3. m \in Seq(S) /\ Len(m) = n /\ \A i \in 1..n : m[i] = [unit |-> <<p, u + i>>]
  <2>1. m \in [1..n -> S]  BY <1>2
  <2>2. Len(m) = n /\ \A i \in 1..n : m[i] = [unit |-> <<p, u + i>>]  BY <1>1
  <2>3. m \in Seq(S)
    <3> HIDE DEF m, S, n
    <3> QED BY <1>1, <2>1
  <2> QED BY <2>2, <2>3
<1>4. Chunk(p, c) = <<a>> \o m \o <<z>>  BY DEF Chunk
<1> HIDE DEF n, u, a, m, z, S
<1> DEFINE s == <<a>> \o m
<1>5. s \in Seq(S) /\ Len(s) = n + 1 /\ s[1] = a /\ \A i \in 1..n : s[i + 1] = m[i]
  BY <1>1, <1>2, <1>3
<1> HIDE DEF s
<1> DEFINE t == s \o <<z>>
<1>6. t \in Seq(S) /\ Len(t) = n + 2 /\ t[1] = s[1] /\ \A i \in 1..n : t[i + 1] = s[i + 1]
  BY <1>1, <1>2, <1>5
<1>7. Chunk(p, c) = t  BY <1>4 DEF s
<1> HIDE DEF t
<1> QED BY <1>3, <1>5, <1>6, <1>7 DEF a, n, u, S

LEMMA ChunksType ==
  ASSUME NEW p
  PROVE  Chunks(p) \in Seq(Seq(Tokens(p))) /\ Len(Chunks(p)) = Len(ChunkSizes)
<1>1. \A c \in 1..Len(ChunkSizes) : Chunk(p, c) \in Seq(Tokens(p))  BY ChunkIs
<1> DEFINE Q == Seq(Tokens(p))
<1> HIDE DEF Q
<1>2. Chunks(p) \in [1..Len(ChunkSizes) -> Q]  BY <1>1 DEF Chunks, Q
<1>3. Chunks(p) \in Seq(Q) /\ Len(Chunks(p)) = Len(ChunkSizes)  BY <1>2, Sizes
<1> QED BY <1>3 DEF Q

LEMMA TokensWidth ==
  ASSUME NEW p, NEW c \in 0..Len(ChunkSizes)
  PROVE  Width(Chunks(p), c) = TokensTo(c)
<1> DEFINE n == Len(ChunkSizes)
           t == Chunks(p)
           T == {k \in 0..n : Width(t, k) = TokensTo(k)}
<1>1. n \in Nat  BY Sizes
<1>2. 0 \in T
  <2>1. SubSeq(t, 1, 0) = << >>  OBVIOUS
  <2>2. Width(t, 0) = 0
    <3> HIDE DEF t
    <3>1. FlattenSeq(SubSeq(t, 1, 0)) = << >>  BY <2>1, FlattenEmpty
    <3> QED BY <3>1 DEF Width
  <2> QED BY <1>1, <2>2, UnitsType DEF TokensTo
<1>3. ASSUME NEW k \in 0..n, k \in T, k < n PROVE k + 1 \in T
  <2>1. k # n /\ k + 1 \in 1..n /\ k + 1 \in 0..n  BY <1>1, <1>3
  <2>2. t \in Seq(Seq(Tokens(p))) /\ Len(t) = n  BY ChunksType
  <2>3. Width(t, k + 1) = Width(t, k) + Len(t[k + 1])
    <3> HIDE DEF t, n
    <3>1. k \in 0..Len(t) /\ k # Len(t)  BY <2>1, <2>2
    <3> QED BY <2>2, <3>1, WidthGrows
  <2>4. Len(t[k + 1]) = ChunkSizes[k + 1] + 2
    <3>1. t[k + 1] = Chunk(p, k + 1)  BY <2>1 DEF Chunks
    <3>2. Len(Chunk(p, k + 1)) = ChunkSizes[k + 1] + 2  BY <2>1, ChunkIs
    <3> QED BY <3>1, <3>2
  <2>5. UnitsTo(k + 1) = UnitsTo(k) + ChunkSizes[k + 1]  BY <2>1, UnitsGrow
  <2>6. UnitsTo(k) \in Nat /\ ChunkSizes[k + 1] \in Nat  BY <2>1, UnitsType, Sizes
  <2>7. Width(t, k) = TokensTo(k)  BY <1>3
  <2>8. Width(t, k + 1) = TokensTo(k + 1)  BY <2>3, <2>4, <2>5, <2>6, <2>7 DEF TokensTo
  <2> QED BY <2>1, <2>8
<1>4. 0..n \subseteq T
  <2> HIDE DEF T, n
  <2> QED BY <1>1, <1>2, <1>3, Induction
<1> QED BY <1>4

(* The tokens at their places.                                             *)
EndAt == TokensTo(Len(ChunkSizes))

LEMMA StreamHas ==
  ASSUME NEW p
  PROVE  /\ StreamOf(p) \in Seq(Tokens(p)) /\ Len(StreamOf(p)) = EndAt + 2 /\ EndAt \in Nat
         /\ StreamOf(p)[EndAt + 1] = [size |-> 0]
         /\ \A c \in 1..Len(ChunkSizes) :
              /\ TokensTo(c - 1) \in Nat /\ TokensTo(c) = TokensTo(c - 1) + ChunkSizes[c] + 2
              /\ TokensTo(c) <= EndAt
              /\ StreamOf(p)[TokensTo(c - 1) + 1] = [size |-> ChunkSizes[c]]
              /\ \A i \in 1..ChunkSizes[c] :
                   StreamOf(p)[TokensTo(c - 1) + 1 + i] = [unit |-> <<p, UnitsTo(c - 1) + i>>]
<1> DEFINE f == FlattenSeq(Chunks(p))
           n == Len(ChunkSizes)
           S == Tokens(p)
<1>1. n \in Nat /\ n \in 0..n /\ UnitsTo(n) \in Nat  BY Sizes, UnitsType
<1>2. Chunks(p) \in Seq(Seq(S)) /\ Len(Chunks(p)) = n  BY ChunksType
<1>3. f \in Seq(S)
  <2> DEFINE t == Chunks(p)
  <2> HIDE DEF t
  <2>1. t \in Seq(Seq(S))  BY <1>2 DEF t
  <2>2. FlattenSeq(t) \in Seq(S)  BY <2>1, FlattenType
  <2> QED BY <2>2 DEF t
<1>4. Len(f) = EndAt
  <2>1. SubSeq(Chunks(p), 1, n) = Chunks(p)
    <3> DEFINE t == Chunks(p)
               Q == Seq(S)
    <3>1. t \in Seq(Q) /\ Len(t) = n  BY <1>2
    <3> HIDE DEF t, n, Q
    <3>2. SubSeq(t, 1, n) = t  BY <1>1, <3>1
    <3> QED BY <3>2 DEF t
  <2>2. Len(f) = Width(Chunks(p), n)  BY <2>1 DEF Width
  <2> QED BY <1>1, <2>2, TokensWidth DEF EndAt
<1>5. EndAt \in Nat  BY <1>1 DEF EndAt, TokensTo
<1>6. EndOfPage \in Seq(S) /\ Len(EndOfPage) = 2 /\ EndOfPage[1] = [size |-> 0]
  <2>1. [size |-> 0] \in S /\ [crlf |-> TRUE] \in S  BY DEF Tokens
  <2> HIDE DEF S
  <2> QED BY <2>1 DEF EndOfPage
<1>7. StreamOf(p) = f \o EndOfPage  BY StreamIs
<1> DEFINE g == StreamOf(p)
           e == EndOfPage
<1>8. /\ g \in Seq(S) /\ Len(g) = EndAt + 2 /\ g[EndAt + 1] = [size |-> 0]
      /\ \A i \in 1..EndAt : g[i] = f[i]
  <2>1. f \in Seq(S) /\ Len(f) = EndAt /\ EndAt \in Nat /\ g = f \o e
    BY <1>3, <1>4, <1>5, <1>7
  <2>2. e \in Seq(S) /\ Len(e) = 2 /\ e[1] = [size |-> 0]  BY <1>6
  <2> HIDE DEF f, S, e, g
  <2>3. /\ g \in Seq(S) /\ Len(g) = Len(f) + Len(e)
        /\ \A i \in 1..(Len(f) + Len(e)) : g[i] = IF i <= Len(f) THEN f[i] ELSE e[i - Len(f)]
    BY ONLY <2>1, <2>2, ConcatProperties
  <2>4. Len(f) = EndAt /\ Len(e) = 2 /\ EndAt \in Nat  BY ONLY <2>1, <2>2
  <2>5. ASSUME NEW i \in 1..EndAt PROVE g[i] = f[i]
    <3>1. i \in 1..(Len(f) + Len(e)) /\ i <= Len(f)  BY ONLY <2>4
    <3> QED BY ONLY <2>3, <3>1
  <2>6. g[EndAt + 1] = e[1]
    <3>1. EndAt + 1 \in 1..(Len(f) + Len(e)) /\ ~(EndAt + 1 <= Len(f)) /\ (EndAt + 1) - Len(f) = 1
      BY ONLY <2>4
    <3>2. g[EndAt + 1] = e[(EndAt + 1) - Len(f)]  BY ONLY <2>3, <3>1
    <3> QED BY ONLY <3>1, <3>2
  <2> QED BY ONLY <2>2, <2>3, <2>4, <2>5, <2>6
<1>9. ASSUME NEW c \in 1..n
      PROVE  /\ TokensTo(c - 1) \in Nat /\ TokensTo(c) = TokensTo(c - 1) + ChunkSizes[c] + 2
             /\ TokensTo(c) <= EndAt
             /\ g[TokensTo(c - 1) + 1] = [size |-> ChunkSizes[c]]
             /\ \A i \in 1..ChunkSizes[c] :
                  g[TokensTo(c - 1) + 1 + i] = [unit |-> <<p, UnitsTo(c - 1) + i>>]
  <2> DEFINE d == c - 1
             t == Chunks(p)
             w == TokensTo(d)
             x == ChunkSizes[c]
  <2>1. d \in 0..n /\ d # n /\ d + 1 = c /\ c \in 1..Len(t)  BY <1>1, <1>2
  <2>2. x \in Nat /\ x # 0  BY Sizes
  <2>3. t[c] = Chunk(p, c)  BY DEF Chunks
  <2>4. Width(t, d) = w  BY <2>1, TokensWidth
  <2>5. /\ w \in Nat /\ w + Len(t[c]) <= Len(f) /\ HoldsAt(f, t, c, w)
    <3> HIDE DEF d, t, w, S
    <3>1. t \in Seq(Seq(S))  BY <1>2 DEF t
    <3>2. /\ Width(t, c - 1) \in Nat /\ Width(t, c - 1) + Len(t[c]) <= Len(FlattenSeq(t))
          /\ HoldsAt(FlattenSeq(t), t, c, Width(t, c - 1))
      BY <2>1, <3>1, FlattenAt
    <3> QED BY <2>4, <3>2 DEF d, t
  <2>6. Len(t[c]) = x + 2 /\ \A j \in 1..(x + 2) : f[w + j] = Chunk(p, c)[j]
    <3>1. Len(t[c]) = x + 2
      <4>1. Len(Chunk(p, c)) = ChunkSizes[c] + 2  BY ChunkIs
      <4> QED BY <2>3, <4>1
    <3> HIDE DEF x, t, w, f
    <3> QED BY <2>3, <2>5, <3>1 DEF HoldsAt
  <2>7. TokensTo(c) = w + x + 2
    <3>1. UnitsTo(c) = UnitsTo(d) + x  BY <2>1, UnitsGrow
    <3>2. UnitsTo(d) \in Nat /\ d \in Nat /\ c = d + 1  BY <2>1, UnitsType
    <3> HIDE DEF d, x
    <3> QED BY <2>2, <3>1, <3>2 DEF TokensTo
  <2>8. Chunk(p, c)[1] = [size |-> x] /\ \A i \in 1..x : Chunk(p, c)[i + 1] = [unit |-> <<p, UnitsTo(d) + i>>]
    BY ChunkIs
  <2> HIDE DEF t, w, x, f, g
  <2>9. TokensTo(c) <= EndAt  BY <1>4, <1>5, <2>2, <2>5, <2>6, <2>7
  <2>10. g[w + 1] = [size |-> x]
    <3>1. w + 1 \in 1..EndAt /\ 1 \in 1..(x + 2)  BY <1>5, <2>2, <2>5, <2>7, <2>9
    <3>2. f[w + 1] = Chunk(p, c)[1]  BY <2>6, <3>1
    <3> QED BY <1>8, <2>8, <3>1, <3>2 DEF g
  <2>11. ASSUME NEW i \in 1..x PROVE g[w + 1 + i] = [unit |-> <<p, UnitsTo(d) + i>>]
    <3>1. w + (i + 1) \in 1..EndAt /\ i + 1 \in 1..(x + 2) /\ w + 1 + i = w + (i + 1)
      BY <1>5, <2>2, <2>5, <2>7, <2>9
    <3>2. f[w + (i + 1)] = Chunk(p, c)[i + 1]  BY <2>6, <3>1
    <3>3. g[w + (i + 1)] = f[w + (i + 1)]  BY <1>8, <3>1 DEF g
    <3> QED BY <2>8, <3>1, <3>2, <3>3
  <2> QED BY <2>2, <2>5, <2>7, <2>9, <2>10, <2>11 DEF w, x, g
<1> QED BY <1>5, <1>8, <1>9

(* Page p in the middle of its transfer, c chunks of which were taken:     *)
(* what is converted, buffered and on its way is the page.  At the places  *)
(* in more another chunk must follow.                                      *)
Taken(p, c, img, b, str, a, more) ==
  /\ img \in Seq(Pixels) /\ b \in Seq(Pixels)
  /\ img \o b = ImageTo(p, UnitsTo(c))
  /\ str = From(p, IF a = "crlf" THEN TokensTo(c) - 1 ELSE TokensTo(c))
  /\ a \in {"size", "data"} => b = << >>
  /\ a \in {"crlf", "convert"} => b # << >>
  /\ a = "crlf" => c # 0
  /\ a \in more => c # Len(ChunkSizes)

AllTaken(p, img, str) == img = Image(p) /\ str = << >>

Held(p, img, b, str, a, more) ==
  \/ \E c \in 0..Len(ChunkSizes) : Taken(p, c, img, b, str, a, more)
  \/ "size" \notin more /\ a = "convert" /\ b = << >> /\ AllTaken(p, img, str)

-----------------------------------------------------------------------------
(* What is left of the stream.                                             *)
LEMMA FromIs ==
  ASSUME NEW p, NEW n \in 0..Len(StreamOf(p))
  PROVE  /\ From(p, n) \in Seq(Tokens(p)) /\ Len(From(p, n)) = Len(StreamOf(p)) - n
         /\ \A i \in 1..(Len(StreamOf(p)) - n) : From(p, n)[i] = StreamOf(p)[n + i]
<1> DEFINE s == StreamOf(p)
           S == Tokens(p)
<1>1. s \in Seq(S) /\ n \in 0..Len(s)  BY StreamHas
<1>2. From(p, n) = SubSeq(s, n + 1, Len(s))  BY DEF From
<1> HIDE DEF s, S
<1>3. /\ SubSeq(s, n + 1, Len(s)) \in Seq(S) /\ Len(SubSeq(s, n + 1, Len(s))) = Len(s) - n
      /\ \A i \in 1..(Len(s) - n) : SubSeq(s, n + 1, Len(s))[i] = s[n + i]
  BY <1>1
<1> QED BY <1>2, <1>3 DEF s, S

LEMMA FromNext ==
  ASSUME NEW p, NEW n \in 0..Len(StreamOf(p)), NEW k \in Nat, n + k <= Len(StreamOf(p))
  PROVE  SubSeq(From(p, n), k + 1, Len(From(p, n))) = From(p, n + k)
<1> DEFINE s == From(p, n)
           t == From(p, n + k)
           l == Len(StreamOf(p))
           S == Tokens(p)
<1>1. l \in Nat /\ n + k \in 0..l  BY StreamHas
<1>2. /\ s \in Seq(S) /\ Len(s) = l - n
      /\ \A i \in 1..(l - n) : s[i] = StreamOf(p)[n + i]
  BY FromIs
<1>3. /\ t \in Seq(S) /\ Len(t) = l - (n + k)
      /\ \A i \in 1..(l - (n + k)) : t[i] = StreamOf(p)[(n + k) + i]
  BY <1>1, FromIs
<1> HIDE DEF s, t, l, S
<1> DEFINE u == SubSeq(s, k + 1, Len(s))
<1>4. u \in Seq(S) /\ Len(u) = l - (n + k) /\ \A i \in 1..(l - (n + k)) : u[i] = s[k + i]
  BY <1>1, <1>2
<1> HIDE DEF u
<1>5. ASSUME NEW i \in 1..(l - (n + k)) PROVE u[i] = t[i]
  <2>1. k + i \in 1..(l - n) /\ n + (k + i) = (n + k) + i  BY <1>1
  <2> QED BY <1>2, <1>3, <1>4, <2>1
<1>6. u = t  BY <1>3, <1>4, <1>5
<1> QED BY <1>6 DEF u, s, t

LEMMA ImageIs ==
  ASSUME NEW p
  PROVE  /\ Image(p) = ImageTo(p, UnitsTo(Len(ChunkSizes)))
         /\ \A m \in Nat : Len(ImageTo(p, m)) = m
<1>1. SubSeq(ChunkSizes, 1, Len(ChunkSizes)) = ChunkSizes  BY Sizes
<1>2. ASSUME NEW m \in Nat PROVE Len(ImageTo(p, m)) = m  BY DEF ImageTo
<1> QED BY <1>1, <1>2 DEF Image, ImageTo, UnitsTo, SumOf

LEMMA NoPixels == << >> \in Seq(Pixels) /\ \A x \in Seq(Pixels) : x \o << >> = x /\ << >> \o x = x
<1> DEFINE P == Pixels
<1> HIDE DEF P
<1>1. << >> \in Seq(P) /\ \A x \in Seq(P) : x \o << >> = x /\ << >> \o x = x  OBVIOUS
<1> QED BY <1>1 DEF P

(* Where a read finds the next size.                                       *)
LEMMA AtSize ==
  ASSUME NEW p, NEW c \in 0..Len(ChunkSizes)
  PROVE  /\ TokensTo(c) \in 0..Len(StreamOf(p))
         /\ From(p, TokensTo(c)) # << >> /\ "size" \in DOMAIN Head(From(p, TokensTo(c)))
         /\ Head(From(p, TokensTo(c))) = [size |-> IF c = Len(ChunkSizes) THEN 0 ELSE ChunkSizes[c + 1]]
<1> DEFINE w == TokensTo(c)
           l == Len(StreamOf(p))
<1>1. w \in Nat /\ w + 1 \in 1..l
  <2>1. EndAt \in Nat /\ l = EndAt + 2  BY StreamHas
  <2>2. CASE c = Len(ChunkSizes)  BY <2>1, <2>2 DEF EndAt
  <2>3. CASE c # Len(ChunkSizes)
    <3>1. c + 1 \in 1..Len(ChunkSizes) /\ (c + 1) - 1 = c  BY <2>3, Sizes
    <3>2. ChunkSizes[c + 1] \in Nat  BY <3>1, Sizes
    <3>3. TokensTo(c) \in Nat /\ TokensTo(c + 1) = TokensTo(c) + ChunkSizes[c + 1] + 2 /\ TokensTo(c + 1) <= EndAt
      BY <3>1, StreamHas
    <3> HIDE DEF l
    <3> QED BY <2>1, <3>2, <3>3
  <2> QED BY <2>2, <2>3
<1>2. StreamOf(p)[w + 1] = [size |-> IF c = Len(ChunkSizes) THEN 0 ELSE ChunkSizes[c + 1]]
  <2>1. CASE c = Len(ChunkSizes)  BY <2>1, StreamHas DEF EndAt
  <2>2. CASE c # Len(ChunkSizes)
    <3>1. c + 1 \in 1..Len(ChunkSizes) /\ (c + 1) - 1 = c  BY <2>2, Sizes
    <3>2. StreamOf(p)[TokensTo((c + 1) - 1) + 1] = [size |-> ChunkSizes[c + 1]]  BY <3>1, StreamHas
    <3> QED BY <2>2, <3>1, <3>2
  <2> QED BY <2>1, <2>2
<1> DEFINE s == From(p, w)
<1>3. l \in Nat  BY StreamHas
<1> HIDE DEF l
<1>4. w \in 0..l  BY <1>1, <1>3
<1>5. s \in Seq(Tokens(p)) /\ Len(s) = l - w /\ \A i \in 1..(l - w) : s[i] = StreamOf(p)[w + i]
  BY <1>4, FromIs DEF l
<1> HIDE DEF s, w
<1>6. 1 \in 1..(l - w) /\ Len(s) # 0  BY <1>1, <1>3, <1>5
<1>7. s # << >> /\ Head(s) = s[1]  BY <1>5, <1>6
<1>8. s[1] = StreamOf(p)[w + 1]  BY <1>5, <1>6
<1>9. "size" \in DOMAIN s[1]
  <2> DEFINE n == IF c = Len(ChunkSizes) THEN 0 ELSE ChunkSizes[c + 1]
  <2>1. s[1] = [size |-> n]  BY <1>2, <1>8
  <2> HIDE DEF n
  <2> QED BY ONLY <2>1
<1> QED BY <1>2, <1>4, <1>7, <1>8, <1>9 DEF w, l, s

LEMMA HeldStart ==
  ASSUME NEW p, NEW more
  PROVE  Held(p, << >>, << >>, StreamOf(p), "size", more)
<1>1. TokensTo(0) = 0 /\ UnitsTo(0) = 0 /\ 0 \in 0..Len(ChunkSizes) /\ 0 # Len(ChunkSizes)
  BY UnitsType, Sizes DEF TokensTo
<1>2. StreamOf(p) = From(p, TokensTo(0))
  <2> DEFINE s == StreamOf(p)
             S == Tokens(p)
  <2>1. s \in Seq(S)  BY StreamHas
  <2> HIDE DEF s, S
  <2>2. SubSeq(s, 1, Len(s)) = s  BY <2>1
  <2> QED BY <1>1, <2>2 DEF From, s
<1>3. << >> \in Seq(Pixels) /\ << >> \o << >> = ImageTo(p, UnitsTo(0))
  <2>1. << >> \o << >> = << >> /\ ImageTo(p, 0) = << >>  BY NoPixels DEF ImageTo
  <2> QED BY <1>1, <2>1, NoPixels
<1>4. Taken(p, 0, << >>, << >>, StreamOf(p), "size", more)  BY <1>1, <1>2, <1>3 DEF Taken
<1> QED BY <1>1, <1>4 DEF Held

(* get_size: a chunk follows, or the image has ended.                      *)
LEMMA HeldSize ==
  ASSUME NEW p, NEW img, NEW b, NEW str, NEW more, Held(p, img, b, str, "size", more)
  PROVE  /\ str # << >> /\ "size" \in DOMAIN Head(str)
         /\ Head(str).size = 0 =>
              "size" \notin more /\ Held(p, img, b, SubSeq(str, Len(str) + 1, Len(str)), "convert", more)
         /\ Head(str).size # 0 => Held(p, img, b, SubSeq(str, 0 + 1, Len(str)), "data", more)
<1>1. PICK c \in 0..Len(ChunkSizes) : Taken(p, c, img, b, str, "size", more)  BY DEF Held
<1>2. /\ img \in Seq(Pixels) /\ b = << >> /\ img \o b = ImageTo(p, UnitsTo(c))
      /\ str = From(p, TokensTo(c)) /\ ("size" \in more => c # Len(ChunkSizes))
  BY <1>1 DEF Taken
<1>3. /\ str # << >> /\ "size" \in DOMAIN Head(str)
      /\ Head(str).size = IF c = Len(ChunkSizes) THEN 0 ELSE ChunkSizes[c + 1]
  BY <1>2, AtSize
<1>4. c # Len(ChunkSizes) => ChunkSizes[c + 1] # 0
  <2> SUFFICES ASSUME c # Len(ChunkSizes) PROVE ChunkSizes[c + 1] # 0  OBVIOUS
  <2>1. c + 1 \in 1..Len(ChunkSizes)  BY Sizes
  <2> QED BY <2>1, Sizes
<1>5. str \in Seq(Tokens(p))
  <2>1. TokensTo(c) \in 0..Len(StreamOf(p))  BY AtSize
  <2> QED BY <1>2, <2>1, FromIs
<1>6. SubSeq(str, 0 + 1, Len(str)) = str /\ SubSeq(str, Len(str) + 1, Len(str)) = << >>
  <2> DEFINE S == Tokens(p)
  <2>1. str \in Seq(S)  BY <1>5
  <2> HIDE DEF S
  <2> QED BY ONLY <2>1
<1>7. CASE c = Len(ChunkSizes)
  <2>1. img = Image(p)  BY <1>2, <1>7, NoPixels, ImageIs
  <2>2. Held(p, img, b, << >>, "convert", more)  BY <1>2, <1>7, <2>1 DEF Held, AllTaken
  <2> QED BY <1>2, <1>3, <1>6, <1>7, <2>2
<1>8. CASE c # Len(ChunkSizes)
  <2>1. Taken(p, c, img, b, str, "data", more)  BY <1>1, <1>8 DEF Taken
  <2>2. Held(p, img, b, str, "data", more)  BY <2>1 DEF Held
  <2> QED BY <1>3, <1>4, <1>6, <1>8, <2>2
<1> QED BY <1>7, <1>8

(* The data of a chunk, all of it.                                         *)
LEMMA HeldData ==
  ASSUME NEW p \in Nat, NEW img, NEW b, NEW str, NEW more, "data" \in more, "crlf" \notin more,
         Held(p, img, b, str, "data", more)
  PROVE  /\ str # << >> /\ Head(str).size \in Nat /\ Len(str) \in Nat /\ Head(str).size + 1 < Len(str)
         /\ Held(p, img, Units(SubSeq(str, 2, Head(str).size + 1)),
                 SubSeq(str, (Head(str).size + 1) + 1, Len(str)), "crlf", more)
<1>1. PICK c \in 0..Len(ChunkSizes) : Taken(p, c, img, b, str, "data", more)  BY DEF Held
<1> DEFINE n == ChunkSizes[c + 1]
           w == TokensTo(c)
           u == UnitsTo(c)
           l == Len(StreamOf(p))
           v == SubSeq(str, 2, n + 1)
           r == SubSeq(str, (n + 1) + 1, Len(str))
<1>2. /\ img \in Seq(Pixels) /\ b = << >> /\ img \o b = ImageTo(p, u)
      /\ str = From(p, w) /\ c # Len(ChunkSizes)
  BY <1>1 DEF Taken
<1>3. c + 1 \in 1..Len(ChunkSizes) /\ (c + 1) - 1 = c /\ c + 1 \in 0..Len(ChunkSizes)
  BY <1>2, Sizes
<1>4. n \in Nat /\ n # 0 /\ u \in Nat /\ l \in Nat  BY <1>3, Sizes, UnitsType, StreamHas
<1>5. Head(str).size = n /\ w \in 0..l /\ str # << >>  BY <1>2, AtSize
<1>6. /\ w \in Nat /\ TokensTo(c + 1) = w + n + 2 /\ w + n + 2 <= l
      /\ \A i \in 1..n : StreamOf(p)[w + 1 + i] = [unit |-> <<p, u + i>>]
  <2>1. EndAt \in Nat /\ l = EndAt + 2  BY StreamHas
  <2>2. /\ TokensTo((c + 1) - 1) \in Nat /\ TokensTo(c + 1) = TokensTo((c + 1) - 1) + ChunkSizes[c + 1] + 2
        /\ TokensTo(c + 1) <= EndAt
        /\ \A i \in 1..ChunkSizes[c + 1] :
             StreamOf(p)[TokensTo((c + 1) - 1) + 1 + i] = [unit |-> <<p, UnitsTo((c + 1) - 1) + i>>]
    BY <1>3, StreamHas
  <2>3. TokensTo(c + 1) <= l
    <3> HIDE DEF l
    <3>1. TokensTo(c + 1) \in Nat  BY <1>3, <1>4, <2>2
    <3> QED BY <1>4, <2>1, <2>2, <3>1
  <2> QED BY <1>3, <2>2, <2>3
<1>7. /\ str \in Seq(Tokens(p)) /\ Len(str) = l - w
      /\ \A i \in 1..(l - w) : str[i] = StreamOf(p)[w + i]
  BY <1>2, <1>5, FromIs
<1> HIDE DEF n, w, u, l
<1>8. /\ DOMAIN v = 1..n
      /\ \A i \in 1..n : v[i] = [unit |-> <<p, u + i>>]
  <2> DEFINE S == Tokens(p)
  <2>1. str \in Seq(S)  BY <1>7
  <2> HIDE DEF S
  <2>2. DOMAIN v = 1..n /\ \A i \in 1..n : v[i] = str[i + 1]  BY ONLY <2>1, <1>4, <1>6, <1>7
  <2>3. ASSUME NEW i \in 1..n PROVE str[i + 1] = [unit |-> <<p, u + i>>]
    <3>1. i + 1 \in 1..(l - w) /\ w + (i + 1) = w + 1 + i  BY <1>4, <1>6
    <3> QED BY <1>6, <1>7, <3>1
  <2> QED BY <2>2, <2>3
<1>9. Units(v) = [i \in 1..n |-> <<p, u + i>>]
  <2> HIDE DEF v
  <2>1. \A i \in 1..n : v[i].unit = <<p, u + i>> /\ "unit" \in DOMAIN v[i]
    <3> SUFFICES ASSUME NEW i \in 1..n PROVE v[i].unit = <<p, u + i>> /\ "unit" \in DOMAIN v[i]
      OBVIOUS
    <3>1. v[i] = [unit |-> <<p, u + i>>]  BY <1>8
    <3> QED BY ONLY <3>1
  <2>2. Units(v) = [i \in 1..n |-> IF "unit" \in DOMAIN v[i] THEN v[i].unit ELSE Noise]
    BY <1>8 DEF Units
  <2> QED BY ONLY <2>1, <2>2
<1> DEFINE x == [i \in 1..n |-> <<p, u + i>>]
<1>10. x \in Seq(Pixels) /\ x # << >> /\ Len(x) = n /\ \A i \in 1..n : x[i] = <<p, u + i>>
  <2>1. x \in [1..n -> Pixels]  BY <1>4 DEF Pixels
  <2>2. Len(x) = n /\ \A i \in 1..n : x[i] = <<p, u + i>>  BY <1>4
  <2> DEFINE P == Pixels
  <2> HIDE DEF P, x
  <2>3. x \in Seq(P)  BY <1>4, <2>1 DEF P
  <2> QED BY <1>4, <2>2, <2>3 DEF P
<1>11. img \o x = ImageTo(p, u + n)
  <2> DEFINE P == Pixels
             y == ImageTo(p, u)
             z == ImageTo(p, u + n)
  <2>1. img = y  BY <1>2, NoPixels
  <2>2. Len(y) = u /\ \A i \in 1..u : y[i] = <<p, i>>  BY <1>4 DEF ImageTo
  <2>3. DOMAIN z = 1..(u + n) /\ \A i \in 1..(u + n) : z[i] = <<p, i>>  BY <1>4 DEF ImageTo
  <2>4. z = [i \in 1..(u + n) |-> z[i]]  BY DEF ImageTo
  <2>5. img \in Seq(P) /\ x \in Seq(P)  BY <1>2, <1>10
  <2> HIDE DEF P, x, y, z
  <2> DEFINE s == img \o x
  <2>6. /\ s \in Seq(P) /\ Len(s) = u + n
        /\ \A i \in 1..(u + n) : s[i] = IF i <= u THEN img[i] ELSE x[i - u]
    <3>1. Len(img) = u /\ Len(x) = n  BY <1>10, <2>1, <2>2
    <3> QED BY ONLY <2>5, <3>1, ConcatProperties
  <2>7. ASSUME NEW i \in 1..(u + n) PROVE s[i] = z[i]
    <3>1. CASE i <= u
      <4>1. i \in 1..u  BY <1>4, <3>1
      <4> QED BY <2>1, <2>2, <2>3, <2>6, <3>1, <4>1
    <3>2. CASE ~(i <= u)
      <4>1. i - u \in 1..n /\ u + (i - u) = i  BY <1>4, <3>2
      <4> QED BY <1>10, <2>3, <2>6, <3>2, <4>1
    <3> QED BY <3>1, <3>2
  <2> HIDE DEF s
  <2>8. s = [i \in 1..(u + n) |-> s[i]]
    <3>1. s \in [1..Len(s) -> P]  BY <2>6, LenProperties
    <3> QED BY <2>6, <3>1
  <2>9. s = z  BY <2>4, <2>7, <2>8
  <2> QED BY <2>9 DEF s, z
<1>12. UnitsTo(c + 1) = u + n  BY <1>2, UnitsGrow DEF u, n
<1>13. r = From(p, TokensTo(c + 1) - 1)
  <2>1. w + (n + 1) = TokensTo(c + 1) - 1 /\ w + (n + 1) <= l /\ n + 1 \in Nat  BY <1>4, <1>6
  <2>2. SubSeq(From(p, w), (n + 1) + 1, Len(From(p, w))) = From(p, w + (n + 1))
    BY <1>5, <2>1, FromNext DEF l
  <2> QED BY <1>2, <2>1, <2>2
<1> HIDE DEF x
<1>14. Taken(p, c + 1, img, x, r, "crlf", more)
  <2>1. c + 1 # 0  BY <1>3
  <2> HIDE DEF r
  <2> QED BY <1>2, <1>10, <1>11, <1>12, <1>13, <2>1 DEF Taken
<1>15. Held(p, img, x, r, "crlf", more)  BY <1>3, <1>14 DEF Held
<1>16. Head(str).size = n  BY <1>5 DEF n
<1>17. n \in Nat /\ Len(str) \in Nat /\ n + 1 < Len(str)  BY <1>4, <1>6, <1>7
<1> QED BY <1>5, <1>9, <1>15, <1>16, <1>17 DEF x

(* The end of the chunk's line.                                            *)
LEMMA HeldCrlf ==
  ASSUME NEW p, NEW img, NEW b, NEW str, NEW more, "convert" \notin more,
         Held(p, img, b, str, "crlf", more)
  PROVE  str # << >> /\ Held(p, img, b, SubSeq(str, 1 + 1, Len(str)), "convert", more)
<1>1. PICK c \in 0..Len(ChunkSizes) : Taken(p, c, img, b, str, "crlf", more)  BY DEF Held
<1> DEFINE w == TokensTo(c) - 1
           l == Len(StreamOf(p))
<1>2. /\ img \in Seq(Pixels) /\ b \in Seq(Pixels) /\ b # << >> /\ img \o b = ImageTo(p, UnitsTo(c))
      /\ str = From(p, w) /\ c # 0
  BY <1>1 DEF Taken
<1>3. w \in 0..l /\ w + 1 <= l /\ w + 1 = TokensTo(c)
  <2>1. c \in 1..Len(ChunkSizes) /\ c - 1 \in 0..Len(ChunkSizes)  BY <1>2, Sizes
  <2>2. /\ TokensTo(c - 1) \in Nat /\ TokensTo(c) = TokensTo(c - 1) + ChunkSizes[c] + 2
        /\ ChunkSizes[c] \in Nat
    BY <2>1, StreamHas, Sizes
  <2>3. TokensTo(c) \in 0..l  BY AtSize
  <2>4. l \in Nat  BY StreamHas
  <2> HIDE DEF l
  <2> QED BY <2>2, <2>3, <2>4
<1>4. SubSeq(str, 1 + 1, Len(str)) = From(p, TokensTo(c))  BY <1>2, <1>3, FromNext
<1>5. str # << >>
  <2>1. Len(str) = l - w  BY <1>2, <1>3, FromIs
  <2>2. l \in Nat  BY StreamHas
  <2> SUFFICES ASSUME str = << >> PROVE FALSE  OBVIOUS
  <2>3. Len(str) = 0  OBVIOUS
  <2> HIDE DEF w, l
  <2> QED BY <1>3, <2>1, <2>2, <2>3
<1> HIDE DEF w
<1>6. Taken(p, c, img, b, SubSeq(str, 1 + 1, Len(str)), "convert", more)  BY <1>2, <1>4 DEF Taken
<1> QED BY <1>5, <1>6 DEF Held

(* ipConvert moves the front of the buffer to the image.                   *)
LEMMA HeldUsed ==
  ASSUME NEW p, NEW img, NEW b, NEW str, NEW more, {"none", "convert"} \cap more = {},
         Held(p, img, b, str, "convert", more),
         NEW k \in 1..Len(b), NEW x, NEW r, x = img \o SubSeq(b, 1, k), r = SubSeq(b, k + 1, Len(b))
  PROVE  /\ Held(p, x, r, str, "none", more)
         /\ r # << >> => Held(p, x, r, str, "convert", more)
         /\ r = << >> /\ Len(x) < Len(Image(1)) => Held(p, x, r, str, "size", more)
<1>1. PICK c \in 0..Len(ChunkSizes) : Taken(p, c, img, b, str, "convert", more)
  <2>1. b # << >>
    <3> SUFFICES ASSUME b = << >> PROVE FALSE  OBVIOUS
    <3>1. Len(b) = 0  OBVIOUS
    <3> QED BY <3>1
  <2> QED BY <2>1 DEF Held
<1>2. /\ img \in Seq(Pixels) /\ b \in Seq(Pixels) /\ img \o b = ImageTo(p, UnitsTo(c))
      /\ str = From(p, TokensTo(c))
  BY <1>1 DEF Taken
<1> DEFINE P == Pixels
           f == SubSeq(b, 1, k)
<1>3. /\ f \in Seq(P) /\ r \in Seq(P) /\ f \o r = b /\ img \in Seq(P)
  <2>1. b \in Seq(P) /\ img \in Seq(P)  BY <1>2
  <2> HIDE DEF P
  <2>2. f \in Seq(P) /\ r \in Seq(P)  BY <2>1
  <2>3. f \o r = b  BY <2>1
  <2> QED BY <2>1, <2>2, <2>3
<1>4. x \in Seq(P) /\ x \o r = ImageTo(p, UnitsTo(c))
  <2>1. AssociativeOn(Seq(P))  BY Associative, Zenon
  <2> HIDE DEF P, f
  <2>2. x = img \o f  BY DEF f
  <2>3. (img \o f) \o r = img \o (f \o r)  BY <1>3, <2>1, Zenon DEF AssociativeOn
  <2>4. img \o f \in Seq(P)  BY <1>3, ConcatProperties
  <2> QED BY ONLY <1>2, <1>3, <2>2, <2>3, <2>4
<1>5. Taken(p, c, x, r, str, "none", more)  BY <1>2, <1>3, <1>4 DEF Taken
<1>6. ASSUME r # << >> PROVE Held(p, x, r, str, "convert", more)
  <2>1. Taken(p, c, x, r, str, "convert", more)  BY <1>2, <1>3, <1>4, <1>6 DEF Taken
  <2> QED BY <2>1 DEF Held
<1>7. ASSUME r = << >>, Len(x) < Len(Image(1)) PROVE Held(p, x, r, str, "size", more)
  <2>1. c # Len(ChunkSizes)
    <3> SUFFICES ASSUME c = Len(ChunkSizes) PROVE FALSE  OBVIOUS
    <3>1. x = ImageTo(p, UnitsTo(c))  BY <1>4, <1>7, NoPixels
    <3>2. UnitsTo(c) \in Nat  BY UnitsType
    <3>3. Len(x) = UnitsTo(c) /\ Len(Image(1)) = UnitsTo(c)  BY <3>1, <3>2, ImageIs
    <3> QED BY <1>7, <3>2, <3>3
  <2>2. Taken(p, c, x, r, str, "size", more)  BY <1>2, <1>3, <1>4, <1>7, <2>1 DEF Taken
  <2> QED BY <2>2 DEF Held
<1>8. Held(p, x, r, str, "none", more)  BY <1>5 DEF Held
<1> QED BY <1>6, <1>7, <1>8

(* From one read to the next; the header once parsed, nothing more must    *)
(* follow.                                                                 *)
LEMMA HeldNext ==
  ASSUME NEW p, NEW img, NEW b, NEW str, NEW more, NEW less, Held(p, img, b, str, "none", more),
         {"none", "size", "convert"} \cap less = {}
  PROVE  /\ Held(p, img, b, str, "none", less)
         /\ b = << >> => Held(p, img, b, str, "size", less)
         /\ b # << >> => Held(p, img, b, str, "convert", less)
<1>1. PICK c \in 0..Len(ChunkSizes) : Taken(p, c, img, b, str, "none", more)  BY DEF Held
<1>2. Taken(p, c, img, b, str, "none", less)  BY <1>1 DEF Taken
<1>3. b = << >> => Taken(p, c, img, b, str, "size", less)  BY <1>1 DEF Taken
<1>4. b # << >> => Taken(p, c, img, b, str, "convert", less)  BY <1>1 DEF Taken
<1> QED BY <1>2, <1>3, <1>4 DEF Held

(* Without input the image has ended.                                      *)
LEMMA HeldEnd ==
  ASSUME NEW p, NEW img, NEW str, NEW more, Held(p, img, << >>, str, "convert", more)
  PROVE  "size" \notin more /\ AllTaken(p, img, str)
BY DEF Held, Taken

-----------------------------------------------------------------------------
(* Jobs and pages.                                                         *)

(* The session's job is the scanner's last one.                            *)
JobInv ==
  /\ job \in {0, dev.job}
  /\ main = "create" => job = 0
  /\ main = "paper" => Feeder

(* Where a job, a cancel or an image processor is known to be there or not. *)
FlagInv ==
  /\ main \in {"close", "exited"} /\ ~wrecked => job = 0
  /\ cancel \in {"ip", "page", "close", "open", "request"} => userCancel
  /\ main \in {"paper", "start", "create", "poll", "parse"} => ~userCancel
  /\ main = "parse" => ip
  /\ main \in {"poll", "parse"} => job # 0 /\ http = "page"

(* While nothing fails, a session without a job has none at the scanner.   *)
IdleInv == faults = 0 /\ job = 0 /\ ~wrecked => dev.state \notin Live

(* The image header is parsed before the image ends.                       *)
More == IF main = "parse" THEN {"size", "data"} ELSE {"data"}

(* The scanner d has fed p pages that were sent, and maybe one more.       *)
Counted(p, d) ==
  /\ d.state \in {"scanning", "ready"} => d.pages = p + 1
  /\ d.state \in {"none", "sending", "completed"} => d.pages = p

Sending(p, d, str, src) ==
  /\ str # << >> => d.state = "sending"
  /\ Counted(p, d)
  /\ src = "platen" => d.state \notin {"scanning", "ready"}

(* All the pages the scanner fed are kept, and it feeds no more.           *)
AllKept(p, d, src) ==
  /\ src # "platen" => d.state \notin Live
  /\ d.state # "canceled" => p = d.pages

(* The page after those that are kept.                                     *)
This == Len(got) + 1

Before == stream = << >> /\ image = << >> /\ buf = << >>

StartInv ==
  main \in Starting =>
    /\ stream = << >> /\ Counted(Len(got), dev)
    /\ job = 0 => dev.state = "none"
    /\ main # "loop" => Before

(* A start found the job completed and reads on where nothing is, whatever *)
(* it takes for a size; or it looks for the header of the page.            *)
Empty ==
  /\ image = << >> /\ buf = << >> /\ dev.state \notin Live
  /\ at \in {"size", "data", "crlf", "convert"}
  /\ IF at = "data" THEN \E n \in OtherSizes : stream = <<[size |-> n]>> ELSE stream = << >>

ParseInv ==
  main = "parse" =>
    \/ Empty
    \/ at # "none" /\ Sending(This, dev, stream, source) /\ Held(This, image, buf, stream, at, More)

(* A start that found no page, or was cancelled at the panel.              *)
NoPage ==
  /\ image = << >> /\ (ip => userCancel /\ rd # "entered")
  /\ rd = "reading" => at \in {"page", "close"} /\ ret = "error"
  /\ rd = "back" => ret \in {"error", "cancelled"}

InPage ==
  /\ job # 0 /\ Sending(This, dev, stream, source)
  /\ \/ /\ rd \in Scanning \/ (rd = "back" /\ ret = "good")
        /\ at \notin Closing
        /\ ip /\ ~userCancel /\ http = "page" /\ Held(This, image, buf, stream, at, More)
     \/ /\ rd \in {"back", "ended"} \/ (rd = "reading" /\ at \in Closing)
        /\ ret = "eof" /\ AllTaken(This, image, stream)

ReadInv == main \in {"wait", "active"} => NoPage \/ InPage

(* A scan that has ended for want of documents, or with its only page.     *)
LeaveInv ==
  leaving = "close" =>
    /\ main \in {"finally", "closing", "close", "exited"}
    /\ AllKept(Len(got), dev, source)

(* The pages kept are the first ones of the job, whole and in order.       *)
GotInv == got \in Seq(Seq(Pixels)) /\ \A i \in DOMAIN got : got[i] = Image(i)

(* Layer 2.  The part about pages says nothing once anything failed.       *)
Data == GotInv /\ StartInv /\ ParseInv /\ ReadInv /\ LeaveInv

DataInv == faults = 0 => Data

PagesInv == JobInv /\ FlagInv /\ IdleInv /\ DataInv

IInv == ControlInv /\ PagesInv

LEMMA ThisType == GotInv => This \in Nat
BY DEF GotInv, This

LEMMA MoreIs == {"none", "convert", "crlf"} \cap More = {} /\ "data" \in More
BY DEF More

(* A read goes on: only image, buffer, stream and its place change.        *)
LEMMA ReadOn ==
  ASSUME ControlInv, Data, at # "none", at \notin Closing, at' \notin Closing \cup {"none"},
         main = "parse" => ~Empty,
         UNCHANGED <<source, main, leaving, rd, ret, session, userCancel, job, ip, http, got, dev>>,
         Held(This, image, buf, stream, at, More) =>
            (stream' # << >> => stream # << >>) /\ Held(This, image', buf', stream', at', More)
  PROVE  Data'
<1>1. main = "parse" \/ rd = "reading"  BY DEF ControlInv, PlaceInv
<1>2. main \notin Starting  BY <1>1 DEF ControlInv, PlaceInv, Starting
<1>3. GotInv' /\ StartInv' /\ LeaveInv'  BY <1>2 DEF Data, GotInv, StartInv, LeaveInv
<1>4. Sending(This, dev, stream, source) /\ Held(This, image, buf, stream, at, More)
      => Sending(This, dev, stream', source) /\ Held(This, image', buf', stream', at', More)
  BY DEF Sending
<1>5. ParseInv'  BY <1>4 DEF Data, ParseInv, This, More
<1>6. ReadInv'
  <2> SUFFICES ASSUME main \in {"wait", "active"} PROVE NoPage' \/ InPage'  BY DEF ReadInv
  <2>1. rd = "reading"  BY <1>1
  <2>2. InPage  BY <2>1 DEF Data, ReadInv, NoPage, Closing
  <2>3. /\ job # 0 /\ Sending(This, dev, stream, source) /\ ip /\ ~userCancel /\ http = "page"
        /\ Held(This, image, buf, stream, at, More)
    BY <2>1, <2>2 DEF InPage
  <2>4. InPage'  BY <1>4, <2>1, <2>3 DEF InPage, This, More, Scanning
  <2> QED BY <2>4
<1> QED BY <1>3, <1>5, <1>6 DEF Data

(* Reads where nothing is.                                                 *)
LEMMA EmptyOn ==
  ASSUME ControlInv, Data, main = "parse", Empty',
         UNCHANGED <<source, main, leaving, got, dev>>
  PROVE  Data'
<1>1. GotInv' /\ StartInv' /\ LeaveInv'  BY DEF Data, GotInv, StartInv, Starting, LeaveInv
<1>2. ParseInv' /\ ReadInv'  BY DEF ParseInv, ReadInv
<1> QED BY <1>1, <1>2 DEF Data

LEMMA PageIs ==
  ASSUME NEW p \in Nat
  PROVE  Image(p) \in Seq(Pixels)
<1>1. UnitsTo(Len(ChunkSizes)) \in Nat  BY UnitsType, Sizes
<1>2. \A i \in 1..UnitsTo(Len(ChunkSizes)) : <<p, i>> \in Pixels  BY <1>1 DEF Pixels
<1>3. Image(p) = ImageTo(p, UnitsTo(Len(ChunkSizes)))  BY ImageIs
<1> DEFINE n == UnitsTo(Len(ChunkSizes))
           P == Pixels
<1> HIDE DEF n, P
<1>4. ImageTo(p, n) \in Seq(P)
  <2>1. \A i \in 1..n : <<p, i>> \in P  BY <1>2 DEF n, P
  <2>2. n \in Nat  BY <1>1 DEF n
  <2> QED BY <2>1, <2>2 DEF ImageTo
<1> QED BY <1>3, <1>4 DEF n, P

-----------------------------------------------------------------------------
(* Each action keeps PagesInv.                                             *)

LEMMA StartScanPages == ControlInv /\ PagesInv /\ StartScan => PagesInv'
<1> SUFFICES ASSUME ControlInv, PagesInv, StartScan PROVE PagesInv'  OBVIOUS
<1> USE DEF StartScan, ControlInv, Feeder, GIL, outside, Data
<1>1. JobInv'  BY DEF PagesInv, JobInv
<1>2. FlagInv'  BY DEF FlagInv
<1>3. IdleInv'  BY DEF PagesInv, IdleInv, Numbers
<1>4. ASSUME faults' = 0 PROVE Data'
  <2>1. faults = 0 /\ Data  BY <1>4 DEF PagesInv, DataInv, Numbers
  <2>2. GotInv'  BY <2>1 DEF GotInv
  <2>3. StartInv'  BY <2>1 DEF StartInv, This, Before, Starting
  <2>4. ParseInv'  BY <2>1 DEF ParseInv
  <2>5. ReadInv'  BY <2>1 DEF ReadInv
  <2>6. LeaveInv'  BY <2>1 DEF LeaveInv
  <2> QED BY <2>2, <2>3, <2>4, <2>5, <2>6
<1> QED BY <1>1, <1>2, <1>3, <1>4 DEF PagesInv, DataInv

LEMMA IsPaperInAdfPages == ControlInv /\ PagesInv /\ IsPaperInAdf => PagesInv'
<1> SUFFICES ASSUME ControlInv, PagesInv, IsPaperInAdf PROVE PagesInv'  OBVIOUS
<1> USE DEF IsPaperInAdf, ControlInv, Feeder, DevInv, Devices, NoFault, EndStart, CloseHttp,
  Fault, Data
<1>1. JobInv'  BY DEF PagesInv, JobInv
<1>2. FlagInv'  BY DEF PagesInv, FlagInv
<1>3. IdleInv'  BY DEF PagesInv, IdleInv, Numbers, Live, JobInv, PaperInAdf, Busy
<1>4. ASSUME faults' = 0 PROVE Data'
  <2>1. faults = 0 /\ Data  BY <1>4 DEF PagesInv, DataInv, Numbers
  <2>2. GotInv'  BY <2>1 DEF GotInv
  <2>3. StartInv'  BY <2>1 DEF StartInv, This, Before, Starting
  <2>4. ParseInv'  BY <2>1 DEF ParseInv
  <2>5. ReadInv'  BY <2>1 DEF ReadInv, PagesInv, JobInv
  <2>6. LeaveInv'
    BY <2>1 DEF LeaveInv, Counted, Sending, AllKept, Live, StartInv, Starting, PaperInAdf, Busy
  <2> QED BY <2>2, <2>3, <2>4, <2>5, <2>6
<1> QED BY <1>1, <1>2, <1>3, <1>4 DEF PagesInv, DataInv

LEMMA ScannerStatusPages == ControlInv /\ PagesInv /\ ScannerStatus => PagesInv'
<1> SUFFICES ASSUME ControlInv, PagesInv, ScannerStatus PROVE PagesInv'  OBVIOUS
<1> USE DEF ScannerStatus, ControlInv, Feeder, DevInv, Devices, Busy, NoFault, Goto, EndStart,
  CloseHttp, Fault, Data
<1>1. JobInv'  BY DEF JobInv
<1>2. FlagInv'  BY DEF PagesInv, FlagInv
<1>3. IdleInv'  BY DEF PagesInv, IdleInv, Numbers
<1>4. ASSUME faults' = 0 PROVE Data'
  <2>1. faults = 0 /\ Data  BY <1>4 DEF PagesInv, DataInv, Numbers
  <2>2. GotInv'  BY <2>1 DEF GotInv
  <2>3. StartInv'  BY <2>1 DEF StartInv, This, Before, Starting
  <2>4. ParseInv'  BY <2>1 DEF ParseInv
  <2>5. ReadInv'  BY <2>1 DEF ReadInv
  <2>6. LeaveInv'  BY <2>1 DEF LeaveInv
  <2> QED BY <2>2, <2>3, <2>4, <2>5, <2>6
<1> QED BY <1>1, <1>2, <1>3, <1>4 DEF PagesInv, DataInv

LEMMA CreateJobPages == ControlInv /\ PagesInv /\ CreateJob => PagesInv'
<1> SUFFICES ASSUME ControlInv, PagesInv, CreateJob PROVE PagesInv'  OBVIOUS
<1>1. JobInv'  BY DEF JobInv, CreateJob, Goto, EndStart
<1>2. FlagInv'
  <2>1. CASE main' = "poll" /\ dev' = Created(dev) /\ job' = dev'.job /\ OpenPage /\ Goto("poll")
    <3>1. job' # 0
      <4>1. dev \in Devices  BY DEF ControlInv, DevInv
      <4>2. Created(dev).job = dev.job + 1  BY <4>1, CreatedIs
      <4> QED BY <2>1, <4>1, <4>2 DEF Devices
    <3> QED BY <2>1, <3>1 DEF PagesInv, FlagInv, OpenPage, Goto, CreateJob
  <2>2. CASE EndStart("error")  BY <2>2 DEF PagesInv, FlagInv, EndStart, CreateJob
  <2> QED BY <2>1, <2>2 DEF CreateJob, Goto
<1>3. IdleInv'
  BY CreatedIs DEF ControlInv, PagesInv, IdleInv, Numbers, DevInv, Devices, CreateJob, Busy,
    NoFault, OpenPage, Goto, EndStart, CloseHttp, Feeder, Fault, JobInv
<1>4. ASSUME faults' = 0 PROVE Data'
  <2>1. faults = 0 /\ Data
    BY <1>4 DEF ControlInv, PagesInv, DataInv, Numbers, CreateJob, Busy, NoFault, OpenPage,
      Goto, EndStart, CloseHttp, Feeder, Fault
  <2>2. GotInv'  BY <2>1 DEF Data, GotInv, CreateJob, Goto, EndStart
  <2>3. StartInv'
    <3>1. CASE EndStart("error")  BY <3>1 DEF StartInv, Starting, EndStart
    <3>2. CASE dev' = Created(dev) /\ job' = dev'.job /\ OpenPage /\ Goto("poll")
      <4>1. dev \in Devices /\ main = "create" /\ job = 0
        BY DEF ControlInv, DevInv, CreateJob, PagesInv, JobInv
      <4>2. stream = << >> /\ Counted(Len(got), dev) /\ dev.state = "none" /\ Before
        BY <2>1, <4>1 DEF Data, StartInv, Starting
      <4>3. dev.pages = Len(got) /\ dev.job \in Nat  BY <4>1, <4>2 DEF Counted, Devices
      <4>4. /\ dev'.job = dev.job + 1
            /\ \/ dev'.state = "scanning" /\ dev'.pages = dev.pages + 1
               \/ dev'.state = "completed" /\ dev'.pages = dev.pages
        BY <3>2, <4>1, CreatedIs
      <4>5. Counted(Len(got), dev')  BY <4>3, <4>4 DEF Counted
      <4>6. job' # 0  BY <3>2, <4>3, <4>4
      <4> QED BY <3>2, <4>2, <4>5, <4>6 DEF Goto, StartInv, Before
    <3> QED BY <3>1, <3>2 DEF CreateJob
  <2>4. ParseInv'  BY <2>1 DEF ParseInv, CreateJob, Goto, EndStart
  <2>5. ReadInv'  BY <2>1 DEF ReadInv, CreateJob, Goto, EndStart
  <2>6. LeaveInv'  BY <2>1 DEF LeaveInv, Data, CreateJob, Goto, EndStart
  <2> QED BY <2>2, <2>3, <2>4, <2>5, <2>6 DEF Data
<1> QED BY <1>1, <1>2, <1>3, <1>4 DEF PagesInv, DataInv

LEMMA NextPagePages == ControlInv /\ PagesInv /\ NextPage => PagesInv'
<1> SUFFICES ASSUME ControlInv, PagesInv, NextPage PROVE PagesInv'  OBVIOUS
<1> USE DEF NextPage, ControlInv, Feeder, DevInv, Devices, OpenPage, Goto, Data
<1>1. JobInv'  BY DEF PagesInv, JobInv
<1>2. FlagInv'  BY DEF PagesInv, FlagInv
<1>3. IdleInv'  BY DEF IdleInv, Numbers
<1>4. ASSUME faults' = 0 PROVE Data'
  <2>1. faults = 0 /\ Data  BY <1>4 DEF PagesInv, DataInv, Numbers
  <2>2. GotInv'  BY <2>1 DEF GotInv
  <2>3. StartInv'  BY <2>1 DEF StartInv, This, Before, Starting
  <2>4. ParseInv'  BY <2>1 DEF ParseInv
  <2>5. ReadInv'  BY <2>1 DEF ReadInv
  <2>6. LeaveInv'  BY <2>1 DEF LeaveInv
  <2> QED BY <2>2, <2>3, <2>4, <2>5, <2>6
<1> QED BY <1>1, <1>2, <1>3, <1>4 DEF PagesInv, DataInv

LEMMA PollJobPages == ControlInv /\ PagesInv /\ PollJob => PagesInv'
<1> SUFFICES ASSUME ControlInv, PagesInv, PollJob PROVE PagesInv'  OBVIOUS
<1>1. JobInv'
  BY DEF ControlInv, PagesInv, JobInv, DevInv, Devices, PollJob, Started, EndStart, CloseHttp,
    outside, Fault
<1>2. FlagInv'  BY DEF PagesInv, FlagInv, PollJob, Started, EndStart
<1>3. IdleInv'
  BY DEF ControlInv, PagesInv, IdleInv, Numbers, Live, PollJob, NoFault, Started, EndStart,
    CloseHttp, Feeder, outside, Fault
<1>4. ASSUME faults' = 0 PROVE Data'
  <2>1. faults = 0 /\ Data
    BY <1>4 DEF ControlInv, PagesInv, DataInv, Numbers, PollJob, NoFault, Started, EndStart,
      CloseHttp, Feeder, outside, Fault
  <2>2. GotInv'  BY <2>1 DEF Data, GotInv, PollJob, Started, EndStart
  <2>3. StartInv'  BY <2>1 DEF StartInv, This, Before, Starting, PollJob, Started, EndStart
  <2>4. ParseInv'
    <3> SUFFICES ASSUME main' = "parse" PROVE ParseInv'  BY DEF ParseInv
    <3>1. /\ main = "poll" /\ at' = "size" /\ image' = image /\ buf' = buf /\ got' = got /\ source' = source
          /\ \/ /\ dev.state = "ready" /\ dev' = [dev EXCEPT !.state = "sending"]
                /\ stream' = StreamOf(dev.pages)
             \/ dev.state = "completed" /\ dev' = dev /\ stream' = stream
      BY DEF PollJob, Started, EndStart
    <3>2. Before /\ Counted(Len(got), dev)  BY <2>1, <3>1 DEF Data, StartInv, Starting
    <3>3. CASE dev.state = "completed" /\ dev' = dev /\ stream' = stream
      BY <3>1, <3>2, <3>3 DEF Before, ParseInv, Empty, Live
    <3>4. CASE dev.state = "ready" /\ dev' = [dev EXCEPT !.state = "sending"] /\ stream' = StreamOf(dev.pages)
      <4>1. dev.pages = This  BY <3>2, <3>4 DEF Counted, This
      <4>2. dev'.state = "sending" /\ dev'.pages = dev.pages
        BY <3>4 DEF ControlInv
      <4>3. Sending(This, dev', stream', source)  BY <4>1, <4>2 DEF Sending, Counted
      <4>4. Held(This, << >>, << >>, stream', "size", More')  BY <3>4, <4>1, HeldStart
      <4> QED BY <3>1, <3>2, <4>3, <4>4 DEF ParseInv, Before, This
    <3> QED BY <3>1, <3>3, <3>4
  <2>5. ReadInv'
    BY <2>1 DEF ReadInv, NoPage, InPage, More, Scanning, Data, This, Before, Starting, PollJob,
      Started, EndStart, StartInv, Starting
  <2>6. LeaveInv'
    BY <2>1 DEF LeaveInv, Data, Counted, Sending, AllKept, Live, PollJob, Started, EndStart,
      StartInv, Starting
  <2> QED BY <2>2, <2>3, <2>4, <2>5, <2>6 DEF Data
<1> QED BY <1>1, <1>2, <1>3, <1>4 DEF PagesInv, DataInv

LEMMA GetSizePages == ControlInv /\ PagesInv /\ GetSize => PagesInv'
<1> SUFFICES ASSUME ControlInv, PagesInv, GetSize PROVE PagesInv'  OBVIOUS
<1>1. JobInv'  BY DEF PagesInv, JobInv, Feeder, GetSize, NoFault, Read, ReadAs, threads
<1>2. FlagInv'  BY DEF PagesInv, FlagInv, GetSize, Read, ReadAs, threads
<1>3. IdleInv'  BY DEF PagesInv, IdleInv, Numbers, GetSize, NoFault, Read, ReadAs
<1>4. ASSUME faults' = 0 PROVE Data'
  <2>1. faults = 0 /\ Data
    BY <1>4 DEF PagesInv, DataInv, GetSize, NoFault
  <2>2. /\ at = "size" /\ stream # << >> /\ image' = image /\ buf' = buf /\ at' \in {"convert", "data"}
        /\ UNCHANGED <<source, main, leaving, rd, ret, session, userCancel, job, ip, http, got, dev>>
        /\ Head(stream).size = 0 => stream' = SubSeq(stream, Len(stream) + 1, Len(stream)) /\ at' = "convert"
        /\ Head(stream).size # 0 => stream' = SubSeq(stream, 0 + 1, Len(stream)) /\ at' = "data"
    BY DEF GetSize, Read, ReadAs, HasSize, threads
  <2>3. ASSUME Held(This, image, buf, stream, at, More) PROVE Held(This, image', buf', stream', at', More)
    <3>1. /\ Head(stream).size = 0 =>
               Held(This, image, buf, SubSeq(stream, Len(stream) + 1, Len(stream)), "convert", More)
          /\ Head(stream).size # 0 => Held(This, image, buf, SubSeq(stream, 0 + 1, Len(stream)), "data", More)
      BY <2>2, <2>3, HeldSize
    <3> QED BY ONLY <2>2, <3>1
  <2>4. ~Empty  BY <2>2 DEF Empty
  <2> QED BY <2>1, <2>2, <2>3, <2>4, ReadOn DEF Closing
<1> QED BY <1>1, <1>2, <1>3, <1>4 DEF PagesInv, DataInv

LEMMA GetOtherSizePages == ControlInv /\ PagesInv /\ GetOtherSize => PagesInv'
<1> SUFFICES ASSUME ControlInv, PagesInv, GetOtherSize PROVE PagesInv'  OBVIOUS
<1> USE DEF GetOtherSize, ControlInv, NoFault, Fault, ReadAs, threads
<1>1. JobInv'  BY DEF PagesInv, JobInv, Feeder
<1>2. FlagInv'  BY DEF PagesInv, FlagInv
<1>3. IdleInv'  BY DEF PagesInv, IdleInv, Numbers
<1>4. ASSUME faults' = 0 PROVE Data'
  <2>1. faults = 0 /\ Data /\ ~HasSize  BY <1>4 DEF PagesInv, DataInv, Numbers
  <2>2. /\ at = "size" /\ image' = image /\ buf' = buf /\ at' \in {"convert", "data"}
        /\ UNCHANGED <<source, main, leaving, rd, ret, session, userCancel, job, ip, http, got, dev>>
    OBVIOUS
  <2>3. ~Held(This, image, buf, stream, at, More)  BY <2>1, <2>2, HeldSize DEF HasSize
  <2>4. CASE main = "parse" /\ Empty
    <3>1. stream = << >>  BY <2>2, <2>4 DEF Empty
    <3>2. PICK size \in OtherSizes, n \in {0} \cup EndOfLine :
            IF size = 0 THEN stream' = << >> /\ at' = "convert"
            ELSE stream' = <<[size |-> size]>> \o SubSeq(stream, n + 1, Len(stream)) /\ at' = "data"
      OBVIOUS
    <3>3. n = 0  BY <3>1 DEF EndOfLine
    <3>4. SubSeq(stream, n + 1, Len(stream)) = << >>  BY <3>1, <3>3
    <3>5. <<[size |-> size]>> \o << >> = <<[size |-> size]>>
      <4> DEFINE x == [size |-> size]
      <4> HIDE DEF x
      <4>1. <<x>> \o << >> = <<x>>  OBVIOUS
      <4> QED BY <4>1 DEF x
    <3>6. size # 0 => stream' = <<[size |-> size]>> /\ at' = "data"  BY <3>2, <3>4, <3>5
    <3>7. Empty'
      <4>1. image' = << >> /\ buf' = << >> /\ dev'.state \notin Live  BY <2>2, <2>4 DEF Empty
      <4>2. CASE size = 0  BY <3>2, <4>1, <4>2 DEF Empty
      <4>3. CASE size # 0  BY <3>6, <4>1, <4>3 DEF Empty
      <4> QED BY <4>2, <4>3
    <3> QED BY <2>1, <2>2, <2>4, <3>7, EmptyOn
  <2>5. CASE main = "parse" => ~Empty
    BY <2>1, <2>2, <2>3, <2>5, ReadOn DEF Closing
  <2> QED BY <2>4, <2>5
<1> QED BY <1>1, <1>2, <1>3, <1>4 DEF PagesInv, DataInv

LEMMA GetSizeFailsPages == ControlInv /\ PagesInv /\ GetSizeFails => PagesInv'
<1> SUFFICES ASSUME ControlInv, PagesInv, GetSizeFails PROVE PagesInv'  OBVIOUS
<1> USE DEF GetSizeFails, ControlInv, Lost, Wreck, Fault, NoFault, Data
<1>1. JobInv'  BY DEF PagesInv, JobInv
<1>2. FlagInv'  BY DEF FlagInv
<1>3. IdleInv'  BY DEF IdleInv, Numbers
<1>4. ASSUME faults' = 0 PROVE Data'
  <2>1. faults = 0 /\ Data  BY <1>4 DEF PagesInv, DataInv, Numbers
  <2>2. GotInv'  BY <2>1 DEF GotInv
  <2>3. StartInv'  BY <2>1 DEF StartInv, This, Before, Starting
  <2>4. ParseInv'  BY <2>1 DEF ParseInv
  <2>5. ReadInv'  BY <2>1 DEF ReadInv
  <2>6. LeaveInv'  BY <2>1 DEF LeaveInv
  <2> QED BY <2>2, <2>3, <2>4, <2>5, <2>6
<1> QED BY <1>1, <1>2, <1>3, <1>4 DEF PagesInv, DataInv

LEMMA GetDataPages == ControlInv /\ PagesInv /\ GetData => PagesInv'
<1> SUFFICES ASSUME ControlInv, PagesInv, GetData PROVE PagesInv'  OBVIOUS
<1>1. JobInv'  BY DEF PagesInv, JobInv, Feeder, GetData, NoFault, Fault, Read, ReadAs, threads
<1>2. FlagInv'  BY DEF PagesInv, FlagInv, GetData, Fault, Read, ReadAs, threads
<1>3. IdleInv'
  BY DEF ControlInv, PagesInv, IdleInv, Numbers, GetData, NoFault, Fault, Read, ReadAs, threads
<1>4. ASSUME faults' = 0 PROVE Data'
  <2>1. faults = 0 /\ Data
    BY <1>4 DEF ControlInv, PagesInv, DataInv, Numbers, GetData, NoFault, Fault
  <2>2. /\ at = "data" /\ at' = "crlf" /\ image' = image
        /\ UNCHANGED <<source, main, leaving, rd, ret, session, userCancel, job, ip, http, got, dev>>
    BY DEF GetData, Read, ReadAs, threads
  <2>3. PICK k \in 0..Head(stream).size :
          /\ k < Len(stream) /\ (k = Head(stream).size \/ k + 1 = Len(stream))
          /\ buf' = Units(SubSeq(stream, 2, k + 1)) /\ stream' = SubSeq(stream, (k + 1) + 1, Len(stream))
    BY <1>4 DEF GetData, Read, ReadAs, Fault, ControlInv, Numbers
  <2>4. This \in Nat  BY <2>1, ThisType DEF Data
  <2>5. ASSUME Held(This, image, buf, stream, at, More)
        PROVE  stream # << >> /\ Held(This, image', buf', stream', at', More)
    <3>1. /\ stream # << >> /\ Head(stream).size \in Nat /\ Len(stream) \in Nat
          /\ Head(stream).size + 1 < Len(stream)
          /\ Held(This, image, Units(SubSeq(stream, 2, Head(stream).size + 1)),
                  SubSeq(stream, (Head(stream).size + 1) + 1, Len(stream)), "crlf", More)
      BY <2>2, <2>4, <2>5, MoreIs, HeldData
    <3>2. k = Head(stream).size  BY <2>3, <3>1
    <3> QED BY <2>2, <2>3, <3>1, <3>2
  <2>6. CASE main = "parse" /\ Empty
    <3>1. PICK n \in OtherSizes : stream = <<[size |-> n]>>  BY <2>2, <2>6 DEF Empty
    <3>2. Len(stream) = 1 /\ k = 0 /\ \A i, j \in Nat : i > j => SubSeq(stream, i, j) = << >>
      <4> DEFINE x == [size |-> n]
      <4>1. stream = <<x>>  BY <3>1
      <4> HIDE DEF x
      <4>2. Len(stream) = 1 /\ \A i, j \in Nat : i > j => SubSeq(stream, i, j) = << >>  BY ONLY <4>1
      <4>3. Head(stream).size = n /\ n \in Nat  BY <4>1 DEF x, OtherSizes
      <4> QED BY <2>3, <4>2, <4>3
    <3>3. SubSeq(stream, 2, k + 1) = << >> /\ SubSeq(stream, (k + 1) + 1, Len(stream)) = << >>
      BY ONLY <3>2
    <3>4. Units(<< >>) = << >>  BY DEF Units
    <3>5. buf' = << >> /\ stream' = << >>  BY <2>3, <3>3, <3>4
    <3>6. Empty'  BY <2>2, <2>6, <3>5 DEF Empty
    <3> QED BY <2>1, <2>2, <2>6, <3>6, EmptyOn
  <2>7. CASE main = "parse" => ~Empty  BY <2>1, <2>2, <2>5, <2>7, ReadOn DEF Closing
  <2> QED BY <2>6, <2>7
<1> QED BY <1>1, <1>2, <1>3, <1>4 DEF PagesInv, DataInv

LEMMA GetCrlfPages == ControlInv /\ PagesInv /\ GetCrlf => PagesInv'
<1> SUFFICES ASSUME ControlInv, PagesInv, GetCrlf PROVE PagesInv'  OBVIOUS
<1>1. JobInv'  BY DEF PagesInv, JobInv, Feeder, GetCrlf, NoFault, Read, ReadAs, threads, Fault
<1>2. FlagInv'  BY DEF PagesInv, FlagInv, GetCrlf, Read, ReadAs, threads, Fault
<1>3. IdleInv'
  BY DEF ControlInv, PagesInv, IdleInv, Numbers, GetCrlf, NoFault, Read, ReadAs, threads, Fault
<1>4. ASSUME faults' = 0 PROVE Data'
  <2>1. faults = 0 /\ Data
    BY <1>4 DEF ControlInv, PagesInv, DataInv, Numbers, GetCrlf, NoFault, Fault
  <2>2. /\ at = "crlf" /\ at' = "convert" /\ image' = image /\ buf' = buf
        /\ UNCHANGED <<source, main, leaving, rd, ret, session, userCancel, job, ip, http, got, dev>>
        /\ stream' = SubSeq(stream, 1 + 1, Len(stream))
    BY <1>4 DEF GetCrlf, Read, ReadAs, Fault, threads, ControlInv, Numbers
  <2>3. Held(This, image, buf, stream, at, More) =>
          stream # << >> /\ Held(This, image', buf', stream', at', More)
    BY <2>2, MoreIs, HeldCrlf
  <2>4. CASE main = "parse" /\ Empty
    <3>1. stream = << >>  BY <2>2, <2>4 DEF Empty
    <3>2. stream' = << >>  BY ONLY <2>2, <3>1
    <3>3. Empty'  BY <2>2, <2>4, <3>2 DEF Empty
    <3> QED BY <2>1, <2>2, <2>4, <3>3, EmptyOn
  <2>5. CASE main = "parse" => ~Empty  BY <2>1, <2>2, <2>3, <2>5, ReadOn DEF Closing
  <2> QED BY <2>4, <2>5
<1> QED BY <1>1, <1>2, <1>3, <1>4 DEF PagesInv, DataInv

LEMMA ParseHeaderPages == ControlInv /\ PagesInv /\ ParseHeader => PagesInv'
<1> SUFFICES ASSUME ControlInv, PagesInv, ParseHeader PROVE PagesInv'  OBVIOUS
<1>1. main = "parse" /\ at = "convert" /\ ip /\ ~userCancel /\ job # 0 /\ http = "page"
  BY DEF ParseHeader, PagesInv, FlagInv
<1>2. ASSUME faults = 0, ~Empty
      PROVE  /\ Data /\ Sending(This, dev, stream, source)
             /\ Held(This, image, buf, stream, "convert", {"size", "data"})
  BY <1>1, <1>2 DEF PagesInv, DataInv, Data, ParseInv, More
<1>3. CASE /\ (buf = << >> /\ NoFault) \/ (buf # << >> /\ Fault)
         /\ EndStart("error") /\ UNCHANGED dev
  <2>1. faults' = 0 => faults = 0 /\ buf = << >>  BY <1>3 DEF NoFault, Fault, ControlInv, Numbers
  <2>2. faults' = 0 => Empty  BY <1>2, <2>1, HeldEnd
  <2>3. IdleInv' /\ DataInv'
    <3> SUFFICES ASSUME faults' = 0 PROVE IdleInv' /\ Data'  BY DEF IdleInv, DataInv
    <3>1. Data /\ Empty  BY <2>1, <2>2 DEF PagesInv, DataInv
    <3>2. /\ main' = "finally" /\ UNCHANGED <<leaving, got, dev>>  BY <1>3 DEF EndStart
    <3>3. GotInv' /\ StartInv' /\ ParseInv' /\ ReadInv'
      BY <3>1, <3>2 DEF Data, GotInv, StartInv, ParseInv, ReadInv, Starting
    <3>4. LeaveInv'  BY <1>1, <3>1, <3>2 DEF Data, LeaveInv
    <3>5. IdleInv'  BY <3>1, <3>2 DEF IdleInv, Empty
    <3> QED BY <3>3, <3>4, <3>5 DEF Data
  <2>4. main' = "finally" /\ job' = 0 /\ cancel' = cancel /\ userCancel' = userCancel /\ dev' = dev
    BY <1>3 DEF EndStart
  <2>5. JobInv' /\ FlagInv'  BY <1>1, <2>4 DEF PagesInv, JobInv, FlagInv, Feeder
  <2> QED BY <2>3, <2>5 DEF PagesInv
<1>4. ASSUME NEW k \in 1..Len(buf), Used(k),
             \/ main' = "wait" /\ rd' = "idle" /\ at' = "none"
             \/ Len(image') < Len(Image(1)) /\ at' = NextRead /\ UNCHANGED <<main, rd>>
      PROVE  PagesInv'
  <2>1. /\ image' = image \o SubSeq(buf, 1, k) /\ buf' = SubSeq(buf, k + 1, Len(buf))
        /\ UNCHANGED <<source, leaving, got, userCancel, job, ip, http, cancel, dev, stream, faults, wrecked>>
    BY <1>4 DEF Used, outside
  <2>2. JobInv' /\ FlagInv'  BY <1>1, <1>4, <2>1 DEF PagesInv, JobInv, FlagInv, Feeder
  <2>3. IdleInv'  BY <2>1 DEF PagesInv, IdleInv
  <2>4. ASSUME faults' = 0 PROVE Data'
    <3>1. faults = 0 /\ ~Empty
      <4>1. buf # << >>
        <5> SUFFICES ASSUME buf = << >> PROVE FALSE  OBVIOUS
        <5>1. Len(buf) = 0  OBVIOUS
        <5> QED BY <5>1
      <4> QED BY <2>1, <2>4, <4>1 DEF Empty
    <3>2. GotInv' /\ LeaveInv'  BY <1>1, <1>2, <2>1, <3>1 DEF Data, GotInv, LeaveInv
    <3>3. StartInv'  BY <1>1, <1>4 DEF StartInv, Starting
    <3>4. This' = This /\ Sending(This, dev', stream', source')  BY <1>2, <2>1, <3>1 DEF This
    <3>5. {"none", "convert"} \cap {"size", "data"} = {}  OBVIOUS
    <3>6. /\ Held(This, image', buf', stream', "none", {"size", "data"})
          /\ buf' # << >> => Held(This, image', buf', stream', "convert", {"size", "data"})
          /\ buf' = << >> /\ Len(image') < Len(Image(1))
             => Held(This, image', buf', stream', "size", {"size", "data"})
      <4>1. Held(This, image, buf, stream, "convert", {"size", "data"})  BY <1>2, <3>1
      <4> HIDE <2>4
      <4>2. stream' = stream  BY <2>1
      <4> QED BY ONLY <2>1, <3>5, <4>1, <4>2, <1>4, HeldUsed
    <3>7. CASE main' = "wait" /\ rd' = "idle" /\ at' = "none"
      <4>1. {"none", "size", "convert"} \cap {"data"} = {} /\ More' = {"data"}  BY <3>7 DEF More
      <4>2. Held(This, image', buf', stream', "none", {"data"})  BY <3>6, <4>1, HeldNext
      <4>3. InPage'  BY <1>1, <2>1, <3>4, <3>7, <4>1, <4>2 DEF InPage, Scanning, Closing
      <4> QED BY <3>2, <3>3, <3>7, <4>3 DEF Data, ParseInv, ReadInv
    <3>8. CASE Len(image') < Len(Image(1)) /\ at' = NextRead /\ UNCHANGED <<main, rd>>
      <4>1. at' # "none" /\ Held(This, image', buf', stream', at', {"size", "data"})
        BY <3>6, <3>8 DEF NextRead
      <4>2. More' = {"size", "data"}  BY <1>1, <3>8 DEF More
      <4> QED BY <1>1, <3>2, <3>3, <3>4, <3>8, <4>1, <4>2 DEF Data, ParseInv, ReadInv
    <3> QED BY <1>4, <3>7, <3>8
  <2> QED BY <2>2, <2>3, <2>4 DEF PagesInv, DataInv, Data
<1> QED BY <1>3, <1>4 DEF ParseHeader

LEMMA ConvertPages == ControlInv /\ PagesInv /\ Convert => PagesInv'
<1> SUFFICES ASSUME ControlInv, PagesInv, Convert PROVE PagesInv'  OBVIOUS
<1>1. JobInv'
  BY DEF PagesInv, JobInv, Feeder, Convert, Lost, Used, outside, NoFault, Fault
<1>2. FlagInv'
  BY DEF ControlInv, PagesInv, FlagInv, Flags, PlaceInv, Starting, Convert, Used
<1>3. IdleInv'
  BY DEF ControlInv, PagesInv, IdleInv, Numbers, Convert, Lost, Used, outside, NoFault, Fault
<1>4. ASSUME faults' = 0 PROVE Data'
  <2>1. faults = 0 /\ Data
    BY <1>4 DEF ControlInv, PagesInv, DataInv, Numbers, Convert, Lost, Used, outside, NoFault, Fault
  <2>2. GotInv'  BY <2>1 DEF Data, GotInv, Convert, Used
  <2>3. StartInv'
    BY <2>1 DEF StartInv, Data, This, Before, Convert, Lost, Used, outside,
      Fault
  <2>4. ParseInv'  BY <2>1 DEF ParseInv, Convert, Used
  <2>5. ReadInv'
    <3> SUFFICES ASSUME main' \in {"wait", "active"} PROVE InPage'  BY DEF ReadInv
    <3>1. /\ main # "parse" /\ main' = main /\ at = "convert" /\ source' = source /\ dev' = dev
          /\ stream' = stream /\ This' = This /\ job' = job /\ faults' = faults
      BY <1>4, <2>1 DEF Convert, Used, Fault, outside, This, Numbers
    <3>2. rd = "reading" /\ {"none", "convert"} \cap More = {} /\ More' = More
      BY <3>1, MoreIs DEF ControlInv, PlaceInv, More
    <3>3. /\ job # 0 /\ Sending(This, dev, stream, source) /\ ip /\ ~userCancel /\ http = "page"
          /\ Held(This, image, buf, stream, "convert", More)
      BY <2>1, <3>1, <3>2 DEF Data, ReadInv, NoPage, InPage, Closing
    <3>4. ASSUME NEW k \in 1..Len(buf), Used(k), at' = "none" /\ rd' = "back" /\ ret' = "good"
          PROVE  InPage'
      <4>1. /\ image' = image \o SubSeq(buf, 1, k) /\ buf' = SubSeq(buf, k + 1, Len(buf))
            /\ UNCHANGED <<userCancel, ip, http>>
        BY <3>4 DEF Used
      <4>2. Held(This, image', buf', stream, "none", More)
        BY ONLY <3>2, <3>3, <3>4, <4>1, HeldUsed
      <4> QED BY <3>1, <3>2, <3>3, <3>4, <4>1, <4>2 DEF InPage, Closing
    <3>5. CASE buf = << >> /\ ret' = "eof" /\ at' = "ip" /\ UNCHANGED <<rd, image>>
      <4>1. AllTaken(This, image, stream)  BY <3>3, <3>5, HeldEnd
      <4> QED BY <3>1, <3>2, <3>3, <3>5, <4>1 DEF InPage, Closing
    <3> QED BY <3>1, <3>4, <3>5, <2>1, <1>4 DEF Convert, Fault, NoFault
  <2>6. LeaveInv'
    BY <2>1 DEF LeaveInv, Data, Convert, Lost, Used, outside, Fault
  <2> QED BY <2>2, <2>3, <2>4, <2>5, <2>6 DEF Data
<1> QED BY <1>1, <1>2, <1>3, <1>4 DEF PagesInv, DataInv

LEMMA CloseIpPages == ControlInv /\ PagesInv /\ CloseIp => PagesInv'
<1> SUFFICES ASSUME ControlInv, PagesInv, CloseIp PROVE PagesInv'  OBVIOUS
<1> USE DEF CloseIp, ControlInv, PlaceInv, Closing, Ending, outside, Data
<1>1. JobInv'  BY DEF PagesInv, JobInv, Feeder
<1>2. FlagInv'  BY DEF PagesInv, FlagInv, Starting, Flags
<1>3. IdleInv'  BY DEF PagesInv, IdleInv, Numbers, FlagInv
<1>4. ASSUME faults' = 0 PROVE Data'
  <2>1. faults = 0 /\ Data  BY <1>4 DEF PagesInv, DataInv, Numbers
  <2>2. GotInv'  BY <2>1 DEF GotInv
  <2>3. StartInv'  BY <2>1 DEF StartInv, This, Before, Starting
  <2>4. ParseInv'  BY <2>1 DEF ParseInv
  <2>5. ReadInv'  BY <2>1 DEF ReadInv, NoPage, InPage, Scanning, This
  <2>6. LeaveInv'  BY <2>1 DEF LeaveInv
  <2> QED BY <2>2, <2>3, <2>4, <2>5, <2>6
<1> QED BY <1>1, <1>2, <1>3, <1>4 DEF PagesInv, DataInv

LEMMA EndPagePages == ControlInv /\ PagesInv /\ EndPage => PagesInv'
<1> SUFFICES ASSUME ControlInv, PagesInv, EndPage PROVE PagesInv'  OBVIOUS
<1> USE DEF EndPage, ControlInv, PlaceInv, Closing, Ending, outside, Data
<1>1. JobInv'  BY DEF PagesInv, JobInv, Feeder
<1>2. FlagInv'  BY DEF PagesInv, FlagInv, Starting, Flags
<1>3. IdleInv'  BY DEF PagesInv, IdleInv, Numbers, FlagInv
<1>4. ASSUME faults' = 0 PROVE Data'
  <2>1. faults = 0 /\ Data  BY <1>4 DEF PagesInv, DataInv, Numbers
  <2>2. GotInv'  BY <2>1 DEF GotInv
  <2>3. StartInv'  BY <2>1 DEF StartInv, This, Before, Starting
  <2>4. ParseInv'  BY <2>1 DEF ParseInv
  <2>5. ReadInv'  BY <2>1 DEF ReadInv, NoPage, InPage, Scanning, This
  <2>6. LeaveInv'  BY <2>1 DEF LeaveInv
  <2> QED BY <2>2, <2>3, <2>4, <2>5, <2>6
<1> QED BY <1>1, <1>2, <1>3, <1>4 DEF PagesInv, DataInv

LEMMA ClosePagePages == ControlInv /\ PagesInv /\ ClosePage => PagesInv'
<1> SUFFICES ASSUME ControlInv, PagesInv, ClosePage PROVE PagesInv'  OBVIOUS
<1> USE DEF ClosePage, ControlInv, PlaceInv, Closing, Ending, CloseHttp, outside, Data
<1>1. JobInv'  BY DEF PagesInv, JobInv, Feeder
<1>2. FlagInv'  BY DEF PagesInv, FlagInv, Starting, Flags
<1>3. IdleInv'  BY DEF PagesInv, IdleInv, Numbers, FlagInv
<1>4. ASSUME faults' = 0 PROVE Data'
  <2>1. faults = 0 /\ Data  BY <1>4 DEF PagesInv, DataInv, Numbers
  <2>2. GotInv'  BY <2>1 DEF GotInv
  <2>3. StartInv'  BY <2>1 DEF StartInv, This, Before, Starting
  <2>4. ParseInv'  BY <2>1 DEF ParseInv
  <2>5. ReadInv'  BY <2>1 DEF ReadInv, NoPage, InPage, Scanning, This
  <2>6. LeaveInv'  BY <2>1 DEF LeaveInv
  <2> QED BY <2>2, <2>3, <2>4, <2>5, <2>6
<1> QED BY <1>1, <1>2, <1>3, <1>4 DEF PagesInv, DataInv

LEMMA UseClosedPages == ControlInv /\ PagesInv /\ UseClosed => PagesInv'
<1> SUFFICES ASSUME ControlInv, PagesInv, UseClosed PROVE PagesInv'  OBVIOUS
<1> USE DEF UseClosed, ControlInv, Lost, NoFault, Wreck, Data
<1>1. JobInv'  BY DEF PagesInv, JobInv
<1>2. FlagInv'  BY DEF FlagInv
<1>3. IdleInv'  BY DEF IdleInv, Numbers
<1>4. ASSUME faults' = 0 PROVE Data'
  <2>1. faults = 0 /\ Data  BY <1>4 DEF PagesInv, DataInv, Numbers
  <2>2. GotInv'  BY <2>1 DEF GotInv
  <2>3. StartInv'  BY <2>1 DEF StartInv, This, Before, Starting
  <2>4. ParseInv'  BY <2>1 DEF ParseInv
  <2>5. ReadInv'  BY <2>1 DEF ReadInv
  <2>6. LeaveInv'  BY <2>1 DEF LeaveInv
  <2> QED BY <2>2, <2>3, <2>4, <2>5, <2>6
<1> QED BY <1>1, <1>2, <1>3, <1>4 DEF PagesInv, DataInv

LEMMA ReadScanPages == ControlInv /\ PagesInv /\ ReadScan => PagesInv'
<1> SUFFICES ASSUME ControlInv, PagesInv, ReadScan PROVE PagesInv'  OBVIOUS
<1> USE DEF ReadScan, ControlInv, GIL, Thread, outside, Data
<1>1. JobInv'  BY DEF PagesInv, JobInv, Feeder
<1>2. FlagInv'  BY DEF PagesInv, FlagInv
<1>3. IdleInv'  BY DEF PagesInv, IdleInv, Numbers
<1>4. ASSUME faults' = 0 PROVE Data'
  <2>1. faults = 0 /\ Data  BY <1>4 DEF PagesInv, DataInv, Numbers
  <2>2. GotInv'  BY <2>1 DEF GotInv
  <2>3. StartInv'  BY <2>1 DEF StartInv, This, Before
  <2>4. ParseInv'  BY <2>1 DEF ParseInv, Empty, More, This, Before
  <2>5. ReadInv'  BY <2>1 DEF ReadInv, NoPage, InPage, More, Scanning, This, Before, PlaceInv
  <2>6. LeaveInv'  BY <2>1 DEF LeaveInv
  <2> QED BY <2>2, <2>3, <2>4, <2>5, <2>6
<1> QED BY <1>1, <1>2, <1>3, <1>4 DEF PagesInv, DataInv

LEMMA EnterReadPages == ControlInv /\ PagesInv /\ EnterRead => PagesInv'
<1> SUFFICES ASSUME ControlInv, PagesInv, EnterRead PROVE PagesInv'  OBVIOUS
<1> USE DEF EnterRead, ControlInv, NoFault, Wreck, Thread, outside, Data
<1>1. JobInv'  BY DEF PagesInv, JobInv, Feeder
<1>2. FlagInv'  BY DEF PagesInv, FlagInv
<1>3. IdleInv'  BY DEF PagesInv, IdleInv, Numbers
<1>4. ASSUME faults' = 0 PROVE Data'
  <2>1. faults = 0 /\ Data  BY <1>4 DEF PagesInv, DataInv, Numbers
  <2>2. GotInv'  BY <2>1 DEF GotInv
  <2>3. StartInv'  BY <2>1 DEF StartInv, This, Before, Starting
  <2>4. ParseInv'  BY <2>1 DEF ParseInv, Empty, More, This, Before
  <2>5. ReadInv'  BY <2>1 DEF ReadInv, NoPage, InPage, More, Scanning, This, Before
  <2>6. LeaveInv'  BY <2>1 DEF LeaveInv
  <2> QED BY <2>2, <2>3, <2>4, <2>5, <2>6
<1> QED BY <1>1, <1>2, <1>3, <1>4 DEF PagesInv, DataInv

LEMMA GetIpDataPages == ControlInv /\ PagesInv /\ GetIpData => PagesInv'
<1> SUFFICES ASSUME ControlInv, PagesInv, GetIpData PROVE PagesInv'  OBVIOUS
<1>1. JobInv'
  BY DEF PagesInv, JobInv, Feeder, GetIpData, NoFault, Wreck, Thread, outside
<1>2. FlagInv'
  BY DEF ControlInv, PagesInv, FlagInv, Flags, PlaceInv, Starting, GetIpData, Wreck, Thread
<1>3. IdleInv'
  BY DEF PagesInv, IdleInv, Numbers, GetIpData, NoFault, Wreck, Thread, outside
<1>4. ASSUME faults' = 0 PROVE Data'
  <2>1. faults = 0 /\ Data
    BY <1>4 DEF PagesInv, DataInv, Numbers, GetIpData, NoFault, Wreck,
      Thread, outside
  <2>2. GotInv'  BY <2>1 DEF Data, GotInv, GetIpData, Wreck, Thread
  <2>3. StartInv'
    BY <2>1 DEF StartInv, Data, This, Before, Starting, GetIpData, Wreck,
      Thread, outside
  <2>4. ParseInv'  BY <2>1 DEF ParseInv, PlaceInv, ControlInv, GetIpData, Wreck, Thread
  <2>5. ReadInv'
    <3> SUFFICES ASSUME main' \in {"wait", "active"} PROVE NoPage' \/ InPage'  BY DEF ReadInv
    <3>1. /\ main' = main /\ rd = "entered" /\ source' = source /\ dev' = dev /\ stream' = stream
          /\ image' = image /\ buf' = buf /\ This' = This /\ job' = job /\ userCancel' = userCancel
      BY DEF GetIpData, Thread, Wreck, outside, This
    <3>2. at = "none"  BY <3>1 DEF ControlInv, PlaceInv
    <3>3. CASE ~ip /\ Thread("reading") /\ ret' = "error" /\ at' = "page"
      <4>1. NoPage  BY <2>1, <3>1, <3>3 DEF Data, ReadInv, InPage
      <4> QED BY <3>1, <3>3, <4>1 DEF Thread, NoPage
    <3>4. CASE ip /\ Thread("reading") /\ at' = IF buf = <<>> THEN "size" ELSE "convert"
      <4>1. /\ job # 0 /\ Sending(This, dev, stream, source) /\ ~userCancel /\ http = "page"
            /\ Held(This, image, buf, stream, "none", More) /\ main # "parse"
        BY <2>1, <3>1, <3>2, <3>4 DEF Data, ReadInv, NoPage, InPage
      <4>2. More = {"data"} /\ More' = {"data"} /\ {"none", "size", "convert"} \cap {"data"} = {}
        BY <3>1, <4>1 DEF More
      <4>3. Held(This, image, buf, stream, at', {"data"})  BY <3>4, <4>1, <4>2, HeldNext
      <4> QED BY <3>1, <3>4, <4>1, <4>2, <3>2, <4>3 DEF InPage, Thread, Scanning, Closing
    <3> QED BY <3>3, <3>4 DEF GetIpData, Wreck
  <2>6. LeaveInv'
    BY <2>1 DEF LeaveInv, Data, GetIpData, Wreck, Thread, outside
  <2> QED BY <2>2, <2>3, <2>4, <2>5, <2>6 DEF Data
<1> QED BY <1>1, <1>2, <1>3, <1>4 DEF PagesInv, DataInv

LEMMA ReturnReadPages == ControlInv /\ PagesInv /\ ReturnRead => PagesInv'
<1> SUFFICES ASSUME ControlInv, PagesInv, ReturnRead PROVE PagesInv'  OBVIOUS
<1> USE DEF ReturnRead, ControlInv, GIL, Thread, outside, Data
<1>1. JobInv'  BY DEF PagesInv, JobInv, Feeder
<1>2. FlagInv'  BY DEF PagesInv, FlagInv
<1>3. IdleInv'  BY DEF PagesInv, IdleInv, Numbers
<1>4. ASSUME faults' = 0 PROVE Data'
  <2>1. faults = 0 /\ Data  BY <1>4 DEF PagesInv, DataInv, Numbers
  <2>2. GotInv'  BY <2>1 DEF GotInv
  <2>3. StartInv'  BY <2>1 DEF StartInv, This, Before
  <2>4. ParseInv'  BY <2>1 DEF ParseInv, Empty, More, This, Before
  <2>5. ReadInv'  BY <2>1 DEF ReadInv, NoPage, InPage, More, Scanning, This, Before
  <2>6. LeaveInv'  BY <2>1 DEF LeaveInv
  <2> QED BY <2>2, <2>3, <2>4, <2>5, <2>6
<1> QED BY <1>1, <1>2, <1>3, <1>4 DEF PagesInv, DataInv

LEMMA EndThreadPages == ControlInv /\ PagesInv /\ EndThread => PagesInv'
<1> SUFFICES ASSUME ControlInv, PagesInv, EndThread PROVE PagesInv'  OBVIOUS
<1> USE DEF EndThread, ControlInv, GIL, Thread, outside, Data
<1>1. JobInv'  BY DEF PagesInv, JobInv, Feeder
<1>2. FlagInv'  BY DEF PagesInv, FlagInv
<1>3. IdleInv'  BY DEF PagesInv, IdleInv, Numbers
<1>4. ASSUME faults' = 0 PROVE Data'
  <2>1. faults = 0 /\ Data  BY <1>4 DEF PagesInv, DataInv, Numbers
  <2>2. GotInv'  BY <2>1 DEF GotInv
  <2>3. StartInv'  BY <2>1 DEF StartInv, This, Before
  <2>4. ParseInv'  BY <2>1 DEF ParseInv, Empty, More, This, Before
  <2>5. ReadInv'  BY <2>1 DEF ReadInv, NoPage, InPage, Scanning
  <2>6. LeaveInv'  BY <2>1 DEF LeaveInv
  <2> QED BY <2>2, <2>3, <2>4, <2>5, <2>6
<1> QED BY <1>1, <1>2, <1>3, <1>4 DEF PagesInv, DataInv

LEMMA CancelFlagPages == ControlInv /\ PagesInv /\ CancelFlag => PagesInv'
<1> SUFFICES ASSUME ControlInv, PagesInv, CancelFlag PROVE PagesInv'  OBVIOUS
<1> USE DEF CancelFlag, ControlInv, Canceling, Data
<1>1. JobInv'  BY DEF PagesInv, JobInv, Feeder
<1>2. FlagInv'  BY DEF PagesInv, FlagInv, Flags, PlaceInv, Starting
<1>3. IdleInv'  BY DEF PagesInv, IdleInv, Numbers
<1>4. ASSUME faults' = 0 PROVE Data'
  <2>1. faults = 0 /\ Data  BY <1>4 DEF PagesInv, DataInv, Numbers
  <2>2. GotInv'  BY <2>1 DEF GotInv
  <2>3. StartInv'  BY <2>1 DEF StartInv, This, Before
  <2>4. ParseInv'  BY <2>1 DEF ParseInv, Empty, More, This, Before
  <2>5. ReadInv'  BY <2>1 DEF ReadInv, NoPage, InPage, Scanning, PlaceInv
  <2>6. LeaveInv'  BY <2>1 DEF LeaveInv
  <2> QED BY <2>2, <2>3, <2>4, <2>5, <2>6
<1> QED BY <1>1, <1>2, <1>3, <1>4 DEF PagesInv, DataInv

LEMMA CancelIpPages == ControlInv /\ PagesInv /\ CancelIp => PagesInv'
<1> SUFFICES ASSUME ControlInv, PagesInv, CancelIp PROVE PagesInv'  OBVIOUS
<1> USE DEF CancelIp, ControlInv, PlaceInv, Closing, Canceling, Data
<1>1. JobInv'  BY DEF PagesInv, JobInv, Feeder
<1>2. FlagInv'  BY DEF PagesInv, FlagInv, Starting, Flags
<1>3. IdleInv'  BY DEF PagesInv, IdleInv, Numbers, FlagInv
<1>4. ASSUME faults' = 0 PROVE Data'
  <2>1. faults = 0 /\ Data  BY <1>4 DEF PagesInv, DataInv, Numbers
  <2>2. GotInv'  BY <2>1 DEF GotInv
  <2>3. StartInv'  BY <2>1 DEF StartInv, This, Before, Starting
  <2>4. ParseInv'  BY <2>1 DEF ParseInv
  <2>5. ReadInv'  BY <2>1 DEF ReadInv, NoPage, InPage, Scanning, This
  <2>6. LeaveInv'  BY <2>1 DEF LeaveInv
  <2> QED BY <2>2, <2>3, <2>4, <2>5, <2>6
<1> QED BY <1>1, <1>2, <1>3, <1>4 DEF PagesInv, DataInv

LEMMA CancelPagePages == ControlInv /\ PagesInv /\ CancelPage => PagesInv'
<1> SUFFICES ASSUME ControlInv, PagesInv, CancelPage PROVE PagesInv'  OBVIOUS
<1> USE DEF CancelPage, ControlInv, PlaceInv, Closing, CancelJob, EndCancel, Canceling, Data
<1>1. JobInv'  BY DEF PagesInv, JobInv, Feeder
<1>2. FlagInv'  BY DEF PagesInv, FlagInv, Starting, Flags
<1>3. IdleInv'  BY DEF PagesInv, IdleInv, Numbers, FlagInv
<1>4. ASSUME faults' = 0 PROVE Data'
  <2>1. faults = 0 /\ Data  BY <1>4 DEF PagesInv, DataInv, Numbers
  <2>2. GotInv'  BY <2>1 DEF GotInv
  <2>3. StartInv'  BY <2>1 DEF StartInv, This, Before, Starting
  <2>4. ParseInv'  BY <2>1 DEF ParseInv
  <2>5. ReadInv'  BY <2>1 DEF ReadInv, NoPage, InPage, Scanning, This
  <2>6. LeaveInv'  BY <2>1 DEF LeaveInv
  <2> QED BY <2>2, <2>3, <2>4, <2>5, <2>6
<1> QED BY <1>1, <1>2, <1>3, <1>4 DEF PagesInv, DataInv

LEMMA CancelClosePages == ControlInv /\ PagesInv /\ CancelClose => PagesInv'
<1> SUFFICES ASSUME ControlInv, PagesInv, CancelClose PROVE PagesInv'  OBVIOUS
<1> USE DEF CancelClose, CancelJob, ControlInv, CloseHttp, EndCancel, Canceling, Data
<1>1. JobInv'  BY DEF PagesInv, JobInv, Feeder
<1>2. FlagInv'  BY DEF PagesInv, FlagInv
<1>3. IdleInv'  BY DEF PagesInv, IdleInv, Numbers, FlagInv
<1>4. ASSUME faults' = 0 PROVE Data'
  <2>1. faults = 0 /\ Data  BY <1>4 DEF PagesInv, DataInv, Numbers
  <2>2. GotInv'  BY <2>1 DEF GotInv
  <2>3. StartInv'  BY <2>1 DEF StartInv, This, Before, Starting, PlaceInv
  <2>4. ParseInv'  BY <2>1 DEF ParseInv, Empty, More, This, Before
  <2>5. ReadInv'  BY <2>1 DEF ReadInv, NoPage, InPage, More, Scanning, This, Before
  <2>6. LeaveInv'  BY <2>1 DEF LeaveInv
  <2> QED BY <2>2, <2>3, <2>4, <2>5, <2>6
<1> QED BY <1>1, <1>2, <1>3, <1>4 DEF PagesInv, DataInv

LEMMA CancelOpenPages == ControlInv /\ PagesInv /\ CancelOpen => PagesInv'
<1> SUFFICES ASSUME ControlInv, PagesInv, CancelOpen PROVE PagesInv'  OBVIOUS
<1> USE DEF CancelOpen, ControlInv, NoFault, Canceling, Fault, EndCancel, Data
<1>1. JobInv'  BY DEF PagesInv, JobInv, Feeder
<1>2. FlagInv'  BY DEF PagesInv, FlagInv
<1>3. IdleInv'  BY DEF PagesInv, IdleInv, Numbers
<1>4. ASSUME faults' = 0 PROVE Data'
  <2>1. faults = 0 /\ Data  BY <1>4 DEF PagesInv, DataInv, Numbers
  <2>2. GotInv'  BY <2>1 DEF GotInv
  <2>3. StartInv'  BY <2>1 DEF StartInv, This, Before, Starting, PlaceInv
  <2>4. ParseInv'  BY <2>1 DEF ParseInv, Empty, More, This, Before
  <2>5. ReadInv'  BY <2>1 DEF ReadInv, NoPage, InPage, Scanning, PlaceInv
  <2>6. LeaveInv'  BY <2>1 DEF LeaveInv
  <2> QED BY <2>2, <2>3, <2>4, <2>5, <2>6
<1> QED BY <1>1, <1>2, <1>3, <1>4 DEF PagesInv, DataInv

LEMMA CancelRequestPages == ControlInv /\ PagesInv /\ CancelRequest => PagesInv'
<1> SUFFICES ASSUME ControlInv, PagesInv, CancelRequest PROVE PagesInv'  OBVIOUS
<1> USE DEF CancelRequest, ControlInv, DevInv, Devices, CloseHttp, EndCancel, Canceling,
  NoFault, Fault, Data
<1>1. JobInv'  BY DEF PagesInv, JobInv, Feeder
<1>2. FlagInv'  BY DEF PagesInv, FlagInv
<1>3. IdleInv'  BY DEF PagesInv, IdleInv, Numbers, Live, Canceled, JobInv
<1>4. ASSUME faults' = 0 PROVE Data'
  <2>1. faults = 0 /\ Data  BY <1>4 DEF PagesInv, DataInv, Numbers
  <2>2. GotInv'  BY <2>1 DEF GotInv
  <2>3. StartInv'  BY <2>1 DEF StartInv, This, Before, Starting, PlaceInv
  <2>4. ParseInv'  BY <2>1 DEF ParseInv, PlaceInv
  <2>5. ReadInv'  BY <2>1 DEF ReadInv, NoPage, InPage, Scanning
  <2>6. LeaveInv'  BY <2>1 DEF LeaveInv, Counted, Sending, AllKept, Live, Canceled
  <2> QED BY <2>2, <2>3, <2>4, <2>5, <2>6
<1> QED BY <1>1, <1>2, <1>3, <1>4 DEF PagesInv, DataInv

LEMMA CancelLostPages == ControlInv /\ PagesInv /\ CancelLost => PagesInv'
<1> SUFFICES ASSUME ControlInv, PagesInv, CancelLost PROVE PagesInv'  OBVIOUS
<1> USE DEF CancelLost, ControlInv, NoFault, Wreck, Data
<1>1. JobInv'  BY DEF PagesInv, JobInv
<1>2. FlagInv'  BY DEF FlagInv
<1>3. IdleInv'  BY DEF IdleInv, Numbers
<1>4. ASSUME faults' = 0 PROVE Data'
  <2>1. faults = 0 /\ Data  BY <1>4 DEF PagesInv, DataInv, Numbers
  <2>2. GotInv'  BY <2>1 DEF GotInv
  <2>3. StartInv'  BY <2>1 DEF StartInv, This, Before, Starting
  <2>4. ParseInv'  BY <2>1 DEF ParseInv
  <2>5. ReadInv'  BY <2>1 DEF ReadInv
  <2>6. LeaveInv'  BY <2>1 DEF LeaveInv
  <2> QED BY <2>2, <2>3, <2>4, <2>5, <2>6
<1> QED BY <1>1, <1>2, <1>3, <1>4 DEF PagesInv, DataInv

LEMMA WaitForScanActivePages == ControlInv /\ PagesInv /\ WaitForScanActive => PagesInv'
<1> SUFFICES ASSUME ControlInv, PagesInv, WaitForScanActive PROVE PagesInv'  OBVIOUS
<1> USE DEF WaitForScanActive, ControlInv, Main, GIL, outside, Data
<1>1. JobInv'  BY DEF PagesInv, JobInv
<1>2. FlagInv'  BY DEF FlagInv
<1>3. IdleInv'  BY DEF PagesInv, IdleInv, Numbers
<1>4. ASSUME faults' = 0 PROVE Data'
  <2>1. faults = 0 /\ Data  BY <1>4 DEF PagesInv, DataInv, Numbers
  <2>2. GotInv'  BY <2>1 DEF GotInv
  <2>3. StartInv'  BY <2>1 DEF StartInv, This, Before, Starting
  <2>4. ParseInv'  BY <2>1 DEF ParseInv
  <2>5. ReadInv'  BY <2>1 DEF ReadInv, NoPage, InPage, More, Scanning, This, Before
  <2>6. LeaveInv'  BY <2>1 DEF LeaveInv
  <2> QED BY <2>2, <2>3, <2>4, <2>5, <2>6
<1> QED BY <1>1, <1>2, <1>3, <1>4 DEF PagesInv, DataInv

LEMMA SeeErrorPages == ControlInv /\ PagesInv /\ SeeError => PagesInv'
<1> SUFFICES ASSUME ControlInv, PagesInv, SeeError PROVE PagesInv'  OBVIOUS
<1> USE DEF SeeError, ControlInv, Main, GIL, outside, Data
<1>1. JobInv'  BY DEF PagesInv, JobInv
<1>2. FlagInv'  BY DEF FlagInv
<1>3. IdleInv'  BY DEF PagesInv, IdleInv, Numbers
<1>4. ASSUME faults' = 0 PROVE Data'
  <2>1. faults = 0 /\ Data  BY <1>4 DEF PagesInv, DataInv, Numbers
  <2>2. GotInv'  BY <2>1 DEF GotInv
  <2>3. StartInv'  BY <2>1 DEF StartInv, This, Before, Starting
  <2>4. ParseInv'  BY <2>1 DEF ParseInv
  <2>5. ReadInv'  BY <2>1 DEF ReadInv
  <2>6. LeaveInv'  BY <2>1 DEF LeaveInv
  <2> QED BY <2>2, <2>3, <2>4, <2>5, <2>6
<1> QED BY <1>1, <1>2, <1>3, <1>4 DEF PagesInv, DataInv

LEMMA KeepPagePages == ControlInv /\ PagesInv /\ KeepPage => PagesInv'
<1> SUFFICES ASSUME ControlInv, PagesInv, KeepPage PROVE PagesInv'  OBVIOUS
<1>1. /\ main = "active" /\ rd = "ended" /\ image # << >> /\ got' = Append(got, image)
      /\ UNCHANGED <<source, userCancel, job, cancel, dev, stream, faults, wrecked>>
      /\ \/ Feeder /\ main' = "loop" /\ leaving' = leaving
         \/ ~Feeder /\ main' = "finally" /\ leaving' = "close"
  BY DEF KeepPage, Main, outside
<1>2. JobInv' /\ FlagInv'  BY <1>1 DEF PagesInv, JobInv, FlagInv, Feeder
<1>3. IdleInv'  BY <1>1 DEF PagesInv, IdleInv
<1>4. ASSUME faults' = 0 PROVE Data'
  <2>1. Data  BY <1>1, <1>4 DEF PagesInv, DataInv, Data
  <2>2. job # 0 /\ Sending(This, dev, stream, source) /\ AllTaken(This, image, stream)
    BY <1>1, <2>1 DEF Data, ReadInv, NoPage, InPage, Scanning
  <2>3. image = Image(This) /\ stream = << >> /\ Counted(This, dev)  BY <2>2 DEF AllTaken, Sending
  <2>4. GotInv' /\ Len(got') = This
    <3> DEFINE Q == Seq(Pixels)
    <3>1. got \in Seq(Q) /\ \A i \in DOMAIN got : got[i] = Image(i)  BY <2>1 DEF Data, GotInv
    <3>2. image \in Q  BY <2>1, <2>3, ThisType, PageIs DEF Data
    <3> HIDE DEF Q
    <3>3. got' \in Seq(Q) /\ Len(got') = Len(got) + 1  BY <1>1, <3>1, <3>2
    <3>4. ASSUME NEW i \in DOMAIN got' PROVE got'[i] = Image(i)
      <4>1. i \in 1..(Len(got) + 1)  BY <3>3, <3>4
      <4>2. i = Len(got) + 1 => got'[i] = image  BY <1>1, <3>1, <3>2
      <4>3. i # Len(got) + 1 => i \in DOMAIN got /\ got'[i] = got[i]  BY <1>1, <3>1, <3>2, <4>1
      <4> QED BY <2>3, <3>1, <4>2, <4>3 DEF This
    <3> QED BY <3>3, <3>4 DEF GotInv, This, Q
  <2>5. StartInv'  BY <1>1, <2>2, <2>3, <2>4 DEF StartInv, Starting
  <2>6. ParseInv' /\ ReadInv'  BY <1>1 DEF ParseInv, ReadInv
  <2>7. LeaveInv'
    <3>1. CASE Feeder  BY <1>1, <2>1, <3>1 DEF Data, LeaveInv
    <3>2. CASE ~Feeder
      <4>1. source = "platen"  BY <3>2 DEF Feeder
      <4>2. dev.state # "canceled" => This = dev.pages
        BY <2>2, <4>1 DEF Sending, Counted, ControlInv, DevInv, Devices
      <4> QED BY <1>1, <2>4, <3>2, <4>1, <4>2 DEF LeaveInv, AllKept
    <3> QED BY <3>1, <3>2
  <2> QED BY <2>4, <2>5, <2>6, <2>7 DEF Data
<1> QED BY <1>2, <1>3, <1>4 DEF PagesInv, DataInv, Data

LEMMA NoDataPages == ControlInv /\ PagesInv /\ NoData => PagesInv'
<1> SUFFICES ASSUME ControlInv, PagesInv, NoData PROVE PagesInv'  OBVIOUS
<1> USE DEF NoData, ControlInv, Main, GIL, outside, Data
<1>1. JobInv'  BY DEF PagesInv, JobInv
<1>2. FlagInv'  BY DEF FlagInv
<1>3. IdleInv'  BY DEF PagesInv, IdleInv, Numbers
<1>4. ASSUME faults' = 0 PROVE Data'
  <2>1. faults = 0 /\ Data  BY <1>4 DEF PagesInv, DataInv, Numbers
  <2>2. GotInv'  BY <2>1 DEF GotInv
  <2>3. StartInv'  BY <2>1 DEF StartInv, This, Before, Starting
  <2>4. ParseInv'  BY <2>1 DEF ParseInv
  <2>5. ReadInv'  BY <2>1 DEF ReadInv
  <2>6. LeaveInv'  BY <2>1 DEF LeaveInv
  <2> QED BY <2>2, <2>3, <2>4, <2>5, <2>6
<1> QED BY <1>1, <1>2, <1>3, <1>4 DEF PagesInv, DataInv

LEMMA FinallyPages == ControlInv /\ PagesInv /\ Finally => PagesInv'
<1> SUFFICES ASSUME ControlInv, PagesInv, Finally PROVE PagesInv'  OBVIOUS
<1> USE DEF Finally, ControlInv, Main, GIL, outside, Data
<1>1. JobInv'  BY DEF PagesInv, JobInv
<1>2. FlagInv'  BY DEF FlagInv
<1>3. IdleInv'  BY DEF PagesInv, IdleInv, Numbers
<1>4. ASSUME faults' = 0 PROVE Data'
  <2>1. faults = 0 /\ Data  BY <1>4 DEF PagesInv, DataInv, Numbers
  <2>2. GotInv'  BY <2>1 DEF GotInv
  <2>3. StartInv'  BY <2>1 DEF StartInv, This, Before, Starting
  <2>4. ParseInv'  BY <2>1 DEF ParseInv
  <2>5. ReadInv'  BY <2>1 DEF ReadInv
  <2>6. LeaveInv'  BY <2>1 DEF LeaveInv
  <2> QED BY <2>2, <2>3, <2>4, <2>5, <2>6
<1> QED BY <1>1, <1>2, <1>3, <1>4 DEF PagesInv, DataInv

LEMMA CloseScanPages == ControlInv /\ PagesInv /\ CloseScan => PagesInv'
<1> SUFFICES ASSUME ControlInv, PagesInv, CloseScan PROVE PagesInv'  OBVIOUS
<1> USE DEF CloseScan, ControlInv, Main, GIL, outside, Data
<1>1. JobInv'  BY DEF PagesInv, JobInv
<1>2. FlagInv'  BY DEF PagesInv, FlagInv
<1>3. IdleInv'  BY DEF PagesInv, IdleInv, Numbers
<1>4. ASSUME faults' = 0 PROVE Data'
  <2>1. faults = 0 /\ Data  BY <1>4 DEF PagesInv, DataInv, Numbers
  <2>2. GotInv'  BY <2>1 DEF GotInv
  <2>3. StartInv'  BY <2>1 DEF StartInv, This, Before, Starting
  <2>4. ParseInv'  BY <2>1 DEF ParseInv
  <2>5. ReadInv'  BY <2>1 DEF ReadInv
  <2>6. LeaveInv'  BY <2>1 DEF LeaveInv
  <2> QED BY <2>2, <2>3, <2>4, <2>5, <2>6
<1> QED BY <1>1, <1>2, <1>3, <1>4 DEF PagesInv, DataInv

LEMMA ScannerReadyPages == ControlInv /\ PagesInv /\ ScannerReady => PagesInv'
<1> SUFFICES ASSUME ControlInv, PagesInv, ScannerReady PROVE PagesInv'  OBVIOUS
<1> USE DEF ScannerReady, ControlInv, DevInv, Devices, Scanner, threads, sane, Data
<1>1. JobInv'  BY DEF PagesInv, JobInv, Feeder
<1>2. FlagInv'  BY DEF PagesInv, FlagInv
<1>3. IdleInv'  BY DEF PagesInv, IdleInv, Numbers, Live
<1>4. ASSUME faults' = 0 PROVE Data'
  <2>1. faults = 0 /\ Data  BY <1>4 DEF PagesInv, DataInv, Numbers
  <2>2. GotInv'  BY <2>1 DEF GotInv
  <2>3. StartInv'  BY <2>1 DEF StartInv, This, Before, Counted, Sending, AllKept, Live
  <2>4. ParseInv'  BY <2>1 DEF ParseInv, Empty, More, This, Before, Counted, Sending, AllKept, Live
  <2>5. ReadInv'
    BY <2>1 DEF ReadInv, NoPage, InPage, Closing, More, Scanning, This, Before, Counted, Sending,
      AllKept, Live
  <2>6. LeaveInv'  BY <2>1 DEF LeaveInv, Counted, Sending, AllKept, Live
  <2> QED BY <2>2, <2>3, <2>4, <2>5, <2>6
<1> QED BY <1>1, <1>2, <1>3, <1>4 DEF PagesInv, DataInv

LEMMA NextSheetPages == ControlInv /\ PagesInv /\ NextSheet => PagesInv'
<1> SUFFICES ASSUME ControlInv, PagesInv, NextSheet PROVE PagesInv'  OBVIOUS
<1>1. /\ dev.state = "sending" /\ (stream = << >> \/ http # "page" \/ main = "poll")
      /\ UNCHANGED <<source, main, leaving, rd, ret, image, got, userCancel, job, ip, http, at, buf,
                     cancel, stream, faults, wrecked>>
  BY DEF NextSheet, Scanner, threads, sane
<1>2. /\ dev'.job = dev.job
      /\ \/ Feeder /\ dev'.state = "scanning" /\ dev'.pages = dev.pages + 1
         \/ dev'.state = "completed" /\ dev'.pages = dev.pages
  <2>1. dev \in Devices  BY DEF ControlInv, DevInv
  <2>2. CASE Feeder /\ (dev.sheets > 0 \/ dev.side = 1)
    <3>1. Feeder /\ dev.side = 2 => dev.sheets > 0  BY <2>2
    <3>2. dev' = Fed(dev)  BY <2>2 DEF NextSheet, Scanner
    <3> QED BY <2>1, <2>2, <3>1, <3>2, FedIs
  <2>3. CASE ~(Feeder /\ (dev.sheets > 0 \/ dev.side = 1))
    <3>1. dev' = [dev EXCEPT !.state = "completed"]  BY <2>3 DEF NextSheet, Scanner
    <3> QED BY <2>1, <3>1 DEF Devices
  <2> QED BY <2>2, <2>3
<1>3. dev.pages \in Nat  BY DEF ControlInv, DevInv, Devices
<1>4. JobInv' /\ FlagInv'  BY <1>1, <1>2 DEF PagesInv, JobInv, FlagInv, Feeder
<1>5. IdleInv'  BY <1>1 DEF PagesInv, IdleInv, Live
<1>6. ASSUME faults' = 0 PROVE Data'
  <2>1. faults = 0 /\ Data  BY <1>1, <1>6 DEF PagesInv, DataInv, Data
  <2>2. ASSUME NEW n, Counted(n, dev) PROVE Counted(n, dev')
    BY <1>1, <1>2, <1>3, <2>2 DEF Counted
  <2>3. ASSUME NEW n, Sending(n, dev, stream, source), stream = << >>
        PROVE  Sending(n, dev', stream', source')
    BY <1>1, <1>2, <2>2, <2>3 DEF Sending, Feeder
  <2>4. GotInv'  BY <1>1, <2>1 DEF Data, GotInv
  <2>5. StartInv'  BY <1>1, <2>1, <2>2 DEF Data, StartInv, Before, Starting
  <2>6. This' = This /\ More' = More /\ (Empty => Empty')  BY <1>1, <1>2 DEF This, More, Empty, Live
  <2>7. ParseInv'
    <3> SUFFICES ASSUME main = "parse" PROVE ParseInv'  BY <1>1 DEF ParseInv
    <3>1. http = "page"  BY DEF PagesInv, FlagInv
    <3>2. stream = << >>  BY <1>1, <3>1
    <3> QED BY <1>1, <2>1, <2>3, <2>6, <3>2 DEF Data, ParseInv
  <2>8. ReadInv'
    <3> SUFFICES ASSUME main \in {"wait", "active"} PROVE NoPage' \/ InPage'  BY <1>1 DEF ReadInv
    <3>1. CASE NoPage  BY <1>1, <3>1 DEF NoPage
    <3>2. CASE InPage
      <4>1. stream = << >>  BY <1>1, <3>2 DEF InPage, AllTaken
      <4>2. Sending(This', dev', stream', source')  BY <2>3, <2>6, <3>2, <4>1 DEF InPage
      <4> QED BY <1>1, <2>6, <3>2, <4>2 DEF InPage
    <3> QED BY <2>1, <3>1, <3>2 DEF Data, ReadInv
  <2>9. LeaveInv'  BY <1>1, <1>2, <2>1 DEF Data, LeaveInv, AllKept, Live, Feeder
  <2> QED BY <2>4, <2>5, <2>7, <2>8, <2>9 DEF Data
<1> QED BY <1>4, <1>5, <1>6 DEF PagesInv, DataInv, Data

LEMMA KeyboardInterruptPages == ControlInv /\ PagesInv /\ KeyboardInterrupt => PagesInv'
<1> SUFFICES ASSUME ControlInv, PagesInv, KeyboardInterrupt PROVE PagesInv'  OBVIOUS
<1> USE DEF KeyboardInterrupt, ControlInv, Main, GIL, outside, Data
<1>1. JobInv'  BY DEF PagesInv, JobInv
<1>2. FlagInv'  BY DEF FlagInv
<1>3. IdleInv'  BY DEF PagesInv, IdleInv, Numbers
<1>4. ASSUME faults' = 0 PROVE Data'
  <2>1. faults = 0 /\ Data  BY <1>4 DEF PagesInv, DataInv, Numbers
  <2>2. GotInv'  BY <2>1 DEF GotInv
  <2>3. StartInv'  BY <2>1 DEF StartInv, This, Before, Starting
  <2>4. ParseInv'  BY <2>1 DEF ParseInv
  <2>5. ReadInv'  BY <2>1 DEF ReadInv
  <2>6. LeaveInv'  BY <2>1 DEF LeaveInv
  <2> QED BY <2>2, <2>3, <2>4, <2>5, <2>6
<1> QED BY <1>1, <1>2, <1>3, <1>4 DEF PagesInv, DataInv

LEMMA PanelCancelPages == ControlInv /\ PagesInv /\ PanelCancel => PagesInv'
<1> SUFFICES ASSUME ControlInv, PagesInv, PanelCancel PROVE PagesInv'  OBVIOUS
<1> USE DEF PanelCancel, ControlInv, DevInv, Devices, Scanner, threads, sane, Data
<1>1. JobInv'  BY DEF PagesInv, JobInv, Feeder
<1>2. FlagInv'  BY DEF PagesInv, FlagInv
<1>3. IdleInv'  BY DEF IdleInv, Numbers, Live
<1>4. ASSUME faults' = 0 PROVE Data'
  <2>1. faults = 0 /\ Data  BY <1>4 DEF PagesInv, DataInv, Numbers
  <2>2. GotInv'  BY <2>1 DEF GotInv
  <2>3. StartInv'  BY <2>1 DEF StartInv, This, Before, Counted, Sending, AllKept, Live
  <2>4. ParseInv'  BY <2>1 DEF ParseInv, Empty, More, This, Before, Counted, Sending, AllKept, Live
  <2>5. ReadInv'
    BY <2>1 DEF ReadInv, NoPage, InPage, Closing, More, Scanning, This, Before, Counted, Sending,
      AllKept, Live
  <2>6. LeaveInv'  BY <2>1 DEF LeaveInv, Counted, Sending, AllKept, Live
  <2> QED BY <2>2, <2>3, <2>4, <2>5, <2>6
<1> QED BY <1>1, <1>2, <1>3, <1>4 DEF PagesInv, DataInv

LEMMA OtherJobPages == ControlInv /\ PagesInv /\ OtherJob => PagesInv'
<1> SUFFICES ASSUME ControlInv, PagesInv, OtherJob PROVE PagesInv'  OBVIOUS
<1> USE DEF OtherJob, ControlInv, DevInv, Devices, Busy, Scanner, threads, sane, Data
<1>1. JobInv'  BY DEF PagesInv, JobInv, Feeder
<1>2. FlagInv'  BY DEF PagesInv, FlagInv
<1>3. IdleInv'  BY DEF PagesInv, IdleInv, Numbers
<1>4. ASSUME faults' = 0 PROVE Data'
  <2>1. faults = 0 /\ Data  BY <1>4 DEF PagesInv, DataInv, Numbers
  <2>2. GotInv'  BY <2>1 DEF GotInv
  <2>3. StartInv'  BY <2>1 DEF StartInv, This, Before, Counted, Sending, AllKept, Live
  <2>4. ParseInv'  BY <2>1 DEF ParseInv, Empty, More, This, Before, Counted, Sending, AllKept, Live
  <2>5. ReadInv'
    BY <2>1 DEF ReadInv, NoPage, InPage, Closing, More, Scanning, This, Before, Counted, Sending,
      AllKept, Live
  <2>6. LeaveInv'  BY <2>1 DEF LeaveInv, Counted, Sending, AllKept, Live
  <2> QED BY <2>2, <2>3, <2>4, <2>5, <2>6
<1> QED BY <1>1, <1>2, <1>3, <1>4 DEF PagesInv, DataInv

-----------------------------------------------------------------------------
(* The invariant holds at first, and every step keeps it.                  *)
LEMMA InitPages == Init => PagesInv
<1> SUFFICES ASSUME Init PROVE PagesInv  OBVIOUS
<1>1. JobInv /\ FlagInv /\ IdleInv  BY DEF Init, JobInv, FlagInv, IdleInv, Live
<1>2. GotInv
  <2> DEFINE Q == Seq(Pixels)
  <2> HIDE DEF Q
  <2>1. << >> \in Seq(Q)  OBVIOUS
  <2> QED BY <2>1 DEF Init, GotInv, Q
<1>3. StartInv  BY DEF Init, StartInv, Starting, Counted
<1>4. ParseInv /\ ReadInv /\ LeaveInv  BY DEF Init, ParseInv, ReadInv, LeaveInv
<1> QED BY <1>1, <1>2, <1>3, <1>4 DEF PagesInv, DataInv, Data

LEMMA InvariantHolds == Spec => []IInv
<1>1. Init => IInv  BY InitControl, InitPages DEF IInv
<1>2. IInv /\ [Next]_vars => IInv'
  <2> SUFFICES ASSUME IInv, [Next]_vars PROVE IInv'  OBVIOUS
  <2> USE DEF IInv
  <2>1. ASSUME Next PROVE ControlInv'
    <3>1. StartSteps => ControlInv'
      BY StartScanControl, IsPaperInAdfControl, ScannerStatusControl, CreateJobControl,
        NextPageControl, PollJobControl DEF StartSteps
    <3>2. ReadSteps => ControlInv'
      BY GetSizeControl, GetOtherSizeControl, GetSizeFailsControl, GetDataControl, GetCrlfControl,
        ParseHeaderControl, ConvertControl, CloseIpControl, EndPageControl, ClosePageControl,
        UseClosedControl DEF ReadSteps
    <3>3. ThreadSteps => ControlInv'
      BY ReadScanControl, EnterReadControl, GetIpDataControl, ReturnReadControl, EndThreadControl
        DEF ThreadSteps
    <3>4. CancelSteps => ControlInv'
      BY CancelFlagControl, CancelIpControl, CancelPageControl, CancelCloseControl, CancelOpenControl, CancelRequestControl,
        CancelLostControl DEF CancelSteps
    <3>5. MainSteps => ControlInv'
      BY WaitForScanActiveControl, SeeErrorControl, KeepPageControl, NoDataControl,
        FinallyControl, CloseScanControl DEF MainSteps
    <3>6. ScannerSteps => ControlInv'
      BY ScannerReadyControl, NextSheetControl DEF ScannerSteps
    <3>7. KeyboardInterrupt \/ PanelCancel \/ OtherJob => ControlInv'
      BY KeyboardInterruptControl, PanelCancelControl, OtherJobControl
    <3> QED BY <2>1, <3>1, <3>2, <3>3, <3>4, <3>5, <3>6, <3>7 DEF Next
  <2>2. ASSUME Next PROVE PagesInv'
    <3>1. StartSteps => PagesInv'
      BY StartScanPages, IsPaperInAdfPages, ScannerStatusPages, CreateJobPages, NextPagePages,
        PollJobPages DEF StartSteps
    <3>2. ReadSteps => PagesInv'
      BY GetSizePages, GetOtherSizePages, GetSizeFailsPages, GetDataPages, GetCrlfPages,
        ParseHeaderPages, ConvertPages, CloseIpPages, EndPagePages, ClosePagePages, UseClosedPages
        DEF ReadSteps
    <3>3. ThreadSteps => PagesInv'
      BY ReadScanPages, EnterReadPages, GetIpDataPages, ReturnReadPages, EndThreadPages DEF
        ThreadSteps
    <3>4. CancelSteps => PagesInv'
      BY CancelFlagPages, CancelIpPages, CancelPagePages, CancelClosePages, CancelOpenPages, CancelRequestPages, CancelLostPages DEF
        CancelSteps
    <3>5. MainSteps => PagesInv'
      BY WaitForScanActivePages, SeeErrorPages, KeepPagePages, NoDataPages, FinallyPages,
        CloseScanPages DEF MainSteps
    <3>6. ScannerSteps => PagesInv'
      BY ScannerReadyPages, NextSheetPages DEF ScannerSteps
    <3>7. KeyboardInterrupt \/ PanelCancel \/ OtherJob => PagesInv'
      BY KeyboardInterruptPages, PanelCancelPages, OtherJobPages
    <3> QED BY <2>2, <3>1, <3>2, <3>3, <3>4, <3>5, <3>6, <3>7 DEF Next
  <2>3. CASE UNCHANGED vars
    <3> USE <2>3 DEF vars, threads, sane, outside
    <3>1. ControlInv'  BY DEF ControlInv, Flags, Places, Numbers, DevInv, PlaceInv, HttpInv
    <3>2. JobInv' /\ FlagInv' /\ IdleInv'
      BY DEF PagesInv, JobInv, FlagInv, IdleInv, Feeder
    <3>3. /\ More' = More /\ This' = This /\ Before' = Before /\ Empty' = Empty
      BY DEF More, This, Before, Empty
    <3>4. GotInv' /\ StartInv' /\ ParseInv' /\ ReadInv' /\ LeaveInv' <=> Data
      BY <3>3 DEF Data, GotInv, StartInv, ParseInv, ReadInv, LeaveInv, NoPage, InPage
    <3> QED BY <3>1, <3>2, <3>4 DEF PagesInv, DataInv, Data
  <2> QED BY <2>1, <2>2, <2>3
<1> QED BY <1>1, <1>2, PTL DEF Spec

(* The variables keep their types, whatever the threads do and whatever    *)
(* fails: hp-scan, its ScanThread and sane_cancel are only ever where the  *)
(* code has a place for them.                                              *)
THEOREM TypeCorrect == Spec => []TypeOK
<1>1. IInv => TypeOK  BY TypeIs DEF IInv
<1> QED BY <1>1, InvariantHolds, PTL

(* Whatever fails, the handle of the session is the only channel that is   *)
(* open (bb_open_channel never replaces an open one), and it is closed     *)
(* when hp-scan has ended.                                                 *)
THEOREM ChannelsClosed == Spec => []NoChannelLeft
<1>1. IInv => NoChannelLeft
  BY DEF IInv, ControlInv, Places, PlaceInv, HttpInv, Starting, Scanning, NoChannelLeft, Ended
<1> QED BY <1>1, InvariantHolds, PTL

(* While no exchange fails, a scan that ends or is interrupted leaves no   *)
(* job of its own at the scanner: bb_end_scan cancels it, or it ended.     *)
THEOREM JobsEnd == Spec => []NoJobLeft
<1>1. IInv => NoJobLeft  BY DEF IInv, PagesInv, FlagInv, IdleInv, NoJobLeft, Ended, Live
<1> QED BY <1>1, InvariantHolds, PTL

(* While nothing fails, the pages hp-scan keeps are those the scanner fed, *)
(* whole and in order, however get_ip_data cuts them into chunks and       *)
(* ipConvert uses these up; a scan that ends for want of documents has all *)
(* of them.                                                                *)
THEOREM PagesKept == Spec => []PagesWhole
<1>1. IInv => PagesWhole
  BY DEF IInv, PagesInv, DataInv, Data, GotInv, LeaveInv, AllKept, PagesWhole
<1> QED BY <1>1, InvariantHolds, PTL
=============================================================================
