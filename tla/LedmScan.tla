------------------------------ MODULE LedmScan ------------------------------
(***************************************************************************)
(* Scanning over LEDM: hp-scan's main thread and the ScanThread it makes   *)
(* for each page, the SANE session of ledm.c and bb_ledm.c they share, the *)
(* chunked HTTP stream of http.c, and the scanner.                         *)
(*                                                                         *)
(* sane_start and sane_read run without Python's interpreter lock,         *)
(* sane_cancel and sane_close under it: a cancel meets a read in progress, *)
(* and its end.  Each tests a handle, closes and resets it: a thread that  *)
(* uses or closes one the other has closed, or reads a chunk size past its *)
(* buffer, leaves the process undefined: `wrecked', after which nothing is *)
(* said of it.                                                             *)
(*                                                                         *)
(* A request and its answer are one step where no other thread can come    *)
(* between.  A channel read is given up after read_stream's retries.       *)
(***************************************************************************)
EXTENDS Naturals, Sequences, SequencesExt

CONSTANTS Sources,      \* input sources tried: "platen", "adf", "duplex"
          MaxSheets,    \* bound: sheets in the document feeder
          ChunkSizes,   \* units of the chunks a page is sent in
          MaxFaults,    \* bound: exchanges and reads that fail
          MaxOthers     \* bound: jobs of other clients of the scanner

ASSUME ConstantsAssumption ==
    /\ Sources \subseteq {"platen", "adf", "duplex"} /\ Sources # {}
    /\ ChunkSizes \in Seq(Nat \ {0}) \ {<< >>}
    /\ {MaxSheets, MaxFaults, MaxOthers} \subseteq Nat

VARIABLES
    source,                 \* ps->currentInputSource
    main, leaving,          \* hp-scan: where it is; how it ends
    rd, ret,                \* ScanThread: where it is; what sane_read returned
    session, userCancel,    \* the session exists; ps->user_cancel
    job, page,              \* ps->job_id, page_id
    ip, http, open,         \* ps->ip_handle, pbb->http_handle; channels open
    at, buf,                \* where get_ip_data is; ps->buf from index on, cnt units
    stream,                 \* tokens of the page not read yet
    cancel,                 \* where the thread in sane_cancel is
    dev,                    \* the scanner
    image, got,             \* the thread's page buffer; pages hp-scan kept
    faults, others, wrecked

threads == <<main, leaving, rd, ret, image, got>>
sane == <<session, userCancel, job, page, ip, http, open, at, buf, cancel>>
outside == <<stream, dev, faults, others, wrecked>>
vars == <<source, threads, sane, outside>>

Feeder == source # "platen"
Busy == dev.other \/ dev.state \in {"scanning", "ready", "sending"}

(* A page as its units, and as the scanner sends it, in chunks.            *)
Image(p) == [i \in 1..FoldLeft(+, 0, ChunkSizes) |-> <<p, i>>]

StreamOf(p) ==
    LET before(c) == FoldLeft(+, 0, SubSeq(ChunkSizes, 1, c - 1))
        chunk(c) == <<[size |-> ChunkSizes[c]]>>
                    \o [i \in 1..ChunkSizes[c] |-> [unit |-> <<p, before(c) + i>>]]
                    \o <<[crlf |-> TRUE]>>
    IN  FlattenSeq([c \in 1..Len(ChunkSizes) |-> chunk(c)]) \o <<[size |-> 0], [crlf |-> TRUE]>>

Init ==
    /\ source \in Sources
    /\ main = "loop" /\ leaving = "exit" /\ rd = "none" /\ ret = "good"
    /\ session = TRUE /\ userCancel = FALSE /\ job = 0 /\ page = 0
    /\ ip = FALSE /\ http = "none" /\ open = 0 /\ at = "none" /\ buf = <<>>
    /\ stream = <<>> /\ cancel = "none"
    /\ dev \in [job : {0}, state : {"none"}, sheets : 0..MaxSheets, pages : {0}, side : {2},
                other : {FALSE}]
    /\ image = <<>> /\ got = <<>> /\ faults = 0 /\ others = 0 /\ wrecked = FALSE

GIL == cancel = "none"        \* no thread is in sane_cancel
Fault == faults < MaxFaults /\ faults' = faults + 1
NoFault == UNCHANGED faults

Wreck ==
    /\ wrecked' = TRUE /\ main' = "exited" /\ rd' = "ended" /\ at' = "none" /\ cancel' = "none"
    /\ UNCHANGED <<source, leaving, ret, image, got, session, userCancel, job, page, ip, http, open, buf,
                   stream, dev, others>>

(* Mutant: a handle that is not there is closed too. *)
CloseHttp_Always == http' = "none" /\ open' = open - 1

CloseHttp == http' = "none" /\ open' = IF http = "none" THEN open ELSE open - 1

-----------------------------------------------------------------------------
(* hp-scan: startScan, which is ledm_start.                                *)

StartScan ==
    /\ main = "loop" /\ GIL
    /\ userCancel' = FALSE /\ buf' = <<>> /\ image' = <<>>
    /\ main' = IF Feeder THEN "paper" ELSE "start"
    /\ UNCHANGED <<source, leaving, rd, ret, got, session, job, page, ip, http, open, at, cancel,
                   outside>>

(* The end of a start that failed: bb_end_scan, which cancels nothing at   *)
(* the scanner.  A status other than NO_DOCS is raised; the thread is made *)
(* for all others.                                                         *)
EndStart(stat) ==
    /\ ip' = FALSE /\ job' = 0 /\ page' = 0 /\ at' = "none" /\ CloseHttp
    /\ IF stat = "nodocs"
       THEN /\ rd' = "idle"
            /\ main' = IF Feeder THEN "finally" ELSE "wait"
            /\ leaving' = IF Feeder /\ got # <<>> THEN "close" ELSE "exit"
       ELSE main' = "finally" /\ UNCHANGED <<rd, leaving>>
    /\ UNCHANGED <<source, ret, image, got, session, userCancel, buf, stream, cancel, wrecked, others>>

(* bb_is_paper_in_adf: its connection replaces pbb->http_handle.           *)
PaperInAdf ==
    \/ dev.sheets > 0
    \/ Busy
    \/ source = "duplex" /\ page % 2 = 1

IsPaperInAdf ==
    /\ main = "paper"
    /\ \/ /\ PaperInAdf /\ NoFault /\ main' = "start" /\ http' = "none"
          /\ UNCHANGED <<source, leaving, rd, ret, image, got, session, userCancel, job, page, ip, open,
                         at, buf, cancel, stream, dev, others, wrecked>>
       \/ ~PaperInAdf /\ NoFault /\ EndStart("nodocs") /\ UNCHANGED dev
       \/ Fault /\ EndStart("error") /\ UNCHANGED dev

(* bb_start_scan.  A session with a job goes on to the job's next page.    *)
Goto(place) ==
    /\ main' = place
    /\ UNCHANGED <<source, leaving, rd, ret, image, got, session, userCancel, ip, at, buf, cancel,
                   stream, others, wrecked>>

OpenPage == http' = "page" /\ open' = open + 1

ScannerStatus ==
    /\ main = "start" /\ job = 0 /\ UNCHANGED dev
    /\ \/ ~Busy /\ NoFault /\ Goto("create") /\ UNCHANGED <<job, page, http, open>>
       \/ Busy /\ NoFault /\ EndStart("error")
       \/ Fault /\ EndStart("error")

(* The scanner feeds the first sheet of a job, or the next one.            *)
Fed(d) == [d EXCEPT !.state = "scanning", !.pages = @ + 1,
                    !.side = IF source = "duplex" THEN 3 - @ ELSE 2,
                    !.sheets = IF Feeder /\ d.side = 2 THEN @ - 1 ELSE @]
Created(d) ==
    IF Feeder /\ d.sheets = 0
    THEN [d EXCEPT !.job = @ + 1, !.state = "completed"]
    ELSE Fed([d EXCEPT !.job = @ + 1, !.side = 2])

CreateJob ==
    /\ main = "create"
    /\ \/ /\ ~Busy /\ NoFault /\ dev' = Created(dev)
          /\ job' = dev'.job /\ page' = 1 /\ OpenPage /\ Goto("poll")
       \/ Busy /\ NoFault /\ EndStart("error") /\ UNCHANGED dev
       \/ Fault /\ EndStart("error") /\ (UNCHANGED dev \/ (~Busy /\ dev' = Created(dev)))

NextPage ==
    /\ main = "start" /\ job # 0 /\ Feeder
    /\ page' = page + 1 /\ OpenPage /\ Goto("poll")
    /\ UNCHANGED <<job, dev, faults>>

(* The poll of the job.  A job the scanner has ended has no page to scan,  *)
(* or still shows the last one.                                            *)
Started(d) ==
    /\ dev' = d /\ ip' = TRUE /\ main' = "parse" /\ at' = "size"
    /\ UNCHANGED <<source, leaving, rd, ret, image, got, session, userCancel, job, page, http, open,
                   buf, cancel, others, wrecked>>

(* Mutant: a cancelled job is polled on. *)
PollJob_NotCancelled ==
    /\ main = "poll"
    /\ \/ /\ dev.state = "ready" /\ NoFault
          /\ Started([dev EXCEPT !.state = "sending"]) /\ stream' = StreamOf(dev.pages)
       \/ dev.state = "completed" /\ NoFault /\ EndStart("nodocs") /\ UNCHANGED dev
       \/ Fault /\ EndStart("error") /\ UNCHANGED dev

PollJob ==
    /\ main = "poll"
    /\ \/ /\ dev.state = "ready" /\ NoFault
          /\ Started([dev EXCEPT !.state = "sending"]) /\ stream' = StreamOf(dev.pages)
       \/ /\ dev.state = "completed" /\ NoFault /\ Started(dev) /\ UNCHANGED stream
       \/ dev.state = "completed" /\ NoFault /\ EndStart("nodocs") /\ UNCHANGED dev
       \/ /\ dev.state = "canceled" /\ userCancel' = TRUE /\ main' = "wait" /\ rd' = "idle"
          /\ UNCHANGED <<source, leaving, ret, image, got, session, job, page, ip, http, open, at, buf,
                         cancel, outside>>
       \/ Fault /\ EndStart("error") /\ UNCHANGED dev

-----------------------------------------------------------------------------
(* get_ip_data, which ledm_start calls until the image header is parsed    *)
(* and ledm_read calls once: a chunk if the last one is used up, then      *)
(* ipConvert.                                                              *)

Lost == http # "page" \/ ~ip \/ ~session

UseClosed ==
    /\ NoFault /\ Wreck
    /\ \/ at \in {"size", "data", "crlf", "convert"} /\ Lost
       \/ at \in {"ip", "page", "close"} /\ ~session
       \/ at = "ip" /\ ~ip
       \/ at = "close" /\ http # "page"

ReadAs(str, next) ==
    /\ stream' = str /\ at' = next
    /\ UNCHANGED <<source, threads, session, userCancel, job, page, ip, http, open, cancel, dev,
                   others, wrecked>>

Read(n, next) == ReadAs(SubSeq(stream, n + 1, Len(stream)), next)

(* bb_get_image_data.  The size of a chunk.  Size 0 ends the page: what    *)
(* follows is not read.                                                    *)
HasSize == stream # <<>> /\ "size" \in DOMAIN Head(stream)

GetSize ==
    /\ at = "size" /\ ~Lost /\ HasSize /\ NoFault /\ UNCHANGED buf
    /\ Read(IF Head(stream).size = 0 THEN Len(stream) ELSE 0,
            IF Head(stream).size = 0 THEN "convert" ELSE "data")

(* get_size ignores a read that fails, and takes any line for a size: the  *)
(* rest of a chunk, its CRLF, or what an earlier call left in its buffer.  *)
(* The number may be any; with no line in 7 reads it runs past the buffer. *)
OtherSizes == 0..Len(Image(1))
EndOfLine == {i \in 1..Len(stream) : "unit" \notin DOMAIN stream[i]}

GetOtherSize ==
    /\ at = "size" /\ ~Lost /\ UNCHANGED buf
    /\ IF HasSize THEN Fault ELSE NoFault
    /\ \E size \in OtherSizes, n \in {0} \cup EndOfLine :
          /\ stream # <<>> /\ ~HasSize => n # 0
          /\ stream # <<>> /\ "crlf" \in DOMAIN Head(stream) => n = 1 /\ size = 0
          /\ \A i \in EndOfLine : n <= i
          /\ IF size = 0 THEN ReadAs(<<>>, "convert")
             ELSE ReadAs(<<[size |-> size]>> \o SubSeq(stream, n + 1, Len(stream)), "data")

GetSizeFails ==
    /\ at = "size" /\ ~Lost /\ Wreck /\ IF HasSize THEN Fault ELSE NoFault
    /\ stream # <<>> => "crlf" \notin DOMAIN Head(stream)

(* The data, of which a read that is given up has taken a part: a fault,   *)
(* or there is no more.                                                    *)
Noise == <<0, 0>>
Units(s) == [i \in DOMAIN s |-> IF "unit" \in DOMAIN s[i] THEN s[i].unit ELSE Noise]

GetData ==
    /\ at = "data" /\ ~Lost
    /\ \E k \in 0..Head(stream).size :
          /\ k < Len(stream)
          /\ IF k = Head(stream).size \/ k + 1 = Len(stream) THEN NoFault ELSE Fault
          /\ buf' = Units(SubSeq(stream, 2, k + 1)) /\ Read(k + 1, "crlf")

GetCrlf ==
    /\ at = "crlf" /\ ~Lost /\ UNCHANGED buf
    /\ (\/ NoFault /\ Read(1, "convert")
        \/ Fault /\ Read(0, "convert"))

(* ipConvert uses a part of the buffer; without input the image has ended. *)
(* The header of an image comes before its end.                            *)
(* Mutant: the index stays where it is. *)
Used_SameIndex(k) ==
    /\ image' = image \o SubSeq(buf, 1, k) /\ buf' = SubSeq(buf, 1, Len(buf) - k)
    /\ UNCHANGED <<source, leaving, got, session, userCancel, job, page, ip, http, open, cancel,
                   outside>>

Used(k) ==
    /\ image' = image \o SubSeq(buf, 1, k) /\ buf' = SubSeq(buf, k + 1, Len(buf))
    /\ UNCHANGED <<source, leaving, got, session, userCancel, job, page, ip, http, open, cancel,
                   outside>>

NextRead == IF buf' = <<>> THEN "size" ELSE "convert"

ParseHeader ==
    /\ main = "parse" /\ at = "convert" /\ ~Lost
    /\ \/ /\ \E k \in 1..Len(buf) : Used(k) /\ UNCHANGED ret
          /\ \/ main' = "wait" /\ rd' = "idle" /\ at' = "none"
             \/ Len(image') < Len(Image(1)) /\ at' = NextRead /\ UNCHANGED <<main, rd>>
       \/ buf = <<>> /\ NoFault /\ EndStart("error") /\ UNCHANGED dev
       \/ buf # <<>> /\ Fault /\ EndStart("error") /\ UNCHANGED dev

Convert ==
    /\ main # "parse" /\ at = "convert" /\ ~Lost
    /\ \/ /\ \E k \in 1..Len(buf) : Used(k)
          /\ at' = "none" /\ rd' = "back" /\ ret' = "good" /\ UNCHANGED main
       \/ /\ \/ buf = <<>> /\ NoFault /\ ret' = "eof"
             \/ buf # <<>> /\ Fault /\ ret' = "error"
          /\ at' = "ip"
          /\ UNCHANGED <<source, main, leaving, rd, image, got, session, userCancel, job, page, ip, http,
                         open, buf, cancel, stream, dev, others, wrecked>>

(* ledm_read then gives up the image processor, if it still finds it.      *)
Ending(place) ==
    /\ at' = place
    /\ UNCHANGED <<source, main, leaving, ret, image, got, session, userCancel, job, page, buf, cancel,
                   outside>>

CloseIp == at = "ip" /\ session /\ ip' = FALSE /\ Ending("page") /\ UNCHANGED <<rd, http, open>>

(* bb_end_page: the handle is tested, then closed.                         *)
(* Mutant: the page is not ended. *)
EndPage_KeepHttp ==
    /\ at = "page" /\ session /\ UNCHANGED <<ip, http, open>> /\ Ending("none") /\ rd' = "back"

EndPage ==
    /\ at = "page" /\ session /\ UNCHANGED <<ip, http, open>>
    /\ IF http = "none" THEN Ending("none") /\ rd' = "back" ELSE Ending("close") /\ UNCHANGED rd

ClosePage ==
    /\ at = "close" /\ session /\ CloseHttp /\ UNCHANGED ip /\ Ending("none") /\ rd' = "back"

-----------------------------------------------------------------------------
(* ScanThread: readScan until the status is not GOOD.  A status that is    *)
(* neither GOOD nor EOF makes readScan call sane_cancel and raise; the     *)
(* thread then puts it in the update queue.                                *)

Thread(place) ==
    /\ rd' = place
    /\ UNCHANGED <<source, main, leaving, image, got, session, userCancel, job, page, ip, http, open,
                   buf, outside>>

ReadScan ==
    /\ rd = "idle" /\ GIL /\ Thread(IF session THEN "enter" ELSE "failing")
    /\ UNCHANGED <<ret, at, cancel>>

EnterRead ==
    /\ rd = "enter"
    /\ \/ ~session /\ NoFault /\ Wreck
       \/ session /\ userCancel /\ ret' = "cancelled" /\ Thread("back") /\ UNCHANGED <<at, cancel>>
       \/ session /\ ~userCancel /\ Thread("entered") /\ UNCHANGED <<ret, at, cancel>>

GetIpData ==
    /\ rd = "entered"
    /\ \/ ~session /\ NoFault /\ Wreck
       \/ /\ session /\ ~ip /\ Thread("reading") /\ ret' = "error" /\ at' = "page"
          /\ UNCHANGED cancel
       \/ /\ session /\ ip /\ Thread("reading") /\ UNCHANGED <<ret, cancel>>
          /\ at' = IF buf = <<>> THEN "size" ELSE "convert"

ReturnRead ==
    /\ rd = "back" /\ GIL /\ UNCHANGED <<ret, at>>
    /\ \/ ret = "good" /\ Thread("idle") /\ UNCHANGED cancel
       \/ ret = "eof" /\ Thread("ended") /\ UNCHANGED cancel
       \/ ret \in {"error", "cancelled"} /\ Thread("canceling") /\ cancel' = "begin"

EndThread == rd = "failing" /\ GIL /\ Thread("ended") /\ UNCHANGED <<ret, at, cancel>>

-----------------------------------------------------------------------------
(* sane_cancel, from either thread.                                        *)

Canceling(place) ==
    /\ cancel' = place
    /\ UNCHANGED <<source, leaving, ret, image, got, session, at, buf, stream, others, wrecked>>

(* Mutant: user_cancel is not set. *)
CancelFlag_Unset ==
    /\ cancel = "begin" /\ Canceling(IF ip THEN "ip" ELSE "page")
    /\ UNCHANGED <<main, rd, userCancel, job, page, ip, http, open, dev, faults>>

CancelFlag ==
    /\ cancel = "begin" /\ userCancel' = TRUE /\ Canceling(IF ip THEN "ip" ELSE "page")
    /\ UNCHANGED <<main, rd, job, page, ip, http, open, dev, faults>>

CancelIp ==
    /\ cancel = "ip" /\ ip' = FALSE /\ Canceling("page")
    /\ UNCHANGED <<main, rd, userCancel, job, page, http, open, dev, faults>>

(* bb_end_scan to its end: the thread goes on.                             *)
EndCancel ==
    /\ Canceling("none") /\ job' = 0 /\ page' = 0 /\ UNCHANGED <<userCancel, ip>>
    /\ IF rd = "canceling"
       THEN rd' = "failing" /\ UNCHANGED main
       ELSE /\ UNCHANGED rd
            /\ main' = IF main = "aborting" THEN "finally"
                       ELSE IF leaving = "close" THEN "close" ELSE "exited"

CancelJob ==
    IF job = 0 \/ ~userCancel
    THEN EndCancel
    ELSE Canceling("open") /\ UNCHANGED <<main, rd, job, page, userCancel, ip>>

CancelPage ==
    /\ cancel = "page" /\ UNCHANGED <<http, open, dev, faults>>
    /\ IF http = "none" THEN CancelJob
       ELSE Canceling("close") /\ UNCHANGED <<main, rd, job, page, userCancel, ip>>

CancelClose == cancel = "close" /\ CloseHttp /\ UNCHANGED <<dev, faults>> /\ CancelJob

CancelOpen ==
    /\ cancel = "open" /\ UNCHANGED dev
    /\ \/ /\ NoFault /\ http' = "cancel" /\ open' = open + 1 /\ Canceling("request")
          /\ UNCHANGED <<main, rd, job, page, userCancel, ip>>
       \/ Fault /\ EndCancel /\ UNCHANGED <<http, open>>

Canceled(d) == IF d.job = job /\ d.state \in {"scanning", "ready", "sending"}
               THEN [d EXCEPT !.state = "canceled"] ELSE d

CancelRequest ==
    /\ cancel = "request" /\ http = "cancel" /\ CloseHttp /\ EndCancel
    /\ \/ NoFault /\ dev' = Canceled(dev)
       \/ Fault /\ dev' \in {dev, Canceled(dev)}

CancelLost ==
    /\ NoFault /\ Wreck
    /\ \/ cancel = "ip" /\ ~ip
       \/ cancel = "close" /\ http = "none"
       \/ cancel = "request" /\ http # "cancel"

-----------------------------------------------------------------------------
(* hp-scan: what follows startScan, with the interpreter lock.             *)

Main(place) ==
    /\ main' = place /\ GIL
    /\ UNCHANGED <<source, rd, ret, image, userCancel, job, page, ip, http, open, at, buf, outside>>

WaitForScanActive ==
    /\ main = "wait" /\ rd \notin {"none", "ended"} /\ Main("active")
    /\ UNCHANGED <<leaving, got, session, cancel>>

(* An error in the queue is seen while the thread is active, or not at     *)
(* all: then any data makes a page.                                        *)
SeeError ==
    /\ main = "active" /\ rd = "failing" /\ Main("finally")
    /\ UNCHANGED <<leaving, got, session, cancel>>

KeepPage ==
    /\ main = "active" /\ rd = "ended" /\ image # <<>>
    /\ got' = Append(got, image) /\ Main(IF Feeder THEN "loop" ELSE "finally")
    /\ leaving' = IF Feeder THEN leaving ELSE "close"
    /\ UNCHANGED <<session, cancel>>

NoData ==
    /\ main = "active" /\ rd = "ended" /\ ret # "eof" /\ Main("finally")
    /\ UNCHANGED <<leaving, got, session, cancel>>

(* Ctrl-C: cancelScan and exit, by way of the finally clause.              *)
KeyboardInterrupt ==
    /\ main \in {"wait", "active"} /\ Main("aborting") /\ cancel' = "begin"
    /\ UNCHANGED <<leaving, got, session>>

Finally ==
    /\ main = "finally" /\ Main("closing") /\ cancel' = "begin"
    /\ UNCHANGED <<leaving, got, session>>

CloseScan ==
    /\ main = "close" /\ session' = FALSE /\ Main("exited")
    /\ UNCHANGED <<leaving, got, cancel>>

-----------------------------------------------------------------------------
(* The scanner.                                                            *)

Scanner(d) == dev' = d /\ UNCHANGED <<source, threads, sane, stream, faults, wrecked>>

ScannerReady ==
    /\ dev.state = "scanning" /\ Scanner([dev EXCEPT !.state = "ready"]) /\ UNCHANGED others

PanelCancel ==
    /\ dev.state \in {"scanning", "ready"} /\ Scanner([dev EXCEPT !.state = "canceled"])
    /\ UNCHANGED others

NextSheet ==
    /\ dev.state = "sending" /\ (stream = <<>> \/ http # "page" \/ main = "poll")
    /\ UNCHANGED others
    /\ Scanner(IF Feeder /\ (dev.sheets > 0 \/ dev.side = 1)
               THEN Fed(dev) ELSE [dev EXCEPT !.state = "completed"])

OtherJob ==
    \/ /\ ~Busy /\ others < MaxOthers /\ others' = others + 1
       /\ Scanner([dev EXCEPT !.other = TRUE])
    \/ dev.other /\ Scanner([dev EXCEPT !.other = FALSE]) /\ UNCHANGED others

-----------------------------------------------------------------------------
StartSteps ==
    StartScan \/ IsPaperInAdf \/ ScannerStatus \/ CreateJob \/ NextPage \/ PollJob

ReadSteps ==
    \/ GetSize \/ GetOtherSize \/ GetSizeFails \/ GetData \/ GetCrlf
    \/ ParseHeader \/ Convert \/ CloseIp \/ EndPage \/ ClosePage \/ UseClosed

ThreadSteps == ReadScan \/ EnterRead \/ GetIpData \/ ReturnRead \/ EndThread

CancelSteps == CancelFlag \/ CancelIp \/ CancelPage \/ CancelClose \/ CancelOpen \/ CancelRequest \/ CancelLost

MainSteps == WaitForScanActive \/ SeeError \/ KeepPage \/ NoData \/ Finally \/ CloseScan

ScannerSteps == ScannerReady \/ NextSheet

Next ==
    \/ StartSteps \/ ReadSteps \/ ThreadSteps \/ CancelSteps \/ MainSteps
    \/ ScannerSteps \/ KeyboardInterrupt \/ PanelCancel \/ OtherJob

Spec == Init /\ [][Next]_vars

(* Both threads are scheduled, reads end (http.c retries a bounded number  *)
(* of times), and the scanner goes on with its job.                        *)
FairSpec ==
    /\ Spec
    /\ WF_vars(StartSteps \/ MainSteps) /\ WF_vars(ReadSteps \/ ThreadSteps)
    /\ WF_vars(CancelSteps) /\ WF_vars(ScannerSteps)

-----------------------------------------------------------------------------
(* Properties.                                                             *)

Ended == main = "exited" /\ rd \in {"none", "ended"} /\ ~wrecked

TypeOK ==
    /\ source \in Sources /\ leaving \in {"exit", "close"}
    /\ main \in {"loop", "paper", "start", "create", "poll", "parse", "wait", "active", "aborting",
                 "finally", "closing", "close", "exited"}
    /\ rd \in {"none", "idle", "enter", "entered", "reading", "back", "canceling", "failing", "ended"}
    /\ ret \in {"good", "eof", "error", "cancelled"}
    /\ at \in {"none", "size", "data", "crlf", "convert", "ip", "page", "close"}
    /\ cancel \in {"none", "begin", "ip", "page", "close", "open", "request"}
    /\ http \in {"none", "page", "cancel"} /\ open \in 0..2
    /\ {job, page, faults, others} \subseteq Nat /\ (job = 0) = (page = 0)
    /\ \A b \in {session, userCancel, ip, wrecked} : b \in BOOLEAN

(* A page hp-scan keeps is the next one the scanner fed, whole and in      *)
(* order, and a scan that ends for want of documents has them all: unless  *)
(* an exchange or a read failed.  (The job may be cancelled at the panel.) *)
PagesWhole ==
    faults = 0 =>
        /\ \A i \in DOMAIN got : got[i] = Image(i)
        /\ leaving = "close" /\ dev.state # "canceled" => Len(got) = dev.pages

(* Whatever fails, an HTTP channel that is open is the one of the handle,  *)
(* and none is open when hp-scan has ended.                                *)
NoChannelLeft ==
    /\ open = IF http = "none" THEN 0 ELSE 1
    /\ Ended => open = 0

(* A scan that ends, or is interrupted, leaves no job of its own at the    *)
(* scanner: unless an exchange failed.                                     *)
NoJobLeft == Ended /\ faults = 0 => dev.state \notin {"scanning", "ready", "sending"}

(* A start ends; so does the thread of a page, whatever it takes for a     *)
(* size and whoever closes its handles; and so does hp-scan from where it  *)
(* has found that thread active.                                           *)
ScanEnds ==
    /\ (main = "loop") ~> (main \in {"wait", "finally"} \/ wrecked)
    /\ (rd = "idle") ~> (rd = "ended" \/ wrecked)
    /\ (main \in {"active", "finally"}) ~> (main = "loop" \/ Ended \/ wrecked)

(***************************************************************************)
(* What the code does not keep.                                            *)
(***************************************************************************)

(* hp-scan ends: but waitForScanActive may look when the thread has ended. *)
HpScanEnds == (main = "loop") ~> (Ended \/ wrecked)

(* A read or a cancel always has a result.                                 *)
Defined == ~wrecked

(* "Cancel an in-progress scanning operation.": a thread in a read finds   *)
(* the handles it uses as they were.                                       *)
CancelSafe == at \in {"size", "data", "crlf", "convert"} => ~Lost

(* Every page kept is whole, whatever fails.                               *)
KeptWhole == \A i \in DOMAIN got : got[i] = Image(got[i][1][1])

(* No job is left at the scanner, whatever fails.                          *)
NoJobEverLeft == Ended => dev.state \notin {"scanning", "ready", "sending"}
=============================================================================
