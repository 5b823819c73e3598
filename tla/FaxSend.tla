------------------------------ MODULE FaxSend ------------------------------
(***************************************************************************)
(* Sending a fax over PML: the thread PMLFaxSendThread, a state machine    *)
(* for the job with a second one inside it for each call, and the command  *)
(* hp-sendfax that started it, watches its reports and cancels it.         *)
(*                                                                         *)
(* The two share a queue of cancel events and the Device object: a second  *)
(* Ctrl-C makes the command close the device while the thread uses it, and *)
(* any use of a closed device opens it again.                              *)
(*                                                                         *)
(* The fax device answers every request with any value.  A page is named   *)
(* by its file and its place there, and is as many raster chunks as it     *)
(* takes to send; a chunk is one block of at most RASTER_DATA_SIZE bytes.  *)
(***************************************************************************)
EXTENDS Integers, SequencesExt

CONSTANTS
  Docs,          \* the lists of rendered files a job may have
  Covers,        \* whether the list has a cover page: a subset of BOOLEAN
  Recipients,    \* how many recipients the job has
  EarlyOpens     \* whether fax_type is FAX_TYPE_BLACK_SEND_EARLY_OPEN: a subset of BOOLEAN

(* A file: a name, the number of pages its header claims, and of each page *)
(* it holds the number of raster chunks; a file that was cut short holds   *)
(* fewer pages than it claims.  kind "bad" is no fax file.                 *)
CoverOf(r) == [name |-> <<"cover", r>>, kind |-> "g3", claimed |-> 1, pages |-> <<1>>]

Files == UNION {Range(d) : d \in Docs}

ASSUME FaxAssumption ==
  /\ Covers \subseteq BOOLEAN /\ Recipients \in Nat \ {0} /\ EarlyOpens \subseteq BOOLEAN
  /\ Docs \subseteq Seq(Files) \ {<< >>}
  /\ \A x \in Files :
       x.claimed \in Nat \ {0} /\ x.pages \in Seq(Nat) /\ Len(x.pages) <= x.claimed

VARIABLES
  docs,          \* rendered_file_list
  cover,         \* cover_page_present
  early,         \* fax_type is FAX_TYPE_BLACK_SEND_EARLY_OPEN
  state,         \* the outer state; "dead" after an exception nobody catches
  call,          \* fax_send_state; "none" outside SEND_FAX
  loop,          \* where the handler of SEND_PAGES is; "none" outside it
  recipient,     \* the recipients taken from next_recipient so far
  list,          \* recipient_file_list
  f,             \* the file to send: its claim and its pages, <<name, n, chunks>>
  page, chunk,   \* the page in hand and the last of its chunks in the stream
  stream,        \* the records in self.stream
  faxes,         \* what has been written to the fax channel, one sequence a call
  monitor,       \* monitor_state
  waits,         \* parity of the passes of the waiting loops, each of which is a step
  dev,           \* io_state is IO_STATE_HP_OPEN
  canceled,      \* a cancel event is in event_queue
  reports,       \* the end statuses put in update_queue
  client         \* hp-sendfax: "watch", "join" the thread, device "closed"

vars == <<docs, cover, early, state, call, loop, recipient, list, f, page, chunk, stream,
          faxes, monitor, waits, dev, canceled, reports, client>>

job   == <<docs, cover, early, recipient, list, f>>
place == <<loop, page, chunk>>

-----------------------------------------------------------------------------
(* The mfpdtf records *)

Record(k, x, n) == [kind |-> k, of |-> x, n |-> n]
DialStrings(r)  == Record("dial", <<"", r>>, 0)
FaxHeader(n)    == Record("header", <<"", 0>>, n)
StartOfPage(x)  == Record("sop", x, 0)
Raster(x, n)    == Record("raster", x, n)
EndOfPage(x)    == Record("eop", x, 0)
EndOfStream     == Record("eos", <<"", 0>>, 0)
\* Part of a block that could not be written; the bytes such a block leaves in
\* the stream, which the next records overwrite from the fifth byte on.
Part == Record("part", <<"", 0>>, 0)
Torn == Record("torn", <<"", 0>>, 0)

PagesOf(file) == [i \in DOMAIN file.pages |-> [id |-> Append(file.name, i), chunks |-> file.pages[i]]]

RecordsOf(pg) == <<StartOfPage(pg.id)>> \o [n \in 1..pg.chunks |-> Raster(pg.id, n)]
                   \o <<EndOfPage(pg.id)>>

-----------------------------------------------------------------------------
(* The device and its channels *)

\* __openChannel: what finds the device closed opens it, and goes on if that
\* fails.
Used == dev' \in IF dev THEN {TRUE} ELSE BOOLEAN

\* write_stream of the block, at the end of which the call is in state "then";
\* a failed write leaves the block in the stream.
WriteStream(block, then) ==
  LET last == Len(faxes) IN
     \/ /\ dev' = TRUE
        /\ faxes' = [faxes EXCEPT ![last] = @ \o block]
        /\ stream' = << >>
        /\ call' = then
     \/ /\ Used
        /\ faxes' = [faxes EXCEPT ![last] = Append(@, Part)]
        /\ stream' = <<Torn>>
        /\ call' = "error"

-----------------------------------------------------------------------------
(* The outer machine.  Each handler begins with check_for_cancel, which    *)
(* empties the event queue.  The checks inside pre_render, count_pages,    *)
(* merge_files and render_file lead to the same state as the next one.     *)

Outer(s) ==
  /\ call = "none" /\ state \notin {"done", "dead"}
  /\ s = IF canceled THEN "aborted" ELSE state
  /\ canceled' = FALSE
  /\ UNCHANGED <<loop, page, chunk, stream, waits, client>>

Idle == UNCHANGED <<call, faxes, monitor>>

\* write_queue of the status that ends the job
Reports(s, status) ==
  /\ Outer(s) /\ Idle
  /\ reports' = Append(reports, status)
  /\ state' = "cleanup"
  /\ UNCHANGED <<job, dev>>

Aborted == Reports("aborted", "IDLE")
Success == Reports("success", "COMPLETED")
Failed  == Reports("error", "ERROR")
Busy    == Reports("busy", "BUSY")

\* The device is opened for station_name and phone_num, and closed whatever
\* they answer.
ReadSenderInfo ==
  /\ Outer("sender") /\ Idle
  /\ state' \in {"prerender", "error"}
  /\ dev' = FALSE
  /\ UNCHANGED <<job, reports>>

PreRender ==
  /\ Outer("prerender") /\ Idle
  /\ state' = "count"
  /\ UNCHANGED <<job, reports, dev>>

\* A file that is missing, of bad magic or of other options than the first.
CountPages ==
  /\ Outer("count") /\ Idle
  /\ state' = IF \A i \in DOMAIN docs : docs[i].kind = docs[1].kind /\ docs[i].kind # "bad"
              THEN "recipient" ELSE "error"
  /\ UNCHANGED <<job, reports, dev>>

JobTotalPages ==
  FoldLeft(+, IF cover THEN 1 ELSE 0, [i \in DOMAIN docs |-> docs[i].claimed])

(* Mutant: the list of the recipient before is kept. *)
RecipientFiles_Kept(r) == IF r = 1 THEN docs ELSE list

\* recipient_file_list = rendered_file_list[:]
RecipientFiles(r) == docs

NextRecipient ==
  /\ Outer("recipient") /\ Idle
  /\ IF recipient < Recipients
     THEN /\ recipient' = recipient + 1
          /\ list' = RecipientFiles(recipient + 1)
          /\ state' = "cover"
     ELSE state' = "success" /\ UNCHANGED <<recipient, list>>
  /\ UNCHANGED <<docs, cover, early, f, reports, dev>>

\* render_cover_page times out after five minutes; hp-systray may be gone.
CoverPage ==
  /\ Outer("cover") /\ Idle
  /\ \/ /\ list' = IF cover THEN <<CoverOf(recipient)>> \o list ELSE list
        /\ state' = IF JobTotalPages > 1 THEN "merge" ELSE "single"
     \/ /\ cover
        /\ state' \in {"error", "dead"}
        /\ UNCHANGED list
  /\ UNCHANGED <<docs, cover, early, recipient, f, reports, dev>>

\* single_file sends the one file; merge_files copies the pages the files hold
\* under a header that claims what count_pages has counted.
PrepareFile(s, claimed, files) ==
  /\ Outer(s) /\ Idle
  /\ f' = [claimed |-> claimed, pages |-> FlattenSeq([i \in DOMAIN files |-> PagesOf(files[i])])]
  /\ state' = "send"
  /\ UNCHANGED <<docs, cover, early, recipient, list, reports, dev>>

SingleFile == PrepareFile("single", list[1].claimed, <<list[1]>>)
MergeFiles == PrepareFile("merge", JobTotalPages, list)

SendFax ==
  /\ Outer("send")
  /\ state' = "recipient"
  /\ call' = "open"
  /\ monitor' = FALSE
  /\ UNCHANGED <<job, faxes, reports, dev>>

Cleanup ==
  /\ Outer("cleanup") /\ Idle
  /\ state' = "done"
  /\ UNCHANGED <<job, reports, dev>>

-----------------------------------------------------------------------------
(* The call.  Every iteration checks for a cancel and, from the request to *)
(* start until the end of the stream, asks for the download state, which   *)
(* overrides the cancel.                                                   *)

Call(s) ==
  /\ call # "none" /\ loop = "none" /\ state # "dead"
  /\ \/ s = IF canceled THEN "abort" ELSE call
     \/ monitor /\ s = "error"
  /\ canceled' = FALSE
  /\ UNCHANGED <<job, reports, client>>

\* The only use of the device is the one the iteration began with.
Polled == IF monitor THEN Used ELSE UNCHANGED dev

Still  == UNCHANGED <<place, stream, faxes>>
Calm   == Still /\ UNCHANGED <<state, monitor, waits>>
Goes(s) == call' = s
Waits   == waits' = ~waits

(* Mutant: the outer machine is not told of the error. *)
EndOf_ErrorLost(s) == CASE s = "abort" -> "aborted" [] s = "error" -> state [] s = "busy" -> "busy"

\* The outer state in which an abort, an error or a busy device leaves the job.
EndOf(s) == CASE s = "abort" -> "aborted" [] s = "error" -> "error" [] s = "busy" -> "busy"

CallEnds(s) ==
  /\ Call(s)
  /\ Goes("reset") /\ state' = EndOf(s) /\ monitor' = FALSE
  /\ IF s = "error" THEN Used ELSE Polled
  /\ Still /\ UNCHANGED waits

Abort      == CallEnds("abort")
CallError  == CallEnds("error")
DeviceBusy == CallEnds("busy")

DeviceOpen ==
  /\ Call("open")
  /\ faxes' = Append(faxes, << >>)
  /\ \/ Goes("token") /\ dev' = TRUE
     \/ Goes("error") /\ dev' = FALSE
  /\ UNCHANGED <<place, stream, state, monitor, waits>>

\* The token is skipped if the device has none, else set and read back.
SetToken == Call("token") /\ call' \in {"early", "error"} /\ Used /\ Calm

\* openFax never raises: a channel that does not open shows when it is written.
EarlyOpening ==
  /\ Call("early") /\ Goes("idle") /\ Calm
  /\ IF early THEN Used ELSE Polled

CheckIdle == Call("idle") /\ call' \in {"start", "busy"} /\ Used /\ Calm

\* Not idle; active within ten tries; never active, which the monitor will
\* mostly make an error.
StartRequest ==
  /\ Call("start") /\ Used /\ Still /\ UNCHANGED <<state, waits>>
  /\ \/ Goes("busy") /\ UNCHANGED monitor
     \/ call' \in {"params", "busy"} /\ monitor' = TRUE

SetParams == Call("params") /\ Goes("late") /\ Used /\ Calm

LateOpening ==
  /\ Call("late") /\ Goes("dial") /\ Calm
  /\ IF early THEN Polled ELSE Used

\* A block of the records after those left in the stream
Sends(s, records, then) ==
  /\ Call(s)
  /\ WriteStream(stream \o records, then)
  /\ UNCHANGED <<place, state, waits>>

SendDialStrings == Sends("dial", <<DialStrings(recipient)>>, "header") /\ UNCHANGED monitor
SendFaxHeader   == Sends("header", <<FaxHeader(f.claimed)>>, "pages") /\ UNCHANGED monitor

SendPages ==
  /\ Call("pages") /\ Polled
  /\ Goes("eos")
  /\ loop' = "page" /\ page' = 1 /\ chunk' = 0
  /\ UNCHANGED <<stream, faxes, state, monitor, waits>>

SendEndOfStream == Sends("eos", <<EndOfStream>>, "wait") /\ monitor' = FALSE

\* Done or idle is taken for success, and so is a status that cannot be read.
WaitForComplete ==
  /\ Call("wait") /\ Used /\ Still /\ UNCHANGED monitor
  /\ \/ Goes("wait") /\ Waits /\ UNCHANGED state
     \/ Goes("reset") /\ state' = "recipient" /\ UNCHANGED waits

ResetToken == Call("reset") /\ Goes("close") /\ Used /\ Calm

CloseSession ==
  /\ Call("close") /\ Goes("none") /\ Calm
  /\ dev' = FALSE

-----------------------------------------------------------------------------
(* SEND_PAGES: a loop over the pages the header claims, in it one over the *)
(* chunks of the page.  An abort leaves both; an error leaves the inner    *)
(* one only, and is acted upon after the last page.                        *)

InPages(where) ==
  /\ loop = where /\ state # "dead"
  /\ UNCHANGED <<job, state, monitor, reports, client>>

NextPage == loop' = "page" /\ page' = page + 1 /\ UNCHANGED chunk

LeavePages ==
  /\ InPages("page")
  /\ \/ page > f.claimed /\ UNCHANGED <<call, canceled>>
     \/ page <= f.claimed /\ (canceled \/ call = "abort") /\ Goes("abort") /\ canceled' = FALSE
  /\ loop' = "none"
  /\ UNCHANGED <<page, chunk, stream, faxes, waits, dev>>

\* The header of the page is read, and the page.  A header that is not there
\* decodes to minus ones, which create_sop_record cannot pack.
BeginPage ==
  /\ loop = "page" /\ page <= f.claimed /\ ~canceled /\ call # "abort"
  /\ IF page \in DOMAIN f.pages
     THEN /\ InPages("page")
          /\ stream' = stream \o <<StartOfPage(f.pages[page].id), Raster(f.pages[page].id, 1)>>
          /\ chunk' = 1 /\ loop' = "raster"
          /\ UNCHANGED page
     ELSE /\ state' = "dead"
          /\ UNCHANGED <<job, place, stream, monitor, reports, client>>
  /\ UNCHANGED <<call, faxes, waits, dev, canceled>>

\* The header cannot be read.
PageUnread ==
  /\ InPages("page") /\ page <= f.claimed /\ ~canceled /\ call # "abort"
  /\ Goes("error") /\ NextPage
  /\ UNCHANGED <<stream, faxes, waits, dev, canceled>>

\* What is in the stream is written, with the end of the page if the chunk in
\* it is the last, unless the device has given up or the user has.
SendChunk ==
  LET pg == f.pages[page]
      last == chunk = pg.chunks IN
  /\ InPages("raster") /\ UNCHANGED waits
  /\ \/ Goes("error") /\ Used /\ NextPage /\ UNCHANGED <<stream, faxes, canceled>>
     \/ canceled /\ canceled' = FALSE /\ Goes("abort") /\ Used /\ NextPage /\ UNCHANGED <<stream, faxes>>
     \/ /\ ~canceled /\ UNCHANGED canceled
        /\ WriteStream(IF last THEN Append(stream, EndOfPage(pg.id)) ELSE stream, call)
        /\ IF last \/ stream' # << >> THEN NextPage
                                     ELSE loop' = "dialing" /\ UNCHANGED <<page, chunk>>

\* The chunk read before the block was written goes into the stream, and the
\* inner loop goes on unless the call is over.
ResumePage(s) ==
  /\ Goes(s)
  /\ stream' = Append(stream, Raster(f.pages[page].id, chunk + 1))
  /\ chunk' = chunk + 1
  /\ IF s \in {"abort", "error"} THEN loop' = "page" /\ page' = page + 1
                                 ELSE loop' = "raster" /\ UNCHANGED page
  /\ UNCHANGED <<faxes, waits>>

(* Mutant: a user who cancels while the number is dialed is not heard. *)
PollAgain_Deaf ==
  \/ Waits /\ UNCHANGED <<call, canceled, place, stream, faxes>>
  \/ ResumePage("error") /\ UNCHANGED canceled

\* One pass of a loop that waits while the device dials or connects.
PollAgain ==
  \/ ~canceled /\ Waits /\ UNCHANGED <<call, canceled, place, stream, faxes>>
  \/ canceled /\ canceled' = FALSE /\ ResumePage("abort")
  \/ ~canceled /\ UNCHANGED canceled /\ ResumePage("error")

WhileDialing ==
  /\ InPages("dialing") /\ Used
  /\ \/ PollAgain
     \/ /\ call \notin {"abort", "error"}
        /\ loop' = "connecting" /\ UNCHANGED <<page, chunk, stream, faxes, waits, call, canceled>>
     \/ ResumePage(call) /\ UNCHANGED canceled

WhileConnecting ==
  /\ InPages("connecting") /\ Used
  /\ \/ PollAgain
     \/ ResumePage(call) /\ UNCHANGED canceled

-----------------------------------------------------------------------------
(* hp-sendfax *)

Ended == state \in {"done", "dead"}

ThreadUnchanged ==
  UNCHANGED <<job, state, call, place, stream, faxes, monitor, waits, reports>>

\* The loop over the update queue ends with an error, a busy device or a
\* completed job; an aborted job does not end it.
SeeReport ==
  /\ client = "watch"
  /\ \E i \in DOMAIN reports : reports[i] # "IDLE"
  /\ client' = "join"
  /\ ThreadUnchanged /\ UNCHANGED <<dev, canceled>>

\* Ctrl-C
Interrupt ==
  /\ client = "watch"
  /\ client' = "join"
  /\ canceled' = TRUE
  /\ ThreadUnchanged /\ UNCHANGED dev

\* The thread has ended, or a Ctrl-C ends the join: the device is closed.
JoinThread ==
  /\ client = "join"
  /\ client' = "closed"
  /\ dev' = FALSE
  /\ ThreadUnchanged /\ UNCHANGED canceled

Join == Ended /\ JoinThread
InterruptJoin == ~Ended /\ JoinThread

-----------------------------------------------------------------------------

Init ==
  /\ docs \in Docs
  /\ cover \in Covers
  /\ early \in EarlyOpens
  /\ state = "sender" /\ call = "none" /\ loop = "none"
  /\ recipient = 0 /\ list = << >> /\ f = [claimed |-> 0, pages |-> << >>]
  /\ page = 0 /\ chunk = 0 /\ stream = << >> /\ faxes = << >>
  /\ monitor = FALSE /\ waits = FALSE /\ dev = FALSE /\ canceled = FALSE
  /\ reports = << >> /\ client = "watch"

Thread ==
  \/ Aborted \/ Success \/ Failed \/ Busy
  \/ ReadSenderInfo \/ PreRender \/ CountPages \/ NextRecipient \/ CoverPage
  \/ SingleFile \/ MergeFiles \/ SendFax \/ Cleanup
  \/ Abort \/ CallError \/ DeviceBusy
  \/ DeviceOpen \/ SetToken \/ EarlyOpening \/ CheckIdle \/ StartRequest \/ SetParams
  \/ LateOpening \/ SendDialStrings \/ SendFaxHeader \/ SendPages
  \/ SendEndOfStream \/ WaitForComplete \/ ResetToken \/ CloseSession
  \/ LeavePages \/ BeginPage \/ PageUnread \/ SendChunk \/ WhileDialing \/ WhileConnecting

Next == Thread \/ SeeReport \/ Interrupt \/ Join \/ InterruptJoin

\* The thread is run and its exit ends the join; nothing is asked of the
\* device, which may dial for ever.
Spec == Init /\ [][Next]_vars /\ WF_vars(Thread) /\ WF_vars(Join)

-----------------------------------------------------------------------------

\* The files of a recipient as they are on the disk, in the order they are
\* to be seen in.
PagesFor(r) ==
  LET files == (IF cover THEN <<CoverOf(r)>> ELSE << >>) \o docs
  IN FlattenSeq([i \in DOMAIN files |-> PagesOf(files[i])])

WholeFax(r) ==
  LET pages == PagesFor(r) IN
    <<DialStrings(r), FaxHeader(Len(pages))>>
      \o FlattenSeq([i \in DOMAIN pages |-> RecordsOf(pages[i])]) \o <<EndOfStream>>

(* A stream that has been ended (SEND_END_OF_STREAM) is the fax of its     *)
(* recipient and nothing else: his number, his cover page, and each page   *)
(* of the job framed and whole, whatever failed, timed out or was canceled *)
(* on the way, and whatever the call before has left in the stream.        *)
EndedIsWhole ==
  \A i \in DOMAIN faxes :
    (faxes[i] # << >> /\ Last(faxes[i]) = EndOfStream) => faxes[i] = WholeFax(i)

(* "Completed successfully." (sendfax.py): STATUS_COMPLETED is reported    *)
(* only when the stream of every recipient has been ended, and no call was *)
(* made twice.                                                             *)
CompletedIsSent ==
  (\E i \in DOMAIN reports : reports[i] = "COMPLETED") =>
    /\ Len(faxes) = Recipients
    /\ \A i \in DOMAIN faxes : faxes[i] # << >> /\ Last(faxes[i]) = EndOfStream

(* A cancel is heard wherever the job is, whatever the device answers: the *)
(* thread ends, hp-sendfax closes the device, and it stays closed, even if *)
(* a second Ctrl-C closed it under the thread.                             *)
CancelEnds == canceled ~> [](Ended /\ client = "closed" /\ ~dev)

=============================================================================
