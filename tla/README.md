# HPLIP: TLA+ specifications

HPLIP connects CUPS, SANE and the HP desktop tools to HP printers, scanners and
faxes. Everything that talks to a device does so through **libhpmud**
(`io/hpmud/`), a C library that multiplexes *channels* (print, PML, scan, fax,
web server) over one USB device, a network socket or a parallel port. Its clients
are the CUPS backend `hp`, the SANE backend, the Python tools and a status daemon
of three processes. This directory models the parts in which several actors,
failures and unlucky orders matter.

| Module | Models | Theorems in |
|---|---|---|
| `MusbSession` | devices, channels and interface claims of several processes on one USB device (`hpmud.c`, `musb.c`) | `MusbSession_proofs` |
| `MusbHistory` | a history of each session, for what `musb.c` promises of its transports | `MusbSession_proofs` |
| `Dot4` | the IEEE 1284.4 transport: packets, credit, unsolicited packets (`dot4.c`, `musb.c`) | `Dot4_proofs` |
| `ChannelStreams` | what a transport promises its channels; `Dot4` implements it | `Dot4_proofs` (`StreamsKept`) |
| `RawWrite` | writes with a timeout, carried out by a thread (`musb.c`) | `PrintPath_proofs` |
| `HpBackend` | a print job and the thread that watches the printer (`prnt/backend/hp.c`) | `HpBackend_proofs` |
| `StatusPipes` | hpssd and hpdio, their pipes and signals, the handover of faxes (`hpssd.py`, `hpdio.py`, `fax/`) | `StatusPipes_proofs` |
| `EventHistory` | the ring buffer of event histories (`base/utils.py`, `hpssd.py`), part of `StatusPipes` | |
| `RecentEvents` | "the last *n* events"; the histories of `StatusPipes` implement it | |
| `LedmScan` | a scan over LEDM: hp-scan, its scan thread, the SANE session (`scan.py`, `scan/`) | `LedmScan_proofs` |
| `RasterPage` | the rows of a page through the print filter hpcups (`prnt/hpcups/`) | `PrintPath_proofs` |
| `FaxSend` | sending a fax: the PML send thread and hp-sendfax (`fax/`, `sendfax.py`) | `FaxSend_proofs` |
| `FoldLemmas` | (lemmas) what `FlattenSeq` and `FoldLeft` of the community modules compute | `FoldLemmas` |

`MC*.tla` instantiate them for TLC, `MC*_<run>.cfg` are the runs listed in
`PROJECT.json`. Run one with `tlc -workers 2 -config MCDot4_channels.cfg MCDot4`,
check proofs with `tlapm StatusPipes_proofs.tla`. Operators marked *Mutant* in the
modules are plausible mistakes; `PROJECT.json` says which property each of them
violates when it takes the place of the definition that follows it.

## 1. Inventory

### Components, their state, and how they interact

- **libhpmud session** (`io/hpmud/hpmud.c`, `musb.c`). One `mud_device` per
  process (`HPMUD_DEVICE_MAX` is 2, slot 0 unused) with `index`, `io_mode`,
  `channel_cnt`, `mlc_up`, `mlc_fd`, and its `mud_channel`s with `client_cnt`,
  `fd`, credit and buffer. `fd_table[]` holds a libusb handle for every interface
  the process has claimed. Processes share nothing but the kernel's claims and
  what the peripheral remembers. *Hard:* the order of opens and closes decides
  when the transport comes up and down; failed opens; a process that dies.
  *Correct if* counts match, an open channel keeps its interface, a closed device
  holds none, and no channel uses a transport its process did not bring up.
- **Transports** (`dot4.c`, `mlc.c`). Per channel `ta.h2pcredit` and
  `ta.p2hcredit`, `rbuf/rindex/rcnt`. Called with `device[].mutex` held; the
  peripheral acts in parallel. *Hard:* replies, credit and data of any channel
  arrive in any order, also while a particular reply is awaited, also after the
  wait was given up. *Correct if* no byte and no credit is lost or invented, a
  packet is only sent with credit, and every call returns.
- **USB writes and reads** (`musb_write`, `write_thread`, `musb_read`). Per file
  descriptor `write_active`, `write_buf`, `write_size`, `write_return`, `tid`.
  *Hard:* the caller's timeout races with the completion of the transfer; the
  thread outlives the call, sometimes the session. *Correct if* what is reported
  as written was written, once and in order.
- **PML** (`pml.c`), **JetDirect** (`jd.c`), **parallel port** (`pp.c`): clients
  and alternatives of the above. PML adds requests with replies and traps,
  JetDirect sockets per channel.
- **CUPS backend hp** (`prnt/backend/hp.c`). `main` writes the job,
  `pjl_read_thread` reads unsolicited status; they share `struct pjl_attributes`,
  a mutex and a condition variable, and the device mutex. *Hard:* start and end
  of the thread, stale status. *Correct if* the job pauses when the user is needed,
  goes on afterwards, is reported done only if sent, and the backend exits.
- **Print filters** (`prnt/hpcups/`, `prnt/hpijs/`). hpcups counts blank rows,
  keeps rows back for smoothing, codes a row as its difference from the row before
  it, and buffers commands. *Hard:* each of these is state that a skip, a flush or a
  new page has to bring back in step with the printer. *Correct if* the paper shows
  the raster.
- **SANE backends and hp-scan** (`scan/sane/`, `scan.py`, `scan/sane.py`). A
  session per scanner, shared by the main thread and a scan thread; `http.c` under
  the LEDM, SOAP and eSCL backends. *Hard:* a cancel in the middle of a read; a start
  that fails half way; a page that breaks off; other clients of the scanner.
  *Correct if* pages are whole, nothing stays open or running, and hp-scan ends.
- **Status daemon** (`hpssd.py`, `hpdio.py`, `systray.py`): three processes
  joined by pipes and D-Bus signals; hpssd keeps a device cache, an event history
  (ring buffer) and faxes waiting for `hp-sendfax`. *Hard:* signals and pipe
  contents are matched by length only; blocking pipes; a fifo per fax. *Correct if*
  a device shows its own status and history, a fax is handed over whole, and
  nobody waits for ever.
- **Fax sending** (`fax/`, `sendfax.py`): a state machine per device type in a
  thread, with an event queue (cancel) and an update queue. *Hard:* errors inside nested
  loops, cancels taken in one loop and needed in another, a second Ctrl-C.
  *Correct if* a stream that is ended is the whole fax, success means sent,
  and a cancel is obeyed.
- **Everything else** (`base/`, `cupsext`, installer, user interfaces, photo
  cards, `ip/`, PPDs): parsing, tables, argument conversion and dialogs.

`PROJECT.json` lists every component with its status, and under `hazards` the
places where the code is hard to test, each with the properties that would catch it
going wrong, or the reason why none does.

### Plan

Done, in this order: `MusbSession`, `Dot4`, `RawWrite`, `HpBackend`; then
`ChannelStreams` with the refinement of `Dot4`, `StatusPipes` with `EventHistory`
and `RecentEvents`, `LedmScan`, `RasterPage`, `FaxSend`; theorems about
`MusbSession`, `HpBackend`, `RawWrite`, `StatusPipes`, `FaxSend`, `LedmScan`, `Dot4`
and `RasterPage`.

Left, the most useful first:

1. `Mlc`, as a second implementation of `ChannelStreams`.
2. `MusbRead` (timeouts as functions on `struct timeval` against elapsed time),
   `Pml` (requests, replies and traps on a channel of `ChannelStreams`), `Jd`.
3. The LEDM and SOAP fax threads, the SOAP and SCL/PML scan backends.

## 2. What is modelled

### MusbSession

State: per process `index`, `io_mode`, `channel_cnt`, `mlc_up`, `mlc_fd` of its
device, `client_cnt` and `fd` of each channel, and `hd`, the descriptors whose
interface it has claimed; shared: who holds each interface is derived from `hd`
through `Interface`, and `link`, the process for which the peripheral has the
transport of an interface up. One action per library call; a call is split where
another process can see it half done: `OpenDevice`/`OpenDeviceEnd` and
`Query`/`QueryEnd` (an interface is claimed only to read the device id), and
`OpenTransport`, `TransportInit`, `TransportSocket` (the open holds its claim while
it talks to the peripheral). `CloseChannel` and `CloseDevice` release; `Exit` and
`CleanupChannel`/`CleanupDevice` are `mud_exit` with `device_cleanup`; `Crash` drops
the claims of a process and leaves the peripheral as it is.

`FirstChannel` and `LastChannel` are the two decisions on `channel_cnt`. Choices
of the environment: which interface a descriptor is found on (`Interface`, a
constant: the same number for two alternate settings), whether the peripheral
answers, when processes come and go. `Disciplined` says that clients close their
channels before the device, as all clients in the repository do.

`MusbHistory` adds a history variable, `mixed`: whether the process has had a
composite channel and a transport channel open together since it opened the
device. The transport properties of the run hold while it is false, and
section 5 shows what happens when it is true.

### Dot4 and ChannelStreams

One process, one device; the host executes one call at a time (`proc`, `ch`,
`step`), packet by packet. `toDev` and `toHost` are the two directions of the bulk
pipe. The peripheral (external) answers a command or refuses it, grants credit and
sends data whenever its own state allows it. What peripheral and clients there are
is chosen at the start from `Profiles` (`use`): phoenix mode or not, sizes of packets and
reads, bounds on bytes, credit and packets in flight, and how often host and peripheral may lose
step (`lost`): an answer comes too late, the peripheral sends an Error (`DevError`: it drops the
transport), or `errno` is `EIO` where `Dot4Init` looks at it.

Actions follow the functions: opening a channel is `OpenChannel`, then `InitReply`
(first channel only), `GetSocketReply`, `OpenReply`; a write is `StartWrite`, and
per packet `CreditRequest` (phoenix mode) or `ReverseCmd` (otherwise) without
credit and `ForwardData` with it; a read is `ReadBuffered`, or `StartRead`, `CreditReply`
and then `ReadData`, `ReadMeanwhile`, `ReadInvalid` or `ReadTimeout`; `CloseChannel`,
`CloseReply`. `ReplyMeanwhile` with `ExecReverseCmd` is the loop of
`Dot4ReverseReply` over everything that is not a reply; `ReplyBad`, `ReplyTimeout`
and the bound on tries are the error paths. An Error ends the wait for a reply (`EndsWait`) and fails
the write that meets it in `Dot4ReverseCmd` (`ReverseCmdFails`); `Dot4ReverseData` drops it. `Dot4Init`
has a second try (`InitAgain`): after a timeout it sends Init again, and on `EIO` it waits again without
sending; nothing clears `errno` before, so that either may happen. `CutBuf` is `cut_buf`.

Data: a payload is a length and the number of its first byte on that channel; the
only property of its contents that matters is whether the first byte has bit 7 set
(`hiBytes`). Bytes that stay in `rbuf` when it is emptied are zeros. When the host
takes a payload for a header the stream has lost its framing; what follows is a
`junk` packet, taken like a packet of an invalid channel. USB writes of the transport succeed.

`ChannelStreams` knows no commands and no buffers: per channel it has the bytes
sent and not read, the bytes read, and the packets granted and not written; the
peripheral extends, a read takes from the front, a write uses a grant of its own channel, and
only one channel moves at a time. The refinement (`Streams`, `KeepsStreams`) maps
`unread` to what is buffered followed by what is in the pipe, and `granted` to the
peripheral's count. A channel is `held` while its client holds it and no call is
opening or closing it, and until host and peripheral lose step (then
everything is in doubt, and the abstract state fails as a whole).

### RawWrite

The client writes a job buffer by buffer and sends again what a partial write did
not take (`Retry`), or goes on to the next buffer (`Skip`, with `MoveOn`). `Kick`,
`KickFails`, `Join`, `Wake` and `Timeout` are `musb_write` inside the loop of
`musb_raw_channel_write`; `ThreadStart`, `Transfer`, `TransferEnds`, `Signal` and `Die`
are the thread. The bytes of a job are numbered; `received` is what the
peripheral took, `acked` what the client was told. `libusb_bulk_write` returns the
length transferred and no error. A thread is scheduled within the timeout (of
seconds) of the call that created it.

What may fail (`Errors`): no thread is created (`KickFails`: the call returns and leaves
`write_active` set); the thread finds no endpoint (`NoEndpoint`, and the call returns by
`WakeError`); a transfer breaks off on a connected peripheral, with none or some of its bytes
sent (`TransferFails`). Beside these the peripheral may be unplugged, and a client may give up a buffer
(`movedOn`). The guarantees are for jobs in which the client does not, whatever fails, and in the
presence of jobs in which it did.

### HpBackend

`pc` is the place of `main`, `th` that of `pjl_read_thread`; between them `pa`
(`current_status`, `eoj_pages`, `abort`, `done`, uninitialised at first), the mutex
(held by main from its look at `done` to its wait; the thread's critical sections
are one step) and the condition variable with lost signals and spurious wakeups.
While main is in `hpmud_write_channel` it holds the device mutex, so the thread
cannot read (`ThreadRead`). Any write may fail or fall short, whatever the printer's condition, and
what is left is written again, without bound (`EndWrite`, `LoopTest`). The printer (external) runs out of paper and is looked
after, and reports both once reports are enabled. Statuses are the three classes
`loop_test` distinguishes; messages to the user, the saved copy of the job and the
waits themselves are left out.

### StatusPipes, EventHistory and RecentEvents

`ssd` is where hpssd is in its handlers (its event loop handles one message at a
time), `io` where hpdio is in its loop. `HandleRequest` and `SendEventToHpdio` pass a
request on through the pipe `w2`; `TakeEvent`, `QueryDevice`, `WriteReply` (a
pipe's worth at a time, waiting for room in `r3`) and `SendReply` (the signal)
answer it; `HandleReply`, `ReadReply` and `EndReply` are `handle_hpdio_event`, which
reads until the pipe is empty or the length fits and drops what does not load.
`aliased` and `dqs` are `response`, which in the code *is* the `dq` of the device
object queried last. A fax job is `StartJob` (the print job of `render_file`),
`HpfaxBegin` and `HpfaxEnd` (the backend), `HandleRendered`, `OpenFifo` and `SaveFax` (one
handler of hpssd, which stands still meanwhile), `CheckForWaitingFax` and `GiveUp`
(the client's polling), `CancelJob` (CUPS kills the backend).

A reply is a run of units that name the query they answer; a reply that loads must be all
of one query. Of its length hpssd compares only whether it is the one it was told, so that a device is
shown its own status only if it is one of `ToldApart`: no run of replies that begins with another device's is as long
as a reply for it. `session` and `system` are the two buses, each in order. A backend CUPS
kills in the middle of a fax leaves a torn one, which the code hands out (`cut`);
one whose client gave up is `short`, and nobody asks for it. With `KillEarly` a backend may
also be killed before hpssd opened its fifo, and is `dead`. `Jammed` and `DeadFifo` are the two states in which
the daemons wait for ever: both pipes full, and the fifo of a dead backend.

`EventHistory` is `RingBuffer` and `RingBufferFull` with `create_history`: a list
that turns into a ring on the append that fills it, in which an event that
repeats the newest one takes its place. `RecentEvents` says the same of sequences.

Left out: the tray process and its one-way pipe; devices going active and
inactive; polling requests, which nobody sends; the user-visible names in a `dq`. Every
event names a device.

### LedmScan

hp-scan's main thread (`main`), the thread `ScanThread` of the page (`rd`), and a thread in
`sane_cancel` (`cancel`) share the SANE session: `job`, `page`, `ip` and `http` handles,
the place in `get_ip_data` (`at`) and the buffer. `sane_start` and `sane_read` run
without the interpreter lock, `sane_cancel` and `sane_close` with it, so that a cancel
meets a read at any point of it. A start is `StartScan`, `IsPaperInAdf`, `ScannerStatus`,
`CreateJob` or `NextPage`, `PollJob`; a read is
`ReadScan`, `EnterRead`, `GetIpData`, then `GetSize`, `GetData`, `GetCrlf`, `ParseHeader`
and `Convert` (with their failures, that of `ipConvert` on data among them) to `ReturnRead`; its end, on failure or the
end of the page, is `CloseIp`, `EndPage`, `ClosePage`; a cancel is `CancelFlag`, `CancelIp`, `CancelPage`, `CancelClose`,
`CancelOpen`, `CancelRequest`. Each of them tests a handle in one step and closes and resets it in
the next, so that two threads may find the same handle. `WaitForScanActive`, `SeeError`, `KeepPage`, `NoData`,
`KeyboardInterrupt`, `Finally` and `CloseScan` are the loops of `scan.py`.

A page is a sequence of units, sent in chunks with sizes and ends. Up to `MaxFaults`
exchanges or reads fail. `get_size` ignores a read that fails: after a chunk whose data or CRLF did not come in
time it takes whatever line comes next for a size, 0 (a quiet end of the page) or any other, or a number its buffer
holds from before (`GetOtherSize`); with no line in seven reads it runs past that buffer. The scanner (external) feeds
sheets, may be stopped at its panel, and serves jobs of others. A handle used or closed after the other thread has
closed it (`UseClosed`, `CancelLost`) and a size read past the buffer (`GetSizeFails`) are undefined
behaviour: the process is `wrecked` and the properties say nothing of it.

### RasterPage

A step is one row, or the start or end of a page or of the job: `DataRow`, `SkippedRow`,
`BlankRow`, `StartPage`, `NewPage`, `EndJob` are the calls of `HPCupsFilter` to `Job`. The
pipeline of `pcl3gui2` (`Ernie`, which keeps four rows back under two indices;
`SendBlack`, Mode 9; `SendColor`, Mode 10) and that of `ljcolor` (Mode 3, with
restarts of raster graphics) end in `Send`, the buffer of the encapsulator. The printer is external: it decodes
a row against its own seed row, and is assumed to clear its seeds at the start and end of
raster graphics, at a Y offset and at a form feed.

A row is named by what it looks like: smoothing changes a pixel by less than its
threshold and keeps the name; an encoded row is the pair *from*, *to*, and gives
`Garbage` on any other seed. `m_iYPos` is never initialised: its first value is any.

Left out: writes that fail, `CancelJob`, the other encapsulators, halftoning and
color conversion, the bytes of the codecs. Rasters with only black never reach `pcl3gui2`.

### FaxSend

`state` is the state of `PMLFaxSendThread`, `call` that of the machine inside it for one
recipient, `loop` the place in its loops over pages and chunks, `client` that of hp-sendfax. One
action per state of either machine; `BeginPage`, `SendChunk`, `PageUnread`, `LeavePages` are
the loops of the pages, `WhileDialing` and `WhileConnecting` the waits inside them.
Every outer state begins with `check_for_cancel`, which empties the event queue where
it looks. The device (external) answers anything, and may be busy or silent.

`stream` is the buffer of mfpdtf records, `faxes` what has been written to the channel; a block that fails
stays in the stream in front of the next. Files come as `pre_render` gets
them: whole, cut short by pages, or no fax at all. `Interrupt` is
Ctrl-C: the first queues the cancel, the second ends the join and closes the device
under the thread, whose next use opens it again. `waits` alternates in passes of waiting loops so that
waiting is a step. `FAX_SEND_STATE_SUCCESS` (`pmlfax.py:491`) has no way in.

Left out: the send threads for LEDM, SOAP and Marvell devices; errors of reading a file
other than a missing page header; a raster that breaks off inside a page (it is sent as the file holds it).

## 3. What is checked

| Run | Shows |
|---|---|
| `sessions` | Two processes print, use PML and the web server on a device with a composite interface, in 1284.4 or raw mode, with failures at every step, crashes and exits: counts are exact, channels keep their interface, nothing is left claimed; and unless a process mixes both kinds of channel the transport is initialised before use, belongs to the process that uses it, and goes with the last channel. |
| `dot4_channels` | Two channels, five profiles of peripheral and clients: while host and peripheral keep step, `Dot4` implements `ChannelStreams`, credit is exact, no read waits without credit, open channels are open at the peripheral; every call returns, also after a late answer, an Error or an `EIO`. |
| `write_job` | Timeouts that race with completions, failed `pthread_create`, missing endpoints, transfers that break off, unplugging, clients that move on, reopening: where the client sends again what was not reported, every byte goes out once and in order and only what went out is reported, whatever fails; a write that never returns is one whose transfers end again and again with nothing sent. |
| `backend_job` | All interleavings of main, thread and printer, with writes and status reads that fail at any time: the thread stays within the life of what it uses, main pauses, OK means sent, a request to end is answered, and a job never ends only if its writes are repeated again and again with nothing taken. |
| `status_daemons` | Four requests for two devices and a fax job whose backend may die, replies piling up while hpssd stands in a fifo: a device told apart by its lengths shows its own status, each device its own history, a collected fax is whole, and the daemons wait for ever in two states only (both are reached, section 5). |
| `ledm_scan` | Flatbed, feeder and duplex, with a failing exchange or read, other clients, a cancel at the panel and Ctrl-C anywhere: while nothing fails pages are whole and complete and no job is left; whatever fails no channel is left, and a start, the thread of a page, and hp-scan once it watches one end, unless the process is wrecked. |
| `raster_page` | Blank rows anywhere in up to six rows on up to two pages, both languages, any start of the row counter: the paper shows the raster, the seed rows never part. |
| `fax_send` | One or two files, some broken, two recipients, any answers, Ctrl-C twice anywhere: an ended stream is the whole fax, completed means sent, a cancel ends the job with the device closed. |
| `session_ewsfirst`, `dot4_hibytes`, `write_moveon`, `backend_lostwakeup` | Violations: what a comment or the header promises and the code does not do (section 5). |

### Bounds

- `MusbSession`: two processes are enough for any contention for a claim, which is
  between two; two transport channels and one composite give every order of the first and last
  open of a kind and of two kinds. The processes are alike (symmetry; the run has no liveness
  property). Nothing else is bounded.
- `Dot4`: two channels (one in the call, one that is met meanwhile). One or two bytes
  and packets of 1 and 2 bytes let a packet be split over reads, two packets be
  buffered, and credit be exhausted. `flight` bounds the packets on the way when a
  *client* calls, not what the peripheral adds during the call; `credit` bounds what
  is granted beyond what was asked for. `MaxTries` stands for the 45 tries of the credit loop.
  In the lossy profiles the two may lose step once (which leaves one answer too many, or one too few); there clients stop
  when `flight` is reached, hence `CHECK_DEADLOCK FALSE`.
- `RawWrite`: a thread is left over from at most one earlier write, so two threads are
  enough; three buffers of two bytes cover partial writes at a boundary and inside
  a buffer, and a client that moves on before and after; two openings the reopening. A finished job is a
  terminal state, hence `CHECK_DEADLOCK FALSE`.
- `HpBackend`: two buffers, partial writes of each, two times out of paper, three polls
  (of ten) for the end of the job. The backend exits, hence `CHECK_DEADLOCK FALSE`.
- `StatusPipes`: the lengths of the replies are 2 (the printer), 4 (the fax) and 5 (an error), so that two of the
  printer's pass for one of the fax, and the printer is told apart. The pipe of 8 units does not hold a 4 and a 5, so that
  hpdio blocks; `RequestCap` 1 blocks hpssd. Of four requests one is in hpdio's hand, one in the pipe and one in hpssd's
  while replies fill the other pipe: the fourth is what reaches the jam. Two events fill a history, which makes it
  wrap at the third. One job: jobs meet only in the fifo handler, which takes one at a time, but a job is not shown
  another's fax here because there is no other. Jobs and requests end, hence `CHECK_DEADLOCK FALSE`.
- `LedmScan`: two sheets (two sides each, in duplex), two chunks of a page, one fault and what follows from it (a late CRLF and
  the sizes misread after it are no further faults), one job of another client. The run ends, hence `CHECK_DEADLOCK FALSE`.
- `RasterPage`: pages of up to six rows leave the four-row filter with 0 to 3 rows, before and
  after a skip; two pages show what one leaves to the next. A buffer of three commands fills up inside a row. `RestartEvery` 3
  stands for 1200. The job ends, hence `CHECK_DEADLOCK FALSE`.
- `FaxSend`: two recipients show what one leaves to the next; pages of one and two chunks; a file cut
  by a page. Both kinds of device, opened early or late in the call. The job ends, hence `CHECK_DEADLOCK FALSE`.

### Fairness

- `Dot4!FairSpec`: the host goes on inside a call (it is a sequential program whose
  waits all have timeouts), and the peripheral answers commands, perhaps too late. It need
  not send data or grant credit.
- `RawWrite!FairSpec`: the caller and the thread are scheduled. The peripheral
  need not accept anything: `Transfer` is not fair, nor are the failures (`KickFails`, `NoEndpoint`, `TransferFails`) as such: a caller
  and a thread go on, with or without them.
- `HpBackend!FairSpec`: both threads are scheduled; a busy device becomes free or fails;
  whoever needs the mutex, which is only held briefly, gets it (strong fairness); users look
  after the printer. Without the last, `loop_test` waits for ever by design. Reports of
  the printer, read errors and spurious wakeups are not fair.
- `StatusPipes!FairSpec`: hpssd, hpdio and the backends are scheduled (each is one sequential
  process whose waits are guards). Requests, jobs and cancels need not come.
- `LedmScan!FairSpec`: both threads and a started cancel are scheduled, reads end (`http.c` gives up after a
  bounded number of tries), and the scanner goes on with its job. Faults are not fair, nor is the user.
- `FaxSend`: the send thread is scheduled, and its end ends the join. Nothing is asked of
  the device, which may dial for ever, nor of the user.

### Assumptions of the passing runs

As constants: `Disciplined`, `hiBytes = FALSE`, `reopen = FALSE`, `Prompt`, `ThreadFirst`, and the sizes in the
`phoenix` profiles each exclude one situation in which the code misbehaves. As conditions in properties: `mixed`,
`movedOn`, `lost`, `faults = 0` and `wrecked`, and that a device is `ToldApart`. Three liveness properties name the ways
in which the code does not go on, and say that there is no other: `SentNothing` (a write), `NothingTaken` (a
job), `Jammed` and `DeadFifo` (the daemons). Section 5 shows each with the exclusion lifted.

## 4. What is proved

`MusbSession_proofs` proves for every set of processes and channels, any io modes and
any assignment of descriptors to interfaces that satisfy `ConstantsAssumption`:

- `TypeCorrect`: `Spec => []TypeOK`;
- `Released`: `Spec => []ReleasedWhenClosed`;
- `ChannelCount`: `Spec => []ChannelCntExact`, for `Disciplined` clients;
- `ChannelsBacked`: `Spec => []OpenChannelBacked`, for `Disciplined` clients and
  channels that do not need the same interface (`NoSharedInterface`);
- `SocketBackedUnmixed`, `TransportOwned` and `TransportTakenDown`: `HistorySpec =>
  []SocketAfterInitUnmixed`, `[]OwnTransport` and `TransportRemoved`, for `Disciplined`
  clients.

Apart from the first, none of them is inductive. The invariant has five layers. `Inv1` adds to
`TypeOK` what a process inside a call has established (`CallOK`: it has the
device open, its channel is counted, its descriptor is one for transports, a process without a
device holds no interface). `Inv2` makes the count exact, and adds that a device that is not
open has no open channels (which is where discipline is needed) and which channels
are open in the middle of a call: none while a device opens, only the one being
opened while the transport is initialised. Adding or removing a channel changes count and
cardinality together (`FS_AddElement`, `FS_RemoveElement` in `NewChannelCounts` and
`DelChannelCounts`). `Inv3` says what every established channel stands on (`CompBacked`,
`RawBacked`, `TransportBacked`): composite and raw channels on their own descriptor, transport
channels on `mlc_fd`. The lemmas `CompFdDistinct` (from `NoSharedInterface`),
`CompFdApart` and `KindsApart` keep those descriptors apart, so that a close releases only
what no other channel uses; the transport is only taken down by the last channel, for which
`Inv2` provides that no other is open.

The last three theorems relate processes that know nothing of each other. `Inv4` says that
no two handles, of one process or of two, are on one interface (`Exclusive`), and that a
channel without an interface of its own is a transport channel. From the first follows that
a process's `link` and claim are out of the reach of the others (`LinkHeld`, `UpOthers`); from
the second that, in a session that has not mixed the kinds, a channel that makes
`channel_cnt` exceed one stands next to another *transport* channel, so that the decisions on the
count are decisions on the transport. `Inv5` states for such a session that the
transport is up while a transport channel is open or being opened (`HistoryOK`). `Inv5` is
about `HistorySpec` and rests on `Inv1`, `Inv2` and `Inv4`; it does not need
`NoSharedInterface`. TLC checks `Inv4` and `Inv5` too when they are added to the run
`MCMusbSession_sessions`. Each layer is preserved by every action relative to the layers
it rests on, with one step per action.

`Dot4_proofs` proves for any channels, buffer size, width of the counters, and bounds of a
profile that satisfy `ConstantsAssumption`:

- `CreditKept`: `Spec => [](Tame(use) => CreditExact)`;
- `ReadsHaveCredit`: `Spec => [](Tame(use) => ReadHasCredit)`;
- `HeldAtDevice`: `Spec => [](Tame(use) => OpenAtDevice)`;
- `TypeCorrect`: `Spec => [](~use.phoenix \/ (lost = 0 /\ Tame(use)) => TypeOK)`;
- `NothingIsLost`: `Spec => [](Tame(use) /\ Whole(use) => DataConserved)`;
- `StreamsKept`: `Spec => (Tame(use) /\ Whole(use) => KeepsStreams)`, the refinement of `ChannelStreams`.

`Tame` excludes three situations in which the properties fail (section 5): data that
looks like a reply, a channel reopened while another is open, and a phoenix peripheral whose
two unasked packets do not both fit in the buffer. `Whole` excludes a fourth, for the two theorems about bytes: a client of a phoenix peripheral that reads less than a
packet, so that `cut_buf` leaves the rest where it lies while the next packet is stored at `rcnt`. The profiles of
`MCDot4_channels` are tame and whole. The properties speak of channels
only while host and peripheral keep step, and so does the invariant: `IInv` claims `Core` and `Data`
only for `lost = 0`. `lost` only grows (`LostKept`), so that each step is shown for `InStep`: it begins and ends with `lost = 0`, and
is then no timeout and no Error (`NoTimeout`).

For peripherals that are no phoenix, `TypeCorrect` needs none of this: answers may be late and meet a
later call, an Error may drop the transport under open channels, data may be taken for a reply, channels may be reopened with old credit. Its invariant is
`Single`: the host credits one packet of a channel at a time and only while the buffer of the
channel is empty (`OneByOne`: `dot4_channel_read` returns what is buffered before it credits another), so that any packet it
keeps is the first in the buffer, and `Turn`: a read that waits for a credit reply has issued no credit yet,
one that waits for data has issued one. Beside these `Lines` says that `CreditRequest`
is never sent. What `Single` says of buffers and turns was checked by TLC on an instance with late answers, reopening and data with bit 7 set
(not to the end: some 20 million states) before it was proved.
A phoenix is credited two packets at once and asked for credit, and there the states can leave `TypeOK` once an answer is late:
the reply to a `CreditRequest` for one channel that comes late is taken for another's, the host
writes more than it was granted (`devCredit` below 0), and the peripheral's next grant is beyond the bound `credit`.

`Core` has three parts. `Exchange`: between calls nothing is asked or answered;
in a call that awaits a reply the command is on the way, or its refusal, or its answer, and no other
reply is (`Asking`, `Refused`, `Granted`); `Before` and `After` say what is true of the channel before
and after the peripheral has granted the command, so that the three ways of learning of it
(reply, refusal, reply not yet there) have the same books. `Answered` also has the order of packets:
what the peripheral may send because of an answer comes behind it, so that the host
never meets data or credit of a channel before the reply that opens it (`NotEarly`). Then, per channel, the books:
`Standing` (open at both ends or at none), `Granting` (the host's credit and the credit on the way are
the peripheral's), `Reading` (the peripheral's credit and the data on the way are the host's). The sums over
packets on the way are those of `FoldLemmas`, and a packet sent or taken changes them by what it
holds (`WhatAppends`, `WhatLeaves`). Last, the room: the buffer holds what the peripheral may
still send (`Roomy`), which is why a read meets no packet it may not keep: `ReadInvalid` is not
reachable (`NoReadInvalid`). One lemma per action and, for the answers of the peripheral, per command.
TLC checks `Core` too when it is added to the run.

The bytes have an invariant of their own on top of it, `FInv`. A `Run` is a sequence of consecutive numbers between two
bounds; of every channel held, what was read, what the buffer holds and what is on the way are runs that meet, from 0
to `devSent` (`Flowing`), and of one being opened what is on the way is a run from 0. That the host may append at `rcnt` rests on
`Tidy`: as long as the peripheral may send, the buffered bytes begin at the start of the buffer, and whole reads empty it.
Two runs between the same bounds are equal (`RunsEqual`), which turns each step into arithmetic on bounds.
`StreamsKept` uses this twice. `Maps` says what `Streams` shows of a channel: of one that is held, runs from 0 to what was read
and from there to `devSent`, and `devCredit`; of any other, nothing. So a step of the transport is one of `ChannelStreams` as soon as it
moves these numbers of one channel the way that step does (`ReceiveStep`, `ReadStep`, `WriteStep`, `OpenStep`,
`CloseStep`) and those of no other (`Same`). `StepShows` goes through the actions: the end of an opening is `Open`, the begin of a close `Close`,
`ReadBuffered` and `ReadData` are `Read`, `ForwardData` is `Write`, what the peripheral sends or grants is `Receive` if the channel is held, all
the others change nothing that shows. The step in which the two lose step is `Fail`, and so is every step after it.

`HpBackend_proofs` proves, for any number and size of buffers, polls and changes of the
printer:

- `TypeCorrect`: `Spec => []TypeOK`;
- `SentInFull`: `Spec => []OkMeansSent`;
- `Pauses`: `Spec => []PausesOnError`;
- `WithinLife`: `ThreadFirst => (Spec => []ThreadWithinLife)`: the thread gets to run before the first write ends.

`Inv1` is `DataOK` with what it needs to be inductive (the loop of polls ends with its last
one; the thread exists only from the open of the channel on, and is only killed if it was
started). Three invariants are inductive with it. `SentOK`: main asks for the end of the job
only when all is sent. `PauseOK`: `blind` counts only while the status is an error, and
main is at `write` only with `blind = 0`, so that one `BeginWrite` can count before the next
`LoopTest` stops it. `LifeOK`: a thread that still reads has device, channel and mutex and
is not `done`, and main gets past its wait only when `done` is true; this needs
`ThreadFirst`: until the thread begins, main finds in `done` whatever was on the
stack. `TypeOK` is in two parts, the flags being proved apart from the rest because the
provers handle one or the other.

`PrintPath_proofs` proves, of `RawWrite`, for any number of threads, buffers, bytes and openings, whether or not
clients move on, threads fail to start, transfers break off or the peripheral goes away, under `Prompt` (a
killed thread is gone before the next opening):

- `TypeCorrect`: `Spec => []TypeOK`: in particular no transfer runs past its buffer or the job;
- `ReportedWasSent`: `Spec => []AckedWasSent`, `OnceInOrder`: `Spec => []JobInOrder`.

The inductive invariant `IInv` has three parts beside `TypeOK`. `CallInv` ties the client's
place to `total` and `size`. `ThreadInv`: at most one thread lives, it is the one
`tid` names and belongs to the active write (which may have none, when none could be created), outlives its opening only
if killed, and has left its count or an error in `write_return` when it is done. `JobInv`, until the client moves on, is the heart of it: what was
received are the bytes up to what the client knows of plus what the active write has transferred since (nothing, if it
has no thread, or found no endpoint); the active write, whenever it was started, is of the very bytes that follow `Known`. So the
completion of a write that timed out can be counted for the retry that waits for it, and only for that.

`PrintPath_proofs` proves, of `RasterPage`, for every set of rows (`RasterAssumption`: none is blank as a
whole or has a null plane), whichever of them are longer than the buffer, any number of pages and
rows, any size of the buffer and any interval between restarts, in either language:

- `SeedsKept`: `FilterSpec => []SeedsAgree`;
- `PagesKept`: `FilterSpec => []PageAsGiven`.

The proof looks at the printer as it will be once it has taken what is in the buffer (`Settled`). Of
`Send`, `Cleanup` and `Direct` only three lemmas speak (`SendIs`, `CleanupIs`, `DirectIs`): the
settled printer takes the command, in whichever order the buffer goes out, and the real one stays
`Earlier`, so that its pages and its sheet are begins of those it will have. From there on there is no buffer. `Flows`
is the state between rows: host and settled printer agree on both seeds, and a compressor that
has seen no row since it was cleared has a clear seed, which is why `FlushColor` and `FlushBlack` may leave it alone; until
a first black row (`resetSeedRow`) the black seed is clear too, which is what makes it right that rows without
black say nothing of it. `Flushed` is the same with the host's seeds cleared and the printer's
not: each command that clears those (`StartedIs`, `SkippedIs`, `FormFeedIs`) brings them together again. `MakeUp` says of
the page under way that it is the settled sheet, then the rows in the filter under both indices, then
the skipped blanks; it is kept when a row goes into the filter (`KeptIs`, `ErnieIs`), when the filter is full or
flushed (`DrainedIs`, `FlushIs`), when the skipped rows go out (`UnskippedIs`) and when a page of blanks gets its one white row (`OneBlank`).
The filter is between rows at `Rest`: the two indices are equal and nothing is ready, without which the
black of a row would go out with another's color. The inductive invariant `FilterInv` is `Sound`, these put together for each
`phase`. Its operators take `lang` as a parameter, since a fold cannot be compared with its primed form.

`StatusPipes_proofs` proves, for every set of devices and jobs, all sizes of replies, pipes and
histories, and every schedule:

- `HistoryRefines`: `Spec => HistoryIsRecent`, the refinement of `RecentEvents`;
- `FaxesWhole`: `Spec => []FaxWhole`;
- `TypeCorrect`: `Spec => []TypeOK`;
- `DqsOfDevices`: `Spec => [](RepliesShort => DqOfDevice)`.

The first rests on lemmas about the ring (`GetIs`, `NewestIs`, `AppendIs`, `ReplaceIs`, which
locate each element by its index modulo the size, and `RecordedIs`, which brings them together to
`With`) and on two invariants: messages have the form the handler expects (`MessagesOK`: in `data` and `r3` there are only
replies that `loads` can take the code from), and every history is a ring (`HistInv`). Every step then either records one event in one
history or stutters. For the second,
`FaxInv` adds what is in between: a fax in the cache that is not whole is one whose backend was killed, and if
that was because its client gave up, the client does not collect it any more. The types need more than
typing: the answers are numbered `0..MaxRequests`, and that the numbers do not run out is `LedgerInv`. Each request
made is in one place (a signal to hpssd, hpssd's hand, the pipe, hpdio's hand, or answered), so that the queries are no more
than the requests. `PlaceInv` keeps the pipes within their capacity, and `StampInv` says that
the histories are rings of what happened before the present.

`RepliesShort` says that every reply is shorter than `PipeBuf` (a pickle is written at once, and a read that does not empty
the pipe leaves `data` longer than any reply). `DqOfDevice` is about the devices `ToldApart`; nothing is assumed of the others,
nor of the devices as a whole, and for those that are not told apart it would be false (`DqOfAnyDevice` in section 5). `Cut` names the
places between replies in a sequence, and a sequence is `Whole` if there are such places. By `PipeInv` pipe and `data` are
whole, each for itself, or `data` is already longer than any reply, which hpssd drops. A whole `data` as long as a reply for
a device told apart begins with one for that device, or with an error (`WholeTold`): were its first reply another device's, all the
places after it would be among the lengths that `ToldApart` keeps from the reply's own. `loads` takes that first reply,
and `AnnounceInv` has the device the signal names.

`FaxSend_proofs` proves, for every set of files that hold no more pages than they claim to (`FaxAssumption`;
a file that holds more has bytes behind its last page which nobody reads), any number of
recipients, and every order of answers, failures and cancels:

- `EndedIsWholeAlways`: `Spec => []EndedIsWhole`;
- `CompletedIsSentAlways`: `Spec => []CompletedIsSent`.

The inductive invariant `IInv` follows the three machines. `PlaceInv` says which of them can be where
together; `JobInv` what the outer machine has made of the job: the files in the list, one stream for each recipient
called, and that nothing is left in the stream between calls. `CallInv` and `LoopInv` say what the machine
inside and the loops over pages and chunks have sent: before the end of the stream `faxes[recipient] \o stream` is
`Sent(f, recipient, k)`, the records up to page *k*, or `SentPart` inside a page. An error or a cancel
leaves a torn stream, of which only `EndedInv` speaks: nothing more than what `FAX_SEND_STATE_ABORT` and
`_ERROR` do can reach it, and neither writes the record that ends a stream. What makes it go through is a
count: the loop over pages ends well only when `claimed` pages were read, which the joined file holds only if each of
its files holds what it claims (`FlattenedLength`: a concatenation is no longer than the sum of what its parts are
bounded by). `ReportInv` carries `CompletedIsSent` to the end of the thread.

`LedmScan_proofs` proves, for every list of chunk sizes a page may be sent in (at least one chunk, which has the
image's header), any number of sheets, of faults and of jobs of other clients, and every schedule of the two
threads, the cancel and the scanner:

- `TypeCorrect`: `Spec => []TypeOK`; `ChannelsClosed`: `Spec => []NoChannelLeft`;
- `JobsEnd`: `Spec => []NoJobLeft`; `PagesKept`: `Spec => []PagesWhole`.

The inductive invariant `IInv` has two layers. `ControlInv`, kept whatever fails, says where the main thread,
the scan thread and a cancel can be together (`PlaceInv`) and at which of these places the session's handle
has a channel (`HttpInv`). `PagesInv` adds the session's job (`JobInv`, `FlagInv`, `IdleInv`) and, while nothing has
failed, the page. A page in transfer is `Held`: for some number of chunks taken, what is in the image followed by what
is in `ps->buf` are the units of these chunks, and the stream holds the page from there (or from the end of the chunk)
on; or all of it was taken. Nothing then reads where no size is, so that `GetOtherSize` is no step of such a scan
(`GetOtherSizePages`); except for a job the scanner has ended, of which a start finds an `Empty` stream, takes any number
for a size there, and fails for want of an image (`EmptyOn`). The lemmas `HeldSize`, `HeldData`, `HeldCrlf`, `HeldUsed`, `HeldNext` and `HeldEnd` say what
a size, the data, the end of a chunk, `ipConvert` and an empty buffer make of it. They locate each unit in the
stream of a page by the sum of the chunk sizes before it (`StreamHas`). `Sending` and `Counted` relate the pages
kept to those the scanner has fed, which gives that none is missing at the end. Each layer is kept by every action: one
lemma per action and layer.

`FoldLemmas` has what these proofs need of the two operators of the community modules that the models take for
joined and summed sequences. Both are recursive tables chosen by their equation, so that first such
a table must be shown to exist, and to be the only one on what two sequences have in common. From there it says
how long a concatenation is and where each element of its parts is (`FlattenedLength`, `FlattenAt`), and how a sum grows
(`SumGrows`). The induction theorems of the
library take an operator and cannot be used; `Induction` says the same of a set of naturals, and
follows from the well-foundedness of finite sets under strict inclusion
(`FS_StrictSubsetOrderingWellFounded`). A lemma cannot take an operator either, so that the tables behind `RasterPage`'s folds are
shown to exist in `PrintPath_proofs` once more (`TakenTable`, `DrainTable`).

Only model-checked: all liveness, which is out of reach of the prover. Of the safety and action properties of the
passing runs, each is stated by a theorem, under the conditions named there; the types of a phoenix in `Dot4` once the two lost step
are checked by `MCDot4_channels` for the profile of that run only.

## 5. Where the code and its comments part

Four deviations have a run of their own:

- `session_ewsfirst`: the "first MLC channel" of `musb.c:1806` is decided on the
  count of *all* channels, so with the web server channel open a 1284.4 channel is
  opened on a transport nobody initialised.
- `dot4_hibytes`: `Dot4ReverseReply` takes any packet whose seventh byte has bit 7
  set for the reply, also a data packet (every PML reply is one), which is lost.
- `write_moveon`: after a timeout the next write waits for the old one and returns the
  old one's length as its own.
- `backend_lostwakeup`: `done` is set and signalled without the mutex; the backend may
  wait for ever.

The models show more of them; to see one, change a configuration as follows (each was
found violated by TLC).

| Change | Fails | Code |
|---|---|---|
| `MCMusbSession_sessions`: check `[][\A p \in Procs : RemovesTransport(p)]_vars`, also of processes that mix | the last 1284.4 channel closed with a composite channel open leaves the transport up and claimed | `musb.c:1892` |
| `MCMusbSession_sessions`: check `MlcUpMeansUp` | `mlc_up` outlives the claim, and the device, when an open fails after `Dot4Init` | `musb.c:1210` |
| `MCMusbSession_sessions`: check `EwsShareable` | over USB the web server channel is exclusive too, against `hpmud.h:267` | `musb.c:1574` |
| `MCMusbSession_sessions`: `Disciplined = FALSE` | `ChannelCntExact`, `OpenChannelBacked`: channels outlive their device | `hpmud.c:342` |
| `MCDot4_channels`: a phoenix profile with 3 bytes, packets and reads of 1 and 2; `BufSize = 4` | `KeepsStreams`: a second unsolicited packet is stored at `rcnt`, not behind the buffered bytes, after a partial read | `dot4.c:84` |
| `MCDot4_channels`: a phoenix profile with packets of 2 bytes | `CreditExact`, `ReadHasCredit`: the second unsolicited packet finds no room and is dropped with its credits | `dot4.c:79` |
| `MCDot4_channels`: a profile with `reopen` | `ReadHasCredit`: `p2hcredit` of the former life of a channel | `musb.c:2019` |
| `MCDot4_channels`: check `HostKnows` | an Error fails one call, or none: the channels stay open on a transport the peripheral has dropped | `dot4.c:134` |
| `MCRawWrite_job`: check `ActiveHasThread` | after a failed `pthread_create` the write stays active: every later write of the opening waits for a thread that is not there | `musb.c:1040` |
| `MCRawWrite_job`: check `CallEnds` | transfers that end with an error and nothing sent are repeated for ever: the timeout is per transfer, and `libusb_bulk_write` gives 0 | `musb.c:1456` |
| `MCRawWrite_job`: check `AbortsLive` | a thread that has ended is sent a signal | `musb.c:553` |
| `MCRawWrite_job`: `Prompt = FALSE` | `JobInOrder`, `AckedWasSent`: a killed thread ends the write of the next session | `musb.c:553` |
| `MCHpBackend_job`: check `KillsLive` or `SignalsLive` | `pthread_kill` of a thread that has ended; a condition variable destroyed before it is signalled | `hp.c:999`, `1004` |
| `MCHpBackend_job`: check `JobGivesUp` | a write that fails on a printer without an error is repeated without bound ("IO error, get printer status" ends nothing) | `hp.c:890` |
| `MCHpBackend_job`: `ThreadFirst = FALSE`, and check `AbortSticks` or `StatusSet` too | `AbortAnswered`, `ThreadWithinLife`, `AbortSticks`, `StatusSet`: the thread initialises `pa` after main used it, and the request to end is lost | `hp.c:362` |
| `MCStatusPipes_daemons`: check `DqOfAnyDevice` | two replies for the printer are as long as one of the fax: the fax is shown the printer's status | `hpssd.py:338` |
| `MCStatusPipes_daemons`: check `DqIsLast` | replies that meet in the pipe are dropped: the cache keeps an older status | `hpssd.py:92` |
| `MCStatusPipes_daemons`: check `DqComplete` | `response` is cleared although it is the device's `dq` | `hpdio.py:102` |
| `MCStatusPipes_daemons`: check `NeverStuck` | hpssd writes a request to the full pipe of an hpdio that writes a reply to the full pipe of hpssd; or (with `MaxRequests = 1`) hpssd opens the fifo of a backend killed early: neither ends | `hpssd.py:537`, `hpdio.py:190`; `hpssd.py:262` |
| `MCLedmScan_scan`: check `CancelSafe` | a cancel takes the handles from under a read (`sane.py:354` "Cancel an in-progress scanning operation") | `ledm.c:1046` |
| `MCLedmScan_scan`: check `Defined` | the same, as the undefined behaviour it leads to; with no cancel, a chunk size that never comes is read past its seven bytes | `bb_ledm.c:1057` |
| `MCLedmScan_scan`: check `HpScanEnds` | a thread that has ended before `waitForScanActive` looks is waited for, for ever | `scan.py:926` |
| `MCLedmScan_scan`: check `KeptWhole` | a timeout at a chunk ends the page: it is kept cut short | `scan.py:958` |
| `MCLedmScan_scan`: check `NoJobEverLeft` | a start that fails after the job was created leaves it at the scanner | `ledm.c:999` |

Beside these, in the code that the models follow: a device hpdio does not support answers `{}`, which is
shown as idle; hpfax that gets no data leaves without the end event and does not remove its
fifo; a fax file cut short ends the send thread with an exception, and hp-sendfax watches on until
Ctrl-C (`sendfax.py:531`). Outside the models: `handle_event` raises for a user event without a device URI
(`hpssd.py:461`); a cancel taken from the event queue of the scan thread calls a method that does not
exist (`sane.py:588`, hp-scan does not use that queue); the result of a full buffer's write is dropped
(`Encapsulator.cpp:139`); hpcups' signal handler writes to the printer in the middle of whatever command it
interrupts (`HPCupsFilter.cpp:60`); a fax device's job token is set without looking whose it is (`pmlfax.py:521`).

## 6. What is not modelled

- Contents: device ids, URIs, PML objects, PJL text, pixels, fax encodings.
- Reads with a timeout (`musb_read`). Its arithmetic on `struct timeval` (`musb.c:1132`) is a
  function of two times in one sequential loop: in the transports a read gives a packet or times out, whenever.
- The PML client (`pml.c`), beyond the gets and sets that `FaxSend` sees succeed or fail. Over
  1284.4 its requests are writes and reads of `Dot4`; that a late answer is taken for the
  next request's (`pml.c:390`) is the hazard left open.
- JetDirect channels (`jd.c`): a socket per channel, no multiplexing. The socket a failed connect
  leaves in its slot (`jd.c:371`) stays open.
- MLC (`mlc.c`), the twin of 1284.4 with one byte credits; its channel open and close are in `MusbSession`. The
  parallel port (`pp.c`) and libusb 0.1 (`musb_libusb01.c`), which repeat the session code of `musb.c`.
- In `MusbSession`, calls of several threads of one process: they are serialised by
  `device[].mutex`; probing (`hpmud_probe_devices`) claims nothing for longer than a call; descriptors
  are not probed again after an unplugging (`musb.c:1410`).
- In `Dot4`, failed USB writes, and the services of the peripheral beyond 1284.4.
- In `RawWrite`, the other users of `musb_write` (the transports, whose writes are small).
- In `HpBackend`, device discovery, D-Bus events, copies (a copy is more buffers), a
  failed `pthread_create`.
- What section 2 names as left out of the other modules.
- The color maps, halftoning and image code of the print filters and of `ip/`, which is most of the
  repository by lines: pixel arithmetic and tables without states or actors, which a model
  checker would only repeat. So are device tables, PPDs, the installer and the dialogs.
- The components listed as `not_modelled` in `PROJECT.json`, with the reason.
