---------------------------- MODULE StatusPipes ----------------------------
(***************************************************************************)
(* The status daemon: hpssd (D-Bus and the device cache) and hpdio (device *)
(* i/o), two processes joined by a pipe in each direction and by signals   *)
(* on the session bus, with the hpfax backends that hand a rendered fax    *)
(* over in a fifo and the sendfax clients that collect it.                 *)
(*                                                                         *)
(* A reply of hpdio is a pickled dictionary, here a run of units; PipeBuf  *)
(* units are written and read at a time.  A reply is told apart by the     *)
(* query it answers.                                                       *)
(***************************************************************************)
EXTENDS EventHistory

CONSTANTS Devices,      \* device URIs
          FaxDevice,    \* the one fax jobs go to
          Jobs,         \* fax print jobs
          PipeBuf,      \* units written and read at a time
          DqSize,       \* units of the dq of each device
          ErrorSize,    \* units of the reply for a device that does not open
          Statuses,     \* statuses a device that opens may have
          ReplyCap,     \* units the pipe to hpssd holds
          RequestCap,   \* events the pipe to hpdio holds
          MaxRequests,  \* bound: update requests
          KillEarly     \* hpfax may be killed before hpssd opens its fifo

ASSUME ConstantsAssumption ==
    /\ FaxDevice \in Devices /\ DqSize \in [Devices -> Nat \ {0}]
    /\ {ErrorSize, PipeBuf, ReplyCap, RequestCap, MaxRequests} \subseteq Nat \ {0}
    /\ KillEarly \in BOOLEAN

VARIABLES
    ssd, cur, data,           \* hpssd: where it is, message it handles, what it read
    cache,                    \* devices[uri].dq and .faxes
    history, clock,           \* devices[uri].history; time
    session, system,          \* signals to hpssd not handled yet
    w2, r3,                   \* pipes hpssd -> hpdio -> hpssd
    io, dev, dqs, aliased,    \* hpdio: where it is, event's device, dq of devices, response
    reply, left,              \* hpdio: reply in hand, units of it to write
    asked, queries,           \* bounds: requests sent, queries made
    fax, sendfax              \* backend and client of each job

ssdVars == <<ssd, cur, data>>
known == <<cache, history, clock>>
dio == <<io, dev, dqs, aliased, reply, left, queries>>
jobs == <<fax, sendfax>>
vars == <<ssdVars, known, session, system, w2, r3, dio, asked, jobs>>

None == [kind |-> "none"]
Codes == Statuses \cup {"ioerror", "start", "end"}

Init ==
    /\ ssd = "loop" /\ cur = None /\ data = <<>>
    /\ cache = [d \in Devices |-> [dq |-> None, faxes |-> {}]]
    /\ history = [d \in Devices |-> EmptyRing] /\ clock = 0
    /\ session = <<>> /\ system = <<>> /\ w2 = <<>> /\ r3 = <<>>
    /\ io = "select" /\ dev = FaxDevice /\ dqs = [d \in Devices |-> TRUE] /\ aliased = {}
    /\ reply = None /\ left = 0 /\ asked = 0 /\ queries = 0
    /\ fax = [j \in Jobs |-> "none"] /\ sendfax = [j \in Jobs |-> "none"]

-----------------------------------------------------------------------------
(* hpssd.  The toolbox asks for a device update; hpssd passes it on.       *)
Ask ==
    /\ asked < MaxRequests /\ asked' = asked + 1
    /\ \E d \in Devices : session' = Append(session, [kind |-> "requested", dev |-> d])
    /\ UNCHANGED <<ssdVars, known, system, w2, r3, dio, jobs>>

HandleRequest ==
    /\ ssd = "loop" /\ session # <<>> /\ Head(session).kind = "requested"
    /\ ssd' = "send" /\ cur' = Head(session) /\ session' = Tail(session)
    /\ UNCHANGED <<data, known, system, w2, r3, dio, asked, jobs>>

SendEventToHpdio ==
    /\ ssd = "send" /\ Len(w2) < RequestCap
    /\ w2' = Append(w2, cur.dev) /\ ssd' = "loop" /\ cur' = None
    /\ UNCHANGED <<data, known, session, system, r3, dio, asked, jobs>>

(* handle_event of a status or job event: check_device, create_history.    *)
HandleEvent(d, code) ==
    /\ history' = [history EXCEPT ![d] = Recorded(@, [code |-> code, stamp |-> clock])]
    /\ clock' = clock + 1

HandleReply ==
    /\ ssd = "loop" /\ session # <<>> /\ Head(session).kind = "reply"
    /\ ssd' = "reply" /\ cur' = Head(session) /\ session' = Tail(session) /\ data' = <<>>
    /\ UNCHANGED <<known, system, w2, r3, dio, asked, jobs>>

(* handle_hpdio_event: reads until the pipe is empty or the length fits.   *)
Least(m, n) == IF m < n THEN m ELSE n

ReadReply ==
    /\ ssd = "reply" /\ r3 # <<>> /\ Len(data) # cur.size
    /\ LET n == Least(PipeBuf, Len(r3)) IN
          /\ data' = data \o SubSeq(r3, 1, n)
          /\ r3' = SubSeq(r3, n + 1, Len(r3))
    /\ UNCHANGED <<ssd, cur, known, session, system, w2, dio, asked, jobs>>

(* loads: a pickle ends where it says; anything else does not load.        *)
Loads == Len(data) >= data[1].size /\ \A i \in 1..data[1].size : data[i] = data[1]

(* Mutant: the length is not compared. *)
EndReply_AnyLength ==
    /\ ssd = "reply" /\ data # <<>> /\ (r3 = <<>> \/ Len(data) = cur.size)
    /\ cache' = [cache EXCEPT ![cur.dev].dq = data[1]]
    /\ HandleEvent(cur.dev, data[1].code)
    /\ ssd' = "loop" /\ cur' = None /\ data' = <<>>
    /\ UNCHANGED <<session, system, w2, r3, dio, asked, jobs>>

(* Mutant: hpssd waits for the length it was told. *)
EndReply_Waits ==
    /\ ssd = "reply" /\ Len(data) >= cur.size
    /\ IF Len(data) = cur.size /\ Loads
       THEN cache' = [cache EXCEPT ![cur.dev].dq = data[1]] /\ HandleEvent(cur.dev, data[1].code)
       ELSE UNCHANGED known
    /\ ssd' = "loop" /\ cur' = None /\ data' = <<>>
    /\ UNCHANGED <<session, system, w2, r3, dio, asked, jobs>>

EndReply ==
    /\ ssd = "reply" /\ (r3 = <<>> \/ Len(data) = cur.size)
    /\ IF Len(data) = cur.size /\ Loads
       THEN cache' = [cache EXCEPT ![cur.dev].dq = data[1]] /\ HandleEvent(cur.dev, data[1].code)
       ELSE UNCHANGED known
    /\ ssd' = "loop" /\ cur' = None /\ data' = <<>>
    /\ UNCHANGED <<session, system, w2, r3, dio, asked, jobs>>

-----------------------------------------------------------------------------
(* hpdio: one event at a time.  A device that cannot be opened gives a     *)
(* reply of its own, any other the dq of the device object, which response *)
(* then aliases: the clear at the next event empties it.                   *)
TakeEvent ==
    /\ io = "select" /\ w2 # <<>>
    /\ dev' = Head(w2) /\ w2' = Tail(w2) /\ io' = "query"
    /\ dqs' = [d \in Devices |-> dqs[d] /\ d \notin aliased]
    /\ UNCHANGED <<ssdVars, known, session, system, r3, aliased, reply, left, asked, queries, jobs>>

Response(code) ==
    [kind |-> "dq", dev |-> dev, query |-> queries, code |-> code,
     size |-> IF code = "ioerror" THEN ErrorSize ELSE DqSize[dev],
     whole |-> code = "ioerror" \/ dqs[dev]]

QueryDevice ==
    /\ io = "query" /\ io' = "write" /\ queries' = queries + 1
    /\ \E code \in Statuses \cup {"ioerror"} :
          /\ reply' = Response(code) /\ left' = reply'.size
          /\ aliased' = IF code = "ioerror" THEN {} ELSE {dev}
    /\ UNCHANGED <<ssdVars, known, session, system, w2, r3, dev, dqs, asked, jobs>>

(* A write of PipeBuf units or less is atomic and waits for room.          *)
WriteReply ==
    /\ io = "write" /\ left > 0
    /\ LET n == Least(PipeBuf, left) IN
          /\ Len(r3) + n <= ReplyCap
          /\ r3' = r3 \o [i \in 1..n |-> reply]
          /\ left' = left - n
    /\ UNCHANGED <<ssdVars, known, session, system, w2, io, dev, dqs, aliased, reply, asked, queries,
                   jobs>>

SendReply ==
    /\ io = "write" /\ left = 0
    /\ session' = Append(session, [kind |-> "reply", dev |-> dev, size |-> reply.size])
    /\ io' = "select" /\ reply' = None
    /\ UNCHANGED <<ssdVars, known, system, w2, r3, dev, dqs, aliased, left, asked, queries, jobs>>

-----------------------------------------------------------------------------
(* render_file of a fax client: a print job, which CUPS runs in an hpfax;  *)
(* the client polls hpssd for the result, is cancelled, or gives up.       *)
StartJob(j) ==
    /\ sendfax[j] = "none" /\ fax[j] = "none"
    /\ sendfax' = [sendfax EXCEPT ![j] = "polling"] /\ fax' = [fax EXCEPT ![j] = "begin"]
    /\ UNCHANGED <<ssdVars, known, session, system, w2, r3, dio, asked>>

CanKill(j) == fax[j] \in {"begin", "fifo"} => KillEarly

(* SIGTERM to the backend: what it wrote to the fifo ends there.           *)
Killed(j, torn) == [fax EXCEPT ![j] = CASE @ \in {"begin", "fifo"} -> "dead"
                                         [] @ = "writing" -> torn
                                         [] OTHER -> @]

GiveUp(j) ==
    /\ sendfax[j] = "polling" /\ CanKill(j)
    /\ sendfax' = [sendfax EXCEPT ![j] = "ended"] /\ fax' = Killed(j, "short")
    /\ UNCHANGED <<ssdVars, known, session, system, w2, r3, dio, asked>>

CancelJob(j) ==
    /\ fax[j] \in {"begin", "fifo", "writing"} /\ CanKill(j) /\ fax' = Killed(j, "cut")
    /\ UNCHANGED <<ssdVars, known, session, system, w2, r3, dio, asked, sendfax>>

(* hpfax: the fifo is made before hpssd is told; opening it and reading to *)
(* its end is one handler of hpssd (handle_fax_event).                     *)
SystemEvent(k, j) == system' = Append(system, [kind |-> k, job |-> j])

HpfaxBegin(j) ==
    /\ fax[j] = "begin" /\ fax' = [fax EXCEPT ![j] = "fifo"]
    /\ system' = system \o <<[kind |-> "start", job |-> j], [kind |-> "rendered", job |-> j]>>
    /\ UNCHANGED <<ssdVars, known, session, w2, r3, dio, asked, sendfax>>

HandleJobEvent ==
    /\ ssd = "loop" /\ system # <<>> /\ Head(system).kind \in {"start", "end"}
    /\ HandleEvent(FaxDevice, Head(system).kind) /\ system' = Tail(system)
    /\ UNCHANGED <<ssdVars, cache, session, w2, r3, dio, asked, jobs>>

HandleRendered ==
    /\ ssd = "loop" /\ system # <<>> /\ Head(system).kind = "rendered"
    /\ ssd' = "fifo" /\ cur' = Head(system) /\ system' = Tail(system)
    /\ UNCHANGED <<data, known, session, w2, r3, dio, asked, jobs>>

OpenFifo ==
    /\ ssd = "fifo" /\ fax[cur.job] = "fifo"
    /\ ssd' = "fax" /\ fax' = [fax EXCEPT ![cur.job] = "writing"]
    /\ UNCHANGED <<cur, data, known, session, system, w2, r3, dio, asked, sendfax>>

HpfaxEnd(j) ==
    /\ fax[j] = "writing" /\ fax' = [fax EXCEPT ![j] = "done"] /\ SystemEvent("end", j)
    /\ UNCHANGED <<ssdVars, known, session, w2, r3, dio, asked, sendfax>>

(* Mutant: the fax is known as soon as the fifo is open. *)
SaveFax_Early ==
    /\ ssd = "fax" /\ ssd' = "loop" /\ cur' = None
    /\ cache' = [cache EXCEPT ![FaxDevice].faxes = @ \cup {[job |-> cur.job, whole |-> fax[cur.job] = "done"]}]
    /\ UNCHANGED <<data, history, clock, session, system, w2, r3, dio, asked, jobs>>

SaveFax ==
    /\ ssd = "fax" /\ fax[cur.job] \in {"done", "short", "cut"} /\ ssd' = "loop" /\ cur' = None
    /\ cache' = [cache EXCEPT ![FaxDevice].faxes =
                    @ \cup {[job |-> cur.job, whole |-> fax[cur.job] = "done"]}]
    /\ UNCHANGED <<data, history, clock, session, system, w2, r3, dio, asked, jobs>>

(* CheckForWaitingFax: a fax it returns is removed from the cache.         *)
CheckForWaitingFax(j) ==
    /\ ssd = "loop" /\ sendfax[j] = "polling"
    /\ \E f \in cache[FaxDevice].faxes :
          /\ f.job = j
          /\ cache' = [cache EXCEPT ![FaxDevice].faxes = @ \ {f}]
          /\ sendfax' = [sendfax EXCEPT ![j] = IF f.whole THEN "got" ELSE "torn"]
    /\ UNCHANGED <<ssdVars, history, clock, session, system, w2, r3, dio, asked, fax>>

-----------------------------------------------------------------------------
Hpssd ==
    \/ HandleRequest \/ SendEventToHpdio \/ HandleReply \/ ReadReply \/ EndReply
    \/ HandleJobEvent \/ HandleRendered \/ OpenFifo \/ SaveFax

Hpdio == TakeEvent \/ QueryDevice \/ WriteReply \/ SendReply

Hpfax(j) == HpfaxBegin(j) \/ HpfaxEnd(j)

Next ==
    \/ Ask \/ Hpssd \/ Hpdio
    \/ \E j \in Jobs : \/ StartJob(j) \/ GiveUp(j) \/ CancelJob(j) \/ Hpfax(j)
                       \/ CheckForWaitingFax(j)

Spec == Init /\ [][Next]_vars

(* The daemons and the backends are scheduled.                             *)
FairSpec ==
    /\ Spec /\ WF_vars(Hpssd) /\ WF_vars(Hpdio)
    /\ \A j \in Jobs : WF_vars(Hpfax(j))

-----------------------------------------------------------------------------
(* Properties.                                                             *)

Replies == [kind : {"dq"}, dev : Devices, query : 0..MaxRequests,
            size : {ErrorSize} \cup {DqSize[d] : d \in Devices}, code : Codes, whole : BOOLEAN]

TypeOK ==
    /\ ssd \in {"loop", "send", "reply", "fifo", "fax"} /\ data \in Seq(Replies)
    /\ \A d \in Devices :
          /\ cache[d].dq \in Replies \cup {None}
          /\ cache[d].faxes \subseteq [job : Jobs, whole : BOOLEAN]
          /\ history[d] \in Ring([code : Codes, stamp : 0..clock])
    /\ w2 \in Seq(Devices) /\ r3 \in Seq(Replies) /\ Len(w2) <= RequestCap /\ Len(r3) <= ReplyCap
    /\ io \in {"select", "query", "write"} /\ dev \in Devices /\ dqs \in [Devices -> BOOLEAN]
    /\ reply \in Replies \cup {None} /\ left \in Nat /\ (io = "write" => left <= reply.size)
    /\ asked \in 0..MaxRequests /\ queries \in 0..MaxRequests
    /\ fax \in [Jobs -> {"none", "begin", "fifo", "writing", "short", "cut", "done", "dead"}]
    /\ sendfax \in [Jobs -> {"none", "polling", "got", "torn", "ended"}]

(* Replies that pile up in the pipe are read as one, and their length is   *)
(* all that is compared.  A device is told apart when no run of replies    *)
(* that begins with the dq of another device is as long as a reply for it: *)
(* "mixed" has the lengths of such runs.                                   *)
Sizes == {ErrorSize} \cup {DqSize[d] : d \in Devices}
ToldApart ==
    {d \in Devices : \E mixed \in SUBSET (1..PipeBuf) :
        /\ \A e \in Devices \ {d} : DqSize[e] \in mixed
        /\ \A m \in mixed, z \in Sizes : m + z <= PipeBuf => m + z \in mixed
        /\ mixed \cap {ErrorSize, DqSize[d]} = {}}

(* The dq of a device told apart is the reply to a query of that device,   *)
(* whatever the lengths of the other replies and however they pile up.     *)
(* (Replies for devices that do not open are all alike.)                   *)
OfDevice(d) == cache[d].dq = None \/ cache[d].dq.code = "ioerror" \/ cache[d].dq.dev = d
DqOfDevice == \A d \in ToldApart : OfDevice(d)

(* The history of each device is its last events.                          *)
Recent == INSTANCE RecentEvents WITH
    Size <- HistorySize, recent <- [d \in Devices |-> Get(history[d])], now <- clock
HistoryIsRecent == Recent!Spec

(* A client that collects the fax it had rendered gets all of it, unless   *)
(* CUPS killed the backend in the middle of it for another reason.         *)
FaxWhole == \A j \in Jobs : sendfax[j] = "torn" => fax[j] = "cut"

(* The two ways to wait for ever: hpssd writes to the full pipe of an      *)
(* hpdio that writes to the full pipe of hpssd; hpssd opens the fifo of a  *)
(* backend that is gone.                                                   *)
Jammed ==
    /\ ssd = "send" /\ Len(w2) = RequestCap
    /\ io = "write" /\ left > 0 /\ Len(r3) + Least(PipeBuf, left) > ReplyCap
DeadFifo == ssd = "fifo" /\ fax[cur.job] = "dead"

(* hpssd comes back to its loop and hpdio to its select, for ever, unless  *)
(* they end in one of these two: there is no third.                        *)
DaemonsServe ==
    <>[]Jammed \/ <>[]DeadFifo \/ ([]<>(ssd = "loop") /\ []<>(io = "select"))

(***************************************************************************)
(* What the code and its comments mean to keep and the code does not.      *)
(***************************************************************************)

(* Neither daemon ever waits for ever.                                     *)
NeverStuck == []<>(ssd = "loop") /\ []<>(io = "select")

(* The dq of every device is a reply to a query of it.                     *)
DqOfAnyDevice == \A d \in Devices : OfDevice(d)

(* "last device query results": what hpssd caches is the reply to the last *)
(* query of the device, once it has handled everything.                    *)
DqIsLast ==
    (ssd = "loop" /\ session = <<>> /\ w2 = <<>> /\ io = "select" /\ queries > 0) =>
        \E d \in Devices : cache[d].dq # None /\ cache[d].dq.query = queries - 1

(* ... in full: with the device and queue names of the device object.      *)
DqComplete == \A d \in Devices : cache[d].dq # None => cache[d].dq.whole
=============================================================================
