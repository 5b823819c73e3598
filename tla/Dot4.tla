-------------------------------- MODULE Dot4 --------------------------------
(***************************************************************************)
(* The IEEE 1284.4 transport of libhpmud: dot4.c and the dot4_channel_*    *)
(* functions of musb.c, for one process whose device has the transport     *)
(* interface claimed, talking to a peripheral.  One host call runs at a    *)
(* time (device[].mutex); it advances packet by packet, while the          *)
(* peripheral answers, grants credit and sends data in its own time.       *)
(*                                                                         *)
(* Packets travel in order in both directions.  A data packet is a         *)
(* sequence of bytes numbered per opened channel, so that what a client    *)
(* reads can be compared with what was sent; all that else matters of its  *)
(* bytes is whether the first one has the reply bit 0x80.                  *)
(***************************************************************************)
EXTENDS Integers, SequencesExt

CONSTANTS Chans,      \* channels, each with its fixed socket id
          Profiles,   \* peripherals and the use clients make of them
          BufSize,    \* HPMUD_BUFFER_SIZE
          MaxTries,   \* HPMUD_EXCEPTION_SEC_TIMEOUT, tries for a credit
          CreditMod   \* 2^16, the width of the credit counters

Profile ==
    [phoenix : BOOLEAN,    \* io_mode is DOT4_PHOENIX
     hiBytes : BOOLEAN,    \* data packets may begin with a byte >= 0x80
     reopen : BOOLEAN,     \* clients reopen a channel while another stays open
     packets : SUBSET (1..BufSize), \* lengths of the peripheral's data packets
     reads : SUBSET (1..BufSize),   \* lengths clients read with
     bytes : Nat,          \* bound: bytes sent per opened channel; a client
                           \* that has read them does not read on
     writes : Nat,         \* bound: data packets of one write call
     credit : Nat,         \* bound: host-to-peripheral credit outstanding
     flight : Nat,         \* bound: packets on the way when a client calls
     lost : Nat]           \* bound: times host and peripheral lose step

ASSUME ConstantsAssumption ==
    /\ BufSize \in Nat \ {0} /\ MaxTries \in Nat /\ CreditMod \in Nat
    /\ Profiles \subseteq Profile /\ \A p \in Profiles : CreditMod > p.credit /\ CreditMod > 2

VARIABLES
    use,                  \* the profile
    proc, ch, step,       \* the call in progress, its channel, what it awaits
    n,                    \* its packets left to write, or length to read
    cnt,                  \* its retries
    open,                 \* channels with client_cnt > 0
    up,                   \* mlc_up
    h2pcredit, p2hcredit, \* channel[c].ta
    rbuf, rindex, rcnt,   \* channel[c]: packet buffer (0: no byte of a packet)
    toDev, toHost,        \* packets on the way
    devUp, devOpen,       \* peripheral: transport, open channels
    devCredit,            \* peripheral: credit the host may still use
    devP2h,               \* peripheral: credit it may still use
    devSent,              \* peripheral: bytes sent since the channel opened
    delivered,            \* bytes returned to the client since it opened
    lost,                 \* times an answer came too late, the peripheral
                          \* sent Error, or errno was EIO
    used                  \* channels opened since the transport came up

call == <<proc, ch, step, n, cnt>>
ta == <<h2pcredit, p2hcredit>>
buf == <<rbuf, rindex, rcnt>>
dev == <<devUp, devOpen, devCredit, devP2h, devSent>>
vars == <<use, call, open, up, ta, buf, toDev, toHost, dev, delivered, used, lost>>

Commands == {"init", "getsocket", "open", "credit", "creditreq", "close", "exit"}
Procs == {"idle", "open", "close", "write", "read"}
Steps == Commands \cup {"none", "loop", "data"}
CreditRange == 0 .. CreditMod - 1
Bytes == 0..use.bytes

Command == [cmd : Commands, ch : Chans, credit : 0..2]
Packet ==
    [kind : {"reply"}, cmd : Commands, ch : Chans, ok : BOOLEAN, credit : 0..use.credit]
    \cup [kind : {"credit"}, ch : Chans, credit : {1}]
    \cup [kind : {"data"}, ch : Chans, len : use.packets, from : Bytes, hi : BOOLEAN,
          credit : 0..1]
    \cup [kind : {"error"}, ch : Chans, credit : {0}]
    \cup [kind : {"junk"}]

TypeOK ==
    /\ use \in Profiles /\ proc \in Procs /\ ch \in Chans /\ step \in Steps
    /\ n \in Nat /\ cnt \in 0..MaxTries + 1
    /\ open \subseteq Chans /\ up \in BOOLEAN
    /\ h2pcredit \in [Chans -> CreditRange] /\ p2hcredit \in [Chans -> CreditRange]
    /\ rbuf \in [Chans -> [1..BufSize -> Bytes]]
    /\ rindex \in [Chans -> 0..BufSize] /\ rcnt \in [Chans -> 0..BufSize]
    /\ toDev \in Seq(Command) /\ toHost \in Seq(Packet)
    /\ devUp \in BOOLEAN /\ devOpen \subseteq Chans
    /\ devCredit \in [Chans -> Int] /\ devP2h \in [Chans -> Nat]
    /\ devSent \in [Chans -> Bytes]
    /\ delivered \in [Chans -> Seq(Bytes)]
    /\ used \subseteq Chans /\ lost \in 0..use.lost

Zero == [c \in Chans |-> 0]

Init ==
    /\ use \in Profiles
    /\ proc = "idle" /\ ch \in Chans /\ step = "none" /\ n = 0 /\ cnt = 0
    /\ open = {} /\ up = FALSE
    /\ h2pcredit = Zero /\ p2hcredit = Zero
    /\ rbuf = [c \in Chans |-> [i \in 1..BufSize |-> 0]]
    /\ rindex = Zero /\ rcnt = Zero
    /\ toDev = <<>> /\ toHost = <<>>
    /\ devUp = FALSE /\ devOpen = {} /\ devCredit = Zero /\ devP2h = Zero
    /\ devSent = Zero
    /\ delivered = [c \in Chans |-> <<>>]
    /\ used = {} /\ lost = 0

-----------------------------------------------------------------------------
(* The peripheral.  It answers one command at a time, may refuse any, and  *)
(* uses and grants credit as 1284.4 says: opening a channel starts its     *)
(* credits anew, closing it voids them.                                    *)
Answer(cmd, c, ok, k) ==
    toHost' = Append(toHost, [kind |-> "reply", cmd |-> cmd, ch |-> c, ok |-> ok,
                              credit |-> k])

DevRefuse ==
    /\ toDev # <<>>
    /\ toDev' = Tail(toDev)
    /\ Answer(Head(toDev).cmd, Head(toDev).ch, FALSE, 0)
    /\ UNCHANGED <<call, open, up, ta, buf, dev, delivered, used, lost>>

DevAnswer ==
    LET c == Head(toDev).ch
    IN  /\ toDev # <<>>
        /\ toDev' = Tail(toDev)
        /\ \/ /\ Head(toDev).cmd = "init"
              /\ devUp' = TRUE /\ devOpen' = {}
              /\ devCredit' = Zero /\ devP2h' = Zero
              /\ Answer("init", c, TRUE, 0)
              /\ UNCHANGED devSent
           \/ /\ Head(toDev).cmd = "exit" /\ devUp
              /\ devUp' = FALSE /\ devOpen' = {}
              /\ devCredit' = Zero /\ devP2h' = Zero
              /\ Answer("exit", c, TRUE, 0)
              /\ UNCHANGED devSent
           \/ /\ Head(toDev).cmd = "getsocket" /\ devUp
              /\ Answer("getsocket", c, TRUE, 0)
              /\ UNCHANGED dev
           \/ /\ Head(toDev).cmd = "open" /\ devUp /\ c \notin devOpen
              /\ devOpen' = devOpen \cup {c}
              /\ devP2h' = [devP2h EXCEPT ![c] = 0]
              /\ devSent' = [devSent EXCEPT ![c] = 0]
              /\ \E k \in 0..use.credit :
                    /\ devCredit' = [devCredit EXCEPT ![c] = k]
                    /\ Answer("open", c, TRUE, k)
              /\ UNCHANGED devUp
           \/ /\ Head(toDev).cmd = "close" /\ c \in devOpen
              /\ devOpen' = devOpen \ {c}
              /\ devCredit' = [devCredit EXCEPT ![c] = 0]
              /\ devP2h' = [devP2h EXCEPT ![c] = 0]
              /\ Answer("close", c, TRUE, 0)
              /\ UNCHANGED <<devUp, devSent>>
           \/ /\ Head(toDev).cmd = "credit" /\ c \in devOpen
              /\ devP2h' = [devP2h EXCEPT ![c] = (@ + Head(toDev).credit) % CreditMod]
              /\ Answer("credit", c, TRUE, 0)
              /\ UNCHANGED <<devUp, devOpen, devCredit, devSent>>
           \/ /\ Head(toDev).cmd = "creditreq" /\ c \in devOpen
              /\ \E k \in 0 .. use.credit - devCredit[c] :
                    /\ devCredit' = [devCredit EXCEPT ![c] = @ + k]
                    /\ Answer("creditreq", c, TRUE, k)
              /\ UNCHANGED <<devUp, devOpen, devP2h, devSent>>
        /\ UNCHANGED <<call, open, up, ta, buf, delivered, used, lost>>

(* An unsolicited Credit command; the host's reply to it is not modelled.  *)
DevCredit(c) ==
    /\ c \in devOpen /\ devCredit[c] < use.credit
    /\ devCredit' = [devCredit EXCEPT ![c] = @ + 1]
    /\ toHost' = Append(toHost, [kind |-> "credit", ch |-> c, credit |-> 1])
    /\ UNCHANGED <<call, open, up, ta, buf, toDev, devUp, devOpen, devP2h, devSent,
                   delivered, used, lost>>

(* A data packet, perhaps with a credit on its back.                       *)
DevData(c) ==
    /\ c \in devOpen /\ devP2h[c] > 0
    /\ \E len \in use.packets, hi \in {FALSE, use.hiBytes}, k \in 0..1 :
          /\ devSent[c] + len <= use.bytes
          /\ devCredit[c] + k <= use.credit
          /\ devSent' = [devSent EXCEPT ![c] = @ + len]
          /\ devCredit' = [devCredit EXCEPT ![c] = @ + k]
          /\ toHost' = Append(toHost, [kind |-> "data", ch |-> c, len |-> len,
                                       from |-> devSent[c], hi |-> hi, credit |-> k])
    /\ devP2h' = [devP2h EXCEPT ![c] = @ - 1]
    /\ UNCHANGED <<call, open, up, ta, buf, toDev, devUp, devOpen, delivered, used, lost>>

(* An Error command about some channel: the peripheral drops the transport *)
(* and knows nothing more of its channels until the next Init.             *)
DevError ==
    /\ devUp /\ lost < use.lost /\ lost' = lost + 1
    /\ \E c \in Chans :
          toHost' = Append(toHost, [kind |-> "error", ch |-> c, credit |-> 0])
    /\ devUp' = FALSE /\ devOpen' = {} /\ devCredit' = Zero /\ devP2h' = Zero
    /\ UNCHANGED <<call, open, up, ta, buf, toDev, devSent, delivered, used>>

-----------------------------------------------------------------------------
(* The host.  Each call is a chain of steps; what a step awaits is in      *)
(* "step".  A command is sent with the step that leads to it.              *)
Send(cmd, c, k) ==
    /\ step' = cmd
    /\ toDev' = Append(toDev, [cmd |-> cmd, ch |-> c, credit |-> k])

Return == proc' = "idle" /\ step' = "none" /\ n' = 0 /\ cnt' = 0

(* The packet at the head of the pipe; a "junk" head is what remains of a  *)
(* packet whose header was read and whose payload was left behind.         *)
Pending == toHost # <<>>
Pk == Head(toHost)

Room(p) == p2hcredit[p.ch] > 0 /\ p.len <= BufSize - rcnt[p.ch]
Piggyback(p) == [h2pcredit EXCEPT ![p.ch] = (@ + p.credit) % CreditMod]
EmptyBuf == [i \in 1..BufSize |-> 0]
Filled(b, at, p) == [i \in 1..BufSize |-> IF i \in at + 1 .. at + p.len
                                          THEN p.from + i - at ELSE b[i]]

(* Mutant: unsolicited data is put at the start of the buffer. *)
ExecReverseCmd_Overwrite(p) ==
    \/ /\ p.kind = "credit"
       /\ h2pcredit' = Piggyback(p)
       /\ UNCHANGED <<p2hcredit, buf>>
    \/ /\ p.kind = "data" /\ Room(p)
       /\ rbuf' = [rbuf EXCEPT ![p.ch] = Filled(@, 0, p)]
       /\ rcnt' = [rcnt EXCEPT ![p.ch] = @ + p.len]
       /\ h2pcredit' = Piggyback(p)
       /\ p2hcredit' = [p2hcredit EXCEPT ![p.ch] = @ - 1]
       /\ UNCHANGED rindex
    \/ /\ \/ p.kind = "data" /\ ~Room(p)
          \/ p.kind \in {"reply", "error"}
       /\ UNCHANGED <<ta, buf>>

(* Dot4ExecReverseCmd, for a packet that is not the one awaited: a Credit  *)
(* command is honoured, data is appended to the buffer of its channel (at  *)
(* rcnt, wherever rindex is) if that channel has credit and room, and      *)
(* dropped otherwise; any other command is only replied to, except that an *)
(* Error also fails whatever awaits a command (EndsWait, ReverseCmdFails). *)
ExecReverseCmd(p) ==
    \/ /\ p.kind = "credit"
       /\ h2pcredit' = Piggyback(p)
       /\ UNCHANGED <<p2hcredit, buf>>
    \/ /\ p.kind = "data" /\ Room(p)
       /\ rbuf' = [rbuf EXCEPT ![p.ch] = Filled(@, rcnt[p.ch], p)]
       /\ rcnt' = [rcnt EXCEPT ![p.ch] = @ + p.len]
       /\ h2pcredit' = Piggyback(p)
       /\ p2hcredit' = [p2hcredit EXCEPT ![p.ch] = @ - 1]
       /\ UNCHANGED rindex
    \/ /\ \/ p.kind = "data" /\ ~Room(p)
          \/ p.kind \in {"reply", "error"}
       /\ UNCHANGED <<ta, buf>>

-----------------------------------------------------------------------------
(* Opening: Init for the first channel, then GetSocket, OpenChannel and,   *)
(* in phoenix mode, two credits.                                           *)
Idle == proc = "idle" /\ Len(toDev) + Len(toHost) <= use.flight

OpenChannel(c) ==
    /\ Idle /\ c \notin open
    /\ use.reopen \/ open = {} \/ c \notin used
    /\ proc' = "open" /\ ch' = c /\ cnt' = 0 /\ n' = 0
    /\ open' = open \cup {c} /\ used' = used \cup {c}
    /\ Send(IF open = {} THEN "init" ELSE "getsocket", c, 0)
    /\ UNCHANGED <<up, ta, buf, toHost, dev, delivered, lost>>

CloseChannel(c) ==
    /\ Idle /\ c \in open /\ up
    /\ proc' = "close" /\ ch' = c /\ cnt' = 0 /\ n' = 0
    /\ Send("close", c, 0)
    /\ UNCHANGED <<open, up, ta, buf, toHost, dev, delivered, used, lost>>

(* The channel is the client's: its buffer is emptied.                     *)
Opened ==
    /\ Return
    /\ rbuf' = [rbuf EXCEPT ![ch] = EmptyBuf]
    /\ rcnt' = [rcnt EXCEPT ![ch] = 0] /\ rindex' = [rindex EXCEPT ![ch] = 0]
    /\ delivered' = [delivered EXCEPT ![ch] = <<>>]

(* What follows the closing of a channel and the Exit of the last one,     *)
(* whatever came of them.                                                  *)
CloseGoesOn ==
    \/ /\ step = "close" /\ open = {ch}
       /\ Send("exit", ch, 0)
       /\ UNCHANGED <<proc, n, cnt, open, up>>
    \/ /\ step = "close" /\ open # {ch}
       /\ Return /\ open' = open \ {ch}
       /\ UNCHANGED <<up, toDev>>
    \/ /\ step = "exit"
       /\ Return /\ open' = open \ {ch} /\ up' = FALSE
       /\ UNCHANGED toDev

-----------------------------------------------------------------------------
(* Dot4ReverseReply.  Any packet with the bit 0x80 at the place of the     *)
(* command ends the wait; it is the reply if the command code fits.  So    *)
(* does an Error, which Dot4ExecReverseCmd fails on.                       *)
EndsWait(p) == p.kind \in {"reply", "junk", "error"} \/ (p.kind = "data" /\ p.hi)
Fits(p) == p.kind = "reply" /\ p.cmd = step /\ p.ok

Take == toHost' = Tail(toHost)

ReplyMeanwhile ==
    /\ step \in Commands /\ Pending /\ ~EndsWait(Pk)
    /\ ExecReverseCmd(Pk) /\ Take
    /\ UNCHANGED <<call, open, up, toDev, dev, delivered, used, lost>>

(* Mutant: the attributes of the last session are kept. *)
InitReply_KeepTa ==
    /\ step = "init" /\ Pending /\ Fits(Pk) /\ Take
    /\ up' = TRUE /\ used' = {ch}
    /\ Send("getsocket", ch, 0)
    /\ UNCHANGED <<proc, ch, n, cnt, open, ta, buf, dev, delivered, lost>>

(* The reply to Init: all transport attributes start anew.                 *)
InitReply ==
    /\ step = "init" /\ Pending /\ Fits(Pk) /\ Take
    /\ h2pcredit' = Zero /\ p2hcredit' = Zero
    /\ up' = TRUE /\ used' = {ch}
    /\ Send("getsocket", ch, 0)
    /\ UNCHANGED <<proc, ch, n, cnt, open, buf, dev, delivered, lost>>

GetSocketReply ==
    /\ step = "getsocket" /\ Pending /\ Fits(Pk) /\ Take
    /\ Send("open", ch, 0)
    /\ UNCHANGED <<proc, ch, n, cnt, open, up, ta, buf, dev, delivered, used, lost>>

(* h2pcredit is set; p2hcredit keeps whatever it was.                      *)
OpenReply ==
    /\ step = "open" /\ Pending /\ Fits(Pk) /\ Take
    /\ h2pcredit' = [h2pcredit EXCEPT ![ch] = Pk.credit]
    /\ \/ use.phoenix /\ Send("credit", ch, 2)
          /\ UNCHANGED <<proc, n, cnt, buf, delivered>>
       \/ ~use.phoenix /\ Opened /\ UNCHANGED toDev
    /\ UNCHANGED <<ch, open, up, p2hcredit, dev, used, lost>>

CreditReply ==
    /\ step = "credit" /\ Pending /\ Fits(Pk) /\ Take
    /\ \/ /\ proc = "open" /\ Opened
          /\ p2hcredit' = [p2hcredit EXCEPT ![ch] = (@ + 2) % CreditMod]
       \/ /\ proc = "read" /\ step' = "data"
          /\ p2hcredit' = [p2hcredit EXCEPT ![ch] = (@ + 1) % CreditMod]
          /\ UNCHANGED <<proc, n, cnt, buf, delivered>>
    /\ UNCHANGED <<ch, open, up, h2pcredit, toDev, dev, used, lost>>

(* Mutant: the tries are not counted. *)
CreditRequestReply_NoCount ==
    LET credit == (h2pcredit[ch] + Pk.credit) % CreditMod
    IN  /\ step = "creditreq" /\ Pending /\ Fits(Pk) /\ Take
        /\ h2pcredit' = [h2pcredit EXCEPT ![ch] = credit]
        /\ \/ credit > 0 /\ step' = "loop" /\ UNCHANGED <<proc, n, cnt>>
           \/ credit = 0 /\ cnt <= MaxTries
              /\ step' = "loop" /\ UNCHANGED <<proc, n, cnt>>
           \/ credit = 0 /\ cnt > MaxTries /\ Return
        /\ UNCHANGED <<ch, open, up, p2hcredit, buf, toDev, dev, delivered, used, lost>>

(* A reply without credit is asked for again, a bounded number of times.   *)
CreditRequestReply ==
    LET credit == (h2pcredit[ch] + Pk.credit) % CreditMod
    IN  /\ step = "creditreq" /\ Pending /\ Fits(Pk) /\ Take
        /\ h2pcredit' = [h2pcredit EXCEPT ![ch] = credit]
        /\ \/ credit > 0 /\ step' = "loop" /\ UNCHANGED <<proc, n, cnt>>
           \/ credit = 0 /\ cnt <= MaxTries
              /\ step' = "loop" /\ cnt' = cnt + 1 /\ UNCHANGED <<proc, n>>
           \/ credit = 0 /\ cnt > MaxTries /\ Return
        /\ UNCHANGED <<ch, open, up, p2hcredit, buf, toDev, dev, delivered, used, lost>>

CloseReply ==
    /\ step \in {"close", "exit"} /\ Pending /\ Fits(Pk) /\ Take
    /\ CloseGoesOn
    /\ UNCHANGED <<ch, ta, buf, dev, delivered, used, lost>>

(* Mutant: a channel whose opening failed is kept. *)
GiveUp_KeepOpen ==
    /\ \/ proc \in {"read", "write"} /\ Return /\ UNCHANGED <<open, up, toDev>>
       \/ proc = "open" /\ Return /\ UNCHANGED <<open, up, toDev>>
       \/ proc = "close" /\ CloseGoesOn
    /\ UNCHANGED <<ch, ta, buf, dev, delivered, used>>

(* The call ends with an error; a close carries on.                        *)
GiveUp ==
    /\ \/ proc \in {"read", "write"} /\ Return /\ UNCHANGED <<open, up, toDev>>
       \/ proc = "open" /\ Return /\ open' = open \ {ch} /\ UNCHANGED <<up, toDev>>
       \/ proc = "close" /\ CloseGoesOn
    /\ UNCHANGED <<ch, ta, buf, dev, delivered, used>>

(* Dot4Init is given a second chance: another wait if errno, which no one  *)
(* cleared, is EIO.                                                        *)
InitAgain == step = "init" /\ cnt < 1

ReplyBad ==
    /\ step \in Commands /\ Pending /\ EndsWait(Pk) /\ ~Fits(Pk) /\ Take
    /\ \/ /\ InitAgain /\ lost < use.lost
          /\ cnt' = cnt + 1 /\ lost' = lost + 1
          /\ UNCHANGED <<proc, ch, step, n, open, up, ta, buf, toDev, dev, delivered, used>>
       \/ GiveUp /\ UNCHANGED lost

(* Four seconds without an answer, which may still come, or none left to   *)
(* come.  Init is sent a second time, unless errno is EIO.                 *)
ReplyTimeout ==
    /\ step \in Commands /\ ~Pending
    /\ \/ lost < use.lost /\ lost' = lost + 1
       \/ lost > 0 /\ toDev = <<>> /\ UNCHANGED lost
    /\ \/ /\ InitAgain /\ cnt' = cnt + 1
          /\ \/ Send("init", ch, 0)
             \/ UNCHANGED <<step, toDev>>
          /\ UNCHANGED <<proc, ch, n, open, up, ta, buf, dev, delivered, used>>
       \/ ~InitAgain /\ GiveUp
    /\ UNCHANGED toHost

-----------------------------------------------------------------------------
(* Writing k packets.                                                      *)
StartWrite(c, k) ==
    /\ Idle /\ c \in open
    /\ proc' = "write" /\ ch' = c /\ step' = "loop" /\ n' = k /\ cnt' = 0
    /\ UNCHANGED <<open, up, ta, buf, toDev, toHost, dev, delivered, used, lost>>

ForwardData ==
    /\ step = "loop" /\ h2pcredit[ch] > 0
    /\ h2pcredit' = [h2pcredit EXCEPT ![ch] = @ - 1]
    /\ devCredit' = [devCredit EXCEPT ![ch] = @ - 1]
    /\ \/ n = 1 /\ Return
       \/ n > 1 /\ n' = n - 1 /\ cnt' = 0 /\ UNCHANGED <<proc, step>>
    /\ UNCHANGED <<ch, open, up, p2hcredit, buf, toDev, toHost, devUp, devOpen, devP2h,
                   devSent, delivered, used, lost>>

CreditRequest ==
    /\ step = "loop" /\ h2pcredit[ch] = 0 /\ use.phoenix
    /\ Send("creditreq", ch, 0)
    /\ UNCHANGED <<proc, ch, n, cnt, open, up, ta, buf, toHost, dev, delivered, used, lost>>

(* Dot4ReverseCmd: wait for a Credit command, handling whatever comes.     *)
ReverseCmd ==
    /\ step = "loop" /\ h2pcredit[ch] = 0 /\ ~use.phoenix
    /\ Pending /\ Pk.kind \notin {"junk", "error"}
    /\ ExecReverseCmd(Pk) /\ Take
    /\ UNCHANGED <<call, open, up, toDev, dev, delivered, used, lost>>

ReverseCmdFails ==
    /\ step = "loop" /\ h2pcredit[ch] = 0 /\ ~use.phoenix
    /\ \/ ~Pending /\ UNCHANGED toHost
       \/ Pending /\ Pk.kind \in {"junk", "error"} /\ Take
    /\ Return
    /\ UNCHANGED <<ch, open, up, ta, buf, toDev, dev, delivered, used, lost>>

-----------------------------------------------------------------------------
(* cut_buf: up to len bytes of a buffer b go to the client, the rest stays *)
(* for its next read.  Beyond the buffer lies other memory.                *)
CutBuf(c, b, idx, k, len) ==
    LET take == IF k > len THEN len ELSE k
        At(i) == IF i <= BufSize THEN b[i] ELSE 0
    IN  /\ delivered' = [delivered EXCEPT ![c] = @ \o [i \in 1..take |-> At(idx + i)]]
        /\ rindex' = [rindex EXCEPT ![c] = IF k > len THEN idx + len ELSE 0]
        /\ rcnt' = [rcnt EXCEPT ![c] = k - take]
        /\ rbuf' = [rbuf EXCEPT ![c] = IF k > len THEN b ELSE EmptyBuf]

ReadBuffered(c, len) ==
    /\ Idle /\ c \in open /\ rcnt[c] > 0
    /\ CutBuf(c, rbuf[c], rindex[c], rcnt[c], len)
    /\ UNCHANGED <<call, open, up, ta, toDev, toHost, dev, used, lost>>

StartRead(c, len) ==
    /\ Idle /\ c \in open /\ rcnt[c] = 0 /\ Len(delivered[c]) <= use.bytes
    /\ proc' = "read" /\ ch' = c /\ n' = len /\ cnt' = 0
    /\ \/ p2hcredit[c] = 0 /\ Send("credit", c, 1)
       \/ p2hcredit[c] > 0 /\ step' = "data" /\ UNCHANGED toDev
    /\ UNCHANGED <<open, up, ta, buf, toHost, dev, delivered, used, lost>>

(* Mutant: the packet's credit is deducted twice. *)
Received_CountedTwice(b, k) ==
    /\ p2hcredit' = [p2hcredit EXCEPT ![ch] = @ - 2]
    /\ CutBuf(ch, b, 0, k, n)
    /\ Return

(* One packet counts as read: it uses a credit and is cut for the client.  *)
Received(b, k) ==
    /\ p2hcredit' = [p2hcredit EXCEPT ![ch] = @ - 1]
    /\ CutBuf(ch, b, 0, k, n)
    /\ Return

(* Mutant: the credit on the back of a data packet is ignored. *)
ReadData_NoPiggyback ==
    /\ step = "data" /\ Pending /\ Pk.kind = "data" /\ Pk.ch = ch
    /\ Take
    /\ Received(Filled(EmptyBuf, 0, Pk), Pk.len)
    /\ UNCHANGED <<ch, open, up, h2pcredit, toDev, dev, used, lost>>

ReadData ==
    /\ step = "data" /\ Pending /\ Pk.kind = "data" /\ Pk.ch = ch
    /\ Take
    /\ h2pcredit' = Piggyback(Pk)
    /\ Received(Filled(EmptyBuf, 0, Pk), Pk.len)
    /\ UNCHANGED <<ch, open, up, toDev, dev, used, lost>>

(* A command, or data of another channel.                                  *)
ReadMeanwhile ==
    /\ step = "data" /\ Pending
    /\ \/ Pk.kind \in {"reply", "credit", "error"}
       \/ Pk.kind = "data" /\ Pk.ch # ch /\ Room(Pk)
    /\ ExecReverseCmd(Pk) /\ Take
    /\ UNCHANGED <<call, open, up, toDev, dev, delivered, used, lost>>

(* Data that may not be kept: the six bytes of its header are returned to  *)
(* the client as if they were the packet, and its payload stays in the     *)
(* pipe.                                                                   *)
ReadInvalid ==
    /\ step = "data" /\ Pending
    /\ \/ /\ Pk.kind = "data" /\ Pk.ch # ch /\ ~Room(Pk)
          /\ toHost' = <<[kind |-> "junk"]>> \o Tail(toHost)
       \/ Pk.kind = "junk" /\ Take
    /\ Received(EmptyBuf, 1)
    /\ UNCHANGED <<ch, open, up, h2pcredit, toDev, dev, used, lost>>

(* The client's timeout: nothing is returned, and the credit stays with    *)
(* the peripheral.                                                         *)
ReadTimeout ==
    /\ step = "data" /\ ~Pending
    /\ Return
    /\ UNCHANGED <<ch, open, up, ta, buf, toDev, toHost, dev, delivered, used, lost>>

-----------------------------------------------------------------------------
ReplyStep ==
    \/ ReplyMeanwhile \/ ReplyBad \/ ReplyTimeout
    \/ InitReply \/ GetSocketReply \/ OpenReply \/ CreditReply
    \/ CreditRequestReply \/ CloseReply

HostStep ==
    /\ \/ ReplyStep
       \/ ForwardData \/ CreditRequest \/ ReverseCmd \/ ReverseCmdFails
       \/ ReadData \/ ReadMeanwhile \/ ReadInvalid \/ ReadTimeout
    /\ UNCHANGED use

ClientStep ==
  /\ UNCHANGED use
  /\ \E c \in Chans :
       \/ OpenChannel(c) \/ CloseChannel(c)
       \/ \E k \in 1..use.writes : StartWrite(c, k)
       \/ \E len \in use.reads : ReadBuffered(c, len) \/ StartRead(c, len)

DevAnswers == (DevRefuse \/ DevAnswer) /\ UNCHANGED use

DevStep ==
    \/ DevAnswers
    \/ (DevError \/ \E c \in Chans : DevCredit(c) \/ DevData(c)) /\ UNCHANGED use

Next == HostStep \/ ClientStep \/ DevStep

Spec == Init /\ [][Next]_vars

(* The host does not stop inside a call, and the peripheral answers every  *)
(* command, if late.                                                       *)
FairSpec == Spec /\ WF_vars(HostStep) /\ WF_vars(DevAnswers)

-----------------------------------------------------------------------------
(* Properties.                                                             *)

(* Channels a client holds, not in the middle of being opened or closed,   *)
(* while the host and the peripheral kept step: after an answer too late,  *)
(* an Error or an EIO all is in doubt.                                     *)
Live == {c \in open : lost = 0 /\ ~(ch = c /\ proc \in {"open", "close"})}

IsData(p, c) == p.kind = "data" /\ p.ch = c

Grants(p, c) == IF p.kind # "junk" /\ p.ch = c THEN p.credit ELSE 0
CreditOnTheWay(c) ==
    FoldLeft(+, 0, [i \in 1..Len(toHost) |-> Grants(toHost[i], c)])

Payload(p, c) == IF IsData(p, c) THEN [j \in 1..p.len |-> p.from + j] ELSE <<>>
BytesOnTheWay(c) == FlattenSeq([i \in 1..Len(toHost) |-> Payload(toHost[i], c)])

Buffered(c) == [i \in 1..rcnt[c] |-> IF rindex[c] + i <= BufSize
                                     THEN rbuf[c][rindex[c] + i] ELSE 0]

(* The transport keeps the promise of ChannelStreams: a read takes what is *)
(* next in its own channel and returns exactly that, a write uses a credit *)
(* of its own channel, and no exchange for one channel (replies awaited,   *)
(* packets of others handled meanwhile, Exit) disturbs another.            *)
Streams == INSTANCE ChannelStreams WITH
    held <- Live,
    unread <- [c \in Chans |-> IF c \in Live THEN Buffered(c) \o BytesOnTheWay(c) ELSE <<>>],
    taken <- [c \in Chans |-> IF c \in Live THEN delivered[c] ELSE <<>>],
    granted <- [c \in Chans |-> IF c \in Live THEN devCredit[c] ELSE 0]
KeepsStreams == Streams!Spec

(* The host's count of credit and the credit on its way are what the       *)
(* peripheral granted and the host has not used, whichever of the four     *)
(* ways a grant takes (open reply, Credit, CreditRequest reply, piggyback) *)
(* and whatever call meets it: no grant is lost or counted twice.          *)
CreditExact ==
    \A c \in Live : h2pcredit[c] + CreditOnTheWay(c) = devCredit[c]

(* "Issue enough credit to the peripheral to read one data packet": while  *)
(* dot4_channel_read waits for data the peripheral may send it or has.     *)
ReadHasCredit ==
    step = "data" /\ lost = 0 =>
        devP2h[ch] > 0 \/ \E i \in 1..Len(toHost) : IsData(toHost[i], ch)

(* A channel a client holds is open at the peripheral too, on a transport  *)
(* that is up, whatever failed in the calls before: Dot4Exit is only sent  *)
(* once the last channel closes.                                           *)
OpenAtDevice == \A c \in Live : up /\ devUp /\ c \in devOpen

(* Whatever was lost, the host knows whether the transport is up. Not      *)
(* kept: the call that meets an Error fails on it, or Dot4ReverseData      *)
(* drops it, and the channels stay open on a transport that is down.       *)
HostKnows == open # {} /\ proc = "idle" /\ toDev = <<>> /\ toHost = <<>> => (up <=> devUp)

(* Every call returns: the reply loop, the loop for credit, and the read   *)
(* that skips packets of other channels all end.                           *)
CallsReturn == proc # "idle" ~> proc = "idle"

(* What a client has read of a channel, what libhpmud buffers for it and   *)
(* what is on the way are together what the peripheral sent, in order:     *)
(* nothing is lost, repeated or given to another channel's reader by the   *)
(* buffering of unsolicited packets in Dot4ExecReverseCmd, Dot4ReverseData *)
(* and cut_buf.                                                            *)
DataConserved ==
    \A c \in Live : delivered[c] \o Buffered(c) \o BytesOnTheWay(c)
                        = [i \in 1..devSent[c] |-> i]
=============================================================================
