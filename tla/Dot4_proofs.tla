----------------------------- MODULE Dot4_proofs -----------------------------
(***************************************************************************)
(* What Dot4 proves for every set of channels, size of buffers, width of   *)
(* counters and bounds, for the peripherals and clients of Tame and as     *)
(* long as the two keep step: the credit the host may use and the          *)
(* credit it issues are exact, no read waits without credit, every channel *)
(* a client holds is open at the peripheral, the states are those of       *)
(* TypeOK (with a peripheral that is no phoenix always). For the clients   *)
(* of Whole no byte is lost or repeated, and the transport implements      *)
(* ChannelStreams, whether the two keep step or not.                       *)
(*                                                                         *)
(* The invariant has four parts.  The exchange: while a call awaits a      *)
(* reply, the command, its refusal or its answer is on the way, alone.     *)
(* The ledgers: what one side counts, what is on the way and what the      *)
(* other side counts agree, on every channel and in both directions.  The  *)
(* room: the buffer of a channel has room for all the peripheral may send. *)
(* The streams: what was read of a channel, what its buffer holds and what *)
(* is on the way are runs of the bytes sent, each beginning where the one  *)
(* before it ends.                                                         *)
(***************************************************************************)
EXTENDS Dot4, FoldLemmas

(* Peripherals and clients the transport is right for. Dot4ReverseReply    *)
(* takes data with bit 7 set for a reply; a channel opened again while     *)
(* another stays open keeps its old p2hcredit; a phoenix peripheral may    *)
(* send two packets before the first is read, and Dot4ExecReverseCmd has   *)
(* to have room for both.                                                  *)
Tame(u) == /\ ~u.hiBytes /\ ~u.reopen
           /\ u.phoenix => \A l, m \in u.packets : l + m <= BufSize

(* Packets such a peripheral sends, whose bytes are bytes of its stream.   *)
Sound == {p \in Packet : /\ p.kind \notin {"junk", "error"}
                         /\ p.kind = "data" => ~p.hi /\ p.from + p.len <= use.bytes}

(* Credit granted to a channel by the packets on the way, and the data     *)
(* packets of the channel among them.                                      *)
CreditOf(s, c) == SumOf(0, [i \in 1..Len(s) |-> Grants(s[i], c)])
DataOf(s, c) == SumOf(0, [i \in 1..Len(s) |-> IF IsData(s[i], c) THEN 1 ELSE 0])

(* Packets other than replies; a pipe without replies; one without any     *)
(* other packet of a channel.                                              *)
Plain(p) == p.kind # "reply"
Quiet(s) == \A i \in 1..Len(s) : Plain(s[i])
Absent(s, c) == \A i \in 1..Len(s) : Plain(s[i]) => s[i].ch # c

(* The answer to a command is on the way: it is the only reply, and what a *)
(* peripheral sends as a consequence of it follows it.                     *)
Early(p, r) == r.ok /\ p.ch = r.ch /\ (r.cmd = "open" \/ (r.cmd = "credit" /\ p.kind = "data"))
AnswerAt(s, i, r) ==
    /\ s[i] = r
    /\ \A j \in 1..Len(s) : j # i => Plain(s[j])
    /\ \A j \in 1..Len(s) : j < i => ~Early(s[j], r)
    /\ r.cmd = "init" /\ r.ok => i = Len(s)
Answered(s, r) == \E i \in 1..Len(s) : AnswerAt(s, i, r)

(* The exchange in progress: the command it sends, the reply to it.        *)
Asked == IF step # "credit" THEN 0 ELSE IF proc = "open" THEN 2 ELSE 1
Cmd == [cmd |-> step, ch |-> ch, credit |-> Asked]
Rep(ok, k) == [kind |-> "reply", cmd |-> step, ch |-> ch, ok |-> ok, credit |-> k]

(* A channel as good as never opened, one a client holds, and one whose    *)
(* credit is not being negotiated.                                         *)
Fresh(c) == c \notin devOpen /\ p2hcredit[c] = 0 /\ Absent(toHost, c)
Settled(c) == c \in open /\ ~(c = ch /\ proc \in {"open", "close"})
Steady(c) == c # ch \/ step # "credit"

(* What holds until the peripheral has granted the command, and after.     *)
Before ==
    /\ step = "open" => Fresh(ch)
    /\ step = "credit" => devP2h[ch] = 0 /\ DataOf(toHost, ch) = 0
After(k) ==
    /\ step = "init" => devUp = TRUE /\ devOpen = {}
    /\ step = "open" => /\ ch \in devOpen /\ devP2h[ch] = 0 /\ DataOf(toHost, ch) = 0
                        /\ CreditOf(toHost, ch) = devCredit[ch]
    /\ step = "credit" => DataOf(toHost, ch) + devP2h[ch] = Asked
    /\ step \notin {"open", "creditreq"} => k = 0

(* Between exchanges nothing is asked or answered. In one the command is   *)
(* on the way, or the refusal, or the answer.                              *)
Silent == toDev = <<>> /\ Quiet(toHost)
Asking == toDev = <<Cmd>> /\ Quiet(toHost) /\ Before
Refused == toDev = <<>> /\ Answered(toHost, Rep(FALSE, 0)) /\ Before
Granted == toDev = <<>> /\ \E k \in 0..use.credit : Answered(toHost, Rep(TRUE, k)) /\ After(k)
Exchange ==
    /\ step \notin Commands => Silent
    /\ step \in Commands => Asking \/ Refused \/ Granted

(* Types, as far as credits, buffers and the control of a call go.         *)
Typed ==
    /\ proc \in Procs /\ ch \in Chans /\ step \in Steps /\ n \in Nat /\ cnt \in 0..MaxTries + 1
    /\ open \subseteq Chans /\ used \subseteq Chans /\ devOpen \subseteq Chans
    /\ h2pcredit \in [Chans -> CreditRange] /\ p2hcredit \in [Chans -> Nat]
    /\ rindex \in [Chans -> 0..BufSize] /\ rcnt \in [Chans -> 0..BufSize]
    /\ devCredit \in [Chans -> Nat] /\ devP2h \in [Chans -> Nat]

(* What each call awaits.                                                  *)
Control ==
    /\ proc = "idle" => step = "none"
    /\ proc = "open" => step \in {"init", "getsocket", "open", "credit"}
    /\ proc = "close" => step \in {"close", "exit"}
    /\ proc = "write" => step \in {"loop", "creditreq"}
    /\ proc = "read" => step \in {"credit", "data"}
    /\ proc # "idle" => ch \in open
    /\ step \in {"init", "exit"} => open = {ch}
    /\ proc = "open" /\ step = "credit" => use.phoenix = TRUE
    /\ open \subseteq used

(* The transport is up while a channel is open.                            *)
Flags ==
    /\ up \in BOOLEAN /\ devUp \in BOOLEAN
    /\ open # {} /\ step \notin {"init", "exit"} => up = TRUE /\ devUp = TRUE

(* What each step of a call may count on.                                  *)
Call ==
    /\ step = "getsocket" => Fresh(ch)
    /\ step \in {"open", "credit"} => p2hcredit[ch] = 0
    /\ step = "credit" => ch \in devOpen
    /\ step = "data" => p2hcredit[ch] > 0
    /\ step = "credit" /\ proc = "read" => rcnt[ch] = 0

(* A channel at both ends.                                                 *)
Standing(c) ==
    /\ c \notin devOpen => devP2h[c] = 0
    /\ Settled(c) => c \in devOpen
    /\ open # {} /\ step # "init" /\ c \notin used => Fresh(c)

(* Credit for the host: what it counts and what is on the way to it is     *)
(* what the peripheral counts.                                             *)
Granting(c) ==
    /\ devCredit[c] <= use.credit
    /\ Settled(c) \/ ~Steady(c) => h2pcredit[c] + CreditOf(toHost, c) = devCredit[c]

(* Credit for the peripheral: its own count and the data on the way are    *)
(* what the host counts.                                                   *)
Reading(c) ==
    /\ Steady(c) => DataOf(toHost, c) + devP2h[c] <= p2hcredit[c]
    /\ Settled(c) /\ Steady(c) => DataOf(toHost, c) + devP2h[c] = p2hcredit[c]

(* There is room for what the peripheral may still send.                   *)
Roomy(c) ==
    /\ rcnt[c] = 0 => rindex[c] = 0
    /\ rindex[c] + rcnt[c] <= BufSize
    /\ p2hcredit[c] <= 2
    /\ p2hcredit[c] > 0 => \A l \in use.packets : rindex[c] + rcnt[c] + l <= BufSize
    /\ p2hcredit[c] = 2 => \A l, m \in use.packets : rindex[c] + rcnt[c] + l + m <= BufSize

Channel(c) == Standing(c) /\ Granting(c) /\ Reading(c) /\ Roomy(c)

(* The two sides keep step.                                                *)
InStep == lost = 0 /\ lost' = 0

(* All of it, as long as they do.                                          *)
Core == /\ Typed /\ toHost \in Seq(Sound) /\ Control /\ Flags /\ Exchange /\ Call
        /\ \A c \in Chans : Channel(c)

(* What the assumption on the constants says of the profile.               *)
LEMMA UseFacts ==
  ASSUME use \in Profiles
  PROVE  /\ use.credit \in Nat /\ use.bytes \in Nat /\ use.writes \in Nat
         /\ use.packets \subseteq 1..BufSize /\ use.reads \subseteq 1..BufSize
         /\ BufSize \in Nat \ {0} /\ MaxTries \in Nat
         /\ CreditMod \in Nat /\ CreditMod > use.credit /\ CreditMod > 2
BY ConstantsAssumption DEF Profile

(* Sound packets are those of the profile.                                 *)
LEMMA SoundKept ==
  ASSUME UNCHANGED use
  PROVE  Sound' = Sound
BY DEF Sound, Packet, Bytes

-----------------------------------------------------------------------------
(* What the packets on the way hold.                                       *)
CreditWeights(s, c) == [i \in 1..Len(s) |-> Grants(s[i], c)]
One(p, c) == IF IsData(p, c) THEN 1 ELSE 0
DataWeights(s, c) == [i \in 1..Len(s) |-> One(s[i], c)]

(* The weights of packets, as one is sent and as one is taken.             *)
LEMMA WeightsAppend ==
  ASSUME NEW S, NEW s \in Seq(S), NEW p \in S, NEW c
  PROVE  /\ CreditWeights(Append(s, p), c) = Append(CreditWeights(s, c), Grants(p, c))
         /\ DataWeights(Append(s, p), c) = Append(DataWeights(s, c), One(p, c))
BY DEF CreditWeights, DataWeights

LEMMA WeightsTail ==
  ASSUME NEW S, NEW s \in Seq(S), s # << >>, NEW c
  PROVE  /\ CreditWeights(Tail(s), c) = Tail(CreditWeights(s, c))
         /\ DataWeights(Tail(s), c) = Tail(DataWeights(s, c))
         /\ CreditWeights(s, c)[1] = Grants(Head(s), c) /\ DataWeights(s, c)[1] = One(Head(s), c)
         /\ CreditWeights(s, c) # << >> /\ DataWeights(s, c) # << >>
BY DEF CreditWeights, DataWeights

(* What a sound packet holds.                                              *)
LEMMA SoundPacket ==
  ASSUME use \in Profiles, NEW p \in Sound
  PROVE  /\ p.kind \in {"reply", "credit", "data"} /\ p.ch \in Chans
         /\ p.credit \in Nat
         /\ p.kind = "data" => /\ p.len \in use.packets /\ p.len \in 1..BufSize
                              /\ p.from \in Bytes /\ p.from + p.len <= use.bytes /\ ~p.hi
<1>1. use.credit \in Nat /\ use.bytes \in Nat /\ use.packets \subseteq 1..BufSize
  BY ConstantsAssumption DEF Profile
<1>2. p \in Packet /\ p.kind \notin {"junk", "error"} /\ (p.kind = "data" => ~p.hi /\ p.from + p.len <= use.bytes)
  BY DEF Sound
<1>3. CASE p \in [kind : {"reply"}, cmd : Commands, ch : Chans, ok : BOOLEAN, credit : 0..use.credit]
  BY <1>1, <1>2, <1>3
<1>4. CASE p \in [kind : {"credit"}, ch : Chans, credit : {1}]
  BY <1>1, <1>2, <1>4
<1>5. CASE p \in [kind : {"data"}, ch : Chans, len : use.packets, from : Bytes, hi : BOOLEAN,
          credit : 0..1]
  <2>1. p.credit \in 0..1  BY <1>5
  <2>2. p.kind = "data" /\ p.ch \in Chans /\ p.len \in use.packets /\ p.from \in Bytes  BY <1>5
  <2> QED BY <1>1, <1>2, <2>1, <2>2
<1>6. CASE p \in [kind : {"error"}, ch : Chans, credit : {0}]  BY <1>2, <1>6
<1>7. CASE p \in [kind : {"junk"}]  BY <1>2, <1>7
<1> QED BY <1>2, <1>3, <1>4, <1>5, <1>6, <1>7 DEF Packet

(* They are naturals.                                                      *)
LEMMA WeightsNat ==
  ASSUME use \in Profiles, NEW s \in Seq(Sound), NEW p \in Sound, NEW c
  PROVE  /\ Grants(p, c) \in Nat /\ One(p, c) \in Nat
         /\ CreditWeights(s, c) \in Seq(Nat) /\ DataWeights(s, c) \in Seq(Nat)
<1>1. ASSUME NEW q \in Sound PROVE Grants(q, c) \in Nat /\ One(q, c) \in Nat
  BY SoundPacket DEF Grants, One
<1>2. \A i \in 1..Len(s) : s[i] \in Sound  OBVIOUS
<1>3. Len(s) \in Nat  OBVIOUS
<1>4. \A i \in 1..Len(s) : Grants(s[i], c) \in Nat /\ One(s[i], c) \in Nat  BY <1>1, <1>2
<1>5. CreditWeights(s, c) \in Seq(Nat) /\ DataWeights(s, c) \in Seq(Nat)
  BY <1>3, <1>4 DEF CreditWeights, DataWeights
<1> QED BY <1>1, <1>5

(* A packet joins what is on the way.                                      *)
LEMMA WhatAppends ==
  ASSUME use \in Profiles, NEW s \in Seq(Sound), NEW p \in Sound, NEW c
  PROVE  /\ CreditOf(Append(s, p), c) = CreditOf(s, c) + Grants(p, c)
         /\ DataOf(Append(s, p), c) = DataOf(s, c) + One(p, c)
         /\ Grants(p, c) \in Nat /\ CreditOf(s, c) \in Nat /\ DataOf(s, c) \in Nat
<1>1. /\ Grants(p, c) \in Nat /\ One(p, c) \in Nat
      /\ CreditWeights(s, c) \in Seq(Nat) /\ DataWeights(s, c) \in Seq(Nat)
  BY WeightsNat
<1>2. /\ CreditWeights(Append(s, p), c) = Append(CreditWeights(s, c), Grants(p, c))
      /\ DataWeights(Append(s, p), c) = Append(DataWeights(s, c), One(p, c))
  BY WeightsAppend
<1>3. \A t : CreditOf(t, c) = SumOf(0, CreditWeights(t, c)) /\ DataOf(t, c) = SumOf(0, DataWeights(t, c))
  BY DEF CreditOf, DataOf, CreditWeights, DataWeights, One
<1>4. /\ SumOf(0, Append(CreditWeights(s, c), Grants(p, c))) = SumOf(0, CreditWeights(s, c)) + Grants(p, c)
      /\ SumOf(0, Append(DataWeights(s, c), One(p, c))) = SumOf(0, DataWeights(s, c)) + One(p, c)
  BY <1>1, SumAppend
<1>5. SumOf(0, CreditWeights(s, c)) \in Nat /\ SumOf(0, DataWeights(s, c)) \in Nat
  BY <1>1, SumOfNats
<1> QED BY <1>1, <1>2, <1>3, <1>4, <1>5

(* The first packet leaves it.                                             *)
LEMMA WhatLeaves ==
  ASSUME use \in Profiles, NEW s \in Seq(Sound), s # << >>, NEW c
  PROVE  /\ CreditOf(s, c) = Grants(Head(s), c) + CreditOf(Tail(s), c)
         /\ DataOf(s, c) = One(Head(s), c) + DataOf(Tail(s), c)
         /\ Grants(Head(s), c) \in Nat
         /\ CreditOf(Tail(s), c) \in Nat /\ DataOf(Tail(s), c) \in Nat
<1> DEFINE t == Tail(s)
<1>1. Head(s) \in Sound /\ t \in Seq(Sound)  OBVIOUS
<1>2. /\ Grants(Head(s), c) \in Nat /\ One(Head(s), c) \in Nat
      /\ CreditWeights(s, c) \in Seq(Nat) /\ DataWeights(s, c) \in Seq(Nat)
  BY <1>1, WeightsNat
<1>3. CreditWeights(t, c) \in Seq(Nat) /\ DataWeights(t, c) \in Seq(Nat)
  <2> HIDE DEF t
  <2> QED BY <1>1, WeightsNat
<1>4. /\ CreditWeights(t, c) = Tail(CreditWeights(s, c))
      /\ DataWeights(t, c) = Tail(DataWeights(s, c))
      /\ CreditWeights(s, c)[1] = Grants(Head(s), c) /\ DataWeights(s, c)[1] = One(Head(s), c)
      /\ CreditWeights(s, c) # << >> /\ DataWeights(s, c) # << >>
  BY WeightsTail
<1>5. \A u : CreditOf(u, c) = SumOf(0, CreditWeights(u, c)) /\ DataOf(u, c) = SumOf(0, DataWeights(u, c))
  BY DEF CreditOf, DataOf, CreditWeights, DataWeights, One
<1> HIDE DEF t
<1>6. /\ SumOf(0, CreditWeights(s, c)) = CreditWeights(s, c)[1] + SumOf(0, Tail(CreditWeights(s, c)))
      /\ SumOf(0, DataWeights(s, c)) = DataWeights(s, c)[1] + SumOf(0, Tail(DataWeights(s, c)))
  BY <1>2, <1>4, SumTail
<1>7. SumOf(0, CreditWeights(t, c)) \in Nat /\ SumOf(0, DataWeights(t, c)) \in Nat
  BY <1>3, SumOfNats
<1> QED BY <1>2, <1>4, <1>5, <1>6, <1>7 DEF t

(* No data of a channel is on the way, or none of its packets.             *)
LEMMA NoData ==
  ASSUME use \in Profiles, NEW s \in Seq(Sound), NEW c
  PROVE  /\ DataOf(s, c) = 0 <=> \A i \in 1..Len(s) : ~IsData(s[i], c)
         /\ Absent(s, c) => DataOf(s, c) = 0
         /\ Absent(s, c) /\ Quiet(s) => CreditOf(s, c) = 0
<1>1. /\ CreditWeights(s, c) \in Seq(Nat) /\ DataWeights(s, c) \in Seq(Nat)
      /\ Len(CreditWeights(s, c)) = Len(s) /\ Len(DataWeights(s, c)) = Len(s)
  <2>1. CASE s = << >>
    BY <2>1 DEF CreditWeights, DataWeights
  <2>2. CASE s # << >>
    <3>1. Head(s) \in Sound  BY <2>2
    <3>2. Len(s) \in Nat  OBVIOUS
    <3>3. Len(CreditWeights(s, c)) = Len(s) /\ Len(DataWeights(s, c)) = Len(s)
      BY <3>2 DEF CreditWeights, DataWeights
    <3> QED BY <3>1, <3>3, WeightsNat
  <2> QED BY <2>1, <2>2
<1>2. /\ DataOf(s, c) \in Nat
      /\ \A i \in 1..Len(s) : DataWeights(s, c)[i] <= DataOf(s, c)
      /\ (\A i \in 1..Len(s) : DataWeights(s, c)[i] = 0) => DataOf(s, c) = 0
      /\ (\A i \in 1..Len(s) : CreditWeights(s, c)[i] = 0) => CreditOf(s, c) = 0
  <2>1. CreditOf(s, c) = SumOf(0, CreditWeights(s, c)) /\ DataOf(s, c) = SumOf(0, DataWeights(s, c))
    BY DEF CreditOf, DataOf, CreditWeights, DataWeights, One
  <2>2. SumOf(0, DataWeights(s, c)) \in Nat
    BY <1>1, SumOfNats
  <2>3. \A i \in 1..Len(s) : DataWeights(s, c)[i] <= SumOf(0, DataWeights(s, c))
    BY <1>1, SumOfNats
  <2>4. (\A i \in 1..Len(s) : DataWeights(s, c)[i] = 0) => SumOf(0, DataWeights(s, c)) = 0
    BY <1>1, SumOfNats
  <2>5. (\A i \in 1..Len(s) : CreditWeights(s, c)[i] = 0) => SumOf(0, CreditWeights(s, c)) = 0
    BY <1>1, SumOfNats
  <2> QED BY <2>1, <2>2, <2>3, <2>4, <2>5
<1>3. ASSUME NEW i \in 1..Len(s)
      PROVE  DataWeights(s, c)[i] = One(s[i], c) /\ CreditWeights(s, c)[i] = Grants(s[i], c)
  BY DEF DataWeights, CreditWeights
<1>4. ASSUME NEW i \in 1..Len(s), IsData(s[i], c) PROVE DataOf(s, c) # 0
  BY <1>2, <1>3, <1>4 DEF One
<1>5. ASSUME \A i \in 1..Len(s) : ~IsData(s[i], c) PROVE DataOf(s, c) = 0
  BY <1>2, <1>3, <1>5 DEF One
<1>6. ASSUME Absent(s, c) PROVE DataOf(s, c) = 0
  <2>1. ASSUME NEW i \in 1..Len(s) PROVE ~IsData(s[i], c)
    BY <1>6 DEF Absent, Plain, IsData
  <2> QED BY <2>1, <1>5
<1>7. ASSUME Absent(s, c), Quiet(s) PROVE CreditOf(s, c) = 0
  <2>1. ASSUME NEW i \in 1..Len(s) PROVE CreditWeights(s, c)[i] = 0
    BY <1>3, <1>7 DEF Absent, Quiet, Grants
  <2> QED BY <2>1, <1>2
<1> QED BY <1>4, <1>5, <1>6, <1>7

-----------------------------------------------------------------------------
(* How the shape of what is on the way changes at either end.              *)
LEMMA AppendAt ==
  ASSUME NEW S, NEW s \in Seq(S), NEW p \in S
  PROVE  /\ Len(s) \in Nat /\ Len(Append(s, p)) = Len(s) + 1 /\ Append(s, p)[Len(s) + 1] = p
         /\ \A i \in 1..Len(s) : Append(s, p)[i] = s[i]
OBVIOUS

LEMMA TailAt ==
  ASSUME NEW S, NEW s \in Seq(S), s # << >>
  PROVE  /\ Len(s) \in Nat \ {0} /\ Len(Tail(s)) = Len(s) - 1 /\ s[1] = Head(s)
         /\ \A i \in 1..Len(Tail(s)) : Tail(s)[i] = s[i + 1]
OBVIOUS

LEMMA PlainAppends ==
  ASSUME NEW s \in Seq(Sound), NEW p \in Sound, NEW c
  PROVE  /\ Quiet(s) /\ Plain(p) => Quiet(Append(s, p))
         /\ Absent(s, c) /\ (Plain(p) => p.ch # c) => Absent(Append(s, p), c)
<1> DEFINE t == Append(s, p)
<1>1. /\ Len(s) \in Nat /\ Len(t) = Len(s) + 1 /\ t[Len(s) + 1] = p
      /\ \A i \in 1..Len(s) : t[i] = s[i]
  BY AppendAt
<1> HIDE DEF t
<1>2. \A i \in 1..Len(t) : t[i] = p \/ (i \in 1..Len(s) /\ t[i] = s[i])
  BY <1>1
<1>3. Quiet(s) /\ Plain(p) => Quiet(t)  BY <1>2 DEF Quiet
<1>4. Absent(s, c) /\ (Plain(p) => p.ch # c) => Absent(t, c)  BY <1>2 DEF Absent
<1> QED BY <1>3, <1>4 DEF t

LEMMA TailsShape ==
  ASSUME NEW s \in Seq(Sound), s # << >>, NEW c
  PROVE  /\ Quiet(s) => Plain(Head(s)) /\ Quiet(Tail(s))
         /\ Absent(s, c) => (Plain(Head(s)) => Head(s).ch # c) /\ Absent(Tail(s), c)
<1> DEFINE t == Tail(s)
<1>1. /\ Len(s) \in Nat \ {0} /\ Len(t) = Len(s) - 1 /\ s[1] = Head(s)
      /\ \A i \in 1..Len(t) : t[i] = s[i + 1]
  BY TailAt
<1> HIDE DEF t
<1>2. \A i \in 1..Len(t) : i + 1 \in 1..Len(s) /\ t[i] = s[i + 1]
  BY <1>1
<1>3. 1 \in 1..Len(s)  BY <1>1
<1>4. Quiet(s) => Plain(Head(s)) /\ Quiet(t)
  <2>1. SUFFICES ASSUME Quiet(s) PROVE Plain(Head(s)) /\ Quiet(t)  OBVIOUS
  <2>2. Plain(Head(s))  BY <1>1, <1>3, <2>1 DEF Quiet
  <2>3. Quiet(t)  BY <1>2, <2>1 DEF Quiet
  <2> QED BY <2>2, <2>3
<1>5. Absent(s, c) => (Plain(Head(s)) => Head(s).ch # c) /\ Absent(t, c)
  <2>1. SUFFICES ASSUME Absent(s, c) PROVE (Plain(Head(s)) => Head(s).ch # c) /\ Absent(t, c)  OBVIOUS
  <2>2. Plain(Head(s)) => Head(s).ch # c  BY <1>1, <1>3, <2>1 DEF Absent
  <2>3. Absent(t, c)  BY <1>2, <2>1 DEF Absent
  <2> QED BY <2>2, <2>3
<1> QED BY <1>4, <1>5 DEF t

(* The answer joins packets that are none.                                 *)
LEMMA AnswerComes ==
  ASSUME NEW s \in Seq(Sound), NEW r \in Sound, Quiet(s),
         \A i \in 1..Len(s) : ~Early(s[i], r)
  PROVE  Answered(Append(s, r), r)
<1> DEFINE t == Append(s, r)
           m == Len(s) + 1
<1>1. /\ Len(s) \in Nat /\ Len(t) = m /\ t[m] = r
      /\ \A i \in 1..Len(s) : t[i] = s[i]
  BY AppendAt
<1> HIDE DEF t
<1>2. \A j \in 1..m : j # m => j \in 1..Len(s)  BY <1>1
<1>3. AnswerAt(t, m, r) /\ m \in 1..Len(t)
  <2>1. \A j \in 1..Len(t) : j # m => Plain(t[j]) /\ ~Early(t[j], r)
    BY <1>1, <1>2 DEF Quiet
  <2>2. m \in 1..Len(t) /\ \A j \in 1..Len(t) : j < m => j # m  BY <1>1
  <2> HIDE DEF m
  <2> QED BY <1>1, <2>1, <2>2 DEF AnswerAt
<1> QED BY <1>3 DEF Answered, t

(* A packet follows the answer.                                            *)
LEMMA AnswerFollowed ==
  ASSUME NEW s \in Seq(Sound), NEW p \in Sound, NEW r, Answered(s, r), Plain(p),
         ~(r.cmd = "init" /\ r.ok)
  PROVE  Answered(Append(s, p), r)
<1> DEFINE t == Append(s, p)
<1>1. /\ Len(s) \in Nat /\ Len(t) = Len(s) + 1 /\ t[Len(s) + 1] = p
      /\ \A i \in 1..Len(s) : t[i] = s[i]
  BY AppendAt
<1> HIDE DEF t
<1>2. PICK i \in 1..Len(s) : AnswerAt(s, i, r)  BY DEF Answered
<1>3. \A j \in 1..Len(t) : (j \in 1..Len(s) /\ t[j] = s[j]) \/ (t[j] = p /\ ~(j < i))
  BY <1>1
<1>4. i \in 1..Len(t) /\ t[i] = r  BY <1>1, <1>2 DEF AnswerAt
<1>5. AnswerAt(t, i, r)  BY <1>2, <1>3, <1>4 DEF AnswerAt
<1> QED BY <1>4, <1>5 DEF Answered, t

(* A packet that is no reply leaves before the answer.                     *)
LEMMA AnswerNears ==
  ASSUME NEW s \in Seq(Sound), NEW r, Answered(s, r), r.kind = "reply"
  PROVE  /\ s # << >>
         /\ Plain(Head(s)) => ~Early(Head(s), r) /\ Answered(Tail(s), r)
<1>1. PICK i \in 1..Len(s) : AnswerAt(s, i, r)  BY DEF Answered
<1>2. s # << >>  BY <1>1
<1> DEFINE t == Tail(s)
<1>3. /\ Len(s) \in Nat \ {0} /\ Len(t) = Len(s) - 1 /\ s[1] = Head(s)
      /\ \A j \in 1..Len(t) : t[j] = s[j + 1]
  BY <1>2, TailAt
<1> HIDE DEF t
<1>4. ASSUME Plain(Head(s)) PROVE ~Early(Head(s), r) /\ Answered(t, r)
  <2>1. i # 1  BY <1>1, <1>3, <1>4 DEF AnswerAt, Plain
  <2>2. 1 \in 1..Len(s) /\ 1 < i /\ i - 1 \in 1..Len(t)  BY <1>3, <2>1
  <2>3. ~Early(Head(s), r)  BY <1>1, <1>3, <2>2 DEF AnswerAt
  <2>4. \A j \in 1..Len(t) : /\ j + 1 \in 1..Len(s) /\ t[j] = s[j + 1]
                             /\ j # i - 1 => j + 1 # i
                             /\ j < i - 1 => j + 1 < i
    BY <1>3
  <2>5. t[i - 1] = r /\ (i = Len(s) => i - 1 = Len(t))
    <3>1. t[i - 1] = s[(i - 1) + 1] /\ (i - 1) + 1 = i  BY <1>3, <2>2
    <3> QED BY <1>1, <1>3, <3>1 DEF AnswerAt
  <2>6. AnswerAt(t, i - 1, r)  BY <1>1, <2>4, <2>5 DEF AnswerAt
  <2> QED BY <2>2, <2>3, <2>6 DEF Answered
<1> QED BY <1>2, <1>4 DEF t

(* The reply at the head is the answer.                                    *)
LEMMA AnswerTaken ==
  ASSUME NEW s \in Seq(Sound), NEW r, Answered(s, r), ~Plain(Head(s))
  PROVE  /\ Head(s) = r /\ Quiet(Tail(s))
         /\ r.cmd = "init" /\ r.ok => Tail(s) = << >>
<1>1. PICK i \in 1..Len(s) : AnswerAt(s, i, r)  BY DEF Answered
<1>2. s # << >>  BY <1>1
<1> DEFINE t == Tail(s)
<1>3. /\ Len(s) \in Nat \ {0} /\ Len(t) = Len(s) - 1 /\ s[1] = Head(s)
      /\ \A j \in 1..Len(t) : t[j] = s[j + 1]
  BY <1>2, TailAt
<1>a. t \in Seq(Sound)  BY <1>2
<1> HIDE DEF t
<1>4. 1 \in 1..Len(s)  BY <1>3
<1>5. i = 1  BY <1>1, <1>3, <1>4 DEF AnswerAt
<1>6. Head(s) = r  BY <1>1, <1>3, <1>5 DEF AnswerAt
<1>7. \A j \in 1..Len(t) : j + 1 \in 1..Len(s) /\ j + 1 # i /\ t[j] = s[j + 1]  BY <1>3, <1>5
<1>8. Quiet(t)  BY <1>1, <1>7 DEF AnswerAt, Quiet
<1>9. ASSUME r.cmd = "init", r.ok PROVE t = << >>
  <2>1. Len(t) = 0  BY <1>1, <1>3, <1>5, <1>9 DEF AnswerAt
  <2> QED BY <2>1, <1>a, EmptySeq
<1> QED BY <1>6, <1>8, <1>9 DEF t

(* The invariant, for a tame profile.                                      *)
Inv == use \in Profiles /\ Tame(use) /\ Core

(* What is on the way is counted in naturals.                              *)
LEMMA OnTheWay ==
  ASSUME Inv, NEW c
  PROVE  CreditOf(toHost, c) \in Nat /\ DataOf(toHost, c) \in Nat
<1>1. CASE toHost = << >>
  BY <1>1, SumEmpty DEF CreditOf, DataOf
<1>2. CASE toHost # << >>
  <2>1. toHost \in Seq(Sound) /\ Head(toHost) \in Sound  BY <1>2 DEF Inv, Core
  <2> QED BY <2>1, WhatAppends DEF Inv
<1> QED BY <1>1, <1>2

(* Steps of a call that touch neither channel nor peripheral.              *)
LEMMA ChannelKept ==
  ASSUME NEW c \in Chans, Inv, Channel(c), UNCHANGED <<use, open, used, ta, rindex, rcnt, toHost, dev>>,
         Settled(c)' => Settled(c), Steady(c)' = Steady(c),
         open # {} /\ step' # "init" => step # "init"
  PROVE  Channel(c)'
<1>1. Standing(c)'  BY DEF Channel, Standing, dev, ta, Fresh
<1>2. Granting(c)'  BY DEF Channel, Granting, dev, ta
<1>3. Reading(c)'  BY DEF Channel, Reading, dev, ta
<1>4. Roomy(c)'  BY DEF Channel, Roomy, dev, ta
<1> QED BY <1>1, <1>2, <1>3, <1>4 DEF Channel

(* A write begins; nothing is sent yet.                                    *)
LEMMA StartWriteKeeps ==
  ASSUME Inv, UNCHANGED use, NEW c \in Chans, NEW k \in 1..use.writes, StartWrite(c, k)
  PROVE  Core'
<1> USE DEF StartWrite, Idle, Inv, Core
<1>0. use.writes \in Nat /\ MaxTries \in Nat  BY UseFacts
<1>1. Typed'
  <2>1. n' \in Nat /\ cnt' \in 0..MaxTries + 1  BY <1>0
  <2>2. proc' \in Procs /\ ch' \in Chans /\ step' \in Steps  BY DEF Procs, Steps
  <2> QED BY <2>1, <2>2 DEF Typed, ta, buf, dev
<1>2. toHost' \in Seq(Sound)'  BY SoundKept
<1>3. Control'  BY DEF Control
<1>4. Flags'  BY DEF Flags, Control, dev
<1>5. Exchange'  BY DEF Exchange, Control, Silent, Commands
<1>6. Call'  BY DEF Call
<1>7. ASSUME NEW d \in Chans PROVE Channel(d)'
  <2>1. Settled(d)' => Settled(d)  BY DEF Settled
  <2>2. Steady(d)' = Steady(d)  BY DEF Steady, Control
  <2>3. step # "init"  BY DEF Control
  <2> QED BY <2>1, <2>2, <2>3, ChannelKept DEF buf
<1> QED BY <1>1, <1>2, <1>3, <1>4, <1>5, <1>6, <1>7

(* Room does not shrink with less in the buffer.                           *)
LEMMA RoomLeft ==
  ASSUME NEW c \in Chans, Roomy(c), use' = use, use \in Profiles, p2hcredit'[c] = p2hcredit[c],
         rcnt[c] \in Nat, rindex[c] \in Nat, rcnt'[c] \in Nat, rindex'[c] \in Nat,
         rcnt'[c] + rindex'[c] <= rcnt[c] + rindex[c], rcnt'[c] = 0 => rindex'[c] = 0
  PROVE  Roomy(c)'
<1>1. BufSize \in Nat /\ \A l \in use.packets : l \in Nat  BY UseFacts
<1> QED BY <1>1 DEF Roomy

(* cut_buf makes room: what it leaves in the buffer ends where it ended.   *)
LEMMA ReadBufferedKeeps ==
  ASSUME Inv, UNCHANGED use, NEW c \in Chans, NEW len \in use.reads, ReadBuffered(c, len)
  PROVE  Core'
<1> USE DEF ReadBuffered, Idle, Inv, Core
<1>0. len \in 1..BufSize /\ BufSize \in Nat  BY UseFacts
<1>a. rindex[c] \in 0..BufSize /\ rcnt[c] \in 0..BufSize /\ rindex[c] + rcnt[c] <= BufSize
  BY DEF Typed, Channel, Roomy
<1>b. /\ rindex' = [rindex EXCEPT ![c] = IF rcnt[c] > len THEN rindex[c] + len ELSE 0]
      /\ rcnt' = [rcnt EXCEPT ![c] = IF rcnt[c] > len THEN rcnt[c] - len ELSE 0]
  <2> DEFINE k == rcnt[c]
             left == k - (IF k > len THEN len ELSE k)
  <2>1. rindex' = [rindex EXCEPT ![c] = IF k > len THEN rindex[c] + len ELSE 0]
    BY Zenon DEF CutBuf
  <2>2. rcnt' = [rcnt EXCEPT ![c] = left]  BY Zenon DEF CutBuf
  <2>3. left = IF k > len THEN k - len ELSE 0
    <3>1. k \in Nat  BY <1>a
    <3> QED BY <3>1
  <2> HIDE DEF left, k
  <2> QED BY <2>1, <2>2, <2>3, Zenon DEF k
<1>c. /\ (IF rcnt[c] > len THEN rindex[c] + len ELSE 0) \in 0..BufSize
      /\ (IF rcnt[c] > len THEN rcnt[c] - len ELSE 0) \in 0..BufSize
  BY <1>0, <1>a
<1>1. Typed'
  <2>1. rindex' \in [Chans -> 0..BufSize] /\ rcnt' \in [Chans -> 0..BufSize]
    BY <1>b, <1>c DEF Typed
  <2> QED BY <2>1 DEF Typed, call, ta, buf, dev
<1>2. toHost' \in Seq(Sound)'  BY SoundKept
<1>3. Control'  BY DEF Control, call
<1>4. Flags'  BY DEF Flags, call, dev
<1>5. Exchange'  BY DEF Exchange, Control, Silent, Commands, call
<1>6. Call'  BY DEF Call, Control, call
<1>7. ASSUME NEW d \in Chans PROVE Channel(d)'
  <2>1. Standing(d)'  BY DEF Channel, Standing, dev, ta, Fresh, Settled, call
  <2>2. Granting(d)'  BY DEF Channel, Granting, dev, ta, Settled, Steady, call
  <2>3. Reading(d)'  BY DEF Channel, Reading, dev, ta, Settled, Steady, call
  <2>4. Roomy(d)'
    <3>1. Roomy(d) /\ p2hcredit' = p2hcredit /\ p2hcredit[d] \in Nat  BY DEF Channel, ta, Typed
    <3>2. CASE d # c
      <4>1. rcnt'[d] = rcnt[d] /\ rindex'[d] = rindex[d]  BY <1>b, <3>2 DEF Typed
      <4> QED BY <3>1, <4>1 DEF Roomy
    <3>3. CASE d = c
      <4>1. /\ rcnt'[d] + rindex'[d] <= rcnt[d] + rindex[d] /\ rcnt'[d] \in Nat /\ rindex'[d] \in Nat
            /\ rcnt'[d] = 0 => rindex'[d] = 0
        <5>1. /\ rindex'[c] = IF rcnt[c] > len THEN rindex[c] + len ELSE 0
              /\ rcnt'[c] = IF rcnt[c] > len THEN rcnt[c] - len ELSE 0
          BY <1>b DEF Typed
        <5> QED BY <1>0, <1>a, <3>3, <5>1
      <4>2. \A l \in use.packets : l \in Nat  BY UseFacts
      <4>3. rcnt[d] \in Nat /\ rindex[d] \in Nat  BY DEF Typed
      <4> QED BY <1>0, <1>a, <3>1, <3>3, <4>1, <4>2, <4>3, RoomLeft
    <3> QED BY <3>2, <3>3
  <2> QED BY <2>1, <2>2, <2>3, <2>4 DEF Channel
<1> QED BY <1>1, <1>2, <1>3, <1>4, <1>5, <1>6, <1>7

(* A call that asked for nothing ends.                                     *)
LEMMA ReturnKeeps ==
  ASSUME Inv, step \notin Commands, proc # "idle",
         Return, UNCHANGED <<use, ch, open, up, ta, rindex, rcnt, toDev, toHost, dev, used>>
  PROVE  Core'
<1> USE DEF Return, Inv, Core
<1>0. MaxTries \in Nat  BY UseFacts
<1>1. Typed'  BY <1>0 DEF Typed, ta, dev, Procs, Steps
<1>2. toHost' \in Seq(Sound)'  BY SoundKept
<1>3. Control'  BY DEF Control
<1>4. Flags'  BY DEF Flags, Control, Commands, dev
<1>5. Exchange'  BY DEF Exchange, Silent, Commands
<1>6. Call'  BY DEF Call
<1>7. ASSUME NEW d \in Chans PROVE Channel(d)'
  <2>1. Settled(d)' => Settled(d)  BY DEF Settled, Control, Commands
  <2>2. Steady(d)' = Steady(d)  BY DEF Steady, Commands
  <2>3. step # "init"  BY DEF Commands
  <2> QED BY <2>1, <2>2, <2>3, ChannelKept
<1> QED BY <1>1, <1>2, <1>3, <1>4, <1>5, <1>6, <1>7

(* A read gives up: its credit stays with the peripheral.                  *)
LEMMA ReadTimeoutKeeps ==
  ASSUME Inv, UNCHANGED use, ReadTimeout
  PROVE  Core'
<1>1. step \notin Commands /\ proc # "idle"  BY DEF ReadTimeout, Inv, Core, Control, Commands
<1> QED BY <1>1, ReturnKeeps DEF ReadTimeout, buf

(* A write gives up waiting for credit.                                    *)
LEMMA ReverseCmdFailsKeeps ==
  ASSUME Inv, UNCHANGED use, ReverseCmdFails
  PROVE  Core'
<1>1. step \notin Commands /\ proc # "idle"  BY DEF ReverseCmdFails, Inv, Core, Control, Commands
<1>2. ~(Pending /\ Pk.kind \in {"junk", "error"})
  <2>1. ASSUME Pending PROVE Pk \in Sound  BY <2>1 DEF Inv, Core, Pending, Pk
  <2> QED BY <2>1 DEF Sound
<1> QED BY <1>1, <1>2, ReturnKeeps DEF ReverseCmdFails, buf

(* A read begins: it has credit, or asks the peripheral to take some.      *)
LEMMA StartReadKeeps ==
  ASSUME Inv, UNCHANGED use, NEW c \in Chans, NEW len \in use.reads, StartRead(c, len)
  PROVE  Core'
<1> USE DEF StartRead, Idle, Inv, Core
<1>0. len \in Nat /\ MaxTries \in Nat  BY UseFacts
<1>a. step = "none" /\ Settled(c) /\ Steady(c) /\ Channel(c) /\ Silent
  BY DEF Control, Settled, Steady, Exchange, Commands
<1>b. step' \in {"credit", "data"} /\ (step' = "credit" <=> p2hcredit[c] = 0) /\ p2hcredit[c] \in Nat
  BY DEF Send, Typed
<1>1. Typed'
  <2>1. n' \in Nat /\ cnt' \in 0..MaxTries + 1  BY <1>0
  <2>2. proc' \in Procs /\ ch' \in Chans /\ step' \in Steps  BY <1>b DEF Procs, Steps, Commands
  <2> QED BY <2>1, <2>2 DEF Typed, ta, buf, dev
<1>2. toHost' \in Seq(Sound)'  BY SoundKept
<1>3. Control'  BY <1>b DEF Control
<1>4. Flags'  BY <1>a, <1>b DEF Flags, Control, dev
<1>5. Exchange'
  <2>1. CASE step' = "data"
    BY <1>a, <1>b, <2>1 DEF Exchange, Silent, Commands, Send
  <2>2. CASE step' = "credit"
    <3>1. DataOf(toHost, c) + devP2h[c] = 0 /\ devP2h[c] \in Nat
      BY <1>a, <1>b, <2>2 DEF Channel, Reading, Typed
    <3>2. DataOf(toHost, c) \in Nat  BY OnTheWay
    <3>3. Before'  BY <2>2, <3>1, <3>2 DEF Before, dev
    <3>4. toDev' = <<Cmd>>'  BY <1>a, <1>b, <2>2 DEF Send, Silent, Cmd, Asked
    <3> QED BY <1>a, <2>2, <3>3, <3>4 DEF Exchange, Asking, Silent, Commands
  <2> QED BY <1>b, <2>1, <2>2
<1>6. Call'  BY <1>a, <1>b DEF Call, Channel, Standing, ta, buf, dev
<1>7. ASSUME NEW d \in Chans PROVE Channel(d)'
  <2>1. CASE Steady(d)'
    BY <1>a, <1>b, <2>1, ChannelKept DEF Settled, Steady, buf
  <2>2. CASE ~Steady(d)'
    <3>1. d = c /\ step' = "credit"  BY <2>2 DEF Steady
    <3> QED BY <1>a, <1>b, <3>1 DEF Channel, Standing, Granting, Reading, Roomy, Settled, Steady, Fresh, ta, dev, buf
  <2> QED BY <2>1, <2>2
<1> QED BY <1>1, <1>2, <1>3, <1>4, <1>5, <1>6, <1>7

(* A channel is opened: the exchange begins with Init or GetSocket.        *)
LEMMA OpenChannelKeeps ==
  ASSUME Inv, UNCHANGED use, NEW c \in Chans, OpenChannel(c)
  PROVE  Core'
<1> USE DEF OpenChannel, Idle, Inv, Core
<1>0. MaxTries \in Nat  BY UseFacts
<1>a. step = "none" /\ Silent  BY DEF Control, Exchange, Commands
<1>b. /\ step' \in {"init", "getsocket"} /\ (step' = "init" <=> open = {})
      /\ toDev' = <<Cmd>>'
  BY <1>a DEF Send, Silent, Cmd, Asked
<1>c. open # {} => c \notin used /\ Fresh(c)
  BY <1>a DEF Tame, Channel, Standing
<1>1. Typed'
  <2>1. n' \in Nat /\ cnt' \in 0..MaxTries + 1  BY <1>0
  <2>2. proc' \in Procs /\ ch' \in Chans /\ step' \in Steps  BY <1>b DEF Procs, Steps, Commands
  <2> QED BY <2>1, <2>2 DEF Typed, ta, buf, dev
<1>2. toHost' \in Seq(Sound)'  BY SoundKept
<1>3. Control'  BY <1>b DEF Control
<1>4. Flags'  BY <1>a, <1>b DEF Flags, dev
<1>5. Exchange'
  <2>1. Before'  BY <1>b DEF Before
  <2> QED BY <1>a, <1>b, <2>1 DEF Exchange, Asking, Silent, Commands
<1>6. Call'  BY <1>b, <1>c DEF Call, Fresh, ta, dev
<1>7. ASSUME NEW d \in Chans PROVE Channel(d)'
  <2>1. Settled(d)' => Settled(d)  BY DEF Settled
  <2>2. Steady(d) /\ Steady(d)'  BY <1>a, <1>b DEF Steady
  <2>3. Standing(d)'  BY <1>a, <1>b, <2>1 DEF Channel, Standing, Fresh, ta, dev
  <2>4. Granting(d)'  BY <2>1, <2>2 DEF Channel, Granting, ta, dev
  <2>5. Reading(d)'  BY <2>1, <2>2 DEF Channel, Reading, ta, dev
  <2>6. Roomy(d)'  BY DEF Channel, Roomy, ta, buf
  <2> QED BY <2>3, <2>4, <2>5, <2>6 DEF Channel
<1> QED BY <1>1, <1>2, <1>3, <1>4, <1>5, <1>6, <1>7

(* A channel is closed: the exchange begins with Close.                    *)
LEMMA CloseChannelKeeps ==
  ASSUME Inv, UNCHANGED use, NEW c \in Chans, CloseChannel(c)
  PROVE  Core'
<1> USE DEF CloseChannel, Idle, Inv, Core
<1>0. MaxTries \in Nat  BY UseFacts
<1>a. step = "none" /\ Silent  BY DEF Control, Exchange, Commands
<1>b. step' = "close" /\ toDev' = <<Cmd>>'
  BY <1>a DEF Send, Silent, Cmd, Asked
<1>1. Typed'
  <2>1. n' \in Nat /\ cnt' \in 0..MaxTries + 1  BY <1>0
  <2>2. proc' \in Procs /\ ch' \in Chans /\ step' \in Steps  BY <1>b DEF Procs, Steps, Commands
  <2> QED BY <2>1, <2>2 DEF Typed, ta, buf, dev
<1>2. toHost' \in Seq(Sound)'  BY SoundKept
<1>3. Control'  BY <1>b DEF Control
<1>4. Flags'  BY <1>a, <1>b DEF Flags, dev
<1>5. Exchange'
  <2>1. Before'  BY <1>b DEF Before
  <2> QED BY <1>a, <1>b, <2>1 DEF Exchange, Asking, Silent, Commands
<1>6. Call'  BY <1>b DEF Call
<1>7. ASSUME NEW d \in Chans PROVE Channel(d)'
  <2>1. Settled(d)' => Settled(d)  BY DEF Settled
  <2>2. Steady(d)' = Steady(d)  BY <1>a, <1>b DEF Steady
  <2> QED BY <1>a, <2>1, <2>2, ChannelKept DEF buf
<1> QED BY <1>1, <1>2, <1>3, <1>4, <1>5, <1>6, <1>7

(* A write asks for credit.                                                *)
LEMMA CreditRequestKeeps ==
  ASSUME Inv, UNCHANGED use, CreditRequest
  PROVE  Core'
<1> USE DEF CreditRequest, Inv, Core
<1>a. proc = "write" /\ Silent  BY DEF Control, Exchange, Commands, Typed, Procs
<1>b. step' = "creditreq" /\ toDev' = <<Cmd>>'
  BY <1>a DEF Send, Silent, Cmd, Asked
<1>1. Typed'
  <2>2. step' \in Steps  BY <1>b DEF Procs, Steps, Commands
  <2> QED BY <2>2 DEF Typed, ta, buf, dev
<1>2. toHost' \in Seq(Sound)'  BY SoundKept
<1>3. Control'  BY <1>a, <1>b DEF Control
<1>4. Flags'  BY <1>b DEF Flags, dev
<1>5. Exchange'
  <2>1. Before'  BY <1>b DEF Before
  <2> QED BY <1>a, <1>b, <2>1 DEF Exchange, Asking, Silent, Commands
<1>6. Call'  BY <1>b DEF Call
<1>7. ASSUME NEW d \in Chans PROVE Channel(d)'
  <2>1. Settled(d)' => Settled(d)  BY DEF Settled
  <2>2. Steady(d)' = Steady(d)  BY <1>b DEF Steady
  <2> QED BY <2>1, <2>2, ChannelKept DEF buf
<1> QED BY <1>1, <1>2, <1>3, <1>4, <1>5, <1>6, <1>7

(* A write uses a credit it has.                                           *)
LEMMA ForwardDataKeeps ==
  ASSUME Inv, UNCHANGED use, ForwardData
  PROVE  Core'
<1> USE DEF ForwardData, Inv, Core
<1>0. MaxTries \in Nat /\ CreditMod \in Nat /\ use.credit \in Nat  BY UseFacts
<1>a. proc = "write" /\ Silent  BY DEF Control, Exchange, Commands, Typed, Procs
<1>b. proc' \in {"idle", "write"} /\ step' = IF proc' = "idle" THEN "none" ELSE "loop"
  BY <1>a DEF Return
<1>c. ch \in Chans /\ ch \in open /\ Settled(ch) /\ Steady(ch) /\ Steady(ch)'
  BY <1>a, <1>b DEF Typed, Control, Settled, Steady
<1>d. h2pcredit[ch] + CreditOf(toHost, ch) = devCredit[ch]
  BY <1>c DEF Channel, Granting
<1>e. /\ h2pcredit[ch] \in CreditRange /\ devCredit[ch] \in Nat /\ CreditOf(toHost, ch) \in Nat
      /\ h2pcredit[ch] - 1 \in CreditRange /\ devCredit[ch] - 1 \in Nat
  <2>1. h2pcredit[ch] \in CreditRange /\ devCredit[ch] \in Nat  BY <1>c DEF Typed
  <2>2. CreditOf(toHost, ch) \in Nat  BY OnTheWay
  <2> QED BY <1>0, <1>d, <2>1, <2>2 DEF CreditRange
<1>1. Typed'
  <2>1. n' \in Nat /\ cnt' \in 0..MaxTries + 1  BY <1>0 DEF Typed, Return
  <2>2. proc' \in Procs /\ step' \in Steps  BY <1>b DEF Procs, Steps, Commands
  <2>3. h2pcredit' \in [Chans -> CreditRange] /\ devCredit' \in [Chans -> Nat]
    BY <1>e DEF Typed
  <2> QED BY <2>1, <2>2, <2>3 DEF Typed, ta, buf, dev
<1>2. toHost' \in Seq(Sound)'  BY SoundKept
<1>3. Control'  BY <1>a, <1>b DEF Control
<1>4. Flags'  BY <1>b DEF Flags, dev
<1>5. Exchange'  BY <1>a, <1>b DEF Exchange, Silent, Commands
<1>6. Call'  BY <1>b DEF Call
<1>7. ASSUME NEW d \in Chans PROVE Channel(d)'
  <2>1. Settled(d)' = Settled(d) /\ Steady(d) /\ Steady(d)'  BY <1>a, <1>b DEF Settled, Steady
  <2>2. Standing(d)'  BY <1>b, <2>1 DEF Channel, Standing, Fresh
  <2>3. Granting(d)'
    <3>1. CASE d = ch
      <4>1. h2pcredit'[d] = h2pcredit[d] - 1 /\ devCredit'[d] = devCredit[d] - 1
        BY <3>1 DEF Typed
      <4>2. devCredit[d] <= use.credit  BY DEF Channel, Granting
      <4> QED BY <1>0, <1>d, <1>e, <3>1, <4>1, <4>2 DEF Granting, CreditRange
    <3>2. CASE d # ch
      <4>1. h2pcredit'[d] = h2pcredit[d] /\ devCredit'[d] = devCredit[d]
        BY <3>2 DEF Typed
      <4> QED BY <2>1, <4>1 DEF Channel, Granting
    <3> QED BY <3>1, <3>2
  <2>4. Reading(d)'  BY <2>1 DEF Channel, Reading
  <2>5. Roomy(d)'  BY DEF Channel, Roomy, buf
  <2> QED BY <2>2, <2>3, <2>4, <2>5 DEF Channel
<1> QED BY <1>1, <1>2, <1>3, <1>4, <1>5, <1>6, <1>7

(* A counter below its width does not wrap.                                *)
LEMMA ModSmall ==
  ASSUME NEW m \in Nat, NEW a \in Nat, a < m
  PROVE  a % m = a
OBVIOUS

(* The packet at the head.                                                 *)
LEMMA Arrived ==
  ASSUME Inv, Pending
  PROVE  /\ Pk \in Sound /\ toHost \in Seq(Sound) /\ toHost # << >> /\ Tail(toHost) \in Seq(Sound)
         /\ Pk.kind \in {"reply", "credit", "data"} /\ Pk.ch \in Chans /\ Pk.credit \in Nat
         /\ Pk.kind = "data" => /\ Pk.len \in use.packets /\ Pk.len \in 1..BufSize
                                /\ Pk.from \in Bytes /\ Pk.from + Pk.len <= use.bytes /\ ~Pk.hi
         /\ EndsWait(Pk) <=> ~Plain(Pk)
<1>1. toHost \in Seq(Sound) /\ toHost # << >>  BY DEF Inv, Core, Pending
<1>2. Pk \in Sound /\ Tail(toHost) \in Seq(Sound)  BY <1>1 DEF Pk
<1>3. /\ Pk.kind \in {"reply", "credit", "data"} /\ Pk.ch \in Chans /\ Pk.credit \in Nat
      /\ Pk.kind = "data" => /\ Pk.len \in use.packets /\ Pk.len \in 1..BufSize
                             /\ Pk.from \in Bytes /\ Pk.from + Pk.len <= use.bytes /\ ~Pk.hi
  BY <1>2, SoundPacket DEF Inv
<1>4. EndsWait(Pk) <=> Pk.kind = "reply"  BY <1>3 DEF EndsWait
<1> QED BY <1>1, <1>2, <1>3, <1>4 DEF Plain

(* A packet that comes before the answer is none that must follow it.      *)
LEMMA NotEarly ==
  ASSUME Inv, Pending, Plain(Pk)
  PROVE  /\ step \in {"getsocket", "open"} => Pk.ch # ch
         /\ step = "credit" => ~IsData(Pk, ch)
<1> USE DEF Inv, Core
<1>1. toHost \in Seq(Sound) /\ toHost # << >> /\ Pk = Head(toHost)  BY Arrived DEF Pk
<1>2. Fresh(ch) => Pk.ch # ch
  BY <1>1, TailsShape DEF Fresh
<1>3. DataOf(toHost, ch) = 0 => ~IsData(Pk, ch)
  <2>1. 1 \in 1..Len(toHost) /\ toHost[1] = Pk  BY <1>1
  <2> QED BY <1>1, <2>1, NoData
<1>4. ASSUME Granted, step \in {"open", "credit"} PROVE ~Early(Pk, Rep(TRUE, 0))
  <2>1. PICK k : Answered(toHost, Rep(TRUE, k))  BY <1>4 DEF Granted
  <2>2. Rep(TRUE, k).kind = "reply"  BY DEF Rep
  <2>3. ~Early(Pk, Rep(TRUE, k))  BY <1>1, <2>1, <2>2, AnswerNears
  <2> QED BY <2>3 DEF Early, Rep
<1>5. CASE step = "getsocket"  BY <1>2, <1>5 DEF Call
<1>6. CASE step = "open"
  <2>1. Fresh(ch) \/ Granted  BY <1>6 DEF Exchange, Asking, Refused, Before, Commands
  <2> QED BY <1>2, <1>4, <1>6, <2>1 DEF Early, Rep
<1>7. CASE step = "credit"
  <2>1. DataOf(toHost, ch) = 0 \/ Granted  BY <1>7 DEF Exchange, Asking, Refused, Before, Commands
  <2> QED BY <1>3, <1>4, <1>7, <2>1 DEF Early, Rep, IsData
<1> QED BY <1>5, <1>6, <1>7

(* There is credit and room for data that arrives, except on the channel   *)
(* that has asked for its credit and not been told.                        *)
LEMMA RoomForData ==
  ASSUME Inv, Pending, Pk.kind = "data", Steady(Pk.ch)
  PROVE  /\ Room(Pk) /\ p2hcredit[Pk.ch] > 0
         /\ rindex[Pk.ch] + rcnt[Pk.ch] + Pk.len <= BufSize
<1> DEFINE c == Pk.ch
<1>1. /\ Pk \in Sound /\ toHost \in Seq(Sound) /\ toHost # << >> /\ c \in Chans
      /\ Pk.len \in use.packets /\ Pk.len \in 1..BufSize
  BY Arrived
<1>2. Channel(c) /\ p2hcredit[c] \in Nat /\ devP2h[c] \in Nat /\ rindex[c] \in Nat /\ rcnt[c] \in Nat
  BY <1>1 DEF Inv, Core, Typed
<1>3. DataOf(toHost, c) >= 1
  <2>1. One(Pk, c) = 1  BY DEF One, IsData
  <2>2. DataOf(toHost, c) = One(Pk, c) + DataOf(Tail(toHost), c) /\ DataOf(Tail(toHost), c) \in Nat
    BY <1>1, WhatLeaves DEF Inv, Pk
  <2> QED BY <2>1, <2>2
<1>4. p2hcredit[c] > 0
  <2>1. DataOf(toHost, c) \in Nat  BY OnTheWay
  <2> QED BY <1>2, <1>3, <2>1 DEF Channel, Reading
<1>5. rindex[c] + rcnt[c] + Pk.len <= BufSize
  BY <1>1, <1>2, <1>4 DEF Channel, Roomy
<1>6. BufSize \in Nat  BY UseFacts DEF Inv
<1> QED BY <1>1, <1>2, <1>4, <1>5, <1>6 DEF Room

(* What a packet that is no reply does to the channels, wherever the host  *)
(* meets it, but for the buffer.                                           *)
Counted(p) ==
    /\ h2pcredit' = Piggyback(p)
    /\ p2hcredit' = IF p.kind = "data" THEN [p2hcredit EXCEPT ![p.ch] = @ - 1] ELSE p2hcredit

(* What it counts, in numbers.                                             *)
LEMMA CountedAt ==
  ASSUME Inv, Pending, Plain(Pk), Pk.kind = "data" => Steady(Pk.ch), Counted(Pk)
  PROVE  /\ h2pcredit' \in [Chans -> CreditRange] /\ p2hcredit' \in [Chans -> Nat]
         /\ \A c \in Chans :
              /\ c # Pk.ch => h2pcredit'[c] = h2pcredit[c]
              /\ h2pcredit[c] + Grants(Pk, c) < CreditMod => h2pcredit'[c] = h2pcredit[c] + Grants(Pk, c)
              /\ p2hcredit'[c] = p2hcredit[c] - One(Pk, c)
<1> USE DEF Inv, Core
<1>1. Pk.kind \in {"credit", "data"} /\ Pk.ch \in Chans /\ Pk.credit \in Nat
  BY Arrived DEF Plain
<1>2. CreditMod \in Nat /\ CreditMod > 2  BY UseFacts
<1>3. h2pcredit \in [Chans -> CreditRange] /\ p2hcredit \in [Chans -> Nat]  BY DEF Typed
<1>4. h2pcredit[Pk.ch] \in 0..CreditMod - 1 /\ h2pcredit[Pk.ch] \in Nat  BY <1>1, <1>2, <1>3 DEF CreditRange
<1> DEFINE x == (h2pcredit[Pk.ch] + Pk.credit) % CreditMod
<1>5. x \in CreditRange
  BY <1>1, <1>2, <1>4 DEF CreditRange
<1>6. h2pcredit' = [h2pcredit EXCEPT ![Pk.ch] = x]  BY DEF Counted, Piggyback
<1>7. h2pcredit[Pk.ch] + Pk.credit < CreditMod => x = h2pcredit[Pk.ch] + Pk.credit
  <2> DEFINE a == h2pcredit[Pk.ch] + Pk.credit
  <2>1. a \in Nat  BY <1>1, <1>4
  <2> HIDE DEF a
  <2> QED BY <1>2, <2>1, ModSmall DEF a
<1> HIDE DEF x
<1>8. h2pcredit' \in [Chans -> CreditRange]  BY <1>1, <1>3, <1>5, <1>6
<1>9. Pk.kind = "data" => p2hcredit[Pk.ch] > 0  BY RoomForData
<1>10. p2hcredit' \in [Chans -> Nat]
  BY <1>1, <1>3, <1>9 DEF Counted
<1>11. ASSUME NEW c \in Chans
       PROVE  /\ c # Pk.ch => h2pcredit'[c] = h2pcredit[c]
              /\ h2pcredit[c] + Grants(Pk, c) < CreditMod => h2pcredit'[c] = h2pcredit[c] + Grants(Pk, c)
  <2>1. CASE c = Pk.ch
    BY <1>1, <1>3, <1>6, <1>7, <2>1 DEF Grants
  <2>2. CASE c # Pk.ch
    <3>1. h2pcredit'[c] = h2pcredit[c]  BY <1>1, <1>3, <1>6, <2>2
    <3>2. Grants(Pk, c) = 0  BY <2>2 DEF Grants
    <3>3. h2pcredit[c] \in Nat  BY <1>3, <1>2 DEF CreditRange
    <3> QED BY <3>1, <3>2, <3>3, <2>2
  <2> QED BY <2>1, <2>2
<1>12. ASSUME NEW c \in Chans PROVE p2hcredit'[c] = p2hcredit[c] - One(Pk, c)
  BY <1>1, <1>3 DEF Counted, One, IsData
<1> QED BY <1>8, <1>10, <1>11, <1>12

(* The ledgers of every channel after a packet that is no reply.           *)
LEMMA ChannelCounted ==
  ASSUME Inv, Pending, Plain(Pk), Pk.kind = "data" => Steady(Pk.ch), Counted(Pk), Take,
         UNCHANGED <<use, open, used, dev>>, NEW c \in Chans,
         Settled(c)' = Settled(c), Steady(c)' = Steady(c), step' # "init" => step # "init"
  PROVE  Standing(c)' /\ Granting(c)' /\ Reading(c)'
<1>1. /\ Pk \in Sound /\ toHost \in Seq(Sound) /\ toHost # << >> /\ toHost' = Tail(toHost)
      /\ Pk = Head(toHost)
  BY Arrived DEF Take, Pk
<1>2. Channel(c) /\ p2hcredit[c] \in Nat /\ devP2h[c] \in Nat /\ devCredit[c] \in Nat
  BY DEF Inv, Core, Typed
<1>3. /\ CreditOf(toHost, c) = Grants(Pk, c) + CreditOf(toHost', c)
      /\ DataOf(toHost, c) = One(Pk, c) + DataOf(toHost', c)
      /\ Grants(Pk, c) \in Nat /\ CreditOf(toHost', c) \in Nat /\ DataOf(toHost', c) \in Nat
  BY <1>1, WhatLeaves DEF Inv
<1>4. /\ h2pcredit[c] + Grants(Pk, c) < CreditMod => h2pcredit'[c] = h2pcredit[c] + Grants(Pk, c)
      /\ p2hcredit'[c] = p2hcredit[c] - One(Pk, c) /\ p2hcredit'[c] \in Nat
  BY CountedAt
<1>5. CreditMod \in Nat /\ use.credit < CreditMod /\ use.credit \in Nat /\ h2pcredit[c] \in Nat
  <2>1. CreditMod \in Nat /\ use.credit < CreditMod /\ use.credit \in Nat  BY UseFacts DEF Inv
  <2> QED BY <2>1 DEF Inv, Core, Typed, CreditRange
<1>6. One(Pk, c) \in {0, 1}  BY DEF One
<1>7. Standing(c)'
  <2>1. Fresh(c) => Fresh(c)'
    <3>1. Absent(toHost, c) => Absent(toHost', c)  BY <1>1, TailsShape
    <3>2. p2hcredit[c] = 0 => p2hcredit'[c] = 0  BY <1>4, <1>6
    <3> QED BY <3>1, <3>2 DEF Fresh, dev
  <2> QED BY <1>2, <2>1 DEF Channel, Standing, dev
<1>8. Granting(c)'
  <2>1. SUFFICES ASSUME Settled(c) \/ ~Steady(c)
                 PROVE  h2pcredit'[c] + CreditOf(toHost', c) = devCredit[c]
    BY <1>2 DEF Channel, Granting, dev
  <2>2. h2pcredit[c] + CreditOf(toHost, c) = devCredit[c] /\ devCredit[c] <= use.credit
    BY <1>2, <2>1 DEF Channel, Granting
  <2>3. h2pcredit[c] + Grants(Pk, c) < CreditMod
    BY <1>2, <1>3, <1>5, <2>2
  <2> QED BY <1>3, <1>4, <1>5, <2>2, <2>3
<1>9. Reading(c)'
  <2>1. Reading(c) /\ devP2h' = devP2h  BY <1>2 DEF Channel, dev
  <2> QED BY <1>2, <1>3, <1>4, <1>6, <2>1 DEF Reading
<1> QED BY <1>7, <1>8, <1>9

(* A packet handled while the host waits for something else.               *)
LEMMA HandledKeeps ==
  ASSUME Inv, UNCHANGED <<use, call, open, up, toDev, dev, used>>, Pending, Plain(Pk),
         ExecReverseCmd(Pk), Take, step = "data" => ~IsData(Pk, ch)
  PROVE  Core'
<1> USE DEF Inv, Core
<1>1. /\ Pk \in Sound /\ toHost \in Seq(Sound) /\ toHost # << >> /\ toHost' = Tail(toHost)
      /\ Pk = Head(toHost) /\ toHost' \in Seq(Sound)
      /\ Pk.kind \in {"credit", "data"} /\ Pk.ch \in Chans
      /\ Pk.kind = "data" => Pk.len \in use.packets /\ Pk.len \in 1..BufSize
  BY Arrived DEF Take, Pk, Plain
<1>2. Pk.kind = "data" => Steady(Pk.ch)  BY NotEarly DEF Steady, IsData
<1>3. Pk.kind = "data" => Room(Pk)  BY <1>2, RoomForData
<1>4. /\ Counted(Pk) /\ rindex' = rindex
      /\ rcnt' = IF Pk.kind = "data" THEN [rcnt EXCEPT ![Pk.ch] = @ + Pk.len] ELSE rcnt
  BY <1>1, <1>3 DEF ExecReverseCmd, Counted, buf
<1>5. /\ h2pcredit' \in [Chans -> CreditRange] /\ p2hcredit' \in [Chans -> Nat]
      /\ \A c \in Chans : p2hcredit'[c] = p2hcredit[c] - One(Pk, c)
  BY <1>2, <1>4, CountedAt
<1>6. Pk.kind = "data" => /\ rindex[Pk.ch] + rcnt[Pk.ch] + Pk.len <= BufSize
                          /\ p2hcredit[Pk.ch] > 0
  BY <1>2, RoomForData
<1>7. BufSize \in Nat /\ \A l \in use.packets : l \in Nat  BY UseFacts
<1>8. rcnt' \in [Chans -> 0..BufSize]
  <2>1. Pk.kind = "data" => rcnt[Pk.ch] + Pk.len \in 0..BufSize
    <3>1. rcnt[Pk.ch] \in Nat /\ rindex[Pk.ch] \in Nat  BY <1>1 DEF Typed
    <3> QED BY <1>1, <1>6, <1>7, <3>1
  <2>2. rcnt \in [Chans -> 0..BufSize]  BY DEF Typed
  <2> QED BY <1>1, <1>4, <2>1, <2>2
<1>9. Typed'  BY <1>4, <1>5, <1>8 DEF Typed, call, dev
<1>10. (toHost \in Seq(Sound))'
  <2>1. Sound' = Sound  BY SoundKept
  <2> QED BY <1>1, <2>1
<1>11. Control'  BY DEF Control, call
<1>12. Flags'  BY DEF Flags, call, dev
<1>13. /\ Fresh(ch) => Fresh(ch)'
       /\ p2hcredit[ch] = 0 => p2hcredit'[ch] = 0
       /\ step = "data" => p2hcredit'[ch] = p2hcredit[ch]
  <2>1. ch \in Chans  BY DEF Typed
  <2>2. Absent(toHost, ch) => Absent(toHost', ch)  BY <1>1, TailsShape
  <2>3. p2hcredit'[ch] = p2hcredit[ch] - One(Pk, ch) /\ p2hcredit'[ch] \in Nat /\ p2hcredit[ch] \in Nat
    BY <1>5, <2>1 DEF Typed
  <2>4. One(Pk, ch) \in {0, 1} /\ (step = "data" => One(Pk, ch) = 0)  BY DEF One
  <2>5. p2hcredit[ch] = 0 => p2hcredit'[ch] = 0  BY <2>3, <2>4
  <2> QED BY <2>2, <2>3, <2>4, <2>5 DEF Fresh, dev, call
<1>14. Call'
  <2>1. step = "credit" /\ proc = "read" => rcnt'[ch] = 0
    <3>1. step = "credit" => ~IsData(Pk, ch)  BY NotEarly
    <3>2. step = "credit" => rcnt'[ch] = rcnt[ch]
      BY <1>1, <1>4, <3>1 DEF IsData, Typed
    <3> QED BY <3>2 DEF Call
  <2> QED BY <1>13, <2>1 DEF Call, call, dev
<1>15. Exchange'
  <2>1. /\ DataOf(toHost, ch) = One(Pk, ch) + DataOf(toHost', ch)
        /\ CreditOf(toHost, ch) = Grants(Pk, ch) + CreditOf(toHost', ch)
        /\ DataOf(toHost', ch) \in Nat /\ CreditOf(toHost', ch) \in Nat
    BY <1>1, WhatLeaves
  <2>2. One(Pk, ch) \in {0, 1}  BY DEF One
  <2>3. Before => Before'
    <3>1. DataOf(toHost, ch) = 0 => DataOf(toHost', ch) = 0  BY <2>1, <2>2
    <3> QED BY <1>13, <3>1 DEF Before, call, dev
  <2>4. ASSUME NEW k, After(k) PROVE After(k)'
    <3>1. step = "open" => DataOf(toHost', ch) = DataOf(toHost, ch) /\ CreditOf(toHost', ch) = CreditOf(toHost, ch)
      <4>1. step = "open" => One(Pk, ch) = 0 /\ Grants(Pk, ch) = 0
        BY NotEarly DEF One, Grants, IsData
      <4> QED BY <2>1, <4>1
    <3>2. step = "credit" => DataOf(toHost', ch) = DataOf(toHost, ch)
      <4>1. step = "credit" => One(Pk, ch) = 0  BY NotEarly DEF One
      <4> QED BY <2>1, <4>1
    <3> QED BY <2>4, <3>1, <3>2 DEF After, Asked, call, dev
  <2>5. Quiet(toHost) => Quiet(toHost')  BY <1>1, TailsShape
  <2>6. ASSUME NEW r, r.kind = "reply", Answered(toHost, r) PROVE Answered(toHost', r)
    BY <1>1, <2>6, AnswerNears
  <2>7. \A ok, k : Rep(ok, k)' = Rep(ok, k) /\ Rep(ok, k).kind = "reply"  BY DEF Rep, call
  <2>8. Cmd' = Cmd  BY DEF Cmd, Asked, call
  <2>9. Silent => Silent'  BY <2>5 DEF Silent
  <2>10. Asking => Asking'  BY <2>3, <2>5, <2>8 DEF Asking
  <2>11. Refused => Refused'
    <3>1. Rep(FALSE, 0)' = Rep(FALSE, 0) /\ Rep(FALSE, 0).kind = "reply"  BY <2>7
    <3> QED BY <2>3, <2>6, <3>1 DEF Refused
  <2>12. Granted => Granted'
    <3>1. ASSUME Granted PROVE Granted'
      <4>1. PICK k \in 0..use.credit : Answered(toHost, Rep(TRUE, k)) /\ After(k)  BY <3>1 DEF Granted
      <4>2. Rep(TRUE, k)' = Rep(TRUE, k) /\ Rep(TRUE, k).kind = "reply"  BY <2>7
      <4>3. Answered(toHost', Rep(TRUE, k)') /\ After(k)'  BY <2>4, <2>6, <4>1, <4>2
      <4>4. toDev' = << >> /\ k \in 0..use'.credit  BY <3>1 DEF Granted
      <4> QED BY <4>3, <4>4 DEF Granted
    <3> QED BY <3>1
  <2>13. step' = step  BY DEF call
  <2> QED BY <2>9, <2>10, <2>11, <2>12, <2>13 DEF Exchange
<1>16. ASSUME NEW c \in Chans PROVE Channel(c)'
  <2>1. Settled(c)' = Settled(c) /\ Steady(c)' = Steady(c) /\ step' = step
    BY DEF Settled, Steady, call
  <2>2. Standing(c)' /\ Granting(c)' /\ Reading(c)'
    BY <1>2, <1>4, <2>1, ChannelCounted
  <2>3. Roomy(c)'
    <3>1. Roomy(c) /\ rindex' = rindex /\ rindex[c] \in Nat /\ rcnt[c] \in Nat /\ p2hcredit[c] \in Nat
      BY <1>4 DEF Channel, Typed
    <3>2. CASE IsData(Pk, c)
      <4>1. rcnt'[c] = rcnt[c] + Pk.len /\ p2hcredit'[c] = p2hcredit[c] - 1
        BY <1>1, <1>4, <1>5, <3>2 DEF IsData, One, Typed
      <4>2. rindex[c] + rcnt[c] + Pk.len <= BufSize /\ p2hcredit[c] > 0
            /\ Pk.len \in use.packets /\ Pk.len \in Nat /\ Pk.len > 0
        BY <1>1, <1>6, <3>2 DEF IsData
      <4>3. p2hcredit[c] = 2 => \A l \in use.packets : rindex[c] + rcnt[c] + Pk.len + l <= BufSize
        BY <3>1, <4>2 DEF Roomy
      <4>4. p2hcredit[c] \in {1, 2}  BY <3>1, <4>2 DEF Roomy
      <4>5. p2hcredit'[c] \in {0, 1} /\ (p2hcredit'[c] = 1 => p2hcredit[c] = 2)  BY <4>1, <4>4
      <4>6. rcnt'[c] # 0 /\ rindex[c] + rcnt'[c] <= BufSize  BY <1>7, <3>1, <4>1, <4>2
      <4>7. p2hcredit'[c] > 0 => \A l \in use.packets : rindex[c] + rcnt'[c] + l <= BufSize
        <5> SUFFICES ASSUME p2hcredit'[c] > 0, NEW l \in use.packets
                     PROVE  rindex[c] + rcnt'[c] + l <= BufSize
          OBVIOUS
        <5>1. rindex[c] + rcnt[c] + Pk.len + l <= BufSize  BY <4>3, <4>5
        <5> QED BY <1>7, <3>1, <4>1, <4>2, <5>1
      <4> QED BY <3>1, <4>5, <4>6, <4>7 DEF Roomy
    <3>3. CASE ~IsData(Pk, c)
      <4>1. rcnt'[c] = rcnt[c]  BY <1>1, <1>4, <3>3 DEF IsData, Typed
      <4>2. p2hcredit'[c] = p2hcredit[c]  BY <1>5, <3>1, <3>3 DEF One
      <4> QED BY <3>1, <4>1, <4>2 DEF Roomy
    <3> QED BY <3>2, <3>3
  <2> QED BY <2>2, <2>3 DEF Channel
<1> QED BY <1>9, <1>10, <1>11, <1>12, <1>14, <1>15, <1>16

(* A packet met while a reply is awaited.                                  *)
LEMMA ReplyMeanwhileKeeps ==
  ASSUME Inv, UNCHANGED use, ReplyMeanwhile
  PROVE  Core'
<1>1. Plain(Pk)  BY Arrived DEF ReplyMeanwhile
<1>2. step # "data"  BY DEF ReplyMeanwhile, Commands
<1> QED BY <1>1, <1>2, HandledKeeps DEF ReplyMeanwhile

(* Outside a command no reply is on the way.                               *)
LEMMA NoReply ==
  ASSUME Inv, Pending, step \notin Commands
  PROVE  Plain(Pk)
<1>1. Quiet(toHost)  BY DEF Inv, Core, Exchange, Silent
<1> QED BY <1>1, Arrived, TailsShape DEF Pk

(* A packet met while a write waits for credit.                            *)
LEMMA ReverseCmdKeeps ==
  ASSUME Inv, UNCHANGED use, ReverseCmd
  PROVE  Core'
<1>1. step \notin Commands /\ step # "data"  BY DEF ReverseCmd, Commands
<1>2. Plain(Pk)  BY <1>1, NoReply DEF ReverseCmd
<1> QED BY <1>1, <1>2, HandledKeeps DEF ReverseCmd

(* A packet of another channel, or a credit, met by a read.                *)
LEMMA ReadMeanwhileKeeps ==
  ASSUME Inv, UNCHANGED use, ReadMeanwhile
  PROVE  Core'
<1>1. step \notin Commands  BY DEF ReadMeanwhile, Commands
<1>2. Plain(Pk)  BY <1>1, NoReply DEF ReadMeanwhile
<1>3. ~IsData(Pk, ch)  BY DEF ReadMeanwhile, IsData
<1> QED BY <1>2, <1>3, HandledKeeps DEF ReadMeanwhile

(* There is always room for the data of another channel.                   *)
LEMMA NoReadInvalid ==
  ASSUME Inv, ReadInvalid
  PROVE  FALSE
<1>1. Pending /\ step = "data"  BY DEF ReadInvalid
<1>2. Pk.kind \in {"reply", "credit", "data"}  BY <1>1, Arrived
<1>3. Pk.kind = "data" => Room(Pk)  BY <1>1, RoomForData DEF Steady
<1> QED BY <1>2, <1>3 DEF ReadInvalid

(* The packet a read waits for.                                            *)
LEMMA ReadDataKeeps ==
  ASSUME Inv, UNCHANGED use, ReadData
  PROVE  Core'
<1> USE DEF Inv, Core
<1>1. /\ Pending /\ Plain(Pk) /\ Pk \in Sound /\ toHost \in Seq(Sound) /\ toHost # << >>
      /\ toHost' = Tail(toHost) /\ toHost' \in Seq(Sound)
      /\ Pk = Head(toHost) /\ Pk.kind = "data" /\ Pk.ch = ch /\ ch \in Chans
      /\ Pk.len \in use.packets /\ Pk.len \in 1..BufSize
  BY Arrived DEF ReadData, Take, Pk, Plain
<1>2. Steady(Pk.ch) /\ step = "data" /\ proc = "read" /\ ch \in open
  BY DEF ReadData, Steady, Control, Typed, Procs
<1>3. Return /\ UNCHANGED <<ch, open, up, toDev, dev, used>>  BY DEF ReadData, Received
<1>4. Counted(Pk)
  BY <1>1 DEF ReadData, Received, Counted
<1>5. n \in Nat /\ BufSize \in Nat /\ MaxTries \in Nat /\ \A l \in use.packets : l \in Nat
  BY UseFacts DEF Typed
<1>6. /\ rindex' = [rindex EXCEPT ![ch] = IF Pk.len > n THEN n ELSE 0]
      /\ rcnt' = [rcnt EXCEPT ![ch] = IF Pk.len > n THEN Pk.len - n ELSE 0]
  <2> DEFINE k == Pk.len
             left == k - (IF k > n THEN n ELSE k)
             b == Filled(EmptyBuf, 0, Pk)
  <2>1. CutBuf(ch, b, 0, k, n)  BY DEF ReadData, Received
  <2> HIDE DEF b
  <2>2. rindex' = [rindex EXCEPT ![ch] = IF k > n THEN 0 + n ELSE 0]
    BY <2>1, Zenon DEF CutBuf
  <2>3. rcnt' = [rcnt EXCEPT ![ch] = left]  BY <2>1, Zenon DEF CutBuf
  <2>4. left = IF k > n THEN k - n ELSE 0
    <3>1. k \in Nat  BY <1>1
    <3> QED BY <3>1
  <2>5. 0 + n = n  BY <1>5
  <2> HIDE DEF left, k
  <2> QED BY <2>2, <2>3, <2>4, <2>5, Zenon DEF k
<1>7. /\ h2pcredit' \in [Chans -> CreditRange] /\ p2hcredit' \in [Chans -> Nat]
      /\ \A c \in Chans : p2hcredit'[c] = p2hcredit[c] - One(Pk, c)
  BY <1>1, <1>2, <1>4, CountedAt
<1> DEFINE x == IF Pk.len > n THEN n ELSE 0
           y == IF Pk.len > n THEN Pk.len - n ELSE 0
<1>8. /\ x \in Nat /\ y \in Nat /\ x + y <= Pk.len /\ (y = 0 => x = 0)
      /\ x \in 0..BufSize /\ y \in 0..BufSize
  BY <1>1, <1>5
<1>9. rindex' = [rindex EXCEPT ![ch] = x] /\ rcnt' = [rcnt EXCEPT ![ch] = y]  BY <1>6
<1> HIDE DEF x, y
<1>10. Typed'
  <2>1. rindex' \in [Chans -> 0..BufSize] /\ rcnt' \in [Chans -> 0..BufSize]
    BY <1>8, <1>9 DEF Typed
  <2>2. n' \in Nat /\ cnt' \in 0..MaxTries + 1  BY <1>3, <1>5 DEF Return
  <2>3. proc' \in Procs /\ step' \in Steps  BY <1>3 DEF Return, Procs, Steps
  <2> QED BY <1>3, <1>7, <2>1, <2>2, <2>3 DEF Typed, dev
<1>11. (toHost \in Seq(Sound))'
  <2>1. Sound' = Sound  BY SoundKept
  <2> QED BY <1>1, <2>1
<1>12. Control'  BY <1>3 DEF Control, Return
<1>13. Flags'  BY <1>2, <1>3 DEF Flags, Return, dev
<1>14. Call'  BY <1>3 DEF Call, Return
<1>15. Exchange'
  <2>1. Silent  BY <1>2 DEF Exchange, Commands
  <2>2. Quiet(toHost')  BY <1>1, <2>1, TailsShape DEF Silent
  <2> QED BY <1>3, <2>1, <2>2 DEF Exchange, Silent, Return, Commands
<1>16. ASSUME NEW c \in Chans PROVE Channel(c)'
  <2>1. Settled(c)' = Settled(c) /\ Steady(c)' = Steady(c) /\ step # "init"
    BY <1>2, <1>3 DEF Settled, Steady, Return
  <2>2. Standing(c)' /\ Granting(c)' /\ Reading(c)'
    BY <1>1, <1>2, <1>3, <1>4, <2>1, ChannelCounted DEF Take
  <2>3. Roomy(c)'
    <3>1. Roomy(c) /\ rindex[c] \in Nat /\ rcnt[c] \in Nat /\ p2hcredit[c] \in Nat
      BY DEF Channel, Typed
    <3>2. CASE c = ch
      <4>1. rcnt'[c] = y /\ rindex'[c] = x /\ p2hcredit'[c] = p2hcredit[c] - 1
        BY <1>1, <1>7, <1>9, <3>2 DEF IsData, One, Typed
      <4>2. rindex[c] + rcnt[c] + Pk.len <= BufSize /\ p2hcredit[c] > 0
        BY <1>1, <1>2, <3>2, RoomForData
      <4>3. p2hcredit[c] = 2 => \A l \in use.packets : rindex[c] + rcnt[c] + Pk.len + l <= BufSize
        BY <1>1, <3>1 DEF Roomy
      <4>4. p2hcredit[c] \in {1, 2}  BY <3>1, <4>2 DEF Roomy
      <4>5. p2hcredit'[c] \in {0, 1} /\ (p2hcredit'[c] = 1 => p2hcredit[c] = 2)  BY <4>1, <4>4
      <4>6. x + y <= BufSize  BY <1>1, <1>5, <1>8
      <4>7. p2hcredit'[c] > 0 => \A l \in use.packets : x + y + l <= BufSize
        <5> SUFFICES ASSUME p2hcredit'[c] > 0, NEW l \in use.packets
                     PROVE  x + y + l <= BufSize
          OBVIOUS
        <5>1. rindex[c] + rcnt[c] + Pk.len + l <= BufSize  BY <4>3, <4>5
        <5>2. /\ l \in Nat /\ Pk.len \in Nat /\ x \in Nat /\ y \in Nat /\ x + y <= Pk.len
              /\ rindex[c] \in Nat /\ rcnt[c] \in Nat /\ BufSize \in Nat
          BY <1>1, <1>5, <1>8, <3>1
        <5> HIDE DEF Inv, Core
        <5> QED BY <5>1, <5>2
      <4> QED BY <1>8, <4>1, <4>5, <4>6, <4>7 DEF Roomy
    <3>3. CASE c # ch
      <4>1. rcnt'[c] = rcnt[c] /\ rindex'[c] = rindex[c]  BY <1>9, <3>3 DEF Typed
      <4>2. p2hcredit'[c] = p2hcredit[c]  BY <1>1, <1>7, <3>1, <3>3 DEF One, IsData
      <4> QED BY <3>1, <4>1, <4>2 DEF Roomy
    <3> QED BY <3>2, <3>3
  <2> QED BY <2>2, <2>3 DEF Channel
<1> QED BY <1>10, <1>11, <1>12, <1>13, <1>14, <1>15, <1>16

(* The reply at the head of the pipe is the answer to the command sent.    *)
LEMMA ReplyAtHead ==
  ASSUME Inv, step \in Commands, Pending, ~Plain(Pk)
  PROVE  /\ toDev = << >> /\ Quiet(Tail(toHost)) /\ Pk.ch = ch /\ Pk.cmd = step /\ Pk.kind = "reply"
         /\ Pk.credit \in 0..use.credit
         /\ Fits(Pk) => After(Pk.credit) /\ (step = "init" => Tail(toHost) = << >>)
         /\ ~Fits(Pk) => Before /\ Pk.credit = 0
<1> USE DEF Inv, Core
<1>1. toHost \in Seq(Sound) /\ toHost # << >> /\ Pk = Head(toHost)  BY Arrived DEF Pk
<1>2. ~Quiet(toHost)  BY <1>1, TailsShape
<1>3. CASE Refused
  <2> DEFINE r == Rep(FALSE, 0)
  <2>1. Answered(toHost, r)  BY <1>3 DEF Refused
  <2> HIDE DEF r
  <2>2. Pk = r /\ Quiet(Tail(toHost))  BY <1>1, <2>1, AnswerTaken
  <2>3. r.kind = "reply" /\ r.cmd = step /\ r.ch = ch /\ r.ok = FALSE /\ r.credit = 0  BY DEF r, Rep
  <2>4. 0 \in 0..use.credit  BY UseFacts
  <2> QED BY <1>3, <2>2, <2>3, <2>4 DEF Refused, Fits
<1>4. CASE Granted
  <2>1. PICK k \in 0..use.credit : Answered(toHost, Rep(TRUE, k)) /\ After(k)  BY <1>4 DEF Granted
  <2> DEFINE r == Rep(TRUE, k)
  <2>2. Answered(toHost, r)  BY <2>1
  <2>3. r.kind = "reply" /\ r.cmd = step /\ r.ch = ch /\ r.ok = TRUE /\ r.credit = k  BY DEF Rep
  <2> HIDE DEF r
  <2>4. /\ Pk = r /\ Quiet(Tail(toHost))
        /\ r.cmd = "init" /\ r.ok => Tail(toHost) = << >>
    BY <1>1, <2>2, AnswerTaken
  <2> QED BY <1>4, <2>1, <2>3, <2>4 DEF Granted, Fits
<1> QED BY <1>2, <1>3, <1>4 DEF Exchange, Asking

(* What the answer takes with it.                                          *)
LEMMA ReplyCounts ==
  ASSUME Inv, step \in Commands, Pending, ~Plain(Pk), Take, NEW c
  PROVE  /\ CreditOf(toHost, c) = (IF c = ch THEN Pk.credit ELSE 0) + CreditOf(toHost', c)
         /\ DataOf(toHost, c) = DataOf(toHost', c)
         /\ CreditOf(toHost', c) \in Nat /\ DataOf(toHost', c) \in Nat
         /\ Absent(toHost, c) => Absent(toHost', c)
         /\ toHost' \in Seq(Sound) /\ Quiet(toHost')
<1>1. /\ toHost \in Seq(Sound) /\ toHost # << >> /\ Pk = Head(toHost) /\ toHost' = Tail(toHost)
      /\ Tail(toHost) \in Seq(Sound)
  BY Arrived DEF Pk, Take
<1>2. /\ CreditOf(toHost, c) = Grants(Pk, c) + CreditOf(toHost', c)
      /\ DataOf(toHost, c) = One(Pk, c) + DataOf(toHost', c)
      /\ CreditOf(toHost', c) \in Nat /\ DataOf(toHost', c) \in Nat
  BY <1>1, WhatLeaves DEF Inv
<1>3. Pk.ch = ch /\ Pk.kind = "reply" /\ Quiet(toHost')  BY <1>1, ReplyAtHead
<1>4. Absent(toHost, c) => Absent(toHost', c)  BY <1>1, TailsShape
<1>5. Grants(Pk, c) = (IF c = ch THEN Pk.credit ELSE 0) /\ One(Pk, c) = 0
  BY <1>3 DEF Grants, One, IsData
<1> QED BY <1>1, <1>2, <1>3, <1>4, <1>5

(* A channel the answer says nothing of, and the call's when it is refused.*)
LEMMA ChannelAfterReply ==
  ASSUME Inv, step \in Commands, Pending, ~Plain(Pk), Take, NEW c \in Chans,
         UNCHANGED <<use, used, dev, h2pcredit[c], p2hcredit[c], rindex[c], rcnt[c]>>,
         Settled(c)' => Settled(c) /\ (c = ch => Pk.credit = 0),
         Steady(c)', Steady(c) \/ (devP2h[c] = 0 /\ DataOf(toHost, c) = 0),
         open' # {} /\ step' # "init" => open # {} /\ step # "init"
  PROVE  Channel(c)'
<1> USE DEF Inv, Core
<1>1. /\ CreditOf(toHost, c) = (IF c = ch THEN Pk.credit ELSE 0) + CreditOf(toHost', c)
      /\ DataOf(toHost, c) = DataOf(toHost', c)
      /\ CreditOf(toHost', c) \in Nat /\ DataOf(toHost', c) \in Nat
      /\ Absent(toHost, c) => Absent(toHost', c)
  BY ReplyCounts
<1>2. Channel(c) /\ p2hcredit[c] \in Nat /\ devP2h[c] \in Nat  BY DEF Typed
<1>3. Standing(c)'  BY <1>1, <1>2 DEF Channel, Standing, Fresh, dev
<1>4. Granting(c)'
  <2>1. Settled(c)' => CreditOf(toHost', c) = CreditOf(toHost, c)  BY <1>1
  <2> QED BY <1>2, <2>1 DEF Channel, Granting, dev
<1>5. Reading(c)'
  <2>1. Steady(c) => Reading(c)'  BY <1>1, <1>2 DEF Channel, Reading, dev
  <2>2. ASSUME ~Steady(c) PROVE Reading(c)'
    <3>1. p2hcredit[c] = 0 /\ DataOf(toHost', c) = 0 /\ devP2h[c] = 0
      BY <1>1, <2>2 DEF Steady, Call
    <3> QED BY <3>1 DEF Reading, dev
  <2> QED BY <2>1, <2>2
<1>6. Roomy(c)'  BY <1>2 DEF Channel, Roomy
<1> QED BY <1>3, <1>4, <1>5, <1>6 DEF Channel

(* What a close does next, whatever came of its command.                   *)
LEMMA CloseGoesOnKeeps ==
  ASSUME Inv, UNCHANGED <<use, ch, ta, buf, dev, used>>, step \in {"close", "exit"},
         Pending, ~Plain(Pk), Take, CloseGoesOn
  PROVE  Core'
<1> USE DEF Inv, Core
<1>0. MaxTries \in Nat  BY UseFacts
<1>1. step \in Commands /\ toDev = << >> /\ Pk.credit = 0 /\ proc = "close" /\ ch \in open
  <2>1. step \in Commands  BY DEF Commands
  <2>2. proc = "close" /\ ch \in open  BY DEF Control, Typed, Procs
  <2>3. toDev = << >> /\ (Fits(Pk) => After(Pk.credit)) /\ (~Fits(Pk) => Pk.credit = 0)
    BY <2>1, ReplyAtHead
  <2> QED BY <2>1, <2>2, <2>3 DEF After
<1>2. toHost' \in Seq(Sound) /\ Quiet(toHost')  BY <1>1, ReplyCounts
<1>3. \/ /\ step = "close" /\ open = {ch} /\ step' = "exit" /\ toDev' = <<Cmd>>'
         /\ UNCHANGED <<proc, n, cnt, open, up>>
      \/ /\ proc' = "idle" /\ step' = "none" /\ n' = 0 /\ cnt' = 0
         /\ open' = open \ {ch} /\ toDev' = << >>
         /\ \/ step = "close" /\ up' = up
            \/ open' = {} /\ up' = FALSE
  <2>1. CASE step = "close" /\ open = {ch}
    BY <1>1, <2>1 DEF CloseGoesOn, Send, Cmd, Asked
  <2>2. CASE step = "close" /\ open # {ch}
    BY <1>1, <2>2 DEF CloseGoesOn, Return
  <2>3. CASE step = "exit"
    BY <1>1, <2>3 DEF CloseGoesOn, Return, Control
  <2> QED BY <2>1, <2>2, <2>3
<1>4. Typed'
  <2>1. n' \in Nat /\ cnt' \in 0..MaxTries + 1  BY <1>0, <1>3 DEF Typed
  <2>2. proc' \in Procs /\ step' \in Steps /\ open' \subseteq Chans
    BY <1>1, <1>3 DEF Typed, Procs, Steps, Commands
  <2> QED BY <2>1, <2>2 DEF Typed, ta, buf, dev
<1>5. (toHost \in Seq(Sound))'
  <2>1. Sound' = Sound  BY SoundKept
  <2> QED BY <1>2, <2>1
<1>6. Control'  BY <1>1, <1>3 DEF Control
<1>7. Flags'  BY <1>3 DEF Flags, dev
<1>8. Call'  BY <1>3 DEF Call
<1>9. Exchange'
  <2>1. CASE step' = "exit"
    <3>1. toDev' = <<Cmd>>' /\ Before'  BY <1>3, <2>1 DEF Before
    <3> QED BY <1>2, <2>1, <3>1 DEF Exchange, Asking, Commands
  <2>2. CASE step' = "none"
    BY <1>2, <1>3, <2>2 DEF Exchange, Silent, Commands
  <2> QED BY <1>3, <2>1, <2>2
<1>10. ASSUME NEW c \in Chans PROVE Channel(c)'
  <2>1. Settled(c)' => Settled(c)  BY <1>1, <1>3 DEF Settled
  <2>2. Steady(c) /\ Steady(c)'  BY <1>3 DEF Steady
  <2>3. open' # {} => open # {}  BY <1>3
  <2> QED BY <1>1, <2>1, <2>2, <2>3, ChannelAfterReply DEF ta, buf
<1> QED BY <1>4, <1>5, <1>6, <1>7, <1>8, <1>9, <1>10

(* The reply to Close or Exit.                                             *)
LEMMA CloseReplyKeeps ==
  ASSUME Inv, UNCHANGED use, CloseReply
  PROVE  Core'
<1>1. ~Plain(Pk)  BY DEF CloseReply, Fits, Plain
<1> QED BY <1>1, CloseGoesOnKeeps DEF CloseReply

(* A command is refused, and the call ends or goes on closing.             *)
LEMMA ReplyBadKeeps ==
  ASSUME Inv, UNCHANGED use, ReplyBad, InStep
  PROVE  Core'
<1> USE DEF Inv, Core
<1>0. MaxTries \in Nat  BY UseFacts
<1>1. step \in Commands /\ Pending /\ ~Plain(Pk) /\ ~Fits(Pk) /\ Take /\ GiveUp
  BY Arrived DEF ReplyBad, InStep
<1>2. UNCHANGED <<ch, ta, buf, dev, used>>  BY <1>1 DEF GiveUp
<1>3. CASE proc = "close"
  BY <1>1, <1>2, <1>3, CloseGoesOnKeeps DEF GiveUp, Control
<1>4. CASE proc # "close"
  <2>1. /\ proc \in {"read", "write", "open"} /\ Return /\ toDev' = toDev /\ up' = up
        /\ open' = IF proc = "open" THEN open \ {ch} ELSE open
    BY <1>1, <1>4 DEF GiveUp
  <2>2. toDev = << >> /\ Before /\ Pk.credit = 0  BY <1>1, ReplyAtHead
  <2>3. toHost' \in Seq(Sound) /\ Quiet(toHost')  BY <1>1, ReplyCounts
  <2>4. Typed'
    <3>1. n' \in Nat /\ cnt' \in 0..MaxTries + 1  BY <1>0, <2>1 DEF Return
    <3>2. proc' \in Procs /\ step' \in Steps /\ open' \subseteq Chans
      BY <2>1 DEF Typed, Return, Procs, Steps
    <3> QED BY <1>2, <3>1, <3>2 DEF Typed, ta, buf, dev
  <2>5. (toHost \in Seq(Sound))'
    <3>1. Sound' = Sound  BY SoundKept
    <3> QED BY <2>3, <3>1
  <2>6. Control'  BY <1>2, <2>1 DEF Control, Return
  <2>7. step # "exit" /\ (step = "init" => open' = {})
    BY <1>1, <2>1 DEF Control
  <2>8. Flags'  BY <1>2, <2>1, <2>7 DEF Flags, dev
  <2>9. Call'  BY <2>1 DEF Call, Return
  <2>10. Exchange'  BY <2>1, <2>2, <2>3 DEF Exchange, Silent, Return, Commands
  <2>11. ASSUME NEW c \in Chans PROVE Channel(c)'
    <3>1. Settled(c)' => Settled(c)  BY <1>2, <2>1 DEF Settled, Return
    <3>2. Steady(c)'  BY <2>1 DEF Steady, Return
    <3>3. Steady(c) \/ (devP2h[c] = 0 /\ DataOf(toHost, c) = 0)  BY <2>2 DEF Steady, Before
    <3>4. open' # {} => open # {} /\ step # "init"  BY <2>1, <2>7
    <3> QED BY <1>1, <1>2, <2>2, <3>1, <3>2, <3>3, <3>4, ChannelAfterReply DEF ta, buf
  <2> QED BY <2>4, <2>5, <2>6, <2>8, <2>9, <2>10, <2>11
<1> QED BY <1>3, <1>4

(* The reply to Init: nothing is known of any channel but its opening.     *)
LEMMA InitReplyKeeps ==
  ASSUME Inv, UNCHANGED use, InitReply
  PROVE  Core'
<1> USE DEF Inv, Core
<1>1. step = "init" /\ step \in Commands /\ Pending /\ ~Plain(Pk) /\ Fits(Pk) /\ Take
  BY DEF InitReply, Fits, Plain, Commands
<1>2. /\ toDev = << >> /\ toHost' = << >> /\ After(Pk.credit)
      /\ proc = "open" /\ open = {ch} /\ ch \in Chans
  <2>1. toDev = << >> /\ toHost' = << >> /\ After(Pk.credit)  BY <1>1, ReplyAtHead DEF Take
  <2> QED BY <1>1, <2>1 DEF Control, Typed, Procs
<1>3. devUp = TRUE /\ devOpen = {}  BY <1>1, <1>2 DEF After
<1>4. /\ step' = "getsocket" /\ toDev' = <<Cmd>>' /\ h2pcredit' = Zero /\ p2hcredit' = Zero
      /\ up' = TRUE /\ used' = {ch} /\ UNCHANGED <<proc, ch, n, cnt, open, buf, dev>>
  BY <1>2 DEF InitReply, Send, Cmd, Asked
<1>5. \A c \in Chans : /\ DataOf(toHost', c) = 0 /\ CreditOf(toHost', c) = 0 /\ Absent(toHost', c)
                       /\ p2hcredit'[c] = 0 /\ h2pcredit'[c] = 0
  BY <1>2, <1>4, SumEmpty DEF DataOf, CreditOf, Absent, Zero
<1>6. Typed'
  <2>1. step' \in Steps  BY <1>4 DEF Steps, Commands
  <2>2. p2hcredit' \in [Chans -> Nat] /\ h2pcredit' \in [Chans -> CreditRange]
    <3>1. 0 \in CreditRange  BY UseFacts DEF CreditRange
    <3> QED BY <1>4, <3>1 DEF Zero
  <2> QED BY <1>2, <1>4, <2>1, <2>2 DEF Typed, buf, dev
<1>7. (toHost \in Seq(Sound))'  BY <1>2
<1>8. Control'  BY <1>2, <1>4 DEF Control
<1>9. Flags'  BY <1>3, <1>4 DEF Flags, dev
<1>10. Call'  BY <1>2, <1>3, <1>4, <1>5 DEF Call, Fresh, dev
<1>11. Exchange'
  <2>1. Before'  BY <1>4 DEF Before
  <2>2. Quiet(toHost')  BY <1>2 DEF Quiet
  <2> QED BY <1>4, <2>1, <2>2 DEF Exchange, Asking, Commands
<1>12. ASSUME NEW c \in Chans PROVE Channel(c)'
  <2>1. ~Settled(c)' /\ Steady(c)'  BY <1>2, <1>4 DEF Settled, Steady
  <2>2. Standing(c) /\ Granting(c) /\ Roomy(c) /\ devP2h[c] = 0  BY <1>3 DEF Channel, Standing
  <2>3. Standing(c)'  BY <1>3, <1>4, <1>5, <2>1, <2>2 DEF Standing, Fresh, dev
  <2>4. Granting(c)'  BY <1>4, <2>1, <2>2 DEF Granting, dev
  <2>5. Reading(c)'  BY <1>4, <1>5, <2>1, <2>2 DEF Reading, dev
  <2>6. Roomy(c)'  BY <1>4, <1>5, <2>2 DEF Roomy, buf
  <2> QED BY <2>3, <2>4, <2>5, <2>6 DEF Channel
<1> QED BY <1>6, <1>7, <1>8, <1>9, <1>10, <1>11, <1>12

(* The reply to GetSocket.                                                 *)
LEMMA GetSocketReplyKeeps ==
  ASSUME Inv, UNCHANGED use, GetSocketReply
  PROVE  Core'
<1> USE DEF Inv, Core
<1>1. step = "getsocket" /\ step \in Commands /\ Pending /\ ~Plain(Pk) /\ Fits(Pk) /\ Take
  BY DEF GetSocketReply, Fits, Plain, Commands
<1>2. toDev = << >> /\ proc = "open" /\ ch \in open /\ Fresh(ch)
  <2>1. toDev = << >>  BY <1>1, ReplyAtHead
  <2> QED BY <1>1, <2>1 DEF Control, Typed, Procs, Call
<1>3. /\ step' = "open" /\ toDev' = <<Cmd>>' /\ UNCHANGED <<proc, ch, n, cnt, open, up, ta, buf, dev, used>>
  BY <1>2 DEF GetSocketReply, Send, Cmd, Asked
<1>4. toHost' \in Seq(Sound) /\ Quiet(toHost') /\ (Absent(toHost, ch) => Absent(toHost', ch))
  BY <1>1, ReplyCounts
<1>5. Typed'
  <2>1. step' \in Steps  BY <1>3 DEF Steps, Commands
  <2> QED BY <1>3, <2>1 DEF Typed, ta, buf, dev
<1>6. (toHost \in Seq(Sound))'
  <2>1. Sound' = Sound  BY SoundKept
  <2> QED BY <1>4, <2>1
<1>7. Control'  BY <1>2, <1>3 DEF Control
<1>8. Flags'  BY <1>1, <1>3 DEF Flags, dev
<1>9. Call'  BY <1>2, <1>3 DEF Call, Fresh, ta
<1>10. Exchange'
  <2>1. Before'  BY <1>2, <1>3, <1>4 DEF Before, Fresh, ta, dev
  <2> QED BY <1>3, <1>4, <2>1 DEF Exchange, Asking, Commands
<1>11. ASSUME NEW c \in Chans PROVE Channel(c)'
  <2>1. Settled(c)' => Settled(c) /\ c # ch  BY <1>2, <1>3 DEF Settled
  <2>2. Steady(c) /\ Steady(c)'  BY <1>1, <1>3 DEF Steady
  <2> QED BY <1>1, <1>3, <2>1, <2>2, ChannelAfterReply DEF ta, buf
<1> QED BY <1>5, <1>6, <1>7, <1>8, <1>9, <1>10, <1>11

(* The reply to CreditRequest carries what was granted.                    *)
LEMMA CreditRequestReplyKeeps ==
  ASSUME Inv, UNCHANGED use, CreditRequestReply
  PROVE  Core'
<1> USE DEF Inv, Core
<1>1. step = "creditreq" /\ step \in Commands /\ Pending /\ ~Plain(Pk) /\ Fits(Pk) /\ Take
  BY DEF CreditRequestReply, Fits, Plain, Commands
<1> DEFINE k == Pk.credit
           x == (h2pcredit[ch] + k) % CreditMod
<1>2. /\ toDev = << >> /\ proc = "write" /\ ch \in open /\ ch \in Chans /\ Settled(ch)
      /\ k \in 0..use.credit
  <2>1. toDev = << >> /\ k \in 0..use.credit  BY <1>1, ReplyAtHead
  <2> QED BY <1>1, <2>1 DEF Control, Typed, Procs, Settled
<1>3. /\ h2pcredit' = [h2pcredit EXCEPT ![ch] = x]
      /\ UNCHANGED <<ch, open, up, p2hcredit, buf, toDev, dev, used>>
  BY DEF CreditRequestReply
<1>4. /\ proc' \in {"write", "idle"} /\ step' = IF proc' = "write" THEN "loop" ELSE "none"
      /\ n' \in Nat /\ cnt' \in 0..MaxTries + 1
  <2>0. MaxTries \in Nat /\ n \in Nat /\ cnt \in 0..MaxTries + 1  BY UseFacts DEF Typed
  <2>1. \/ step' = "loop" /\ proc' = proc /\ n' = n /\ cnt' = cnt
        \/ cnt <= MaxTries /\ step' = "loop" /\ proc' = proc /\ n' = n /\ cnt' = cnt + 1
        \/ proc' = "idle" /\ step' = "none" /\ n' = 0 /\ cnt' = 0
    BY DEF CreditRequestReply, Return
  <2> QED BY <1>2, <2>0, <2>1
<1>5. toHost' \in Seq(Sound) /\ Quiet(toHost')  BY <1>1, ReplyCounts
<1>6. /\ CreditOf(toHost, ch) = k + CreditOf(toHost', ch) /\ CreditOf(toHost', ch) \in Nat
      /\ DataOf(toHost, ch) = DataOf(toHost', ch)
      /\ Absent(toHost, ch) => Absent(toHost', ch)
  BY <1>1, ReplyCounts
<1>7. CreditMod \in Nat /\ CreditMod > 2 /\ use.credit \in Nat /\ CreditMod > use.credit  BY UseFacts
<1>8. h2pcredit[ch] + CreditOf(toHost, ch) = devCredit[ch] /\ devCredit[ch] <= use.credit
  BY <1>2 DEF Channel, Granting
<1>9. h2pcredit[ch] \in Nat /\ devCredit[ch] \in Nat
  BY <1>2, <1>7 DEF Typed, CreditRange
<1>10. x = h2pcredit[ch] + k /\ x \in CreditRange
  <2> DEFINE a == h2pcredit[ch] + k
  <2>1. a \in Nat /\ a < CreditMod  BY <1>2, <1>6, <1>7, <1>8, <1>9
  <2>2. a % CreditMod = a
    <3> HIDE DEF a
    <3> QED BY <1>7, <2>1, ModSmall
  <2> HIDE DEF a
  <2>3. x = a  BY <2>2 DEF a
  <2> QED BY <1>7, <2>1, <2>3 DEF a, CreditRange
<1> HIDE DEF x
<1>11. Typed'
  <2>1. proc' \in Procs /\ step' \in Steps  BY <1>4 DEF Procs, Steps, Commands
  <2>2. h2pcredit' \in [Chans -> CreditRange]  BY <1>2, <1>3, <1>10 DEF Typed
  <2> QED BY <1>3, <1>4, <2>1, <2>2 DEF Typed, buf, dev
<1>12. (toHost \in Seq(Sound))'
  <2>1. Sound' = Sound  BY SoundKept
  <2> QED BY <1>5, <2>1
<1>13. Control'  BY <1>2, <1>3, <1>4 DEF Control
<1>14. Flags'  BY <1>1, <1>3 DEF Flags, dev
<1>15. Call'  BY <1>4 DEF Call
<1>16. Exchange'  BY <1>2, <1>3, <1>4, <1>5 DEF Exchange, Silent, Commands
<1>17. ASSUME NEW c \in Chans PROVE Channel(c)'
  <2>1. Settled(c)' = Settled(c)  BY <1>2, <1>3, <1>4 DEF Settled
  <2>2. Steady(c) /\ Steady(c)'  BY <1>1, <1>4 DEF Steady
  <2>3. CASE c # ch
    <3>1. h2pcredit'[c] = h2pcredit[c]  BY <1>2, <1>3, <2>3 DEF Typed
    <3> QED BY <1>1, <1>3, <2>1, <2>2, <2>3, <3>1, ChannelAfterReply DEF buf
  <2>4. CASE c = ch
    <3>1. Channel(c) /\ h2pcredit'[c] = x  BY <1>2, <1>3, <2>4 DEF Typed
    <3>2. Standing(c)'  BY <1>1, <1>3, <1>6, <2>1, <2>4, <3>1 DEF Channel, Standing, Fresh, dev
    <3>3. Granting(c)'
      <4>1. h2pcredit'[c] + CreditOf(toHost', c) = devCredit[c]
        BY <1>2, <1>6, <1>8, <1>9, <1>10, <2>4, <3>1
      <4> QED BY <1>3, <3>1, <4>1 DEF Channel, Granting, dev
    <3>4. Reading(c)'  BY <1>3, <1>6, <2>1, <2>2, <2>4, <3>1 DEF Channel, Reading, dev
    <3>5. Roomy(c)'  BY <1>3, <3>1 DEF Channel, Roomy, buf
    <3> QED BY <3>2, <3>3, <3>4, <3>5 DEF Channel
  <2> QED BY <2>3, <2>4
<1> QED BY <1>11, <1>12, <1>13, <1>14, <1>15, <1>16, <1>17

(* The mode is a truth value.                                              *)
LEMMA PhoenixIs ==
  ASSUME use \in Profiles
  PROVE  use.phoenix <=> use.phoenix = TRUE
<1>1. use \in Profile  BY ConstantsAssumption
<1>2. use.phoenix \in BOOLEAN  BY <1>1 DEF Profile
<1> QED BY <1>2

(* The reply to OpenChannel carries the first credit.                      *)
LEMMA OpenReplyKeeps ==
  ASSUME Inv, UNCHANGED use, OpenReply
  PROVE  Core'
<1> USE DEF Inv, Core
<1>1. step = "open" /\ step \in Commands /\ Pending /\ ~Plain(Pk) /\ Fits(Pk) /\ Take
  BY DEF OpenReply, Fits, Plain, Commands
<1> DEFINE k == Pk.credit
<1>2. /\ toDev = << >> /\ proc = "open" /\ ch \in open /\ ch \in Chans
      /\ k \in 0..use.credit /\ After(k) /\ p2hcredit[ch] = 0
  <2>1. toDev = << >> /\ k \in 0..use.credit /\ After(k)  BY <1>1, ReplyAtHead
  <2> QED BY <1>1, <2>1 DEF Control, Typed, Procs, Call
<1>3. /\ ch \in devOpen /\ devP2h[ch] = 0 /\ DataOf(toHost, ch) = 0
      /\ CreditOf(toHost, ch) = devCredit[ch]
  BY <1>1, <1>2 DEF After
<1>4. /\ h2pcredit' = [h2pcredit EXCEPT ![ch] = k]
      /\ UNCHANGED <<ch, open, up, p2hcredit, dev, used>>
  BY DEF OpenReply
<1>5. \/ /\ use.phoenix = TRUE /\ step' = "credit" /\ toDev' = <<Cmd>>'
         /\ UNCHANGED <<proc, n, cnt, buf>>
      \/ /\ proc' = "idle" /\ step' = "none" /\ n' = 0 /\ cnt' = 0 /\ toDev' = << >>
         /\ rcnt' = [rcnt EXCEPT ![ch] = 0] /\ rindex' = [rindex EXCEPT ![ch] = 0]
  BY <1>2, PhoenixIs DEF OpenReply, Opened, Return, Send, Cmd, Asked
<1>6. toHost' \in Seq(Sound) /\ Quiet(toHost')  BY <1>1, ReplyCounts
<1>7. /\ CreditOf(toHost, ch) = k + CreditOf(toHost', ch) /\ CreditOf(toHost', ch) \in Nat
      /\ DataOf(toHost, ch) = DataOf(toHost', ch)
  BY <1>1, ReplyCounts
<1>8. /\ CreditMod \in Nat /\ use.credit \in Nat /\ CreditMod > use.credit /\ MaxTries \in Nat
      /\ BufSize \in Nat
  BY UseFacts
<1>9. Typed'
  <2>1. proc' \in Procs /\ step' \in Steps  BY <1>2, <1>5 DEF Procs, Steps, Commands
  <2>2. n' \in Nat /\ cnt' \in 0..MaxTries + 1  BY <1>5, <1>8 DEF Typed
  <2>3. h2pcredit' \in [Chans -> CreditRange]
    <3>1. k \in CreditRange  BY <1>2, <1>8 DEF CreditRange
    <3> HIDE DEF k
    <3> QED BY <1>2, <1>4, <3>1 DEF Typed
  <2>4. rindex' \in [Chans -> 0..BufSize] /\ rcnt' \in [Chans -> 0..BufSize]
    <3>1. 0 \in 0..BufSize  BY <1>8
    <3> QED BY <1>2, <1>5, <3>1 DEF Typed, buf
  <2> QED BY <1>4, <2>1, <2>2, <2>3, <2>4 DEF Typed, dev
<1>10. (toHost \in Seq(Sound))'
  <2>1. Sound' = Sound  BY SoundKept
  <2> QED BY <1>6, <2>1
<1>11. Control'  BY <1>2, <1>4, <1>5 DEF Control
<1>12. Flags'  BY <1>1, <1>4 DEF Flags, dev
<1>13. Call'  BY <1>2, <1>3, <1>4, <1>5 DEF Call, dev
<1>14. Exchange'
  <2>1. CASE step' = "credit"
    <3>1. toDev' = <<Cmd>>' /\ Before'  BY <1>3, <1>4, <1>5, <1>7, <2>1 DEF Before, dev
    <3> QED BY <1>6, <2>1, <3>1 DEF Exchange, Asking, Commands
  <2>2. CASE step' = "none"
    BY <1>5, <1>6, <2>2 DEF Exchange, Silent, Commands
  <2> QED BY <1>5, <2>1, <2>2
<1>15. ASSUME NEW c \in Chans PROVE Channel(c)'
  <2>1. CASE c # ch
    <3>1. Settled(c)' = Settled(c) /\ Steady(c) /\ Steady(c)'
      BY <1>4, <2>1 DEF Settled, Steady
    <3>2. h2pcredit'[c] = h2pcredit[c] /\ rcnt'[c] = rcnt[c] /\ rindex'[c] = rindex[c]
      BY <1>2, <1>4, <1>5, <2>1 DEF Typed, buf
    <3> QED BY <1>1, <1>4, <2>1, <3>1, <3>2, ChannelAfterReply
  <2>2. CASE c = ch
    <3>1. Channel(c) /\ h2pcredit'[c] = k  BY <1>2, <1>4, <2>2 DEF Typed
    <3>2. Standing(c)'
      <4>1. c \in used  BY <1>2, <2>2 DEF Control
      <4> QED BY <1>3, <1>4, <2>2, <4>1 DEF Standing, dev
    <3>3. Granting(c)'
      <4>1. h2pcredit'[c] + CreditOf(toHost', c) = devCredit[c]
        BY <1>3, <1>7, <2>2, <3>1
      <4> QED BY <1>4, <3>1, <4>1 DEF Channel, Granting, dev
    <3>4. Reading(c)'  BY <1>2, <1>3, <1>4, <1>7, <2>2 DEF Reading, dev
    <3>5. Roomy(c)'
      <4>1. CASE UNCHANGED buf  BY <1>4, <3>1, <4>1 DEF Channel, Roomy, buf
      <4>2. CASE rcnt' = [rcnt EXCEPT ![ch] = 0] /\ rindex' = [rindex EXCEPT ![ch] = 0]
        <5>1. rcnt'[c] = 0 /\ rindex'[c] = 0 /\ p2hcredit'[c] = 0
          BY <1>2, <1>4, <2>2, <4>2 DEF Typed
        <5> QED BY <1>8, <5>1 DEF Roomy
      <4> QED BY <1>5, <4>1, <4>2
    <3> QED BY <3>2, <3>3, <3>4, <3>5 DEF Channel
  <2> QED BY <2>1, <2>2
<1> QED BY <1>9, <1>10, <1>11, <1>12, <1>13, <1>14, <1>15

(* The reply to Credit: the peripheral may send what it was allowed.       *)
LEMMA CreditReplyKeeps ==
  ASSUME Inv, UNCHANGED use, CreditReply
  PROVE  Core'
<1> USE DEF Inv, Core
<1>1. step = "credit" /\ step \in Commands /\ Pending /\ ~Plain(Pk) /\ Fits(Pk) /\ Take
  BY DEF CreditReply, Fits, Plain, Commands
<1>2. /\ toDev = << >> /\ proc \in {"open", "read"} /\ ch \in open /\ ch \in Chans
      /\ Pk.credit = 0 /\ After(0) /\ p2hcredit[ch] = 0 /\ ch \in devOpen
      /\ proc = "read" => rcnt[ch] = 0 /\ rindex[ch] = 0
  <2>1. toDev = << >> /\ After(Pk.credit)  BY <1>1, ReplyAtHead
  <2>2. Pk.credit = 0  BY <1>1, <2>1 DEF After
  <2>3. proc \in {"open", "read"} /\ ch \in open /\ ch \in Chans  BY <1>1 DEF Control, Typed, Procs
  <2>4. Roomy(ch)  BY <2>3 DEF Channel
  <2> QED BY <1>1, <2>1, <2>2, <2>3, <2>4 DEF Call, Roomy
<1> DEFINE a == IF proc = "open" THEN 2 ELSE 1
<1>3. DataOf(toHost, ch) + devP2h[ch] = a
  BY <1>1, <1>2 DEF After, Asked
<1>4. CreditMod \in Nat /\ CreditMod > 2 /\ MaxTries \in Nat /\ BufSize \in Nat  BY UseFacts
<1>5. a \in {1, 2} /\ (a = 2 => use.phoenix = TRUE)  BY <1>1 DEF Control
<1>6. /\ p2hcredit' = [p2hcredit EXCEPT ![ch] = a]
      /\ UNCHANGED <<ch, open, up, h2pcredit, toDev, dev, used>>
      /\ \/ /\ proc = "open" /\ proc' = "idle" /\ step' = "none" /\ n' = 0 /\ cnt' = 0
            /\ rcnt' = [rcnt EXCEPT ![ch] = 0] /\ rindex' = [rindex EXCEPT ![ch] = 0]
         \/ /\ proc = "read" /\ step' = "data" /\ UNCHANGED <<proc, n, cnt, buf>>
  <2>1. (0 + 2) % CreditMod = 2 /\ (0 + 1) % CreditMod = 1  BY <1>4, ModSmall
  <2> QED BY <1>2, <2>1 DEF CreditReply, Opened, Return
<1> HIDE DEF a
<1>7. toHost' \in Seq(Sound) /\ Quiet(toHost')  BY <1>1, ReplyCounts
<1>8. /\ CreditOf(toHost, ch) = CreditOf(toHost', ch)
      /\ DataOf(toHost, ch) = DataOf(toHost', ch)
  <2>1. /\ CreditOf(toHost, ch) = Pk.credit + CreditOf(toHost', ch) /\ CreditOf(toHost', ch) \in Nat
        /\ DataOf(toHost, ch) = DataOf(toHost', ch)
    BY <1>1, ReplyCounts
  <2> QED BY <1>2, <2>1
<1>9. Typed'
  <2>1. proc' \in Procs /\ step' \in Steps  BY <1>2, <1>6 DEF Procs, Steps, Commands
  <2>2. n' \in Nat /\ cnt' \in 0..MaxTries + 1  BY <1>4, <1>6 DEF Typed
  <2>3. p2hcredit' \in [Chans -> Nat]
    <3>1. a \in Nat  BY <1>5
    <3> QED BY <1>2, <1>6, <3>1 DEF Typed
  <2>4. rindex' \in [Chans -> 0..BufSize] /\ rcnt' \in [Chans -> 0..BufSize]
    <3>1. 0 \in 0..BufSize  BY <1>4
    <3> QED BY <1>2, <1>6, <3>1 DEF Typed, buf
  <2> QED BY <1>6, <2>1, <2>2, <2>3, <2>4 DEF Typed, dev
<1>10. (toHost \in Seq(Sound))'
  <2>1. Sound' = Sound  BY SoundKept
  <2> QED BY <1>7, <2>1
<1>11. Control'  BY <1>2, <1>6 DEF Control
<1>12. Flags'  BY <1>1, <1>6 DEF Flags, dev
<1>13. Call'
  <2>1. p2hcredit'[ch] = a  BY <1>2, <1>6 DEF Typed
  <2> QED BY <1>5, <1>6, <2>1 DEF Call
<1>14. Exchange'  BY <1>2, <1>6, <1>7 DEF Exchange, Silent, Commands
<1>15. ASSUME NEW c \in Chans PROVE Channel(c)'
  <2>1. CASE c # ch
    <3>1. Settled(c)' = Settled(c) /\ Steady(c) /\ Steady(c)'
      BY <1>6, <2>1 DEF Settled, Steady
    <3>2. p2hcredit'[c] = p2hcredit[c] /\ rcnt'[c] = rcnt[c] /\ rindex'[c] = rindex[c]
      BY <1>2, <1>6, <2>1 DEF Typed, buf
    <3> QED BY <1>1, <1>6, <2>1, <3>1, <3>2, ChannelAfterReply
  <2>2. CASE c = ch
    <3>1. Channel(c) /\ p2hcredit'[c] = a  BY <1>2, <1>6, <2>2 DEF Typed
    <3>2. Standing(c)'
      <4>1. c \in used  BY <1>2, <2>2 DEF Control
      <4> QED BY <1>2, <1>6, <2>2, <4>1 DEF Standing, dev
    <3>3. Granting(c)'  BY <1>1, <1>6, <1>8, <2>2, <3>1 DEF Channel, Granting, Steady, dev
    <3>4. Reading(c)'
      <4>1. DataOf(toHost', c) + devP2h'[c] = a /\ p2hcredit'[c] = a
        BY <1>3, <1>6, <1>8, <2>2, <3>1 DEF dev
      <4> QED BY <1>5, <4>1 DEF Reading
    <3>5. Roomy(c)'
      <4>1. rcnt'[c] = 0 /\ rindex'[c] = 0
        BY <1>2, <1>6, <2>2 DEF Typed, buf
      <4>2. \A l \in use.packets : l \in Nat /\ l <= BufSize  BY UseFacts
      <4>3. a = 2 => \A l, m \in use.packets : l + m <= BufSize
        BY <1>5, PhoenixIs DEF Tame
      <4> QED BY <1>4, <1>5, <3>1, <4>1, <4>2, <4>3 DEF Roomy
    <3> QED BY <3>2, <3>3, <3>4, <3>5 DEF Channel
  <2> QED BY <2>1, <2>2
<1> QED BY <1>9, <1>10, <1>11, <1>12, <1>13, <1>14, <1>15

(* The command the peripheral finds is that of the exchange.               *)
LEMMA CommandAtHead ==
  ASSUME Inv, toDev # << >>
  PROVE  /\ step \in Commands /\ Asking /\ Tail(toDev) = << >> /\ Head(toDev) = Cmd
         /\ Head(toDev).cmd = step /\ Head(toDev).ch = ch /\ Head(toDev).credit = Asked
<1>1. step \in Commands /\ Asking
  BY DEF Inv, Core, Exchange, Silent, Refused, Granted
<1>2. toDev = <<Cmd>>  BY <1>1 DEF Asking
<1>3. Head(toDev) = Cmd /\ Tail(toDev) = << >>  BY <1>2
<1> QED BY <1>1, <1>3 DEF Cmd

(* The peripheral's reply joins what is on the way.                        *)
LEMMA ReplySent ==
  ASSUME Inv, toDev # << >>, NEW ok \in BOOLEAN, NEW k \in 0..use.credit,
         toHost' = Append(toHost, Rep(ok, k))
  PROVE  /\ toHost' \in Seq(Sound) /\ Answered(toHost', Rep(ok, k))
         /\ \A c : /\ CreditOf(toHost', c) = CreditOf(toHost, c) + (IF c = ch THEN k ELSE 0)
                   /\ DataOf(toHost', c) = DataOf(toHost, c)
                   /\ CreditOf(toHost, c) \in Nat /\ DataOf(toHost, c) \in Nat
                   /\ Absent(toHost, c) => Absent(toHost', c)
<1> USE DEF Inv, Core
<1> DEFINE r == Rep(ok, k)
<1>1. step \in Commands /\ ch \in Chans /\ Quiet(toHost) /\ Before /\ toHost \in Seq(Sound)
  BY CommandAtHead DEF Asking, Typed
<1>2. /\ r.kind = "reply" /\ r.cmd = step /\ r.ch = ch /\ r.ok = ok /\ r.credit = k  BY DEF Rep
<1>3. r \in Sound
  <2>1. r \in [kind : {"reply"}, cmd : Commands, ch : Chans, ok : BOOLEAN, credit : 0..use.credit]
    BY <1>1 DEF Rep
  <2>2. r \in Packet  BY <2>1 DEF Packet
  <2> HIDE DEF r
  <2> QED BY <1>2, <2>2 DEF Sound
<1> HIDE DEF r
<1>4. \A i \in 1..Len(toHost) : ~Early(toHost[i], r)
  <2> SUFFICES ASSUME NEW i \in 1..Len(toHost), Early(toHost[i], r) PROVE FALSE  OBVIOUS
  <2>1. toHost[i].ch = ch /\ (step = "open" \/ (step = "credit" /\ toHost[i].kind = "data"))
    BY <1>2 DEF Early
  <2>2. CASE step = "open"
    <3>1. Absent(toHost, ch) /\ Plain(toHost[i])  BY <1>1, <2>2 DEF Before, Fresh, Quiet
    <3> QED BY <2>1, <3>1 DEF Absent
  <2>3. CASE step = "credit"
    <3>1. DataOf(toHost, ch) = 0  BY <1>1, <2>3 DEF Before
    <3>2. ~IsData(toHost[i], ch)  BY <1>1, <3>1, NoData
    <3> QED BY <2>1, <2>3, <3>2 DEF IsData
  <2> QED BY <2>1, <2>2, <2>3
<1>5. toHost' = Append(toHost, r)  BY DEF r
<1>6. toHost' \in Seq(Sound)  BY <1>1, <1>3, <1>5
<1>7. Answered(toHost', r)  BY <1>1, <1>3, <1>4, <1>5, AnswerComes
<1>8. ASSUME NEW c
      PROVE  /\ CreditOf(toHost', c) = CreditOf(toHost, c) + (IF c = ch THEN k ELSE 0)
             /\ DataOf(toHost', c) = DataOf(toHost, c)
             /\ CreditOf(toHost, c) \in Nat /\ DataOf(toHost, c) \in Nat
             /\ Absent(toHost, c) => Absent(toHost', c)
  <2>1. /\ CreditOf(toHost', c) = CreditOf(toHost, c) + Grants(r, c)
        /\ DataOf(toHost', c) = DataOf(toHost, c) + One(r, c)
        /\ CreditOf(toHost, c) \in Nat /\ DataOf(toHost, c) \in Nat
    BY <1>1, <1>3, <1>5, WhatAppends
  <2>2. Grants(r, c) = (IF c = ch THEN k ELSE 0) /\ One(r, c) = 0
    BY <1>2 DEF Grants, One, IsData
  <2>3. ~Plain(r)  BY <1>2 DEF Plain
  <2>4. Absent(toHost, c) => Absent(toHost', c)  BY <1>1, <1>3, <1>5, <2>3, PlainAppends
  <2> QED BY <2>1, <2>2, <2>4
<1> QED BY <1>6, <1>7, <1>8 DEF r

(* The peripheral refuses.                                                 *)
LEMMA DevRefuseKeeps ==
  ASSUME Inv, UNCHANGED use, DevRefuse
  PROVE  Core'
<1> USE DEF Inv, Core
<1>1. /\ step \in Commands /\ Asking /\ toDev' = << >> /\ toHost' = Append(toHost, Rep(FALSE, 0))
      /\ UNCHANGED <<proc, ch, step, n, cnt, open, up, ta, buf, dev, used>>
  BY CommandAtHead DEF DevRefuse, Answer, Rep, call
<1>2. 0 \in 0..use.credit  BY UseFacts
<1>3. /\ toHost' \in Seq(Sound) /\ Answered(toHost', Rep(FALSE, 0))
      /\ \A c : /\ CreditOf(toHost', c) = CreditOf(toHost, c)
                /\ DataOf(toHost', c) = DataOf(toHost, c)
                /\ Absent(toHost, c) => Absent(toHost', c)
  <2>1. /\ toHost' \in Seq(Sound) /\ Answered(toHost', Rep(FALSE, 0))
        /\ \A c : /\ CreditOf(toHost', c) = CreditOf(toHost, c) + (IF c = ch THEN 0 ELSE 0)
                  /\ DataOf(toHost', c) = DataOf(toHost, c)
                  /\ CreditOf(toHost, c) \in Nat
                  /\ Absent(toHost, c) => Absent(toHost', c)
    BY <1>1, <1>2, ReplySent DEF DevRefuse
  <2>2. \A c : CreditOf(toHost', c) = CreditOf(toHost, c)  BY <2>1
  <2> QED BY <2>1, <2>2
<1>4. \A c : Fresh(c) => Fresh(c)'  BY <1>1, <1>3 DEF Fresh, ta, dev
<1>5. Typed'  BY <1>1 DEF Typed, ta, buf, dev
<1>6. (toHost \in Seq(Sound))'
  <2>1. Sound' = Sound  BY SoundKept
  <2> QED BY <1>3, <2>1
<1>7. Control'  BY <1>1 DEF Control
<1>8. Flags'  BY <1>1 DEF Flags, dev
<1>9. Call'  BY <1>1, <1>4 DEF Call, ta, buf, dev
<1>10. Exchange'
  <2>1. Before'  BY <1>1, <1>3, <1>4 DEF Asking, Before, dev
  <2>2. Rep(FALSE, 0)' = Rep(FALSE, 0)  BY <1>1 DEF Rep
  <2> QED BY <1>1, <1>3, <2>1, <2>2 DEF Exchange, Refused
<1>11. ASSUME NEW c \in Chans PROVE Channel(c)'
  <2>1. Settled(c)' = Settled(c) /\ Steady(c)' = Steady(c)  BY <1>1 DEF Settled, Steady
  <2>2. Standing(c)'  BY <1>1, <1>4, <2>1 DEF Channel, Standing, dev
  <2>3. Granting(c)'  BY <1>1, <1>3, <2>1 DEF Channel, Granting, ta, dev
  <2>4. Reading(c)'  BY <1>1, <1>3, <2>1 DEF Channel, Reading, ta, dev
  <2>5. Roomy(c)'  BY <1>1 DEF Channel, Roomy, ta, buf
  <2> QED BY <2>2, <2>3, <2>4, <2>5 DEF Channel
<1> QED BY <1>5, <1>6, <1>7, <1>8, <1>9, <1>10, <1>11

(* The peripheral did as it was told: what remains to be shown of its own  *)
(* state.                                                                  *)
LEMMA AnswerKeeps ==
  ASSUME Inv, UNCHANGED <<use, call, open, up, ta, buf, used>>, toDev # << >>, toDev' = << >>,
         NEW k \in 0..use.credit, toHost' = Append(toHost, Rep(TRUE, k)), After(k)',
         devOpen' \subseteq Chans, devCredit' \in [Chans -> Nat], devP2h' \in [Chans -> Nat],
         Flags', step = "getsocket" => ch \notin devOpen',
         step = "credit" => ch \in devOpen',
         \A c \in Chans : Standing(c)' /\ Granting(c)' /\ Reading(c)'
  PROVE  Core'
<1> USE DEF Inv, Core
<1>1. step \in Commands  BY CommandAtHead
<1>2. /\ toHost' \in Seq(Sound) /\ Answered(toHost', Rep(TRUE, k))
      /\ \A c : Absent(toHost, c) => Absent(toHost', c)
  BY ReplySent
<1>3. Typed'  BY DEF Typed, call, ta, buf
<1>4. (toHost \in Seq(Sound))'
  <2>1. Sound' = Sound  BY SoundKept
  <2> QED BY <1>2, <2>1
<1>5. Control'  BY DEF Control, call
<1>6. Call'  BY <1>2 DEF Call, Fresh, call, ta, buf
<1>7. Exchange'
  <2>1. Rep(TRUE, k)' = Rep(TRUE, k)  BY DEF Rep, call
  <2>2. Granted'  BY <1>2, <2>1 DEF Granted
  <2> QED BY <1>1, <2>2 DEF Exchange, call
<1>8. ASSUME NEW c \in Chans PROVE Channel(c)'
  <2>1. Roomy(c)'  BY DEF Channel, Roomy, ta, buf
  <2> QED BY <2>1 DEF Channel
<1> QED BY <1>3, <1>4, <1>5, <1>6, <1>7, <1>8

(* What holds of every step in which the peripheral grants a command.      *)
GrantedWith(k) ==
    /\ toDev # << >> /\ toDev' = << >> /\ toHost' = Append(toHost, Rep(TRUE, k))
    /\ UNCHANGED <<use, call, open, up, ta, buf, used>>

(* It was asked for what it grants.                                        *)
LEMMA GrantedStep ==
  ASSUME Inv, NEW k \in 0..use.credit, GrantedWith(k)
  PROVE  /\ Asking /\ step \in Commands /\ ch \in Chans
         /\ \A c : /\ CreditOf(toHost', c) = CreditOf(toHost, c) + (IF c = ch THEN k ELSE 0)
                   /\ DataOf(toHost', c) = DataOf(toHost, c)
                   /\ CreditOf(toHost, c) \in Nat /\ DataOf(toHost, c) \in Nat
                   /\ Absent(toHost, c) => Absent(toHost', c)
                   /\ Settled(c)' = Settled(c) /\ Steady(c)' = Steady(c)
         /\ \A c \in Chans : /\ devCredit[c] \in Nat /\ devP2h[c] \in Nat /\ p2hcredit[c] \in Nat
                             /\ h2pcredit[c] \in Nat
                             /\ Standing(c) /\ Granting(c) /\ Reading(c)
         /\ UNCHANGED <<use, proc, ch, step, open, up, h2pcredit, p2hcredit, used>>
         /\ devCredit \in [Chans -> Nat] /\ devP2h \in [Chans -> Nat] /\ devOpen \subseteq Chans
<1> USE DEF Inv, Core, GrantedWith
<1>1. Asking /\ step \in Commands /\ ch \in Chans  BY CommandAtHead DEF Typed
<1>2. \A c : /\ CreditOf(toHost', c) = CreditOf(toHost, c) + (IF c = ch THEN k ELSE 0)
             /\ DataOf(toHost', c) = DataOf(toHost, c)
             /\ CreditOf(toHost, c) \in Nat /\ DataOf(toHost, c) \in Nat
             /\ Absent(toHost, c) => Absent(toHost', c)
  BY ReplySent
<1>3. \A c : Settled(c)' = Settled(c) /\ Steady(c)' = Steady(c)  BY DEF Settled, Steady, call
<1>4. UNCHANGED <<use, proc, ch, step, open, up, h2pcredit, p2hcredit, used>>  BY DEF call, ta
<1>5. \A c \in Chans : /\ devCredit[c] \in Nat /\ devP2h[c] \in Nat /\ p2hcredit[c] \in Nat
                       /\ h2pcredit[c] \in Nat
  <2>1. CreditRange \subseteq Nat  BY UseFacts DEF CreditRange
  <2> QED BY <2>1 DEF Typed
<1>6. \A c \in Chans : Standing(c) /\ Granting(c) /\ Reading(c)  BY DEF Channel
<1> QED BY <1>1, <1>2, <1>3, <1>4, <1>5, <1>6 DEF Typed

(* Init and Exit: nothing is open at the peripheral any more.              *)
LEMMA ResetKeeps ==
  ASSUME Inv, GrantedWith(0), step \in {"init", "exit"},
         devUp' = (step = "init"), devOpen' = {}, devCredit' = Zero, devP2h' = Zero
  PROVE  Core'
<1>0. 0 \in 0..use.credit /\ use.credit \in Nat  BY UseFacts DEF Inv
<1>1. /\ Asking /\ step \in Commands /\ ch \in Chans
      /\ \A c : /\ DataOf(toHost', c) = DataOf(toHost, c)
                /\ DataOf(toHost, c) \in Nat
                /\ Absent(toHost, c) => Absent(toHost', c)
                /\ Settled(c)' = Settled(c) /\ Steady(c)' = Steady(c)
      /\ \A c \in Chans : /\ devP2h[c] \in Nat /\ p2hcredit[c] \in Nat
                          /\ Standing(c) /\ Granting(c) /\ Reading(c)
      /\ UNCHANGED <<use, proc, ch, step, open, up, p2hcredit, used>>
  BY <1>0, GrantedStep
<1>2. \A c : ~Settled(c) /\ Steady(c)
  BY DEF Inv, Core, Control, Settled, Steady, Typed, Procs
<1>3. devUp' \in BOOLEAN /\ (step = "init" => devUp' = TRUE)  OBVIOUS
<1>4. After(0)'  BY <1>1, <1>3 DEF After
<1>5. Flags'  BY <1>1, <1>3 DEF Inv, Core, Flags
<1>6. devCredit' \in [Chans -> Nat] /\ devP2h' \in [Chans -> Nat]  BY DEF Zero
<1>7. ASSUME NEW c \in Chans PROVE Standing(c)' /\ Granting(c)' /\ Reading(c)'
  <2>1. devCredit'[c] = 0 /\ devP2h'[c] = 0  BY DEF Zero
  <2>2. Fresh(c) => Fresh(c)'  BY <1>1 DEF Fresh
  <2>3. Standing(c)'  BY <1>1, <1>2, <2>1, <2>2 DEF Standing
  <2>4. Granting(c)'  BY <1>0, <1>1, <1>2, <2>1 DEF Granting
  <2>5. Reading(c)'  BY <1>1, <1>2, <2>1 DEF Reading
  <2> QED BY <2>3, <2>4, <2>5
<1>8. step \notin {"getsocket", "credit"}  OBVIOUS
<1> QED BY <1>0, <1>4, <1>5, <1>6, <1>7, <1>8, AnswerKeeps DEF GrantedWith

(* GetSocket changes nothing at the peripheral.                            *)
LEMMA SocketKeeps ==
  ASSUME Inv, GrantedWith(0), step = "getsocket", UNCHANGED dev
  PROVE  Core'
<1>0. 0 \in 0..use.credit /\ use.credit \in Nat  BY UseFacts DEF Inv
<1>1. /\ Asking /\ step \in Commands /\ ch \in Chans
      /\ \A c : /\ CreditOf(toHost', c) = CreditOf(toHost, c) + (IF c = ch THEN 0 ELSE 0)
                /\ DataOf(toHost', c) = DataOf(toHost, c)
                /\ CreditOf(toHost, c) \in Nat
                /\ Absent(toHost, c) => Absent(toHost', c)
                /\ Settled(c)' = Settled(c) /\ Steady(c)' = Steady(c)
      /\ \A c \in Chans : Standing(c) /\ Granting(c) /\ Reading(c)
      /\ UNCHANGED <<use, proc, ch, step, open, up, h2pcredit, p2hcredit, used>>
      /\ devCredit \in [Chans -> Nat] /\ devP2h \in [Chans -> Nat] /\ devOpen \subseteq Chans
  BY <1>0, GrantedStep
<1>2. \A c : CreditOf(toHost', c) = CreditOf(toHost, c)  BY <1>1
<1>3. After(0)'  BY <1>1 DEF After
<1>4. Flags'  BY <1>1 DEF Inv, Core, Flags, dev
<1>5. ASSUME NEW c \in Chans PROVE Standing(c)' /\ Granting(c)' /\ Reading(c)'
  <2>2. Fresh(c) => Fresh(c)'  BY <1>1 DEF Fresh, dev
  <2>3. Standing(c)'  BY <1>1, <2>2 DEF Standing, dev
  <2>4. Granting(c)'  BY <1>1, <1>2 DEF Granting, dev
  <2>5. Reading(c)'  BY <1>1 DEF Reading, dev
  <2> QED BY <2>3, <2>4, <2>5
<1>6. ch \notin devOpen'  BY DEF Inv, Core, Call, Fresh, dev
<1> QED BY <1>0, <1>1, <1>3, <1>4, <1>5, <1>6, AnswerKeeps DEF GrantedWith, dev

(* The peripheral opens the channel, with its first credit.                *)
LEMMA ChannelOpenedKeeps ==
  ASSUME Inv, NEW k \in 0..use.credit, GrantedWith(k), step = "open",
         devOpen' = devOpen \cup {ch}, devP2h' = [devP2h EXCEPT ![ch] = 0],
         devCredit' = [devCredit EXCEPT ![ch] = k], devUp' = devUp
  PROVE  Core'
<1>0. k \in Nat /\ k <= use.credit  BY UseFacts DEF Inv
<1>1. /\ Asking /\ step \in Commands /\ ch \in Chans
      /\ \A c : /\ CreditOf(toHost', c) = CreditOf(toHost, c) + (IF c = ch THEN k ELSE 0)
                /\ DataOf(toHost', c) = DataOf(toHost, c)
                /\ CreditOf(toHost, c) \in Nat
                /\ Absent(toHost, c) => Absent(toHost', c)
                /\ Settled(c)' = Settled(c) /\ Steady(c)' = Steady(c)
      /\ \A c \in Chans : p2hcredit[c] \in Nat /\ Standing(c) /\ Granting(c) /\ Reading(c)
      /\ UNCHANGED <<use, proc, ch, step, open, up, h2pcredit, p2hcredit, used>>
      /\ devCredit \in [Chans -> Nat] /\ devP2h \in [Chans -> Nat] /\ devOpen \subseteq Chans
  BY GrantedStep
<1>2. /\ DataOf(toHost, ch) = 0 /\ CreditOf(toHost, ch) = 0 /\ p2hcredit[ch] = 0
  <2>1. Fresh(ch) /\ Quiet(toHost) /\ toHost \in Seq(Sound)  BY <1>1 DEF Asking, Before, Inv, Core
  <2> QED BY <2>1, NoData DEF Fresh, Inv
<1>3. devCredit'[ch] = k /\ devP2h'[ch] = 0 /\ ch \in devOpen'  BY <1>1
<1>4. After(k)'  BY <1>0, <1>1, <1>2, <1>3 DEF After
<1>5. Flags'  BY <1>1 DEF Inv, Core, Flags
<1>6. devCredit' \in [Chans -> Nat] /\ devP2h' \in [Chans -> Nat]  BY <1>0, <1>1
<1>7. ASSUME NEW c \in Chans PROVE Standing(c)' /\ Granting(c)' /\ Reading(c)'
  <2>1. CASE c # ch
    <3>1. devCredit'[c] = devCredit[c] /\ devP2h'[c] = devP2h[c] /\ (c \in devOpen' <=> c \in devOpen)
      BY <1>1, <2>1
    <3>2. CreditOf(toHost', c) = CreditOf(toHost, c)  BY <1>1, <2>1
    <3>3. Fresh(c) => Fresh(c)'  BY <1>1, <3>1 DEF Fresh
    <3>4. Standing(c)'  BY <1>1, <3>1, <3>3 DEF Standing
    <3>5. Granting(c)'  BY <1>1, <3>1, <3>2 DEF Granting
    <3>6. Reading(c)'  BY <1>1, <3>1 DEF Reading
    <3> QED BY <3>4, <3>5, <3>6
  <2>2. CASE c = ch
    <3>1. proc = "open" /\ c \in used
      BY <2>2 DEF Inv, Core, Control, Typed, Procs
    <3>2. ~Settled(c) /\ Steady(c)  BY <2>2, <3>1 DEF Settled, Steady
    <3>3. Standing(c)'  BY <1>1, <1>3, <2>2, <3>1 DEF Standing
    <3>4. Granting(c)'  BY <1>0, <1>1, <1>3, <2>2, <3>2 DEF Granting
    <3>5. Reading(c)'  BY <1>1, <1>2, <1>3, <2>2, <3>2 DEF Reading
    <3> QED BY <3>3, <3>4, <3>5
  <2> QED BY <2>1, <2>2
<1>8. devOpen' \subseteq Chans  BY <1>1
<1> QED BY <1>1, <1>4, <1>5, <1>6, <1>7, <1>8, AnswerKeeps DEF GrantedWith

(* The peripheral closes the channel.                                      *)
LEMMA ChannelClosedKeeps ==
  ASSUME Inv, GrantedWith(0), step = "close",
         devOpen' = devOpen \ {ch}, devP2h' = [devP2h EXCEPT ![ch] = 0],
         devCredit' = [devCredit EXCEPT ![ch] = 0], devUp' = devUp
  PROVE  Core'
<1>0. 0 \in 0..use.credit /\ use.credit \in Nat  BY UseFacts DEF Inv
<1>1. /\ Asking /\ step \in Commands /\ ch \in Chans
      /\ \A c : /\ CreditOf(toHost', c) = CreditOf(toHost, c) + (IF c = ch THEN 0 ELSE 0)
                /\ DataOf(toHost', c) = DataOf(toHost, c)
                /\ CreditOf(toHost, c) \in Nat /\ DataOf(toHost, c) \in Nat
                /\ Absent(toHost, c) => Absent(toHost', c)
                /\ Settled(c)' = Settled(c) /\ Steady(c)' = Steady(c)
      /\ \A c \in Chans : /\ p2hcredit[c] \in Nat /\ devP2h[c] \in Nat
                          /\ Standing(c) /\ Granting(c) /\ Reading(c)
      /\ UNCHANGED <<use, proc, ch, step, open, up, h2pcredit, p2hcredit, used>>
      /\ devCredit \in [Chans -> Nat] /\ devP2h \in [Chans -> Nat] /\ devOpen \subseteq Chans
  BY <1>0, GrantedStep
<1>2. \A c : CreditOf(toHost', c) = CreditOf(toHost, c)  BY <1>1
<1>3. devCredit'[ch] = 0 /\ devP2h'[ch] = 0 /\ ch \notin devOpen'  BY <1>1
<1>4. After(0)'  BY <1>1 DEF After
<1>5. Flags'  BY <1>1 DEF Inv, Core, Flags
<1>6. devCredit' \in [Chans -> Nat] /\ devP2h' \in [Chans -> Nat]  BY <1>1
<1>7. ASSUME NEW c \in Chans PROVE Standing(c)' /\ Granting(c)' /\ Reading(c)'
  <2>0. Fresh(c) => Fresh(c)'  BY <1>1 DEF Fresh
  <2>1. CASE c # ch
    <3>1. devCredit'[c] = devCredit[c] /\ devP2h'[c] = devP2h[c] /\ (c \in devOpen' <=> c \in devOpen)
      BY <1>1, <2>1
    <3>4. Standing(c)'  BY <1>1, <2>0, <3>1 DEF Standing
    <3>5. Granting(c)'  BY <1>1, <1>2, <3>1 DEF Granting
    <3>6. Reading(c)'  BY <1>1, <3>1 DEF Reading
    <3> QED BY <3>4, <3>5, <3>6
  <2>2. CASE c = ch
    <3>1. proc = "close"
      BY <2>2 DEF Inv, Core, Control, Typed, Procs
    <3>2. ~Settled(c) /\ Steady(c)  BY <2>2, <3>1 DEF Settled, Steady
    <3>3. Standing(c)'  BY <1>1, <1>3, <2>0, <2>2, <3>2 DEF Standing
    <3>4. Granting(c)'  BY <1>0, <1>1, <1>3, <2>2, <3>2 DEF Granting
    <3>5. Reading(c)'  BY <1>1, <1>3, <2>2, <3>2 DEF Reading
    <3> QED BY <3>3, <3>4, <3>5
  <2> QED BY <2>1, <2>2
<1>8. devOpen' \subseteq Chans  BY <1>1
<1> QED BY <1>0, <1>1, <1>4, <1>5, <1>6, <1>7, <1>8, AnswerKeeps DEF GrantedWith

(* The peripheral takes credit for the packets it may send.                *)
LEMMA CreditTakenKeeps ==
  ASSUME Inv, GrantedWith(0), step = "credit", ch \in devOpen,
         devP2h' = [devP2h EXCEPT ![ch] = (@ + Asked) % CreditMod],
         UNCHANGED <<devUp, devOpen, devCredit>>
  PROVE  Core'
<1>0. 0 \in 0..use.credit /\ use.credit \in Nat /\ CreditMod \in Nat /\ CreditMod > 2
  BY UseFacts DEF Inv
<1>1. /\ Asking /\ step \in Commands /\ ch \in Chans
      /\ \A c : /\ CreditOf(toHost', c) = CreditOf(toHost, c) + (IF c = ch THEN 0 ELSE 0)
                /\ DataOf(toHost', c) = DataOf(toHost, c)
                /\ CreditOf(toHost, c) \in Nat /\ DataOf(toHost, c) \in Nat
                /\ Absent(toHost, c) => Absent(toHost', c)
                /\ Settled(c)' = Settled(c) /\ Steady(c)' = Steady(c)
      /\ \A c \in Chans : /\ p2hcredit[c] \in Nat /\ devP2h[c] \in Nat
                          /\ Standing(c) /\ Granting(c) /\ Reading(c)
      /\ UNCHANGED <<use, proc, ch, step, open, up, h2pcredit, p2hcredit, used>>
      /\ devCredit \in [Chans -> Nat] /\ devP2h \in [Chans -> Nat] /\ devOpen \subseteq Chans
  BY <1>0, GrantedStep
<1>2. \A c : CreditOf(toHost', c) = CreditOf(toHost, c)  BY <1>1
<1>3. devP2h[ch] = 0 /\ DataOf(toHost, ch) = 0  BY <1>1 DEF Asking, Before
<1>4. Asked \in {1, 2} /\ Asked' = Asked  BY <1>1 DEF Asked
<1>5. (0 + Asked) % CreditMod = Asked  BY <1>0, <1>4, ModSmall
<1>6. devP2h' = [devP2h EXCEPT ![ch] = Asked]  BY <1>1, <1>3, <1>5
<1>7. devP2h' \in [Chans -> Nat] /\ devP2h'[ch] = Asked  BY <1>1, <1>4, <1>6
<1>8. After(0)'  BY <1>1, <1>3, <1>4, <1>7 DEF After
<1>9. Flags'  BY <1>1 DEF Inv, Core, Flags
<1>10. ASSUME NEW c \in Chans PROVE Standing(c)' /\ Granting(c)' /\ Reading(c)'
  <2>1. Fresh(c) => Fresh(c)'  BY <1>1 DEF Fresh
  <2>2. c # ch => devP2h'[c] = devP2h[c]  BY <1>1, <1>6
  <2>3. Standing(c)'  BY <1>1, <2>1, <2>2 DEF Standing
  <2>4. Granting(c)'  BY <1>1, <1>2 DEF Granting
  <2>5. Reading(c)'
    <3>1. Steady(c) => c # ch  BY DEF Steady
    <3> QED BY <1>1, <2>2, <3>1 DEF Reading
  <2> QED BY <2>3, <2>4, <2>5
<1> QED BY <1>0, <1>1, <1>7, <1>8, <1>9, <1>10, AnswerKeeps DEF GrantedWith

(* The peripheral grants the credit it is asked for.                       *)
LEMMA CreditGrantedKeeps ==
  ASSUME Inv, NEW k \in 0..use.credit, GrantedWith(k), step = "creditreq",
         k <= use.credit - devCredit[ch],
         devCredit' = [devCredit EXCEPT ![ch] = @ + k], UNCHANGED <<devUp, devOpen, devP2h>>
  PROVE  Core'
<1>0. k \in Nat /\ k <= use.credit /\ use.credit \in Nat  BY UseFacts DEF Inv
<1>1. /\ Asking /\ step \in Commands /\ ch \in Chans
      /\ \A c : /\ CreditOf(toHost', c) = CreditOf(toHost, c) + (IF c = ch THEN k ELSE 0)
                /\ DataOf(toHost', c) = DataOf(toHost, c)
                /\ CreditOf(toHost, c) \in Nat
                /\ Absent(toHost, c) => Absent(toHost', c)
                /\ Settled(c)' = Settled(c) /\ Steady(c)' = Steady(c)
      /\ \A c \in Chans : /\ p2hcredit[c] \in Nat /\ devCredit[c] \in Nat /\ h2pcredit[c] \in Nat
                          /\ Standing(c) /\ Granting(c) /\ Reading(c)
      /\ UNCHANGED <<use, proc, ch, step, open, up, h2pcredit, p2hcredit, used>>
      /\ devCredit \in [Chans -> Nat] /\ devP2h \in [Chans -> Nat] /\ devOpen \subseteq Chans
  BY GrantedStep
<1>2. After(k)'  BY <1>1 DEF After
<1>3. Flags'  BY <1>1 DEF Inv, Core, Flags
<1>4. devCredit' \in [Chans -> Nat]  BY <1>0, <1>1
<1>5. ASSUME NEW c \in Chans PROVE Standing(c)' /\ Granting(c)' /\ Reading(c)'
  <2>1. Fresh(c) => Fresh(c)'  BY <1>1 DEF Fresh
  <2>2. Standing(c)'  BY <1>1, <2>1 DEF Standing
  <2>3. Granting(c)'
    <3>1. CASE c = ch
      <4>1. devCredit'[c] = devCredit[c] + k  BY <1>1, <3>1
      <4>2. CreditOf(toHost', c) = CreditOf(toHost, c) + k  BY <1>1, <3>1
      <4>3. devCredit'[c] <= use.credit  BY <1>0, <1>1, <3>1, <4>1
      <4> QED BY <1>0, <1>1, <4>1, <4>2, <4>3 DEF Granting
    <3>2. CASE c # ch
      <4>1. devCredit'[c] = devCredit[c]  BY <1>1, <3>2
      <4>2. CreditOf(toHost', c) = CreditOf(toHost, c)  BY <1>1, <3>2
      <4> QED BY <1>1, <4>1, <4>2 DEF Granting
    <3> QED BY <3>1, <3>2
  <2>4. Reading(c)'  BY <1>1 DEF Reading
  <2> QED BY <2>2, <2>3, <2>4
<1>6. devOpen' \subseteq Chans /\ devP2h' \in [Chans -> Nat]  BY <1>1
<1> QED BY <1>2, <1>3, <1>4, <1>5, <1>6, AnswerKeeps DEF GrantedWith

(* The peripheral answers: one of the five ways above.                     *)
LEMMA DevAnswerKeeps ==
  ASSUME Inv, UNCHANGED use, DevAnswer
  PROVE  Core'
<1>1. /\ step \in Commands /\ toDev # << >> /\ toDev' = << >> /\ ch \in Chans
      /\ Head(toDev).cmd = step /\ Head(toDev).ch = ch /\ Head(toDev).credit = Asked
      /\ UNCHANGED <<use, call, open, up, ta, buf, used>>
  BY CommandAtHead DEF DevAnswer, Inv, Core, Typed
<1>2. 0 \in 0..use.credit /\ use.credit \in Nat  BY UseFacts DEF Inv
<1>3. ASSUME NEW k, toHost' = Append(toHost, [kind |-> "reply", cmd |-> step, ch |-> ch, ok |-> TRUE,
                                              credit |-> k])
      PROVE  GrantedWith(k)
  BY <1>1, <1>3 DEF GrantedWith, Rep
<1>4. CASE step = "init"
  <2>1. /\ devUp' = TRUE /\ devOpen' = {} /\ devCredit' = Zero /\ devP2h' = Zero
        /\ Answer("init", ch, TRUE, 0)
    BY <1>1, <1>4 DEF DevAnswer
  <2>2. GrantedWith(0)  BY <1>3, <1>4, <2>1 DEF Answer
  <2> QED BY <1>4, <2>1, <2>2, ResetKeeps
<1>5. CASE step = "exit"
  <2>1. /\ devUp' = FALSE /\ devOpen' = {} /\ devCredit' = Zero /\ devP2h' = Zero
        /\ Answer("exit", ch, TRUE, 0)
    BY <1>1, <1>5 DEF DevAnswer
  <2>2. GrantedWith(0)  BY <1>3, <1>5, <2>1 DEF Answer
  <2> QED BY <1>5, <2>1, <2>2, ResetKeeps
<1>6. CASE step = "getsocket"
  <2>1. Answer("getsocket", ch, TRUE, 0) /\ UNCHANGED dev  BY <1>1, <1>6 DEF DevAnswer
  <2>2. GrantedWith(0)  BY <1>3, <1>6, <2>1 DEF Answer
  <2> QED BY <1>6, <2>1, <2>2, SocketKeeps
<1>7. CASE step = "open"
  <2>1. /\ devOpen' = devOpen \cup {ch} /\ devP2h' = [devP2h EXCEPT ![ch] = 0] /\ devUp' = devUp
        /\ \E k \in 0..use.credit : /\ devCredit' = [devCredit EXCEPT ![ch] = k]
                                    /\ Answer("open", ch, TRUE, k)
    BY <1>1, <1>7 DEF DevAnswer
  <2>2. PICK k \in 0..use.credit : /\ devCredit' = [devCredit EXCEPT ![ch] = k]
                                   /\ Answer("open", ch, TRUE, k)
    BY <2>1
  <2>3. GrantedWith(k)  BY <1>3, <1>7, <2>2 DEF Answer
  <2> QED BY <1>7, <2>1, <2>2, <2>3, ChannelOpenedKeeps
<1>8. CASE step = "close"
  <2>1. /\ devOpen' = devOpen \ {ch} /\ devP2h' = [devP2h EXCEPT ![ch] = 0] /\ devUp' = devUp
        /\ devCredit' = [devCredit EXCEPT ![ch] = 0] /\ Answer("close", ch, TRUE, 0)
    BY <1>1, <1>8 DEF DevAnswer
  <2>2. GrantedWith(0)  BY <1>3, <1>8, <2>1 DEF Answer
  <2> QED BY <1>8, <2>1, <2>2, ChannelClosedKeeps
<1>9. CASE step = "credit"
  <2>1. /\ devP2h' = [devP2h EXCEPT ![ch] = (@ + Asked) % CreditMod] /\ ch \in devOpen
        /\ UNCHANGED <<devUp, devOpen, devCredit>> /\ Answer("credit", ch, TRUE, 0)
    BY <1>1, <1>9 DEF DevAnswer
  <2>2. GrantedWith(0)  BY <1>3, <1>9, <2>1 DEF Answer
  <2> QED BY <1>9, <2>1, <2>2, CreditTakenKeeps
<1>10. CASE step = "creditreq"
  <2>1. /\ UNCHANGED <<devUp, devOpen, devP2h>>
        /\ \E k \in 0..use.credit - devCredit[ch] : /\ devCredit' = [devCredit EXCEPT ![ch] = @ + k]
                                                    /\ Answer("creditreq", ch, TRUE, k)
    BY <1>1, <1>10 DEF DevAnswer
  <2>2. PICK k \in 0..use.credit - devCredit[ch] : /\ devCredit' = [devCredit EXCEPT ![ch] = @ + k]
                                                   /\ Answer("creditreq", ch, TRUE, k)
    BY <2>1
  <2>3. k \in 0..use.credit /\ k <= use.credit - devCredit[ch]
    <3>1. devCredit[ch] \in Nat  BY <1>1 DEF Inv, Core, Typed
    <3> QED BY <1>2, <3>1
  <2>4. GrantedWith(k)  BY <1>3, <1>10, <2>2 DEF Answer
  <2> QED BY <1>10, <2>1, <2>2, <2>3, <2>4, CreditGrantedKeeps
<1> QED BY <1>1, <1>4, <1>5, <1>6, <1>7, <1>8, <1>9, <1>10 DEF Commands

(* A packet the peripheral sends unasked.                                  *)
LEMMA PacketSentKeeps ==
  ASSUME Inv, UNCHANGED <<use, call, open, up, ta, buf, toDev, used, devUp, devOpen>>,
         NEW p \in Sound, Plain(p), p.ch \in devOpen, toHost' = Append(toHost, p),
         p.credit \in Nat, devCredit[p.ch] + p.credit <= use.credit,
         devCredit' = [devCredit EXCEPT ![p.ch] = @ + p.credit],
         p.kind = "data" => devP2h[p.ch] > 0,
         devP2h' = IF p.kind = "data" THEN [devP2h EXCEPT ![p.ch] = @ - 1] ELSE devP2h
  PROVE  Core'
<1> USE DEF Inv, Core
<1>0. use.credit \in Nat  BY UseFacts
<1>1. /\ toHost \in Seq(Sound) /\ p.ch \in Chans /\ p.kind # "junk" /\ ch \in Chans
      /\ devCredit \in [Chans -> Nat] /\ devP2h \in [Chans -> Nat]
      /\ UNCHANGED <<use, proc, ch, step, n, cnt, open, up, h2pcredit, p2hcredit, rindex, rcnt, toDev,
                     used, devUp, devOpen>>
  BY SoundPacket DEF Typed, call, ta, buf, Sound
<1>2. \A c : /\ CreditOf(toHost', c) = CreditOf(toHost, c) + Grants(p, c)
             /\ DataOf(toHost', c) = DataOf(toHost, c) + One(p, c)
             /\ Grants(p, c) \in Nat /\ One(p, c) \in {0, 1}
             /\ CreditOf(toHost, c) \in Nat /\ DataOf(toHost, c) \in Nat
             /\ Absent(toHost, c) /\ c # p.ch => Absent(toHost', c)
  <2>1. \A c : One(p, c) \in {0, 1}  BY DEF One
  <2>2. \A c : Absent(toHost, c) /\ c # p.ch => Absent(toHost', c)  BY <1>1, PlainAppends
  <2> QED BY <1>1, <2>1, <2>2, WhatAppends
<1>3. ASSUME NEW c \in Chans
      PROVE  /\ devCredit'[c] = devCredit[c] + Grants(p, c)
             /\ devP2h'[c] = devP2h[c] - One(p, c) /\ devP2h'[c] \in Nat
             /\ devP2h[c] \in Nat /\ devCredit[c] \in Nat /\ p2hcredit[c] \in Nat
             /\ devCredit[c] + Grants(p, c) <= use.credit
  <2>1. devP2h[c] \in Nat /\ devCredit[c] \in Nat /\ p2hcredit[c] \in Nat /\ devCredit[c] <= use.credit
    BY DEF Typed, Channel, Granting
  <2>2. CASE c = p.ch
    BY <1>1, <2>1, <2>2 DEF Grants, One, IsData
  <2>3. CASE c # p.ch
    <3>1. Grants(p, c) = 0 /\ One(p, c) = 0  BY <2>3 DEF Grants, One, IsData
    <3> QED BY <1>1, <2>1, <2>3, <3>1
  <2> QED BY <2>2, <2>3
<1>4. toHost' \in Seq(Sound)  BY <1>1
<1>5. devCredit' \in [Chans -> Nat] /\ devP2h' \in [Chans -> Nat]  BY <1>1, <1>3
<1>6. Typed'  BY <1>1, <1>5 DEF Typed
<1>7. (toHost \in Seq(Sound))'
  <2>1. Sound' = Sound  BY SoundKept
  <2> QED BY <1>4, <2>1
<1>8. Control'  BY <1>1 DEF Control
<1>9. Flags'  BY <1>1 DEF Flags
<1>10. \A c : Fresh(c) => Fresh(c)'  BY <1>1, <1>2 DEF Fresh
<1>11. Call'  BY <1>1, <1>10 DEF Call
<1>12. Exchange'
  <2>1. Before => Before'
    <3>1. ASSUME devP2h[ch] = 0, DataOf(toHost, ch) = 0
          PROVE  devP2h'[ch] = 0 /\ DataOf(toHost', ch) = 0
      <4>1. One(p, ch) = 0  BY <1>1, <3>1 DEF One, IsData
      <4>2. /\ DataOf(toHost', ch) = DataOf(toHost, ch) + One(p, ch)
            /\ devP2h'[ch] = devP2h[ch] - One(p, ch)
        BY <1>1, <1>2, <1>3
      <4> HIDE DEF Inv, Core
      <4> QED BY <3>1, <4>1, <4>2
    <3> QED BY <1>1, <1>10, <3>1 DEF Before
  <2>2. ASSUME NEW k, After(k) PROVE After(k)' /\ step # "init"
    <3>1. step = "open" => devP2h'[ch] = 0 /\ DataOf(toHost', ch) = 0 /\ CreditOf(toHost', ch) = devCredit'[ch]
      <4> SUFFICES ASSUME step = "open" PROVE devP2h'[ch] = 0 /\ DataOf(toHost', ch) = 0 /\ CreditOf(toHost', ch) = devCredit'[ch]
        OBVIOUS
      <4>1. devP2h[ch] = 0 /\ DataOf(toHost, ch) = 0 /\ CreditOf(toHost, ch) = devCredit[ch]
        BY <2>2 DEF After
      <4>2. One(p, ch) = 0  BY <1>1, <4>1 DEF One, IsData
      <4>3. /\ DataOf(toHost', ch) = DataOf(toHost, ch) + One(p, ch)
            /\ devP2h'[ch] = devP2h[ch] - One(p, ch)
            /\ CreditOf(toHost', ch) = CreditOf(toHost, ch) + Grants(p, ch)
            /\ devCredit'[ch] = devCredit[ch] + Grants(p, ch)
        BY <1>1, <1>2, <1>3
      <4> HIDE DEF Inv, Core
      <4> QED BY <4>1, <4>2, <4>3
    <3>2. step = "credit" => DataOf(toHost', ch) + devP2h'[ch] = Asked'
      <4> SUFFICES ASSUME step = "credit" PROVE DataOf(toHost', ch) + devP2h'[ch] = Asked'
        OBVIOUS
      <4>1. DataOf(toHost, ch) + devP2h[ch] = Asked /\ Asked' = Asked  BY <1>1, <2>2 DEF After, Asked
      <4>2. /\ DataOf(toHost', ch) = DataOf(toHost, ch) + One(p, ch) /\ DataOf(toHost, ch) \in Nat
            /\ One(p, ch) \in {0, 1} /\ devP2h'[ch] = devP2h[ch] - One(p, ch) /\ devP2h[ch] \in Nat
        BY <1>1, <1>2, <1>3
      <4> HIDE DEF Inv, Core
      <4> QED BY <4>1, <4>2
    <3>3. step # "init"  BY <2>2 DEF After
    <3> QED BY <1>1, <2>2, <3>1, <3>2, <3>3 DEF After
  <2>3. Quiet(toHost) => Quiet(toHost')  BY <1>1, PlainAppends
  <2>4. ASSUME NEW r, ~(r.cmd = "init" /\ r.ok), Answered(toHost, r) PROVE Answered(toHost', r)
    BY <1>1, <2>4, AnswerFollowed
  <2>5. \A ok, k : /\ Rep(ok, k)' = Rep(ok, k) /\ Rep(ok, k).cmd = step /\ Rep(ok, k).ok = ok
    BY <1>1 DEF Rep
  <2>6. Cmd' = Cmd  BY <1>1 DEF Cmd, Asked
  <2>7. Silent => Silent'  BY <1>1, <2>3 DEF Silent
  <2>8. Asking => Asking'  BY <1>1, <2>1, <2>3, <2>6 DEF Asking
  <2>9. Refused => Refused'
    <3>1. Rep(FALSE, 0)' = Rep(FALSE, 0) /\ Rep(FALSE, 0).ok = FALSE  BY <2>5
    <3> QED BY <1>1, <2>1, <2>4, <3>1 DEF Refused
  <2>10. ASSUME Granted PROVE Granted'
    <3>1. PICK k \in 0..use.credit : Answered(toHost, Rep(TRUE, k)) /\ After(k)  BY <2>10 DEF Granted
    <3>2. After(k)' /\ step # "init"  BY <2>2, <3>1
    <3>3. Rep(TRUE, k)' = Rep(TRUE, k) /\ Rep(TRUE, k).cmd = step  BY <2>5
    <3>4. Answered(toHost', Rep(TRUE, k)')  BY <2>4, <3>1, <3>2, <3>3
    <3>5. toDev' = << >> /\ k \in 0..use'.credit  BY <1>1, <2>10 DEF Granted
    <3> QED BY <3>2, <3>4, <3>5 DEF Granted
  <2> QED BY <1>1, <2>7, <2>8, <2>9, <2>10 DEF Exchange
<1>13. ASSUME NEW c \in Chans PROVE Channel(c)'
  <2>1. Settled(c)' = Settled(c) /\ Steady(c)' = Steady(c)  BY <1>1 DEF Settled, Steady
  <2>2. Channel(c)  OBVIOUS
  <2>3. Standing(c)'
    <3>1. One(p, c) = 1 => c \in devOpen  BY DEF One, IsData
    <3>2. c \notin devOpen => devP2h'[c] = devP2h[c]  BY <1>2, <1>3, <3>1
    <3> QED BY <1>1, <1>10, <2>1, <2>2, <3>2 DEF Channel, Standing
  <2>4. Granting(c)'
    <3>1. /\ devCredit'[c] = devCredit[c] + Grants(p, c) /\ devCredit'[c] <= use.credit
          /\ CreditOf(toHost', c) = CreditOf(toHost, c) + Grants(p, c)
          /\ CreditOf(toHost, c) \in Nat /\ Grants(p, c) \in Nat /\ devCredit[c] \in Nat
      BY <1>2, <1>3
    <3>2. h2pcredit[c] \in Nat
      <4>1. CreditRange \subseteq Nat  BY UseFacts DEF CreditRange
      <4> QED BY <4>1 DEF Typed
    <3> QED BY <1>1, <2>1, <2>2, <3>1, <3>2 DEF Channel, Granting
  <2>5. Reading(c)'
    <3>1. /\ DataOf(toHost', c) = DataOf(toHost, c) + One(p, c) /\ DataOf(toHost, c) \in Nat
          /\ One(p, c) \in {0, 1} /\ devP2h'[c] = devP2h[c] - One(p, c) /\ devP2h[c] \in Nat
      BY <1>2, <1>3
    <3>2. DataOf(toHost', c) + devP2h'[c] = DataOf(toHost, c) + devP2h[c]  BY <3>1
    <3> QED BY <1>1, <2>1, <2>2, <3>2 DEF Channel, Reading
  <2>6. Roomy(c)'  BY <1>1, <2>2 DEF Channel, Roomy
  <2> QED BY <2>3, <2>4, <2>5, <2>6 DEF Channel
<1> QED BY <1>6, <1>7, <1>8, <1>9, <1>11, <1>12, <1>13

(* An unsolicited Credit.                                                  *)
LEMMA DevCreditKeeps ==
  ASSUME Inv, UNCHANGED use, NEW c \in Chans, DevCredit(c)
  PROVE  Core'
<1> DEFINE p == [kind |-> "credit", ch |-> c, credit |-> 1]
<1>1. c \in devOpen /\ devCredit[c] < use.credit /\ use.credit \in Nat /\ devCredit[c] \in Nat
  BY UseFacts DEF DevCredit, Inv, Core, Typed
<1>2. p \in Sound
  <2>1. p \in [kind : {"credit"}, ch : Chans, credit : {1}]  BY <1>1
  <2>2. p \in Packet  BY <2>1 DEF Packet
  <2> QED BY <2>2 DEF Sound
<1>3. /\ UNCHANGED <<use, call, open, up, ta, buf, toDev, used, devUp, devOpen, devP2h>>
      /\ devCredit' = [devCredit EXCEPT ![c] = @ + 1] /\ toHost' = Append(toHost, p)
  BY DEF DevCredit
<1>4. p.ch = c /\ p.credit = 1 /\ p.kind = "credit" /\ Plain(p)  BY DEF Plain
<1> HIDE DEF p
<1>5. p.credit \in Nat /\ devCredit[p.ch] + p.credit <= use.credit  BY <1>1, <1>4
<1>6. /\ devCredit' = [devCredit EXCEPT ![p.ch] = @ + p.credit] /\ p.kind # "data"  BY <1>3, <1>4
<1> QED BY <1>1, <1>2, <1>3, <1>4, <1>5, <1>6, PacketSentKeeps

(* A data packet, sent with a credit the host issued.                      *)
LEMMA DevDataKeeps ==
  ASSUME Inv, UNCHANGED use, NEW c \in Chans, DevData(c), devSent[c] \in Bytes
  PROVE  Core'
<1>1. c \in devOpen /\ devP2h[c] > 0  BY DEF DevData
<1>2. PICK len \in use.packets, hi \in {FALSE, use.hiBytes}, k \in 0..1 :
          /\ devSent[c] + len <= use.bytes /\ devCredit[c] + k <= use.credit
          /\ devCredit' = [devCredit EXCEPT ![c] = @ + k]
          /\ toHost' = Append(toHost, [kind |-> "data", ch |-> c, len |-> len,
                                       from |-> devSent[c], hi |-> hi, credit |-> k])
  BY DEF DevData
<1> DEFINE p == [kind |-> "data", ch |-> c, len |-> len, from |-> devSent[c], hi |-> hi, credit |-> k]
<1>3. hi = FALSE
  <2>1. use \in Profile  BY ConstantsAssumption DEF Inv
  <2>2. use.hiBytes \in BOOLEAN /\ ~use.hiBytes  BY <2>1 DEF Profile, Inv, Tame
  <2> QED BY <2>2
<1>4. p \in Sound
  <2>1. p \in [kind : {"data"}, ch : Chans, len : use.packets, from : Bytes, hi : BOOLEAN, credit : 0..1]
    BY <1>3
  <2>2. p \in Packet  BY <2>1 DEF Packet
  <2> QED BY <1>2, <1>3, <2>2 DEF Sound
<1>5. /\ UNCHANGED <<use, call, open, up, ta, buf, toDev, used, devUp, devOpen>>
      /\ devP2h' = [devP2h EXCEPT ![c] = @ - 1] /\ toHost' = Append(toHost, p)
  BY <1>2 DEF DevData
<1>6. p.ch = c /\ p.credit = k /\ p.kind = "data" /\ Plain(p)  BY DEF Plain
<1> HIDE DEF p
<1>7. p.credit \in Nat /\ devCredit[p.ch] + p.credit <= use.credit  BY <1>2, <1>6
<1>8. /\ devCredit' = [devCredit EXCEPT ![p.ch] = @ + p.credit]
      /\ devP2h' = [devP2h EXCEPT ![p.ch] = @ - 1]
  BY <1>2, <1>5, <1>6
<1> QED BY <1>1, <1>4, <1>5, <1>6, <1>7, <1>8, PacketSentKeeps

(* The bytes: those in the buffers, those sent and those delivered.        *)
Buffers == rbuf \in [Chans -> [1..BufSize -> Bytes]]
Streamed == devSent \in [Chans -> Bytes] /\ delivered \in [Chans -> Seq(Bytes)]
Data == Buffers /\ Streamed

(* An empty buffer holds bytes.                                            *)
LEMMA BytesFacts ==
  ASSUME use \in Profiles
  PROVE  /\ 0 \in Bytes /\ EmptyBuf \in [1..BufSize -> Bytes] /\ Zero \in [Chans -> Bytes]
<1>1. use.bytes \in Nat  BY UseFacts
<1>2. 0 \in Bytes  BY <1>1 DEF Bytes
<1> QED BY <1>2 DEF EmptyBuf, Zero

(* The bytes are those of the profile.                                     *)
LEMMA BytesKept ==
  ASSUME UNCHANGED use
  PROVE  Bytes' = Bytes
BY DEF Bytes

(* The bytes of a packet of data are bytes the peripheral sends.           *)
LEMMA FilledTyped ==
  ASSUME use \in Profiles, NEW p \in Sound, p.kind = "data", NEW at \in Nat,
         NEW b \in [1..BufSize -> Bytes]
  PROVE  Filled(b, at, p) \in [1..BufSize -> Bytes]
<1>1. use.bytes \in Nat /\ BufSize \in Nat  BY UseFacts
<1>2. p.len \in Nat /\ p.from \in Nat /\ p.from + p.len <= use.bytes
  BY <1>1, SoundPacket DEF Bytes
<1>3. ASSUME NEW i \in 1..BufSize, i \in at + 1 .. at + p.len
      PROVE  p.from + i - at \in Bytes
  BY <1>1, <1>2, <1>3 DEF Bytes
<1>4. ASSUME NEW i \in 1..BufSize
      PROVE  (IF i \in at + 1 .. at + p.len THEN p.from + i - at ELSE b[i]) \in Bytes
  BY <1>3
<1> QED BY <1>4 DEF Filled

(* What cut_buf hands over and keeps.                                      *)
LEMMA CutTyped ==
  ASSUME use \in Profiles, UNCHANGED <<use, devSent>>, Data, NEW c \in Chans,
         NEW b \in [1..BufSize -> Bytes], NEW i \in Nat, NEW k \in Nat, NEW len \in Nat,
         CutBuf(c, b, i, k, len)
  PROVE  Data'
<1> DEFINE take == IF k > len THEN len ELSE k
           At(j) == IF j <= BufSize THEN b[j] ELSE 0
           cut == [j \in 1..take |-> At(i + j)]
           rest == IF k > len THEN b ELSE EmptyBuf
<1>1. delivered' = [delivered EXCEPT ![c] = @ \o cut]  BY Zenon DEF CutBuf
<1>2. rbuf' = [rbuf EXCEPT ![c] = rest]  BY Zenon DEF CutBuf
<1>3. take \in Nat  OBVIOUS
<1>4. ASSUME NEW j \in 1..take PROVE At(i + j) \in Bytes
  <2>1. BufSize \in Nat /\ i + j \in Nat /\ i + j >= 1  BY <1>3, UseFacts
  <2>2. CASE i + j <= BufSize  BY <2>1, <2>2
  <2>3. CASE ~(i + j <= BufSize)  BY <2>3, BytesFacts
  <2> QED BY <2>2, <2>3
<1>5. cut \in Seq(Bytes)
  <2> HIDE DEF take, At
  <2> QED BY <1>3, <1>4
<1>6. rest \in [1..BufSize -> Bytes]  BY BytesFacts
<1> HIDE DEF cut, rest
<1>7. delivered' \in [Chans -> Seq(Bytes)]
  <2>1. delivered[c] \o cut \in Seq(Bytes)  BY <1>5 DEF Data, Streamed
  <2> QED BY <1>1, <2>1 DEF Data, Streamed
<1>8. rbuf' \in [Chans -> [1..BufSize -> Bytes]]  BY <1>2, <1>6 DEF Data, Buffers
<1> QED BY <1>7, <1>8, BytesKept DEF Data, Buffers, Streamed

(* A packet that is not the one awaited.                                   *)
LEMMA HandledTyped ==
  ASSUME Inv, UNCHANGED <<use, devSent, delivered>>, Data, Pending, ExecReverseCmd(Pk)
  PROVE  Data'
<1>1. Pk \in Sound  BY Arrived
<1>2. CASE rbuf' = rbuf
  BY <1>2, BytesKept DEF Data, Buffers, Streamed
<1>3. CASE /\ Pk.kind = "data"
           /\ rbuf' = [rbuf EXCEPT ![Pk.ch] = Filled(@, rcnt[Pk.ch], Pk)]
  <2>1. Pk.ch \in Chans /\ rcnt[Pk.ch] \in Nat  BY <1>1, SoundPacket, UseFacts DEF Inv, Core, Typed
  <2>2. rbuf[Pk.ch] \in [1..BufSize -> Bytes]  BY <2>1 DEF Data, Buffers
  <2>3. Filled(rbuf[Pk.ch], rcnt[Pk.ch], Pk) \in [1..BufSize -> Bytes]
    BY <1>1, <1>3, <2>1, <2>2, FilledTyped DEF Inv
  <2>4. rbuf' \in [Chans -> [1..BufSize -> Bytes]]  BY <1>3, <2>3 DEF Data, Buffers
  <2> QED BY <2>4, BytesKept DEF Data, Buffers, Streamed
<1> QED BY <1>2, <1>3 DEF ExecReverseCmd, buf

(* A channel opened starts with empty buffers.                             *)
LEMMA OpenedTyped ==
  ASSUME use \in Profiles, UNCHANGED <<use, devSent>>, Data, Opened
  PROVE  Data'
<1>1. rbuf' \in [Chans -> [1..BufSize -> Bytes]]  BY BytesFacts DEF Opened, Data, Buffers
<1>2. delivered' \in [Chans -> Seq(Bytes)]
  <2>1. << >> \in Seq(Bytes)  OBVIOUS
  <2> QED BY <2>1 DEF Opened, Data, Streamed
<1> QED BY <1>1, <1>2, BytesKept DEF Data, Buffers, Streamed

(* Steps that touch no bytes.                                              *)
LEMMA DataUntouched ==
  ASSUME UNCHANGED <<use, rbuf, devSent, delivered>>, Data
  PROVE  Data'
BY BytesKept DEF Data, Buffers, Streamed

(* The bytes the peripheral has sent.                                      *)
LEMMA DevTyped ==
  ASSUME use \in Profiles, UNCHANGED use, Data,
         \/ DevRefuse \/ DevAnswer \/ \E c \in Chans : DevCredit(c) \/ DevData(c)
  PROVE  Data'
<1>1. rbuf' = rbuf /\ delivered' = delivered
  BY DEF DevRefuse, DevAnswer, DevCredit, DevData, buf
<1>2. devSent' \in [Chans -> Bytes]
  <2>1. devSent \in [Chans -> Bytes] /\ 0 \in Bytes  BY BytesFacts DEF Data, Streamed
  <2>2. CASE devSent' = devSent  BY <2>1, <2>2
  <2>3. CASE DevAnswer
    <3>1. devSent' = devSent \/ devSent' = [devSent EXCEPT ![Head(toDev).ch] = 0]
      BY <2>3 DEF DevAnswer, dev
    <3> QED BY <2>1, <3>1
  <2>4. ASSUME NEW c \in Chans, DevData(c) PROVE devSent' \in [Chans -> Bytes]
    <3>1. PICK len \in use.packets : /\ devSent[c] + len <= use.bytes
                                     /\ devSent' = [devSent EXCEPT ![c] = @ + len]
      BY <2>4 DEF DevData
    <3>2. len \in Nat /\ use.bytes \in Nat /\ devSent[c] \in Nat  BY <2>1, UseFacts DEF Bytes
    <3>3. devSent[c] + len \in Bytes  BY <3>1, <3>2 DEF Bytes
    <3> QED BY <2>1, <3>1, <3>3
  <2>5. ASSUME NEW c \in Chans, DevCredit(c) PROVE devSent' \in [Chans -> Bytes]
    BY <2>1, <2>5 DEF DevCredit
  <2>6. CASE DevRefuse  BY <2>1, <2>6 DEF DevRefuse, dev
  <2> QED BY <2>3, <2>4, <2>5, <2>6
<1> QED BY <1>1, <1>2, BytesKept DEF Data, Buffers, Streamed

(* Bytes after a reply, or what came instead.                              *)
LEMMA ReplyTyped ==
  ASSUME Inv, UNCHANGED use, Data, ReplyStep
  PROVE  Data'
<1>1. CASE ReplyMeanwhile  BY <1>1, HandledTyped DEF ReplyMeanwhile, dev
<1>2. CASE OpenReply
  <2>1. UNCHANGED devSent  BY <1>2 DEF OpenReply, dev
  <2>2. CASE Opened  BY <2>1, <2>2, OpenedTyped DEF Inv
  <2>3. CASE UNCHANGED <<buf, delivered>>  BY <2>1, <2>3, DataUntouched DEF buf
  <2> QED BY <1>2, <2>2, <2>3 DEF OpenReply, buf
<1>3. CASE CreditReply
  <2>1. UNCHANGED devSent  BY <1>3 DEF CreditReply, dev
  <2>2. CASE Opened  BY <2>1, <2>2, OpenedTyped DEF Inv
  <2>3. CASE UNCHANGED <<buf, delivered>>  BY <2>1, <2>3, DataUntouched DEF buf
  <2> QED BY <1>3, <2>2, <2>3 DEF CreditReply, buf
<1>4. CASE ReplyBad  BY <1>4, DataUntouched DEF ReplyBad, GiveUp, buf, dev
<1>5. CASE ReplyTimeout  BY <1>5, DataUntouched DEF ReplyTimeout, GiveUp, buf, dev
<1>6. CASE InitReply  BY <1>6, DataUntouched DEF InitReply, buf, dev
<1>7. CASE GetSocketReply  BY <1>7, DataUntouched DEF GetSocketReply, buf, dev
<1>8. CASE CreditRequestReply  BY <1>8, DataUntouched DEF CreditRequestReply, buf, dev
<1>9. CASE CloseReply  BY <1>9, DataUntouched DEF CloseReply, buf, dev
<1> QED BY <1>1, <1>2, <1>3, <1>4, <1>5, <1>6, <1>7, <1>8, <1>9 DEF ReplyStep

(* Bytes after a step of the host.                                         *)
LEMMA HostTyped ==
  ASSUME Inv, HostStep, Data
  PROVE  Data'
<1>0. UNCHANGED use  BY DEF HostStep
<1>1. CASE ReplyStep  BY <1>0, <1>1, ReplyTyped
<1>2. CASE ForwardData  BY <1>0, <1>2, DataUntouched DEF ForwardData, buf, dev
<1>3. CASE CreditRequest  BY <1>0, <1>3, DataUntouched DEF CreditRequest, buf, dev
<1>4. CASE ReverseCmd  BY <1>0, <1>4, HandledTyped DEF ReverseCmd, dev
<1>5. CASE ReverseCmdFails  BY <1>0, <1>5, DataUntouched DEF ReverseCmdFails, buf, dev
<1>6. CASE ReadMeanwhile  BY <1>0, <1>6, HandledTyped DEF ReadMeanwhile, dev
<1>7. CASE ReadTimeout  BY <1>0, <1>7, DataUntouched DEF ReadTimeout, buf, dev
<1>8. CASE ReadData
  <2>1. UNCHANGED devSent /\ CutBuf(ch, Filled(EmptyBuf, 0, Pk), 0, Pk.len, n) /\ Pk.kind = "data" /\ Pending
    BY <1>8 DEF ReadData, Received, dev
  <2>2. use \in Profiles /\ ch \in Chans /\ n \in Nat  BY DEF Inv, Core, Typed
  <2>3. Pk \in Sound /\ Pk.len \in Nat  BY <2>1, <2>2, Arrived, SoundPacket
  <2>4. Filled(EmptyBuf, 0, Pk) \in [1..BufSize -> Bytes]
    BY <2>1, <2>2, <2>3, BytesFacts, FilledTyped
  <2> QED BY <1>0, <2>1, <2>2, <2>3, <2>4, CutTyped
<1>9. CASE ReadInvalid  BY <1>9, NoReadInvalid
<1> QED BY <1>1, <1>2, <1>3, <1>4, <1>5, <1>6, <1>7, <1>8, <1>9 DEF HostStep

(* Bytes after a call of a client.                                         *)
LEMMA ClientTyped ==
  ASSUME Inv, ClientStep, Data
  PROVE  Data'
<1>0. UNCHANGED use  BY DEF ClientStep
<1>1. ASSUME NEW c \in Chans, OpenChannel(c) PROVE Data'
  BY <1>0, <1>1, DataUntouched DEF OpenChannel, buf, dev
<1>2. ASSUME NEW c \in Chans, CloseChannel(c) PROVE Data'
  BY <1>0, <1>2, DataUntouched DEF CloseChannel, buf, dev
<1>3. ASSUME NEW c \in Chans, NEW k \in 1..use.writes, StartWrite(c, k) PROVE Data'
  BY <1>0, <1>3, DataUntouched DEF StartWrite, buf, dev
<1>4. ASSUME NEW c \in Chans, NEW len \in use.reads, StartRead(c, len) PROVE Data'
  BY <1>0, <1>4, DataUntouched DEF StartRead, buf, dev
<1>5. ASSUME NEW c \in Chans, NEW len \in use.reads, ReadBuffered(c, len) PROVE Data'
  <2>1. UNCHANGED devSent /\ CutBuf(c, rbuf[c], rindex[c], rcnt[c], len)
    BY <1>5 DEF ReadBuffered, dev
  <2>2. use \in Profiles /\ rindex[c] \in Nat /\ rcnt[c] \in Nat /\ len \in Nat
    <3>1. use \in Profiles  BY DEF Inv
    <3>2. use.reads \subseteq 1..BufSize /\ BufSize \in Nat  BY <3>1, UseFacts
    <3>3. rindex[c] \in 0..BufSize /\ rcnt[c] \in 0..BufSize  BY DEF Inv, Core, Typed
    <3> QED BY <3>1, <3>2, <3>3
  <2>3. rbuf[c] \in [1..BufSize -> Bytes]  BY DEF Data, Buffers
  <2> QED BY <1>0, <2>1, <2>2, <2>3, CutTyped
<1> QED BY <1>1, <1>2, <1>3, <1>4, <1>5 DEF ClientStep

(* The inductive invariant: what is known as long as the two keep step.    *)
IInv == /\ use \in Profiles /\ lost \in 0..use.lost
        /\ lost = 0 /\ Tame(use) => Core /\ Data

(* The initial states.                                                     *)
LEMMA InitEstablishes ==
  ASSUME Init
  PROVE  IInv
<1> USE DEF Init
<1>1. /\ use \in Profiles /\ use.lost \in Nat /\ use.bytes \in Nat /\ CreditMod \in Nat /\ CreditMod > 2
      /\ BufSize \in Nat /\ MaxTries \in Nat /\ use.credit \in Nat /\ use.packets \subseteq 1..BufSize
  BY ConstantsAssumption, UseFacts DEF Profile
<1>2. ASSUME Tame(use) PROVE Core
  <2>1. Zero \in [Chans -> Nat] /\ Zero \in [Chans -> CreditRange] /\ Zero \in [Chans -> 0..BufSize]
    BY <1>1 DEF Zero, CreditRange
  <2>2. Typed  BY <1>1, <2>1 DEF Typed, Procs, Steps, Commands
  <2>3. toHost \in Seq(Sound)  OBVIOUS
  <2>4. Control  BY DEF Control
  <2>5. Flags  BY DEF Flags
  <2>6. Exchange  BY DEF Exchange, Silent, Quiet, Commands
  <2>7. Call  BY DEF Call
  <2>8. ASSUME NEW c \in Chans PROVE Channel(c)
    <3>1. /\ devCredit[c] = 0 /\ devP2h[c] = 0 /\ h2pcredit[c] = 0 /\ p2hcredit[c] = 0
          /\ rindex[c] = 0 /\ rcnt[c] = 0
      BY DEF Zero
    <3>2. Absent(toHost, c)  BY DEF Absent
    <3>3. DataOf(toHost, c) = 0  BY <1>1, <2>3, <3>2, NoData
    <3>4. ~Settled(c) /\ Steady(c)  BY DEF Settled, Steady
    <3>5. Standing(c)  BY <3>1, <3>4 DEF Standing
    <3>6. Granting(c)  BY <1>1, <3>1, <3>4 DEF Granting
    <3>7. Reading(c)  BY <3>1, <3>3, <3>4 DEF Reading
    <3>8. Roomy(c)  BY <1>1, <3>1 DEF Roomy
    <3> QED BY <3>5, <3>6, <3>7, <3>8 DEF Channel
  <2> QED BY <2>2, <2>3, <2>4, <2>5, <2>6, <2>7, <2>8 DEF Core
<1>3. Data
  <2>1. EmptyBuf \in [1..BufSize -> Bytes] /\ Zero \in [Chans -> Bytes]  BY <1>1, BytesFacts
  <2>2. rbuf = [c \in Chans |-> EmptyBuf]  BY DEF EmptyBuf
  <2>3. Buffers  BY <2>1, <2>2 DEF Buffers
  <2>4. << >> \in Seq(Bytes)  OBVIOUS
  <2>5. Streamed  BY <2>1, <2>4 DEF Streamed
  <2> QED BY <2>3, <2>5 DEF Data
<1> QED BY <1>1, <1>2, <1>3 DEF IInv

(* Who keeps step does not give up waiting.                                *)
LEMMA NoTimeout ==
  ASSUME InStep
  PROVE  ~ReplyTimeout /\ ~DevError
BY DEF InStep, ReplyTimeout, DevError

(* Steps of a call that awaits a reply.                                    *)
LEMMA ReplyKeeps ==
  ASSUME Inv, UNCHANGED use, ReplyStep, InStep
  PROVE  Core'
<1>1. CASE ReplyMeanwhile  BY <1>1, ReplyMeanwhileKeeps
<1>2. CASE ReplyBad  BY <1>2, ReplyBadKeeps
<1>3. CASE InitReply  BY <1>3, InitReplyKeeps
<1>4. CASE GetSocketReply  BY <1>4, GetSocketReplyKeeps
<1>5. CASE OpenReply  BY <1>5, OpenReplyKeeps
<1>6. CASE CreditReply  BY <1>6, CreditReplyKeeps
<1>7. CASE CreditRequestReply  BY <1>7, CreditRequestReplyKeeps
<1>8. CASE CloseReply  BY <1>8, CloseReplyKeeps
<1> QED BY <1>1, <1>2, <1>3, <1>4, <1>5, <1>6, <1>7, <1>8, NoTimeout DEF ReplyStep

(* Steps of the host.                                                      *)
LEMMA HostKeeps ==
  ASSUME Inv, HostStep, InStep
  PROVE  Core'
<1>0. UNCHANGED use  BY DEF HostStep
<1>1. CASE ReplyStep  BY <1>0, <1>1, ReplyKeeps
<1>2. CASE ForwardData  BY <1>0, <1>2, ForwardDataKeeps
<1>3. CASE CreditRequest  BY <1>0, <1>3, CreditRequestKeeps
<1>4. CASE ReverseCmd  BY <1>0, <1>4, ReverseCmdKeeps
<1>5. CASE ReverseCmdFails  BY <1>0, <1>5, ReverseCmdFailsKeeps
<1>6. CASE ReadData  BY <1>0, <1>6, ReadDataKeeps
<1>7. CASE ReadMeanwhile  BY <1>0, <1>7, ReadMeanwhileKeeps
<1>8. CASE ReadInvalid  BY <1>8, NoReadInvalid
<1>9. CASE ReadTimeout  BY <1>0, <1>9, ReadTimeoutKeeps
<1> QED BY <1>1, <1>2, <1>3, <1>4, <1>5, <1>6, <1>7, <1>8, <1>9 DEF HostStep

(* Calls of clients.                                                       *)
LEMMA ClientKeeps ==
  ASSUME Inv, ClientStep
  PROVE  Core'
<1>0. UNCHANGED use  BY DEF ClientStep
<1>1. ASSUME NEW c \in Chans, OpenChannel(c) PROVE Core'  BY <1>0, <1>1, OpenChannelKeeps
<1>2. ASSUME NEW c \in Chans, CloseChannel(c) PROVE Core'  BY <1>0, <1>2, CloseChannelKeeps
<1>3. ASSUME NEW c \in Chans, NEW k \in 1..use.writes, StartWrite(c, k) PROVE Core'
  BY <1>0, <1>3, StartWriteKeeps
<1>4. ASSUME NEW c \in Chans, NEW len \in use.reads, ReadBuffered(c, len) PROVE Core'
  BY <1>0, <1>4, ReadBufferedKeeps
<1>5. ASSUME NEW c \in Chans, NEW len \in use.reads, StartRead(c, len) PROVE Core'
  BY <1>0, <1>5, StartReadKeeps
<1> QED BY <1>1, <1>2, <1>3, <1>4, <1>5 DEF ClientStep

(* Steps of the peripheral.                                                *)
LEMMA DevKeeps ==
  ASSUME Inv, DevStep, Data, InStep
  PROVE  Core'
<1>0. UNCHANGED use  BY DEF DevStep, DevAnswers
<1>1. CASE DevRefuse  BY <1>0, <1>1, DevRefuseKeeps
<1>2. CASE DevAnswer  BY <1>0, <1>2, DevAnswerKeeps
<1>3. ASSUME NEW c \in Chans, DevCredit(c) PROVE Core'  BY <1>0, <1>3, DevCreditKeeps
<1>4. ASSUME NEW c \in Chans, DevData(c) PROVE Core'
  <2>1. devSent[c] \in Bytes  BY DEF Data, Streamed
  <2> QED BY <1>0, <1>4, <2>1, DevDataKeeps
<1> QED BY <1>1, <1>2, <1>3, <1>4, NoTimeout DEF DevStep, DevAnswers

(* Once they lost step they never keep it again, and the bound holds.      *)
LEMMA LostKept ==
  ASSUME Next, lost \in 0..use.lost, use.lost \in Nat
  PROVE  lost' \in 0..use.lost /\ lost' >= lost
<1>1. CASE HostStep
  <2>1. CASE ReplyTimeout \/ ReplyBad  BY <2>1 DEF ReplyTimeout, ReplyBad
  <2>2. CASE ~(ReplyTimeout \/ ReplyBad)
    <3>1. lost' = lost
      BY <1>1, <2>2 DEF HostStep, ReplyStep, ReplyMeanwhile, InitReply, GetSocketReply, OpenReply,
         CreditReply, CreditRequestReply, CloseReply, ForwardData, CreditRequest, ReverseCmd,
         ReverseCmdFails, ReadData, ReadMeanwhile, ReadInvalid, ReadTimeout
    <3> QED BY <3>1
  <2> QED BY <2>1, <2>2
<1>2. CASE ClientStep
  <2>1. lost' = lost
    BY <1>2 DEF ClientStep, OpenChannel, CloseChannel, StartWrite, ReadBuffered, StartRead
  <2> QED BY <2>1
<1>3. CASE DevStep
  <2>1. CASE DevError  BY <2>1 DEF DevError
  <2>2. CASE ~DevError
    <3>1. lost' = lost
      BY <1>3, <2>2 DEF DevStep, DevAnswers, DevRefuse, DevAnswer, DevCredit, DevData
    <3> QED BY <3>1
  <2> QED BY <2>1, <2>2
<1> QED BY <1>1, <1>2, <1>3 DEF Next

(* Every step keeps the invariant.                                         *)
LEMMA StepKeeps ==
  ASSUME IInv, [Next]_vars
  PROVE  IInv'
<1>1. CASE UNCHANGED vars
  <2>1. UNCHANGED <<use, lost>>  BY <1>1 DEF vars
  <2>2. Core => Core'
    <3>1. Sound' = Sound  BY <2>1, SoundKept
    <3>2. Typed => Typed'  BY <1>1 DEF vars, call, ta, buf, dev, Typed
    <3>3. toHost \in Seq(Sound) => (toHost \in Seq(Sound))'  BY <1>1, <3>1 DEF vars
    <3>4. Control => Control'  BY <1>1 DEF vars, call, Control
    <3>5. Flags => Flags'  BY <1>1 DEF vars, call, dev, Flags
    <3>6. Exchange => Exchange'
      BY <1>1 DEF vars, call, ta, dev, Exchange, Silent, Asking, Refused, Granted, Before, After, Cmd,
         Rep, Asked, Fresh
    <3>7. Call => Call'  BY <1>1 DEF vars, call, ta, buf, dev, Call, Fresh
    <3>8. ASSUME NEW c \in Chans, Channel(c) PROVE Channel(c)'
      BY <1>1, <3>8 DEF vars, call, ta, buf, dev, Channel, Standing, Granting, Reading, Roomy,
         Settled, Steady, Fresh
    <3> QED BY <3>2, <3>3, <3>4, <3>5, <3>6, <3>7, <3>8 DEF Core
  <2>3. Data => Data'  BY <1>1, DataUntouched DEF vars, buf, dev
  <2> QED BY <2>1, <2>2, <2>3 DEF IInv
<1>2. CASE Next
  <2>1. use' = use  BY <1>2 DEF Next, HostStep, ClientStep, DevStep, DevAnswers
  <2>2. lost \in 0..use.lost /\ use.lost \in Nat  BY ConstantsAssumption DEF IInv, Profile
  <2>3. lost' \in 0..use.lost /\ lost' >= lost  BY <1>2, <2>2, LostKept
  <2>4. ASSUME lost' = 0, Tame(use) PROVE Core' /\ Data'
    <3>0. InStep  BY <2>2, <2>3, <2>4 DEF InStep
    <3>1. Inv /\ Data  BY <2>4, <3>0 DEF IInv, Inv, InStep
    <3>2. CASE HostStep  BY <3>0, <3>1, <3>2, HostKeeps, HostTyped
    <3>3. CASE ClientStep  BY <3>1, <3>3, ClientKeeps, ClientTyped
    <3>4. CASE DevStep
      <4>1. /\ UNCHANGED use
            /\ DevRefuse \/ DevAnswer \/ \E c \in Chans : DevCredit(c) \/ DevData(c)
        BY <3>0, <3>4, NoTimeout DEF DevStep, DevAnswers
      <4> QED BY <3>0, <3>1, <3>4, <4>1, DevKeeps, DevTyped DEF Inv
    <3> QED BY <1>2, <3>2, <3>3, <3>4 DEF Next
  <2>5. Tame(use)' = Tame(use)  BY <2>1 DEF Tame
  <2> QED BY <2>1, <2>2, <2>3, <2>4, <2>5 DEF IInv
<1> QED BY <1>1, <1>2

(* The invariant holds always.                                             *)
LEMMA Invariant == Spec => []IInv
<1>1. Init => IInv  BY InitEstablishes
<1>2. IInv /\ [Next]_vars => IInv'  BY StepKeeps
<1> QED BY <1>1, <1>2, PTL DEF Spec

-----------------------------------------------------------------------------
(* The credit the host counts and the credit on its way are what the       *)
(* peripheral granted and the host has not used, on every channel a client *)
(* holds: of the four ways credit arrives (Dot4OpenChannel,                *)
(* Dot4ExecReverseCmd, Dot4CreditRequest, the packets dot4_channel_read    *)
(* takes) none loses a grant or counts it twice.                           *)
THEOREM CreditKept == Spec => [](Tame(use) => CreditExact)
<1>1. IInv => (Tame(use) => CreditExact)
  <2> SUFFICES ASSUME IInv, Tame(use), NEW c \in Live
               PROVE  h2pcredit[c] + CreditOnTheWay(c) = devCredit[c]
    BY DEF CreditExact
  <2>1. lost = 0 /\ Settled(c)  BY DEF Live, Settled
  <2>2. c \in Chans /\ Channel(c)  BY <2>1 DEF IInv, Core, Typed, Settled
  <2>3. CreditOnTheWay(c) = CreditOf(toHost, c)  BY DEF CreditOnTheWay, CreditOf, SumOf
  <2> QED BY <2>1, <2>2, <2>3 DEF Channel, Granting
<1> QED BY <1>1, Invariant, PTL

(* dot4_channel_read waits for data only while the peripheral may send a   *)
(* packet of its channel, or has sent one.                                 *)
THEOREM ReadsHaveCredit == Spec => [](Tame(use) => ReadHasCredit)
<1>1. IInv => (Tame(use) => ReadHasCredit)
  <2> SUFFICES ASSUME IInv, Tame(use), step = "data", lost = 0
               PROVE  devP2h[ch] > 0 \/ \E i \in 1..Len(toHost) : IsData(toHost[i], ch)
    BY DEF ReadHasCredit
  <2>1. Core /\ use \in Profiles  BY DEF IInv
  <2>2. ch \in Chans /\ p2hcredit[ch] > 0 /\ Settled(ch) /\ Steady(ch)
    BY <2>1 DEF Core, Typed, Call, Control, Settled, Steady
  <2>3. DataOf(toHost, ch) + devP2h[ch] = p2hcredit[ch]
    BY <2>1, <2>2 DEF Core, Channel, Reading
  <2>4. DataOf(toHost, ch) = 0 <=> \A i \in 1..Len(toHost) : ~IsData(toHost[i], ch)
    BY <2>1, NoData DEF Core
  <2>5. devP2h[ch] \in Nat /\ p2hcredit[ch] \in Nat  BY <2>1, <2>2 DEF Core, Typed
  <2>6. CASE DataOf(toHost, ch) = 0  BY <2>2, <2>3, <2>5, <2>6
  <2>7. CASE DataOf(toHost, ch) # 0  BY <2>4, <2>7
  <2> QED BY <2>6, <2>7
<1> QED BY <1>1, Invariant, PTL

(* A channel a client holds is open at the peripheral, and the transport   *)
(* is up at both ends, whatever was refused before: dot4_channel_close     *)
(* sends Exit after the last channel only.                                 *)
THEOREM HeldAtDevice == Spec => [](Tame(use) => OpenAtDevice)
<1>1. IInv => (Tame(use) => OpenAtDevice)
  <2> SUFFICES ASSUME IInv, Tame(use), NEW c \in Live
               PROVE  up /\ devUp /\ c \in devOpen
    BY DEF OpenAtDevice
  <2>1. lost = 0 /\ Settled(c)  BY DEF Live, Settled
  <2>2. Core  BY <2>1 DEF IInv
  <2>3. c \in Chans /\ c \in open  BY <2>1, <2>2 DEF Core, Typed, Settled
  <2>4. c \in devOpen  BY <2>1, <2>2, <2>3 DEF Core, Channel, Standing
  <2>5. step \notin {"init", "exit"}  BY <2>1, <2>2, <2>3 DEF Core, Control, Settled, Typed, Procs
  <2> QED BY <2>2, <2>3, <2>4, <2>5 DEF Core, Flags
<1> QED BY <1>1, Invariant, PTL

-----------------------------------------------------------------------------
(* Packets a peripheral sends, read or left behind, in step or not.        *)
Sent == {p \in Packet : p.kind = "data" => p.from + p.len <= use.bytes}

(* A peripheral that is no phoenix is credited one packet of a channel at  *)
(* a time, and only while the buffer of the channel is empty.              *)
OneByOne(c) ==
    /\ p2hcredit[c] > 0 => rcnt[c] = 0
    /\ rcnt[c] = 0 => rindex[c] = 0
    /\ rindex[c] + rcnt[c] <= BufSize
Ample ==
    /\ h2pcredit \in [Chans -> CreditRange] /\ p2hcredit \in [Chans -> 0..1]
    /\ rindex \in [Chans -> 0..BufSize] /\ rcnt \in [Chans -> 0..BufSize]
    /\ \A c \in Chans : OneByOne(c)
Turn ==
    /\ step = "data" => p2hcredit[ch] = 1
    /\ step = "credit" => proc = "read" /\ p2hcredit[ch] = 0 /\ rcnt[ch] = 0
Calls ==
    /\ proc \in Procs /\ ch \in Chans /\ step \in Steps \ {"creditreq"}
    /\ n \in Nat /\ cnt \in 0..MaxTries + 1
    /\ open \subseteq Chans /\ used \subseteq Chans /\ up \in BOOLEAN
Device ==
    /\ devUp \in BOOLEAN /\ devOpen \subseteq Chans
    /\ devCredit \in [Chans -> Int] /\ devP2h \in [Chans -> Nat]
(* A peripheral that is no phoenix is never asked for credit.              *)
Ordered == {m \in Command : m.cmd # "creditreq"}
Lines ==
    /\ toDev \in Seq(Ordered)
    /\ toHost \in Seq(Sent)
Single == /\ use \in Profiles /\ ~use.phoenix
          /\ Ample /\ Data /\ Turn /\ Calls /\ Device /\ Lines

(* What such a packet holds.                                               *)
LEMMA SentPacket ==
  ASSUME use \in Profiles, NEW p \in Sent
  PROVE  /\ p.kind \in {"reply", "credit", "data", "error", "junk"}
         /\ p.kind # "junk" => p.ch \in Chans /\ p.credit \in Nat
         /\ p.kind = "reply" => p.credit \in CreditRange
         /\ p.kind = "data" => /\ p.len \in 1..BufSize /\ p.from \in Nat
                              /\ p.from + p.len <= use.bytes
<1>1. /\ use.credit \in Nat /\ use.bytes \in Nat /\ use.packets \subseteq 1..BufSize
      /\ CreditMod \in Nat /\ CreditMod > use.credit
  BY UseFacts
<1>2. p \in Packet /\ (p.kind = "data" => p.from + p.len <= use.bytes)
  BY DEF Sent
<1>3. CASE p \in [kind : {"reply"}, cmd : Commands, ch : Chans, ok : BOOLEAN, credit : 0..use.credit]
  <2>1. p.credit \in 0..use.credit /\ p.kind = "reply" /\ p.ch \in Chans  BY <1>3
  <2> QED BY <1>1, <2>1 DEF CreditRange
<1>4. CASE p \in [kind : {"credit"}, ch : Chans, credit : {1}]
  BY <1>1, <1>2, <1>4
<1>5. CASE p \in [kind : {"data"}, ch : Chans, len : use.packets, from : Bytes, hi : BOOLEAN,
          credit : 0..1]
  <2>1. p.credit \in 0..1  BY <1>5
  <2>2. p.kind = "data" /\ p.ch \in Chans /\ p.len \in use.packets /\ p.from \in 0..use.bytes
    BY <1>5 DEF Bytes
  <2> QED BY <1>1, <1>2, <2>1, <2>2
<1>6. CASE p \in [kind : {"error"}, ch : Chans, credit : {0}]  BY <1>6
<1>7. CASE p \in [kind : {"junk"}]  BY <1>7
<1> QED BY <1>2, <1>3, <1>4, <1>5, <1>6, <1>7 DEF Packet

(* Its bytes are bytes the peripheral sends.                               *)
LEMMA FilledBytes ==
  ASSUME use \in Profiles, NEW p, p.len \in Nat, p.from \in Nat, p.from + p.len <= use.bytes,
         NEW at \in Nat, NEW b \in [1..BufSize -> Bytes]
  PROVE  Filled(b, at, p) \in [1..BufSize -> Bytes]
<1>1. use.bytes \in Nat /\ BufSize \in Nat  BY UseFacts
<1>3. ASSUME NEW i \in 1..BufSize, i \in at + 1 .. at + p.len
      PROVE  p.from + i - at \in Bytes
  BY <1>1, <1>3 DEF Bytes
<1>4. ASSUME NEW i \in 1..BufSize
      PROVE  (IF i \in at + 1 .. at + p.len THEN p.from + i - at ELSE b[i]) \in Bytes
  BY <1>3
<1> QED BY <1>4 DEF Filled

(* Credit counted stays within the width of the counter.                   *)
LEMMA PiggybackCounts ==
  ASSUME use \in Profiles, h2pcredit \in [Chans -> CreditRange], NEW p, p.credit \in Nat
  PROVE  Piggyback(p) \in [Chans -> CreditRange]
<1>1. CreditMod \in Nat /\ CreditMod > 2  BY UseFacts
<1>2. ASSUME NEW k \in CreditRange PROVE (k + p.credit) % CreditMod \in CreditRange
  <2>1. k + p.credit \in Nat  BY <1>1 DEF CreditRange
  <2> QED BY <1>1, <2>1 DEF CreditRange
<1> QED BY <1>2 DEF Piggyback

(* The packet at the head, and the rest.                                   *)
LEMMA SentArrives ==
  ASSUME Single, Pending
  PROVE  Pk \in Sent /\ Tail(toHost) \in Seq(Sent)
BY DEF Single, Lines, Pending, Pk

(* Dot4ExecReverseCmd fills an empty buffer, and the packet was the one    *)
(* credited.                                                               *)
LEMMA HandledAmple ==
  ASSUME Single, UNCHANGED <<use, devSent, delivered>>, Pending, ExecReverseCmd(Pk)
  PROVE  /\ Ample' /\ Data'
         /\ ~IsData(Pk, ch) \/ p2hcredit[ch] = 0
               => p2hcredit'[ch] = p2hcredit[ch] /\ rcnt'[ch] = rcnt[ch]
<1>1. Pk \in Sent /\ use \in Profiles /\ Ample /\ Data /\ ch \in Chans
  BY SentArrives DEF Single, Calls
<1>2. /\ Pk.kind \in {"reply", "credit", "data", "error", "junk"}
      /\ Pk.kind # "junk" => Pk.ch \in Chans /\ Pk.credit \in Nat
      /\ Pk.kind = "data" => /\ Pk.len \in 1..BufSize /\ Pk.from \in Nat
                            /\ Pk.from + Pk.len <= use.bytes
  BY <1>1, SentPacket
<1>3. BufSize \in Nat \ {0}  BY <1>1, UseFacts
<1>4. CASE Pk.kind = "credit" /\ h2pcredit' = Piggyback(Pk) /\ UNCHANGED <<p2hcredit, buf>>
  <2>1. h2pcredit' \in [Chans -> CreditRange]  BY <1>1, <1>2, <1>4, PiggybackCounts DEF Ample
  <2>2. Ample'  BY <1>1, <1>4, <2>1 DEF Ample, OneByOne, buf
  <2>3. Data'  BY <1>1, <1>4, DataUntouched DEF buf
  <2> QED BY <1>4, <2>2, <2>3 DEF buf
<1>5. CASE UNCHANGED <<ta, buf>>
  <2>1. Ample'  BY <1>1, <1>5 DEF Ample, OneByOne, buf, ta
  <2>2. Data'  BY <1>1, <1>5, DataUntouched DEF buf
  <2> QED BY <1>5, <2>1, <2>2 DEF buf, ta
<1>6. CASE /\ Pk.kind = "data" /\ Room(Pk)
           /\ rbuf' = [rbuf EXCEPT ![Pk.ch] = Filled(@, rcnt[Pk.ch], Pk)]
           /\ rcnt' = [rcnt EXCEPT ![Pk.ch] = @ + Pk.len]
           /\ h2pcredit' = Piggyback(Pk)
           /\ p2hcredit' = [p2hcredit EXCEPT ![Pk.ch] = @ - 1]
           /\ UNCHANGED rindex
  <2>1. h2pcredit' \in [Chans -> CreditRange]  BY <1>1, <1>2, <1>6, PiggybackCounts DEF Ample
  <2>2. /\ p2hcredit[Pk.ch] = 1 /\ rcnt[Pk.ch] = 0 /\ rindex[Pk.ch] = 0
        /\ Pk.ch \in Chans /\ Pk.len \in 1..BufSize
    BY <1>1, <1>2, <1>6 DEF Ample, OneByOne, Room
  <2>3. /\ p2hcredit'[Pk.ch] = 0 /\ rcnt'[Pk.ch] = Pk.len /\ rindex'[Pk.ch] = 0
        /\ \A c \in Chans \ {Pk.ch} : p2hcredit'[c] = p2hcredit[c] /\ rcnt'[c] = rcnt[c]
        /\ p2hcredit' \in [Chans -> 0..1] /\ rcnt' \in [Chans -> 0..BufSize]
    BY <1>1, <1>3, <1>6, <2>2 DEF Ample
  <2>4. ASSUME NEW c \in Chans PROVE OneByOne(c)'
    BY <1>1, <1>3, <1>6, <2>2, <2>3 DEF Ample, OneByOne
  <2>5. Ample'  BY <1>1, <1>6, <2>1, <2>3, <2>4 DEF Ample
  <2>6. Data'
    <3>1. rbuf[Pk.ch] \in [1..BufSize -> Bytes]  BY <1>1, <2>2 DEF Data, Buffers
    <3>2. Pk.len \in Nat /\ 0 \in Nat  BY <1>3, <2>2
    <3>4. Filled(rbuf[Pk.ch], 0, Pk) \in [1..BufSize -> Bytes]
      BY <1>1, <1>2, <1>6, <3>1, <3>2, FilledBytes
    <3>3. rbuf' \in [Chans -> [1..BufSize -> Bytes]]  BY <1>1, <1>6, <2>2, <3>4 DEF Data, Buffers
    <3> QED BY <1>1, <3>3, BytesKept DEF Data, Buffers, Streamed
  <2>7. ~IsData(Pk, ch) \/ p2hcredit[ch] = 0 => Pk.ch # ch
    BY <1>6, <2>2 DEF IsData
  <2> QED BY <1>1, <2>3, <2>5, <2>6, <2>7
<1> QED BY <1>4, <1>5, <1>6 DEF ExecReverseCmd

(* cut_buf leaves less than it found, where it was.                        *)
LEMMA CutAmple ==
  ASSUME Single, NEW c \in Chans, NEW b, NEW i \in Nat, NEW k \in Nat, NEW len \in Nat,
         i + k <= BufSize, CutBuf(c, b, i, k, len),
         UNCHANGED h2pcredit \/ h2pcredit' \in [Chans -> CreditRange],
         p2hcredit' = [p2hcredit EXCEPT ![c] = 0]
  PROVE  Ample'
<1>1. BufSize \in Nat \ {0} /\ Ample  BY UseFacts DEF Single
<1>2. /\ rindex' = [rindex EXCEPT ![c] = IF k > len THEN i + len ELSE 0]
      /\ rcnt' = [rcnt EXCEPT ![c] = k - (IF k > len THEN len ELSE k)]
  BY Zenon DEF CutBuf
<1> DEFINE at == IF k > len THEN i + len ELSE 0
           left == k - (IF k > len THEN len ELSE k)
<1>3. at \in 0..BufSize /\ left \in 0..BufSize /\ at + left <= BufSize /\ (left = 0 => at = 0)
  BY <1>1
<1> HIDE DEF at, left
<1>4. rindex' = [rindex EXCEPT ![c] = at] /\ rcnt' = [rcnt EXCEPT ![c] = left]
  BY <1>2 DEF at, left
<1>5. /\ rindex' \in [Chans -> 0..BufSize] /\ rcnt' \in [Chans -> 0..BufSize]
      /\ p2hcredit' \in [Chans -> 0..1] /\ h2pcredit' \in [Chans -> CreditRange]
  BY <1>1, <1>3, <1>4 DEF Ample
<1>6. ASSUME NEW d \in Chans PROVE OneByOne(d)'
  BY <1>1, <1>3, <1>4, <1>6 DEF Ample, OneByOne
<1> QED BY <1>5, <1>6 DEF Ample

(* Steps that touch no buffer and no credit.                               *)
LEMMA AmpleUntouched ==
  ASSUME Single, UNCHANGED <<use, ta, buf, devSent, delivered>>
  PROVE  Ample' /\ Data' /\ (UNCHANGED call => Turn')
<1>1. Ample'  BY DEF Single, Ample, OneByOne, ta, buf
<1>2. Data'  BY DataUntouched DEF Single, buf
<1>3. UNCHANGED call => Turn'  BY DEF Single, Turn, call, ta, buf
<1> QED BY <1>1, <1>2, <1>3

(* The control of a call that ends or, when it closes, goes on.            *)
LEMMA CloseCalls ==
  ASSUME Calls, MaxTries \in Nat, UNCHANGED <<ch, used>>,
         \/ CloseGoesOn
         \/ Return /\ (open' = open \/ open' = open \ {ch}) /\ UNCHANGED up
  PROVE  Calls' /\ step' \in {"exit", "none"}
<1>1. \/ step' = "exit" /\ UNCHANGED <<proc, n, cnt, open, up>>
      \/ /\ proc' = "idle" /\ step' = "none" /\ n' = 0 /\ cnt' = 0
         /\ open' \in SUBSET open /\ up' \in BOOLEAN
  BY DEF CloseGoesOn, Send, Return, Calls
<1> QED BY <1>1 DEF Calls, Procs, Steps, Commands

(* The control of a call that gives up.                                    *)
LEMMA GiveUpCalls ==
  ASSUME Single, GiveUp
  PROVE  Calls' /\ step' \in {"exit", "none"}
<1>1. Calls /\ MaxTries \in Nat  BY UseFacts DEF Single
<1>2. /\ UNCHANGED <<ch, used>>
      /\ CloseGoesOn \/ (Return /\ (open' = open \/ open' = open \ {ch}) /\ UNCHANGED up)
  BY DEF GiveUp
<1> QED BY <1>1, <1>2, CloseCalls

(* The control of a call that awaits a reply.                              *)
LEMMA ReplyCalls ==
  ASSUME Single, ReplyStep
  PROVE  Calls'
<1>1. Calls /\ MaxTries \in Nat  BY UseFacts DEF Single
<1>2. CASE ReplyMeanwhile  BY <1>1, <1>2 DEF ReplyMeanwhile, Calls, call
<1>3. CASE ReplyBad \/ ReplyTimeout
  <2>1. CASE GiveUp  BY <2>1, GiveUpCalls
  <2>2. CASE /\ InitAgain /\ cnt' = cnt + 1 /\ (Send("init", ch, 0) \/ UNCHANGED step)
             /\ UNCHANGED <<proc, ch, n, open, up, used>>
    <3>1. cnt' \in 0..MaxTries + 1 /\ step' \in {"init", step}  BY <1>1, <2>2 DEF InitAgain, Send, Calls
    <3> QED BY <1>1, <2>2, <3>1 DEF Calls, Steps, Commands
  <2> QED BY <1>3, <2>1, <2>2 DEF ReplyBad, ReplyTimeout
<1>5. CASE InitReply  BY <1>1, <1>5 DEF InitReply, Send, Calls, Steps, Commands
<1>6. CASE GetSocketReply  BY <1>1, <1>6 DEF GetSocketReply, Send, Calls, Steps, Commands
<1>7. CASE OpenReply
  BY <1>1, <1>7 DEF OpenReply, Opened, Return, Single, Calls, Procs, Steps, Commands
<1>8. CASE CreditReply
  BY <1>1, <1>8 DEF CreditReply, Opened, Return, Single, Calls, Procs, Steps, Commands
<1>9. CASE CreditRequestReply  BY <1>1, <1>9 DEF CreditRequestReply, Calls
<1>10. CASE CloseReply  BY <1>1, <1>10, CloseCalls DEF CloseReply
<1> QED BY <1>2, <1>3, <1>5, <1>6, <1>7, <1>8, <1>9, <1>10 DEF ReplyStep

(* The control of every call.                                              *)
LEMMA CallsKept ==
  ASSUME Single, Next
  PROVE  Calls'
<1>1. Calls /\ MaxTries \in Nat /\ use.reads \subseteq 1..BufSize /\ BufSize \in Nat /\ use.writes \in Nat
  BY UseFacts DEF Single
<1>2. CASE HostStep
  <2>1. CASE ReplyStep  BY <2>1, ReplyCalls
  <2>2. CASE ForwardData  BY <1>1, <2>2 DEF ForwardData, Return, Calls, Procs, Steps
  <2>3. CASE CreditRequest  BY <2>3 DEF CreditRequest, Single
  <2>4. CASE ReverseCmd  BY <1>1, <2>4 DEF ReverseCmd, Calls, call
  <2>5. CASE ReverseCmdFails  BY <1>1, <2>5 DEF ReverseCmdFails, Return, Calls, Procs, Steps
  <2>6. CASE ReadData  BY <1>1, <2>6 DEF ReadData, Received, Return, Calls, Procs, Steps
  <2>7. CASE ReadMeanwhile  BY <1>1, <2>7 DEF ReadMeanwhile, Calls, call
  <2>8. CASE ReadInvalid  BY <1>1, <2>8 DEF ReadInvalid, Received, Return, Calls, Procs, Steps
  <2>9. CASE ReadTimeout  BY <1>1, <2>9 DEF ReadTimeout, Return, Calls, Procs, Steps
  <2> QED BY <1>2, <2>1, <2>2, <2>3, <2>4, <2>5, <2>6, <2>7, <2>8, <2>9 DEF HostStep
<1>3. CASE ClientStep
  <2>1. ASSUME NEW c \in Chans, OpenChannel(c) PROVE Calls'
    BY <1>1, <2>1 DEF OpenChannel, Send, Calls, Procs, Steps, Commands
  <2>2. ASSUME NEW c \in Chans, CloseChannel(c) PROVE Calls'
    BY <1>1, <2>2 DEF CloseChannel, Send, Calls, Procs, Steps, Commands
  <2>3. ASSUME NEW c \in Chans, NEW k \in 1..use.writes, StartWrite(c, k) PROVE Calls'
    BY <1>1, <2>3 DEF StartWrite, Calls, Procs, Steps, Commands
  <2>4. ASSUME NEW c \in Chans, NEW len \in use.reads, ReadBuffered(c, len) PROVE Calls'
    BY <1>1, <2>4 DEF ReadBuffered, Calls, call
  <2>5. ASSUME NEW c \in Chans, NEW len \in use.reads, StartRead(c, len) PROVE Calls'
    <3>1. len \in Nat  BY <1>1
    <3>2. /\ proc' = "read" /\ ch' = c /\ n' = len /\ cnt' = 0 /\ UNCHANGED <<open, up, used>>
          /\ step' \in {"credit", "data"}
      BY <2>5 DEF StartRead, Send
    <3> QED BY <1>1, <3>1, <3>2 DEF Calls, Procs, Steps, Commands
  <2> QED BY <1>3, <2>1, <2>2, <2>3, <2>4, <2>5 DEF ClientStep
<1>4. CASE DevStep
  BY <1>1, <1>4 DEF DevStep, DevAnswers, DevRefuse, DevAnswer, DevCredit, DevData, DevError, Calls, call
<1> QED BY <1>2, <1>3, <1>4, Zenon DEF Next

(* What the peripheral counts.                                             *)
LEMMA DeviceKept ==
  ASSUME Single, Next
  PROVE  Device'
<1>1. Device /\ ch \in Chans /\ CreditMod \in Nat /\ CreditMod > 2 /\ use.credit \in Nat
  BY UseFacts DEF Single, Calls
<1>2. CASE HostStep
  <2>1. CASE ForwardData  BY <1>1, <2>1 DEF ForwardData, Device
  <2>2. CASE ~ForwardData
    <3>1. UNCHANGED dev
      BY <1>2, <2>2 DEF HostStep, ReplyStep, ReplyMeanwhile, ReplyBad, ReplyTimeout, GiveUp, InitReply,
         GetSocketReply, OpenReply, CreditReply, CreditRequestReply, CloseReply, CreditRequest,
         ReverseCmd, ReverseCmdFails, ReadData, ReadMeanwhile, ReadInvalid, ReadTimeout
    <3> QED BY <1>1, <3>1 DEF Device, dev
  <2> QED BY <2>1, <2>2
<1>3. CASE ClientStep
  <2>1. UNCHANGED dev
    BY <1>3 DEF ClientStep, OpenChannel, CloseChannel, StartWrite, ReadBuffered, StartRead
  <2> QED BY <1>1, <2>1 DEF Device, dev
<1>4. CASE DevRefuse  BY <1>1, <1>4 DEF DevRefuse, Device, dev
<1>5. CASE DevAnswer
  <2>1. toDev # <<>>  BY <1>5 DEF DevAnswer
  <2>2. Head(toDev) \in Command  BY <2>1 DEF Single, Lines, Ordered
  <2> DEFINE c == Head(toDev).ch
  <2>3. c \in Chans /\ Head(toDev).credit \in Nat /\ Head(toDev).cmd # "creditreq"
    <3>1. Head(toDev) \in Ordered  BY <2>1 DEF Single, Lines
    <3> QED BY <2>2, <3>1 DEF Command, Ordered
  <2>4. Zero \in [Chans -> Int] /\ Zero \in [Chans -> Nat]  BY DEF Zero
  <2>5. CASE devCredit' = Zero /\ devP2h' = Zero /\ devOpen' = {} /\ devUp' \in BOOLEAN
    BY <2>4, <2>5 DEF Device
  <2>6. CASE UNCHANGED dev  BY <1>1, <2>6 DEF Device, dev
  <2>7. CASE /\ devOpen' = devOpen \cup {c} /\ devP2h' = [devP2h EXCEPT ![c] = 0]
             /\ (\E k \in 0..use.credit : devCredit' = [devCredit EXCEPT ![c] = k]) /\ UNCHANGED devUp
    BY <1>1, <2>3, <2>7 DEF Device
  <2>8. CASE /\ devOpen' = devOpen \ {c} /\ devP2h' = [devP2h EXCEPT ![c] = 0]
             /\ devCredit' = [devCredit EXCEPT ![c] = 0] /\ UNCHANGED devUp
    BY <1>1, <2>3, <2>8 DEF Device
  <2>9. CASE /\ devP2h' = [devP2h EXCEPT ![c] = (@ + Head(toDev).credit) % CreditMod]
             /\ UNCHANGED <<devUp, devOpen, devCredit>>
    <3>1. devP2h[c] \in Nat /\ devP2h[c] + Head(toDev).credit \in Nat  BY <1>1, <2>3 DEF Device
    <3>2. (devP2h[c] + Head(toDev).credit) % CreditMod \in Nat  BY <1>1, <3>1
    <3> QED BY <1>1, <2>3, <2>9, <3>2 DEF Device
  <2> HIDE DEF c
  <2> QED BY <1>5, <2>3, <2>5, <2>6, <2>7, <2>8, <2>9 DEF DevAnswer, dev, c
<1>6. ASSUME NEW c \in Chans, DevCredit(c) PROVE Device'  BY <1>1, <1>6 DEF DevCredit, Device
<1>7. ASSUME NEW c \in Chans, DevData(c) PROVE Device'
  <2>1. PICK k \in 0..1 : devCredit' = [devCredit EXCEPT ![c] = @ + k]  BY <1>7 DEF DevData
  <2>2. /\ devP2h[c] > 0 /\ devP2h' = [devP2h EXCEPT ![c] = @ - 1]
        /\ UNCHANGED <<devUp, devOpen>>
    BY <1>7 DEF DevData
  <2>3. devP2h[c] - 1 \in Nat /\ devCredit[c] + k \in Int  BY <1>1, <2>2 DEF Device
  <2> QED BY <1>1, <2>1, <2>2, <2>3 DEF Device
<1>8. CASE DevError
  <2>1. Zero \in [Chans -> Int] /\ Zero \in [Chans -> Nat]  BY DEF Zero
  <2> QED BY <1>8, <2>1 DEF DevError, Device
<1> QED BY <1>2, <1>3, <1>4, <1>5, <1>6, <1>7, <1>8 DEF Next, DevStep, DevAnswers

(* A command the host sends joins the others.                              *)
LEMMA OrderSent ==
  ASSUME Lines, NEW cmd \in Commands \ {"creditreq"}, NEW c \in Chans, NEW k \in 0..2,
         Send(cmd, c, k)
  PROVE  toDev' \in Seq(Ordered)
<1>1. [cmd |-> cmd, ch |-> c, credit |-> k] \in Ordered  BY DEF Ordered, Command
<1> QED BY <1>1 DEF Lines, Send

(* What the host sends.                                                    *)
LEMMA HostOrders ==
  ASSUME Single, HostStep
  PROVE  toDev' \in Seq(Ordered)
<1>1. Lines /\ ch \in Chans /\ toDev \in Seq(Ordered)  BY DEF Single, Lines, Calls
<1>2. CASE toDev' = toDev  BY <1>1, <1>2
<1>3. CASE \E cmd \in {"init", "getsocket", "open", "exit"} : Send(cmd, ch, 0)
  BY <1>1, <1>3, OrderSent DEF Commands
<1>4. CASE CreditRequest  BY <1>4 DEF CreditRequest, Single
<1>5. CASE OpenReply  BY <1>2, <1>5 DEF OpenReply, Single
<1>6. CASE ReplyBad \/ ReplyTimeout \/ CloseReply
  BY <1>2, <1>3, <1>6 DEF ReplyBad, ReplyTimeout, CloseReply, GiveUp, CloseGoesOn
<1>7. CASE InitReply \/ GetSocketReply  BY <1>3, <1>7 DEF InitReply, GetSocketReply
<1>8. CASE ReplyMeanwhile \/ CreditReply \/ CreditRequestReply
  BY <1>2, <1>8 DEF ReplyMeanwhile, CreditReply, CreditRequestReply
<1>9. CASE ForwardData \/ ReverseCmd \/ ReverseCmdFails \/ ReadData \/ ReadMeanwhile \/ ReadInvalid \/ ReadTimeout
  BY <1>2, <1>9 DEF ForwardData, ReverseCmd, ReverseCmdFails, ReadData, ReadMeanwhile, ReadInvalid, ReadTimeout
<1> QED BY <1>4, <1>5, <1>6, <1>7, <1>8, <1>9 DEF HostStep, ReplyStep

(* What it takes.                                                          *)
LEMMA HostTakes ==
  ASSUME Single, HostStep
  PROVE  toHost' \in Seq(Sent)
<1>1. toHost \in Seq(Sent)  BY DEF Single, Lines
<1>2. CASE toHost' = toHost  BY <1>1, <1>2
<1>3. CASE Pending /\ Take  BY <1>1, <1>3, SentArrives DEF Single, Take
<1>4. CASE Pending /\ toHost' = <<[kind |-> "junk"]>> \o Tail(toHost)
  <2>1. [kind |-> "junk"] \in Sent  BY DEF Sent, Packet
  <2>2. Tail(toHost) \in Seq(Sent)  BY <1>4, SentArrives
  <2>3. <<[kind |-> "junk"]>> \in Seq(Sent)  BY <2>1
  <2> QED BY <1>4, <2>2, <2>3, ConcatProperties
<1>5. CASE ReplyStep
  BY <1>2, <1>3, <1>5 DEF ReplyStep, ReplyMeanwhile, ReplyBad, ReplyTimeout, InitReply, GetSocketReply,
     OpenReply, CreditReply, CreditRequestReply, CloseReply
<1>6. CASE ReadInvalid  BY <1>3, <1>4, <1>6 DEF ReadInvalid
<1>7. CASE ForwardData \/ CreditRequest \/ ReverseCmd \/ ReverseCmdFails \/ ReadData \/ ReadMeanwhile \/ ReadTimeout
  BY <1>2, <1>3, <1>7 DEF ForwardData, CreditRequest, ReverseCmd, ReverseCmdFails, ReadData, ReadMeanwhile, ReadTimeout
<1> QED BY <1>5, <1>6, <1>7 DEF HostStep

(* What the peripheral takes and sends.                                    *)
LEMMA DevSends ==
  ASSUME Single, DevStep
  PROVE  toDev' \in Seq(Ordered) /\ toHost' \in Seq(Sent)
<1>1. /\ toDev \in Seq(Ordered) /\ toHost \in Seq(Sent) /\ use.credit \in Nat /\ use.bytes \in Nat
      /\ use.packets \subseteq 1..BufSize /\ BufSize \in Nat
      /\ devSent \in [Chans -> 0..use.bytes]
  BY UseFacts DEF Single, Lines, Data, Streamed, Bytes
<1>2. ASSUME NEW p \in Sent, toHost' = Append(toHost, p) PROVE toHost' \in Seq(Sent)
  BY <1>1, <1>2
<1>3. CASE DevRefuse \/ DevAnswer
  <2>1. toDev # <<>> /\ toDev' = Tail(toDev)  BY <1>3 DEF DevRefuse, DevAnswer
  <2>2. Head(toDev) \in Ordered /\ toDev' \in Seq(Ordered)  BY <1>1, <2>1
  <2>3. PICK r : toHost' = Append(toHost, r) /\ r \in [kind : {"reply"}, cmd : Commands, ch : Chans, ok : BOOLEAN, credit : 0..use.credit]
    <3> DEFINE m == Head(toDev)
    <3>1. m.cmd \in Commands /\ m.ch \in Chans /\ m.cmd # "creditreq"  BY <2>2 DEF Ordered, Command
    <3>2. \E ok \in BOOLEAN, k \in 0..use.credit : Answer(m.cmd, m.ch, ok, k)
      <4>1. 0 \in 0..use.credit  BY <1>1
      <4>2. CASE DevRefuse  BY <4>1, <4>2 DEF DevRefuse
      <4>3. CASE DevAnswer
        <5>1. \E k \in 0..use.credit : Answer(m.cmd, m.ch, TRUE, k)
          BY <3>1, <4>1, <4>3 DEF DevAnswer
        <5> QED BY <5>1
      <4> QED BY <1>3, <4>2, <4>3
    <3>3. PICK ok \in BOOLEAN, k \in 0..use.credit : Answer(m.cmd, m.ch, ok, k)  BY <3>2
    <3> HIDE DEF m
    <3> QED BY <3>1, <3>3 DEF Answer
  <2>4. r \in Sent  BY <2>3 DEF Sent, Packet
  <2> QED BY <1>2, <2>2, <2>3, <2>4
<1>4. ASSUME NEW c \in Chans, DevCredit(c) PROVE toDev' \in Seq(Ordered) /\ toHost' \in Seq(Sent)
  <2>1. [kind |-> "credit", ch |-> c, credit |-> 1] \in Sent  BY DEF Sent, Packet
  <2> QED BY <1>1, <1>2, <1>4, <2>1 DEF DevCredit
<1>5. ASSUME NEW c \in Chans, DevData(c) PROVE toDev' \in Seq(Ordered) /\ toHost' \in Seq(Sent)
  <2>1. PICK len \in use.packets, hi \in {FALSE, use.hiBytes}, k \in 0..1 :
           /\ devSent[c] + len <= use.bytes
           /\ toHost' = Append(toHost, [kind |-> "data", ch |-> c, len |-> len, from |-> devSent[c],
                                        hi |-> hi, credit |-> k])
    BY <1>5 DEF DevData
  <2>2. use.hiBytes \in BOOLEAN /\ devSent[c] \in Bytes
    BY <1>1, ConstantsAssumption DEF Single, Profile, Bytes
  <2> DEFINE p == [kind |-> "data", ch |-> c, len |-> len, from |-> devSent[c], hi |-> hi, credit |-> k]
  <2>3. p \in Packet /\ p.from + p.len <= use.bytes  BY <2>1, <2>2 DEF Packet
  <2>4. p \in Sent  BY <2>3 DEF Sent
  <2> QED BY <1>1, <1>2, <1>5, <2>1, <2>4 DEF DevData
<1>6. CASE DevError
  <2>1. PICK c \in Chans : toHost' = Append(toHost, [kind |-> "error", ch |-> c, credit |-> 0])
    BY <1>6 DEF DevError
  <2>2. [kind |-> "error", ch |-> c, credit |-> 0] \in Sent  BY DEF Sent, Packet
  <2> QED BY <1>1, <1>2, <1>6, <2>1, <2>2 DEF DevError
<1> QED BY <1>3, <1>4, <1>5, <1>6 DEF DevStep, DevAnswers

(* Between a reply and the next call, nothing is to be said of the turn.   *)
LEMMA NoTurn ==
  ASSUME step' \notin {"data", "credit"}
  PROVE  Turn'
BY DEF Turn

(* Buffers and credits when a call gives up.                               *)
LEMMA GiveUpAmple ==
  ASSUME Single, UNCHANGED use, GiveUp
  PROVE  Ample' /\ Data' /\ Turn'
<1>1. UNCHANGED <<use, ta, buf, devSent, delivered>>  BY DEF GiveUp, dev
<1>2. Turn'  BY GiveUpCalls, NoTurn
<1> QED BY <1>1, <1>2, AmpleUntouched

(* Buffers and credits when a packet is met that was not awaited.          *)
LEMMA HandledTurn ==
  ASSUME Single, UNCHANGED <<use, devSent, delivered, call>>, Pending, ExecReverseCmd(Pk),
         ~(step = "data" /\ IsData(Pk, ch))
  PROVE  Ample' /\ Data' /\ Turn'
<1>1. Turn /\ ch' = ch /\ step' = step /\ proc' = proc  BY DEF Single, call
<1>2. /\ Ample' /\ Data'
      /\ ~IsData(Pk, ch) \/ p2hcredit[ch] = 0
             => p2hcredit'[ch] = p2hcredit[ch] /\ rcnt'[ch] = rcnt[ch]
  BY HandledAmple
<1>3. Turn'  BY <1>1, <1>2 DEF Turn
<1> QED BY <1>2, <1>3

(* Buffers and credits after a reply, or what came instead. A channel      *)
(* opened is empty, whatever was credited to its former life; the credit a *)
(* read issues is the only one.                                            *)
LEMMA ReplyAmple ==
  ASSUME Single, UNCHANGED use, ReplyStep
  PROVE  Ample' /\ Data' /\ Turn'
<1>1. /\ use \in Profiles /\ ~use.phoenix /\ Ample /\ Data /\ Turn /\ ch \in Chans
      /\ CreditMod \in Nat /\ CreditMod > 2 /\ BufSize \in Nat \ {0}
  BY UseFacts DEF Single, Calls
<1>2. CASE ReplyMeanwhile
  <2>1. step # "data"  BY <1>2 DEF ReplyMeanwhile, Commands
  <2> QED BY <1>2, <2>1, HandledTurn DEF ReplyMeanwhile, dev
<1>3. CASE ReplyBad \/ ReplyTimeout
  <2>1. CASE GiveUp  BY <2>1, GiveUpAmple
  <2>2. CASE /\ InitAgain /\ (Send("init", ch, 0) \/ UNCHANGED step)
             /\ UNCHANGED <<ta, buf, dev, delivered>>
    <3>1. step' = "init"  BY <2>2 DEF InitAgain, Send
    <3> QED BY <2>2, <3>1, NoTurn, AmpleUntouched DEF dev
  <2> QED BY <1>3, <2>1, <2>2 DEF ReplyBad, ReplyTimeout
<1>5. CASE InitReply
  <2>1. Zero \in [Chans -> CreditRange] /\ Zero \in [Chans -> 0..1] /\ \A c \in Chans : Zero[c] = 0
    BY <1>1 DEF Zero, CreditRange
  <2>2. h2pcredit' = Zero /\ p2hcredit' = Zero /\ UNCHANGED <<rindex, rcnt, rbuf, devSent, delivered>>
    BY <1>5 DEF InitReply, buf, dev
  <2>3. Ample'  BY <1>1, <2>1, <2>2 DEF Ample, OneByOne
  <2>4. Turn'  BY <1>5, NoTurn DEF InitReply, Send
  <2> QED BY <1>1, <2>2, <2>3, <2>4, DataUntouched
<1>6. CASE GetSocketReply  BY <1>6, NoTurn, AmpleUntouched DEF GetSocketReply, Send, dev
<1>7. CASE CloseReply
  <2>1. step' \in {"exit", "none"}  BY <1>7 DEF CloseReply, CloseGoesOn, Send, Return
  <2> QED BY <1>7, <2>1, NoTurn, AmpleUntouched DEF CloseReply, dev
<1>8. CASE CreditRequestReply  BY <1>8 DEF CreditRequestReply, Single, Calls
<1>9. CASE OpenReply
  <2>1. /\ Opened /\ UNCHANGED <<ch, p2hcredit, devSent>> /\ Pending /\ Fits(Pk)
        /\ h2pcredit' = [h2pcredit EXCEPT ![ch] = Pk.credit]
    BY <1>1, <1>9 DEF OpenReply, dev
  <2>2. Pk.credit \in CreditRange  BY <1>1, <2>1, SentArrives, SentPacket DEF Fits
  <2>3. rcnt' = [rcnt EXCEPT ![ch] = 0] /\ rindex' = [rindex EXCEPT ![ch] = 0]  BY <2>1 DEF Opened
  <2>4. /\ h2pcredit' \in [Chans -> CreditRange] /\ rcnt' \in [Chans -> 0..BufSize]
        /\ rindex' \in [Chans -> 0..BufSize]
    BY <1>1, <2>1, <2>2, <2>3 DEF Ample
  <2>5. ASSUME NEW c \in Chans PROVE OneByOne(c)'
    BY <1>1, <2>1, <2>3 DEF Ample, OneByOne
  <2>6. Ample'  BY <1>1, <2>1, <2>4, <2>5 DEF Ample
  <2>7. Turn'  BY <2>1, NoTurn DEF Opened, Return
  <2>8. Data'  BY <1>1, <2>1, OpenedTyped
  <2> QED BY <2>6, <2>7, <2>8
<1>10. CASE CreditReply
  <2>1. proc = "read" /\ p2hcredit[ch] = 0 /\ rcnt[ch] = 0  BY <1>1, <1>10 DEF CreditReply, Turn
  <2>2. /\ p2hcredit' = [p2hcredit EXCEPT ![ch] = (@ + 1) % CreditMod]
        /\ step' = "data" /\ UNCHANGED <<ch, h2pcredit, buf, devSent, delivered>>
    BY <1>10, <2>1 DEF CreditReply, dev
  <2>3. (p2hcredit[ch] + 1) % CreditMod = 1  BY <1>1, <2>1, ModSmall
  <2>4. p2hcredit' = [p2hcredit EXCEPT ![ch] = 1]  BY <2>2, <2>3
  <2>5. p2hcredit' \in [Chans -> 0..1] /\ p2hcredit'[ch] = 1  BY <1>1, <2>4 DEF Ample
  <2>6. ASSUME NEW c \in Chans PROVE OneByOne(c)'
    BY <1>1, <2>1, <2>2, <2>4 DEF Ample, OneByOne, buf
  <2>7. Ample'  BY <1>1, <2>2, <2>5, <2>6 DEF Ample, buf
  <2>8. Turn'  BY <2>2, <2>5 DEF Turn
  <2> QED BY <1>1, <2>2, <2>7, <2>8, DataUntouched DEF buf
<1> QED BY <1>2, <1>3, <1>5, <1>6, <1>7, <1>8, <1>9, <1>10 DEF ReplyStep

(* Buffers and credits when a read returns what it took for its packet.    *)
LEMMA ReceivedAmple ==
  ASSUME Single, UNCHANGED <<use, ch, devSent>>, step = "data",
         NEW b \in [1..BufSize -> Bytes], NEW k \in 1..BufSize, Received(b, k),
         UNCHANGED h2pcredit \/ h2pcredit' \in [Chans -> CreditRange]
  PROVE  Ample' /\ Data' /\ Turn'
<1>1. /\ use \in Profiles /\ Data /\ ch \in Chans /\ n \in Nat /\ BufSize \in Nat
      /\ p2hcredit \in [Chans -> 0..1] /\ p2hcredit[ch] = 1
  BY UseFacts DEF Single, Calls, Ample, Turn
<1>2. CutBuf(ch, b, 0, k, n) /\ p2hcredit' = [p2hcredit EXCEPT ![ch] = 0]
  BY <1>1 DEF Received
<1>3. 0 \in Nat /\ k \in Nat /\ 0 + k <= BufSize  BY <1>1
<1>4. Ample'  BY <1>1, <1>2, <1>3, CutAmple
<1>5. Data'  BY <1>1, <1>2, <1>3, CutTyped
<1>6. Turn'  BY NoTurn DEF Received, Return
<1> QED BY <1>4, <1>5, <1>6

(* Buffers and credits after a step of the host.                           *)
LEMMA HostAmple ==
  ASSUME Single, HostStep
  PROVE  Ample' /\ Data' /\ Turn'
<1>0. UNCHANGED use  BY DEF HostStep
<1>1. /\ use \in Profiles /\ ~use.phoenix /\ Ample /\ Data /\ ch \in Chans /\ BufSize \in Nat \ {0}
  BY UseFacts DEF Single, Calls
<1>2. CASE ReplyStep  BY <1>0, <1>2, ReplyAmple
<1>3. CASE ForwardData
  <2>1. /\ h2pcredit' = [h2pcredit EXCEPT ![ch] = @ - 1] /\ h2pcredit[ch] > 0
        /\ UNCHANGED <<p2hcredit, rindex, rcnt, rbuf, devSent, delivered>>
    BY <1>3 DEF ForwardData, buf
  <2>2. h2pcredit[ch] - 1 \in CreditRange  BY <1>1, <2>1, UseFacts DEF Ample, CreditRange
  <2>3. Ample'  BY <1>1, <2>1, <2>2 DEF Ample, OneByOne
  <2>4. step = "loop" /\ step' \in {"none", "loop"}  BY <1>3 DEF ForwardData, Return
  <2> QED BY <1>0, <1>1, <2>1, <2>3, <2>4, NoTurn, DataUntouched
<1>4. CASE CreditRequest  BY <1>1, <1>4 DEF CreditRequest
<1>5. CASE ReverseCmd  BY <1>0, <1>5, HandledTurn DEF ReverseCmd, dev
<1>6. CASE ReverseCmdFails
  BY <1>0, <1>6, NoTurn, AmpleUntouched DEF ReverseCmdFails, Return, dev
<1>7. CASE ReadData
  <2>1. /\ Pending /\ Pk.kind = "data" /\ step = "data" /\ h2pcredit' = Piggyback(Pk)
        /\ Received(Filled(EmptyBuf, 0, Pk), Pk.len) /\ UNCHANGED <<ch, devSent>>
    BY <1>7 DEF ReadData, dev
  <2>2. /\ Pk.credit \in Nat /\ Pk.len \in 1..BufSize /\ Pk.from \in Nat
        /\ Pk.from + Pk.len <= use.bytes
    BY <1>1, <2>1, SentArrives, SentPacket
  <2>3. h2pcredit' \in [Chans -> CreditRange]  BY <1>1, <2>1, <2>2, PiggybackCounts DEF Ample
  <2>4. Filled(EmptyBuf, 0, Pk) \in [1..BufSize -> Bytes]
    <3>1. Pk.len \in Nat /\ 0 \in Nat  BY <1>1, <2>2
    <3> QED BY <1>1, <2>2, <3>1, BytesFacts, FilledBytes
  <2> QED BY <1>0, <2>1, <2>2, <2>3, <2>4, ReceivedAmple
<1>8. CASE ReadMeanwhile
  <2>1. ~IsData(Pk, ch)  BY <1>8 DEF ReadMeanwhile, IsData
  <2> QED BY <1>0, <1>8, <2>1, HandledTurn DEF ReadMeanwhile, dev
<1>9. CASE ReadInvalid
  <2>1. /\ step = "data" /\ Received(EmptyBuf, 1) /\ UNCHANGED <<ch, devSent, h2pcredit>>
    BY <1>9 DEF ReadInvalid, dev
  <2>2. 1 \in 1..BufSize /\ EmptyBuf \in [1..BufSize -> Bytes]  BY <1>1, BytesFacts
  <2> QED BY <1>0, <2>1, <2>2, ReceivedAmple
<1>10. CASE ReadTimeout  BY <1>0, <1>10, NoTurn, AmpleUntouched DEF ReadTimeout, Return, dev
<1> QED BY <1>2, <1>3, <1>4, <1>5, <1>6, <1>7, <1>8, <1>9, <1>10 DEF HostStep

(* Buffers and credits after a call of a client.                           *)
LEMMA ClientAmple ==
  ASSUME Single, ClientStep
  PROVE  Ample' /\ Data' /\ Turn'
<1>0. UNCHANGED use  BY DEF ClientStep
<1>1. /\ use \in Profiles /\ Ample /\ Data /\ Turn /\ BufSize \in Nat /\ use.reads \subseteq 1..BufSize
      /\ step = "data" => p2hcredit[ch] = 1
  BY UseFacts DEF Single, Turn
<1>2. ASSUME NEW c \in Chans, OpenChannel(c) PROVE Ample' /\ Data' /\ Turn'
  <2>1. step' \in {"init", "getsocket"}  BY <1>2 DEF OpenChannel, Send
  <2> QED BY <1>0, <1>2, <2>1, NoTurn, AmpleUntouched DEF OpenChannel, dev
<1>3. ASSUME NEW c \in Chans, CloseChannel(c) PROVE Ample' /\ Data' /\ Turn'
  BY <1>0, <1>3, NoTurn, AmpleUntouched DEF CloseChannel, Send, dev
<1>4. ASSUME NEW c \in Chans, NEW k \in 1..use.writes, StartWrite(c, k) PROVE Ample' /\ Data' /\ Turn'
  BY <1>0, <1>4, NoTurn, AmpleUntouched DEF StartWrite, dev
<1>5. ASSUME NEW c \in Chans, NEW len \in use.reads, StartRead(c, len) PROVE Ample' /\ Data' /\ Turn'
  <2>1. UNCHANGED <<ta, buf, devSent, delivered>> /\ rcnt[c] = 0 /\ ch' = c /\ proc' = "read"
    BY <1>5 DEF StartRead, dev
  <2>2. p2hcredit[c] \in 0..1  BY <1>1 DEF Ample
  <2>3. \/ step' = "credit" /\ p2hcredit[c] = 0
        \/ step' = "data" /\ p2hcredit[c] = 1
    BY <1>5, <2>2 DEF StartRead, Send
  <2>4. Turn'  BY <2>1, <2>3 DEF Turn, ta, buf
  <2> QED BY <1>0, <2>1, <2>4, AmpleUntouched
<1>6. ASSUME NEW c \in Chans, NEW len \in use.reads, ReadBuffered(c, len) PROVE Ample' /\ Data' /\ Turn'
  <2>1. /\ UNCHANGED <<proc, ch, step, devSent>> /\ UNCHANGED <<h2pcredit, p2hcredit>>
        /\ proc = "idle" /\ rcnt[c] > 0 /\ CutBuf(c, rbuf[c], rindex[c], rcnt[c], len)
    BY <1>6 DEF ReadBuffered, Idle, call, ta, dev
  <2>2. /\ rindex[c] \in Nat /\ rcnt[c] \in Nat /\ len \in Nat /\ rindex[c] + rcnt[c] <= BufSize
        /\ p2hcredit[c] = 0 /\ p2hcredit \in [Chans -> 0..1]
    BY <1>1, <2>1 DEF Ample, OneByOne
  <2>3. p2hcredit' = [p2hcredit EXCEPT ![c] = 0]  BY <2>1, <2>2
  <2>4. Ample'  BY <2>1, <2>2, <2>3, CutAmple
  <2>5. rbuf[c] \in [1..BufSize -> Bytes]  BY <1>1 DEF Data, Buffers
  <2>6. Data'  BY <1>0, <1>1, <2>1, <2>2, <2>5, CutTyped
  <2>7. Turn'  BY <1>1, <2>1 DEF Turn
  <2> QED BY <2>4, <2>6, <2>7
<1> QED BY <1>2, <1>3, <1>4, <1>5, <1>6 DEF ClientStep

(* Every step of a system without phoenix keeps all of it.                 *)
LEMMA SingleKept ==
  ASSUME Single, Next
  PROVE  Single'
<1>1. UNCHANGED use  BY DEF Next, HostStep, ClientStep, DevStep, DevAnswers
<1>2. use' \in Profiles /\ ~use'.phoenix /\ Sent' = Sent
  BY <1>1 DEF Single, Sent, Packet, Bytes
<1>3. Calls' /\ Device'  BY CallsKept, DeviceKept
<1>4. CASE HostStep
  <2>1. Lines'  BY <1>2, <1>4, HostOrders, HostTakes DEF Lines, Ordered
  <2> QED BY <1>2, <1>3, <1>4, <2>1, HostAmple DEF Single
<1>5. CASE ClientStep
  <2>1. toHost' = toHost  BY <1>5 DEF ClientStep, OpenChannel, CloseChannel, StartWrite, ReadBuffered, StartRead
  <2>2. toDev' \in Seq(Ordered)
    <3>1. Lines /\ toDev \in Seq(Ordered)  BY DEF Single, Lines
    <3>2. ASSUME NEW c \in Chans, NEW cmd \in {"init", "getsocket", "close", "credit"}, NEW k \in 0..1,
                 Send(cmd, c, k)
          PROVE  toDev' \in Seq(Ordered)
      <4>1. cmd \in Commands \ {"creditreq"} /\ k \in 0..2  BY DEF Commands
      <4> QED BY <3>1, <3>2, <4>1, OrderSent
    <3>3. ASSUME NEW c \in Chans, OpenChannel(c) PROVE toDev' \in Seq(Ordered)
      BY <3>2, <3>3 DEF OpenChannel
    <3>4. ASSUME NEW c \in Chans, CloseChannel(c) PROVE toDev' \in Seq(Ordered)
      BY <3>2, <3>4 DEF CloseChannel
    <3>5. ASSUME NEW c \in Chans, NEW len, StartRead(c, len) PROVE toDev' \in Seq(Ordered)
      BY <3>1, <3>2, <3>5 DEF StartRead
    <3>6. ASSUME NEW c, NEW k, StartWrite(c, k) \/ ReadBuffered(c, k) PROVE toDev' \in Seq(Ordered)
      BY <3>1, <3>6 DEF StartWrite, ReadBuffered
    <3> QED BY <1>5, <3>3, <3>4, <3>5, <3>6 DEF ClientStep
  <2>3. Lines'  BY <1>2, <2>1, <2>2 DEF Single, Lines, Ordered
  <2> QED BY <1>2, <1>3, <1>5, <2>3, ClientAmple DEF Single
<1>6. CASE DevStep
  <2>1. Lines'  BY <1>2, <1>6, DevSends DEF Lines, Ordered
  <2>2. DevError \/ DevRefuse \/ DevAnswer \/ \E c \in Chans : DevCredit(c) \/ DevData(c)
    BY <1>6 DEF DevStep, DevAnswers
  <2>3. UNCHANGED <<call, ta, buf>>
    BY <2>2 DEF DevError, DevRefuse, DevAnswer, DevCredit, DevData
  <2>4. Ample' /\ Turn'  BY <2>3 DEF Single, Ample, OneByOne, Turn, call, ta, buf
  <2>5. Data'
    <3>1. CASE DevError  BY <1>1, <3>1, DataUntouched DEF DevError, Single, buf
    <3> QED BY <1>1, <2>2, <3>1, DevTyped DEF Single
  <2> QED BY <1>2, <1>3, <2>1, <2>4, <2>5 DEF Single
<1> QED BY <1>4, <1>5, <1>6 DEF Next

(* Nothing is credited, buffered or on the way at first.                   *)
LEMMA SingleInit ==
  ASSUME Init, ~use.phoenix
  PROVE  Single
<1> USE DEF Init
<1>1. /\ use \in Profiles /\ use.bytes \in Nat /\ CreditMod \in Nat /\ CreditMod > 2
      /\ BufSize \in Nat /\ MaxTries \in Nat
  BY UseFacts
<1>2. /\ Zero \in [Chans -> 0..1] /\ Zero \in [Chans -> CreditRange] /\ Zero \in [Chans -> 0..BufSize]
      /\ Zero \in [Chans -> Int] /\ Zero \in [Chans -> Nat] /\ \A c \in Chans : Zero[c] = 0
  BY <1>1 DEF Zero, CreditRange
<1>3. Ample  BY <1>1, <1>2 DEF Ample, OneByOne
<1>4. Data
  <2>1. EmptyBuf \in [1..BufSize -> Bytes] /\ Zero \in [Chans -> Bytes]  BY <1>1, BytesFacts
  <2>2. rbuf = [c \in Chans |-> EmptyBuf]  BY DEF EmptyBuf
  <2>3. Buffers  BY <2>1, <2>2 DEF Buffers
  <2>4. << >> \in Seq(Bytes)  OBVIOUS
  <2>5. Streamed  BY <2>1, <2>4 DEF Streamed
  <2> QED BY <2>3, <2>5 DEF Data
<1>5. Turn  BY DEF Turn
<1>6. Calls
  <2>1. proc \in Procs /\ step \in Steps \ {"creditreq"} /\ ch \in Chans  BY DEF Procs, Steps, Commands
  <2>2. n \in Nat /\ cnt \in 0..MaxTries + 1  BY <1>1
  <2>3. open \subseteq Chans /\ used \subseteq Chans /\ up \in BOOLEAN  OBVIOUS
  <2> QED BY <2>1, <2>2, <2>3 DEF Calls
<1>7. Device  BY <1>2 DEF Device
<1>8. Lines
  <2>1. toDev \in Seq(Ordered)  OBVIOUS
  <2>2. toHost \in Seq(Sent)  OBVIOUS
  <2> QED BY <2>1, <2>2 DEF Lines
<1> QED BY <1>1, <1>3, <1>4, <1>5, <1>6, <1>7, <1>8 DEF Single

(* The states of a system without phoenix, in step or not.                 *)
LEMMA SingleAlways == Spec => [](~use.phoenix => Single)
<1>1. Init => (~use.phoenix => Single)  BY SingleInit
<1>2. (~use.phoenix => Single) /\ [Next]_vars => (~use.phoenix => Single)'
  <2>1. SUFFICES ASSUME ~use.phoenix => Single, [Next]_vars, ~use'.phoenix PROVE Single'
    OBVIOUS
  <2>2. CASE Next
    <3>1. use' = use  BY <2>2 DEF Next, HostStep, ClientStep, DevStep, DevAnswers
    <3> QED BY <2>1, <2>2, <3>1, SingleKept
  <2>3. CASE UNCHANGED vars
    <3>1. Single  BY <2>1, <2>3 DEF vars
    <3>2. Ample' /\ Data' /\ Turn'  BY <2>3, <3>1, AmpleUntouched DEF vars, dev
    <3>3. Calls' /\ Device'  BY <2>3, <3>1 DEF vars, call, dev, Single, Calls, Device
    <3>4. Lines'  BY <2>3, <3>1 DEF vars, Single, Lines, Ordered, Sent, Packet, Bytes
    <3>5. use' = use  BY <2>3 DEF vars
    <3> QED BY <3>1, <3>2, <3>3, <3>4, <3>5 DEF Single
  <2> QED BY <2>1, <2>2, <2>3
<1> QED BY <1>1, <1>2, PTL DEF Spec

(* They are those of TypeOK.                                               *)
LEMMA SingleTypes ==
  ASSUME Single, lost \in 0..use.lost
  PROVE  TypeOK
<1>1. CreditMod \in Nat /\ CreditMod > 2  BY UseFacts DEF Single
<1>2. p2hcredit \in [Chans -> CreditRange]
  <2>1. 0..1 \subseteq CreditRange  BY <1>1 DEF CreditRange
  <2> QED BY <2>1 DEF Single, Ample
<1>3. toDev \in Seq(Command)
  <2>1. toDev \in Seq(Ordered) /\ Ordered \subseteq Command  BY DEF Single, Lines, Ordered
  <2>2. toDev \in [1..Len(toDev) -> Command] /\ Len(toDev) \in Nat  BY <2>1
  <2> QED BY <2>2
<1>4. toHost \in Seq(Packet)
  <2>1. toHost \in Seq(Sent) /\ Sent \subseteq Packet  BY DEF Single, Lines, Sent
  <2>2. toHost \in [1..Len(toHost) -> Packet] /\ Len(toHost) \in Nat  BY <2>1
  <2> QED BY <2>2
<1> QED BY <1>2, <1>3, <1>4 DEF TypeOK, Single, Ample, Calls, Device, Data, Buffers, Streamed

(* The credit counters of dot4.c do not wrap, the buffer of a channel is   *)
(* not overrun, and what is on the way is what the two sides send: of a    *)
(* peripheral that is no phoenix always, whatever comes late, fails or is  *)
(* taken for a reply; of a phoenix as long as it is Tame and in step.      *)
THEOREM TypeCorrect == Spec => [](~use.phoenix \/ (lost = 0 /\ Tame(use)) => TypeOK)
<1>1. IInv => (lost = 0 /\ Tame(use) => TypeOK)
  <2> SUFFICES ASSUME IInv, lost = 0, Tame(use)
               PROVE  TypeOK
    OBVIOUS
  <2>1. Core /\ Data /\ use \in Profiles /\ lost \in 0..use.lost  BY DEF IInv
  <2>2. Typed  BY <2>1 DEF Core
  <2>3. CreditMod \in Nat /\ CreditMod > 2  BY <2>1, UseFacts
  <2>4. p2hcredit \in [Chans -> CreditRange]
    <3>1. ASSUME NEW c \in Chans PROVE p2hcredit[c] \in CreditRange
      <4>1. p2hcredit[c] \in Nat /\ p2hcredit[c] <= 2  BY <2>1, <2>2 DEF Core, Channel, Roomy, Typed
      <4> QED BY <2>3, <4>1 DEF CreditRange
    <3> QED BY <2>2, <3>1 DEF Typed
  <2>5. toDev \in Seq(Command)
    <3>1. toDev = << >> \/ (step \in Commands /\ toDev = << Cmd >>)
      BY <2>1 DEF Core, Exchange, Silent, Asking, Refused, Granted
    <3>2. step \in Commands => Cmd \in Command
      BY <2>2 DEF Cmd, Command, Asked, Typed
    <3>3. << >> \in Seq(Command)  OBVIOUS
    <3>4. ASSUME NEW m \in Command PROVE << m >> \in Seq(Command)  OBVIOUS
    <3> QED BY <3>1, <3>2, <3>3, <3>4
  <2>6. toHost \in Seq(Packet)
    <3>1. toHost \in Seq(Sound) /\ Sound \subseteq Packet  BY <2>1 DEF Core, Sound
    <3>2. \A i \in 1..Len(toHost) : toHost[i] \in Packet  BY <3>1
    <3>3. toHost \in [1..Len(toHost) -> Packet] /\ Len(toHost) \in Nat  BY <3>1, <3>2
    <3> QED BY <3>3
  <2>7. devCredit \in [Chans -> Int]  BY <2>2 DEF Typed
  <2>8. up \in BOOLEAN /\ devUp \in BOOLEAN  BY <2>1 DEF Core, Flags
  <2> QED BY <2>1, <2>2, <2>4, <2>5, <2>6, <2>7, <2>8 DEF TypeOK, Typed, Data, Buffers, Streamed
<1>2. IInv /\ Single => TypeOK  BY SingleTypes DEF IInv
<1>3. IInv /\ (~use.phoenix => Single) => (~use.phoenix \/ (lost = 0 /\ Tame(use)) => TypeOK)
  BY <1>1, <1>2
<1> QED BY <1>3, Invariant, SingleAlways, PTL

-----------------------------------------------------------------------------
(* A sequence that counts on from a, to b; the bytes of a channel that are *)
(* on the way.                                                             *)
Run(s, a, b) == s \in Seq(Nat) /\ a + Len(s) = b /\ \A i \in 1..Len(s) : s[i] = a + i
BytesOf(s, c) == FlattenSeq([i \in 1..Len(s) |-> Payload(s[i], c)])

(* What is empty runs nowhere.                                             *)
LEMMA RunEmpty ==
  ASSUME NEW a \in Nat
  PROVE  Run(<< >>, a, a)
BY DEF Run

(* A run has bounds.                                                       *)
LEMMA RunBounds ==
  ASSUME NEW a \in Nat, NEW b, NEW s, Run(s, a, b)
  PROVE  b \in Nat /\ a <= b /\ Len(s) = b - a /\ Len(s) \in Nat
<1>1. Len(s) \in Nat  BY DEF Run
<1> QED BY <1>1 DEF Run

(* Two runs between the same bounds are one.                               *)
LEMMA RunsEqual ==
  ASSUME NEW a \in Nat, NEW b, NEW s, NEW t, Run(s, a, b), Run(t, a, b)
  PROVE  s = t
<1>1. /\ s \in Seq(Nat) /\ t \in Seq(Nat) /\ Len(s) \in Nat /\ Len(t) \in Nat
      /\ a + Len(s) = b /\ a + Len(t) = b
  BY DEF Run
<1>2. Len(s) = Len(t)  BY <1>1
<1>3. \A i \in 1..Len(s) : s[i] = a + i  BY DEF Run
<1>4. \A i \in 1..Len(t) : t[i] = a + i  BY DEF Run
<1>5. \A i \in 1..Len(s) : s[i] = t[i]  BY <1>2, <1>3, <1>4
<1> QED BY <1>1, <1>2, <1>5, SeqEqual

(* Runs that meet are one.                                                 *)
LEMMA RunsJoin ==
  ASSUME NEW a \in Nat, NEW b, NEW d, NEW s, NEW t, Run(s, a, b), Run(t, b, d)
  PROVE  Run(s \o t, a, d)
<1>1. /\ s \in Seq(Nat) /\ t \in Seq(Nat) /\ Len(s) \in Nat /\ Len(t) \in Nat
      /\ a + Len(s) = b /\ b + Len(t) = d
  BY DEF Run
<1>2. (\A i \in 1..Len(s) : s[i] = a + i) /\ \A i \in 1..Len(t) : t[i] = b + i
  BY DEF Run
<1>3. /\ s \o t \in Seq(Nat) /\ Len(s \o t) = Len(s) + Len(t)
      /\ \A i \in 1..Len(s) + Len(t) :
            (s \o t)[i] = IF i <= Len(s) THEN s[i] ELSE t[i - Len(s)]
  BY <1>1, ConcatProperties
<1> DEFINE w == s \o t
           l == Len(s)
           m == Len(t)
<1>4. ASSUME NEW i \in 1..l + m PROVE w[i] = a + i
  <2>1. w[i] = IF i <= l THEN s[i] ELSE t[i - l]  BY <1>3
  <2>2. l \in Nat /\ m \in Nat /\ b = a + l  BY <1>1
  <2>3. CASE i <= l
    <3>1. i \in 1..l  BY <2>2, <2>3
    <3> QED BY <1>2, <2>1, <2>3, <3>1
  <2>4. CASE i > l
    <3>1. i - l \in 1..m /\ ~(i <= l)  BY <2>2, <2>4
    <3>2. t[i - l] = b + (i - l)  BY <1>2, <3>1
    <3>3. b + (i - l) = a + i  BY <2>2
    <3> QED BY <2>1, <3>1, <3>2, <3>3
  <2>5. i <= l \/ i > l  BY <2>2
  <2> QED BY <2>3, <2>4, <2>5
<1>5. w \in Seq(Nat) /\ Len(w) = l + m /\ a + (l + m) = d  BY <1>1, <1>3
<1> HIDE DEF w, l, m
<1>6. Run(w, a, d)  BY <1>4, <1>5 DEF Run
<1> QED BY <1>6 DEF w

(* Part of a run is a run.                                                 *)
LEMMA RunSplits ==
  ASSUME NEW a \in Nat, NEW d, NEW s \in Seq(Nat), NEW t \in Seq(Nat), Run(s \o t, a, d)
  PROVE  Run(s, a, a + Len(s)) /\ Run(t, a + Len(s), d)
<1> DEFINE w == s \o t
           l == Len(s)
           m == Len(t)
<1>1. /\ l \in Nat /\ m \in Nat /\ Len(w) = l + m
      /\ \A i \in 1..l + m : w[i] = IF i <= l THEN s[i] ELSE t[i - l]
  BY ConcatProperties
<1>2. a + Len(w) = d /\ \A i \in 1..Len(w) : w[i] = a + i  BY DEF Run
<1>3. \A i \in 1..l + m : w[i] = a + i  BY <1>1, <1>2
<1>4. a + (l + m) = d  BY <1>1, <1>2
<1> HIDE DEF w
<1>5. ASSUME NEW i \in 1..l PROVE s[i] = a + i
  <2>1. i \in 1..l + m /\ i <= l  BY <1>1
  <2> QED BY <1>1, <1>3, <2>1
<1>6. ASSUME NEW i \in 1..m PROVE t[i] = (a + l) + i
  <2>1. l + i \in 1..l + m /\ ~(l + i <= l) /\ (l + i) - l = i  BY <1>1
  <2>2. w[l + i] = t[i]  BY <1>1, <2>1
  <2>3. w[l + i] = a + (l + i)  BY <1>3, <2>1
  <2> QED BY <1>1, <2>2, <2>3
<1>7. Run(s, a, a + l)  BY <1>5 DEF Run
<1>8. (a + l) + m = d  BY <1>1, <1>4
<1>9. Run(t, a + l, d)  BY <1>6, <1>8 DEF Run
<1> QED BY <1>7, <1>9

(* The bytes a packet of l bytes holds, the first being f + 1.             *)
LEMMA RunOfPacket ==
  ASSUME NEW f \in Nat, NEW l \in Nat
  PROVE  Run([j \in 1..l |-> f + j], f, f + l)
<1> DEFINE s == [j \in 1..l |-> f + j]
<1>1. s \in Seq(Nat) /\ Len(s) = l /\ \A j \in 1..l : s[j] = f + j
  <2>1. \A j \in 1..l : f + j \in Nat  OBVIOUS
  <2>2. s \in [1..l -> Nat]  BY <2>1
  <2> QED BY <2>2
<1> HIDE DEF s
<1>2. Run(s, f, f + l)  BY <1>1 DEF Run
<1> QED BY <1>2 DEF s

(* What a packet holds of a channel.                                       *)
LEMMA PayloadIs ==
  ASSUME use \in Profiles, NEW p \in Sound, NEW c
  PROVE  /\ Payload(p, c) \in Seq(Nat)
         /\ IsData(p, c) => /\ p.from \in Nat /\ p.len \in Nat \ {0}
                            /\ Run(Payload(p, c), p.from, p.from + p.len)
         /\ ~IsData(p, c) => Payload(p, c) = << >>
<1>1. CASE ~IsData(p, c)  BY <1>1 DEF Payload
<1>2. CASE IsData(p, c)
  <2>1. p.from \in Nat /\ p.len \in Nat \ {0}
    BY <1>2, SoundPacket, UseFacts DEF IsData, Bytes
  <2> DEFINE a == p.from
             l == p.len
  <2>2. Payload(p, c) = [j \in 1..l |-> a + j]  BY <1>2, Zenon DEF Payload
  <2> HIDE DEF a, l
  <2>3. a \in Nat /\ l \in Nat  BY <2>1 DEF a, l
  <2>4. Run(Payload(p, c), a, a + l)  BY <2>2, <2>3, RunOfPacket
  <2>5. Payload(p, c) \in Seq(Nat)  BY <2>4 DEF Run
  <2> QED BY <1>2, <2>1, <2>4, <2>5 DEF a, l
<1> QED BY <1>1, <1>2

(* The payloads of the packets on the way.                                 *)
Payloads(s, c) == [i \in 1..Len(s) |-> Payload(s[i], c)]

LEMMA PayloadsAre ==
  ASSUME use \in Profiles, NEW s \in Seq(Sound), NEW c
  PROVE  /\ Payloads(s, c) \in Seq(Seq(Nat)) /\ Len(Payloads(s, c)) = Len(s)
         /\ \A i \in 1..Len(s) : Payloads(s, c)[i] = Payload(s[i], c)
         /\ BytesOf(s, c) = FlattenSeq(Payloads(s, c))
<1>1. Len(s) \in Nat /\ \A i \in 1..Len(s) : s[i] \in Sound  OBVIOUS
<1>2. \A i \in 1..Len(s) : Payload(s[i], c) \in Seq(Nat)  BY <1>1, PayloadIs
<1>3. Payloads(s, c) \in [1..Len(s) -> Seq(Nat)]  BY <1>2 DEF Payloads
<1> QED BY <1>1, <1>3 DEF Payloads, BytesOf

(* A packet more, a packet less.                                           *)
LEMMA BytesAppend ==
  ASSUME use \in Profiles, NEW s \in Seq(Sound), NEW p \in Sound, NEW c
  PROVE  /\ BytesOf(Append(s, p), c) = BytesOf(s, c) \o Payload(p, c)
         /\ BytesOf(s, c) \in Seq(Nat)
<1> DEFINE t == Append(s, p)
           u == Payloads(s, c)
           x == Payload(p, c)
<1>1. t \in Seq(Sound) /\ Len(t) = Len(s) + 1 /\ Len(s) \in Nat
      /\ t[Len(s) + 1] = p /\ \A i \in 1..Len(s) : t[i] = s[i]
  OBVIOUS
<1>2. u \in Seq(Seq(Nat)) /\ Len(u) = Len(s) /\ (\A i \in 1..Len(s) : u[i] = Payload(s[i], c))
      /\ BytesOf(s, c) = FlattenSeq(u)
  BY PayloadsAre
<1>3. x \in Seq(Nat)  BY PayloadIs
<1> HIDE DEF t
<1>4. /\ Payloads(t, c) \in Seq(Seq(Nat)) /\ Len(Payloads(t, c)) = Len(t)
      /\ \A i \in 1..Len(t) : Payloads(t, c)[i] = Payload(t[i], c)
      /\ BytesOf(t, c) = FlattenSeq(Payloads(t, c))
  BY <1>1, PayloadsAre
<1>5. Payloads(t, c)[Len(s) + 1] = x  BY <1>1, <1>4
<1> HIDE DEF u, x
<1>6. /\ Append(u, x) \in Seq(Seq(Nat)) /\ Len(Append(u, x)) = Len(s) + 1
      /\ Append(u, x)[Len(s) + 1] = x /\ \A i \in 1..Len(s) : Append(u, x)[i] = u[i]
  BY <1>1, <1>2, <1>3
<1>7. Payloads(t, c) = Append(u, x)
  <2>1. ASSUME NEW i \in 1..Len(s) + 1 PROVE Payloads(t, c)[i] = Append(u, x)[i]
    <3>1. CASE i = Len(s) + 1  BY <1>5, <1>6, <3>1
    <3>2. CASE i \in 1..Len(s)
      <4>1. Payloads(t, c)[i] = Payload(s[i], c)  BY <1>1, <1>4, <3>2
      <4> QED BY <1>2, <1>6, <3>2, <4>1
    <3>3. Len(s) \in Nat  BY <1>1
    <3>4. i = Len(s) + 1 \/ i \in 1..Len(s)  BY <3>3
    <3> QED BY <3>1, <3>2, <3>4
  <2> QED BY <1>1, <1>4, <1>6, <2>1, SeqEqual
<1>8. FlattenSeq(Append(u, x)) = FlattenSeq(u) \o x  BY <1>2, <1>3, FlattenAppend
<1>9. FlattenSeq(u) \in Seq(Nat)  BY <1>2, FlattenType
<1> QED BY <1>2, <1>4, <1>7, <1>8, <1>9 DEF t, x

LEMMA BytesTail ==
  ASSUME use \in Profiles, NEW s \in Seq(Sound), s # << >>, NEW c
  PROVE  /\ BytesOf(s, c) = Payload(Head(s), c) \o BytesOf(Tail(s), c)
         /\ BytesOf(Tail(s), c) \in Seq(Nat)
<1> DEFINE t == Tail(s)
           u == Payloads(s, c)
<1>1. t \in Seq(Sound) /\ Len(s) = Len(t) + 1 /\ Len(t) \in Nat
      /\ s[1] = Head(s) /\ \A i \in 1..Len(t) : t[i] = s[i + 1]
  OBVIOUS
<1>2. u \in Seq(Seq(Nat)) /\ Len(u) = Len(s) /\ (\A i \in 1..Len(s) : u[i] = Payload(s[i], c))
      /\ BytesOf(s, c) = FlattenSeq(u)
  BY PayloadsAre
<1> HIDE DEF t
<1>3. /\ Payloads(t, c) \in Seq(Seq(Nat)) /\ Len(Payloads(t, c)) = Len(t)
      /\ \A i \in 1..Len(t) : Payloads(t, c)[i] = Payload(t[i], c)
      /\ BytesOf(t, c) = FlattenSeq(Payloads(t, c))
  BY <1>1, PayloadsAre
<1> HIDE DEF u
<1>4. /\ u # << >> /\ Head(u) = u[1] /\ Tail(u) \in Seq(Seq(Nat)) /\ Len(Tail(u)) = Len(t)
      /\ \A i \in 1..Len(t) : Tail(u)[i] = u[i + 1]
  BY <1>1, <1>2
<1>5. u[1] = Payload(Head(s), c)  BY <1>1, <1>2
<1>6. Payloads(t, c) = Tail(u)
  <2>1. ASSUME NEW i \in 1..Len(t) PROVE Payloads(t, c)[i] = Tail(u)[i]
    <3>1. i + 1 \in 1..Len(s)  BY <1>1
    <3> QED BY <1>1, <1>2, <1>3, <1>4, <3>1
  <2> QED BY <1>3, <1>4, <2>1, SeqEqual
<1>7. FlattenSeq(u) = Head(u) \o FlattenSeq(Tail(u))  BY <1>2, <1>4, FlattenTail
<1>8. FlattenSeq(Tail(u)) \in Seq(Nat)  BY <1>4, FlattenType
<1> QED BY <1>2, <1>3, <1>4, <1>5, <1>6, <1>7, <1>8 DEF t

(* No data, no bytes.                                                      *)
LEMMA BytesNone ==
  ASSUME use \in Profiles, NEW s \in Seq(Sound), NEW c, \A i \in 1..Len(s) : ~IsData(s[i], c)
  PROVE  BytesOf(s, c) = << >>
<1> DEFINE u == Payloads(s, c)
           z == [i \in 1..Len(s) |-> 0]
<1>1. Len(s) \in Nat /\ \A i \in 1..Len(s) : s[i] \in Sound  OBVIOUS
<1>2. u \in Seq(Seq(Nat)) /\ Len(u) = Len(s) /\ (\A i \in 1..Len(s) : u[i] = Payload(s[i], c))
      /\ BytesOf(s, c) = FlattenSeq(u)
  BY PayloadsAre
<1>3. \A i \in 1..Len(s) : u[i] = << >>  BY <1>1, <1>2, PayloadIs
<1>4. z \in Seq(Nat) /\ Len(z) = Len(s) /\ \A i \in 1..Len(s) : z[i] = 0  BY <1>1
<1> HIDE DEF u, z
<1>5. SumOf(0, z) = 0  BY <1>4, SumOfNats
<1>6. Width(u, 0) <= 0
  <2>1. SubSeq(u, 1, 0) = << >>  BY <1>2
  <2>2. Width(u, 0) = Len(<< >>)  BY <2>1, FlattenEmpty, Zenon DEF Width
  <2> QED BY <2>2
<1>7. /\ Len(u) = 0 + Len(z) /\ 0 \in Nat
      /\ \A i \in 1..Len(z) : Len(u[0 + i]) <= z[i]
  <2>1. ASSUME NEW i \in 1..Len(z) PROVE Len(u[0 + i]) <= z[i]
    <3>1. 0 + i = i /\ u[i] = << >> /\ z[i] = 0  BY <1>1, <1>3, <1>4
    <3> QED BY <3>1
  <2> QED BY <1>1, <1>2, <1>4, <2>1
<1>8. Len(FlattenSeq(u)) <= 0
  <2>1. Len(FlattenSeq(u)) <= SumOf(0, z)  BY <1>2, <1>4, <1>6, <1>7, FlattenedLength
  <2> QED BY <1>5, <2>1
<1>9. FlattenSeq(u) \in Seq(Nat)  BY <1>2, FlattenType
<1>10. FlattenSeq(u) = << >>
  <2> DEFINE w == FlattenSeq(u)
  <2>1. w \in Seq(Nat) /\ Len(w) <= 0  BY <1>8, <1>9
  <2> HIDE DEF w
  <2>2. w = << >>  BY <2>1
  <2> QED BY <2>2 DEF w
<1> QED BY <1>2, <1>10

(* The run of bytes on the way, as a packet joins it and as one leaves.    *)
LEMMA RunSent ==
  ASSUME use \in Profiles, NEW s \in Seq(Sound), NEW p \in Sound, NEW c,
         NEW a \in Nat, NEW b, Run(BytesOf(s, c), a, b), IsData(p, c) => p.from = b
  PROVE  Run(BytesOf(Append(s, p), c), a, IF IsData(p, c) THEN b + p.len ELSE b)
<1>1. BytesOf(Append(s, p), c) = BytesOf(s, c) \o Payload(p, c) /\ BytesOf(s, c) \in Seq(Nat)
  BY BytesAppend
<1>2. CASE ~IsData(p, c)
  <2>1. Payload(p, c) = << >>  BY <1>2, PayloadIs
  <2> QED BY <1>1, <1>2, <2>1, ConcatEmptySeq
<1>3. CASE IsData(p, c)
  <2>1. Run(Payload(p, c), b, b + p.len)  BY <1>3, PayloadIs
  <2>2. Run(BytesOf(s, c) \o Payload(p, c), a, b + p.len)  BY <2>1, RunsJoin
  <2> QED BY <1>1, <1>3, <2>2
<1> QED BY <1>2, <1>3

LEMMA RunTaken ==
  ASSUME use \in Profiles, NEW s \in Seq(Sound), s # << >>, NEW c,
         NEW a \in Nat, NEW b, Run(BytesOf(s, c), a, b)
  PROVE  /\ ~IsData(Head(s), c) => Run(BytesOf(Tail(s), c), a, b)
         /\ IsData(Head(s), c) => /\ Head(s).from = a
                                  /\ Run(BytesOf(Tail(s), c), a + Head(s).len, b)
<1> DEFINE p == Head(s)
           h == Payload(p, c)
           t == BytesOf(Tail(s), c)
<1>1. p \in Sound  OBVIOUS
<1>2. BytesOf(s, c) = h \o t /\ t \in Seq(Nat)  BY BytesTail
<1>3. /\ h \in Seq(Nat)
      /\ IsData(p, c) => p.from \in Nat /\ p.len \in Nat \ {0} /\ Run(h, p.from, p.from + p.len)
      /\ ~IsData(p, c) => h = << >>
  BY <1>1, PayloadIs
<1> HIDE DEF p, h, t
<1>4. Run(h, a, a + Len(h)) /\ Run(t, a + Len(h), b)
  <2>1. Run(h \o t, a, b)  BY <1>2
  <2> QED BY <1>2, <1>3, <2>1, RunSplits
<1>5. CASE ~IsData(p, c)
  <2>1. Len(h) = 0 /\ a + 0 = a  BY <1>3, <1>5
  <2> QED BY <1>4, <1>5, <2>1 DEF p, t
<1>6. CASE IsData(p, c)
  <2>1. p.from \in Nat /\ p.len \in Nat \ {0} /\ Run(h, p.from, p.from + p.len)  BY <1>3, <1>6
  <2> DEFINE f == p.from
             l == p.len
             e == f + l
  <2>2. f \in Nat /\ l \in Nat /\ l # 0 /\ Run(h, f, e) /\ e = f + l  BY <2>1
  <2> HIDE DEF f, l, e
  <2>3. f + Len(h) = e /\ (\A i \in 1..Len(h) : h[i] = f + i) /\ Len(h) \in Nat
    BY <2>2 DEF Run
  <2>4. Len(h) = l  BY <2>2, <2>3
  <2>5. 1 \in 1..Len(h)  BY <2>2, <2>4
  <2>6. \A i \in 1..Len(h) : h[i] = a + i  BY <1>4 DEF Run
  <2>7. h[1] = f + 1 /\ h[1] = a + 1  BY <2>3, <2>5, <2>6
  <2>8. f = a  BY <2>2, <2>7
  <2> QED BY <1>4, <1>6, <2>4, <2>8 DEF p, t, f, l
<1> QED BY <1>5, <1>6
-----------------------------------------------------------------------------
(* Clients that read a whole packet at a time where two may come unasked:  *)
(* cut_buf leaves the rest of a packet where it lies, and                  *)
(* Dot4ExecReverseCmd appends the next one behind rcnt bytes.              *)
Whole(u) == u.phoenix => \A r \in u.reads, l \in u.packets : l <= r

(* Bytes a client has read; bytes g + 1 and on, from idx on in a buffer; a *)
(* channel the peripheral has opened and its client awaits.                *)
Got(c) == Len(delivered[c])
Held(b, idx, k, g) == \A i \in 1..k : b[idx + i] = g + i
Opening(c) == c = ch /\ proc = "open" /\ step \in {"open", "credit"} /\ c \in devOpen

(* The stream of a channel: what was read, what is buffered and what is on *)
(* the way follow each other, up to what was sent.                         *)
Flowing(c) ==
    /\ Run(delivered[c], 0, Got(c))
    /\ Held(rbuf[c], rindex[c], rcnt[c], Got(c))
    /\ Run(BytesOf(toHost, c), Got(c) + rcnt[c], devSent[c])

(* While the peripheral may send, the buffer begins with its first byte,   *)
(* and a read empties it.                                                  *)
Tidy(c) ==
    /\ p2hcredit[c] > 0 => /\ rindex[c] = 0
                           /\ ~use.phoenix => rcnt[c] = 0
                           /\ \A r \in use.reads : rcnt[c] <= r
    /\ p2hcredit[c] > 1 => rcnt[c] = 0 /\ use.phoenix

Stream(c) ==
    /\ Settled(c) => Flowing(c) /\ Tidy(c)
    /\ Opening(c) => Run(BytesOf(toHost, c), 0, devSent[c])
Client == (proc = "read" => n \in use.reads) /\ (step = "data" => rcnt[ch] = 0)

Known == Inv /\ Data /\ Whole(use) /\ Client /\ \A c \in Chans : Stream(c)
Flow == Client /\ \A c \in Chans : Stream(c)

(* What is known of the data.                                              *)
LEMMA DataFacts ==
  ASSUME Inv, Data
  PROVE  /\ use \in Profiles /\ toHost \in Seq(Sound) /\ BufSize \in Nat \ {0}
         /\ ch \in Chans /\ n \in Nat /\ proc \in Procs /\ step \in Steps
         /\ use.packets \subseteq 1..BufSize /\ use.reads \subseteq 1..BufSize
         /\ rbuf \in [Chans -> [1..BufSize -> Bytes]] /\ delivered \in [Chans -> Seq(Bytes)]
         /\ rindex \in [Chans -> 0..BufSize] /\ rcnt \in [Chans -> 0..BufSize]
         /\ p2hcredit \in [Chans -> Nat] /\ devSent \in [Chans -> Bytes]
         /\ Bytes \subseteq Nat
<1>1. use \in Profiles  BY DEF Inv
<1>2. Bytes \subseteq Nat  BY <1>1, UseFacts DEF Bytes
<1> QED BY <1>1, <1>2, UseFacts DEF Inv, Core, Typed, Data, Buffers, Streamed

(* A channel the step does not touch.                                      *)
LEMMA StreamKept ==
  ASSUME NEW c \in Chans, Stream(c), use' = use, delivered'[c] = delivered[c], rbuf'[c] = rbuf[c],
         rindex'[c] = rindex[c], rcnt'[c] = rcnt[c], devSent'[c] = devSent[c],
         p2hcredit'[c] = p2hcredit[c], BytesOf(toHost', c) = BytesOf(toHost, c),
         Settled(c)' => Settled(c), Opening(c)' => Opening(c)
  PROVE  Stream(c)'
<1>1. Got(c)' = Got(c)  BY DEF Got
<1>2. ASSUME Settled(c) PROVE Flowing(c)'
  <2>1. Flowing(c)  BY <1>2 DEF Stream
  <2> QED BY <1>1, <2>1 DEF Flowing
<1>3. ASSUME Settled(c) PROVE Tidy(c)'
  <2>1. Tidy(c)  BY <1>3 DEF Stream
  <2> QED BY <2>1 DEF Tidy
<1>4. ASSUME Opening(c) PROVE Run(BytesOf(toHost', c), 0, devSent'[c])
  BY <1>4 DEF Stream
<1> QED BY <1>2, <1>3, <1>4 DEF Stream

(* Bytes on the way are those of the data packets.                         *)
LEMMA BytesWithout ==
  ASSUME Inv, NEW p \in Sound, NEW c, ~IsData(p, c)
  PROVE  BytesOf(Append(toHost, p), c) = BytesOf(toHost, c)
<1>1. use \in Profiles /\ toHost \in Seq(Sound)  BY DEF Inv, Core
<1>2. /\ BytesOf(Append(toHost, p), c) = BytesOf(toHost, c) \o Payload(p, c)
      /\ BytesOf(toHost, c) \in Seq(Nat)
  BY <1>1, BytesAppend
<1>3. Payload(p, c) = << >>  BY <1>1, PayloadIs
<1> QED BY <1>2, <1>3, ConcatEmptySeq

LEMMA BytesBehind ==
  ASSUME Inv, Pending, Take, NEW c, ~IsData(Pk, c)
  PROVE  BytesOf(toHost', c) = BytesOf(toHost, c)
<1>1. /\ use \in Profiles /\ toHost \in Seq(Sound) /\ toHost # << >> /\ toHost' = Tail(toHost)
      /\ Pk = Head(toHost) /\ Pk \in Sound
  BY Arrived DEF Inv, Take, Pk
<1>2. /\ BytesOf(toHost, c) = Payload(Head(toHost), c) \o BytesOf(Tail(toHost), c)
      /\ BytesOf(Tail(toHost), c) \in Seq(Nat)
  BY <1>1, BytesTail
<1>3. Payload(Head(toHost), c) = << >>  BY <1>1, PayloadIs
<1> QED BY <1>1, <1>2, <1>3, ConcatEmptySeq

(* What cut_buf gives a client of k bytes of a buffer.                     *)
LEMMA CutFlows ==
  ASSUME Inv, Data, NEW c \in Chans, NEW b, NEW idx \in Nat, NEW k \in Nat, NEW len \in Nat,
         idx + k <= BufSize, CutBuf(c, b, idx, k, len),
         Run(delivered[c], 0, Got(c)), Held(b, idx, k, Got(c))
  PROVE  /\ Run(delivered'[c], 0, Got(c)') /\ Held(rbuf'[c], rindex'[c], rcnt'[c], Got(c)')
         /\ Got(c)' + rcnt'[c] = Got(c) + k /\ Got(c)' = Got(c) + (IF k > len THEN len ELSE k)
         /\ k <= len => rcnt'[c] = 0 /\ rindex'[c] = 0
         /\ \A d \in Chans \ {c} : /\ delivered'[d] = delivered[d] /\ rbuf'[d] = rbuf[d]
                                   /\ rindex'[d] = rindex[d] /\ rcnt'[d] = rcnt[d]
<1> DEFINE take == IF k > len THEN len ELSE k
           At(i) == IF i <= BufSize THEN b[i] ELSE 0
           x == [i \in 1..take |-> At(idx + i)]
           g == Got(c)
<1>1. /\ delivered' = [delivered EXCEPT ![c] = @ \o x]
      /\ rindex' = [rindex EXCEPT ![c] = IF k > len THEN idx + len ELSE 0]
      /\ rcnt' = [rcnt EXCEPT ![c] = k - take]
      /\ rbuf' = [rbuf EXCEPT ![c] = IF k > len THEN b ELSE EmptyBuf]
  BY DEF CutBuf
<1>2. /\ rbuf \in [Chans -> [1..BufSize -> Bytes]] /\ delivered \in [Chans -> Seq(Bytes)]
      /\ rindex \in [Chans -> 0..BufSize] /\ rcnt \in [Chans -> 0..BufSize] /\ BufSize \in Nat
  BY DataFacts
<1>3. take \in Nat /\ take <= k /\ take <= len  OBVIOUS
<1>4. g \in Nat  BY <1>2 DEF Got
<1>5. x = [i \in 1..take |-> g + i]
  <2>1. ASSUME NEW i \in 1..take PROVE At(idx + i) = g + i
    <3>1. i \in 1..k /\ idx + i <= BufSize  BY <1>2, <1>3
    <3> QED BY <3>1 DEF Held
  <2> HIDE DEF take, g, At
  <2> QED BY <2>1
<1> HIDE DEF x
<1>6. Run(x, g, g + take)
  <2> HIDE DEF take, g
  <2> QED BY <1>3, <1>4, <1>5, RunOfPacket
<1>7. delivered'[c] = delivered[c] \o x  BY <1>1, <1>2
<1>8. Run(delivered'[c], 0, g + take)
  <2>1. Run(delivered[c] \o x, 0, g + take)  BY <1>6, RunsJoin
  <2> QED BY <1>7, <2>1
<1>9. Got(c)' = g + take
  <2>1. Len(delivered'[c]) = (g + take) - 0  BY <1>8, RunBounds
  <2>2. Got(c)' = Len(delivered'[c])  BY DEF Got
  <2> HIDE DEF take, g
  <2> QED BY <1>3, <1>4, <2>1, <2>2
<1>10. /\ rcnt'[c] = k - take /\ rindex'[c] = IF k > len THEN idx + len ELSE 0
       /\ rbuf'[c] = IF k > len THEN b ELSE EmptyBuf
  BY <1>1, <1>2
<1>11. Held(rbuf'[c], rindex'[c], rcnt'[c], g + take)
  <2>1. CASE k > len
    <3>1. rcnt'[c] = k - len /\ rindex'[c] = idx + len /\ rbuf'[c] = b /\ take = len  BY <1>10, <2>1
    <3>2. ASSUME NEW i \in 1..k - len PROVE b[(idx + len) + i] = (g + len) + i
      <4>1. len + i \in 1..k  BY <2>1
      <4>2. b[idx + (len + i)] = g + (len + i)  BY <4>1 DEF Held
      <4>3. idx + (len + i) = (idx + len) + i /\ g + (len + i) = (g + len) + i  BY <1>4
      <4> QED BY <4>2, <4>3
    <3> QED BY <3>1, <3>2 DEF Held
  <2>2. CASE k <= len
    <3>1. rcnt'[c] = 0  BY <1>10, <2>2
    <3> QED BY <3>1 DEF Held
  <2> QED BY <2>1, <2>2
<1>12. (g + take) + (k - take) = g + k  BY <1>3, <1>4
<1>13. k <= len => rcnt'[c] = 0 /\ rindex'[c] = 0  BY <1>10
<1>14. \A d \in Chans \ {c} : /\ delivered'[d] = delivered[d] /\ rbuf'[d] = rbuf[d]
                              /\ rindex'[d] = rindex[d] /\ rcnt'[d] = rcnt[d]
  <2> HIDE DEF take
  <2> QED BY <1>1, <1>2
<1> QED BY <1>8, <1>9, <1>10, <1>11, <1>12, <1>13, <1>14
-----------------------------------------------------------------------------
(* Calls of clients, but for a read of what is buffered, touch no stream.  *)
LEMMA ClientFlows ==
  ASSUME Known, UNCHANGED <<use, buf, ta, toHost, dev, delivered>>, proc = "idle",
         NEW c \in Chans, ch' = c, proc' \in Procs \ {"idle"},
         IF proc' = "open" THEN open' = open \cup {c} /\ step' \in {"init", "getsocket"}
                           ELSE open' = open /\ step' # "open" /\ (step' = "data" => rcnt[c] = 0),
         proc' = "read" => n' \in use.reads, step' = "data" => proc' = "read"
  PROVE  Flow'
<1> USE DEF Known
<1>1. ASSUME NEW d \in Chans PROVE Stream(d)'
  <2>1. Settled(d)' => Settled(d)  BY DEF Settled
  <2>2. ~Opening(d)'  BY DEF Opening, dev
  <2> QED BY <2>1, <2>2, StreamKept DEF buf, ta, dev
<1>2. Client'
  <2>1. step' = "data" => rcnt'[ch'] = 0  BY DEF buf
  <2> QED BY <2>1 DEF Client
<1> QED BY <1>1, <1>2 DEF Flow

LEMMA OpenChannelFlows ==
  ASSUME Known, UNCHANGED use, NEW c \in Chans, OpenChannel(c)
  PROVE  Flow'
BY ClientFlows DEF OpenChannel, Idle, Send, Procs

LEMMA CloseChannelFlows ==
  ASSUME Known, UNCHANGED use, NEW c \in Chans, CloseChannel(c)
  PROVE  Flow'
BY ClientFlows DEF CloseChannel, Idle, Send, Procs

LEMMA StartWriteFlows ==
  ASSUME Known, UNCHANGED use, NEW c \in Chans, NEW k \in 1..use.writes, StartWrite(c, k)
  PROVE  Flow'
BY ClientFlows DEF StartWrite, Idle, Procs

LEMMA StartReadFlows ==
  ASSUME Known, UNCHANGED use, NEW c \in Chans, NEW len \in use.reads, StartRead(c, len)
  PROVE  Flow'
<1>1. step' \in {"credit", "data"}  BY DEF StartRead, Send
<1> QED BY <1>1, ClientFlows DEF StartRead, Idle, Procs

(* A read of what is buffered takes what comes next.                       *)
LEMMA ReadBufferedFlows ==
  ASSUME Known, UNCHANGED use, NEW c \in Chans, NEW len \in use.reads, ReadBuffered(c, len)
  PROVE  /\ Flow' /\ Run(delivered'[c], 0, Got(c)') /\ Got(c) < Got(c)' /\ Got(c)' <= devSent[c]
         /\ \A d \in Chans \ {c} : delivered'[d] = delivered[d]
<1> USE DEF Known
<1>1. /\ proc = "idle" /\ c \in open /\ rcnt[c] > 0
      /\ CutBuf(c, rbuf[c], rindex[c], rcnt[c], len)
      /\ UNCHANGED <<call, open, up, ta, toDev, toHost, dev, used>>
  BY DEF ReadBuffered, Idle
<1>2. /\ rcnt[c] \in Nat /\ rindex[c] \in Nat /\ rindex[c] + rcnt[c] <= BufSize
      /\ len \in 1..BufSize /\ BufSize \in Nat /\ p2hcredit[c] \in Nat
  <2>1. Roomy(c)  BY DEF Inv, Core, Channel
  <2> QED BY <2>1, DataFacts DEF Roomy
<1>3. Settled(c) /\ Flowing(c) /\ Tidy(c)
  BY <1>1 DEF Settled, Stream
<1>4. /\ Run(delivered'[c], 0, Got(c)') /\ Held(rbuf'[c], rindex'[c], rcnt'[c], Got(c)')
      /\ Got(c)' + rcnt'[c] = Got(c) + rcnt[c]
      /\ Got(c)' = Got(c) + (IF rcnt[c] > len THEN len ELSE rcnt[c])
      /\ rcnt[c] <= len => rcnt'[c] = 0 /\ rindex'[c] = 0
      /\ \A d \in Chans \ {c} : /\ delivered'[d] = delivered[d] /\ rbuf'[d] = rbuf[d]
                                /\ rindex'[d] = rindex[d] /\ rcnt'[d] = rcnt[d]
  <2>1. Run(delivered[c], 0, Got(c)) /\ Held(rbuf[c], rindex[c], rcnt[c], Got(c))
    BY <1>3 DEF Flowing
  <2>2. len \in Nat  BY <1>2
  <2> QED BY <1>1, <1>2, <2>1, <2>2, CutFlows
<1>5. Got(c) \in Nat
  BY DataFacts DEF Got
<1>6. Run(BytesOf(toHost, c), Got(c) + rcnt[c], devSent[c])  BY <1>3 DEF Flowing
<1>7. Got(c) < Got(c)' /\ Got(c)' <= devSent[c]
  <2>1. Got(c) + rcnt[c] <= devSent[c] /\ devSent[c] \in Nat
    <3>1. Got(c) + rcnt[c] \in Nat  BY <1>2, <1>5
    <3> QED BY <1>6, <3>1, RunBounds
  <2> QED BY <1>1, <1>2, <1>4, <1>5, <2>1
<1>8. Flowing(c)'
  <2>1. Run(BytesOf(toHost', c), Got(c)' + rcnt'[c], devSent'[c])
    BY <1>1, <1>4, <1>6 DEF dev
  <2> QED BY <1>4, <2>1 DEF Flowing
<1>9. Tidy(c)'
  <2>1. UNCHANGED <<p2hcredit, use>>  BY <1>1 DEF ta
  <2>2. ASSUME p2hcredit[c] > 0 PROVE rcnt'[c] = 0 /\ rindex'[c] = 0
    <3>1. rcnt[c] <= len  BY <2>2, <1>3 DEF Tidy
    <3> QED BY <1>4, <3>1
  <2>3. p2hcredit[c] > 1 => FALSE  BY <1>1, <1>3 DEF Tidy
  <2>4. \A r \in use.reads : 0 <= r  BY DataFacts
  <2> QED BY <2>1, <2>2, <2>3, <2>4 DEF Tidy
<1>10. ASSUME NEW d \in Chans PROVE Stream(d)'
  <2>1. Settled(d)' = Settled(d) /\ ~Opening(d)'  BY <1>1 DEF Settled, Opening, call
  <2>2. CASE d = c  BY <1>8, <1>9, <2>1, <2>2 DEF Stream
  <2>3. CASE d # c
    <3>1. /\ delivered'[d] = delivered[d] /\ rbuf'[d] = rbuf[d]
          /\ rindex'[d] = rindex[d] /\ rcnt'[d] = rcnt[d]
      BY <1>4, <2>3
    <3> QED BY <1>1, <2>1, <3>1, StreamKept DEF ta, dev
  <2> QED BY <2>2, <2>3
<1>11. Client'
  <2>1. proc' = "idle" /\ step' = step /\ step = "none"  BY <1>1 DEF call, Inv, Core, Control
  <2> QED BY <2>1 DEF Client
<1> QED BY <1>4, <1>7, <1>10, <1>11 DEF Flow

-----------------------------------------------------------------------------
(* Steps of a call that touch no stream.                                   *)
LEMMA CallFlows ==
  ASSUME Known, UNCHANGED <<use, ch, buf, p2hcredit, toHost, devSent, delivered>>,
         \/ Return /\ open' = open
         \/ UNCHANGED <<proc, n, open>> /\ step' \in Steps \ {"data", "open", "credit"}
         \/ proc = "write" /\ proc' = proc /\ step' = step /\ open' = open,
         proc \in {"write", "read"}
  PROVE  Flow'
<1> USE DEF Known
<1>1. ASSUME NEW d \in Chans PROVE Stream(d)'
  <2>1. Settled(d)' => Settled(d)  BY DEF Settled, Return
  <2>2. ~Opening(d)'  BY DEF Opening, Return
  <2> QED BY <2>1, <2>2, StreamKept DEF buf
<1>2. Client'  BY DEF Client, Return, buf, Inv, Core, Control
<1> QED BY <1>1, <1>2 DEF Flow

LEMMA ForwardDataFlows ==
  ASSUME Known, UNCHANGED use, ForwardData
  PROVE  Flow'
<1>1. proc = "write" \/ proc = "read"
  BY DEF ForwardData, Known, Inv, Core, Control, Typed, Procs
<1>2. proc = "write"  BY <1>1 DEF ForwardData, Known, Inv, Core, Control
<1> QED BY <1>2, CallFlows DEF ForwardData

LEMMA CreditRequestFlows ==
  ASSUME Known, UNCHANGED use, CreditRequest
  PROVE  Flow'
<1>1. proc = "write"
  BY DEF CreditRequest, Known, Inv, Core, Control, Typed, Procs
<1> QED BY <1>1, CallFlows DEF CreditRequest, Send, ta, dev, Steps, Commands

LEMMA ReverseCmdFailsFlows ==
  ASSUME Known, UNCHANGED use, ReverseCmdFails
  PROVE  Flow'
<1>1. proc = "write"
  BY DEF ReverseCmdFails, Known, Inv, Core, Control, Typed, Procs
<1>2. ~(Pending /\ Pk.kind \in {"junk", "error"})
  <2>1. ASSUME Pending PROVE Pk \in Sound  BY <2>1 DEF Known, Inv, Core, Pending, Pk
  <2> QED BY <2>1 DEF Sound
<1> QED BY <1>1, <1>2, CallFlows DEF ReverseCmdFails, ta, dev

LEMMA ReadTimeoutFlows ==
  ASSUME Known, UNCHANGED use, ReadTimeout
  PROVE  Flow'
<1>1. proc = "read"
  BY DEF ReadTimeout, Known, Inv, Core, Control, Typed, Procs
<1> QED BY <1>1, CallFlows DEF ReadTimeout, ta, dev
-----------------------------------------------------------------------------
(* An answer is taken off the pipe: no byte goes with it.                  *)
LEMMA ReplyTakesNoByte ==
  ASSUME Inv, step \in Commands, Pending, ~Plain(Pk), Take, NEW c
  PROVE  BytesOf(toHost', c) = BytesOf(toHost, c)
<1>1. ~IsData(Pk, c)  BY DEF Plain, IsData
<1> QED BY <1>1, BytesBehind

(* A channel the answer says nothing of.                                   *)
LEMMA ReplyKept ==
  ASSUME Known, step \in Commands, Pending, ~Plain(Pk), Take, NEW c \in Chans,
         UNCHANGED <<use, delivered[c], rbuf[c], rindex[c], rcnt[c], devSent, p2hcredit[c]>>,
         Settled(c)' => Settled(c), Opening(c)' => Opening(c)
  PROVE  Stream(c)'
<1>1. BytesOf(toHost', c) = BytesOf(toHost, c)  BY ReplyTakesNoByte DEF Known
<1> QED BY <1>1, StreamKept DEF Known

(* Answers that open no channel.                                           *)
LEMMA AnswerFlows ==
  ASSUME Known, step \in Commands, Pending, ~Plain(Pk), Take,
         UNCHANGED <<use, ch, buf, devSent, delivered>>,
         \A c \in Chans : Settled(c)' => Settled(c) /\ p2hcredit'[c] = p2hcredit[c],
         \A c \in Chans : Opening(c)' => Opening(c) /\ p2hcredit'[c] = p2hcredit[c],
         Client'
  PROVE  Flow'
<1>1. ASSUME NEW c \in Chans PROVE Stream(c)'
  <2>1. CASE Settled(c)' \/ Opening(c)'
    <3>1. UNCHANGED <<use, delivered[c], rbuf[c], rindex[c], rcnt[c], devSent, p2hcredit[c]>>
      BY <2>1 DEF buf
    <3> QED BY <3>1, ReplyKept
  <2>2. CASE ~(Settled(c)' \/ Opening(c)')
    BY <2>2 DEF Stream
  <2> QED BY <2>1, <2>2
<1> QED BY <1>1 DEF Flow

LEMMA ReplyBadFlows ==
  ASSUME Known, UNCHANGED use, ReplyBad, InStep
  PROVE  Flow'
<1>1. Inv /\ Client  BY DEF Known
<1>2. step \in Commands /\ Pending /\ ~Plain(Pk) /\ Take /\ GiveUp
  BY <1>1, Arrived DEF ReplyBad, InStep
<1>3. UNCHANGED <<ch, ta, buf, dev, delivered>>  BY <1>2 DEF GiveUp
<1>4. proc \in {"read", "write", "open", "close"} /\ Control
  BY <1>1, <1>2 DEF GiveUp, Inv, Core
<1>5. \A c \in Chans : (Settled(c)' => Settled(c)) /\ ~Opening(c)'
  BY <1>2, <1>3, <1>4 DEF GiveUp, CloseGoesOn, Return, Send, Settled, Opening
<1>6. Client'
  BY <1>2, <1>3, <1>4 DEF GiveUp, CloseGoesOn, Return, Send, Client
<1> QED BY <1>2, <1>3, <1>5, <1>6, AnswerFlows DEF ta, dev

LEMMA InitReplyFlows ==
  ASSUME Known, UNCHANGED use, InitReply
  PROVE  Flow'
<1>1. Inv /\ Client  BY DEF Known
<1>2. step = "init" /\ step \in Commands /\ Pending /\ ~Plain(Pk) /\ Take
  BY DEF InitReply, Fits, Plain, Commands
<1>3. proc = "open" /\ open = {ch} /\ UNCHANGED <<proc, ch, n, open, buf, dev, delivered>>
      /\ step' = "getsocket"
  BY <1>1, <1>2 DEF InitReply, Send, Inv, Core, Control, Typed, Procs
<1>4. \A c \in Chans : ~Settled(c)' /\ ~Opening(c)'
  BY <1>3 DEF Settled, Opening
<1>5. Client'  BY <1>1, <1>3 DEF Client
<1> QED BY <1>2, <1>3, <1>4, <1>5, AnswerFlows DEF dev

LEMMA GetSocketReplyFlows ==
  ASSUME Known, UNCHANGED use, GetSocketReply
  PROVE  Flow'
<1>1. Inv /\ Client  BY DEF Known
<1>2. step = "getsocket" /\ step \in Commands /\ Pending /\ ~Plain(Pk) /\ Take
  BY DEF GetSocketReply, Fits, Plain, Commands
<1>3. proc = "open" /\ ch \notin devOpen
      /\ UNCHANGED <<proc, ch, n, open, ta, buf, dev, delivered>> /\ step' = "open"
  BY <1>1, <1>2 DEF GetSocketReply, Send, Inv, Core, Control, Call, Fresh, Typed, Procs
<1>4. \A c \in Chans : Settled(c)' = Settled(c) /\ ~Opening(c)'
  BY <1>3 DEF Settled, Opening, dev
<1>5. Client'  BY <1>1, <1>3 DEF Client
<1> QED BY <1>2, <1>3, <1>4, <1>5, AnswerFlows DEF dev, ta

LEMMA CreditRequestReplyFlows ==
  ASSUME Known, UNCHANGED use, CreditRequestReply
  PROVE  Flow'
<1>1. Inv /\ Client  BY DEF Known
<1>2. step = "creditreq" /\ step \in Commands /\ Pending /\ ~Plain(Pk) /\ Take
  BY DEF CreditRequestReply, Fits, Plain, Commands
<1>3. /\ proc = "write" /\ UNCHANGED <<ch, open, p2hcredit, buf, dev, delivered>>
      /\ \/ step' = "loop" /\ proc' = proc
         \/ Return
  BY <1>1, <1>2 DEF CreditRequestReply, Inv, Core, Control, Typed, Procs
<1>4. \A c \in Chans : (Settled(c)' => Settled(c)) /\ ~Opening(c)'
  BY <1>3 DEF Settled, Opening, Return
<1>5. Client'  BY <1>3 DEF Client, Return
<1> QED BY <1>2, <1>3, <1>4, <1>5, AnswerFlows DEF dev

LEMMA CloseReplyFlows ==
  ASSUME Known, UNCHANGED use, CloseReply
  PROVE  Flow'
<1>1. Inv /\ Client  BY DEF Known
<1>2. step \in {"close", "exit"} /\ step \in Commands /\ Pending /\ ~Plain(Pk) /\ Take
  BY DEF CloseReply, Fits, Plain, Commands
<1>3. proc = "close" /\ CloseGoesOn /\ UNCHANGED <<ch, ta, buf, dev, delivered>>
  BY <1>1, <1>2 DEF CloseReply, Inv, Core, Control, Typed, Procs
<1>4. \A c \in Chans : (Settled(c)' => Settled(c)) /\ ~Opening(c)'
  BY <1>2, <1>3 DEF CloseGoesOn, Return, Send, Settled, Opening
<1>5. Client'
  BY <1>2, <1>3 DEF CloseGoesOn, Return, Send, Client
<1> QED BY <1>2, <1>3, <1>4, <1>5, AnswerFlows DEF dev, ta

(* A channel becomes its client's: nothing of it was read, nothing is      *)
(* buffered, and all that was sent is on the way.                          *)
LEMMA OpenedFlows ==
  ASSUME Known, step \in {"open", "credit"}, proc = "open", Pending, ~Plain(Pk), Take, Opened,
         UNCHANGED <<use, ch, open, dev>>, Opening(ch),
         p2hcredit'[ch] \in Nat, p2hcredit'[ch] > 1 => use.phoenix,
         \A c \in Chans \ {ch} : p2hcredit'[c] = p2hcredit[c]
  PROVE  Flow' /\ delivered'[ch] = << >> /\ \A c \in Chans \ {ch} : delivered'[c] = delivered[c]
<1> USE DEF Known
<1>1. step \in Commands  BY DEF Commands
<1>2. /\ rbuf \in [Chans -> [1..BufSize -> Bytes]] /\ delivered \in [Chans -> Seq(Bytes)]
      /\ rindex \in [Chans -> 0..BufSize] /\ rcnt \in [Chans -> 0..BufSize] /\ ch \in Chans
      /\ use.reads \subseteq 1..BufSize /\ BufSize \in Nat
  BY DataFacts
<1>3. /\ rbuf' = [rbuf EXCEPT ![ch] = EmptyBuf] /\ rcnt' = [rcnt EXCEPT ![ch] = 0]
      /\ rindex' = [rindex EXCEPT ![ch] = 0] /\ delivered' = [delivered EXCEPT ![ch] = <<>>]
      /\ proc' = "idle" /\ step' = "none"
  BY DEF Opened, Return
<1>4. delivered'[ch] = << >> /\ rcnt'[ch] = 0 /\ rindex'[ch] = 0 /\ Got(ch)' = 0
  BY <1>2, <1>3 DEF Got
<1>5. Run(BytesOf(toHost', ch), 0, devSent[ch])
  <2>1. Run(BytesOf(toHost, ch), 0, devSent[ch])  BY <1>2 DEF Stream
  <2> QED BY <1>1, <2>1, ReplyTakesNoByte
<1>6. Flowing(ch)'
  <2>1. Run(delivered'[ch], 0, 0)  BY <1>4, RunEmpty
  <2>2. Held(rbuf'[ch], rindex'[ch], rcnt'[ch], Got(ch)')  BY <1>4 DEF Held
  <2>3. Got(ch)' + rcnt'[ch] = 0 /\ devSent'[ch'] = devSent[ch] /\ ch' = ch  BY <1>4 DEF dev
  <2> QED BY <1>4, <1>5, <2>1, <2>2, <2>3 DEF Flowing
<1>7. Tidy(ch)'
  <2>1. \A r \in use.reads : 0 <= r  BY <1>2
  <2> QED BY <1>4, <2>1 DEF Tidy
<1>8. ASSUME NEW c \in Chans PROVE Stream(c)'
  <2>1. CASE c = ch
    <3>1. ~Opening(c)'  BY <1>3 DEF Opening
    <3> QED BY <1>6, <1>7, <2>1, <3>1 DEF Stream
  <2>2. CASE c # ch
    <3>1. UNCHANGED <<use, delivered[c], rbuf[c], rindex[c], rcnt[c], devSent, p2hcredit[c]>>
      BY <1>2, <1>3, <2>2 DEF dev
    <3>2. Settled(c)' = Settled(c) /\ ~Opening(c)'  BY <1>3, <2>2 DEF Settled, Opening
    <3> QED BY <1>1, <3>1, <3>2, ReplyKept
  <2> QED BY <2>1, <2>2
<1>9. Client'  BY <1>3 DEF Client
<1>10. \A c \in Chans \ {ch} : delivered'[c] = delivered[c]  BY <1>2, <1>3
<1> QED BY <1>4, <1>8, <1>9, <1>10 DEF Flow

LEMMA OpenReplyFlows ==
  ASSUME Known, UNCHANGED use, OpenReply
  PROVE  Flow'
<1>1. Inv /\ Client  BY DEF Known
<1>2. step = "open" /\ step \in Commands /\ Pending /\ ~Plain(Pk) /\ Fits(Pk) /\ Take
  BY DEF OpenReply, Fits, Plain, Commands
<1>3. /\ proc = "open" /\ ch \in Chans /\ p2hcredit[ch] = 0
      /\ UNCHANGED <<ch, open, p2hcredit, dev>>
  BY <1>1, <1>2 DEF OpenReply, Inv, Core, Control, Typed, Procs, Call
<1>4. ch \in devOpen
  <2>1. After(Pk.credit)  BY <1>1, <1>2, ReplyAtHead
  <2> QED BY <1>2, <2>1 DEF After
<1>5. Opening(ch)  BY <1>2, <1>3, <1>4 DEF Opening
<1>6. CASE Opened
  BY <1>2, <1>3, <1>5, <1>6, OpenedFlows
<1>7. CASE step' = "credit" /\ UNCHANGED <<proc, n, buf, delivered>>
  <2>1. \A c \in Chans : Settled(c)' = Settled(c) /\ (Opening(c)' => Opening(c))
    BY <1>2, <1>3, <1>7 DEF Settled, Opening, dev
  <2>2. Client'  BY <1>1, <1>3, <1>7 DEF Client
  <2> QED BY <1>2, <1>3, <1>7, <2>1, <2>2, AnswerFlows DEF dev
<1> QED BY <1>6, <1>7 DEF OpenReply, Send

LEMMA CreditReplyFlows ==
  ASSUME Known, UNCHANGED use, CreditReply
  PROVE  Flow'
<1> USE DEF Known
<1>1. step = "credit" /\ step \in Commands /\ Pending /\ ~Plain(Pk) /\ Fits(Pk) /\ Take
  BY DEF CreditReply, Fits, Plain, Commands
<1>2. /\ ch \in open /\ ch \in devOpen /\ p2hcredit[ch] = 0 /\ proc \in {"open", "read"}
      /\ proc = "open" => use.phoenix = TRUE
      /\ proc = "read" => rcnt[ch] = 0
      /\ UNCHANGED <<ch, open, toDev, dev>>
  BY <1>1 DEF CreditReply, Inv, Core, Control, Typed, Procs, Call
<1>3. /\ ch \in Chans /\ p2hcredit \in [Chans -> Nat] /\ CreditMod \in Nat /\ CreditMod > 2
      /\ use.reads \subseteq 1..BufSize /\ BufSize \in Nat
  BY DataFacts, UseFacts DEF Inv
<1>4. (0 + 2) % CreditMod = 2 /\ (0 + 1) % CreditMod = 1  BY <1>3, ModSmall
<1>5. CASE proc = "open"
  <2>1. Opened /\ p2hcredit' = [p2hcredit EXCEPT ![ch] = 2]
    BY <1>2, <1>4, <1>5 DEF CreditReply
  <2>2. Opening(ch)  BY <1>1, <1>2, <1>5 DEF Opening
  <2>3. p2hcredit'[ch] = 2 /\ \A c \in Chans \ {ch} : p2hcredit'[c] = p2hcredit[c]
    BY <1>3, <2>1
  <2> QED BY <1>1, <1>2, <1>5, <2>1, <2>2, <2>3, OpenedFlows
<1>6. CASE proc = "read"
  <2>1. /\ step' = "data" /\ p2hcredit' = [p2hcredit EXCEPT ![ch] = 1]
        /\ UNCHANGED <<proc, n, buf, delivered>>
    BY <1>2, <1>4, <1>6 DEF CreditReply
  <2>2. ASSUME NEW c \in Chans PROVE Stream(c)'
    <3>1. Settled(c)' = Settled(c) /\ ~Opening(c)'  BY <1>2, <1>6, <2>1 DEF Settled, Opening
    <3>2. CASE c # ch
      <4>1. UNCHANGED <<use, delivered[c], rbuf[c], rindex[c], rcnt[c], devSent, p2hcredit[c]>>
        BY <1>2, <1>3, <2>1, <3>2 DEF buf, dev
      <4> QED BY <1>1, <3>1, <4>1, ReplyKept
    <3>3. CASE c = ch
      <4>1. Settled(c)  BY <1>2, <1>6, <3>3 DEF Settled
      <4>2. Flowing(c)  BY <4>1 DEF Stream
      <4>3. BytesOf(toHost', c) = BytesOf(toHost, c)  BY <1>1, ReplyTakesNoByte
      <4>4. Got(c)' = Got(c)  BY <2>1 DEF Got
      <4>5. Flowing(c)'  BY <1>2, <2>1, <4>2, <4>3, <4>4 DEF Flowing, buf, dev
      <4>6. Tidy(c)'
        <5>1. rcnt'[c] = 0 /\ rindex'[c] = 0 /\ p2hcredit'[c] = 1
          <6>1. Roomy(c)  BY DEF Inv, Core, Channel
          <6> QED BY <1>2, <1>3, <1>6, <2>1, <3>3, <6>1 DEF buf, Roomy
        <5>2. \A r \in use.reads : 0 <= r  BY <1>3
        <5> QED BY <5>1, <5>2 DEF Tidy
      <4> QED BY <3>1, <4>5, <4>6 DEF Stream
    <3> QED BY <3>2, <3>3
  <2>3. Client'  BY <1>2, <1>6, <2>1 DEF Client, buf
  <2> QED BY <2>2, <2>3 DEF Flow
<1> QED BY <1>2, <1>5, <1>6
-----------------------------------------------------------------------------
(* What Dot4ExecReverseCmd appends to a buffer that begins with its first  *)
(* byte follows what is there.                                             *)
LEMMA FilledHeld ==
  ASSUME BufSize \in Nat, NEW b, NEW k \in Nat, NEW g \in Nat, NEW p, p.len \in Nat, p.from = g + k,
         k + p.len <= BufSize, Held(b, 0, k, g)
  PROVE  Held(Filled(b, k, p), 0, k + p.len, g)
<1> DEFINE l == p.len
           F == Filled(b, k, p)
<1>1. ASSUME NEW i \in 1..k + l PROVE F[0 + i] = g + i
  <2>1. 0 + i = i /\ i \in 1..BufSize  OBVIOUS
  <2>2. F[i] = IF i \in k + 1 .. k + l THEN p.from + i - k ELSE b[i]
    BY <2>1 DEF Filled
  <2>3. CASE i <= k
    <3>1. i \notin k + 1 .. k + l /\ i \in 1..k  BY <2>3
    <3>2. b[0 + i] = g + i  BY <3>1 DEF Held
    <3> QED BY <2>1, <2>2, <3>1, <3>2
  <2>4. CASE i > k
    <3>1. i \in k + 1 .. k + l  BY <2>4
    <3>2. p.from + i - k = g + i  OBVIOUS
    <3> QED BY <2>1, <2>2, <3>1, <3>2
  <2>5. i <= k \/ i > k  OBVIOUS
  <2> QED BY <2>3, <2>4, <2>5
<1> QED BY <1>1 DEF Held

(* The data at the head of the pipe is what comes next on its channel.     *)
LEMMA DataIsNext ==
  ASSUME Inv, Data, Pending, Take, NEW c \in Chans, IsData(Pk, c), Flowing(c)
  PROVE  /\ Got(c) \in Nat /\ rcnt[c] \in Nat /\ Pk.len \in 1..BufSize /\ Pk.len \in use.packets
         /\ Pk.from = Got(c) + rcnt[c]
         /\ Run(BytesOf(toHost', c), (Got(c) + rcnt[c]) + Pk.len, devSent[c])
<1>1. /\ toHost \in Seq(Sound) /\ toHost # << >> /\ toHost' = Tail(toHost) /\ Pk = Head(toHost)
      /\ Pk.len \in use.packets /\ Pk.len \in 1..BufSize
  BY Arrived DEF Take, Pk, IsData
<1>2. Got(c) \in Nat /\ rcnt[c] \in Nat /\ Got(c) + rcnt[c] \in Nat /\ use \in Profiles
  <2>1. Got(c) \in Nat /\ rcnt[c] \in Nat  BY DataFacts DEF Got
  <2> QED BY <2>1, DataFacts
<1>3. Run(BytesOf(toHost, c), Got(c) + rcnt[c], devSent[c])  BY DEF Flowing
<1>4. /\ Pk.from = Got(c) + rcnt[c]
      /\ Run(BytesOf(Tail(toHost), c), (Got(c) + rcnt[c]) + Pk.len, devSent[c])
  <2> DEFINE a == Got(c) + rcnt[c]
             b == devSent[c]
  <2>1. a \in Nat /\ Run(BytesOf(toHost, c), a, b)  BY <1>2, <1>3
  <2> HIDE DEF a, b
  <2>2. Head(toHost).from = a /\ Run(BytesOf(Tail(toHost), c), a + Head(toHost).len, b)
    BY <1>1, <1>2, <2>1, RunTaken
  <2> QED BY <1>1, <2>2 DEF a, b
<1> QED BY <1>1, <1>2, <1>4

(* A packet handled while the host waits for something else.               *)
LEMMA HandledFlows ==
  ASSUME Known, UNCHANGED <<use, call, open, dev, delivered>>, Pending, Plain(Pk),
         ExecReverseCmd(Pk), Take, step = "data" => ~IsData(Pk, ch)
  PROVE  Flow'
<1> USE DEF Known
<1>1. /\ Pk.kind \in {"credit", "data"} /\ Pk.ch \in Chans
      /\ Pk.kind = "data" => Pk.len \in use.packets /\ Pk.len \in 1..BufSize
  BY Arrived DEF Plain
<1>2. Pk.kind = "data" => Steady(Pk.ch)  BY NotEarly DEF Steady, IsData
<1>3. Pk.kind = "data" => /\ Room(Pk) /\ p2hcredit[Pk.ch] > 0
                          /\ rindex[Pk.ch] + rcnt[Pk.ch] + Pk.len <= BufSize
  BY <1>2, RoomForData
<1>4. \/ /\ Pk.kind = "credit" /\ UNCHANGED <<p2hcredit, buf>>
      \/ /\ Pk.kind = "data"
         /\ rbuf' = [rbuf EXCEPT ![Pk.ch] = Filled(@, rcnt[Pk.ch], Pk)]
         /\ rcnt' = [rcnt EXCEPT ![Pk.ch] = @ + Pk.len]
         /\ p2hcredit' = [p2hcredit EXCEPT ![Pk.ch] = @ - 1]
         /\ UNCHANGED rindex
  BY <1>1, <1>3 DEF ExecReverseCmd
<1>5. /\ rbuf \in [Chans -> [1..BufSize -> Bytes]] /\ rcnt \in [Chans -> 0..BufSize]
      /\ p2hcredit \in [Chans -> Nat] /\ BufSize \in Nat /\ use.packets \subseteq 1..BufSize
      /\ use.reads \subseteq 1..BufSize
  BY DataFacts
<1>6. \A c : Settled(c)' = Settled(c) /\ Opening(c)' = Opening(c)
  BY DEF Settled, Opening, call, dev
<1>7. ASSUME NEW c \in Chans, ~IsData(Pk, c) PROVE Stream(c)'
  <2>1. BytesOf(toHost', c) = BytesOf(toHost, c)  BY <1>7, BytesBehind
  <2>2. rbuf'[c] = rbuf[c] /\ rcnt'[c] = rcnt[c] /\ rindex'[c] = rindex[c] /\ p2hcredit'[c] = p2hcredit[c]
    BY <1>4, <1>5, <1>7 DEF IsData, buf
  <2> QED BY <1>6, <2>1, <2>2, StreamKept DEF dev
<1>8. ASSUME NEW c \in Chans, IsData(Pk, c) PROVE Stream(c)'
  <2>1. c = Pk.ch /\ Pk.kind = "data"  BY <1>8 DEF IsData
  <2>2. ~Opening(c)
    <3>1. ASSUME Opening(c) PROVE FALSE
      <4>1. c = ch /\ step \in {"open", "credit"}  BY <3>1 DEF Opening
      <4> QED BY <1>8, <4>1, NotEarly DEF IsData
    <3> QED BY <3>1
  <2>3. SUFFICES ASSUME Settled(c) PROVE Flowing(c)' /\ Tidy(c)'
    BY <1>6, <2>2 DEF Stream
  <2>4. Flowing(c) /\ Tidy(c)  BY <2>3 DEF Stream
  <2>5. /\ Got(c) \in Nat /\ rcnt[c] \in Nat /\ Pk.len \in 1..BufSize /\ Pk.len \in use.packets
        /\ Pk.from = Got(c) + rcnt[c]
        /\ Run(BytesOf(toHost', c), (Got(c) + rcnt[c]) + Pk.len, devSent[c])
    BY <1>8, <2>4, DataIsNext
  <2>6. rindex[c] = 0 /\ p2hcredit[c] > 0 /\ rcnt[c] + Pk.len <= BufSize
    <3>1. p2hcredit[c] > 0  BY <1>3, <2>1
    <3>2. rindex[c] = 0  BY <2>4, <3>1 DEF Tidy
    <3> QED BY <1>3, <2>1, <2>5, <3>1, <3>2
  <2>7. /\ rbuf'[c] = Filled(rbuf[c], rcnt[c], Pk) /\ rcnt'[c] = rcnt[c] + Pk.len
        /\ rindex'[c] = 0 /\ p2hcredit'[c] = p2hcredit[c] - 1
    BY <1>4, <1>5, <2>1, <2>6
  <2>8. Got(c)' = Got(c)  BY DEF Got
  <2>9. Flowing(c)'
    <3>1. Run(delivered'[c], 0, Got(c)')  BY <2>4, <2>8 DEF Flowing
    <3>2. Held(rbuf'[c], 0, rcnt[c] + Pk.len, Got(c))
      <4>1. Held(rbuf[c], 0, rcnt[c], Got(c))  BY <2>4, <2>6 DEF Flowing
      <4>2. Pk.len \in Nat  BY <2>5
      <4> QED BY <1>5, <2>5, <2>6, <2>7, <4>1, <4>2, FilledHeld
    <3>3. (Got(c) + rcnt[c]) + Pk.len = Got(c) + (rcnt[c] + Pk.len)
      <4>1. Pk.len \in Nat  BY <2>5
      <4> QED BY <2>5, <4>1
    <3> QED BY <2>5, <2>7, <2>8, <3>1, <3>2, <3>3 DEF Flowing, dev
  <2>10. Tidy(c)'
    <3>1. Roomy(c) /\ p2hcredit[c] \in Nat  BY DEF Inv, Core, Channel, Typed
    <3>2. p2hcredit[c] \in {1, 2}  BY <2>6, <3>1 DEF Roomy
    <3>3. CASE p2hcredit[c] = 1
      <4>1. p2hcredit'[c] = 0  BY <2>7, <3>3
      <4> QED BY <4>1 DEF Tidy
    <3>4. CASE p2hcredit[c] = 2
      <4>1. p2hcredit'[c] = 1 /\ rcnt[c] = 0 /\ use.phoenix  BY <2>4, <2>7, <3>4 DEF Tidy
      <4>2. Pk.len \in Nat  BY <2>5
      <4>3. rcnt'[c] = Pk.len  BY <2>7, <4>1, <4>2
      <4>4. \A r \in use.reads : Pk.len <= r  BY <2>5, <4>1 DEF Whole
      <4> QED BY <2>7, <4>1, <4>3, <4>4 DEF Tidy
    <3> QED BY <3>2, <3>3, <3>4
  <2> QED BY <2>9, <2>10
<1>9. Client'
  <2>1. ASSUME step = "data" PROVE rcnt'[ch] = rcnt[ch]
    <3>1. ch \in Chans  BY DataFacts
    <3>2. Pk.kind = "data" => Pk.ch # ch  BY <2>1 DEF IsData
    <3> QED BY <1>4, <1>5, <3>1, <3>2 DEF buf
  <2> QED BY <2>1 DEF Client, call
<1> QED BY <1>7, <1>8, <1>9 DEF Flow

LEMMA ReplyMeanwhileFlows ==
  ASSUME Known, UNCHANGED use, ReplyMeanwhile
  PROVE  Flow'
<1>1. Plain(Pk)  BY Arrived DEF ReplyMeanwhile, Known
<1>2. step # "data"  BY DEF ReplyMeanwhile, Commands
<1> QED BY <1>1, <1>2, HandledFlows DEF ReplyMeanwhile

LEMMA ReverseCmdFlows ==
  ASSUME Known, UNCHANGED use, ReverseCmd
  PROVE  Flow'
<1>1. step \notin Commands /\ step # "data"  BY DEF ReverseCmd, Commands
<1>2. Plain(Pk)  BY <1>1, NoReply DEF ReverseCmd, Known
<1> QED BY <1>1, <1>2, HandledFlows DEF ReverseCmd

LEMMA ReadMeanwhileFlows ==
  ASSUME Known, UNCHANGED use, ReadMeanwhile
  PROVE  Flow'
<1>1. step \notin Commands  BY DEF ReadMeanwhile, Commands
<1>2. Plain(Pk)  BY <1>1, NoReply DEF ReadMeanwhile, Known
<1>3. ~IsData(Pk, ch)  BY DEF ReadMeanwhile, IsData
<1> QED BY <1>2, <1>3, HandledFlows DEF ReadMeanwhile

(* A read gets what comes next.                                            *)
LEMMA ReadDataFlows ==
  ASSUME Known, UNCHANGED use, ReadData, NEW c \in Chans, c = ch
  PROVE  /\ Flow' /\ Run(delivered'[c], 0, Got(c)')
         /\ (n > 0 => Got(c) < Got(c)') /\ Got(c)' <= devSent[c]
         /\ \A d \in Chans \ {c} : delivered'[d] = delivered[d]
<1> USE DEF Known
<1>1. /\ Pending /\ Plain(Pk) /\ IsData(Pk, c) /\ Take /\ step = "data" /\ Steady(Pk.ch)
      /\ proc = "read" /\ c \in open /\ Pk.kind = "data" /\ Pk.ch = c
  BY DEF ReadData, Plain, IsData, Inv, Core, Control, Typed, Procs, Steady
<1>2. /\ p2hcredit' = [p2hcredit EXCEPT ![c] = @ - 1]
      /\ CutBuf(c, Filled(EmptyBuf, 0, Pk), 0, Pk.len, n)
      /\ Return /\ UNCHANGED <<ch, open, dev>>
  BY DEF ReadData, Received
<1>3. /\ c \in Chans /\ n \in use.reads /\ n \in Nat /\ rcnt[c] = 0 /\ BufSize \in Nat
      /\ p2hcredit \in [Chans -> Nat] /\ use.reads \subseteq 1..BufSize
  BY <1>1, DataFacts DEF Client
<1>4. Settled(c) /\ Flowing(c) /\ Tidy(c)
  BY <1>1, <1>3 DEF Settled, Stream
<1>5. /\ Got(c) \in Nat /\ Pk.len \in 1..BufSize /\ Pk.len \in use.packets /\ Pk.len \in Nat
      /\ Pk.from = Got(c) + 0
      /\ Run(BytesOf(toHost', c), (Got(c) + 0) + Pk.len, devSent[c])
  <2>1. Pk.len \in 1..BufSize => Pk.len \in Nat  OBVIOUS
  <2> QED BY <1>1, <1>3, <1>4, <2>1, DataIsNext
<1>6. Held(Filled(EmptyBuf, 0, Pk), 0, Pk.len, Got(c))
  <2>1. Held(EmptyBuf, 0, 0, Got(c))  BY DEF Held
  <2>2. Held(Filled(EmptyBuf, 0, Pk), 0, 0 + Pk.len, Got(c))
    <3>1. 0 + Pk.len <= BufSize  BY <1>3, <1>5
    <3> QED BY <1>3, <1>5, <2>1, <3>1, FilledHeld
  <2>3. 0 + Pk.len = Pk.len  BY <1>5
  <2> QED BY <2>2, <2>3
<1>7. /\ Run(delivered'[c], 0, Got(c)') /\ Held(rbuf'[c], rindex'[c], rcnt'[c], Got(c)')
      /\ Got(c)' + rcnt'[c] = Got(c) + Pk.len
      /\ Got(c)' = Got(c) + (IF Pk.len > n THEN n ELSE Pk.len)
      /\ Pk.len <= n => rcnt'[c] = 0 /\ rindex'[c] = 0
      /\ \A d \in Chans \ {c} : /\ delivered'[d] = delivered[d] /\ rbuf'[d] = rbuf[d]
                                 /\ rindex'[d] = rindex[d] /\ rcnt'[d] = rcnt[d]
  <2>1. Run(delivered[c], 0, Got(c))  BY <1>4 DEF Flowing
  <2>2. 0 + Pk.len <= BufSize  BY <1>3, <1>5
  <2> DEFINE b == Filled(EmptyBuf, 0, Pk)
             k == Pk.len
  <2>3. CutBuf(c, b, 0, k, n) /\ Held(b, 0, k, Got(c)) /\ 0 + k <= BufSize /\ k \in Nat
    BY <1>2, <1>5, <1>6, <2>2
  <2> HIDE DEF b, k
  <2>4. /\ Run(delivered'[c], 0, Got(c)') /\ Held(rbuf'[c], rindex'[c], rcnt'[c], Got(c)')
        /\ Got(c)' + rcnt'[c] = Got(c) + k /\ Got(c)' = Got(c) + (IF k > n THEN n ELSE k)
        /\ k <= n => rcnt'[c] = 0 /\ rindex'[c] = 0
        /\ \A d \in Chans \ {c} : /\ delivered'[d] = delivered[d] /\ rbuf'[d] = rbuf[d]
                                   /\ rindex'[d] = rindex[d] /\ rcnt'[d] = rcnt[d]
    BY <1>3, <2>1, <2>3, CutFlows
  <2> QED BY <2>4 DEF k
<1>8. (Got(c) + 0) + Pk.len = Got(c) + Pk.len  BY <1>5
<1>9. Flowing(c)'
  <2>1. Run(BytesOf(toHost', c), Got(c)' + rcnt'[c], devSent'[c])
    BY <1>2, <1>5, <1>7, <1>8 DEF dev
  <2>2. ch' = c  BY <1>2
  <2> QED BY <1>7, <2>1, <2>2 DEF Flowing, Got
<1>10. Tidy(c)'
  <2>1. p2hcredit'[c] = p2hcredit[c] - 1  BY <1>2, <1>3
  <2>2. p2hcredit[c] \in {1, 2}
    <3>1. Roomy(c)  BY <1>3 DEF Inv, Core, Channel
    <3>2. p2hcredit[c] \in Nat /\ p2hcredit[c] > 0  BY <1>1, <1>3, RoomForData
    <3> QED BY <3>1, <3>2 DEF Roomy
  <2>3. CASE p2hcredit[c] = 1
    <3>1. p2hcredit'[c] = 0  BY <2>1, <2>3
    <3> QED BY <1>2, <3>1 DEF Tidy
  <2>4. CASE p2hcredit[c] = 2
    <3>1. use.phoenix  BY <1>4, <2>4 DEF Tidy
    <3>2. Pk.len <= n  BY <1>3, <1>5, <3>1 DEF Whole
    <3>3. p2hcredit'[c] = 1 /\ rcnt'[c] = 0 /\ rindex'[c] = 0  BY <1>7, <2>1, <2>4, <3>2
    <3>4. \A r \in use.reads : 0 <= r  BY <1>3
    <3> QED BY <1>2, <3>3, <3>4 DEF Tidy
  <2> QED BY <2>2, <2>3, <2>4
<1>11. ASSUME NEW d \in Chans PROVE Stream(d)'
  <2>1. Settled(d)' = Settled(d) /\ ~Opening(d)'  BY <1>1, <1>2 DEF Settled, Opening, Return
  <2>2. CASE d = c
    <3>1. d = c /\ ch' = c  BY <1>2, <2>2
    <3> QED BY <1>9, <1>10, <2>1, <3>1 DEF Stream, Flowing, Tidy, Got
  <2>3. CASE d # c
    <3>1. /\ delivered'[d] = delivered[d] /\ rbuf'[d] = rbuf[d]
          /\ rindex'[d] = rindex[d] /\ rcnt'[d] = rcnt[d] /\ p2hcredit'[d] = p2hcredit[d]
      BY <1>2, <1>3, <1>7, <2>3
    <3>2. BytesOf(toHost', d) = BytesOf(toHost, d)
      BY <1>1, <2>3, BytesBehind DEF IsData
    <3> QED BY <1>2, <2>1, <3>1, <3>2, StreamKept DEF dev
  <2> QED BY <2>2, <2>3
<1>12. Client'  BY <1>2 DEF Client, Return
<1>13. (n > 0 => Got(c) < Got(c)') /\ Got(c)' <= devSent[c]
  <2>1. Got(c) + Pk.len <= devSent[c] /\ devSent[c] \in Nat
    <3>1. (Got(c) + 0) + Pk.len \in Nat  BY <1>5
    <3> QED BY <1>5, <1>8, <3>1, RunBounds
  <2> DEFINE g == Got(c)
             l == Pk.len
             x == Got(c)'
  <2>2. x = g + (IF l > n THEN n ELSE l) /\ g + l <= devSent[c] /\ g \in Nat /\ l \in Nat /\ l > 0 /\ n \in Nat
    BY <1>3, <1>5, <1>7, <2>1
  <2> HIDE DEF g, l, x
  <2>3. (n > 0 => g < x) /\ x <= devSent[c]  BY <2>1, <2>2
  <2> QED BY <2>3 DEF g, x
<1> QED BY <1>7, <1>11, <1>12, <1>13 DEF Flow
-----------------------------------------------------------------------------
(* What the peripheral sends, but for data, carries no bytes.              *)
LEMMA SendFlows ==
  ASSUME Known, UNCHANGED <<use, call, open, buf, p2hcredit, delivered>>,
         NEW p \in Sound, p.kind # "data", toHost' = Append(toHost, p),
         \A c \in Chans : Opening(c)' => Opening(c) \/ (step = "open" /\ c = ch /\ devSent'[c] = 0),
         \A c \in Chans : Settled(c) \/ Opening(c) => devSent'[c] = devSent[c],
         step = "open" => ch \in devOpen \/ Before
  PROVE  Flow'
<1> USE DEF Known
<1>1. /\ use \in Profiles /\ toHost \in Seq(Sound)
  BY DEF Inv, Core
<1>2. ASSUME NEW c \in Chans PROVE BytesOf(toHost', c) = BytesOf(toHost, c)
  BY BytesWithout DEF IsData
<1>3. ASSUME NEW c \in Chans PROVE Stream(c)'
  <2>1. Settled(c)' = Settled(c)  BY DEF Settled, call
  <2>2. CASE Opening(c)' /\ ~Opening(c)
    <3>1. step = "open" /\ c = ch /\ devSent'[c] = 0 /\ proc' = "open"  BY <2>2 DEF Opening
    <3>2. ~Settled(c)'  BY <3>1 DEF Settled, call
    <3>3. c \notin devOpen  BY <2>2, <3>1 DEF Opening, call
    <3>4. Absent(toHost, c)  BY <3>1, <3>3 DEF Before, Fresh
    <3>5. DataOf(toHost, c) = 0  BY <1>1, <3>4, NoData
    <3>6. \A i \in 1..Len(toHost) : ~IsData(toHost[i], c)  BY <1>1, <3>5, NoData
    <3>7. BytesOf(toHost', c) = << >>  BY <1>1, <1>2, <3>6, BytesNone
    <3>8. Run(BytesOf(toHost', c), 0, devSent'[c])  BY <3>1, <3>7, RunEmpty
    <3> QED BY <3>2, <3>8 DEF Stream
  <2>3. CASE (Settled(c)' \/ Opening(c)') /\ (Opening(c)' => Opening(c))
    <3>1. devSent'[c] = devSent[c]  BY <2>1, <2>3
    <3> QED BY <1>2, <2>1, <2>3, <3>1, StreamKept DEF buf
  <2>4. CASE ~(Settled(c)' \/ Opening(c)')
    BY <2>4 DEF Stream
  <2> QED BY <2>2, <2>3, <2>4
<1>4. Client'  BY DEF Client, call, buf
<1> QED BY <1>3, <1>4 DEF Flow

(* A reply of the peripheral is sound.                                     *)
LEMMA ReplyIsSound ==
  ASSUME Inv, toDev # << >>, NEW ok \in BOOLEAN, NEW k \in 0..use.credit
  PROVE  /\ Rep(ok, k) \in Sound /\ Rep(ok, k).kind = "reply"
<1>1. step \in Commands /\ ch \in Chans  BY CommandAtHead DEF Inv, Core, Typed
<1> DEFINE r == Rep(ok, k)
<1>2. r \in [kind : {"reply"}, cmd : Commands, ch : Chans, ok : BOOLEAN, credit : 0..use.credit]
  BY <1>1 DEF Rep
<1>3. r \in Packet  BY <1>2 DEF Packet
<1>4. r.kind = "reply"  BY DEF Rep
<1> HIDE DEF r
<1>5. r \in Sound  BY <1>3, <1>4 DEF Sound
<1> QED BY <1>4, <1>5 DEF r

LEMMA DevRefuseFlows ==
  ASSUME Known, UNCHANGED use, DevRefuse
  PROVE  Flow' /\ UNCHANGED <<devSent, devCredit, delivered, call, open>>
<1>1. Inv /\ Client  BY DEF Known
<1>2. /\ toDev # << >> /\ toHost' = Append(toHost, Rep(FALSE, 0)) /\ Before
      /\ UNCHANGED <<call, open, up, ta, buf, dev, delivered>>
  BY <1>1, CommandAtHead DEF DevRefuse, Answer, Rep, Asking
<1>3. 0 \in 0..use.credit  BY <1>1, UseFacts DEF Inv
<1>4. Rep(FALSE, 0) \in Sound /\ Rep(FALSE, 0).kind = "reply"  BY <1>1, <1>2, <1>3, ReplyIsSound
<1>5. \A c : Opening(c)' = Opening(c)  BY <1>2 DEF Opening, call, dev
<1>6. Rep(FALSE, 0).kind # "data" /\ devSent' = devSent  BY <1>2, <1>4 DEF dev
<1> QED BY <1>2, <1>4, <1>5, <1>6, SendFlows DEF ta, dev

(* The peripheral's answer touches the streams of no channel held, and its *)
(* credit at most by a grant.                                              *)
LEMMA DevAnswerFlows ==
  ASSUME Known, UNCHANGED use, DevAnswer
  PROVE  /\ Flow' /\ UNCHANGED <<call, open, delivered>>
         /\ \A c \in Chans : Settled(c) => /\ devSent'[c] = devSent[c]
                                           /\ c # ch => devCredit'[c] = devCredit[c]
                                           /\ devCredit'[c] >= devCredit[c]
<1> USE DEF Known
<1>1. /\ step \in Commands /\ toDev # << >> /\ ch \in Chans /\ Before
      /\ Head(toDev).cmd = step /\ Head(toDev).ch = ch
      /\ UNCHANGED <<call, open, up, ta, buf, delivered>>
  BY CommandAtHead DEF DevAnswer, Inv, Core, Typed, Asking
<1>2. PICK k \in 0..use.credit :
         toHost' = Append(toHost, [kind |-> "reply", cmd |-> step, ch |-> ch, ok |-> TRUE, credit |-> k])
  <2>1. 0 \in 0..use.credit /\ use.credit \in Nat  BY UseFacts DEF Inv
  <2>2. CASE step \in {"init", "exit", "getsocket", "close", "credit", "open"}
    BY <1>1, <2>1, <2>2 DEF DevAnswer, Answer
  <2>3. CASE step = "creditreq"
    <3>1. PICK k \in 0 .. use.credit - devCredit[ch] : Answer("creditreq", ch, TRUE, k)
      BY <1>1, <2>3 DEF DevAnswer
    <3>2. devCredit[ch] \in Nat  BY <1>1 DEF Inv, Core, Typed
    <3>3. k \in 0..use.credit  BY <2>1, <3>1, <3>2
    <3> QED BY <2>3, <3>1, <3>3 DEF Answer
  <2> QED BY <1>1, <2>2, <2>3 DEF Commands
<1>3. Rep(TRUE, k) \in Sound /\ Rep(TRUE, k).kind # "data" /\ toHost' = Append(toHost, Rep(TRUE, k))
  <2>1. Rep(TRUE, k) \in Sound /\ Rep(TRUE, k).kind = "reply"  BY <1>1, ReplyIsSound
  <2> QED BY <1>2, <2>1 DEF Rep
<1>4. devSent \in [Chans -> Bytes] /\ devCredit \in [Chans -> Nat] /\ Control
  BY DataFacts DEF Inv, Core, Typed
<1>a. ASSUME \A c \in Chans : Opening(c)' => Opening(c) \/ (step = "open" /\ c = ch /\ devSent'[c] = 0),
             \A c \in Chans : Settled(c) \/ Opening(c) => devSent'[c] = devSent[c]
      PROVE  Flow' /\ UNCHANGED <<call, open, delivered>>
  BY <1>1, <1>3, <1>a, SendFlows DEF ta
<1>b. \A c \in Chans : devCredit'[c] = devCredit[c] => devCredit'[c] >= devCredit[c]
  BY <1>4
<1>5. CASE step \in {"init", "exit"}
  <2>1. devSent' = devSent /\ devOpen' = {} /\ open = {ch} /\ proc \in {"open", "close"}
    BY <1>1, <1>4, <1>5 DEF DevAnswer, Control, Inv, Core, Typed, Procs
  <2>2. \A c \in Chans : ~Settled(c) /\ ~Opening(c)'  BY <2>1 DEF Settled, Opening
  <2> QED BY <1>a, <2>1, <2>2
<1>6. CASE step = "getsocket"
  <2>1. UNCHANGED dev  BY <1>1, <1>6 DEF DevAnswer
  <2>2. \A c : Opening(c)' = Opening(c)  BY <1>1, <2>1 DEF Opening, call, dev
  <2> QED BY <1>a, <1>b, <2>1, <2>2 DEF dev
<1>7. CASE step = "open"
  <2>1. /\ devOpen' = devOpen \cup {ch} /\ devSent' = [devSent EXCEPT ![ch] = 0]
        /\ \E j : devCredit' = [devCredit EXCEPT ![ch] = j]
        /\ proc = "open" /\ ch \notin devOpen
    BY <1>1, <1>4, <1>7 DEF DevAnswer, Control, Inv, Core, Typed, Procs
  <2>2. ~Settled(ch) /\ ~Opening(ch)  BY <2>1 DEF Settled, Opening
  <2>3. \A c \in Chans : Settled(c) \/ Opening(c) => devSent'[c] = devSent[c] /\ devCredit'[c] = devCredit[c]
    BY <1>4, <2>1, <2>2
  <2>4. \A c \in Chans : Opening(c)' => c = ch /\ devSent'[c] = 0
    BY <1>1, <1>4, <2>1 DEF Opening, call
  <2> QED BY <1>7, <1>a, <1>b, <2>3, <2>4
<1>8. CASE step = "close"
  <2>1. /\ devSent' = devSent /\ devCredit' = [devCredit EXCEPT ![ch] = 0] /\ proc = "close"
    BY <1>1, <1>4, <1>8 DEF DevAnswer, Control, Inv, Core, Typed, Procs
  <2>2. ~Settled(ch) /\ \A c \in Chans : ~Opening(c)'  BY <1>1, <1>8, <2>1 DEF Settled, Opening, call
  <2>3. \A c \in Chans : Settled(c) => devCredit'[c] = devCredit[c]  BY <1>4, <2>1, <2>2
  <2> QED BY <1>a, <1>b, <2>1, <2>2, <2>3
<1>9. CASE step = "credit"
  <2>1. UNCHANGED <<devSent, devOpen, devCredit>>  BY <1>1, <1>9 DEF DevAnswer
  <2>2. \A c : Opening(c)' = Opening(c)  BY <1>1, <2>1 DEF Opening, call
  <2> QED BY <1>a, <1>b, <2>1, <2>2
<1>10. CASE step = "creditreq"
  <2>1. /\ UNCHANGED <<devSent, devOpen>>
        /\ \E j \in 0 .. use.credit - devCredit[ch] : devCredit' = [devCredit EXCEPT ![ch] = @ + j]
    BY <1>1, <1>10 DEF DevAnswer
  <2>2. PICK j \in 0 .. use.credit - devCredit[ch] : devCredit' = [devCredit EXCEPT ![ch] = @ + j]
    BY <2>1
  <2>3. j \in Nat  BY <1>1, <1>4, UseFacts DEF Inv
  <2>4. \A c \in Chans : devCredit'[c] >= devCredit[c] /\ (c # ch => devCredit'[c] = devCredit[c])
    BY <1>1, <1>4, <2>2, <2>3
  <2>5. \A c \in Chans : ~Opening(c)'  BY <1>1, <1>10 DEF Opening, call
  <2> QED BY <1>a, <2>1, <2>4, <2>5
<1> QED BY <1>1, <1>5, <1>6, <1>7, <1>8, <1>9, <1>10 DEF Commands

LEMMA DevCreditFlows ==
  ASSUME Known, UNCHANGED use, NEW c \in Chans, DevCredit(c)
  PROVE  /\ Flow' /\ UNCHANGED <<devSent, delivered, call, open>>
         /\ devCredit' = [devCredit EXCEPT ![c] = @ + 1]
<1> DEFINE p == [kind |-> "credit", ch |-> c, credit |-> 1]
<1>1. Inv  BY DEF Known
<1>2. devCredit[c] < use.credit /\ use.credit \in Nat /\ devCredit[c] \in Nat
  BY <1>1, UseFacts DEF DevCredit, Inv, Core, Typed
<1>3. p \in Sound
  <2>1. p \in [kind : {"credit"}, ch : Chans, credit : {1}]  BY <1>2
  <2>2. p \in Packet  BY <2>1 DEF Packet
  <2> QED BY <2>2 DEF Sound
<1>4. p.kind # "data" /\ toHost' = Append(toHost, p)  BY DEF DevCredit
<1> HIDE DEF p
<1>5. UNCHANGED <<call, open, ta, buf, devOpen, devSent, delivered>>  BY DEF DevCredit
<1>6. \A d : Opening(d)' = Opening(d)  BY <1>5 DEF Opening, call
<1>7. step = "open" => ch \in devOpen \/ Before
  <2>1. ASSUME step = "open" PROVE ch \in devOpen \/ Before
    BY <1>1, <2>1 DEF Inv, Core, Exchange, Asking, Refused, Granted, After, Commands
  <2> QED BY <2>1
<1>8. devCredit' = [devCredit EXCEPT ![c] = @ + 1]  BY DEF DevCredit
<1> QED BY <1>3, <1>4, <1>5, <1>6, <1>7, <1>8, SendFlows DEF ta

(* Data follows what was sent before.                                      *)
LEMMA DevDataFlows ==
  ASSUME Known, UNCHANGED use, NEW c \in Chans, DevData(c)
  PROVE  /\ Flow' /\ UNCHANGED <<delivered, call, open>>
         /\ devSent'[c] >= devSent[c] /\ devCredit'[c] >= devCredit[c]
         /\ \A d \in Chans \ {c} : devSent'[d] = devSent[d] /\ devCredit'[d] = devCredit[d]
<1> USE DEF Known
<1>1. PICK len \in use.packets, hi \in {FALSE, use.hiBytes}, k \in 0..1 :
          /\ devSent[c] + len <= use.bytes
          /\ devSent' = [devSent EXCEPT ![c] = @ + len]
          /\ devCredit' = [devCredit EXCEPT ![c] = @ + k]
          /\ toHost' = Append(toHost, [kind |-> "data", ch |-> c, len |-> len,
                                       from |-> devSent[c], hi |-> hi, credit |-> k])
  BY DEF DevData
<1>2. /\ devSent \in [Chans -> Bytes] /\ devSent[c] \in Nat /\ len \in Nat /\ devSent[c] \in Bytes
      /\ devCredit \in [Chans -> Nat] /\ use \in Profiles /\ toHost \in Seq(Sound)
  <2>1. \A l \in use.packets : l \in Nat  BY UseFacts DEF Inv
  <2> QED BY <2>1, DataFacts DEF Inv, Core, Typed
<1>3. UNCHANGED <<call, open, ta, buf, devOpen, delivered>> /\ c \in devOpen  BY DEF DevData
<1> DEFINE p == [kind |-> "data", ch |-> c, len |-> len, from |-> devSent[c], hi |-> hi, credit |-> k]
<1>4. hi = FALSE
  <2>1. use \in Profile  BY ConstantsAssumption DEF Inv
  <2>2. use.hiBytes \in BOOLEAN /\ ~use.hiBytes  BY <2>1 DEF Profile, Inv, Tame
  <2> QED BY <2>2
<1>5. p \in Sound
  <2>1. p \in [kind : {"data"}, ch : Chans, len : use.packets, from : Bytes, hi : BOOLEAN, credit : 0..1]
    BY <1>2, <1>4
  <2>2. p \in Packet  BY <2>1 DEF Packet
  <2> QED BY <1>1, <1>4, <2>2 DEF Sound
<1>6. toHost' = Append(toHost, p) /\ p.from = devSent[c] /\ p.len = len
      /\ \A d : IsData(p, d) <=> d = c
  BY <1>1 DEF IsData
<1> HIDE DEF p
<1>7. \A d : Settled(d)' = Settled(d) /\ Opening(d)' = Opening(d)
  BY <1>3 DEF Settled, Opening, call
<1>8. ASSUME NEW d \in Chans PROVE Stream(d)'
  <2>1. CASE d # c
    <3>1. BytesOf(toHost', d) = BytesOf(toHost, d)  BY <1>5, <1>6, <2>1, BytesWithout
    <3>2. devSent'[d] = devSent[d]  BY <1>1, <1>2, <2>1
    <3> QED BY <1>3, <1>7, <3>1, <3>2, StreamKept DEF buf, ta
  <2>2. CASE d = c
    <3>1. devSent'[c] = devSent[c] + len  BY <1>1, <1>2
    <3>2. ASSUME NEW a \in Nat, Run(BytesOf(toHost, c), a, devSent[c])
          PROVE  Run(BytesOf(toHost', c), a, devSent'[c])
      <4>1. Run(BytesOf(Append(toHost, p), c), a, IF IsData(p, c) THEN devSent[c] + p.len ELSE devSent[c])
        BY <1>2, <1>5, <1>6, <3>2, RunSent
      <4> QED BY <1>6, <3>1, <4>1
    <3>3. Settled(c) => Flowing(c)'
      <4>1. SUFFICES ASSUME Settled(c) PROVE Flowing(c)'  OBVIOUS
      <4>2. Flowing(c)  BY <4>1 DEF Stream
      <4>3. Got(c)' = Got(c) /\ Got(c) + rcnt[c] \in Nat
        <5>1. Got(c) \in Nat /\ rcnt[c] \in Nat  BY DataFacts DEF Got
        <5> QED BY <1>3, <5>1 DEF Got
      <4>4. Run(BytesOf(toHost', c), Got(c) + rcnt[c], devSent'[c])  BY <3>2, <4>2, <4>3 DEF Flowing
      <4> QED BY <1>3, <4>2, <4>3, <4>4 DEF Flowing, buf
    <3>4. Settled(c) => Tidy(c)'  BY <1>3 DEF Stream, Tidy, buf, ta
    <3>5. Opening(c) => Run(BytesOf(toHost', c), 0, devSent'[c])  BY <3>2 DEF Stream
    <3> QED BY <1>7, <2>2, <3>3, <3>4, <3>5 DEF Stream
  <2> QED BY <2>1, <2>2
<1>9. Client'  BY <1>3 DEF Client, call, buf
<1>10. /\ devSent'[c] >= devSent[c] /\ devCredit'[c] >= devCredit[c]
       /\ \A d \in Chans \ {c} : devSent'[d] = devSent[d] /\ devCredit'[d] = devCredit[d]
  BY <1>1, <1>2
<1> QED BY <1>3, <1>8, <1>9, <1>10 DEF Flow
-----------------------------------------------------------------------------
(* The invariant of the streams.                                           *)
FInv == IInv /\ (lost = 0 /\ Tame(use) /\ Whole(use) => Flow)

LEMMA InitFlows ==
  ASSUME Init
  PROVE  FInv
<1>1. IInv  BY InitEstablishes
<1>2. Flow
  <2>1. proc = "idle" /\ step = "none" /\ open = {}  BY DEF Init
  <2>2. \A c \in Chans : ~Settled(c) /\ ~Opening(c)  BY <2>1 DEF Settled, Opening
  <2> QED BY <2>1, <2>2 DEF Flow, Client, Stream
<1> QED BY <1>1, <1>2 DEF FInv

LEMMA HostFlows ==
  ASSUME Known, HostStep, InStep
  PROVE  Flow'
<1>0. UNCHANGED use /\ Inv /\ ch \in Chans  BY DataFacts DEF HostStep, Known
<1>1. CASE ReplyMeanwhile  BY <1>0, <1>1, ReplyMeanwhileFlows
<1>2. CASE ReplyBad  BY <1>0, <1>2, ReplyBadFlows
<1>3. CASE InitReply  BY <1>0, <1>3, InitReplyFlows
<1>4. CASE GetSocketReply  BY <1>0, <1>4, GetSocketReplyFlows
<1>5. CASE OpenReply  BY <1>0, <1>5, OpenReplyFlows
<1>6. CASE CreditReply  BY <1>0, <1>6, CreditReplyFlows
<1>7. CASE CreditRequestReply  BY <1>0, <1>7, CreditRequestReplyFlows
<1>8. CASE CloseReply  BY <1>0, <1>8, CloseReplyFlows
<1>9. CASE ForwardData  BY <1>0, <1>9, ForwardDataFlows
<1>10. CASE CreditRequest  BY <1>0, <1>10, CreditRequestFlows
<1>11. CASE ReverseCmd  BY <1>0, <1>11, ReverseCmdFlows
<1>12. CASE ReverseCmdFails  BY <1>0, <1>12, ReverseCmdFailsFlows
<1>13. CASE ReadData
  <2>1. PICK c \in Chans : c = ch  BY <1>0
  <2> QED BY <1>0, <1>13, <2>1, ReadDataFlows
<1>14. CASE ReadMeanwhile  BY <1>0, <1>14, ReadMeanwhileFlows
<1>15. CASE ReadInvalid  BY <1>0, <1>15, NoReadInvalid
<1>16. CASE ReadTimeout  BY <1>0, <1>16, ReadTimeoutFlows
<1> QED BY <1>1, <1>2, <1>3, <1>4, <1>5, <1>6, <1>7, <1>8, <1>9, <1>10, <1>11, <1>12, <1>13, <1>14,
           <1>15, <1>16, NoTimeout DEF HostStep, ReplyStep

LEMMA ClientStepFlows ==
  ASSUME Known, ClientStep
  PROVE  Flow'
<1>0. UNCHANGED use  BY DEF ClientStep
<1>1. ASSUME NEW c \in Chans, OpenChannel(c) PROVE Flow'  BY <1>0, <1>1, OpenChannelFlows
<1>2. ASSUME NEW c \in Chans, CloseChannel(c) PROVE Flow'  BY <1>0, <1>2, CloseChannelFlows
<1>3. ASSUME NEW c \in Chans, NEW k \in 1..use.writes, StartWrite(c, k) PROVE Flow'
  BY <1>0, <1>3, StartWriteFlows
<1>4. ASSUME NEW c \in Chans, NEW len \in use.reads, ReadBuffered(c, len) PROVE Flow'
  BY <1>0, <1>4, ReadBufferedFlows
<1>5. ASSUME NEW c \in Chans, NEW len \in use.reads, StartRead(c, len) PROVE Flow'
  BY <1>0, <1>5, StartReadFlows
<1> QED BY <1>1, <1>2, <1>3, <1>4, <1>5 DEF ClientStep

LEMMA DevStepFlows ==
  ASSUME Known, DevStep, InStep
  PROVE  Flow'
<1>0. UNCHANGED use  BY DEF DevStep, DevAnswers
<1>1. CASE DevRefuse  BY <1>0, <1>1, DevRefuseFlows
<1>2. CASE DevAnswer  BY <1>0, <1>2, DevAnswerFlows
<1>3. ASSUME NEW c \in Chans, DevCredit(c) PROVE Flow'  BY <1>0, <1>3, DevCreditFlows
<1>4. ASSUME NEW c \in Chans, DevData(c) PROVE Flow'  BY <1>0, <1>4, DevDataFlows
<1> QED BY <1>1, <1>2, <1>3, <1>4, NoTimeout DEF DevStep, DevAnswers

LEMMA StepFlows ==
  ASSUME FInv, [Next]_vars
  PROVE  FInv'
<1>1. IInv'  BY StepKeeps DEF FInv
<1>2. SUFFICES ASSUME (lost = 0 /\ Tame(use) /\ Whole(use))'
               PROVE  Flow'
  BY <1>1 DEF FInv
<1>3. lost' = 0 /\ Tame(use') /\ Whole(use')  BY <1>2
<1>4. CASE UNCHANGED vars
  <2>1. Flow  BY <1>3, <1>4 DEF FInv, vars
  <2>2. ASSUME NEW c \in Chans, Stream(c) PROVE Stream(c)'
    BY <1>4, <2>2, StreamKept DEF vars, call, ta, buf, dev, Settled, Opening
  <2>3. Client => Client'  BY <1>4 DEF vars, call, buf, Client
  <2> QED BY <2>1, <2>2, <2>3 DEF Flow
<1>5. CASE Next
  <2>1. use' = use  BY <1>5 DEF Next, HostStep, ClientStep, DevStep, DevAnswers
  <2>2. InStep
    <3>1. lost \in 0..use.lost /\ use.lost \in Nat  BY ConstantsAssumption DEF FInv, IInv, Profile
    <3> QED BY <1>3, <1>5, <3>1, LostKept DEF InStep
  <2>3. Known
    <3>1. lost = 0 /\ Tame(use) /\ Whole(use)  BY <1>3, <2>1, <2>2 DEF InStep
    <3> QED BY <3>1 DEF FInv, IInv, Inv, Known, Flow
  <2> QED BY <1>5, <2>2, <2>3, HostFlows, ClientStepFlows, DevStepFlows DEF Next
<1> QED BY <1>4, <1>5

LEMMA StreamsInvariant == Spec => []FInv
<1>1. Init => FInv  BY InitFlows
<1>2. FInv /\ [Next]_vars => FInv'  BY StepFlows
<1> QED BY <1>1, <1>2, PTL DEF Spec

(* What is known of a channel a client holds.                              *)
LEMMA UnreadRuns ==
  ASSUME FInv, Tame(use), Whole(use), NEW c \in Live
  PROVE  /\ c \in Chans /\ lost = 0 /\ Settled(c) /\ Known
         /\ Got(c) \in Nat /\ devSent[c] \in Nat /\ devCredit[c] \in Nat
         /\ Run(delivered[c], 0, Got(c))
         /\ Run(Buffered(c), Got(c), Got(c) + rcnt[c])
         /\ Run(BytesOnTheWay(c), Got(c) + rcnt[c], devSent[c])
         /\ Run(Buffered(c) \o BytesOnTheWay(c), Got(c), devSent[c])
<1>1. lost = 0 /\ Settled(c)  BY DEF Live, Settled
<1>2. Known  BY <1>1 DEF FInv, IInv, Inv, Known, Flow
<1>3. Inv /\ Data  BY <1>2 DEF Known
<1>4. c \in Chans  BY <1>1, <1>3 DEF Inv, Core, Typed, Settled
<1>5. Flowing(c)  BY <1>1, <1>2, <1>4 DEF Known, Stream
<1>6. /\ Got(c) \in Nat /\ rcnt[c] \in Nat /\ rindex[c] \in Nat /\ BufSize \in Nat
      /\ devSent[c] \in Nat /\ devCredit[c] \in Nat
  <2>1. devCredit[c] \in Nat  BY <1>3, <1>4 DEF Inv, Core, Typed
  <2> QED BY <1>3, <1>4, <2>1, DataFacts DEF Got
<1>7. rindex[c] + rcnt[c] <= BufSize  BY <1>3, <1>4 DEF Inv, Core, Channel, Roomy
<1>8. Run(Buffered(c), Got(c), Got(c) + rcnt[c])
  <2> DEFINE g == Got(c)
             k == rcnt[c]
             x == rindex[c]
             b == rbuf[c]
  <2>1. Held(b, x, k, g)  BY <1>5 DEF Flowing
  <2>2. Buffered(c) = [i \in 1..k |-> IF x + i <= BufSize THEN b[x + i] ELSE 0]
    BY DEF Buffered
  <2>3. g \in Nat /\ k \in Nat /\ x \in Nat /\ x + k <= BufSize  BY <1>6, <1>7
  <2> HIDE DEF g, k, x, b
  <2>4. ASSUME NEW i \in 1..k PROVE (IF x + i <= BufSize THEN b[x + i] ELSE 0) = g + i
    <3>1. x + i <= BufSize  BY <1>6, <2>3
    <3> QED BY <2>1, <3>1 DEF Held
  <2>5. Buffered(c) = [i \in 1..k |-> g + i]  BY <2>2, <2>4
  <2>6. Run(Buffered(c), g, g + k)  BY <2>3, <2>5, RunOfPacket
  <2> QED BY <2>6 DEF g, k
<1>9. Run(BytesOnTheWay(c), Got(c) + rcnt[c], devSent[c])
  BY <1>5 DEF Flowing, BytesOf, BytesOnTheWay
<1>10. Run(Buffered(c) \o BytesOnTheWay(c), Got(c), devSent[c])
  BY <1>6, <1>8, <1>9, RunsJoin
<1> QED BY <1>1, <1>2, <1>4, <1>5, <1>6, <1>8, <1>9, <1>10 DEF Flowing

(* What a client has read of a channel, what libhpmud buffers for it and   *)
(* what is on the way are together what the peripheral sent, in order: the *)
(* buffering of unsolicited packets in Dot4ExecReverseCmd, Dot4ReverseData *)
(* and cut_buf loses nothing and repeats nothing.                          *)
THEOREM NothingIsLost == Spec => [](Tame(use) /\ Whole(use) => DataConserved)
<1>1. FInv => (Tame(use) /\ Whole(use) => DataConserved)
  <2> SUFFICES ASSUME FInv, Tame(use), Whole(use), NEW c \in Live
               PROVE  delivered[c] \o Buffered(c) \o BytesOnTheWay(c) = [i \in 1..devSent[c] |-> i]
    BY DEF DataConserved
  <2> DEFINE d == delivered[c]
             x == Buffered(c)
             y == BytesOnTheWay(c)
             e == devSent[c]
  <2>1. /\ e \in Nat /\ Run(d, 0, Got(c)) /\ Run(x, Got(c), Got(c) + rcnt[c])
        /\ Run(y, Got(c) + rcnt[c], e)
    BY UnreadRuns
  <2> HIDE DEF d, x, y, e
  <2>2. Run(d \o x, 0, Got(c) + rcnt[c])  BY <2>1, RunsJoin
  <2>3. Run((d \o x) \o y, 0, e)  BY <2>1, <2>2, RunsJoin
  <2>4. Run([i \in 1..e |-> 0 + i], 0, 0 + e)  BY <2>1, RunOfPacket
  <2>5. [i \in 1..e |-> 0 + i] = [i \in 1..e |-> i] /\ 0 + e = e  BY <2>1
  <2>6. (d \o x) \o y = [i \in 1..e |-> i]  BY <2>3, <2>4, <2>5, RunsEqual
  <2> QED BY <2>6 DEF d, x, y, e
<1> QED BY <1>1, StreamsInvariant, PTL
-----------------------------------------------------------------------------
(* The streams as ChannelStreams sees them.                                *)
Unread == [c \in Chans |-> IF c \in Live THEN Buffered(c) \o BytesOnTheWay(c) ELSE <<>>]
Taken == [c \in Chans |-> IF c \in Live THEN delivered[c] ELSE <<>>]
Grantable == [c \in Chans |-> IF c \in Live THEN devCredit[c] ELSE 0]
Calm == Tame(use) /\ Whole(use)

(* What each is of a channel that is held, and of one that is not.         *)
Shown(c) ==
    /\ Got(c) \in Nat /\ devSent[c] \in Nat /\ Grantable[c] \in Nat
    /\ Got(c) <= devSent[c] /\ Grantable[c] = devCredit[c]
    /\ Run(Taken[c], 0, Got(c)) /\ Run(Unread[c], Got(c), devSent[c])
Hidden(c) == Unread[c] = <<>> /\ Taken[c] = <<>> /\ Grantable[c] = 0
Mapped ==
    /\ Live \subseteq Chans
    /\ \A c \in Chans : IF c \in Live THEN Shown(c) ELSE Hidden(c)

LEMMA Maps == FInv /\ Calm => Mapped
<1> SUFFICES ASSUME FInv, Calm PROVE Mapped
  OBVIOUS
<1>1. Tame(use) /\ Whole(use)  BY DEF Calm
<1>2. Live \subseteq Chans  BY <1>1, UnreadRuns
<1>3. ASSUME NEW c \in Chans, c \in Live PROVE Shown(c)
  <2>1. /\ Got(c) \in Nat /\ devSent[c] \in Nat /\ devCredit[c] \in Nat
        /\ Run(delivered[c], 0, Got(c)) /\ Run(Buffered(c) \o BytesOnTheWay(c), Got(c), devSent[c])
    BY <1>1, <1>3, UnreadRuns
  <2>2. Got(c) <= devSent[c]  BY <2>1, RunBounds
  <2>3. /\ Unread[c] = Buffered(c) \o BytesOnTheWay(c) /\ Taken[c] = delivered[c]
        /\ Grantable[c] = devCredit[c]
    BY <1>3 DEF Unread, Taken, Grantable
  <2> QED BY <2>1, <2>2, <2>3 DEF Shown
<1>4. ASSUME NEW c \in Chans, c \notin Live PROVE Hidden(c)
  BY <1>4 DEF Hidden, Unread, Taken, Grantable
<1> QED BY <1>2, <1>3, <1>4 DEF Mapped

LEMMA MapsNext == FInv' /\ Calm' => Mapped'
BY Maps, PTL

LEMMA AsFunctions ==
  /\ Unread = [c \in Chans |-> Unread[c]] /\ Unread' = [c \in Chans |-> Unread'[c]]
  /\ Taken = [c \in Chans |-> Taken[c]] /\ Taken' = [c \in Chans |-> Taken'[c]]
  /\ Grantable = [c \in Chans |-> Grantable[c]]
  /\ Grantable' = [c \in Chans |-> Grantable'[c]]
BY DEF Unread, Taken, Grantable

(* A part of a run is a run.                                               *)
LEMMA RunPart ==
  ASSUME NEW a \in Nat, NEW b, NEW s, Run(s, a, b), NEW i \in Nat, NEW j \in Nat,
         i <= j, a + j <= b
  PROVE  Run(SubSeq(s, i + 1, j), a + i, a + j)
<1> DEFINE t == SubSeq(s, i + 1, j)
<1>1. s \in Seq(Nat) /\ Len(s) \in Nat /\ a + Len(s) = b  BY DEF Run
<1>2. j <= Len(s)  BY <1>1
<1>3. ASSUME NEW k \in 1..Len(s) PROVE s[k] = a + k  BY <1>3 DEF Run
<1>4. i + 1 \in Int /\ j \in Int /\ \A k \in i + 1..j : s[k] \in Nat  BY <1>1, <1>2
<1>5. /\ t \in Seq(Nat) /\ Len(t) = j - i
      /\ \A k \in 1..j - i : t[k] = s[i + k]
  <2>1. /\ t \in Seq(Nat)
        /\ Len(t) = IF i + 1 <= j THEN j - (i + 1) + 1 ELSE 0
        /\ \A k \in 1..(j - (i + 1) + 1) : t[k] = s[(i + 1) + k - 1]
    BY <1>4, SubSeqProperties
  <2>2. \A k \in Int : (i + 1) + k - 1 = i + k  OBVIOUS
  <2>3. j - (i + 1) + 1 = j - i  OBVIOUS
  <2> QED BY <2>1, <2>2, <2>3
<1> HIDE DEF t
<1>6. ASSUME NEW k \in 1..Len(t) PROVE t[k] = (a + i) + k
  <2>1. k \in 1..j - i /\ i + k \in 1..Len(s)  BY <1>2, <1>5
  <2>2. t[k] = s[i + k] /\ s[i + k] = a + (i + k)  BY <1>3, <1>5, <2>1
  <2> QED BY <2>1, <2>2
<1>7. (a + i) + Len(t) = a + j  BY <1>5
<1> QED BY <1>5, <1>6, <1>7 DEF Run, t

(* A channel that shows no change.                                         *)
Same(c) ==
    /\ c \in Live' <=> c \in Live
    /\ c \in Live => Got(c)' = Got(c) /\ devSent'[c] = devSent[c] /\ devCredit'[c] = devCredit[c]

LEMMA SameShows ==
  ASSUME Mapped, Mapped', NEW c \in Chans, Same(c)
  PROVE  Unread'[c] = Unread[c] /\ Taken'[c] = Taken[c] /\ Grantable'[c] = Grantable[c]
<1>1. CASE c \in Live
  <2>1. Shown(c) /\ Shown(c)'  BY <1>1 DEF Mapped, Same
  <2>2. Got(c)' = Got(c) /\ devSent'[c] = devSent[c] /\ devCredit'[c] = devCredit[c]
    BY <1>1 DEF Same
  <2>3. Run(Unread'[c], Got(c), devSent[c]) /\ Run(Taken'[c], 0, Got(c))
        /\ Grantable'[c] = devCredit[c]
    BY <2>1, <2>2 DEF Shown
  <2>4. Run(Unread[c], Got(c), devSent[c]) /\ Run(Taken[c], 0, Got(c)) /\ Grantable[c] = devCredit[c]
        /\ Got(c) \in Nat
    BY <2>1 DEF Shown
  <2> QED BY <2>3, <2>4, RunsEqual
<1>2. CASE c \notin Live
  BY <1>2 DEF Mapped, Same, Hidden
<1> QED BY <1>1, <1>2

LEMMA NothingShows ==
  ASSUME Mapped, Mapped', \A c \in Chans : Same(c)
  PROVE  UNCHANGED <<Live, Unread, Taken, Grantable>>
<1>1. Live' = Live  BY DEF Mapped, Same
<1>2. \A c \in Chans : Unread'[c] = Unread[c] /\ Taken'[c] = Taken[c] /\ Grantable'[c] = Grantable[c]
  BY SameShows
<1> HIDE DEF Unread, Taken, Grantable
<1>3. Unread' = Unread /\ Taken' = Taken /\ Grantable' = Grantable  BY <1>2, AsFunctions
<1> QED BY <1>1, <1>3

(* One channel moves.                                                      *)
LEMMA OthersShow ==
  ASSUME Mapped, Mapped', NEW c \in Chans, \A d \in Chans \ {c} : Same(d)
  PROVE  /\ Unread' = [Unread EXCEPT ![c] = Unread'[c]]
         /\ Taken' = [Taken EXCEPT ![c] = Taken'[c]]
         /\ Grantable' = [Grantable EXCEPT ![c] = Grantable'[c]]
         /\ \A d \in Chans \ {c} : Unread'[d] = Unread[d] /\ Grantable'[d] = Grantable[d]
<1>1. \A d \in Chans \ {c} : /\ Unread'[d] = Unread[d] /\ Taken'[d] = Taken[d]
                             /\ Grantable'[d] = Grantable[d]
  BY SameShows
<1>2. Unread' = [Unread EXCEPT ![c] = Unread'[c]]  BY <1>1, AsFunctions
<1>3. Taken' = [Taken EXCEPT ![c] = Taken'[c]]  BY <1>1, AsFunctions
<1>4. Grantable' = [Grantable EXCEPT ![c] = Grantable'[c]]  BY <1>1, AsFunctions
<1> QED BY <1>1, <1>2, <1>3, <1>4

(* Runs from one place on extend each other.                               *)
LEMMA RunExtends ==
  ASSUME Mapped', NEW c \in Chans, c \in Live', NEW g \in Nat, NEW e \in Nat, Got(c)' = g,
         Run(Unread[c], g, e), Run(Taken[c], 0, g), devSent'[c] >= e
  PROVE  Streams!Extends(c)
<1>1. Shown(c)'  BY DEF Mapped
<1>2. devSent'[c] \in Nat /\ Run(Unread'[c], g, devSent'[c])  BY <1>1 DEF Shown
<1> DEFINE u == Unread[c]
           v == Unread'[c]
           t == Taken[c]
<1>3. Len(u) = e - g /\ Len(v) = devSent'[c] - g /\ Len(t) = g /\ Len(u) \in Nat /\ Len(v) \in Nat
  <2>1. Run(u, g, e) /\ Run(v, g, devSent'[c]) /\ Run(t, 0, g)  BY <1>2
  <2> HIDE DEF u, v, t
  <2>2. Len(u) = e - g /\ Len(u) \in Nat  BY <2>1, RunBounds
  <2>3. Len(v) = devSent'[c] - g /\ Len(v) \in Nat  BY <2>1, RunBounds
  <2>4. Len(t) = g - 0  BY <2>1, RunBounds
  <2> QED BY <2>2, <2>3, <2>4
<1>4. (\A i \in 1..Len(u) : u[i] = g + i) /\ \A i \in 1..Len(v) : v[i] = g + i
  BY <1>2 DEF Run
<1> HIDE DEF u, v, t
<1>5. Len(v) >= Len(u)  BY <1>2, <1>3
<1>6. \A i \in 1..Len(v) : v[i] = IF i <= Len(u) THEN u[i] ELSE Len(t) + i
  BY <1>3, <1>4
<1> QED BY <1>5, <1>6 DEF Streams!Extends, u, v, t, Unread, Taken

LEMMA ReceiveStep ==
  ASSUME Mapped, Mapped', NEW c \in Live, Live' = Live, Got(c)' = Got(c),
         devSent'[c] >= devSent[c], devCredit'[c] >= devCredit[c], \A d \in Chans \ {c} : Same(d)
  PROVE  Streams!Receive(c)
<1>1. c \in Chans /\ Shown(c) /\ Shown(c)'  BY DEF Mapped
<1>2. Streams!Extends(c)
  <2> DEFINE g == Got(c)
             e == devSent[c]
  <2>1. g \in Nat /\ e \in Nat /\ Run(Unread[c], g, e) /\ Run(Taken[c], 0, g)
    BY <1>1 DEF Shown
  <2>2. Got(c)' = g /\ devSent'[c] >= e  OBVIOUS
  <2> HIDE DEF g, e
  <2> QED BY <1>1, <2>1, <2>2, RunExtends
<1>3. Grantable'[c] >= Grantable[c]  BY <1>1 DEF Shown
<1>4. Taken'[c] = Taken[c]
  <2>1. Run(Taken[c], 0, Got(c)) /\ Run(Taken'[c], 0, Got(c))  BY <1>1 DEF Shown
  <2> QED BY <2>1, RunsEqual
<1>5. /\ Unread' = [Unread EXCEPT ![c] = Unread'[c]]
      /\ Taken' = [Taken EXCEPT ![c] = Taken'[c]]
      /\ Grantable' = [Grantable EXCEPT ![c] = Grantable'[c]]
  BY <1>1, OthersShow
<1>6. Taken' = Taken  BY <1>4, <1>5, AsFunctions
<1> QED BY <1>2, <1>3, <1>5, <1>6 DEF Streams!Receive, Unread, Taken, Grantable

LEMMA ReadStep ==
  ASSUME Mapped, Mapped', NEW c \in Live, Live' = Live, Got(c) < Got(c)', Got(c)' <= devSent[c],
         devSent'[c] = devSent[c], devCredit'[c] = devCredit[c], \A d \in Chans \ {c} : Same(d)
  PROVE  Streams!Read(c)
<1> DEFINE g == Got(c)
           h == Got(c)'
           e == devSent[c]
           k == h - g
           u == Unread[c]
           m == Len(u)
<1>1. c \in Chans /\ Shown(c) /\ Shown(c)'  BY DEF Mapped
<1>2. /\ g \in Nat /\ h \in Nat /\ e \in Nat /\ g < h /\ h <= e
      /\ Run(u, g, e) /\ Run(Taken[c], 0, g) /\ Run(Unread'[c], h, e) /\ Run(Taken'[c], 0, h)
      /\ Grantable'[c] = Grantable[c]
  BY <1>1 DEF Shown
<1>3. /\ Unread' = [Unread EXCEPT ![c] = Unread'[c]]
      /\ Taken' = [Taken EXCEPT ![c] = Taken'[c]]
      /\ Grantable' = [Grantable EXCEPT ![c] = Grantable'[c]]
  BY <1>1, OthersShow
<1>4. Grantable' = Grantable  BY <1>2, <1>3, AsFunctions
<1> HIDE DEF g, h, e, u
<1>5. m = e - g /\ m \in Nat  BY <1>2, RunBounds
<1>6. k \in Nat /\ m \in Nat /\ 0 <= k /\ k <= m /\ g + 0 = g /\ g + k = h /\ g + m = e /\ k \in 1..m
      /\ k <= k
  BY <1>2, <1>5
<1> HIDE DEF k, m
<1>7. Taken'[c] = Taken[c] \o SubSeq(u, 1, k)
  <2>1. 0 \in Nat /\ g + k <= e /\ 0 + 1 = 1  BY <1>2, <1>6
  <2>2. Run(SubSeq(u, 0 + 1, k), g + 0, g + k)  BY <1>2, <1>6, <2>1, RunPart
  <2>3. Run(SubSeq(u, 1, k), g, h)  BY <1>6, <2>1, <2>2
  <2>4. Run(Taken[c] \o SubSeq(u, 1, k), 0, h)  BY <1>2, <2>3, RunsJoin
  <2> QED BY <1>2, <2>4, RunsEqual
<1>8. Unread'[c] = SubSeq(u, k + 1, m)
  <2>1. g + m <= e  BY <1>2, <1>6
  <2>2. Run(SubSeq(u, k + 1, m), g + k, g + m)  BY <1>2, <1>6, <2>1, RunPart
  <2>3. Run(SubSeq(u, k + 1, m), h, e)  BY <1>6, <2>2
  <2> QED BY <1>2, <2>3, RunsEqual
<1>9. /\ Taken' = [Taken EXCEPT ![c] = Taken[c] \o SubSeq(Unread[c], 1, k)]
      /\ Unread' = [Unread EXCEPT ![c] = SubSeq(Unread[c], k + 1, Len(Unread[c]))]
  BY <1>3, <1>7, <1>8 DEF u, m
<1>10. k \in 1..Len(Unread[c])  BY <1>6 DEF u, m
<1> QED BY <1>4, <1>9, <1>10 DEF Streams!Read, Unread, Taken, Grantable

LEMMA WriteStep ==
  ASSUME Mapped, Mapped', NEW c \in Live, Live' = Live, Got(c)' = Got(c), devSent'[c] = devSent[c],
         devCredit[c] > 0, devCredit'[c] = devCredit[c] - 1, \A d \in Chans \ {c} : Same(d)
  PROVE  Streams!Write(c)
<1>1. c \in Chans /\ Shown(c) /\ Shown(c)'  BY DEF Mapped
<1>2. Grantable[c] > 0 /\ Grantable'[c] = Grantable[c] - 1  BY <1>1 DEF Shown
<1>3. Unread'[c] = Unread[c] /\ Taken'[c] = Taken[c]
  <2> DEFINE g == Got(c)
             e == devSent[c]
  <2>1. /\ g \in Nat /\ Run(Unread[c], g, e) /\ Run(Taken[c], 0, g)
        /\ Run(Unread'[c], g, e) /\ Run(Taken'[c], 0, g)
    BY <1>1 DEF Shown
  <2> HIDE DEF g, e
  <2> QED BY <2>1, RunsEqual
<1>4. /\ Unread' = [Unread EXCEPT ![c] = Unread'[c]]
      /\ Taken' = [Taken EXCEPT ![c] = Taken'[c]]
      /\ Grantable' = [Grantable EXCEPT ![c] = Grantable'[c]]
  BY <1>1, OthersShow
<1>5. Unread' = Unread /\ Taken' = Taken /\ Grantable' = [Grantable EXCEPT ![c] = Grantable[c] - 1]
  BY <1>2, <1>3, <1>4, AsFunctions
<1> QED BY <1>2, <1>5 DEF Streams!Write, Unread, Taken, Grantable

LEMMA OpenStep ==
  ASSUME Mapped, Mapped', NEW c \in Chans, c \notin Live, Live' = Live \cup {c}, Got(c)' = 0,
         \A d \in Chans \ {c} : Same(d)
  PROVE  Streams!Open(c)
<1>1. Hidden(c) /\ Shown(c)' /\ c \in Live'  BY DEF Mapped
<1>2. Run(Unread[c], 0, 0) /\ Run(Taken[c], 0, 0)  BY <1>1, RunEmpty DEF Hidden
<1>3. Streams!Extends(c)
  <2>1. devSent'[c] >= 0 /\ 0 \in Nat  BY <1>1 DEF Shown
  <2> QED BY <1>1, <1>2, <2>1, RunExtends
<1>4. Taken'[c] = Taken[c]
  <2>1. Run(Taken'[c], 0, 0)  BY <1>1 DEF Shown
  <2> QED BY <1>2, <2>1, RunsEqual
<1>5. /\ Taken' = [Taken EXCEPT ![c] = Taken'[c]]
      /\ \A d \in Chans \ {c} : Unread'[d] = Unread[d] /\ Grantable'[d] = Grantable[d]
  BY OthersShow
<1>6. Taken' = Taken  BY <1>4, <1>5, AsFunctions
<1> QED BY <1>3, <1>5, <1>6 DEF Streams!Open, Unread, Taken, Grantable

LEMMA CloseStep ==
  ASSUME Mapped, Mapped', NEW c \in Live, Live' = Live \ {c}, \A d \in Chans \ {c} : Same(d)
  PROVE  Streams!Close(c)
<1>1. c \in Chans /\ Hidden(c)'  BY DEF Mapped
<1>2. /\ Unread' = [Unread EXCEPT ![c] = Unread'[c]]
      /\ Taken' = [Taken EXCEPT ![c] = Taken'[c]]
      /\ Grantable' = [Grantable EXCEPT ![c] = Grantable'[c]]
  BY <1>1, OthersShow
<1>3. Unread'[c] = <<>> /\ Taken'[c] = <<>> /\ Grantable'[c] = 0  BY <1>1 DEF Hidden
<1>4. /\ Unread' = [Unread EXCEPT ![c] = <<>>] /\ Taken' = [Taken EXCEPT ![c] = <<>>]
      /\ Grantable' = [Grantable EXCEPT ![c] = 0]
  BY <1>2, <1>3
<1> QED BY <1>4 DEF Streams!Close, Unread, Taken, Grantable

LEMMA FailStep ==
  ASSUME Live' = {}
  PROVE  Streams!Fail
BY DEF Streams!Fail
-----------------------------------------------------------------------------
(* Steps of the transport as steps of the streams. While the two keep step *)
(* the channels held are the settled ones.                                 *)
InTime == /\ Known /\ FInv /\ Calm /\ lost = 0
          /\ FInv' /\ Calm' /\ lost' = 0 /\ use' = use

LEMMA LiveIs ==
  ASSUME InTime, NEW c
  PROVE  (c \in Live <=> Settled(c)) /\ (c \in Live' <=> Settled(c)')
BY DEF InTime, Live, Settled

LEMMA InTimeMaps ==
  ASSUME InTime
  PROVE  /\ Mapped /\ Mapped' /\ Inv /\ Core /\ Control /\ Live \subseteq Chans /\ Live' \subseteq Chans
         /\ ch \in Chans /\ proc \in Procs /\ open \subseteq Chans
<1>1. Mapped /\ Mapped'  BY Maps, MapsNext DEF InTime
<1>2. Inv  BY DEF InTime, Known
<1> QED BY <1>1, <1>2 DEF Mapped, Inv, Core, Typed

StreamsNext == [Streams!Next]_<<Live, Unread, Taken, Grantable>>

LEMMA Stutters ==
  ASSUME InTime, \A c \in Chans : Settled(c)' <=> Settled(c),
         \A c \in Chans : delivered'[c] = delivered[c] /\ devSent'[c] = devSent[c]
                          /\ devCredit'[c] = devCredit[c]
  PROVE  StreamsNext
<1>1. Mapped /\ Mapped'  BY InTimeMaps
<1>2. ASSUME NEW c \in Chans PROVE Same(c)
  BY <1>2, LiveIs DEF Same, Got
<1>3. UNCHANGED <<Live, Unread, Taken, Grantable>>  BY <1>1, <1>2, NothingShows
<1> QED BY <1>3 DEF StreamsNext

(* A step of one channel.                                                  *)
LEMMA Moves ==
  ASSUME NEW c \in Chans, \/ Streams!Open(c) \/ Streams!Close(c) \/ Streams!Receive(c)
                          \/ Streams!Read(c) \/ Streams!Write(c)
  PROVE  StreamsNext
BY DEF StreamsNext, Streams!Next

LEMMA OthersSame ==
  ASSUME InTime, NEW c \in Chans, \A d \in Chans \ {c} : Settled(d)' <=> Settled(d),
         \A d \in Chans \ {c} : delivered'[d] = delivered[d] /\ devSent'[d] = devSent[d]
                                /\ devCredit'[d] = devCredit[d]
  PROVE  \A d \in Chans \ {c} : Same(d)
BY LiveIs DEF Same, Got

LEMMA LiveSame ==
  ASSUME InTime, \A c \in Chans : Settled(c)' <=> Settled(c)
  PROVE  Live' = Live
<1>1. Live \subseteq Chans /\ Live' \subseteq Chans  BY InTimeMaps
<1> QED BY <1>1, LiveIs

(* Steps of a call that say nothing of the channel.                        *)
LEMMA Quietly ==
  ASSUME InTime, UNCHANGED <<ch, delivered, dev>>,
         \/ UNCHANGED <<proc, open>>
         \/ proc \in {"read", "write"} /\ Return /\ open' = open
         \/ proc \in {"open", "close"} /\ Return /\ open' = open \ {ch}
  PROVE  StreamsNext
<1>1. \A c \in Chans : Settled(c)' <=> Settled(c)  BY DEF Settled, Return
<1> QED BY <1>1, Stutters DEF dev

LEMMA CloseGoesOnShows ==
  ASSUME InTime, UNCHANGED <<ch, delivered, dev>>, proc = "close", CloseGoesOn
  PROVE  StreamsNext
BY Quietly DEF CloseGoesOn

LEMMA GiveUpShows ==
  ASSUME InTime, GiveUp
  PROVE  StreamsNext
<1>1. UNCHANGED <<ch, delivered, dev>>  BY DEF GiveUp
<1>2. CASE proc = "close"  BY <1>1, <1>2, CloseGoesOnShows DEF GiveUp
<1>3. CASE proc # "close"  BY <1>1, <1>3, Quietly DEF GiveUp
<1> QED BY <1>2, <1>3

(* A channel becomes its client's.                                         *)
LEMMA OpenedShows ==
  ASSUME InTime, proc = "open", Opened, UNCHANGED <<ch, open, dev>>,
         delivered'[ch] = <<>>, \A c \in Chans \ {ch} : delivered'[c] = delivered[c]
  PROVE  StreamsNext
<1>1. Mapped /\ Mapped' /\ ch \in open /\ ch \in Chans
  BY InTimeMaps DEF Control
<1>2. PICK c \in Chans : c = ch  BY <1>1
<1>3. ~Settled(c) /\ Settled(c)'  BY <1>1, <1>2 DEF Settled, Opened, Return
<1>4. \A d \in Chans \ {c} : Settled(d)' <=> Settled(d)  BY <1>2 DEF Settled, Opened, Return
<1>5. \A d \in Chans \ {c} : Same(d)
  BY <1>2, <1>4, OthersSame DEF dev
<1>6. c \notin Live /\ Live' = Live \cup {c}
  <2>1. Live \subseteq Chans /\ Live' \subseteq Chans  BY InTimeMaps
  <2> QED BY <1>3, <1>4, <2>1, LiveIs
<1>7. Got(c)' = 0
  <2>1. Got(c)' = Len(delivered'[c])  BY DEF Got
  <2> QED BY <1>2, <2>1
<1> QED BY <1>1, <1>5, <1>6, <1>7, OpenStep, Moves

LEMMA OpenReplyShows ==
  ASSUME InTime, OpenReply
  PROVE  StreamsNext
<1>1. Known /\ use' = use  BY DEF InTime
<1>2. UNCHANGED <<ch, open, dev>> /\ step = "open"  BY DEF OpenReply
<1>3. CASE UNCHANGED <<proc, delivered>>  BY <1>2, <1>3, Quietly
<1>4. CASE Opened
  <2>1. proc = "open"
    BY <1>2, InTimeMaps DEF Control, Procs
  <2>2. delivered' = [delivered EXCEPT ![ch] = <<>>]  BY <1>4 DEF Opened
  <2>3. delivered'[ch] = <<>> /\ \A c \in Chans \ {ch} : delivered'[c] = delivered[c]
    <3>1. delivered \in [Chans -> Seq(Bytes)] /\ ch \in Chans  BY <1>1, DataFacts DEF Known
    <3> QED BY <2>2, <3>1
  <2> QED BY <1>2, <1>4, <2>1, <2>3, OpenedShows
<1> QED BY <1>3, <1>4 DEF OpenReply

LEMMA CreditReplyShows ==
  ASSUME InTime, CreditReply
  PROVE  StreamsNext
<1>1. Known /\ use' = use  BY DEF InTime
<1>2. UNCHANGED <<ch, open, dev>>  BY DEF CreditReply
<1>3. CASE proc = "read" /\ UNCHANGED <<proc, delivered>>  BY <1>2, <1>3, Quietly
<1>4. CASE proc = "open" /\ Opened
  <2>1. delivered' = [delivered EXCEPT ![ch] = <<>>]  BY <1>4 DEF Opened
  <2>2. delivered'[ch] = <<>> /\ \A c \in Chans \ {ch} : delivered'[c] = delivered[c]
    <3>1. delivered \in [Chans -> Seq(Bytes)] /\ ch \in Chans  BY <1>1, DataFacts DEF Known
    <3> QED BY <2>1, <3>1
  <2> QED BY <1>2, <1>4, <2>2, OpenedShows
<1> QED BY <1>3, <1>4 DEF CreditReply

(* A write of a packet.                                                    *)
LEMMA ForwardDataShows ==
  ASSUME InTime, ForwardData
  PROVE  StreamsNext
<1>1. /\ Mapped /\ Mapped' /\ Inv /\ Control /\ ch \in Chans /\ proc \in Procs
  BY InTimeMaps
<1>2. step = "loop"  BY DEF ForwardData
<1>3. proc = "write" /\ ch \in open  BY <1>1, <1>2 DEF Control, Procs
<1>4. /\ UNCHANGED <<ch, open, devSent, delivered>> /\ devCredit' = [devCredit EXCEPT ![ch] = @ - 1]
      /\ h2pcredit[ch] > 0 /\ proc' \in {"write", "idle"}
  BY <1>3 DEF ForwardData, Return
<1>5. PICK c \in Chans : c = ch  BY <1>1
<1>6. \A d \in Chans : Settled(d)' <=> Settled(d)  BY <1>3, <1>4 DEF Settled
<1>7. c \in Live /\ Live' = Live
  <2>1. Settled(c)  BY <1>3, <1>5 DEF Settled
  <2> QED BY <1>6, <2>1, LiveIs, LiveSame
<1>8. devCredit \in [Chans -> Nat] /\ h2pcredit[c] \in Nat
  <2>1. h2pcredit \in [Chans -> CreditRange]  BY <1>1 DEF Inv, Core, Typed
  <2> QED BY <1>1, <2>1, UseFacts DEF Inv, Core, Typed, CreditRange
<1>9. devCredit[c] > 0 /\ devCredit'[c] = devCredit[c] - 1
  <2>1. h2pcredit[c] + CreditOf(toHost, c) = devCredit[c] /\ CreditOf(toHost, c) \in Nat
    <3>1. Settled(c)  BY <1>3, <1>5 DEF Settled
    <3>2. Granting(c)  BY <1>1 DEF Inv, Core, Channel
    <3> QED BY <1>1, <3>1, <3>2, OnTheWay DEF Granting
  <2>2. h2pcredit[c] > 0  BY <1>4, <1>5
  <2>3. devCredit'[c] = devCredit[c] - 1  BY <1>4, <1>5, <1>8
  <2> QED BY <1>8, <2>1, <2>2, <2>3
<1>10. \A d \in Chans \ {c} : Same(d)
  <2>1. \A d \in Chans \ {c} : devCredit'[d] = devCredit[d]  BY <1>4, <1>5, <1>8
  <2> QED BY <1>4, <1>6, <2>1, OthersSame
<1>11. Got(c)' = Got(c) /\ devSent'[c] = devSent[c]  BY <1>4 DEF Got
<1> QED BY <1>1, <1>7, <1>9, <1>10, <1>11, WriteStep, Moves

(* A client gets bytes.                                                    *)
LEMMA GotShows ==
  ASSUME InTime, NEW c \in Chans, Settled(c), \A d \in Chans : Settled(d)' <=> Settled(d),
         Got(c) < Got(c)', Got(c)' <= devSent[c], UNCHANGED dev,
         \A d \in Chans \ {c} : delivered'[d] = delivered[d]
  PROVE  StreamsNext
<1>1. Mapped /\ Mapped'  BY InTimeMaps
<1>2. c \in Live /\ Live' = Live  BY LiveIs, LiveSame
<1>3. \A d \in Chans \ {c} : Same(d)  BY OthersSame DEF dev
<1>4. devSent'[c] = devSent[c] /\ devCredit'[c] = devCredit[c]  BY DEF dev
<1> QED BY <1>1, <1>2, <1>3, <1>4, ReadStep, Moves

LEMMA ReadDataShows ==
  ASSUME InTime, ReadData
  PROVE  StreamsNext
<1>1. Known /\ use' = use  BY DEF InTime
<1>2. ch \in Chans /\ proc \in Procs /\ Control  BY InTimeMaps
<1>3. PICK c \in Chans : c = ch  BY <1>2
<1>4. step = "data" /\ UNCHANGED <<ch, open, dev>> /\ proc' = "idle"
  BY DEF ReadData, Received, Return
<1>5. proc = "read" /\ ch \in open  BY <1>2, <1>4 DEF Control, Procs
<1>6. n > 0
  <2>1. n \in use.reads /\ use.reads \subseteq 1..BufSize /\ BufSize \in Nat
    BY <1>1, <1>5, DataFacts DEF Known, Client
  <2> QED BY <2>1
<1>7. Settled(c) /\ \A d \in Chans : Settled(d)' <=> Settled(d)
  BY <1>3, <1>4, <1>5 DEF Settled
<1>8. /\ Got(c) < Got(c)' /\ Got(c)' <= devSent[c]
      /\ \A d \in Chans \ {c} : delivered'[d] = delivered[d]
  BY <1>1, <1>3, <1>6, ReadDataFlows
<1> QED BY <1>4, <1>7, <1>8, GotShows

LEMMA ReadBufferedShows ==
  ASSUME InTime, NEW c \in Chans, NEW len \in use.reads, ReadBuffered(c, len)
  PROVE  StreamsNext
<1>1. Known /\ use' = use  BY DEF InTime
<1>2. proc = "idle" /\ c \in open /\ UNCHANGED <<proc, ch, open, dev>>
  BY DEF ReadBuffered, Idle, call
<1>3. Settled(c) /\ \A d \in Chans : Settled(d)' <=> Settled(d)  BY <1>2 DEF Settled
<1>4. /\ Got(c) < Got(c)' /\ Got(c)' <= devSent[c]
      /\ \A d \in Chans \ {c} : delivered'[d] = delivered[d]
  BY <1>1, ReadBufferedFlows
<1> QED BY <1>2, <1>3, <1>4, GotShows

LEMMA HostShows ==
  ASSUME InTime, HostStep
  PROVE  StreamsNext
<1>0. /\ ch \in Chans /\ proc \in Procs /\ Control /\ Inv  BY InTimeMaps
<1>1. CASE ReplyMeanwhile  BY <1>1, Quietly DEF ReplyMeanwhile, call
<1>2. CASE ReplyBad  BY <1>2, GiveUpShows DEF ReplyBad, InTime
<1>3. CASE InitReply  BY <1>3, Quietly DEF InitReply
<1>4. CASE GetSocketReply  BY <1>4, Quietly DEF GetSocketReply
<1>5. CASE OpenReply  BY <1>5, OpenReplyShows
<1>6. CASE CreditReply  BY <1>6, CreditReplyShows
<1>7. CASE CreditRequestReply
  <2>1. proc = "write"  BY <1>0, <1>7 DEF CreditRequestReply, Control, Procs
  <2> QED BY <1>7, <2>1, Quietly DEF CreditRequestReply
<1>8. CASE CloseReply
  <2>1. proc = "close"  BY <1>0, <1>8 DEF CloseReply, Control, Procs
  <2> QED BY <1>8, <2>1, CloseGoesOnShows DEF CloseReply
<1>9. CASE ForwardData  BY <1>9, ForwardDataShows
<1>10. CASE CreditRequest  BY <1>10, Quietly DEF CreditRequest
<1>11. CASE ReverseCmd  BY <1>11, Quietly DEF ReverseCmd, call
<1>12. CASE ReverseCmdFails
  <2>1. proc = "write"  BY <1>0, <1>12 DEF ReverseCmdFails, Control, Procs
  <2> QED BY <1>12, <2>1, Quietly DEF ReverseCmdFails
<1>13. CASE ReadData  BY <1>13, ReadDataShows
<1>14. CASE ReadMeanwhile  BY <1>14, Quietly DEF ReadMeanwhile, call
<1>15. CASE ReadInvalid  BY <1>0, <1>15, NoReadInvalid
<1>16. CASE ReadTimeout
  <2>1. proc = "read"  BY <1>0, <1>16 DEF ReadTimeout, Control, Procs
  <2> QED BY <1>16, <2>1, Quietly DEF ReadTimeout
<1> QED BY <1>1, <1>2, <1>3, <1>4, <1>5, <1>6, <1>7, <1>8, <1>9, <1>10, <1>11, <1>12, <1>13, <1>14,
           <1>15, <1>16, NoTimeout DEF HostStep, InTime, InStep, ReplyStep

(* A call of a client begins; a close takes the channel from its client.   *)
LEMMA ClientShows ==
  ASSUME InTime, ClientStep
  PROVE  StreamsNext
<1>1. ASSUME NEW c \in Chans, OpenChannel(c) PROVE StreamsNext
  <2>1. \A d \in Chans : Settled(d)' <=> Settled(d)
    BY <1>1 DEF OpenChannel, Idle, Settled
  <2> QED BY <1>1, <2>1, Stutters DEF OpenChannel, dev
<1>2. ASSUME NEW c \in Chans, CloseChannel(c) PROVE StreamsNext
  <2>1. /\ proc = "idle" /\ c \in open /\ proc' = "close" /\ ch' = c
        /\ UNCHANGED <<open, dev, delivered>>
    BY <1>2 DEF CloseChannel, Idle
  <2>2. Settled(c) /\ ~Settled(c)' /\ \A d \in Chans \ {c} : Settled(d)' <=> Settled(d)
    BY <2>1 DEF Settled
  <2>3. \A d \in Chans \ {c} : Same(d)  BY <2>1, <2>2, OthersSame DEF dev
  <2>4. c \in Live /\ Live' = Live \ {c}
    <3>1. Live \subseteq Chans /\ Live' \subseteq Chans  BY InTimeMaps
    <3> QED BY <2>2, <3>1, LiveIs
  <2> QED BY <2>3, <2>4, InTimeMaps, CloseStep, Moves
<1>3. ASSUME NEW c \in Chans, NEW k \in 1..use.writes, StartWrite(c, k) PROVE StreamsNext
  <2>1. \A d \in Chans : Settled(d)' <=> Settled(d)
    BY <1>3 DEF StartWrite, Idle, Settled
  <2> QED BY <1>3, <2>1, Stutters DEF StartWrite, dev
<1>4. ASSUME NEW c \in Chans, NEW len \in use.reads, ReadBuffered(c, len) PROVE StreamsNext
  BY <1>4, ReadBufferedShows
<1>5. ASSUME NEW c \in Chans, NEW len \in use.reads, StartRead(c, len) PROVE StreamsNext
  <2>1. \A d \in Chans : Settled(d)' <=> Settled(d)
    BY <1>5 DEF StartRead, Idle, Settled
  <2> QED BY <1>5, <2>1, Stutters DEF StartRead, dev
<1> QED BY <1>1, <1>2, <1>3, <1>4, <1>5 DEF ClientStep

(* The peripheral sends or grants.                                         *)
LEMMA DevMoves ==
  ASSUME InTime, UNCHANGED <<call, open, delivered>>, NEW c \in Chans,
         Settled(c) => devSent'[c] >= devSent[c] /\ devCredit'[c] >= devCredit[c],
         \A d \in Chans \ {c} : Settled(d) => devSent'[d] = devSent[d] /\ devCredit'[d] = devCredit[d]
  PROVE  StreamsNext
<1>1. Mapped /\ Mapped'  BY InTimeMaps
<1>2. \A d \in Chans : Settled(d)' <=> Settled(d)  BY DEF Settled, call
<1>3. Live' = Live  BY <1>2, LiveSame
<1>4. \A d \in Chans : Got(d)' = Got(d)  BY DEF Got
<1>5. \A d \in Chans \ {c} : Same(d)  BY <1>2, <1>4, LiveIs DEF Same
<1>6. CASE Settled(c)
  <2>1. c \in Live  BY <1>6, LiveIs
  <2> QED BY <1>1, <1>3, <1>4, <1>5, <1>6, <2>1, ReceiveStep, Moves
<1>7. CASE ~Settled(c)
  <2>1. Same(c)  BY <1>2, <1>7, LiveIs DEF Same
  <2>2. \A d \in Chans : Same(d)  BY <1>5, <2>1
  <2>3. UNCHANGED <<Live, Unread, Taken, Grantable>>  BY <1>1, <2>2, NothingShows
  <2> QED BY <2>3 DEF StreamsNext
<1> QED BY <1>6, <1>7

LEMMA DevShows ==
  ASSUME InTime, DevStep
  PROVE  StreamsNext
<1>0. /\ Known /\ use' = use /\ ch \in Chans /\ devCredit \in [Chans -> Nat] /\ devSent \in [Chans -> Nat]
  <2>1. Known /\ use' = use  BY DEF InTime
  <2>2. devSent \in [Chans -> Nat]  BY <2>1, DataFacts DEF Known
  <2>3. ch \in Chans /\ devCredit \in [Chans -> Nat]  BY <2>1 DEF Known, Inv, Core, Typed
  <2> QED BY <2>1, <2>2, <2>3
<1>1. CASE DevRefuse
  <2>1. UNCHANGED <<devSent, devCredit, delivered, call, open>>  BY <1>0, <1>1, DevRefuseFlows
  <2>2. \A c \in Chans : Settled(c)' <=> Settled(c)  BY <2>1 DEF Settled, call
  <2> QED BY <2>1, <2>2, Stutters
<1>2. CASE DevAnswer
  <2>1. PICK c \in Chans : c = ch  BY <1>0
  <2>2. /\ UNCHANGED <<call, open, delivered>>
        /\ \A d \in Chans : Settled(d) => /\ devSent'[d] = devSent[d]
                                          /\ d # ch => devCredit'[d] = devCredit[d]
                                          /\ devCredit'[d] >= devCredit[d]
    BY <1>0, <1>2, DevAnswerFlows
  <2>3. Settled(c) => devSent'[c] >= devSent[c] /\ devCredit'[c] >= devCredit[c]
    BY <1>0, <2>2
  <2>4. \A d \in Chans \ {c} : Settled(d) => devSent'[d] = devSent[d] /\ devCredit'[d] = devCredit[d]
    BY <2>1, <2>2
  <2> QED BY <2>2, <2>3, <2>4, DevMoves
<1>3. ASSUME NEW c \in Chans, DevCredit(c) PROVE StreamsNext
  <2>1. /\ UNCHANGED <<devSent, delivered, call, open>>
        /\ devCredit' = [devCredit EXCEPT ![c] = @ + 1]
    BY <1>0, <1>3, DevCreditFlows
  <2>2. devSent'[c] >= devSent[c] /\ devCredit'[c] >= devCredit[c]  BY <1>0, <2>1
  <2>3. \A d \in Chans \ {c} : devSent'[d] = devSent[d] /\ devCredit'[d] = devCredit[d]
    BY <1>0, <2>1
  <2> QED BY <2>1, <2>2, <2>3, DevMoves
<1>4. ASSUME NEW c \in Chans, DevData(c) PROVE StreamsNext
  BY <1>0, <1>4, DevDataFlows, DevMoves
<1> QED BY <1>1, <1>2, <1>3, <1>4, NoTimeout DEF DevStep, DevAnswers, InTime, InStep

(* Every step of the transport is one of the streams, or none.             *)
LEMMA StepShows ==
  ASSUME FInv, FInv', Calm, [Next]_vars
  PROVE  StreamsNext
<1>1. CASE UNCHANGED vars
  <2>1. UNCHANGED <<Live, Unread, Taken, Grantable>>
    BY <1>1 DEF vars, call, ta, buf, dev, Live, Unread, Taken, Grantable, Buffered, BytesOnTheWay,
       Payload, IsData
  <2> QED BY <2>1 DEF StreamsNext
<1>2. CASE lost' # 0
  <2>1. Live' = {}  BY <1>2 DEF Live
  <2> QED BY <2>1, FailStep DEF StreamsNext, Streams!Next
<1>3. CASE Next /\ lost' = 0
  <2>2. lost = 0
    <3>1. lost \in 0..use.lost /\ use.lost \in Nat  BY ConstantsAssumption DEF FInv, IInv, Profile
    <3> QED BY <1>3, <3>1, LostKept
  <2>3. use' = use  BY <1>3 DEF Next, HostStep, ClientStep, DevStep, DevAnswers
  <2>4. Known /\ Calm'
    BY <2>2, <2>3 DEF Calm, FInv, IInv, Inv, Known, Flow
  <2>5. InTime  BY <1>3, <2>2, <2>3, <2>4 DEF InTime
  <2> QED BY <1>3, <2>5, HostShows, ClientShows, DevShows DEF Next
<1> QED BY <1>1, <1>2, <1>3

(* The transport implements ChannelStreams: whatever commands, waits and   *)
(* packets of other channels a call of dot4_channel_* meets, a client      *)
(* reads the bytes the peripheral sent on its channel, in order and once,  *)
(* each packet it writes uses up one the peripheral granted, and one       *)
(* channel moves at a time.                                                *)
THEOREM StreamsKept == Spec => (Tame(use) /\ Whole(use) => KeepsStreams)
<1>1. Init => Streams!Init
  <2> SUFFICES ASSUME Init PROVE Streams!Init
    OBVIOUS
  <2>1. Live = {}  BY DEF Init, Live
  <2> QED BY <2>1 DEF Streams!Init
<1>2. Calm /\ [Next]_vars => Calm'
  BY DEF Calm, Next, HostStep, ClientStep, DevStep, DevAnswers, vars
<1>3. FInv /\ FInv' /\ Calm /\ [Next]_vars => [Streams!Next]_(Streams!streams)
  <2>1. StreamsNext => [Streams!Next]_(Streams!streams)
    BY DEF StreamsNext, Streams!streams, Unread, Taken, Grantable
  <2> QED BY <2>1, StepShows
<1>4. Tame(use) /\ Whole(use) <=> Calm  BY DEF Calm
<1> QED BY <1>1, <1>2, <1>3, <1>4, StreamsInvariant, PTL DEF Spec, KeepsStreams, Streams!Spec
==============================================================================
