------------------------ MODULE MusbSession_proofs -------------------------
(***************************************************************************)
(* Proofs about MusbSession, for any processes, channels, io modes and     *)
(* interfaces.  The argument has layers, each inductive relative to those  *)
(* it names: what the call in progress has established; the channel count, *)
(* which needs clients that close their channels before the device; what   *)
(* every open channel stands on; what the processes keep apart; and the    *)
(* transport of a process that has not mixed the two kinds of channel.     *)
(***************************************************************************)
EXTENDS MusbHistory, FiniteSetTheorems, TLAPS

(* What a process that is inside a call has established.                   *)
CallOK(p) ==
    /\ pc[p] \notin {"idle", "exit"} => index[p]
    /\ pc[p] \in {"init", "socket"} =>
          /\ chan[p] \in Channels \cap TransportChannels
          /\ client_cnt[p][chan[p]] = 1
          /\ chan_fd[p][chan[p]] = FD_NA
          /\ io_mode[p] \in TransportModes
    /\ pc[p] = "init" => fd[p] \in TransportFds
    /\ index[p] => io_mode[p] \in Modes
    /\ mlc_fd[p] \in TransportFds \cup {FD_NA}
    /\ ~index[p] => hd[p] = {}

Inv1 == TypeOK /\ \A p \in Procs : CallOK(p)

LEMMA TransportFdsType == TransportFds \subseteq FDs /\ FD_NA \notin TransportFds
  BY DEF TransportFds, TransportOrder, FDs, FD_7_1_3, FD_ff_ff_ff, FD_ff_d4_0,
         FD_7_1_2, FD_ff_9_1, FD_NA

LEMMA CompFdType ==
  ASSUME NEW c \in CompChannels
  PROVE  CompFd(c) \in FDs
  BY DEF CompFd, CompChannels, FDs, FD_ff_9_1, EWS, SOAPSCAN, SOAPFAX,
         MARVELL_SCAN, MARVELL_FAX, EWS_LEDM, LEDM_SCAN, MARVELL_EWS, ESCL_SCAN,
         IPP, IPP2, FD_7_1_2, FD_7_1_4, FD_ff_1_1, FD_ff_2_1, FD_ff_3_1,
         FD_ff_ff_ff, FD_ff_4_1, FD_ff_1_0, FD_ff_cc_0, FD_ff_2_10

LEMMA FdConstants == FD_NA \notin FDs /\ FD_7_1_2 \in FDs
  BY DEF FD_NA, FD_7_1_2, FDs, FD_ff_9_1

LEMMA Inv1Init == Init => Inv1
  BY ConstantsAssumption DEF Init, Inv1, TypeOK, CallOK, Calls, RawModes

LEMMA Inv1Next == Inv1 /\ [Next]_vars => Inv1'
  <1> SUFFICES ASSUME Inv1, [Next]_vars PROVE Inv1'
    OBVIOUS
  <1>index. index \in [Procs -> BOOLEAN]
    BY DEF Inv1, TypeOK
  <1>io_mode. io_mode \in [Procs -> RawModes \cup TransportModes]
    BY DEF Inv1, TypeOK
  <1>channel_cnt. channel_cnt \in [Procs -> Int]
    BY DEF Inv1, TypeOK
  <1>client_cnt. client_cnt \in [Procs -> [Channels -> 0..1]]
    BY DEF Inv1, TypeOK
  <1>chan_fd. chan_fd \in [Procs -> [Channels -> FDs \cup {FD_NA}]]
    BY DEF Inv1, TypeOK
  <1>mlc_up. mlc_up \in [Procs -> BOOLEAN]
    BY DEF Inv1, TypeOK
  <1>mlc_fd. mlc_fd \in [Procs -> FDs \cup {FD_NA}]
    BY DEF Inv1, TypeOK
  <1>hd. hd \in [Procs -> SUBSET FDs]
    BY DEF Inv1, TypeOK
  <1>pc. pc \in [Procs -> Calls]
    BY DEF Inv1, TypeOK
  <1>chan. chan \in [Procs -> Channels \cup {0}]
    BY DEF Inv1, TypeOK
  <1>fd. fd \in [Procs -> FDs \cup {FD_NA}]
    BY DEF Inv1, TypeOK
  <1>link. link \in [FDs -> Procs \cup {NoProc}]
    BY DEF Inv1, TypeOK
  <1>c. \A q \in Procs : CallOK(q)
    BY DEF Inv1
  <1>t. TypeOK
    BY DEF Inv1
  <1> USE ConstantsAssumption, TransportFdsType, FdConstants
  <1>1. CASE UNCHANGED vars
    BY <1>1 DEF vars, Inv1, TypeOK, CallOK
  <1>2. ASSUME NEW p \in Procs, NEW m \in Modes, OpenDevice(p, m) PROVE Inv1'
    <2>1. TypeOK'
      <3>1. (index \in [Procs -> BOOLEAN])'
        BY <1>2, <1>index, <1>c DEF OpenDevice, FirstClaimable, Claimable, Idle, Calls, CallOK
      <3>2. (io_mode \in [Procs -> RawModes \cup TransportModes])'
        BY <1>2, <1>io_mode, <1>c DEF OpenDevice, FirstClaimable, Claimable, Idle, Calls, CallOK
      <3>3. (channel_cnt \in [Procs -> Int])'
        BY <1>2, <1>channel_cnt, <1>c DEF OpenDevice, FirstClaimable, Claimable, Idle, Calls, CallOK
      <3>4. (hd \in [Procs -> SUBSET FDs])'
        BY <1>2, <1>hd, <1>c DEF OpenDevice, FirstClaimable, Claimable, Idle, Calls, CallOK
      <3>5. (pc \in [Procs -> Calls])'
        BY <1>2, <1>pc, <1>c DEF OpenDevice, FirstClaimable, Claimable, Idle, Calls, CallOK
      <3>6. (fd \in [Procs -> FDs \cup {FD_NA}])'
        BY <1>2, <1>fd, <1>c DEF OpenDevice, FirstClaimable, Claimable, Idle, Calls, CallOK
      <3>u. UNCHANGED <<client_cnt, chan_fd, mlc_up, mlc_fd, chan, link>>
        BY <1>2 DEF OpenDevice, FirstClaimable, Claimable, Idle, Calls
      <3> QED BY <3>u, <3>1, <3>2, <3>3, <3>4, <3>5, <3>6 DEF TypeOK, Inv1
    <2>2. ASSUME NEW q \in Procs PROVE CallOK(q)'
      <3>1. CASE q = p
        BY <1>2, <3>1, <1>t, <1>c DEF OpenDevice, FirstClaimable, Claimable, Idle, Calls, TypeOK, CallOK
      <3>2. CASE q # p
        BY <1>2, <3>2, <1>t, <1>c DEF OpenDevice, FirstClaimable, Claimable, Idle, Calls, TypeOK, CallOK
      <3> QED BY <3>1, <3>2
    <2> QED BY <2>1, <2>2 DEF Inv1
  <1>3. ASSUME NEW p \in Procs, OpenDeviceEnd(p) PROVE Inv1'
    <2>1. TypeOK'
      <3>1. (index \in [Procs -> BOOLEAN])'
        BY <1>3, <1>index, <1>c DEF OpenDeviceEnd, Calls, CallOK
      <3>2. (hd \in [Procs -> SUBSET FDs])'
        BY <1>3, <1>hd, <1>c DEF OpenDeviceEnd, Calls, CallOK
      <3>3. (pc \in [Procs -> Calls])'
        BY <1>3, <1>pc, <1>c DEF OpenDeviceEnd, Calls, CallOK
      <3>u. UNCHANGED <<io_mode, channel_cnt, client_cnt, chan_fd, mlc_up, mlc_fd, chan, fd, link>>
        BY <1>3 DEF OpenDeviceEnd, Calls
      <3> QED BY <3>u, <3>1, <3>2, <3>3 DEF TypeOK, Inv1
    <2>2. ASSUME NEW q \in Procs PROVE CallOK(q)'
      <3>1. CASE q = p
        BY <1>3, <3>1, <1>t, <1>c DEF OpenDeviceEnd, Calls, TypeOK, CallOK
      <3>2. CASE q # p
        BY <1>3, <3>2, <1>t, <1>c DEF OpenDeviceEnd, Calls, TypeOK, CallOK
      <3> QED BY <3>1, <3>2
    <2> QED BY <2>1, <2>2 DEF Inv1
  <1>4. ASSUME NEW p \in Procs, CloseDevice(p) PROVE Inv1'
    <2>1. TypeOK'
      BY <1>4, <1>t, <1>c DEF CloseDevice, Idle, Calls, TypeOK, CallOK
    <2>2. ASSUME NEW q \in Procs PROVE CallOK(q)'
      <3>1. CASE q = p
        BY <1>4, <3>1, <1>t, <1>c DEF CloseDevice, Idle, Calls, TypeOK, CallOK
      <3>2. CASE q # p
        BY <1>4, <3>2, <1>t, <1>c DEF CloseDevice, Idle, Calls, TypeOK, CallOK
      <3> QED BY <3>1, <3>2
    <2> QED BY <2>1, <2>2 DEF Inv1
  <1>5. ASSUME NEW p \in Procs, Query(p) PROVE Inv1'
    <2>1. TypeOK'
      BY <1>5, <1>t, <1>c DEF Query, FirstClaimable, Claimable, Idle, Calls, TypeOK, CallOK
    <2>2. ASSUME NEW q \in Procs PROVE CallOK(q)'
      <3>1. CASE q = p
        BY <1>5, <3>1, <1>t, <1>c DEF Query, FirstClaimable, Claimable, Idle, Calls, TypeOK, CallOK
      <3>2. CASE q # p
        BY <1>5, <3>2, <1>t, <1>c DEF Query, FirstClaimable, Claimable, Idle, Calls, TypeOK, CallOK
      <3> QED BY <3>1, <3>2
    <2> QED BY <2>1, <2>2 DEF Inv1
  <1>6. ASSUME NEW p \in Procs, QueryEnd(p) PROVE Inv1'
    <2>1. TypeOK'
      BY <1>6, <1>t, <1>c DEF QueryEnd, Calls, TypeOK, CallOK
    <2>2. ASSUME NEW q \in Procs PROVE CallOK(q)'
      <3>1. CASE q = p
        BY <1>6, <3>1, <1>t, <1>c DEF QueryEnd, Calls, TypeOK, CallOK
      <3>2. CASE q # p
        BY <1>6, <3>2, <1>t, <1>c DEF QueryEnd, Calls, TypeOK, CallOK
      <3> QED BY <3>1, <3>2
    <2> QED BY <2>1, <2>2 DEF Inv1
  <1>7. ASSUME NEW p \in Procs, NEW c \in Channels, OpenComp(p, c) PROVE Inv1'
    <2>1. TypeOK'
      BY <1>7, CompFdType, <1>t, <1>c DEF OpenComp, OpenOnFd, NewChannel, Idle, TypeOK, CallOK
    <2>2. ASSUME NEW q \in Procs PROVE CallOK(q)'
      <3>1. CASE q = p
        BY <1>7, <3>1, <1>t, <1>c, CompFdType DEF OpenComp, OpenOnFd, NewChannel, Idle, TypeOK, CallOK
      <3>2. CASE q # p
        BY <1>7, <3>2, <1>t, <1>c, CompFdType DEF OpenComp, OpenOnFd, NewChannel, Idle, TypeOK, CallOK
      <3> QED BY <3>1, <3>2
    <2> QED BY <2>1, <2>2 DEF Inv1
  <1>8. ASSUME NEW p \in Procs, NEW c \in Channels, OpenRaw(p, c) PROVE Inv1'
    <2>1. TypeOK'
      BY <1>8, <1>t, <1>c DEF OpenRaw, OpenOnFd, NewChannel, Idle, TypeOK, CallOK
    <2>2. ASSUME NEW q \in Procs PROVE CallOK(q)'
      <3>1. CASE q = p
        BY <1>8, <3>1, <1>t, <1>c DEF OpenRaw, OpenOnFd, NewChannel, Idle, TypeOK, CallOK
      <3>2. CASE q # p
        BY <1>8, <3>2, <1>t, <1>c DEF OpenRaw, OpenOnFd, NewChannel, Idle, TypeOK, CallOK
      <3> QED BY <3>1, <3>2
    <2> QED BY <2>1, <2>2 DEF Inv1
  <1>9. ASSUME NEW p \in Procs, NEW c \in Channels, OpenTransport(p, c) PROVE Inv1'
    <2>1. TypeOK'
      <3>1. (client_cnt \in [Procs -> [Channels -> 0..1]])'
        BY <1>9, <1>client_cnt, <1>c DEF OpenTransport, NewChannel, Idle, Calls,
                TransportFd, TransportFds, TransportChoices, CallOK
      <3>2. (channel_cnt \in [Procs -> Int])'
        BY <1>9, <1>channel_cnt, <1>c DEF OpenTransport, NewChannel, Idle, Calls,
                TransportFd, TransportFds, TransportChoices, CallOK
      <3>3. (chan_fd \in [Procs -> [Channels -> FDs \cup {FD_NA}]])'
        BY <1>9, <1>chan_fd, <1>c DEF OpenTransport, NewChannel, Idle, Calls,
                TransportFd, TransportFds, TransportChoices, CallOK
      <3>4. (hd \in [Procs -> SUBSET FDs])'
        BY <1>9, <1>hd, <1>c DEF OpenTransport, NewChannel, Idle, Calls,
                TransportFd, TransportFds, TransportChoices, CallOK
      <3>5. (pc \in [Procs -> Calls])'
        BY <1>9, <1>pc, <1>c DEF OpenTransport, NewChannel, Idle, Calls,
                TransportFd, TransportFds, TransportChoices, CallOK
      <3>6. (chan \in [Procs -> Channels \cup {0}])'
        BY <1>9, <1>chan, <1>c DEF OpenTransport, NewChannel, Idle, Calls,
                TransportFd, TransportFds, TransportChoices, CallOK
      <3>7. (fd \in [Procs -> FDs \cup {FD_NA}])'
        BY <1>9, <1>fd, <1>c DEF OpenTransport, NewChannel, Idle, Calls,
                TransportFd, TransportFds, TransportChoices, CallOK
      <3>u. UNCHANGED <<index, io_mode, mlc_up, mlc_fd, link>>
        BY <1>9 DEF OpenTransport, NewChannel, Idle, Calls,
                TransportFd, TransportFds, TransportChoices
      <3> QED BY <3>u, <3>1, <3>2, <3>3, <3>4, <3>5, <3>6, <3>7 DEF TypeOK, Inv1
    <2>2. ASSUME NEW q \in Procs PROVE CallOK(q)'
      <3>1. CASE q = p
        BY <1>9, <3>1, <1>t, <1>c DEF OpenTransport, NewChannel, Idle, Calls,
                TransportFd, TransportFds, TransportChoices, TypeOK, CallOK
      <3>2. CASE q # p
        BY <1>9, <3>2, <1>t, <1>c DEF OpenTransport, NewChannel, Idle, Calls,
                TransportFd, TransportFds, TransportChoices, TypeOK, CallOK
      <3> QED BY <3>1, <3>2
    <2> QED BY <2>1, <2>2 DEF Inv1
  <1>10. ASSUME NEW p \in Procs, NEW c \in Channels, CloseChannel(p, c) PROVE Inv1'
    <2>1. TypeOK'
      <3>1. (client_cnt \in [Procs -> [Channels -> 0..1]])'
        BY <1>10, <1>client_cnt, <1>c DEF CloseChannel, CloseEffect, DelChannel, Idle, CallOK
      <3>2. (channel_cnt \in [Procs -> Int])'
        BY <1>10, <1>channel_cnt, <1>c DEF CloseChannel, CloseEffect, DelChannel, Idle, CallOK
      <3>3. (chan_fd \in [Procs -> [Channels -> FDs \cup {FD_NA}]])'
        BY <1>10, <1>chan_fd, <1>c DEF CloseChannel, CloseEffect, DelChannel, Idle, CallOK
      <3>4. (hd \in [Procs -> SUBSET FDs])'
        BY <1>10, <1>hd, <1>c DEF CloseChannel, CloseEffect, DelChannel, Idle, CallOK
      <3>5. (mlc_up \in [Procs -> BOOLEAN])'
        BY <1>10, <1>mlc_up, <1>c DEF CloseChannel, CloseEffect, DelChannel, Idle, CallOK
      <3>6. (link \in [FDs -> Procs \cup {NoProc}])'
        BY <1>10, <1>link, <1>c DEF CloseChannel, CloseEffect, DelChannel, Idle, CallOK
      <3>u. UNCHANGED <<index, io_mode, mlc_fd, pc, chan, fd>>
        BY <1>10 DEF CloseChannel, CloseEffect, DelChannel, Idle
      <3> QED BY <3>u, <3>1, <3>2, <3>3, <3>4, <3>5, <3>6 DEF TypeOK, Inv1
    <2>2. ASSUME NEW q \in Procs PROVE CallOK(q)'
      <3>1. CASE q = p
        BY <1>10, <3>1, <1>t, <1>c DEF CloseChannel, CloseEffect, DelChannel, Idle, TypeOK, CallOK
      <3>2. CASE q # p
        BY <1>10, <3>2, <1>t, <1>c DEF CloseChannel, CloseEffect, DelChannel, Idle, TypeOK, CallOK
      <3> QED BY <3>1, <3>2
    <2> QED BY <2>1, <2>2 DEF Inv1
  <1>11. ASSUME NEW p \in Procs, TransportInit(p) PROVE Inv1'
    <2>1. TypeOK'
      <3>1. (link \in [FDs -> Procs \cup {NoProc}])'
        BY <1>11, <1>link, <1>c DEF TransportInit, DelChannel, Calls, CallOK
      <3>2. (mlc_fd \in [Procs -> FDs \cup {FD_NA}])'
        BY <1>11, <1>mlc_fd, <1>c DEF TransportInit, DelChannel, Calls, CallOK
      <3>3. (mlc_up \in [Procs -> BOOLEAN])'
        BY <1>11, <1>mlc_up, <1>c DEF TransportInit, DelChannel, Calls, CallOK
      <3>4. (pc \in [Procs -> Calls])'
        BY <1>11, <1>pc, <1>c DEF TransportInit, DelChannel, Calls, CallOK
      <3>5. (client_cnt \in [Procs -> [Channels -> 0..1]])'
        BY <1>11, <1>client_cnt, <1>c DEF TransportInit, DelChannel, Calls, CallOK
      <3>6. (channel_cnt \in [Procs -> Int])'
        BY <1>11, <1>channel_cnt, <1>c DEF TransportInit, DelChannel, Calls, CallOK
      <3>u. UNCHANGED <<index, io_mode, chan_fd, hd, chan, fd>>
        BY <1>11 DEF TransportInit, DelChannel, Calls
      <3> QED BY <3>u, <3>1, <3>2, <3>3, <3>4, <3>5, <3>6 DEF TypeOK, Inv1
    <2>2. ASSUME NEW q \in Procs PROVE CallOK(q)'
      <3>1. CASE q = p
        <4>1. pc[p] = "init" /\ pc'[p] \in {"socket", "idle"}
          BY <1>11, <1>t DEF TransportInit, TypeOK
        <4>2. CASE pc'[p] = "socket"
          <5>1. /\ mlc_fd'[p] = fd[p] /\ fd[p] \in TransportFds
                /\ UNCHANGED <<client_cnt, index, io_mode, chan_fd, hd, chan>>
            BY <1>11, <4>1, <4>2, <1>t, <1>c DEF TransportInit, TypeOK, CallOK
          <5> QED BY <3>1, <4>1, <4>2, <5>1, <1>c DEF CallOK
        <4>3. CASE pc'[p] = "idle"
          <5>1. UNCHANGED <<mlc_fd, index, io_mode, hd>>
            BY <1>11, <4>1, <4>3, <1>t DEF TransportInit, TypeOK
          <5> QED BY <3>1, <4>1, <4>3, <5>1, <1>c DEF CallOK
        <4> QED BY <4>1, <4>2, <4>3
      <3>2. CASE q # p
        BY <1>11, <3>2, <1>t, <1>c DEF TransportInit, DelChannel, Calls, TypeOK, CallOK
      <3> QED BY <3>1, <3>2
    <2> QED BY <2>1, <2>2 DEF Inv1
  <1>12. ASSUME NEW p \in Procs, TransportSocket(p) PROVE Inv1'
    <2>1. TypeOK'
      <3>1. (client_cnt \in [Procs -> [Channels -> 0..1]])'
        BY <1>12, <1>client_cnt, <1>c DEF TransportSocket, DelChannel, Calls, CallOK
      <3>2. (channel_cnt \in [Procs -> Int])'
        BY <1>12, <1>channel_cnt, <1>c DEF TransportSocket, DelChannel, Calls, CallOK
      <3>3. (pc \in [Procs -> Calls])'
        BY <1>12, <1>pc, <1>c DEF TransportSocket, DelChannel, Calls, CallOK
      <3>u. UNCHANGED <<index, io_mode, chan_fd, mlc_up, mlc_fd, hd, chan, fd, link>>
        BY <1>12 DEF TransportSocket, DelChannel, Calls
      <3> QED BY <3>u, <3>1, <3>2, <3>3 DEF TypeOK, Inv1
    <2>2. ASSUME NEW q \in Procs PROVE CallOK(q)'
      <3>1. CASE q = p
        BY <1>12, <3>1, <1>t, <1>c DEF TransportSocket, DelChannel, Calls, TypeOK, CallOK
      <3>2. CASE q # p
        BY <1>12, <3>2, <1>t, <1>c DEF TransportSocket, DelChannel, Calls, TypeOK, CallOK
      <3> QED BY <3>1, <3>2
    <2> QED BY <2>1, <2>2 DEF Inv1
  <1>13. ASSUME NEW p \in Procs, Exit(p) PROVE Inv1'
    <2>1. TypeOK'
      BY <1>13, <1>t, <1>c DEF Exit, Idle, Calls, TypeOK, CallOK
    <2>2. ASSUME NEW q \in Procs PROVE CallOK(q)'
      <3>1. CASE q = p
        BY <1>13, <3>1, <1>t, <1>c DEF Exit, Idle, Calls, TypeOK, CallOK
      <3>2. CASE q # p
        BY <1>13, <3>2, <1>t, <1>c DEF Exit, Idle, Calls, TypeOK, CallOK
      <3> QED BY <3>1, <3>2
    <2> QED BY <2>1, <2>2 DEF Inv1
  <1>14. ASSUME NEW p \in Procs, CleanupChannel(p) PROVE Inv1'
    <2>1. TypeOK'
      <3>1. (client_cnt \in [Procs -> [Channels -> 0..1]])'
        BY <1>14, <1>client_cnt, <1>c DEF CleanupChannel, CloseEffect, DelChannel, Open, CallOK
      <3>2. (channel_cnt \in [Procs -> Int])'
        BY <1>14, <1>channel_cnt, <1>c DEF CleanupChannel, CloseEffect, DelChannel, Open, CallOK
      <3>3. (chan_fd \in [Procs -> [Channels -> FDs \cup {FD_NA}]])'
        BY <1>14, <1>chan_fd, <1>c DEF CleanupChannel, CloseEffect, DelChannel, Open, CallOK
      <3>4. (hd \in [Procs -> SUBSET FDs])'
        BY <1>14, <1>hd, <1>c DEF CleanupChannel, CloseEffect, DelChannel, Open, CallOK
      <3>5. (mlc_up \in [Procs -> BOOLEAN])'
        BY <1>14, <1>mlc_up, <1>c DEF CleanupChannel, CloseEffect, DelChannel, Open, CallOK
      <3>6. (link \in [FDs -> Procs \cup {NoProc}])'
        BY <1>14, <1>link, <1>c DEF CleanupChannel, CloseEffect, DelChannel, Open, CallOK
      <3>u. UNCHANGED <<index, io_mode, mlc_fd, pc, chan, fd>>
        BY <1>14 DEF CleanupChannel, CloseEffect, DelChannel, Open
      <3> QED BY <3>u, <3>1, <3>2, <3>3, <3>4, <3>5, <3>6 DEF TypeOK, Inv1
    <2>2. ASSUME NEW q \in Procs PROVE CallOK(q)'
      <3>1. CASE q = p
        BY <1>14, <3>1, <1>t, <1>c DEF CleanupChannel, CloseEffect, DelChannel, Open, TypeOK, CallOK
      <3>2. CASE q # p
        BY <1>14, <3>2, <1>t, <1>c DEF CleanupChannel, CloseEffect, DelChannel, Open, TypeOK, CallOK
      <3> QED BY <3>1, <3>2
    <2> QED BY <2>1, <2>2 DEF Inv1
  <1>15. ASSUME NEW p \in Procs, CleanupDevice(p) PROVE Inv1'
    <2>1. TypeOK'
      BY <1>15, <1>t, <1>c DEF CleanupDevice, Gone, Calls, RawModes, TypeOK, CallOK
    <2>2. ASSUME NEW q \in Procs PROVE CallOK(q)'
      <3>1. CASE q = p
        BY <1>15, <3>1, <1>t, <1>c DEF CleanupDevice, Gone, Calls, RawModes, TypeOK, CallOK
      <3>2. CASE q # p
        BY <1>15, <3>2, <1>t, <1>c DEF CleanupDevice, Gone, Calls, RawModes, TypeOK, CallOK
      <3> QED BY <3>1, <3>2
    <2> QED BY <2>1, <2>2 DEF Inv1
  <1>16. ASSUME NEW p \in Procs, Crash(p) PROVE Inv1'
    <2>1. TypeOK'
      BY <1>16, <1>t, <1>c DEF Crash, Gone, Calls, RawModes, TypeOK, CallOK
    <2>2. ASSUME NEW q \in Procs PROVE CallOK(q)'
      <3>1. CASE q = p
        BY <1>16, <3>1, <1>t, <1>c DEF Crash, Gone, Calls, RawModes, TypeOK, CallOK
      <3>2. CASE q # p
        BY <1>16, <3>2, <1>t, <1>c DEF Crash, Gone, Calls, RawModes, TypeOK, CallOK
      <3> QED BY <3>1, <3>2
    <2> QED BY <2>1, <2>2 DEF Inv1
  <1> QED
    BY <1>1, <1>2, <1>3, <1>4, <1>5, <1>6, <1>7, <1>8, <1>9, <1>10, <1>11, <1>12, <1>13, <1>14, <1>15, <1>16 DEF Next, Step

(* TypeOK holds in every reachable state, whatever the clients do.         *)
THEOREM TypeCorrect == Spec => []TypeOK
  <1>1. Inv1 => TypeOK
    BY DEF Inv1
  <1> QED
    BY Inv1Init, Inv1Next, <1>1, PTL DEF Spec
-----------------------------------------------------------------------------
(* A step of one process leaves the library state of the others alone;     *)
(* they only meet in the kernel's claims and in the peripheral.            *)
Same(q) ==
    /\ index'[q] = index[q] /\ io_mode'[q] = io_mode[q]
    /\ channel_cnt'[q] = channel_cnt[q] /\ client_cnt'[q] = client_cnt[q]
    /\ chan_fd'[q] = chan_fd[q] /\ mlc_fd'[q] = mlc_fd[q]
    /\ hd'[q] = hd[q] /\ pc'[q] = pc[q] /\ chan'[q] = chan[q]

LEMMA OthersSame ==
  ASSUME TypeOK, NEW p \in Procs, Step(p), NEW q \in Procs, q # p
  PROVE  Same(q)
  BY DEF TypeOK, Step, Same, OpenDevice, OpenDeviceEnd, CloseDevice, Query,
         QueryEnd, OpenComp, OpenRaw, OpenTransport, OpenOnFd, NewChannel,
         CloseChannel, CloseEffect, DelChannel, TransportInit, TransportSocket,
         Exit, CleanupChannel, CleanupDevice, Crash, Gone

LEMMA OpenFinite ==
  ASSUME NEW p \in Procs
  PROVE  IsFiniteSet(Open(p)) /\ Cardinality(Open(p)) \in Nat
  <1>1. IsFiniteSet(Open(p))
    BY ConstantsAssumption, FS_Subset DEF Open
  <1> QED
    BY <1>1, FS_CardinalityType

(* new_channel adds one open channel and counts it.                        *)
LEMMA NewChannelCounts ==
  ASSUME TypeOK, NEW p \in Procs, NEW c \in Channels, NewChannel(p, c)
  PROVE  /\ c \notin Open(p)
         /\ Open(p)' = Open(p) \cup {c}
         /\ Cardinality(Open(p)') = Cardinality(Open(p)) + 1
         /\ channel_cnt'[p] = channel_cnt[p] + 1
  <1>1. c \notin Open(p) /\ Open(p)' = Open(p) \cup {c}
    BY DEF TypeOK, NewChannel, Open
  <1>2. Cardinality(Open(p)') = Cardinality(Open(p)) + 1
    BY <1>1, OpenFinite, FS_AddElement
  <1> QED
    BY <1>1, <1>2 DEF TypeOK, NewChannel

(* del_channel removes one open channel and gives its count back.          *)
LEMMA DelChannelCounts ==
  ASSUME TypeOK, NEW p \in Procs, NEW c \in Open(p), DelChannel(p, c)
  PROVE  /\ Open(p)' = Open(p) \ {c}
         /\ Cardinality(Open(p)') = Cardinality(Open(p)) - 1
         /\ channel_cnt'[p] = channel_cnt[p] - 1
  <1>0. c \in Channels /\ client_cnt[p][c] = 1
    BY DEF TypeOK, Open
  <1>1. Open(p)' = Open(p) \ {c}
    BY <1>0 DEF TypeOK, DelChannel, Open
  <1>2. Cardinality(Open(p)') = Cardinality(Open(p)) - 1
    BY <1>1, OpenFinite, FS_RemoveElement
  <1> QED
    BY <1>0, <1>1, <1>2 DEF TypeOK, DelChannel

(* The only channel is the one a count of one is about.                    *)
LEMMA OnlyChannel ==
  ASSUME NEW p \in Procs, Cardinality(Open(p)) = 1, NEW c \in Open(p)
  PROVE  Open(p) = {c}
  BY OpenFinite, FS_Singleton

-----------------------------------------------------------------------------
(* Layer 2: the channel count.  While the device is closed there is no     *)
(* open channel left for the next open_device to forget.                   *)
CountOK(p) ==
    /\ IF index[p] THEN channel_cnt[p] = Cardinality(Open(p)) ELSE Open(p) = {}
    /\ pc[p] = "open_device" => Open(p) = {}
    /\ pc[p] = "init" => Open(p) = {chan[p]}

Inv2 == \A p \in Procs : CountOK(p)

LEMMA Inv2Init == Init => Inv2
  <1> SUFFICES ASSUME Init, NEW p \in Procs PROVE CountOK(p)
    BY DEF Inv2
  <1> QED
    BY DEF Init, CountOK, Open

LEMMA CountOthers ==
  ASSUME NEW q \in Procs, CountOK(q), Same(q)
  PROVE  CountOK(q)'
  BY DEF CountOK, Same, Open

LEMMA Inv2Step ==
  ASSUME Disciplined, Inv1, Inv2, NEW p \in Procs, Step(p)
  PROVE  CountOK(p)'
  <1>t. TypeOK /\ CallOK(p) /\ CountOK(p)
    BY DEF Inv1, Inv2
  <1>f. Cardinality(Open(p)) \in Nat
    BY OpenFinite
  <1>e. Cardinality({}) = 0
    BY FS_EmptySet
  <1>1. ASSUME NEW m \in Modes, OpenDevice(p, m) PROVE CountOK(p)'
    <2>1. Open(p) = {} /\ Open(p)' = {}
      BY <1>1, <1>t DEF OpenDevice, CountOK, Open
    <2>2. channel_cnt'[p] = 0 /\ pc'[p] # "init"
      BY <1>1, <1>t DEF OpenDevice, TypeOK, Idle
    <2> QED BY <2>1, <2>2, <1>e DEF CountOK
  <1>2. CASE OpenDeviceEnd(p)
    <2>1. Open(p) = {} /\ Open(p)' = {} /\ index[p]
      BY <1>2, <1>t DEF OpenDeviceEnd, CountOK, CallOK, Open
    <2>2. channel_cnt'[p] = channel_cnt[p] /\ pc'[p] = "idle"
      BY <1>2, <1>t DEF OpenDeviceEnd, TypeOK
    <2> QED BY <2>1, <2>2, <1>t DEF CountOK
  <1>3. CASE CloseDevice(p)
    <2>1. Open(p)' = {} /\ index'[p] = FALSE /\ pc'[p] = "idle"
      BY <1>3, <1>t DEF CloseDevice, TypeOK, Idle, Open
    <2> QED BY <2>1 DEF CountOK
  <1>4. CASE Query(p) \/ QueryEnd(p) \/ Exit(p)
    <2>1. Open(p)' = Open(p) /\ channel_cnt'[p] = channel_cnt[p]
          /\ index'[p] = index[p] /\ pc'[p] \in {"query", "idle", "exit"}
      BY <1>4, <1>t DEF Query, QueryEnd, Exit, TypeOK, Open
    <2> QED BY <2>1, <1>t DEF CountOK
  <1>5. ASSUME NEW c \in Channels, OpenComp(p, c) \/ OpenRaw(p, c)
        PROVE  CountOK(p)'
    <2>1. NewChannel(p, c) /\ index[p] /\ index'[p] /\ pc'[p] = "idle"
      BY <1>5, <1>t DEF OpenComp, OpenRaw, OpenOnFd, NewChannel, Idle, TypeOK
    <2> QED BY <2>1, <1>t, <1>f, NewChannelCounts DEF CountOK
  <1>6. ASSUME NEW c \in Channels, OpenTransport(p, c) PROVE CountOK(p)'
    <2>1. NewChannel(p, c) /\ index[p] /\ index'[p] /\ chan'[p] = c
      BY <1>6, <1>t DEF OpenTransport, NewChannel, TypeOK
    <2>2. channel_cnt'[p] = Cardinality(Open(p)') /\ c \in Open(p)'
      BY <2>1, <1>t, <1>f, NewChannelCounts DEF CountOK
    <2>3. CASE FirstChannel(p) /\ pc'[p] = "init"
      <3>1. Cardinality(Open(p)') = 1
        BY <2>1, <2>2, <2>3, <1>t, NewChannelCounts DEF FirstChannel, TypeOK
      <3>2. Open(p)' = {c}
        <4>1. Cardinality(Open(p)) = 0
          BY <3>1, <2>1, <1>t, <1>f, NewChannelCounts
        <4>2. Open(p) = {}
          BY <4>1, OpenFinite, FS_EmptySet
        <4> QED BY <4>2, <2>1, <1>t, NewChannelCounts
      <3> QED BY <3>2, <2>1, <2>2, <2>3 DEF CountOK
    <2>4. CASE pc'[p] = "socket"
      BY <2>1, <2>2, <2>4 DEF CountOK
    <2> QED BY <2>3, <2>4, <1>6, <1>t DEF OpenTransport, TypeOK
  <1>7. ASSUME NEW c \in Channels, CloseChannel(p, c) PROVE CountOK(p)'
    <2>1. c \in Open(p) /\ DelChannel(p, c) /\ index[p] /\ index'[p] /\ pc'[p] = "idle"
      BY <1>7, <1>t DEF CloseChannel, CloseEffect, Open, Idle, TypeOK
    <2> QED BY <2>1, <1>t, <1>f, DelChannelCounts DEF CountOK
  <1>8. CASE CleanupChannel(p)
    <2>1. PICK c \in Open(p) : DelChannel(p, c)
      BY <1>8 DEF CleanupChannel, CloseEffect
    <2>2. index[p] /\ index'[p] /\ pc'[p] = "exit"
      BY <1>8, <1>t DEF CleanupChannel, TypeOK
    <2> QED BY <2>1, <2>2, <1>t, <1>f, DelChannelCounts DEF CountOK
  <1>9. CASE TransportInit(p)
    <2>1. index[p] /\ index'[p] /\ chan'[p] = chan[p] /\ chan[p] \in Open(p)
      BY <1>9, <1>t DEF TransportInit, CallOK, TypeOK, Open
    <2>2. CASE pc'[p] = "socket" /\ UNCHANGED <<client_cnt, channel_cnt>>
      BY <2>1, <2>2, <1>t DEF CountOK, Open
    <2>3. CASE pc'[p] = "idle" /\ DelChannel(p, chan[p])
      BY <2>1, <2>3, <1>t, <1>f, DelChannelCounts DEF CountOK
    <2> QED BY <2>2, <2>3, <1>9, <1>t DEF TransportInit, TypeOK
  <1>10. CASE TransportSocket(p)
    <2>1. index[p] /\ index'[p] /\ pc'[p] = "idle" /\ chan[p] \in Open(p)
      BY <1>10, <1>t DEF TransportSocket, CallOK, TypeOK, Open
    <2>2. CASE UNCHANGED <<client_cnt, channel_cnt>>
      BY <2>1, <2>2, <1>t DEF CountOK, Open
    <2>3. CASE DelChannel(p, chan[p])
      BY <2>1, <2>3, <1>t, <1>f, DelChannelCounts DEF CountOK
    <2> QED BY <2>2, <2>3, <1>10 DEF TransportSocket
  <1>11. CASE CleanupDevice(p) \/ Crash(p)
    <2>1. Open(p)' = {} /\ index'[p] = FALSE /\ pc'[p] = "idle"
      BY <1>11, <1>t DEF CleanupDevice, Crash, Gone, TypeOK, Open
    <2> QED BY <2>1 DEF CountOK
  <1> QED
    BY <1>1, <1>2, <1>3, <1>4, <1>5, <1>6, <1>7, <1>8, <1>9, <1>10, <1>11
       DEF Step

LEMMA Inv2Next == Disciplined /\ Inv1 /\ Inv2 /\ [Next]_vars => Inv2'
  <1> SUFFICES ASSUME Disciplined, Inv1, Inv2, [Next]_vars PROVE Inv2'
    OBVIOUS
  <1>1. CASE UNCHANGED vars
    BY <1>1 DEF vars, Inv2, CountOK, Open
  <1>2. ASSUME NEW p \in Procs, Step(p), NEW q \in Procs PROVE CountOK(q)'
    <2>1. CASE q = p
      BY <1>2, <2>1, Inv2Step
    <2>2. CASE q # p
      BY <1>2, <2>2, OthersSame, CountOthers DEF Inv1, Inv2
    <2> QED BY <2>1, <2>2
  <1> QED
    BY <1>1, <1>2 DEF Next, Inv2

(* channel_cnt counts the open channels, for clients that close their      *)
(* channels before the device: the property the transport's first-channel  *)
(* and last-channel decisions are built on.                                *)
THEOREM ChannelCount ==
  ASSUME Disciplined
  PROVE  Spec => []ChannelCntExact
  <1>1. Init => Inv1 /\ Inv2
    BY Inv1Init, Inv2Init
  <1>2. Inv1 /\ Inv2 /\ [Next]_vars => (Inv1 /\ Inv2)'
    BY Inv1Next, Inv2Next
  <1>3. Inv1 /\ Inv2 => ChannelCntExact
    BY DEF Inv2, CountOK, ChannelCntExact
  <1> QED
    BY <1>1, <1>2, <1>3, PTL DEF Spec

(* A process without the device open holds no interface.                   *)
THEOREM Released == Spec => []ReleasedWhenClosed
  <1>1. Inv1 => ReleasedWhenClosed
    BY DEF Inv1, CallOK, ReleasedWhenClosed
  <1> QED
    BY Inv1Init, Inv1Next, <1>1, PTL DEF Spec

-----------------------------------------------------------------------------
(* Layer 3: what an open channel stands on.                                *)
CompBacked(p, c) ==
    c \in CompChannels /\ chan_fd[p][c] = CompFd(c) /\ CompFd(c) \in hd[p]
RawBacked(p, c) ==
    /\ c = PRINT /\ io_mode[p] \in RawModes
    /\ chan_fd[p][c] = FD_7_1_2 /\ FD_7_1_2 \in hd[p]
TransportBacked(p, c) ==
    /\ c \in TransportChannels /\ io_mode[p] \in TransportModes
    /\ chan_fd[p][c] = FD_NA /\ mlc_fd[p] \in hd[p]
Backed(p, c) == CompBacked(p, c) \/ RawBacked(p, c) \/ TransportBacked(p, c)

BackedOK(p) ==
    /\ \A c \in Established(p) : Backed(p, c)
    /\ pc[p] = "query" => Open(p) = {}

Inv3 == \A p \in Procs : BackedOK(p)

LEMMA CompFdDistinct ==
  ASSUME NoSharedInterface, NEW c \in Channels \cap CompChannels,
         NEW d \in Channels \cap CompChannels, c # d
  PROVE  CompFd(c) # CompFd(d)
  BY DEF NoSharedInterface, CompFd, CompChannels, EWS, SOAPSCAN, SOAPFAX,
         MARVELL_SCAN, MARVELL_FAX, EWS_LEDM, LEDM_SCAN, MARVELL_EWS, ESCL_SCAN,
         IPP, IPP2, FD_7_1_4, FD_ff_1_1, FD_ff_2_1, FD_ff_3_1, FD_ff_ff_ff,
         FD_ff_4_1, FD_ff_1_0, FD_ff_cc_0, FD_ff_2_10, FD_ff_9_1

LEMMA CompFdApart ==
  ASSUME NEW c \in CompChannels
  PROVE  /\ CompFd(c) # FD_7_1_2
         /\ c # MARVELL_SCAN => CompFd(c) \notin TransportFds
  BY DEF CompFd, CompChannels, TransportFds, TransportOrder, EWS, SOAPSCAN,
         SOAPFAX, MARVELL_SCAN, MARVELL_FAX, EWS_LEDM, LEDM_SCAN, MARVELL_EWS,
         ESCL_SCAN, IPP, IPP2, FD_7_1_2, FD_7_1_3, FD_7_1_4, FD_ff_1_1,
         FD_ff_2_1, FD_ff_3_1, FD_ff_ff_ff, FD_ff_d4_0, FD_ff_4_1, FD_ff_1_0,
         FD_ff_cc_0, FD_ff_2_10, FD_ff_9_1

LEMMA KindsApart ==
  /\ RawModes \cap TransportModes = {}
  /\ TransportChannels \cap CompChannels = {}
  /\ PRINT \notin CompChannels
  BY DEF RawModes, TransportModes, TransportChannels, CompChannels, PML, PRINT,
         EWS, SOAPSCAN, SOAPFAX, MARVELL_SCAN, MARVELL_FAX, EWS_LEDM, LEDM_SCAN,
         MARVELL_EWS, ESCL_SCAN, IPP, IPP2

LEMMA Inv3Init == Init => Inv3
  BY DEF Init, Inv3, BackedOK, Established, Open

LEMMA BackedOthers ==
  ASSUME NEW q \in Procs, BackedOK(q), Same(q)
  PROVE  BackedOK(q)'
  <1>1. Open(q)' = Open(q) /\ Established(q)' = Established(q)
    BY DEF Same, Open, Established, InCall
  <1> QED
    BY <1>1 DEF BackedOK, Backed, CompBacked, RawBacked, TransportBacked, Same

(* An open that only adds a channel and a claim disturbs no other channel. *)
LEMMA BackedGrows ==
  ASSUME TypeOK, NEW p \in Procs, NEW c \in Channels, NEW d \in Channels, d # c,
         Backed(p, d), NewChannel(p, c), hd[p] \subseteq hd'[p],
         NEW x, chan_fd' = [chan_fd EXCEPT ![p][c] = x],
         UNCHANGED <<io_mode, mlc_fd>>
  PROVE  Backed(p, d)'
  BY DEF TypeOK, Backed, CompBacked, RawBacked, TransportBacked, NewChannel

(* A close releases no interface that another open channel stands on.      *)
LEMMA BackedClose ==
  ASSUME NoSharedInterface, TypeOK, NEW p \in Procs, index[p], CallOK(p),
         CountOK(p), pc[p] \in {"idle", "exit"}, BackedOK(p),
         NEW c \in Open(p), CloseEffect(p, c),
         UNCHANGED <<index, io_mode, mlc_fd, pc, chan>>
  PROVE  BackedOK(p)'
  <1>1. Open(p)' = Open(p) \ {c}
    BY DelChannelCounts DEF CloseEffect
  <1>2. Established(p) = Open(p) /\ Established(p)' = Open(p)'
    BY DEF Established, InCall, TypeOK
  <1>3. SUFFICES ASSUME NEW d \in Open(p), d # c PROVE Backed(p, d)'
    BY <1>1, <1>2 DEF BackedOK
  <1>4. Backed(p, c) /\ Backed(p, d) /\ c \in Channels /\ d \in Channels
    BY <1>2 DEF BackedOK, Open
  <1>5. chan_fd'[p][d] = chan_fd[p][d]
    BY <1>3, <1>4 DEF CloseEffect, TypeOK
  <1>6. CASE chan_fd[p][c] # FD_NA
    <2>1. hd'[p] = hd[p] \ {chan_fd[p][c]}
      BY <1>6 DEF CloseEffect, TypeOK
    <2>2. CompBacked(p, c) \/ RawBacked(p, c)
      BY <1>4, <1>6 DEF Backed, TransportBacked
    <2>3. CASE CompBacked(p, d)
      <3>1. CompFd(d) # chan_fd[p][c]
        BY <1>3, <1>4, <2>2, <2>3, CompFdDistinct, CompFdApart
           DEF CompBacked, RawBacked
      <3> QED BY <3>1, <1>5, <2>1, <2>3 DEF Backed, CompBacked
    <2>4. CASE RawBacked(p, d)
      <3>1. CompBacked(p, c)
        BY <1>3, <2>2, <2>4 DEF RawBacked
      <3>2. FD_7_1_2 # chan_fd[p][c]
        BY <3>1, CompFdApart DEF CompBacked
      <3> QED BY <3>2, <1>5, <2>1, <2>4 DEF Backed, RawBacked
    <2>5. CASE TransportBacked(p, d)
      <3>1. CompBacked(p, c)
        BY <2>2, <2>5, KindsApart DEF RawBacked, TransportBacked
      <3>2. c # MARVELL_SCAN
        BY <2>5, <1>4 DEF CallOK, TransportBacked, NoSharedInterface
      <3>3. mlc_fd[p] # chan_fd[p][c]
        BY <3>1, <3>2, CompFdApart, CompFdType, FdConstants
           DEF CompBacked, CallOK
      <3> QED BY <3>3, <1>5, <2>1, <2>5 DEF Backed, TransportBacked
    <2> QED BY <1>4, <2>3, <2>4, <2>5 DEF Backed
  <1>7. CASE chan_fd[p][c] = FD_NA /\ LastChannel(p)
    <2>1. Cardinality(Open(p)) = 1
      BY <1>7 DEF CountOK, LastChannel
    <2> QED BY <2>1, <1>3, OnlyChannel
  <1>8. CASE chan_fd[p][c] = FD_NA /\ ~LastChannel(p)
    <2>1. hd' = hd
      BY <1>8 DEF CloseEffect
    <2> QED BY <2>1, <1>4, <1>5 DEF Backed, CompBacked, RawBacked, TransportBacked
  <1> QED
    BY <1>6, <1>7, <1>8

LEMMA Inv3Step ==
  ASSUME Disciplined, NoSharedInterface, Inv1, Inv2, Inv3, NEW p \in Procs, Step(p)
  PROVE  BackedOK(p)'
  <1>t. TypeOK /\ CallOK(p) /\ CountOK(p) /\ CountOK(p)' /\ BackedOK(p)
    BY Inv2Step DEF Inv1, Inv2, Inv3
  <1>n. ASSUME Open(p)' = {} PROVE BackedOK(p)'
    BY <1>n DEF BackedOK, Established
  <1>1. ASSUME NEW m \in Modes, OpenDevice(p, m) PROVE BackedOK(p)'
    BY <1>1, <1>t, <1>n DEF OpenDevice, CountOK, Open
  <1>2. CASE OpenDeviceEnd(p) \/ CloseDevice(p) \/ CleanupDevice(p) \/ Crash(p)
    <2>1. Open(p)' = {}
      BY <1>2, <1>t DEF OpenDeviceEnd, CloseDevice, CleanupDevice, Crash, Gone,
                        CountOK, Open, TypeOK
    <2> QED BY <2>1, <1>n
  <1>3. CASE Query(p) \/ QueryEnd(p)
    <2>1. CASE Query(p)
      <3>1. hd[p] = {} /\ Established(p) = Open(p) /\ Open(p)' = Open(p)
        BY <2>1 DEF Query, Established, InCall, Idle, Open
      <3>2. Open(p) = {}
        BY <3>1, <1>t DEF BackedOK, Backed, CompBacked, RawBacked, TransportBacked
      <3> QED BY <3>1, <3>2, <1>n
    <2>2. CASE QueryEnd(p)
      BY <2>2, <1>t, <1>n DEF QueryEnd, BackedOK, Open
    <2> QED BY <1>3, <2>1, <2>2
  <1>4. CASE Exit(p)
    <2>1. Established(p)' = Established(p) /\ pc'[p] = "exit"
      BY <1>4, <1>t DEF Exit, Established, InCall, Open, Idle, TypeOK
    <2> QED BY <2>1, <1>4, <1>t DEF Exit, BackedOK, Backed, CompBacked, RawBacked,
                                    TransportBacked
  <1>5. ASSUME NEW c \in Channels, NEW f \in FDs, OpenOnFd(p, c, f),
               \/ c \in CompChannels /\ f = CompFd(c)
               \/ c = PRINT /\ f = FD_7_1_2 /\ io_mode[p] \in RawModes
        PROVE  BackedOK(p)'
    <2>1. Open(p)' = Open(p) \cup {c} /\ c \notin Open(p)
      BY <1>5, <1>t, NewChannelCounts DEF OpenOnFd
    <2>2. Established(p) = Open(p) /\ Established(p)' = Open(p)' /\ pc'[p] = "idle"
      BY <1>5 DEF OpenOnFd, NewChannel, Idle, Established, InCall
    <2>3. f \in hd'[p] /\ chan_fd'[p][c] = f /\ hd[p] \subseteq hd'[p]
      BY <1>5, <1>t DEF OpenOnFd, TypeOK
    <2>4. Backed(p, c)'
      BY <1>5, <2>3 DEF OpenOnFd, Backed, CompBacked, RawBacked
    <2>5. ASSUME NEW d \in Open(p) PROVE Backed(p, d)'
      <3>1. Backed(p, d) /\ d # c /\ d \in Channels
        BY <2>1, <2>2, <1>t DEF BackedOK, Open
      <3> QED BY <3>1, <1>5, <2>3, <1>t, BackedGrows DEF OpenOnFd
    <2> QED BY <2>1, <2>2, <2>4, <2>5 DEF BackedOK
  <1>6. ASSUME NEW c \in Channels, OpenComp(p, c) \/ OpenRaw(p, c)
        PROVE  BackedOK(p)'
    BY <1>5, <1>6, CompFdType, FdConstants DEF OpenComp, OpenRaw
  <1>7. ASSUME NEW c \in Channels, OpenTransport(p, c) PROVE BackedOK(p)'
    <2>1. Open(p)' = Open(p) \cup {c} /\ c \notin Open(p)
      BY <1>7, <1>t, NewChannelCounts DEF OpenTransport
    <2>2. Established(p) = Open(p) /\ Established(p)' = Open(p)
      BY <1>7, <1>t, <2>1 DEF OpenTransport, NewChannel, Idle, Established, InCall,
                              TypeOK
    <2>3. hd[p] \subseteq hd'[p] /\ pc'[p] # "query"
      BY <1>7, <1>t DEF OpenTransport, TypeOK
    <2>4. ASSUME NEW d \in Open(p) PROVE Backed(p, d)'
      <3>1. Backed(p, d) /\ d # c /\ d \in Channels
        BY <2>1, <2>2, <1>t DEF BackedOK, Open
      <3> QED BY <3>1, <1>7, <2>3, <1>t, BackedGrows DEF OpenTransport
    <2> QED BY <2>2, <2>3, <2>4 DEF BackedOK
  <1>8. ASSUME NEW c \in Channels, CloseChannel(p, c) PROVE BackedOK(p)'
    <2>1. c \in Open(p) /\ pc[p] = "idle" /\ index[p]
      BY <1>8 DEF CloseChannel, Open, Idle
    <2> QED BY <2>1, <1>8, <1>t, BackedClose DEF CloseChannel
  <1>9. CASE CleanupChannel(p)
    <2>1. PICK c \in Open(p) : CloseEffect(p, c)
      BY <1>9 DEF CleanupChannel
    <2> QED BY <2>1, <1>9, <1>t, BackedClose DEF CleanupChannel
  <1>10. CASE TransportInit(p)
    <2>1. Open(p) = {chan[p]} /\ chan'[p] = chan[p]
      BY <1>10, <1>t DEF TransportInit, CountOK
    <2>2. CASE pc' = [pc EXCEPT ![p] = "socket"] /\ UNCHANGED client_cnt
      <3>1. Established(p)' = {} /\ pc'[p] = "socket"
        BY <2>1, <2>2, <1>t DEF Established, InCall, Open, TypeOK
      <3> QED BY <3>1 DEF BackedOK
    <2>3. CASE DelChannel(p, chan[p])
      BY <2>1, <2>3, <1>t, <1>n, DelChannelCounts
    <2> QED BY <2>2, <2>3, <1>10 DEF TransportInit
  <1>11. CASE TransportSocket(p)
    <2>1. /\ chan[p] \in Open(p) /\ pc'[p] = "idle"
          /\ chan[p] \in TransportChannels /\ io_mode[p] \in TransportModes
          /\ chan_fd[p][chan[p]] = FD_NA
      BY <1>11, <1>t DEF TransportSocket, CallOK, TypeOK, Open
    <2>2. Established(p) = Open(p) \ {chan[p]} /\ Established(p)' = Open(p)'
      BY <1>11, <2>1 DEF TransportSocket, Established, InCall
    <2>3. ASSUME NEW d, Backed(p, d) PROVE Backed(p, d)'
      BY <1>11, <2>3 DEF TransportSocket, Backed, CompBacked, RawBacked,
                         TransportBacked
    <2>4. CASE mlc_fd[p] \in hd[p] /\ UNCHANGED client_cnt
      <3>1. Backed(p, chan[p])
        BY <2>1, <2>4 DEF Backed, TransportBacked
      <3>2. Open(p)' = Open(p)
        BY <2>4 DEF Open
      <3> QED BY <2>1, <2>2, <2>3, <3>1, <3>2, <1>t DEF BackedOK
    <2>5. CASE DelChannel(p, chan[p])
      <3>1. Open(p)' = Open(p) \ {chan[p]}
        BY <2>1, <2>5, <1>t, DelChannelCounts
      <3> QED BY <2>1, <2>2, <2>3, <3>1, <1>t DEF BackedOK
    <2> QED BY <2>4, <2>5, <1>11 DEF TransportSocket
  <1> QED
    BY <1>1, <1>2, <1>3, <1>4, <1>6, <1>7, <1>8, <1>9, <1>10, <1>11 DEF Step

LEMMA Inv3Next ==
  ASSUME Disciplined, NoSharedInterface
  PROVE  Inv1 /\ Inv2 /\ Inv3 /\ [Next]_vars => Inv3'
  <1> SUFFICES ASSUME Inv1, Inv2, Inv3, [Next]_vars PROVE Inv3'
    OBVIOUS
  <1>1. CASE UNCHANGED vars
    BY <1>1 DEF vars, Inv3, BackedOK, Backed, CompBacked, RawBacked,
                TransportBacked, Established, InCall, Open
  <1>2. ASSUME NEW p \in Procs, Step(p), NEW q \in Procs PROVE BackedOK(q)'
    <2>1. CASE q = p
      BY <1>2, <2>1, Inv3Step
    <2>2. CASE q # p
      BY <1>2, <2>2, OthersSame, BackedOthers DEF Inv1, Inv3
    <2> QED BY <2>1, <2>2
  <1> QED
    BY <1>1, <1>2 DEF Next, Inv3

(* Every open channel keeps the claim it reads and writes through, for any *)
(* peripheral on which no two channels of a session share an interface:    *)
(* closes in any order, failed opens, exits and kills included.            *)
THEOREM ChannelsBacked ==
  ASSUME Disciplined, NoSharedInterface
  PROVE  Spec => []OpenChannelBacked
  <1>1. Init => Inv1 /\ Inv2 /\ Inv3
    BY Inv1Init, Inv2Init, Inv3Init
  <1>2. Inv1 /\ Inv2 /\ Inv3 /\ [Next]_vars => (Inv1 /\ Inv2 /\ Inv3)'
    BY Inv1Next, Inv2Next, Inv3Next
  <1>3. Inv1 /\ Inv2 /\ Inv3 => OpenChannelBacked
    <2> SUFFICES ASSUME Inv3, NEW p \in Procs, NEW c \in Established(p)
                 PROVE  IF chan_fd[p][c] # FD_NA THEN chan_fd[p][c] \in hd[p]
                                                 ELSE mlc_fd[p] \in hd[p]
      BY DEF OpenChannelBacked
    <2>1. Backed(p, c)
      BY DEF Inv3, BackedOK
    <2> QED BY <2>1, CompFdType, FdConstants
               DEF Backed, CompBacked, RawBacked, TransportBacked
  <1> QED
    BY <1>1, <1>2, <1>3, PTL DEF Spec

-----------------------------------------------------------------------------
(* Layer 4: what the processes keep apart.  The kernel's claims: no two    *)
(* handles, of one process or of two, are on one USB interface.            *)
Exclusive ==
    \A p, q \in Procs : \A f \in hd[p] : \A g \in hd[q] :
        Interface[f] = Interface[g] => p = q /\ f = g

(* The transport is brought up on an interface the process holds, and the  *)
(* channels without an interface of their own are those of the transport.  *)
KindOK(p) ==
    /\ pc[p] = "init" => fd[p] \in hd[p]
    /\ \A c \in Open(p) :
          IF chan_fd[p][c] = FD_NA
          THEN c \in TransportChannels /\ io_mode[p] \in TransportModes
          ELSE c \in CompChannels \/ io_mode[p] \in RawModes

Inv4 == Exclusive /\ \A p \in Procs : KindOK(p)

(* Layer 5, about a process that has not mixed the two kinds of channel.   *)
TransportUp(p) == mlc_up[p] /\ mlc_fd[p] \in hd[p] /\ link[mlc_fd[p]] = p

HistoryOK(p) ==
    index[p] /\ ~mixed[p] =>
        /\ ~Mixed(p)
        /\ TransportOpen(p) # {} => TransportUp(p)
        /\ pc[p] = "socket" => TransportUp(p)
        /\ pc[p] = "query" => TransportOpen(p) = {}

Inv5 == \A p \in Procs : HistoryOK(p)

(* A step of p leaves also these of another process alone, gives p at most *)
(* one interface that was claimable, and changes the link only of an       *)
(* interface that p holds.                                                 *)
LEMMA OthersUp ==
  ASSUME TypeOK, NEW p \in Procs, Step(p), NEW q \in Procs, q # p
  PROVE  mlc_up'[q] = mlc_up[q] /\ fd'[q] = fd[q]
  BY DEF TypeOK, Step, OpenDevice, OpenDeviceEnd, CloseDevice, Query,
         QueryEnd, OpenComp, OpenRaw, OpenTransport, OpenOnFd, NewChannel,
         CloseChannel, CloseEffect, DelChannel, TransportInit, TransportSocket,
         Exit, CleanupChannel, CleanupDevice, Crash, Gone

LEMMA ClaimStep ==
  ASSUME TypeOK, NEW p \in Procs, Step(p)
  PROVE  \/ hd'[p] \subseteq hd[p]
         \/ \E f : CanClaim(p, f) /\ hd'[p] \subseteq hd[p] \cup {f}
  <1>1. ASSUME NEW m \in Modes, OpenDevice(p, m)
        PROVE  \/ hd'[p] \subseteq hd[p]
               \/ \E f : CanClaim(p, f) /\ hd'[p] \subseteq hd[p] \cup {f}
    BY <1>1 DEF OpenDevice, FirstClaimable, Claimable, TypeOK
  <1>2. CASE Query(p)
    BY <1>2 DEF Query, FirstClaimable, Claimable, TypeOK
  <1>3. ASSUME NEW c \in Channels, NEW f, OpenOnFd(p, c, f)
        PROVE  \E g : CanClaim(p, g) /\ hd'[p] \subseteq hd[p] \cup {g}
    BY <1>3 DEF OpenOnFd, TypeOK
  <1>4. ASSUME NEW c \in Channels, OpenTransport(p, c)
        PROVE  \/ hd'[p] \subseteq hd[p]
               \/ \E f : CanClaim(p, f) /\ hd'[p] \subseteq hd[p] \cup {f}
    BY <1>4 DEF OpenTransport, TransportFd, TransportChoices, TypeOK
  <1>5. CASE \/ OpenDeviceEnd(p) \/ CloseDevice(p) \/ QueryEnd(p)
             \/ TransportInit(p) \/ TransportSocket(p) \/ Exit(p)
             \/ CleanupDevice(p) \/ Crash(p)
    BY <1>5 DEF OpenDeviceEnd, CloseDevice, QueryEnd, TransportInit,
                TransportSocket, Exit, CleanupDevice, Crash, Gone, TypeOK
  <1>6. ASSUME NEW c, CloseEffect(p, c) PROVE hd'[p] \subseteq hd[p]
    BY <1>6 DEF CloseEffect, TypeOK
  <1> QED
    BY <1>1, <1>2, <1>3, <1>4, <1>5, <1>6
       DEF Step, OpenComp, OpenRaw, CloseChannel, CleanupChannel

LEMMA LinkHeld ==
  ASSUME TypeOK, NEW p \in Procs, KindOK(p), Step(p), NEW f \in FDs \ hd[p]
  PROVE  link'[f] = link[f]
  <1>1. CASE TransportInit(p)
    <2>1. fd[p] # f
      BY <1>1 DEF TransportInit, KindOK
    <2> QED BY <1>1, <2>1 DEF TransportInit, TypeOK
  <1>2. ASSUME NEW c, CloseEffect(p, c) PROVE link'[f] = link[f]
    BY <1>2 DEF CloseEffect, TypeOK
  <1>3. CASE UNCHANGED link
    BY <1>3
  <1> QED
    BY <1>1, <1>2, <1>3
       DEF Step, OpenDevice, OpenDeviceEnd, CloseDevice, Query, QueryEnd,
           OpenComp, OpenRaw, OpenOnFd, OpenTransport, CloseChannel,
           TransportSocket, Exit, CleanupChannel, CleanupDevice, Crash

LEMMA ExclusiveStep ==
  ASSUME TypeOK, Exclusive, NEW p \in Procs, Step(p)
  PROVE  Exclusive'
  <1>1. ASSUME NEW q \in Procs, q # p PROVE hd'[q] = hd[q]
    BY <1>1, OthersSame DEF Same
  <1>2. PICK f : /\ hd'[p] \subseteq hd[p] \cup {f}
                 /\ CanClaim(p, f) \/ hd'[p] \subseteq hd[p]
    BY ClaimStep
  <1>3. ASSUME NEW q \in Procs, NEW r \in Procs,
               NEW g \in hd'[q], NEW h \in hd'[r], Interface[g] = Interface[h]
        PROVE  q = r /\ g = h
    <2>1. CASE g \in hd[q] /\ h \in hd[r]
      BY <2>1, <1>3 DEF Exclusive
    <2>2. CASE g \notin hd[q]
      <3>1. q = p /\ g = f /\ CanClaim(p, f) /\ f \notin hd[p]
        BY <2>2, <1>1, <1>2
      <3>2. h \notin hd[r]
        BY <3>1, <1>3 DEF CanClaim
      <3> QED BY <3>1, <3>2, <1>1, <1>2
    <2>3. CASE h \notin hd[r]
      <3>1. r = p /\ h = f /\ CanClaim(p, f) /\ f \notin hd[p]
        BY <2>3, <1>1, <1>2
      <3>2. g \notin hd[q]
        BY <3>1, <1>3 DEF CanClaim
      <3> QED BY <3>1, <3>2, <1>1, <1>2
    <2> QED BY <2>1, <2>2, <2>3
  <1> QED
    BY <1>3 DEF Exclusive

LEMMA KindOthers ==
  ASSUME NEW q \in Procs, KindOK(q), Same(q), fd'[q] = fd[q]
  PROVE  KindOK(q)'
  BY DEF KindOK, Same, Open

LEMMA KindStep ==
  ASSUME Disciplined, Inv1, Inv2, NEW p \in Procs, KindOK(p), Step(p)
  PROVE  KindOK(p)'
  <1>t. TypeOK /\ CallOK(p) /\ CountOK(p) /\ CountOK(p)'
    BY Inv2Step DEF Inv1, Inv2
  <1>n. ASSUME Open(p)' = {}, pc'[p] # "init" PROVE KindOK(p)'
    BY <1>n DEF KindOK
  <1>1. ASSUME NEW m \in Modes, OpenDevice(p, m) PROVE KindOK(p)'
    <2>1. Open(p)' = {} /\ pc'[p] # "init"
      BY <1>1, <1>t DEF OpenDevice, CountOK, Open, TypeOK, Idle
    <2> QED BY <2>1, <1>n
  <1>2. CASE OpenDeviceEnd(p) \/ CloseDevice(p) \/ CleanupDevice(p) \/ Crash(p)
    <2>1. Open(p)' = {} /\ pc'[p] = "idle"
      BY <1>2, <1>t DEF OpenDeviceEnd, CloseDevice, CleanupDevice, Crash, Gone,
                        CountOK, Open, TypeOK, Idle
    <2> QED BY <2>1, <1>n
  <1>3. CASE Query(p) \/ QueryEnd(p) \/ Exit(p)
    <2>1. /\ Open(p)' = Open(p) /\ pc'[p] # "init"
          /\ UNCHANGED <<io_mode, chan_fd>>
      BY <1>3, <1>t DEF Query, QueryEnd, Exit, Open, TypeOK
    <2> QED BY <2>1 DEF KindOK
  <1>4. ASSUME NEW c \in Channels, NEW f \in FDs, OpenOnFd(p, c, f),
               c \in CompChannels \/ io_mode[p] \in RawModes
        PROVE  KindOK(p)'
    <2>1. Open(p)' \subseteq Open(p) \cup {c} /\ pc'[p] # "init"
      BY <1>4, <1>t, NewChannelCounts DEF OpenOnFd, NewChannel, Idle
    <2>2. /\ chan_fd'[p][c] = f /\ io_mode' = io_mode
          /\ \A d \in Open(p) \ {c} : chan_fd'[p][d] = chan_fd[p][d]
      BY <1>4, <1>t DEF OpenOnFd, TypeOK, Open
    <2> QED BY <2>1, <2>2, <1>4, FdConstants DEF KindOK
  <1>5. ASSUME NEW c \in Channels, OpenComp(p, c) \/ OpenRaw(p, c)
        PROVE  KindOK(p)'
    BY <1>4, <1>5, CompFdType, FdConstants DEF OpenComp, OpenRaw
  <1>6. ASSUME NEW c \in Channels, OpenTransport(p, c) PROVE KindOK(p)'
    <2>1. Open(p)' = Open(p) \cup {c}
      BY <1>6, <1>t, NewChannelCounts DEF OpenTransport
    <2>2. /\ chan_fd'[p][c] = FD_NA /\ io_mode' = io_mode
          /\ c \in TransportChannels /\ io_mode[p] \in TransportModes
          /\ \A d \in Open(p) \ {c} : chan_fd'[p][d] = chan_fd[p][d]
      BY <1>6, <1>t DEF OpenTransport, TypeOK, Open
    <2>3. pc'[p] = "init" => fd'[p] \in hd'[p]
      BY <1>6, <1>t DEF OpenTransport, TypeOK
    <2> QED BY <2>1, <2>2, <2>3 DEF KindOK
  <1>7. ASSUME NEW c \in Open(p), CloseEffect(p, c), pc'[p] # "init",
               UNCHANGED io_mode
        PROVE  KindOK(p)'
    <2>1. Open(p)' = Open(p) \ {c}
      BY <1>7, <1>t, DelChannelCounts DEF CloseEffect
    <2>2. \A d \in Open(p) \ {c} : chan_fd'[p][d] = chan_fd[p][d]
      BY <1>7, <1>t DEF CloseEffect, TypeOK, Open
    <2> QED BY <2>1, <2>2, <1>7 DEF KindOK
  <1>8. ASSUME NEW c \in Channels, CloseChannel(p, c) PROVE KindOK(p)'
    BY <1>7, <1>8 DEF CloseChannel, Open, Idle
  <1>9. CASE CleanupChannel(p)
    BY <1>7, <1>9 DEF CleanupChannel
  <1>10. CASE TransportInit(p) \/ TransportSocket(p)
    <2>1. chan[p] \in Open(p) /\ pc'[p] # "init"
      BY <1>10, <1>t DEF TransportInit, TransportSocket, CallOK, TypeOK, Open
    <2>2. Open(p)' \subseteq Open(p)
      BY <1>10, <2>1, <1>t, DelChannelCounts
         DEF TransportInit, TransportSocket, Open
    <2>3. UNCHANGED <<chan_fd, io_mode>>
      BY <1>10 DEF TransportInit, TransportSocket
    <2> QED BY <2>1, <2>2, <2>3 DEF KindOK
  <1> QED
    BY <1>1, <1>2, <1>3, <1>5, <1>6, <1>8, <1>9, <1>10 DEF Step

LEMMA Inv4Init == Init => Inv4
  BY DEF Init, Inv4, Exclusive, KindOK, Open

LEMMA Inv4Next == Disciplined /\ Inv1 /\ Inv2 /\ Inv4 /\ [Next]_vars => Inv4'
  <1> SUFFICES ASSUME Disciplined, Inv1, Inv2, Inv4, [Next]_vars PROVE Inv4'
    OBVIOUS
  <1>1. CASE UNCHANGED vars
    BY <1>1 DEF vars, Inv4, Exclusive, KindOK, Open
  <1>2. ASSUME NEW p \in Procs, Step(p) PROVE Inv4'
    <2>1. Exclusive'
      BY <1>2, ExclusiveStep DEF Inv1, Inv4
    <2>2. ASSUME NEW q \in Procs PROVE KindOK(q)'
      <3>1. CASE q = p
        BY <1>2, <3>1, KindStep DEF Inv4
      <3>2. CASE q # p
        BY <1>2, <3>2, OthersSame, OthersUp, KindOthers DEF Inv1, Inv4
      <3> QED BY <3>1, <3>2
    <2> QED BY <2>1, <2>2 DEF Inv4
  <1> QED
    BY <1>1, <1>2 DEF Next

(* The step of the history, for the process that moves and for the others. *)
LEMMA MixedStep ==
  ASSUME NEW p \in Procs,
         mixed' = [q \in Procs |-> index'[q] /\ (mixed[q] \/ Mixed(q)')]
  PROVE  index'[p] /\ ~mixed'[p] => ~mixed[p] /\ ~Mixed(p)'
  OBVIOUS

(* What a transport stands on is out of the reach of the other processes.  *)
LEMMA UpOthers ==
  ASSUME Inv1, Inv4, NEW p \in Procs, Step(p), NEW q \in Procs, q # p,
         TransportUp(q)
  PROVE  TransportUp(q)'
  <1>1. Same(q) /\ mlc_up'[q] = mlc_up[q]
    BY OthersSame, OthersUp DEF Inv1
  <1>2. mlc_fd[q] \in FDs \ hd[p]
    BY DEF TransportUp, Inv1, TypeOK, Inv4, Exclusive
  <1>3. link'[mlc_fd[q]] = link[mlc_fd[q]]
    BY <1>2, LinkHeld DEF Inv1, Inv4
  <1> QED
    BY <1>1, <1>3 DEF TransportUp, Same

LEMMA HistoryOthers ==
  ASSUME Inv1, Inv4, NEW p \in Procs, Step(p), NEW q \in Procs, q # p,
         HistoryOK(q), index'[q] /\ ~mixed'[q] => ~mixed[q] /\ ~Mixed(q)'
  PROVE  HistoryOK(q)'
  <1>1. Same(q)
    BY OthersSame DEF Inv1
  <1>2. TransportOpen(q)' = TransportOpen(q)
    BY <1>1 DEF Same, TransportOpen, Established, InCall, Open
  <1>3. TransportUp(q) => TransportUp(q)'
    BY UpOthers
  <1> QED
    BY <1>1, <1>2, <1>3 DEF HistoryOK, Same

(* A step that leaves what the transport stands on, and every established  *)
(* transport channel was one before.                                       *)
LEMMA HistoryKept ==
  ASSUME NEW p \in Procs, HistoryOK(p), index[p], ~mixed[p], ~Mixed(p)',
         TransportOpen(p)' \subseteq TransportOpen(p),
         TransportUp(p) => TransportUp(p)',
         pc'[p] \notin {"socket", "query"}
  PROVE  HistoryOK(p)'
  BY DEF HistoryOK

(* A close leaves an unmixed transport up unless it was the last channel,  *)
(* and the last one takes it down.                                         *)
LEMMA CloseUnmixed ==
  ASSUME TypeOK, NEW p \in Procs, CallOK(p), CountOK(p), KindOK(p), ~Mixed(p),
         index[p], pc[p] \in {"idle", "exit"}, NEW c \in Open(p),
         CloseEffect(p, c), UNCHANGED <<index, mlc_fd, pc, chan>>
  PROVE  /\ TransportOpen(p)' \subseteq TransportOpen(p)
         /\ TransportOpen(p)' # {} /\ TransportUp(p) => TransportUp(p)'
         /\ RemovesTransport(p)
  <1>1. Open(p)' = Open(p) \ {c} /\ c \in Channels
    BY DelChannelCounts DEF CloseEffect, Open
  <1>2. Established(p) = Open(p) /\ Established(p)' = Open(p)'
    BY DEF Established, InCall
  <1>3. \A d \in Open(p) \ {c} : chan_fd'[p][d] = chan_fd[p][d]
    BY <1>1 DEF CloseEffect, TypeOK, Open
  <1>4. TransportOpen(p)' = TransportOpen(p) \ {c}
    BY <1>1, <1>2, <1>3 DEF TransportOpen
  <1>5. CASE chan_fd[p][c] # FD_NA
    <2>1. c \notin TransportOpen(p)
      BY <1>5 DEF TransportOpen
    <2>2. ~LastTransportClosed(p)
      BY <2>1, <1>4 DEF LastTransportClosed
    <2>3. ASSUME NEW d \in TransportOpen(p), TransportUp(p)
          PROVE  TransportUp(p)'
      <3>1. c \in CompChannels
        BY <2>3, <1>5, KindsApart DEF KindOK, TransportOpen, Established
      <3>2. d \in TransportChannels /\ d \in Open(p)
        BY <2>3 DEF KindOK, TransportOpen, Established
      <3> QED BY <3>1, <3>2 DEF Mixed
    <2> QED BY <2>2, <2>3, <1>4 DEF RemovesTransport
  <1>6. CASE chan_fd[p][c] = FD_NA /\ LastChannel(p)
    <2>1. Open(p)' = {}
      BY <1>1, <1>6, OnlyChannel DEF CountOK, LastChannel
    <2>2. ~mlc_up'[p] /\ mlc_fd'[p] \notin hd'[p]
      BY <1>6 DEF CloseEffect, TypeOK
    <2> QED BY <2>1, <2>2, <1>2, <1>4 DEF RemovesTransport, TransportOpen
  <1>7. CASE chan_fd[p][c] = FD_NA /\ ~LastChannel(p)
    <2>1. TransportUp(p) => TransportUp(p)'
      BY <1>7 DEF CloseEffect, TransportUp
    <2>2. PICK d \in Open(p) : d # c
      <3>1. Open(p) # {c}
        BY <1>7, FS_Singleton, OpenFinite DEF CountOK, LastChannel
      <3> QED BY <3>1
    <2>3. d \in TransportOpen(p)'
      <3>1. c \in TransportChannels /\ io_mode[p] \in TransportModes
        BY <1>7 DEF KindOK
      <3>2. d \notin CompChannels
        BY <3>1 DEF Mixed
      <3>3. chan_fd[p][d] = FD_NA
        BY <3>1, <3>2, KindsApart DEF KindOK
      <3> QED BY <3>3, <2>2, <1>2, <1>4 DEF TransportOpen
    <2> QED BY <2>1, <2>3, <1>4 DEF RemovesTransport, LastTransportClosed
  <1> QED
    BY <1>5, <1>6, <1>7

LEMMA HistoryStep ==
  ASSUME Disciplined, Inv1, Inv2, Inv4, NEW p \in Procs, Step(p), HistoryOK(p),
         index'[p] /\ ~mixed'[p] => ~mixed[p] /\ ~Mixed(p)'
  PROVE  /\ HistoryOK(p)'
         /\ ~mixed'[p] => RemovesTransport(p)
  <1>t. TypeOK /\ CallOK(p) /\ CountOK(p) /\ CountOK(p)' /\ KindOK(p)
    BY Inv2Step DEF Inv1, Inv2, Inv4
  <1> SUFFICES ASSUME index'[p], ~mixed'[p], ~mixed[p], ~Mixed(p)'
               PROVE  HistoryOK(p)' /\ RemovesTransport(p)
    BY DEF HistoryOK, RemovesTransport, LastTransportClosed
  <1>n. ASSUME Open(p)' = {}, pc'[p] # "socket", TransportOpen(p) = {}
        PROVE  HistoryOK(p)' /\ RemovesTransport(p)
    BY <1>n DEF HistoryOK, RemovesTransport, LastTransportClosed, TransportOpen,
                Established
  <1>k. ASSUME index[p], TransportOpen(p)' = TransportOpen(p),
               TransportUp(p) => TransportUp(p)', pc'[p] \notin {"socket", "query"}
        PROVE  HistoryOK(p)' /\ RemovesTransport(p)
    BY <1>k, HistoryKept DEF RemovesTransport, LastTransportClosed
  <1>1. ASSUME NEW m \in Modes, OpenDevice(p, m)
        PROVE  HistoryOK(p)' /\ RemovesTransport(p)
    <2>1. Open(p) = {} /\ Open(p)' = {} /\ pc'[p] # "socket"
      BY <1>1, <1>t DEF OpenDevice, CountOK, Open, TypeOK, Idle
    <2> QED BY <2>1, <1>n DEF TransportOpen, Established
  <1>2. CASE OpenDeviceEnd(p)
    <2>1. Open(p) = {} /\ Open(p)' = {} /\ pc'[p] # "socket"
      BY <1>2, <1>t DEF OpenDeviceEnd, CountOK, Open, TypeOK
    <2> QED BY <2>1, <1>n DEF TransportOpen, Established
  <1>3. CASE CloseDevice(p) \/ CleanupDevice(p) \/ Crash(p)
    BY <1>3, <1>t DEF CloseDevice, CleanupDevice, Crash, Gone, TypeOK
  <1>4. CASE Query(p)
    <2>1. TransportOpen(p)' = TransportOpen(p) /\ index[p] /\ pc'[p] = "query"
      BY <1>4, <1>t DEF Query, TransportOpen, Established, InCall, Open, Idle,
                        TypeOK
    <2>2. ~TransportUp(p)
      BY <1>4 DEF Query, TransportUp
    <2>3. TransportOpen(p) = {}
      BY <2>1, <2>2 DEF HistoryOK
    <2> QED BY <2>1, <2>3 DEF HistoryOK, RemovesTransport, LastTransportClosed
  <1>5. CASE QueryEnd(p)
    <2>1. TransportOpen(p)' = TransportOpen(p) /\ index[p] /\ pc'[p] = "idle"
      BY <1>5, <1>t DEF QueryEnd, TransportOpen, Established, InCall, Open,
                        TypeOK
    <2>2. TransportOpen(p) = {}
      BY <1>5, <2>1 DEF QueryEnd, HistoryOK
    <2> QED BY <2>1, <2>2 DEF HistoryOK, RemovesTransport, LastTransportClosed
  <1>6. CASE Exit(p)
    <2>1. TransportOpen(p)' = TransportOpen(p) /\ index[p] /\ pc'[p] = "exit"
      BY <1>6, <1>t DEF Exit, TransportOpen, Established, InCall, Open, Idle,
                        TypeOK
    <2>2. TransportUp(p) => TransportUp(p)'
      BY <1>6 DEF Exit, TransportUp
    <2> QED BY <2>1, <2>2, <1>k
  <1>7. ASSUME NEW c \in Channels, NEW f \in FDs, OpenOnFd(p, c, f)
        PROVE  HistoryOK(p)' /\ RemovesTransport(p)
    <2>1. c \notin Open(p) /\ Open(p)' = Open(p) \cup {c}
      BY <1>7, <1>t, NewChannelCounts DEF OpenOnFd
    <2>2. /\ index[p] /\ pc[p] = "idle" /\ pc'[p] = "idle"
          /\ chan_fd'[p][c] # FD_NA
          /\ \A d \in Open(p) : chan_fd'[p][d] = chan_fd[p][d]
      BY <1>7, <2>1, <1>t, FdConstants DEF OpenOnFd, NewChannel, Idle, TypeOK,
                                           Open
    <2>3. TransportOpen(p)' = TransportOpen(p)
      BY <2>1, <2>2 DEF TransportOpen, Established, InCall
    <2>4. TransportUp(p) => TransportUp(p)'
      BY <1>7, <1>t DEF OpenOnFd, TransportUp, TypeOK
    <2> QED BY <2>2, <2>3, <2>4, <1>k
  <1>8. ASSUME NEW c \in Channels, OpenComp(p, c) \/ OpenRaw(p, c)
        PROVE  HistoryOK(p)' /\ RemovesTransport(p)
    BY <1>7, <1>8, CompFdType, FdConstants DEF OpenComp, OpenRaw
  <1>9. ASSUME NEW c \in Channels, OpenTransport(p, c)
        PROVE  HistoryOK(p)' /\ RemovesTransport(p)
    <2>1. c \notin Open(p) /\ Open(p)' = Open(p) \cup {c}
      BY <1>9, <1>t, NewChannelCounts DEF OpenTransport
    <2>2. /\ index[p] /\ pc[p] = "idle" /\ pc'[p] \in {"init", "socket"}
          /\ chan'[p] = c
          /\ \A d \in Open(p) : chan_fd'[p][d] = chan_fd[p][d]
      BY <1>9, <2>1, <1>t DEF OpenTransport, NewChannel, Idle, TypeOK, Open
    <2>3. TransportOpen(p)' = TransportOpen(p)
      BY <2>1, <2>2 DEF TransportOpen, Established, InCall
    <2>4. TransportUp(p) => TransportUp(p)'
      BY <1>9, <1>t DEF OpenTransport, TransportUp, TypeOK
    <2>5. CASE pc'[p] = "init"
      BY <2>2, <2>3, <2>4, <2>5, <1>k
    <2>6. CASE pc'[p] = "socket"
      <3>1. ~FirstChannel(p)
        BY <1>9, <2>6, <1>t DEF OpenTransport, TypeOK
      <3>2. PICK d \in Open(p) : TRUE
        <4>1. channel_cnt[p] = Cardinality(Open(p)) /\ channel_cnt[p] \in Int
          BY <2>2, <1>t DEF CountOK, TypeOK
        <4>2. Cardinality(Open(p)) # 0
          BY <4>1, <3>1 DEF FirstChannel
        <4> QED BY <4>2, FS_EmptySet
      <3>3. c \in TransportChannels /\ io_mode[p] \in TransportModes
        BY <1>9 DEF OpenTransport
      <3>4. d \notin CompChannels
        BY <2>1, <3>3 DEF Mixed
      <3>5. chan_fd[p][d] = FD_NA
        BY <3>3, <3>4, <1>t, KindsApart DEF KindOK
      <3>6. d \in TransportOpen(p)
        BY <3>5, <2>2 DEF TransportOpen, Established, InCall
      <3>7. TransportUp(p)'
        BY <3>6, <2>2, <2>4 DEF HistoryOK
      <3> QED BY <3>7, <2>3, <2>6
              DEF HistoryOK, RemovesTransport, LastTransportClosed
    <2> QED BY <2>2, <2>5, <2>6
  <1>10. ASSUME NEW c \in Open(p), CloseEffect(p, c), index[p],
                pc[p] \in {"idle", "exit"}, UNCHANGED <<index, mlc_fd, pc, chan>>
         PROVE  HistoryOK(p)' /\ RemovesTransport(p)
    <2>1. ~Mixed(p)
      BY <1>10 DEF HistoryOK
    <2>2. /\ TransportOpen(p)' \subseteq TransportOpen(p)
          /\ TransportOpen(p)' # {} /\ TransportUp(p) => TransportUp(p)'
          /\ RemovesTransport(p)
      BY <1>10, <2>1, <1>t, CloseUnmixed
    <2> QED BY <2>2, <1>10 DEF HistoryOK
  <1>11. ASSUME NEW c \in Channels, CloseChannel(p, c)
         PROVE  HistoryOK(p)' /\ RemovesTransport(p)
    BY <1>10, <1>11 DEF CloseChannel, Open, Idle
  <1>12. CASE CleanupChannel(p)
    BY <1>10, <1>12 DEF CleanupChannel
  <1>13. CASE TransportInit(p)
    <2>1. /\ Open(p) = {chan[p]} /\ chan'[p] = chan[p] /\ index[p]
          /\ pc[p] = "init" /\ fd[p] \in hd[p] /\ fd[p] \in FDs
      BY <1>13, <1>t DEF TransportInit, CountOK, CallOK, KindOK, TypeOK
    <2>2. TransportOpen(p) = {}
      BY <2>1 DEF TransportOpen, Established, InCall
    <2>3. CASE pc'[p] = "socket"
      <3>1. TransportUp(p)'
        BY <1>13, <2>1, <2>3, <1>t DEF TransportInit, TransportUp, TypeOK
      <3> QED BY <2>2, <2>3, <3>1
              DEF HistoryOK, RemovesTransport, LastTransportClosed
    <2>4. CASE DelChannel(p, chan[p]) /\ pc'[p] = "idle"
      <3>1. Open(p)' = {}
        BY <2>1, <2>4, <1>t, DelChannelCounts
      <3> QED BY <3>1, <2>2, <2>4, <1>n
    <2> QED BY <1>13, <2>3, <2>4, <1>t DEF TransportInit, TypeOK
  <1>14. CASE TransportSocket(p)
    <2>1. /\ chan[p] \in Open(p) /\ pc'[p] = "idle" /\ pc[p] = "socket"
          /\ index[p] /\ chan_fd' = chan_fd
      BY <1>14, <1>t DEF TransportSocket, CallOK, TypeOK, Open
    <2>2. Open(p)' \in {Open(p), Open(p) \ {chan[p]}}
      BY <1>14, <2>1, <1>t, DelChannelCounts DEF TransportSocket, Open
    <2>3. TransportOpen(p) \subseteq TransportOpen(p)'
      BY <2>1, <2>2 DEF TransportOpen, Established, InCall
    <2>4. TransportUp(p) /\ TransportUp(p)'
      BY <1>14, <2>1 DEF TransportSocket, HistoryOK, TransportUp
    <2> QED BY <2>1, <2>3, <2>4
            DEF HistoryOK, RemovesTransport, LastTransportClosed
  <1> QED
    BY <1>1, <1>2, <1>3, <1>4, <1>5, <1>6, <1>8, <1>9, <1>11, <1>12, <1>13,
       <1>14 DEF Step

LEMMA Inv5Init == HistoryInit => Inv5
  BY DEF HistoryInit, Init, Inv5, HistoryOK

LEMMA Inv5Next ==
  ASSUME Disciplined, Inv1, Inv2, Inv4, Inv5, [HistoryNext]_<<vars, mixed>>
  PROVE  /\ Inv5'
         /\ [\A p \in Procs : ~mixed'[p] => RemovesTransport(p)]_<<vars, mixed>>
  <1>1. CASE UNCHANGED <<vars, mixed>>
    <2>1. \A p \in Procs : /\ Open(p)' = Open(p)
                           /\ TransportOpen(p)' = TransportOpen(p)
                           /\ TransportUp(p)' <=> TransportUp(p)
      BY <1>1 DEF vars, Open, TransportOpen, Established, InCall, TransportUp
    <2> QED BY <1>1, <2>1 DEF vars, Inv5, HistoryOK, Mixed
  <1>2. CASE HistoryNext
    <2>1. PICK p \in Procs : Step(p)
      BY <1>2 DEF HistoryNext, Next
    <2>2. ASSUME NEW q \in Procs
          PROVE  index'[q] /\ ~mixed'[q] => ~mixed[q] /\ ~Mixed(q)'
      BY <1>2, MixedStep DEF HistoryNext
    <2>3. HistoryOK(p)' /\ (~mixed'[p] => RemovesTransport(p))
      BY <2>1, <2>2, HistoryStep DEF Inv5
    <2>4. ASSUME NEW q \in Procs, q # p
          PROVE  HistoryOK(q)' /\ RemovesTransport(q)
      <3>1. HistoryOK(q)'
        BY <2>1, <2>2, <2>4, HistoryOthers DEF Inv5
      <3>2. TransportOpen(q)' = TransportOpen(q)
        BY <2>1, <2>4, OthersSame
           DEF Inv1, Same, TransportOpen, Established, InCall, Open
      <3> QED BY <3>1, <3>2 DEF RemovesTransport, LastTransportClosed
    <2> QED BY <2>3, <2>4 DEF Inv5
  <1> QED
    BY <1>1, <1>2

LEMMA HistoryInvariant ==
  ASSUME Disciplined
  PROVE  /\ HistoryInit => Inv1 /\ Inv2 /\ Inv4 /\ Inv5
         /\ Inv1 /\ Inv2 /\ Inv4 /\ Inv5 /\ [HistoryNext]_<<vars, mixed>>
              => (Inv1 /\ Inv2 /\ Inv4 /\ Inv5)'
  <1>1. [HistoryNext]_<<vars, mixed>> => [Next]_vars
    BY DEF HistoryNext, vars
  <1>2. HistoryInit => Inv1 /\ Inv2 /\ Inv4 /\ Inv5
    BY Inv1Init, Inv2Init, Inv4Init, Inv5Init DEF HistoryInit
  <1> QED
    BY <1>1, <1>2, Inv1Next, Inv2Next, Inv4Next, Inv5Next

(* A process that has not mixed the two kinds of channel only asks for a   *)
(* socket on a transport that it brought up itself, on an interface it     *)
(* still holds.                                                            *)
THEOREM SocketBackedUnmixed ==
  ASSUME Disciplined
  PROVE  HistorySpec => []SocketAfterInitUnmixed
  <1>1. Inv1 /\ Inv5 => SocketAfterInitUnmixed
    BY DEF Inv1, CallOK, Inv5, HistoryOK, TransportUp, SocketAfterInitUnmixed,
           SocketBacked
  <1> QED
    BY HistoryInvariant, <1>1, PTL DEF HistorySpec

(* Its open transport channels belong to a transport that it has up: no    *)
(* other process re-initialises it or takes its interface meanwhile.       *)
THEOREM TransportOwned ==
  ASSUME Disciplined
  PROVE  HistorySpec => []OwnTransport
  <1>1. Inv2 /\ Inv5 => OwnTransport
    <2> SUFFICES ASSUME Inv2, Inv5, NEW p \in Procs, ~mixed[p]
                 PROVE  OwnsTransport(p)
      BY DEF OwnTransport
    <2>1. ~index[p] => TransportOpen(p) = {}
      BY DEF Inv2, CountOK, TransportOpen, Established
    <2> QED BY <2>1 DEF Inv5, HistoryOK, TransportUp, OwnsTransport
  <1> QED
    BY HistoryInvariant, <1>1, PTL DEF HistorySpec

(* Closing its last transport channel takes the transport down and gives   *)
(* the interface back.                                                     *)
THEOREM TransportTakenDown ==
  ASSUME Disciplined
  PROVE  HistorySpec => TransportRemoved
  <1>1. Inv1 /\ Inv2 /\ Inv4 /\ Inv5 /\ [HistoryNext]_<<vars, mixed>> =>
          [\A p \in Procs : ~mixed'[p] => RemovesTransport(p)]_<<vars, mixed>>
    BY Inv5Next
  <1> QED
    BY HistoryInvariant, <1>1, PTL DEF HistorySpec, TransportRemoved
=============================================================================
