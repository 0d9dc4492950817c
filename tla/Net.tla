-------------------------------- MODULE Net ---------------------------------
(***************************************************************************)
(* The network: the receive and transmit rings that the E1000 card and its *)
(* driver share, the cache of the driver, packet_handler and the UDP and   *)
(* ICMP sockets.                                                           *)
(*                                                                         *)
(* The card runs all the time: it may take a step between any two of the   *)
(* handler, the test for a full queue and the rest of an iteration being   *)
(* two steps.  On the CPU the handler and the system calls run with        *)
(* interrupts off, and packet_handler holds cache_lock, which keeps them   *)
(* off, from the read of a packet to its deletion: each is one step, and   *)
(* so is the packets_lock that a recv_msg that blocked releases unheld.    *)
(* Blocking and waking are in Scheduler; a recv_msg that waits is one that *)
(* is not taken yet.  Memory of packets is a sequence of buffers, which a  *)
(* pointer is an index of.                                                 *)
(***************************************************************************)
EXTENDS Ringbuffer, FiniteSets

CONSTANTS
  NUM_RX_DESCS,
  NUM_TX_DESCS,
  CacheSize,    \* Size of E1000::cache
  PacketsSize,  \* Size of UdpSocket::packets and IcmpSocket::packets
  UdpSockets,
  IcmpSockets,
  Ports,        \* UDP ports
  SendPort,     \* the port send_msg gives its socket
  Workloads,    \* bounds: [frames received, kinds of frames, sends, sockets used,
                \* headers sent]
  Modulus       \* of the words of a header: 2^16 in the code

ASSUME NetAssumption ==
  /\ NUM_RX_DESCS \in Nat \ {0} /\ NUM_TX_DESCS \in Nat \ {0}
  /\ CacheSize \in Nat \ {0, 1} /\ PacketsSize \in Nat \ {0, 1}
  /\ UdpSockets \cap IcmpSockets = {} /\ "cache" \notin UdpSockets
  /\ SendPort \in Ports
  /\ Modulus \in Nat \ {0, 1}
  /\ \A w \in Workloads :
       /\ w.frames \in Nat /\ w.sends \in Nat /\ w.sockets \subseteq UdpSockets \cup IcmpSockets
       /\ w.kinds \subseteq {"long", "other", "icmp"} \cup Ports
       /\ w.headers \subseteq Seq(0 .. Modulus - 1)
       /\ \A h \in w.headers : Len(h) < Modulus

VARIABLES
  load,       \* the workload of this behaviour
  wire,       \* history: the frames the card received, their kinds or UDP ports
  rdh, rdt,   \* RDH, RDT
  rxd,        \* rx_descriptors: [done, frame], a frame being an index of wire
  icr,        \* ICR: the causes of the pending interrupt
  handler,    \* E1000::handler: "out", "check" or "take"
  taken,      \* history: the frames the handler took from the ring
  cache,      \* E1000::cache, a ring of buffers
  bufs,       \* all buffers: [frame, alive]
  sockets,    \* the list of UDP sockets, head first
  echoed,     \* the list of ICMP sockets
  port,       \* Handle::port
  packets,    \* the ring of each socket
  given, got, \* history: the buffers given to a UDP socket, and read from it
  leaked,     \* history: the buffers a full ring overwrote
  tdh, tdt,   \* TDH, TDT
  tx_tail,
  txd,        \* tx_descriptors: the number and the IPv4 header of the frame in each
  sends,      \* history: frames passed to E1000::send
  out,        \* history: frames the card sent
  overrun     \* history: a send made TDT equal to TDH

cardVars == <<wire, rdh, rdt, rxd, handler, taken>>
socketVars == <<sockets, echoed, port, packets, given, got>>
txVars == <<tdh, tdt, tx_tail, txd, sends, out, overrun>>
vars == <<load, cardVars, icr, cache, bufs, leaked, socketVars, txVars>>

RxIndex == 0 .. NUM_RX_DESCS - 1
TxIndex == 0 .. NUM_TX_DESCS - 1
Sockets == UdpSockets \cup IcmpSockets

(* E1000::init, with init_receive and init_transmit; a socket's port is    *)
(* not initialised.                                                        *)
Init ==
  /\ load \in Workloads
  /\ wire = <<>> /\ taken = <<>>
  /\ rdh = 0 /\ rdt = NUM_RX_DESCS - 1
  /\ rxd = [i \in RxIndex |-> [done |-> FALSE, frame |-> 0]]
  /\ icr = {} /\ handler = "out"
  /\ cache = NewRing(CacheSize) /\ bufs = <<>> /\ leaked = {}
  /\ sockets = <<>> /\ echoed = {}
  /\ port \in [UdpSockets -> Ports]
  /\ packets = [s \in Sockets |-> NewRing(PacketsSize)]
  /\ given = [s \in UdpSockets |-> <<>>] /\ got = [s \in UdpSockets |-> <<>>]
  /\ tdh = 0 /\ tdt = 0 /\ tx_tail = 0
  /\ txd = [i \in TxIndex |-> [frame |-> 0, header |-> <<>>]]
  /\ sends = 0 /\ out = <<>> /\ overrun = FALSE

-----------------------------------------------------------------------------
(* The card.  It receives into the descriptor at RDH unless RDH = RDT, and *)
(* sends the one at TDH unless TDH = TDT.                                  *)
CardReceives ==
  /\ rdh # rdt /\ Len(wire) < load.frames
  /\ \E kind \in load.kinds : wire' = Append(wire, kind)
  /\ rxd' = [rxd EXCEPT ![rdh] = [done |-> TRUE, frame |-> Len(wire) + 1]]
  /\ rdh' = (rdh + 1) % NUM_RX_DESCS
  /\ icr' = icr \cup {"rx"}
  /\ UNCHANGED <<load, rdt, handler, taken, cache, bufs, leaked, socketVars, txVars>>

CardSends ==
  /\ tdh # tdt
  /\ out' = Append(out, txd[tdh].frame)
  /\ tdh' = (tdh + 1) % NUM_TX_DESCS
  /\ icr' = icr \cup {"tx"}
  /\ UNCHANGED <<load, cardVars, cache, bufs, leaked, socketVars,
                 tdt, tx_tail, txd, sends, overrun>>

-----------------------------------------------------------------------------
(* Mutant: the causes are compared with RXT0 instead of tested for it. *)
HandlerEnterOnlyRx ==
  /\ handler = "out" /\ icr # {}
  /\ icr' = {}
  /\ handler' = IF icr = {"rx"} THEN "check" ELSE "out"
  /\ UNCHANGED <<load, wire, rdh, rdt, rxd, taken, cache, bufs, leaked, socketVars, txVars>>

(* E1000::handler: reading ICR clears it. *)
HandlerEnter ==
  /\ handler = "out" /\ icr # {}
  /\ icr' = {}
  /\ handler' = IF "rx" \in icr THEN "check" ELSE "out"
  /\ UNCHANGED <<load, wire, rdh, rdt, rxd, taken, cache, bufs, leaked, socketVars, txVars>>

HandlerCheck ==
  /\ handler = "check"
  /\ handler' = IF rdt = rdh THEN "out" ELSE "take"
  /\ UNCHANGED <<load, wire, rdh, rdt, rxd, icr, taken, cache, bufs, leaked, socketVars, txVars>>

(* What ring r loses when it is written to. *)
Overwritten(r) == IF IsFull(r) THEN {Oldest(r)} ELSE {}

(* The copy of the frame is cached unless it is too long.  The done bit of *)
(* the descriptor stays set: only a local copy of it is cleared.           *)
HandlerTake ==
  LET tail == (rdt + 1) % NUM_RX_DESCS
      frame == rxd[tail].frame
  IN  /\ handler = "take"
      /\ IF ~rxd[tail].done
           THEN handler' = "out" /\ UNCHANGED <<rdt, taken, cache, bufs, leaked>>
           ELSE /\ handler' = "check"
                /\ rdt' = tail
                /\ taken' = Append(taken, frame)
                /\ IF wire[frame] = "long" THEN UNCHANGED <<cache, bufs, leaked>>
                   ELSE /\ bufs' = Append(bufs, [frame |-> frame, alive |-> TRUE])
                        /\ cache' = RingWrite(cache, Len(bufs) + 1)
                        /\ leaked' = leaked \cup Overwritten(cache)
      /\ UNCHANGED <<load, wire, rdh, rxd, icr, socketVars, txVars>>

-----------------------------------------------------------------------------
(* UdpSocket::get_socket: the first socket of the list with the port. *)
GetSocket(p) ==
  LET hits == SelectSeq(sockets, LAMBDA s : port[s] = p)
  IN  IF hits = <<>> THEN {} ELSE {hits[1]}

(* receive_ipv4: the sockets a frame is for.  What it and the receivers    *)
(* drop, and what is for no socket, goes nowhere.                          *)
ReceiveIpv4(kind) == IF kind = "icmp" THEN echoed ELSE GetSocket(kind)

(* receive_icmp stores a pointer into the packet in every ICMP socket. *)
ReceiveIcmp(to, b) ==
  /\ packets' = [s \in Sockets |-> IF s \in to THEN RingWrite(packets[s], b) ELSE packets[s]]
  /\ bufs' = [bufs EXCEPT ![b].alive = FALSE]
  /\ UNCHANGED <<given, leaked>>

(* receive_udp stores a copy in its socket. *)
ReceiveUdp(s, b) ==
  LET copy == Len(bufs) + 1
  IN  /\ bufs' = Append([bufs EXCEPT ![b].alive = FALSE], [frame |-> bufs[b].frame, alive |-> TRUE])
      /\ packets' = [packets EXCEPT ![s] = RingWrite(@, copy)]
      /\ given' = [given EXCEPT ![s] = Append(@, copy)]
      /\ leaked' = leaked \cup Overwritten(packets[s])

(* packet_handler: the packet is handed on, and then deleted. *)
PacketHandler ==
  LET b == Oldest(cache)
      to == ReceiveIpv4(wire[bufs[b].frame])
  IN  /\ handler = "out" /\ ~IsEmpty(cache)
      /\ cache' = RingRead(cache)
      /\ \/ to \cap UdpSockets = {} /\ ReceiveIcmp(to, b)
         \/ \E s \in to \cap UdpSockets : ReceiveUdp(s, b)
      /\ UNCHANGED <<load, cardVars, icr, sockets, echoed, port, got, txVars>>

Opened(s) == s \in echoed \/ \E i \in DOMAIN sockets : sockets[i] = s

(* sys_socket, with add_socket. *)
SysSocket(s) ==
  /\ handler = "out" /\ ~Opened(s)
  /\ IF s \in UdpSockets
       THEN sockets' = <<s>> \o sockets /\ UNCHANGED echoed
       ELSE echoed' = echoed \cup {s} /\ UNCHANGED sockets
  /\ UNCHANGED <<load, cardVars, icr, cache, bufs, leaked, port, packets, given, got, txVars>>

(* sys_recv_msg with a packet in the ring, a buffer of the message at a    *)
(* time: UdpSocket::recv_msg deletes the packet, IcmpSocket::recv_msg not. *)
TakePacket(s) ==
  /\ ~IsEmpty(packets[s])
  /\ packets' = [packets EXCEPT ![s] = RingRead(@)]
  /\ UNCHANGED <<load, cardVars, icr, cache, leaked, sockets, echoed, port, given, txVars>>

UdpRecvMsg(s) ==
  LET b == Oldest(packets[s])
  IN  /\ s \in UdpSockets /\ TakePacket(s)
      /\ bufs' = [bufs EXCEPT ![b].alive = FALSE]
      /\ got' = [got EXCEPT ![s] = Append(@, b)]

IcmpRecvMsg(s) == s \in IcmpSockets /\ TakePacket(s) /\ UNCHANGED <<bufs, got>>

SysRecvMsg(s) == handler = "out" /\ Opened(s) /\ (UdpRecvMsg(s) \/ IcmpRecvMsg(s))

-----------------------------------------------------------------------------
(* Socket::get_checksum. *)
Total(words) ==
  LET sum[i \in 0 .. Len(words)] == IF i = 0 THEN 0 ELSE sum[i - 1] + words[i]
  IN  sum[Len(words)]

(* Mutant: the carry of the second addition is dropped. *)
GetChecksumNoCarry(words) ==
  LET folded == (Total(words) % Modulus) + (Total(words) \div Modulus)
  IN  Modulus - 1 - (folded % Modulus)

GetChecksum(words) ==
  LET folded == (Total(words) % Modulus) + (Total(words) \div Modulus)
      checksum == IF folded > Modulus - 1 THEN folded + 1 ELSE folded
  IN  Modulus - 1 - (checksum % Modulus)

(* Mutant: the descriptor after the tail is filled. *)
SendAhead(d, tail, frame) == [d EXCEPT ![(tail + 1) % NUM_TX_DESCS] = frame]

(* E1000::send fills the descriptor at tx_tail, in use or not. *)
Filled(d, tail, frame) == [d EXCEPT ![tail] = frame]

(* send_ipv4, with E1000::send. *)
SendIpv4(header) ==
  LET tail == (tx_tail + 1) % NUM_TX_DESCS
  IN  /\ sends < load.sends
      /\ sends' = sends + 1
      /\ txd' = Filled(txd, tx_tail, [frame |-> sends + 1,
                                     header |-> Append(header, GetChecksum(header))])
      /\ tx_tail' = tail /\ tdt' = tail
      /\ overrun' = (overrun \/ tail = tdh)
      /\ UNCHANGED <<load, cardVars, icr, cache, bufs, leaked, sockets, echoed, packets, given, got,
                     tdh, out>>

(* send_msg gives its socket a port; that of an ICMP socket is never used. *)
UdpSendMsg(s, header) ==
  s \in UdpSockets /\ port' = [port EXCEPT ![s] = SendPort] /\ SendIpv4(header)

IcmpSendMsg(s, header) == s \in IcmpSockets /\ UNCHANGED port /\ SendIpv4(header)

(* sys_send_msg, a buffer of the message at a time. *)
SysSendMsg(s, header) ==
  handler = "out" /\ Opened(s) /\ (UdpSendMsg(s, header) \/ IcmpSendMsg(s, header))

Next ==
  \/ CardReceives \/ CardSends
  \/ HandlerEnter \/ HandlerCheck \/ HandlerTake
  \/ PacketHandler
  \/ \E s \in load.sockets :
       SysSocket(s) \/ SysRecvMsg(s) \/ \E header \in load.headers : SysSendMsg(s, header)

Spec == Init /\ [][Next]_vars

-----------------------------------------------------------------------------
(* The handler loses no frame and no interrupt, whatever the card does     *)
(* between its steps: it takes the frames in the order of their arrival,   *)
(* each once, and when no interrupt is pending none is left in the ring.   *)
(* This holds until the card has filled the ring (RDH = RDT, which the     *)
(* handler takes for nothing to do) or uses a descriptor a second time.    *)
RxComplete ==
  Len(wire) < NUM_RX_DESCS /\ rdh # rdt =>
    /\ taken = [i \in 1 .. Len(taken) |-> i]
    /\ handler = "out" /\ "rx" \notin icr => Len(taken) = Len(wire)

(* "Reset the status": a descriptor that was handled is not done any more, *)
(* so that no frame is taken from the ring twice.                          *)
TakenOnce == \A i, j \in DOMAIN taken : i # j => taken[i] # taken[j]

Holders == UdpSockets \cup {"cache"}
RingOf(h) == IF h = "cache" THEN cache ELSE packets[h]
InRing(r) == {Items(r)[i] : i \in DOMAIN Items(r)}

(* The memory of packets: every packet in the cache and in a UDP socket is *)
(* allocated, no two pointers lead to one packet, and an allocated packet  *)
(* is in one of these rings unless a full ring overwrote its pointer (such *)
(* a packet is never freed).                                               *)
PacketsAccounted ==
  /\ {b \in DOMAIN bufs : bufs[b].alive} \ leaked = UNION {InRing(RingOf(h)) : h \in Holders}
  /\ \A b \in leaked : bufs[b].alive
  /\ \A h \in Holders : Cardinality(InRing(RingOf(h))) = Len(Items(RingOf(h)))
  /\ \A h, k \in Holders : h # k => InRing(RingOf(h)) \cap InRing(RingOf(k)) = {}

(* A UDP socket is a queue that forgets its oldest packets: what was read  *)
(* from it and what it holds is what it was given, without what a full     *)
(* ring overwrote, each once and in the order of the copies that           *)
(* receive_udp made (a buffer's number tells when it was made).            *)
Elements(s) == {s[i] : i \in DOMAIN s}
UdpInOrder ==
  \A s \in UdpSockets :
    LET kept == got[s] \o Items(packets[s])
    IN  /\ Elements(kept) = Elements(given[s]) \ leaked
        /\ \A i, j \in DOMAIN kept : i < j => kept[i] < kept[j]

(* The card sends what the programs sent, complete and in order, as long   *)
(* as it is never so far behind that a send makes TDT equal to TDH (the    *)
(* driver does not look at the descriptors it reuses).                     *)
TxInOrder ==
  ~overrun =>
    LET queued == [i \in 1 .. (tdt + NUM_TX_DESCS - tdh) % NUM_TX_DESCS |->
                     txd[(tdh + i - 1) % NUM_TX_DESCS].frame]
    IN  out \o queued = [i \in 1 .. sends |-> i]

(* What a receiver verifies (RFC 1071): the ones' complement sum of the    *)
(* words of a header, its checksum included, is -0 in every frame handed   *)
(* to the card, whatever carries get_checksum meets.                       *)
ChecksumVerifies ==
  \A i \in TxIndex :
    txd[i].frame # 0 =>
      Total(txd[i].header) % (Modulus - 1) = 0 /\ Total(txd[i].header) > 0
=============================================================================
