-------------------------------- MODULE Qmap --------------------------------
(***************************************************************************)
(* The data formats of the pcie_mhi network device: the QMAP and MBIM      *)
(* headers it puts on uplink packets, the demultiplexing of received       *)
(* aggregates to the vnds, the bridge mode's address fix-ups, and the      *)
(* carrier of parent and vnds.  (mhi_netdev_quectel.c; the threads that    *)
(* call these functions are in module MhiNetdev.)                          *)
(*                                                                         *)
(* A packet is its vnd, its length in bytes and its kind; "v4" and "v6"    *)
(* are the two protocol nibbles, "odd" any other, "cmd" a MAP command.     *)
(***************************************************************************)
EXTENDS Integers, Sequences, FiniteSets

CONSTANTS
  Lens,       \* packet lengths
  Mtu,        \* of every vnd
  RxMax,      \* the largest NTB
  PktMax,     \* bound: packets in an aggregate
  Modes,      \* values of qmap_mode
  Paddings,   \* values of dl_minimum_padding
  Cuts,       \* bytes missing at the end of an aggregate
  MuxId0,     \* values of mbim_mux_id
  Hosts,      \* machines behind the bridge
  StepMax     \* bound: operations on carrier and bridge

NoHost == "none"
VARIABLES
  job,        \* "tx", "qmi", "mbim" (a packet path) or "link" (carrier and bridge)
  mode,       \* qmap_mode
  set,        \* version, padding, mbim_mux_id, the registered vnds, missing bytes
  sent,       \* the packets put on the wire by the other side
  agg,        \* the headers still to be parsed
  len,        \* skb_in->len
  delivered,        \* the packets handed to the vnds
  cmds,       \* the muxes whose commands were executed
  pc,
  link, parentCarrier, carrier, up,       \* link_state, carriers, open vnds
  mac, bridged, passed, steps             \* bridge_mac, bridge_mode, last sender
pktvars == <<job, mode, set, sent, agg, len, delivered, cmds, pc>>
linkvars == <<link, parentCarrier, carrier, up, mac, bridged, passed, steps>>
qvars == <<pktvars, linkvars>>

Vnds == 0 .. mode - 1
PacketKinds == {"v4", "v6", "odd", "cmd"}

\* Seqs(S, n): the sequences over S of length 1 .. n.
Seqs(S, n) == UNION {[1 .. k -> S] : k \in 1 .. n}

-----------------------------------------------------------------------------
(* The uplink headers. *)

Pad(n, room) == LET p == (4 - (n % 4)) % 4 IN IF p > room THEN 0 ELSE p

\* add_qhdr: the length is that of the padded packet.
add_qhdr(p, room) ==
  [mux |-> p.vnd, cd |-> FALSE, next |-> FALSE, pad |-> Pad(p.len, room),
   plen |-> p.len + Pad(p.len, room), kind |-> p.kind]

\* add_qhdr_v5: the same with a checksum header between.
add_qhdr_v5(p, room) ==
  [mux |-> p.vnd, cd |-> FALSE, next |-> TRUE, pad |-> Pad(p.len, room),
   plen |-> p.len + Pad(p.len, room), kind |-> p.kind]

MbimHdr == 28
\* add_mbim_hdr: one block, one NDP, one datagram and the terminating null entry.
add_mbim_hdr(p) ==
  [tci |-> set.mux0 + p.vnd + (IF mode > 1 THEN 1 ELSE 0),
   frames |-> <<[off |-> MbimHdr, len |-> p.len, kind |-> p.kind],
                [off |-> 0, len |-> 0, kind |-> "odd"]>>]

\* What the modem does with them.
ModemQmap(h) == [vnd |-> h.mux, len |-> h.plen - h.pad, kind |-> h.kind]
HdrSize(h) == IF h.next THEN 8 ELSE 4

\* Whatever the length of a packet and the room behind it, the modem takes it out of
\* the aggregate as it was sent, with or without the checksum header.
ASSUME UplinkRoundTrip ==
  \A n \in Lens, room \in 0 .. 3, k \in {"v4", "v6"} :
    LET p == [vnd |-> 0, len |-> n, kind |-> k]
    IN ModemQmap(add_qhdr(p, room)) = p /\ ModemQmap(add_qhdr_v5(p, room)) = p

-----------------------------------------------------------------------------
(* Received aggregates. *)

\* The modem pads to four bytes, adds the minimum padding that was negotiated
\* for version 9, and counts only the former in the header's field.
ModemPads(p) ==
  LET p4 == (4 - (p.len % 4)) % 4
      extra == IF set.ver = 9 THEN set.dlmin ELSE 0 IN
  [mux |-> p.vnd, cd |-> p.kind = "cmd", next |-> set.ver = 9, pad |-> p4,
   plen |-> p.len + p4 + extra, kind |-> p.kind]

Bytes(b) == LET sum[x \in 0 .. Len(b)] == IF x = 0 THEN 0 ELSE sum[x - 1] + HdrSize(b[x]) + b[x].plen
            IN sum[Len(b)]

\* Mutant: the minimum padding is not taken off.
SkbLenWithPadding(h) == h.plen - h.pad

\* The length of the packet a header announces.
SkbLen(h) == h.plen - h.pad - (IF set.ver = 9 THEN set.dlmin ELSE 0)

\* One turn of rmnet_qmi_rx_handler's loop.  A missing vnd's packet and a command
\* are skipped; anything the handler cannot take ends the aggregate, and what has
\* been collected is delivered.  Lengths and mux ids are compared unsigned.
SkipPkt(h) == agg' = Tail(agg) /\ len' = len - (h.plen + HdrSize(h)) /\ UNCHANGED pc
ErrorPkt == pc' = "done" /\ agg' = <<>> /\ len' = 0


rmnet_qmi_rx_handler ==
  /\ job = "qmi" /\ pc = "rx"
  /\ IF len =< 4 THEN ErrorPkt /\ UNCHANGED <<delivered, cmds>>
     ELSE LET h == Head(agg) IN
       \/ /\ h.mux \notin Vnds
          /\ ErrorPkt /\ UNCHANGED <<delivered, cmds>>
       \/ /\ h.mux \in Vnds \ set.reg
          /\ SkipPkt(h) /\ UNCHANGED <<delivered, cmds>>
       \/ /\ h.mux \in set.reg
          /\ SkbLen(h) < 0 \/ SkbLen(h) > Mtu \/ len < h.plen + HdrSize(h)
          /\ ErrorPkt /\ UNCHANGED <<delivered, cmds>>
       \/ /\ h.mux \in set.reg /\ SkbLen(h) \in 0 .. Mtu /\ len >= h.plen + HdrSize(h)
          /\ \/ h.cd /\ SkipPkt(h) /\ cmds' = Append(cmds, h.mux) /\ UNCHANGED delivered
             \/ ~h.cd /\ h.kind = "odd" /\ ErrorPkt /\ UNCHANGED <<delivered, cmds>>
             \/ /\ ~h.cd /\ h.kind \in {"v4", "v6"} /\ SkipPkt(h) /\ UNCHANGED cmds
                /\ delivered' = Append(delivered, [vnd |-> h.mux, len |-> SkbLen(h), kind |-> h.kind])
  /\ UNCHANGED <<job, mode, set, sent, linkvars>>

\* The vnd of an MBIM session, if any: with one vnd its own session only.
SessionVnd(tci) ==
  {v \in {IF mode = 1 THEN 0 ELSE tci - 1 - set.mux0} :
     IF mode = 1 THEN tci = set.mux0 ELSE tci - set.mux0 \in 0 .. mode}

\* One NDP of rmnet_mbim_rx_handler: its datagrams up to the null entry, or up to
\* the first that is bad, which ends the whole block.
rmnet_mbim_rx_handler ==
  /\ job = "mbim" /\ pc = "rx"
  /\ IF agg = <<>> THEN pc' = "done" /\ UNCHANGED <<agg, delivered>>
     ELSE LET n == Head(agg)
              to == SessionVnd(n.tci)
              null(f) == f.off = 0 \/ f.len = 0
              bad(f) == f.off + f.len > len \/ f.len > RxMax \/ f.kind \notin {"v4", "v6"}
              stop == {x \in 1 .. Len(n.frames) : null(n.frames[x]) \/ bad(n.frames[x])}
              first == CHOOSE x \in stop \cup {Len(n.frames) + 1} : \A y \in stop : x =< y
              error == to = {} \/ (first =< Len(n.frames) /\ ~null(n.frames[first])) IN
          /\ delivered' = IF to = {} THEN delivered
                    ELSE delivered \o [x \in 1 .. first - 1 |->
                           [vnd |-> CHOOSE v \in to : TRUE, len |-> n.frames[x].len, kind |-> n.frames[x].kind]]
          /\ agg' = IF error THEN <<>> ELSE Tail(agg)
          /\ UNCHANGED pc
  /\ UNCHANGED <<job, mode, set, sent, len, cmds, linkvars>>

\* The NTB the modem builds: a run of packets for one vnd shares an NDP.
SumLen(s) == LET sum[x \in 0 .. Len(s)] == IF x = 0 THEN 0 ELSE sum[x - 1] + s[x].len
             IN sum[Len(s)]
Ndps(s, off) ==
  LET first == {x \in 1 .. Len(s) : x = 1 \/ s[x].vnd # s[x - 1].vnd}
      next(x) == CHOOSE y \in first \cup {Len(s) + 1} : y > x /\ \A z \in first : z > x => y =< z
      frame(x) == [off |-> off + SumLen(SubSeq(s, 1, x - 1)), len |-> s[x].len, kind |-> s[x].kind]
      ndp(x) == [tci |-> set.mux0 + s[x].vnd + (IF mode > 1 THEN 1 ELSE 0),
                 frames |-> Append([y \in 1 .. next(x) - x |-> frame(x + y - 1)],
                                   [off |-> 0, len |-> 0, kind |-> "odd"])]
      from[x \in 1 .. Len(s) + 1] == IF x > Len(s) THEN <<>> ELSE <<ndp(x)>> \o from[next(x)]
  IN from[1]

-----------------------------------------------------------------------------
(* Carrier. *)

Step == job = "link" /\ steps < StepMax /\ steps' = steps + 1

\* link_state_store, written by quectel-CM through sysfs or an ioctl: with several
\* vnds 1 .. n raises and 0x81 .. 0x80 + n lowers one; anything else is ignored.
link_state_store(v, on) ==
  /\ Step
  /\ link' = IF on THEN link \cup {v} ELSE link \ {v}
  /\ IF link' = link THEN UNCHANGED <<parentCarrier, carrier>>
     ELSE /\ parentCarrier' = (link' # {})
          /\ carrier' = IF v \in link' THEN carrier \cup {v} ELSE carrier \ {v}
  /\ UNCHANGED <<up, mac, bridged, passed, pktvars>>

\* A vnd that is opened takes over the parent's carrier.
rmnet_vnd_open(v) ==
  /\ Step /\ v \notin up
  /\ up' = up \cup {v}
  /\ carrier' = IF parentCarrier THEN carrier \cup {v} ELSE carrier
  /\ UNCHANGED <<link, parentCarrier, mac, bridged, passed, pktvars>>

rmnet_vnd_stop(v) ==
  /\ Step /\ v \in up
  /\ up' = up \ {v} /\ carrier' = carrier \ {v}
  /\ UNCHANGED <<link, parentCarrier, mac, bridged, passed, pktvars>>

-----------------------------------------------------------------------------
(* Bridge mode. *)

bridge_mode_store(b) ==
  /\ Step /\ b # bridged
  /\ bridged' = b
  /\ UNCHANGED <<link, parentCarrier, carrier, up, mac, passed, pktvars>>

\* bridge_mode_tx_fixup: ARP never leaves, a DHCP request makes its sender the
\* bridged host, and the packets of any other host are dropped.
bridge_mode_tx_fixup(h, frame) ==
  /\ Step
  /\ mac' = IF bridged /\ frame = "dhcp" THEN h ELSE mac
  /\ passed' = IF ~bridged \/ (frame # "arp" /\ h = mac') THEN h ELSE passed
  /\ UNCHANGED <<link, parentCarrier, carrier, up, bridged, pktvars>>

-----------------------------------------------------------------------------
Packets(muxes, kinds) == [vnd : muxes, len : Lens, kind : kinds]
Settings(m) ==
  [ver : {5, 9}, dlmin : Paddings, mux0 : MuxId0, reg : {{0}, 0 .. m - 1}, cut : Cuts]

QInit ==
  /\ mode \in Modes /\ set \in Settings(mode)
  /\ delivered = <<>> /\ cmds = <<>> /\ pc = "rx"
  /\ link = {} /\ parentCarrier = FALSE /\ carrier = {} /\ up = {}
  /\ mac = NoHost /\ bridged = FALSE /\ passed = NoHost /\ steps = 0
  /\ \/ /\ job = "tx"
        /\ sent \in [1 .. 1 -> Packets(Vnds, {"v4", "v6"})]
        /\ agg = <<>> /\ len \in 0 .. 3 /\ set.cut = 0
     \/ /\ job = "qmi" /\ set.mux0 = 0
        /\ sent \in Seqs(Packets(0 .. mode, PacketKinds), PktMax)
        /\ agg = [x \in 1 .. Len(sent) |-> ModemPads(sent[x])]
        /\ len = Bytes(agg) - set.cut
        /\ set.cut > 0 => sent[Len(sent)].vnd \in set.reg
     \/ /\ job = "mbim" /\ set.ver = 5 /\ set.dlmin = 0 /\ set.reg = Vnds
        /\ sent \in Seqs(Packets(0 .. mode, PacketKinds \ {"cmd"}), PktMax)
        /\ agg = Ndps(sent, MbimHdr)
        /\ len = MbimHdr + SumLen(sent) - set.cut
     \/ /\ job = "link" /\ set = [ver |-> 5, dlmin |-> 0, mux0 |-> 0, reg |-> Vnds, cut |-> 0]
        /\ sent = <<>> /\ agg = <<>> /\ len = 0

\* The sender's choice of header (rmnet_vnd_start_xmit); len is the tailroom.
Transmit ==
  /\ job = "tx" /\ pc = "rx" /\ pc' = "done"
  /\ agg' = <<IF set.ver = 9 THEN add_qhdr_v5(sent[1], len) ELSE add_qhdr(sent[1], len),
              add_mbim_hdr(sent[1])>>
  /\ UNCHANGED <<job, mode, set, sent, len, delivered, cmds, linkvars>>

QNext ==
  \/ Transmit \/ rmnet_qmi_rx_handler \/ rmnet_mbim_rx_handler
  \/ \E v \in Vnds : \/ \E on \in BOOLEAN : link_state_store(v, on)
                     \/ rmnet_vnd_open(v) \/ rmnet_vnd_stop(v)
  \/ \E b \in BOOLEAN : bridge_mode_store(b)
  \/ \E h \in Hosts, f \in {"arp", "dhcp", "ip"} : bridge_mode_tx_fixup(h, f)
QSpec == QInit /\ [][QNext]_qvars

-----------------------------------------------------------------------------

\* The first packet the handlers cannot take: of an unknown mux, larger than the
\* vnd or the block takes, of no IP version, or cut off at the end.
TooLong(p) == IF job = "qmi" THEN p.vnd \in set.reg /\ p.len > Mtu ELSE p.len > RxMax
Refused(x) ==
  \/ sent[x].vnd \notin Vnds
  \/ TooLong(sent[x])
  \/ sent[x].kind = "odd" /\ sent[x].vnd \in set.reg
  \/ x = Len(sent) /\ set.cut > 0
Taken == SubSeq(sent, 1, Cardinality({x \in DOMAIN sent : \A y \in 1 .. x : ~Refused(y)}))

\* A received aggregate is delivered completely and in order up to the first packet
\* that cannot be taken, each packet to its own vnd and with its own length: padding,
\* commands and the packets of missing vnds leave no trace in the ones behind them.
DeliveredInOrder ==
  job \in {"qmi", "mbim"} /\ pc = "done" =>
    delivered = SelectSeq(Taken, LAMBDA p : p.vnd \in set.reg /\ p.kind # "cmd")

=============================================================================
