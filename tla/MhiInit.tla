------------------------------ MODULE MhiInit ------------------------------
(***************************************************************************)
(* How the pcie_mhi driver sets a modem up and tears it down: the memory   *)
(* segment shared with the modem and the rings placed in it, the event     *)
(* rings and their interrupts, and the probe and removal of PCI devices    *)
(* with the resources each step takes and each error path gives back.      *)
(* (mhi_init.c, mhi_qti.c, mhi_internal.h, mhi.h; what happens between     *)
(* power-up and power-down is in MhiPm, MhiRing, MhiUci and MhiNetdev.)    *)
(*                                                                         *)
(* A PCI device stands for its (device id, domain, bus, slot).             *)
(***************************************************************************)
EXTENDS Integers, Sequences, FiniteSets

CONSTANTS
  Devs,          \* the PCI devices
  Controllers,   \* MAX_MHI_CONTROLLER
  Fds,         \* open files of the mhi_BHI nodes
  Faults,        \* the steps that may fail
  ProbeMax       \* bound: probes

NoDev == "none"
VARIABLES
  mbim,          \* mhi_netdev_mbin_enabled(): a module parameter
  slot,          \* mhi_controller_minors
  list,          \* mhi_bus.controller_list: the registered controllers
  idx,           \* cntrl_idx of each device's controller
  age,           \* which controller of the device it is: each probe may allocate one
  ipc,            \* how far probe or removal is
  held,          \* the resources a device's controller holds
  granted,       \* msi_allocated
  msi, msivec,   \* mhi_event[i].msi and the vector the modem is told
  handler,       \* the handlers requested: <<vector, owner>>
  file,          \* private_data of each file of a mhi_BHI node
  probes
dvars == <<slot, list, idx, age, ipc, held, granted, msi, msivec, handler, probes>>
ivars == <<mbim, dvars, file>>

-----------------------------------------------------------------------------
(* Channels, event rings and where they lie in struct mhi_ctrl_seg.        *)

TRE == 16                  \* sizeof(struct mhi_tre)
CTXT == 44                 \* sizeof each context
XFER_RINGS == 128          \* NUM_MHI_XFER_RINGS
CHAN_RING == 32            \* NUM_MHI_CHAN_RING_ELEMENTS
IPA_RING == 512            \* NUM_MHI_IPA_IN/OUT_RING_ELEMENTS
DIAG_RING == 128           \* NUM_MHI_DIAG_IN_RING_ELEMENTS
EVT_RING == 1024           \* NUM_MHI_EVT_RING_ELEMENTS
CMD_RING == 128            \* CMD_EL_PER_RING

DIAG_IN == 5
HW_0_OUT == 100
HW_0_IN == 101
EvRings == 0 .. 2          \* PRIMARY, IPA_OUT, IPA_IN
CHAN_INBOUND(c) == c % 2 = 1
CHAN_SBL(c) == c \in {2, 3, 25}
CHAN_EDL(c) == c \in {34, 35}

Pair(name, c, o, i) == << <<name, c, o>>, <<name, c + 1, i>> >>
chan_cfg ==
  Pair("LOOPBACK", 0, CHAN_RING, CHAN_RING) \o Pair("SAHARA", 2, CHAN_RING, CHAN_RING)
  \o Pair("DIAG", 4, CHAN_RING, DIAG_RING) \o Pair("EFS", 10, CHAN_RING, CHAN_RING)
  \o Pair("MBIM", 12, CHAN_RING, CHAN_RING) \o Pair("QMI0", 14, CHAN_RING, CHAN_RING)
  \o Pair("IP_CTRL", 18, CHAN_RING, CHAN_RING) \o Pair("DUN", 32, CHAN_RING, CHAN_RING)
  \o Pair("EDL", 34, CHAN_RING, CHAN_RING) \o Pair("IP_HW0", 100, IPA_RING, IPA_RING)

\* The control protocol is MBIM or QMI, never both.
Configured ==
  [mb \in BOOLEAN |-> SelectSeq(chan_cfg, LAMBDA e : e[1] # (IF mb THEN "QMI0" ELSE "MBIM"))]
OwnRing(c) == c \in {HW_0_OUT, HW_0_IN, DIAG_IN}

\* mhi_chan->ring: the software channels share chan_ring, one after the other.
RingOffset(mb, i) ==
  LET before[j \in 1 .. i] ==
        IF j = 1 THEN 0
        ELSE before[j - 1] + (IF OwnRing(Configured[mb][j - 1][2]) THEN 0
                              ELSE Configured[mb][j - 1][3])
  IN IF OwnRing(Configured[mb][i][2]) THEN 0 ELSE before[i]

er_index(c) == CASE c = HW_0_OUT -> 1 [] c = HW_0_IN -> 2 [] OTHER -> 0

\* of_parse_ch_cfg: what becomes of entry i, with MBIM or without.
of_parse_ch_cfg(mb, i) ==
  LET c == Configured[mb][i][2] IN
  [chan |-> c, n |-> Configured[mb][i][3], ring |-> RingOffset(mb, i), er |-> er_index(c),
   in |-> CHAN_INBOUND(c),
   ee |-> IF CHAN_SBL(c) THEN "SBL" ELSE IF CHAN_EDL(c) THEN "FP" ELSE "AMSS",
   brst |-> c \in {HW_0_OUT, HW_0_IN}]
ChanCfg == [mb \in BOOLEAN |-> {of_parse_ch_cfg(mb, i) : i \in 1 .. Len(Configured[mb])}]
TheChan(mb, c) == CHOOSE x \in ChanCfg[mb] : x.chan = c

\* of_parse_ev_cfg: what becomes of event ring i.  Channel 0 means none.
of_parse_ev_cfg(i) ==
  LET c == CASE i = 1 -> HW_0_OUT [] i = 2 -> HW_0_IN [] OTHER -> 0 IN
  [er |-> i, n |-> IF i = 0 THEN 256 ELSE EVT_RING, msi |-> 1 + i, chan |-> c,
   data |-> i \in {1, 2}, hw |-> i \in {1, 2}, cl_manage |-> c = HW_0_IN,
   brst |-> c # 0 /\ c \in {HW_0_OUT, HW_0_IN}]
EvCfg == {of_parse_ev_cfg(i) : i \in EvRings}
msi_required == Cardinality(EvRings) + 1

\* struct mhi_ctrl_seg: <<member, bytes, alignment>> in order.
SegMembers ==
  << <<"hw_in", IPA_RING * TRE, IPA_RING * TRE>>,
     <<"hw_out", IPA_RING * TRE, IPA_RING * TRE>>,
     <<"diag_in", DIAG_RING * TRE, IPA_RING * TRE>>,
     <<"chan_ring", CHAN_RING * 2 * 12 * TRE, CHAN_RING * TRE>>,
     <<"event_ring", Cardinality(EvRings) * EVT_RING * TRE, EVT_RING * TRE>>,
     <<"cmd_ring", CMD_RING * TRE, CMD_RING * TRE>>,
     <<"chan_ctxt", XFER_RINGS * CTXT, 128>>,
     <<"er_ctxt", Cardinality(EvRings) * CTXT, 128>>,
     <<"cmd_ctxt", CTXT, 128>> >>
RoundUp(x, a) == ((x + a - 1) \div a) * a
OffsetOf ==
  LET at[k \in 1 .. Len(SegMembers)] ==
        RoundUp(IF k = 1 THEN 0 ELSE at[k - 1] + SegMembers[k - 1][2], SegMembers[k][3])
  IN [m \in {SegMembers[k][1] : k \in 1 .. Len(SegMembers)} |->
        at[CHOOSE k \in 1 .. Len(SegMembers) : SegMembers[k][1] = m]]
SegSize == RoundUp(OffsetOf["cmd_ctxt"] + CTXT, 4096)

\* The member mhi_init_chan_ctxt takes a channel's ring from.
RingMember(c) ==
  CASE c = HW_0_IN -> "hw_in" [] c = HW_0_OUT -> "hw_out"
    [] c = DIAG_IN -> "diag_in" [] OTHER -> "chan_ring"
\* mhi_init_chan_ctxt: the ring of a channel in the segment.
chan_ring(x) ==
  [what |-> <<"chan", x.chan>>, at |-> OffsetOf[RingMember(x.chan)] + x.ring * TRE,
   len |-> x.n * TRE]

\* mhi_init_dev_ctxt: the rings of events and commands and the contexts.
event_ring(e) ==
  [what |-> <<"event", e.er>>, at |-> OffsetOf["event_ring"] + e.er * EVT_RING * TRE,
   len |-> e.n * TRE]
cmd_ring == [what |-> <<"cmd", 0>>, at |-> OffsetOf["cmd_ring"], len |-> CMD_RING * TRE]
Contexts ==
  {[what |-> <<"chan_ctxt", 0>>, at |-> OffsetOf["chan_ctxt"], len |-> XFER_RINGS * CTXT],
   [what |-> <<"er_ctxt", 0>>, at |-> OffsetOf["er_ctxt"],
    len |-> Cardinality(EvRings) * CTXT],
   [what |-> <<"cmd_ctxt", 0>>, at |-> OffsetOf["cmd_ctxt"], len |-> CTXT]}
Rings == [mb \in BOOLEAN |->
  {chan_ring(x) : x \in ChanCfg[mb]} \cup {event_ring(e) : e \in EvCfg} \cup {cmd_ring}]


\* Where the modem says its doorbells are, external: the event rings' after
\* those of the 128 channels.
CHDBOFF == 1024
ERDBOFF == CHDBOFF + 8 * XFER_RINGS
WAKE_DB == 127             \* MHI_DEV_WAKE_DB
\* mhi_init_mmio: the doorbells of rings and wake line (64 bits are written).
mhi_init_mmio(mb) ==
  {[what |-> <<"chan", x.chan>>, at |-> CHDBOFF + 8 * x.chan, len |-> 8] : x \in ChanCfg[mb]}
  \cup {[what |-> <<"event", e.er>>, at |-> ERDBOFF + 8 * e.er, len |-> 8] : e \in EvCfg}
  \cup {[what |-> <<"wake", 0>>, at |-> CHDBOFF + 8 * WAKE_DB, len |-> 8]}

-----------------------------------------------------------------------------
(* Probe and removal. *)

RegRes == {"chan", "event", "cmd", "dev", "node"}
PciRes == {"enable", "region", "master", "regs", "vectors", "irqtab"}
CtxtRes == {"ctxt", "seg"}
Ok == "none"            \* no step fails
Cntrl == -1             \* the controller as owner of a handler; a ring otherwise

Free == [dev |-> NoDev, gen |-> 0, minor |-> 0, busy |-> FALSE]
IInit ==
  /\ mbim \in BOOLEAN
  /\ slot = [i \in 0 .. Controllers - 1 |-> NoDev]
  /\ list = {}
  /\ idx = [d \in Devs |-> 0]
  /\ age = [d \in Devs |-> 0]
  /\ ipc = [d \in Devs |-> "idle"]
  /\ held = [d \in Devs |-> {}]
  /\ granted = [d \in Devs |-> 0]
  /\ msi = [d \in Devs |-> [i \in EvRings |-> 0]]
  /\ msivec = msi
  /\ handler = [d \in Devs |-> {}]
  /\ file = [f \in Fds |-> Free]
  /\ probes = 0

\* The first slot that is the device's own or free; Controllers if there is none.
MinorSlot(d) ==
  LET mine == {i \in DOMAIN slot : slot[i] \in {d, NoDev}}
  IN IF mine = {} THEN Controllers ELSE CHOOSE i \in mine : \A j \in mine : i <= j

\* What the steps of an order take before step f is reached.
Earlier(order, f) == {order[j] : j \in {k \in 1 .. Len(order) :
                                        \A i \in 1 .. k : order[i] # f}}

RegOrder == <<"chan", "event", "cmd", "dev", "node">>
\* What of_parse_dt's and of_register_mhi_controller's error labels give back.
register_error(f) ==
  CASE f = "event" -> {"chan"} [] f = "cmd" -> {"chan", "event"}
    [] f = "dev" -> {"cmd", "chan", "event"}
    [] f = "node" -> {"dev", "cmd", "chan", "event"} [] OTHER -> {}

\* mhi_register_controller and of_register_mhi_controller.  A slot is never
\* given back.
mhi_register_controller(d, f) ==
  LET i == MinorSlot(d)
      ok == i < Controllers /\ f \notin {"cntrl"} \cup RegRes
      early == f = "cntrl" \/ i = Controllers
  IN /\ slot' = (IF early THEN slot ELSE [slot EXCEPT ![i] = d])
     /\ idx' = (IF ok THEN [idx EXCEPT ![d] = i] ELSE idx)
     /\ age' = (IF ok THEN [age EXCEPT ![d] = @ + 1] ELSE age)
     /\ list' = (IF ok THEN list \cup {d} ELSE list)
     /\ held' = (IF early THEN held
                 ELSE [held EXCEPT ![d] = @ \cup (Earlier(RegOrder, f) \ register_error(f))])
     /\ msi' = (IF ok THEN [msi EXCEPT ![d] = [e \in EvRings |-> of_parse_ev_cfg(e).msi]]
                ELSE msi)
     /\ ipc' = (IF ok THEN [ipc EXCEPT ![d] = "pci"] ELSE ipc)

\* mhi_pci_probe up to the controller: a dead link is refused, a controller
\* that is still registered after a failed probe is used again.
mhi_pci_probe(d, f) ==
  /\ ipc[d] = "idle" /\ probes < ProbeMax
  /\ probes' = probes + 1
  /\ \/ /\ f = "dead"
        /\ UNCHANGED <<slot, list, idx, age, ipc, held, msi>>
     \/ /\ f # "dead" /\ d \in list
        /\ ipc' = [ipc EXCEPT ![d] = "pci"]
        /\ UNCHANGED <<slot, list, idx, age, held, msi>>
     \/ /\ f # "dead" /\ d \notin list
        /\ mhi_register_controller(d, f)
  /\ UNCHANGED <<mbim, granted, msivec, handler, file>>

PciOrder == <<"assign", "enable", "region", "master", "regs", "vectors", "irqtab", "irqvec">>
\* Mutant: bus mastering stays on when the vectors cannot be had.
PciErrorKeepsMaster(f) ==
  CASE f = "assign" -> {} [] f = "enable" -> {"region"} [] f = "region" -> {"enable", "region"}
    [] f = "regs" -> {"master", "enable", "region"}
    [] f \in {"vectors", "few"} -> {"regs", "enable", "region"}
    [] f = "irqtab" -> {"vectors", "regs", "master", "enable", "region"}
    [] f = "irqvec" -> PciRes [] OTHER -> {}
\* What mhi_init_pci_dev's error labels give back.
pci_error(f) ==
  CASE f = "assign" -> {} [] f = "enable" -> {"region"} [] f = "region" -> {"enable", "region"}
    [] f = "regs" -> {"master", "enable", "region"}
    [] f \in {"vectors", "few"} -> {"regs", "master", "enable", "region"}
    [] f = "irqtab" -> {"vectors", "regs", "master", "enable", "region"}
    [] f = "irqvec" -> PciRes [] OTHER -> {}

\* mhi_init_pci_dev.  It returns ret, which is 0 where ioremap fails and
\* the number of vectors, taken for success by the PCI core, where there are
\* some but not enough.
mhi_init_pci_dev(d, f, n) ==
  LET taken == (IF f = "few" THEN Earlier(PciOrder, "irqtab") ELSE Earlier(PciOrder, f))
               \cap PciRes
  IN /\ ipc[d] = "pci"
     /\ n \in {1, msi_required}
     /\ held' = [held EXCEPT ![d] = @ \cup (taken \ pci_error(f))]
     /\ granted' = (IF {"assign", "enable", "region", "regs", "vectors", "few"} \cap {f} = {}
                    THEN [granted EXCEPT ![d] = n] ELSE granted)
     /\ ipc' = [ipc EXCEPT ![d] = CASE f = "few" -> "bound" [] f \in {Ok, "regs"} -> "power"
                                   [] OTHER -> "idle"]
     /\ UNCHANGED <<mbim, slot, list, idx, age, msi, msivec, handler, file, probes>>

\* mhi_deinit_pci_dev.
mhi_deinit_pci_dev(d) == held[d] \ PciRes

\* mhi_deinit_free_irq and mhi_deinit_dev_ctxt: every handler, the segment.
mhi_deinit_free_irq(d) == [handler EXCEPT ![d] = {}]
mhi_deinit_dev_ctxt(d) == held[d] \ CtxtRes

\* mhi_init_dev_ctxt: the vectors the modem is told.
VectorsTold(d) == IF granted[d] = 1 THEN [e \in EvRings |-> 0] ELSE msi[d]

\* mhi_init_irq_setup, requests of vectors k and on failing.  The vector of
\* the controller is not shared: a ring that still has vector 0, from a probe
\* that was granted one vector only, cannot have it.
IrqFault == [e \in EvRings |-> <<"irq0", "irq1", "irq2">>[e + 1]]
IrqFails(d, f) ==
  {e \in EvRings : f = IrqFault[e] \/ VectorsTold(d)[e] = 0}
mhi_init_irq_setup(d, f) ==
  IF f = "irq" THEN [ok |-> FALSE, handler |-> {}]
  ELSE IF granted[d] = 1 THEN [ok |-> TRUE, handler |-> {<<0, Cntrl>>}]
  ELSE IF IrqFails(d, f) # {}
       THEN [ok |-> FALSE, handler |-> {}]
  ELSE [ok |-> TRUE,
        handler |-> {<<0, Cntrl>>} \cup {<<msi[d][e], e>> : e \in EvRings}]

\* mhi_power_up and mhi_async_power_up, and what mhi_pci_probe does when they
\* fail.  CtxtRes is what mhi_init_dev_ctxt takes and mhi_deinit_dev_ctxt or its
\* own error path gives back.
mhi_power_up(d, f) ==
  LET irq == mhi_init_irq_setup(d, f)
      early == f \in {"sys_err", "ctxt", "seg", "align"}
      ok == ~early /\ irq.ok /\ f # "bhi"
  IN /\ ipc[d] = "power" /\ "regs" \in held[d]
     /\ msivec' = (IF early THEN msivec ELSE [msivec EXCEPT ![d] = VectorsTold(d)])
     /\ msi' = (IF early THEN msi ELSE [msi EXCEPT ![d] = VectorsTold(d)])
     /\ handler' = (IF ok THEN [handler EXCEPT ![d] = irq.handler]
                    ELSE mhi_deinit_free_irq(d))
     /\ held' = [held EXCEPT ![d] = IF ok THEN @ \cup CtxtRes ELSE mhi_deinit_pci_dev(d)]
     /\ ipc' = [ipc EXCEPT ![d] = IF ok THEN "bound" ELSE "idle"]
     /\ UNCHANGED <<mbim, slot, list, idx, age, granted, file, probes>>

\* mhi_pci_device_removed: power down (mhi_deinit_free_irq and
\* mhi_deinit_dev_ctxt among it), the PCI resources, the controller.
mhi_power_down(d) ==
  /\ ipc[d] = "bound"
  /\ handler' = mhi_deinit_free_irq(d)
  /\ held' = [held EXCEPT ![d] = mhi_deinit_dev_ctxt(d)]
  /\ ipc' = [ipc EXCEPT ![d] = "down"]
  /\ UNCHANGED <<mbim, slot, list, idx, age, granted, msi, msivec, file, probes>>
RemovedDeinit(d) ==
  /\ ipc[d] = "down"
  /\ held' = [held EXCEPT ![d] = mhi_deinit_pci_dev(d)]
  /\ ipc' = [ipc EXCEPT ![d] = "unregister"]
  /\ UNCHANGED <<mbim, slot, list, idx, age, granted, msi, msivec, handler, file, probes>>

\* The memory of the device stays: mhi_bdf_to_controller took a reference.
mhi_unregister_mhi_controller(d) ==
  /\ ipc[d] = "unregister"
  /\ list' = list \ {d}
  /\ held' = [held EXCEPT ![d] = @ \ {"cmd", "event", "chan", "node"}]
  /\ ipc' = [ipc EXCEPT ![d] = "idle"]
  /\ UNCHANGED <<mbim, slot, idx, age, granted, msi, msivec, handler, file, probes>>

-----------------------------------------------------------------------------
(* The files of the mhi_BHI nodes. *)

mhi_cntrl_open(f, m) ==
  /\ file[f] = Free
  /\ \E d \in list :
       /\ idx[d] = m
       /\ file' = [file EXCEPT ![f] = [dev |-> d, gen |-> age[d], minor |-> m, busy |-> FALSE]]
  /\ UNCHANGED <<mbim, dvars>>
\* The controller is looked for in the list, and used after the unlock.
mhi_cntrl_ioctl(f) ==
  /\ file[f].dev \in list /\ file[f].gen = age[file[f].dev] /\ ~file[f].busy
  /\ file' = [file EXCEPT ![f].busy = TRUE]
  /\ UNCHANGED <<mbim, dvars>>
IoctlDone(f) ==
  /\ file[f].busy
  /\ file' = [file EXCEPT ![f].busy = FALSE]
  /\ UNCHANGED <<mbim, dvars>>
mhi_cntrl_release(f) ==
  /\ file[f] # Free /\ ~file[f].busy
  /\ file' = [file EXCEPT ![f] = Free]
  /\ UNCHANGED <<mbim, dvars>>

ProbeFaults == {"dead", "cntrl"} \cup RegRes
PciFaults == {"assign", "enable", "region", "regs", "vectors", "few", "irqtab", "irqvec"}
PowerFaults == {"sys_err", "ctxt", "seg", "align", "irq", "irq0", "irq1", "irq2", "bhi"}
INext ==
  \/ \E d \in Devs :
       \/ \E f \in (Faults \cap ProbeFaults) \cup {Ok} : mhi_pci_probe(d, f)
       \/ \E f \in (Faults \cap PciFaults) \cup {Ok}, n \in {1, msi_required} :
            mhi_init_pci_dev(d, f, n)
       \/ \E f \in (Faults \cap PowerFaults) \cup {Ok} : mhi_power_up(d, f)
       \/ mhi_power_down(d) \/ RemovedDeinit(d) \/ mhi_unregister_mhi_controller(d)
  \/ \E f \in Fds :
       \/ \E m \in DOMAIN slot : mhi_cntrl_open(f, m)
       \/ mhi_cntrl_ioctl(f) \/ IoctlDone(f) \/ mhi_cntrl_release(f)
ISpec == IInit /\ [][INext]_ivars

-----------------------------------------------------------------------------
(* Properties. *)

\* The control segment holds every ring and context, none over another.
Disjoint(mb) ==
  LET all == Rings[mb] \cup Contexts IN
  \A a, b \in all :
    /\ a.at + a.len <= SegSize
    /\ a # b => a.at + a.len <= b.at \/ b.at + b.len <= a.at

\* Every ring starts at a multiple of its length, a power of two.
Aligned(mb) ==
  \A r \in Rings[mb] : \E k \in 0 .. 15 : r.len = 2 ^ k /\ r.at % r.len = 0

\* No doorbell register lies over another.
Apart(mb) ==
  \A a, b \in mhi_init_mmio(mb) :
    a # b => a.at + a.len <= b.at \/ b.at + b.len <= a.at

\* A data event ring and its channel name each other and no one else, the ring
\* takes two events per transfer, and the inbound one is polled by its client.
Served(mb) ==
  /\ \A x \in ChanCfg[mb] : x.er \in EvRings
  /\ \A e \in EvCfg : e.data =>
       /\ {x.chan : x \in {y \in ChanCfg[mb] : y.er = e.er}} = {e.chan}
       /\ e.n >= 2 * TheChan(mb, e.chan).n
       /\ e.cl_manage = TheChan(mb, e.chan).in

\* With and without the MBIM option the tables of mhi_qti.c and the offsets of
\* mhi_init_dev_ctxt and mhi_init_mmio fit together.  Nothing here depends on a
\* state or a constant: TLC computes it before it explores.
ASSUME LayoutFits == \A mb \in BOOLEAN : Disjoint(mb) /\ Aligned(mb) /\ Apart(mb) /\ Served(mb)

\* Whatever step of a probe fails, and after every removal, the device has no
\* handler and no resource left but those of a controller that is still
\* registered; a bound device has all of them.
NothingLeft ==
  \A d \in Devs :
    /\ ipc[d] \in {"idle", "unregister"} =>
         /\ handler[d] = {}
         /\ held[d] \ {"dev"} = IF d \in list THEN RegRes \ {"dev"} ELSE {}
    /\ ipc[d] = "bound" => held[d] = RegRes \cup PciRes \cup CtxtRes

=============================================================================
