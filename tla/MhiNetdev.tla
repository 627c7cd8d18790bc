----------------------------- MODULE MhiNetdev -----------------------------
(***************************************************************************)
(* The network device of the pcie_mhi driver (mhi_netdev_quectel.c): the   *)
(* parent device rmnet_mhi0 that owns the two hardware channels, and the   *)
(* QMAP devices (vnds) stacked on it, one for each mux id.                 *)
(*                                                                         *)
(* Threads: a sender for each vnd, the sender of the parent, the uplink    *)
(* completion callback, the NAPI poll (which also executes the modem's     *)
(* flow commands), the flow-control deadline, the receive top-up work and  *)
(* one control thread (probe, the debugfs reset, removal).  The modem      *)
(* completes uplink transfers and fills receive buffers.                   *)
(*                                                                         *)
(* Lengths, headers and payloads are in module Qmap; here a packet is      *)
(* Data or a flow command [mux, en].                                     *)
(***************************************************************************)
EXTENDS Integers, Sequences, FiniteSets

CONSTANTS
  QmapMode,   \* number of vnds
  UlRing,     \* uplink descriptors
  Low,        \* the parent stops below this many free descriptors (16)
  High,       \* and is woken above this many (32)
  DlRing,     \* receive descriptors
  Budget,     \* poll_weight
  Plays       \* bounds: how many packets the vnds send (pkt), flow commands (cmd)
              \* and data packets (data) the modem sends, top-ups (mem) and channel
              \* starts (prep) fail, and debugfs resets (reset) there are

ASSUME NetdevAssumption ==
  /\ QmapMode \in Nat \ {0} /\ DlRing \in Nat \ {0} /\ Budget \in Nat \ {0}
  /\ Plays \subseteq [{"pkt", "cmd", "data", "mem", "prep", "reset"} -> Nat]
  /\ Low \in Nat \ {0} /\ {High, UlRing} \subseteq Nat /\ Low =< High /\ High < UlRing

Muxes == 0 .. QmapMode - 1
Cmds == [flow : {TRUE}, mux : Muxes, en : BOOLEAN]
Data == [flow |-> FALSE, mux |-> 0, en |-> FALSE]

VARIABLES
  enabled,    \* mhi_netdev->enabled
  pmRef,      \* pm_ref_held
  usage,      \* the controller's runtime PM count, this device's share
  chan,       \* the two channels: "up" (prepared) or "down"
  mp,         \* mpQmapNetDev[]: "none", "live", or "freed" (still pointed to)
  pstop,      \* the parent's queue is stopped
  vstop,      \* the vnds' queues that are stopped
  pq,         \* packets in the parent's queueing discipline
  ul,         \* uplink transfers in flight
  tx,         \* the senders of the vnds
  px,         \* the sender of the parent
  uc,         \* the uplink completion callback
  fc,         \* flow_control: the muxes the modem holds
  fcPending,  \* fc_pending
  fcw,        \* fc_work: pending, its five seconds over, and the run in progress
  dlq,        \* receive buffers the modem may fill
  filled,     \* received buffers whose events have not been polled
  chain,      \* qmap_chain
  napi,       \* "off", "idle", "sched" or "poll"
  missed,     \* NAPI_STATE_MISSED
  np,         \* the poll in progress
  alw,        \* alloc_work
  ct,         \* the control thread
  left,       \* what is left of the bounds
  stale       \* ghost: vnds stopped on a condition that had ended, or whose hold
              \* the deadline dropped without having read it

txvars == <<pstop, vstop, pq, ul, tx, px, uc>>
fcvars == <<fc, fcPending, fcw>>
rxvars == <<dlq, filled, chain, napi, missed, np, alw>>
ctvars == <<enabled, pmRef, usage, chan, mp, ct>>
nvars == <<txvars, fcvars, rxvars, ctvars, left, stale>>

Idle == [pc |-> "idle", cmd |-> Data, old |-> {}, took |-> 0]
UcIdle == [pc |-> "idle", todo |-> {}, m |-> 0]
Spend(k) == left[k] > 0 /\ left' = [left EXCEPT ![k] = @ - 1]

\* Before the driver's probe: the control thread is about to start the channels.
NInit ==
  /\ enabled = FALSE /\ pmRef = FALSE /\ usage = 0 /\ chan = "down"
  /\ mp = [m \in Muxes |-> "none"]
  /\ pstop = FALSE /\ vstop = {} /\ pq = 0 /\ ul = 0
  /\ tx = [m \in Muxes |-> "idle"] /\ px = "idle" /\ uc = UcIdle
  /\ fc = {} /\ fcPending = FALSE /\ fcw = [pend |-> FALSE, due |-> FALSE, pc |-> "idle", held |-> {}]
  /\ dlq = 0 /\ filled = <<>> /\ chain = <<>> /\ napi = "off" /\ missed = FALSE
  /\ np = Idle /\ alw = [pend |-> FALSE, pc |-> "idle"]
  /\ ct = [pc |-> "prep", job |-> "probe"]
  /\ left \in Plays
  /\ stale = {}

Live == {m \in Muxes : mp[m] = "live"}
UlFree == UlRing - ul
DlFree == DlRing - dlq - Len(filled)
StopVnds(S) == vstop' = vstop \cup S /\ UNCHANGED stale
WakeVnds(S) == vstop' = vstop \ S /\ stale' = stale \ S

-----------------------------------------------------------------------------
(* The uplink. *)

\* rmnet_vnd_start_xmit looks at the parent's queue and only then stops its
\* own; the two are different instructions, and the callback may run between.
rmnet_vnd_start_xmit(m) ==
  /\ tx[m] = "idle" /\ mp[m] = "live" /\ m \notin vstop
  /\ left.pkt > 0
  /\ tx' = [tx EXCEPT ![m] = IF pstop THEN "stop" ELSE "send"]
  /\ UNCHANGED <<pstop, vstop, pq, ul, px, uc, fcvars, rxvars, ctvars, left, stale>>

VndBusy(m) ==
  /\ tx[m] = "stop"
  /\ tx' = [tx EXCEPT ![m] = "idle"]
  /\ vstop' = vstop \cup {m}
  /\ stale' = IF pstop THEN stale ELSE stale \cup {m}
  /\ UNCHANGED <<pstop, pq, ul, px, uc, fcvars, rxvars, ctvars, left>>

\* The packet gets its header and goes to the parent's queueing discipline.
rmnet_vnd_tx_agg(m) ==
  /\ tx[m] = "send"
  /\ tx' = [tx EXCEPT ![m] = "idle"]
  /\ pq' = pq + 1 /\ Spend("pkt")
  /\ UNCHANGED <<pstop, vstop, ul, px, uc, fcvars, rxvars, ctvars, stale>>

\* mhi_netdev_xmit counts the free descriptors ...  (Between a reset's two halves
\* the rings are freed and what it reads is arbitrary.)
mhi_netdev_xmit ==
  /\ px = "idle" /\ pq > 0 /\ ~pstop /\ ct.pc # "gone"
  /\ pq' = pq - 1
  /\ px' \in (IF chan = "up" THEN {IF UlFree < Low THEN "stop" ELSE "queue"}
                             ELSE {"stop", "queue"})
  /\ UNCHANGED <<pstop, vstop, ul, tx, uc, fcvars, rxvars, ctvars, left, stale>>

\* ... stops every vnd and then the parent when they run low ...
StopQueues ==
  /\ px = "stop" /\ px' = "queue"
  /\ StopVnds(Live) /\ pstop' = TRUE
  /\ UNCHANGED <<pq, ul, tx, uc, fcvars, rxvars, ctvars, left>>

\* ... and queues the transfer, or drops the packet when the core refuses it.
QueueUplink ==
  /\ px = "queue" /\ px' = "idle"
  /\ ul' = IF chan = "up" /\ UlFree > 0 THEN ul + 1 ELSE ul
  /\ UNCHANGED <<pstop, vstop, pq, tx, uc, fcvars, rxvars, ctvars, left, stale>>

\* A completed transfer.
mhi_netdev_xfer_ul_cb ==
  /\ chan = "up" /\ ul > 0 /\ uc.pc = "idle"
  /\ ul' = ul - 1
  /\ uc' = IF pstop /\ enabled /\ UlFree + 1 > High
           THEN [uc EXCEPT !.pc = "wake"] ELSE UcIdle
  /\ UNCHANGED <<pstop, vstop, pq, tx, px, fcvars, rxvars, ctvars, left, stale>>

WakeParent ==
  /\ uc.pc = "wake"
  /\ pstop' = FALSE
  /\ uc' = [pc |-> "next", todo |-> Muxes, m |-> 0]
  /\ UNCHANGED <<vstop, pq, ul, tx, px, fcvars, rxvars, ctvars, left, stale>>

Least(S) == CHOOSE x \in S : \A y \in S : x =< y

\* The walk leaves alone a mux the modem holds, a missing vnd and one that runs.
VisitVnd ==
  /\ uc.pc = "next"
  /\ IF uc.todo = {} THEN uc' = UcIdle
     ELSE LET m == Least(uc.todo) IN
          uc' = [pc |-> IF m \in fc \/ mp[m] = "none" \/ m \notin vstop THEN "next" ELSE "open",
                 todo |-> uc.todo \ {m}, m |-> m]
  /\ UNCHANGED <<pstop, vstop, pq, ul, tx, px, fcvars, rxvars, ctvars, left, stale>>

WakeVnd ==
  /\ uc.pc = "open"
  /\ WakeVnds({uc.m}) /\ uc' = [uc EXCEPT !.pc = "next", !.m = 0]
  /\ UNCHANGED <<pstop, pq, ul, tx, px, fcvars, rxvars, ctvars, left>>

-----------------------------------------------------------------------------
(* Flow control.  The commands run in the poll, without pm_lock. *)

\* The bit is read and written back.
FlowMark ==
  /\ np.pc = "mark"
  /\ fc' = IF np.cmd.en THEN np.old \ {np.cmd.mux} ELSE np.old \cup {np.cmd.mux}
  /\ np' = [np EXCEPT !.pc = "arm", !.old = {}]
  /\ UNCHANGED <<fcPending, fcw, dlq, filled, chain, napi, missed, alw, txvars, ctvars, left, stale>>

\* The deadline is armed while anything is held, and cancelled when nothing is.
FlowArm ==
  /\ np.pc = "arm"
  /\ LET arm == fc # {} /\ ~fcPending /\ enabled
         disarm == fc = {} /\ fcPending IN
     /\ fcPending' = (arm \/ (fcPending /\ ~disarm))
     /\ fcw' = IF disarm THEN [fcw EXCEPT !.pend = FALSE, !.due = FALSE] ELSE fcw
     /\ np' = [np EXCEPT !.pc = IF arm THEN "schedule" ELSE "flow"]
  /\ UNCHANGED <<fc, dlq, filled, chain, napi, missed, alw, txvars, ctvars, left, stale>>

FlowSchedule ==
  /\ np.pc = "schedule"
  /\ fcw' = IF fcw.pend THEN fcw ELSE [fcw EXCEPT !.pend = TRUE, !.due = FALSE]
  /\ np' = [np EXCEPT !.pc = "flow"]
  /\ UNCHANGED <<fc, fcPending, dlq, filled, chain, napi, missed, alw, txvars, ctvars, left, stale>>

\* Then the vnd's queue follows (long before the deadline just scheduled), and the acknowledgement goes to the parent.
rmnet_data_vnd_do_flow_control ==
  /\ np.pc = "flow"
  /\ LET m == np.cmd.mux IN
     IF np.cmd.en THEN WakeVnds({m})
     ELSE /\ vstop' = vstop \cup {m}
          /\ stale' = IF m \in fc THEN stale ELSE stale \cup {m}
  /\ pq' = pq + 1
  /\ fcw' = [fcw EXCEPT !.due = fcw.pend]
  /\ np' = [np EXCEPT !.pc = "rx", !.cmd = Data]
  /\ UNCHANGED <<pstop, ul, tx, px, uc, fc, fcPending, dlq, filled, chain, napi, missed, alw, ctvars, left>>

\* mhi_netdev_fc_timeout holds pm_lock for reading throughout.
mhi_netdev_fc_timeout ==
  /\ fcw.due /\ fcw.pc = "idle"
  /\ fcw' = [pend |-> FALSE, due |-> FALSE, pc |-> "zero", held |-> fc]
  /\ UNCHANGED <<fc, fcPending, txvars, rxvars, ctvars, left, stale>>

\* Mutants: the deadline leaves fc_pending set; it does not look at enabled.
ZeroKeepsPending ==
  /\ fcw.pc = "zero"
  /\ fc' = {} /\ UNCHANGED fcPending
  /\ fcw' = IF enabled THEN [fcw EXCEPT !.pc = "open"]
            ELSE [fcw EXCEPT !.pc = "idle", !.held = {}]
  /\ stale' = stale \cup ((vstop \cap fc) \ fcw.held)
  /\ UNCHANGED <<txvars, rxvars, ctvars, left>>

FcZero ==
  /\ fcw.pc = "zero"
  /\ fc' = {} /\ fcPending' = FALSE
  /\ fcw' = IF enabled THEN [fcw EXCEPT !.pc = "open"]
            ELSE [fcw EXCEPT !.pc = "idle", !.held = {}]
  /\ stale' = stale \cup ((vstop \cap fc) \ fcw.held)
  /\ UNCHANGED <<txvars, rxvars, ctvars, left>>

ForceOpen ==
  /\ fcw.pc = "open"
  /\ WakeVnds(fcw.held \cap {m \in Muxes : mp[m] # "none"})
  /\ fcw' = [fcw EXCEPT !.pc = "idle", !.held = {}]
  /\ UNCHANGED <<fc, fcPending, pstop, pq, ul, tx, px, uc, rxvars, ctvars, left>>

-----------------------------------------------------------------------------
(* The downlink. *)

\* The modem fills a buffer and interrupts: mhi_netdev_status_cb schedules the
\* poll, marks a running one to be repeated, and does nothing while NAPI is off.
mhi_netdev_status_cb ==
  /\ napi' = IF napi = "idle" THEN "sched" ELSE napi
  /\ missed' = (missed \/ napi = "poll")

Receive(p, budget) ==
  /\ chan = "up" /\ dlq > 0
  /\ dlq' = dlq - 1 /\ filled' = Append(filled, p)
  /\ mhi_netdev_status_cb /\ Spend(budget)
  /\ UNCHANGED <<chain, np, alw, txvars, fcvars, ctvars, stale>>

ReceiveData == Receive(Data, "data")
ReceiveFlow == \E c \in Cmds : Receive(c, "cmd")

\* mhi_netdev_poll takes up to a budget of events, whose descriptors become
\* free; mhi_netdev_xfer_dl_cb puts the buffers on qmap_chain.
mhi_netdev_poll ==
  /\ napi = "sched"
  /\ LET n == IF Len(filled) < Budget THEN Len(filled) ELSE Budget IN
     /\ napi' = "poll" /\ missed' = FALSE
     /\ chain' = chain \o SubSeq(filled, 1, n)
     /\ filled' = SubSeq(filled, n + 1, Len(filled))
     /\ np' = [Idle EXCEPT !.pc = "rx", !.took = n]
  /\ UNCHANGED <<dlq, alw, txvars, fcvars, ctvars, left, stale>>

\* A data packet is delivered.  A flow command is looked up and executed, or
\* refused without an answer when its vnd is missing.
rmnet_data_map_command ==
  /\ np.pc = "rx" /\ chain # <<>>
  /\ chain' = Tail(chain)
  /\ LET p == Head(chain) IN
     np' = IF p.flow /\ mp[p.mux] # "none"
           THEN [np EXCEPT !.pc = "mark", !.cmd = p, !.old = fc] ELSE np
  /\ UNCHANGED <<dlq, filled, napi, missed, alw, txvars, fcvars, ctvars, left, stale>>

\* The top-up queues a buffer for every free descriptor.  It fails on the first
\* buffer it cannot get or queue, and when the interface is not enabled.
mhi_netdev_alloc_skb(ok) ==
  IF ok
  THEN /\ DlFree = 0 \/ enabled \/ chan = "down"
       /\ dlq' = IF chan = "down" THEN dlq ELSE dlq + DlFree
       /\ UNCHANGED left
  ELSE /\ DlFree > 0
       /\ \/ ~enabled /\ UNCHANGED <<dlq, left>>
          \/ /\ enabled
             /\ dlq' \in dlq .. dlq + DlFree - 1 /\ Spend("mem")

\* The poll tops up unless the work is going to, and leaves it to the work
\* when it cannot.
PollRefill ==
  /\ np.pc = "rx" /\ chain = <<>>
  /\ \/ alw.pend /\ UNCHANGED <<dlq, alw, left>>
     \/ ~alw.pend /\ mhi_netdev_alloc_skb(TRUE) /\ UNCHANGED alw
     \/ ~alw.pend /\ mhi_netdev_alloc_skb(FALSE) /\ alw' = [alw EXCEPT !.pend = TRUE]
  /\ np' = [np EXCEPT !.pc = "done"]
  /\ UNCHANGED <<filled, chain, napi, missed, txvars, fcvars, ctvars, stale>>

napi_complete ==
  /\ np.pc = "done"
  /\ np' = Idle /\ missed' = FALSE
  /\ napi' = IF np.took = Budget \/ missed THEN "sched" ELSE "idle"
  /\ UNCHANGED <<dlq, filled, chain, alw, txvars, fcvars, ctvars, left, stale>>

mhi_netdev_alloc_work ==
  /\ alw.pend /\ alw.pc = "idle"
  /\ alw' = [pend |-> FALSE, pc |-> "alloc"]
  /\ UNCHANGED <<dlq, filled, chain, napi, missed, np, txvars, fcvars, ctvars, left, stale>>

WorkRefill ==
  /\ alw.pc = "alloc"
  /\ \E ok \in BOOLEAN : /\ mhi_netdev_alloc_skb(ok)
                         /\ alw' = [alw EXCEPT !.pc = IF ok THEN "idle" ELSE "check"]
  /\ UNCHANGED <<filled, chain, napi, missed, np, txvars, fcvars, ctvars, stale>>

\* It comes back later for as long as the interface is enabled.
WorkRetry ==
  /\ alw.pc = "check"
  /\ alw' = [pend |-> alw.pend \/ enabled, pc |-> "idle"]
  /\ UNCHANGED <<dlq, filled, chain, napi, missed, np, txvars, fcvars, ctvars, left, stale>>

-----------------------------------------------------------------------------
(* The control thread: probe, the debugfs reset and removal.  pm_lock is    *)
(* taken for writing where enabled changes, so those steps wait for the     *)
(* flow-control deadline, which reads it.                                   *)

At(p) == ct.pc = p
Goto(p) == ct' = [ct EXCEPT !.pc = p]
Quiet == ct.pc = "idle"
SetEnabled(b) == fcw.pc = "idle" /\ enabled' = b

ResetStart ==
  /\ Quiet
  /\ SetEnabled(FALSE) /\ ct' = [pc |-> "release", job |-> "reset"] /\ Spend("reset")
  /\ UNCHANGED <<pmRef, usage, chan, mp, txvars, fcvars, rxvars, stale>>

\* Mutant: the reference is put but still marked as held.
ReleaseKeepsMark ==
  /\ At("release")
  /\ UNCHANGED pmRef /\ usage' = IF pmRef THEN usage - 1 ELSE usage
  /\ Goto(IF ct.job = "reset" THEN "napi" ELSE "cancel")
  /\ UNCHANGED <<enabled, chan, mp, txvars, fcvars, rxvars, left, stale>>

mhi_netdev_pm_release ==
  /\ At("release")
  /\ pmRef' = FALSE /\ usage' = IF pmRef THEN usage - 1 ELSE usage
  /\ Goto(IF ct.job = "reset" THEN "napi" ELSE "cancel")
  /\ UNCHANGED <<enabled, chan, mp, txvars, fcvars, rxvars, left, stale>>

\* napi_disable waits for a poll, and for ever when NAPI is off already.
napi_disable ==
  /\ At("napi") /\ napi = "idle"
  /\ napi' = "off" /\ Goto(IF ct.job = "reset" THEN "clear" ELSE "recancel")
  /\ UNCHANGED <<enabled, pmRef, usage, chan, mp, dlq, filled, chain, missed, np, alw,
                 txvars, fcvars, left, stale>>

CancelSync == fcw.pc = "idle" /\ fcw' = [fcw EXCEPT !.pend = FALSE, !.due = FALSE]

ClearFlow ==
  /\ At("clear") /\ CancelSync
  /\ fc' = {} /\ fcPending' = FALSE /\ Goto("unprepare")
  /\ UNCHANGED <<enabled, pmRef, usage, chan, mp, txvars, rxvars, left, stale>>

\* The rings are drained (with -ENOTCONN, which wakes nobody) and freed.
mhi_unprepare_from_transfer ==
  /\ At("unprepare") /\ uc.pc = "idle"
  /\ chan' = "down" /\ ul' = 0 /\ dlq' = 0 /\ filled' = <<>> /\ Goto("prep")
  /\ UNCHANGED <<enabled, pmRef, usage, mp, pstop, vstop, pq, tx, px, uc, fcvars,
                 chain, napi, missed, np, alw, left, stale>>

\* mhi_netdev_enable_iface, for the probe and for the reset.
PrepareChannels ==
  /\ At("prep")
  /\ \/ chan' = "up" /\ Goto("enable") /\ UNCHANGED left
     \/ ct.job = "reset" /\ Spend("prep") /\ chan' = "down" /\ Goto("failed")
  /\ UNCHANGED <<enabled, pmRef, usage, mp, txvars, fcvars, rxvars, stale>>

EnableIface ==
  /\ At("enable") /\ SetEnabled(TRUE) /\ Goto("hold")
  /\ UNCHANGED <<pmRef, usage, chan, mp, txvars, fcvars, rxvars, left, stale>>

mhi_netdev_pm_hold ==
  /\ At("hold")
  /\ pmRef' = TRUE /\ usage' = IF pmRef THEN usage ELSE usage + 1
  /\ Goto("alloc")
  /\ UNCHANGED <<enabled, chan, mp, txvars, fcvars, rxvars, left, stale>>

FirstRefill ==
  /\ At("alloc") /\ Goto("napi_on")
  /\ \E ok \in BOOLEAN : /\ mhi_netdev_alloc_skb(ok)
                         /\ alw' = [alw EXCEPT !.pend = @ \/ ~ok]
  /\ UNCHANGED <<enabled, pmRef, usage, chan, mp, filled, chain, napi, missed, np,
                 txvars, fcvars, stale>>

napi_enable ==
  /\ At("napi_on")
  /\ napi' = "idle" /\ Goto(IF ct.job = "reset" THEN "wake" ELSE "register")
  /\ UNCHANGED <<enabled, pmRef, usage, chan, mp, dlq, filled, chain, missed, np, alw,
                 txvars, fcvars, left, stale>>

\* Mutant: the reset does not wake the queues.
NoWakeAfterReset ==
  /\ At("wake") /\ ct' = [pc |-> "idle", job |-> "none"]
  /\ UNCHANGED <<enabled, pmRef, usage, chan, mp, txvars, fcvars, rxvars, left, stale>>

\* The end of the reset: a queue that was stopped when it began is woken.
WakeAfterReset ==
  /\ At("wake")
  /\ pstop' = FALSE /\ WakeVnds(Live) /\ ct' = [pc |-> "idle", job |-> "none"]
  /\ UNCHANGED <<enabled, pmRef, usage, chan, mp, pq, ul, tx, px, uc, fcvars, rxvars, left>>

\* The probe registers the vnds last.
mhi_netdev_probe ==
  /\ At("register")
  /\ LET none == {m \in Muxes : mp[m] = "none"} IN
     IF none = {} THEN UNCHANGED mp /\ ct' = [pc |-> "idle", job |-> "none"]
     ELSE mp' = [mp EXCEPT ![Least(none)] = "live"] /\ UNCHANGED ct
  /\ UNCHANGED <<enabled, pmRef, usage, chan, txvars, fcvars, rxvars, left, stale>>

\* mhi_driver_remove resets the channels before it calls the driver.
mhi_reset_chan ==
  /\ At("idle") \/ At("failed")
  /\ uc.pc = "idle"
  /\ chan' = IF chan = "up" THEN "reset" ELSE chan
  /\ ul' = 0 /\ dlq' = 0 /\ filled' = <<>>
  /\ ct' = [pc |-> "disable", job |-> "remove"]
  /\ UNCHANGED <<enabled, pmRef, usage, mp, pstop, vstop, pq, tx, px, uc, fcvars,
                 chain, napi, missed, np, alw, left, stale>>

mhi_netdev_remove ==
  /\ At("disable") /\ SetEnabled(FALSE) /\ Goto("release")
  /\ UNCHANGED <<pmRef, usage, chan, mp, txvars, fcvars, rxvars, left, stale>>

CancelFlow ==
  /\ At("cancel") \/ At("recancel")
  /\ CancelSync /\ Goto(IF At("cancel") THEN "unregister" ELSE "parent")
  /\ UNCHANGED <<fc, fcPending, enabled, pmRef, usage, chan, mp, txvars, rxvars, left, stale>>

\* unregister_netdev waits for the vnd's sender and for the polls in progress;
\* the pointer is cleared after the device has been freed.
rmnet_vnd_unregister_device ==
  /\ At("unregister")
  /\ LET live == Live
         freed == {m \in Muxes : mp[m] = "freed"} IN
     \/ freed # {} /\ mp' = [m \in Muxes |-> IF m \in freed THEN "none" ELSE mp[m]] /\ UNCHANGED <<ct, chain>>
     \/ /\ freed = {} /\ live # {}
        /\ tx[Least(live)] = "idle" /\ napi # "poll"
        /\ mp' = [mp EXCEPT ![Least(live)] = "freed"] /\ UNCHANGED <<ct, chain>>
     \/ freed = {} /\ live = {} /\ UNCHANGED mp /\ Goto("napi") /\ chain' = <<>>
  /\ UNCHANGED <<enabled, pmRef, usage, chan, dlq, filled, napi, missed, np, alw,
                 txvars, fcvars, left, stale>>

\* The parent is unregistered and freed, and the top-up work flushed: a pending
\* one runs at once (after one that is running), and only it is waited for.
UnregisterParent ==
  /\ At("parent") /\ px = "idle" /\ Goto("flush") /\ pq' = 0
  /\ alw.pend => alw.pc = "idle"
  /\ alw' = IF alw.pend THEN [pend |-> FALSE, pc |-> "alloc"] ELSE alw
  /\ UNCHANGED <<enabled, pmRef, usage, chan, mp, pstop, vstop, ul, tx, px, uc, fcvars,
                 dlq, filled, chain, napi, missed, np, left, stale>>

flush_delayed_work ==
  /\ At("flush") /\ alw.pc = "idle" /\ Goto("gone")
  /\ UNCHANGED <<enabled, pmRef, usage, chan, mp, txvars, fcvars, rxvars, left, stale>>

Threads ==
  \/ \E m \in Muxes : rmnet_vnd_start_xmit(m) \/ VndBusy(m) \/ rmnet_vnd_tx_agg(m)
  \/ mhi_netdev_xmit \/ StopQueues \/ QueueUplink
  \/ mhi_netdev_xfer_ul_cb \/ WakeParent \/ VisitVnd \/ WakeVnd
  \/ FlowMark \/ FlowArm \/ FlowSchedule \/ rmnet_data_vnd_do_flow_control
  \/ mhi_netdev_fc_timeout \/ FcZero \/ ForceOpen
  \/ mhi_netdev_poll \/ rmnet_data_map_command \/ PollRefill \/ napi_complete
  \/ mhi_netdev_alloc_work \/ WorkRefill \/ WorkRetry

Control ==
  \/ mhi_netdev_pm_release \/ napi_disable \/ ClearFlow \/ mhi_unprepare_from_transfer
  \/ PrepareChannels \/ EnableIface \/ mhi_netdev_pm_hold \/ FirstRefill \/ napi_enable
  \/ WakeAfterReset \/ mhi_netdev_probe \/ mhi_netdev_remove \/ CancelFlow
  \/ rmnet_vnd_unregister_device \/ UnregisterParent \/ flush_delayed_work

Outside == ReceiveData \/ ReceiveFlow \/ ResetStart \/ mhi_reset_chan

NNext == Threads \/ Control \/ Outside
NSpec == NInit /\ [][NNext]_nvars

-----------------------------------------------------------------------------
NTypeOK ==
  /\ enabled \in BOOLEAN /\ pmRef \in BOOLEAN /\ usage \in Int
  /\ chan \in {"up", "down", "reset"} /\ mp \in [Muxes -> {"none", "live", "freed"}]
  /\ pstop \in BOOLEAN /\ vstop \subseteq Muxes /\ pq \in Nat /\ ul \in 0 .. UlRing
  /\ fc \subseteq Muxes /\ fcPending \in BOOLEAN
  /\ fcw \in [pend : BOOLEAN, due : BOOLEAN, pc : {"idle", "zero", "open"}, held : SUBSET Muxes]
  /\ dlq \in 0 .. DlRing /\ dlq + Len(filled) =< DlRing
  /\ napi \in {"off", "idle", "sched", "poll"}
  /\ np.pc \in {"idle", "rx", "mark", "arm", "schedule", "flow", "done"}
  /\ alw \in [pend : BOOLEAN, pc : {"idle", "alloc", "check"}]

\* Who is left to open the parent's queue, and the queue of vnd m.
ParentWaker == ul > 0 \/ px # "idle" \/ uc.pc = "wake"
VndWaker(m) ==
  \/ pstop
  \/ m \in uc.todo
  \/ uc.pc = "open" /\ uc.m = m
  \/ m \in fc \cup fcw.held
  \/ np.pc \in {"arm", "schedule", "flow"} /\ np.cmd.mux = m

\* A queue that is stopped outside a reset has somebody left who will open it: the
\* parent a transfer in flight, a vnd the walk of the completion callback or the
\* deadline of a modem that holds it (mhi_netdev_xfer_ul_cb, fc_timeout).  Excepted
\* are the vnds of three races: one that stops after the parent has been woken, one
\* stopped for a hold the deadline has ended, one whose hold the deadline overwrites.
QueueReopens ==
  Quiet => /\ pstop => ParentWaker
           /\ \A m \in (Live \cap vstop) \ stale : VndWaker(m)

\* While the modem holds a mux of an enabled interface the deadline is pending or
\* running, or the poll is about to arm it (rmnet_map_do_flow_control).
HeldHasDeadline ==
  enabled /\ fc # {} => fcw.pend \/ fcw.pc # "idle" \/ np.pc \in {"arm", "schedule"}

\* A receive ring short of buffers is being topped up: by a poll that is scheduled
\* or running, or by the work, pending or running, however often and in whatever
\* order they fail (mhi_netdev_poll, mhi_netdev_alloc_work, enable_iface).
RingIsToppedUp ==
  Quiet /\ DlFree > 0 => alw.pend \/ alw.pc # "idle" \/ napi \in {"sched", "poll"}

\* The runtime PM reference is held exactly once while the interface is enabled,
\* and not at all once it is disabled (mhi_netdev_pm_hold, mhi_netdev_pm_release).
ReferenceHeld ==
  /\ usage = IF pmRef THEN 1 ELSE 0
  /\ Quiet => enabled /\ pmRef
  /\ ct.pc \in {"failed", "clear", "unprepare", "cancel", "unregister", "gone"} => ~pmRef

\* No thread works on a vnd that removal has freed: not the flow command in the
\* poll, not the deadline, not the completion callback, not a sender.
NoFreedDevice ==
  /\ np.pc \in {"mark", "arm", "schedule", "flow"} => mp[np.cmd.mux] = "live"
  /\ fcw.pc = "open" => \A m \in fcw.held : mp[m] # "freed"
  /\ uc.pc = "open" => mp[uc.m] = "live"
  /\ \A m \in Muxes : tx[m] # "idle" => mp[m] = "live"

\* Once removal has returned nothing of the device can run any more: no poll, no
\* deadline and no top-up is pending or running (mhi_netdev_remove).
NothingAfterRemoval ==
  At("gone") => napi = "off" /\ ~fcw.pend /\ fcw.pc = "idle" /\ ~alw.pend /\ alw.pc = "idle"
=============================================================================
