-------------------------- MODULE MhiNetdevProofs --------------------------
(***************************************************************************)
(* Proofs about MhiNetdev, for any number of vnds, any rings, thresholds,  *)
(* poll weight and bounds: a stopped queue has somebody left to open it, a *)
(* mux the modem holds has its deadline, the runtime PM reference is       *)
(* balanced, the receive ring is topped up, no thread works on a freed     *)
(* vnd and nothing runs once removal has returned.                         *)
(*                                                                         *)
(* The inductive invariant says, for every place of the control thread,    *)
(* what of the interface is up and which of the other threads can run.     *)
(***************************************************************************)
EXTENDS MhiNetdev, SequenceTheorems, WellFoundedInduction, TLAPS

---------------------------------------------------------------------------
(* Constants.                                                              *)

\* There is a mux, and room for a transfer.
LEMMA Sizes == 0 \in Muxes /\ UlRing \in Nat /\ UlRing > 0
BY NetdevAssumption DEF Muxes

\* A set of mux ids that is not empty has a least one (the loops over
\* mpQmapNetDev go upwards).
LEMMA LeastMux == ASSUME NEW S \in SUBSET Muxes, S # {} PROVE Least(S) \in S
<1> DEFINE R == OpToRel(<, Nat)
<1>1. \E x \in S : \A y \in S : ~(<<y, x>> \in R)
  <2>1. S \subseteq Nat
    BY NetdevAssumption DEF Muxes
  <2>2. IsWellFoundedOn(R, Nat)
    BY NatLessThanWellFounded, Zenon
  <2> HIDE DEF R
  <2> QED BY <2>1, <2>2, WFMin
<1>2. \A x, y \in Nat : <<y, x>> \in R <=> y < x
  BY Zenon DEF OpToRel
<1> HIDE DEF R
<1>3. \E x \in S : \A y \in S : x =< y
  <2>1. PICK x \in S : \A y \in S : ~(<<y, x>> \in R)
    BY <1>1, Zenon
  <2>2. \A y \in S : y \in Nat
    BY NetdevAssumption DEF Muxes
  <2>3. \A y \in S : ~(y < x)
    BY <2>1, <2>2, <1>2, Zenon
  <2>4. \A y \in S : x =< y
    BY <2>2, <2>3
  <2> QED BY <2>4
<1> QED BY <1>3 DEF Least

---------------------------------------------------------------------------
(* Sequences of packets: the event ring and qmap_chain.                    *)

\* A received buffer is put at the end.
LEMMA AppendQ == ASSUME NEW S, NEW s \in Seq(S), NEW p \in S
  PROVE Append(s, p) \in Seq(S) /\ Len(Append(s, p)) = Len(s) + 1
OBVIOUS

\* The poll takes the first n of them onto its chain ...
LEMMA TakeQ == ASSUME NEW S, NEW s \in Seq(S), NEW c \in Seq(S), NEW n \in 0 .. Len(s)
  PROVE c \o SubSeq(s, 1, n) \in Seq(S)
OBVIOUS

\* ... nothing when there is nothing ...
LEMMA TakeNone == <<>> \o SubSeq(<<>>, 1, 0) = <<>> /\ Len(<<>>) = 0
OBVIOUS

\* ... and leaves the others.
LEMMA DropQ == ASSUME NEW S, NEW s \in Seq(S), NEW n \in 0 .. Len(s)
  PROVE /\ SubSeq(s, n + 1, Len(s)) \in Seq(S)
        /\ Len(SubSeq(s, n + 1, Len(s))) = Len(s) - n
OBVIOUS

\* The first packet of the chain and the rest.
LEMMA HeadQ == ASSUME NEW S, NEW s \in Seq(S), s # <<>> PROVE Head(s) \in S /\ Tail(s) \in Seq(S)
OBVIOUS

---------------------------------------------------------------------------
(* The inductive invariant, in parts.                                      *)

\* The full state.
Packets == Cmds \cup {Data}
PacketQ == Seq(Packets)
Vnds    == [Muxes -> {"none", "live", "freed"}]
Senders == [Muxes -> {"idle", "stop", "send"}]
Walk    == [pc : {"idle", "wake", "next", "open"}, todo : SUBSET Muxes, m : Muxes]
Work    == [pend : BOOLEAN, due : BOOLEAN, pc : {"idle", "zero", "open"}, held : SUBSET Muxes]
Poll    == [pc : {"idle", "rx", "mark", "arm", "schedule", "flow", "done"}, cmd : Packets,
            old : SUBSET Muxes, took : Nat]
Refill  == [pend : BOOLEAN, pc : {"idle", "alloc", "check"}]
Jobs    == {"probe", "reset", "none", "remove"}
Places  == {"prep", "enable", "hold", "alloc", "napi_on", "wake", "register", "idle", "release",
            "napi", "clear", "unprepare", "failed", "disable", "cancel", "unregister", "recancel",
            "parent", "flush", "gone"}
TxTypes == /\ pstop \in BOOLEAN /\ vstop \subseteq Muxes /\ pq \in Nat /\ ul \in 0 .. UlRing
           /\ tx \in Senders /\ px \in {"idle", "stop", "queue"} /\ uc \in Walk
FcTypes == fc \subseteq Muxes /\ fcPending \in BOOLEAN /\ fcw \in Work
RxTypes == /\ dlq \in Nat /\ filled \in PacketQ /\ dlq + Len(filled) =< DlRing
           /\ chain \in PacketQ /\ napi \in {"off", "idle", "sched", "poll"}
           /\ missed \in BOOLEAN /\ np \in Poll /\ alw \in Refill
CtTypes == /\ enabled \in BOOLEAN /\ pmRef \in BOOLEAN /\ usage \in Int
           /\ chan \in {"up", "down", "reset"} /\ mp \in Vnds
           /\ ct \in [pc : Places, job : Jobs]

\* Where the control thread is says what of the interface is up.
Stage ==
  /\ ct.pc \in {"hold", "alloc", "napi_on", "wake", "register", "idle"} => enabled
  /\ enabled => ct.pc \in {"hold", "alloc", "napi_on", "wake", "register", "idle", "disable"}
  /\ usage = IF pmRef THEN 1 ELSE 0
  /\ ct.pc \in {"alloc", "napi_on", "wake", "register", "idle"} => pmRef
  /\ pmRef => ct.pc \in {"alloc", "napi_on", "wake", "register", "idle", "release", "disable"}
  /\ chan = "up" <=> \/ ct.pc \in {"enable", "hold", "alloc", "napi_on", "wake", "register", "idle"}
                     \/ ct.job = "reset" /\ ct.pc \in {"release", "napi", "clear", "unprepare"}
  /\ ct.job = "probe" => ct.pc \in {"prep", "enable", "hold", "alloc", "napi_on", "register"}
  /\ ct.job = "reset" => ct.pc \in {"release", "napi", "clear", "unprepare", "prep", "failed",
                                    "enable", "hold", "alloc", "napi_on", "wake"}
  /\ ct.job = "none" <=> ct.pc = "idle"
  /\ ct.job = "remove" => ct.pc \in {"disable", "release", "cancel", "unregister", "napi",
                                     "recancel", "parent", "flush", "gone"}
  /\ ct.job = "remove" => filled = <<>>

\* The poll, and where it cannot run.
Polling ==
  /\ np.pc # "idle" <=> napi = "poll"
  /\ chain # <<>> => napi = "poll" /\ np.pc # "done"
  /\ ct.pc \in {"clear", "unprepare", "prep", "enable", "hold", "alloc", "napi_on", "failed",
                "recancel", "parent", "flush", "gone"} => napi = "off"
  /\ np.pc \in {"mark", "arm", "schedule", "flow"} => np.cmd.flow /\ np.cmd.mux \in Muxes
  /\ np.pc = "mark" => fc \subseteq np.old

\* The deadline of a mux that the modem holds.
Deadline ==
  /\ fcw.due => fcw.pend
  /\ fcw.pc = "idle" => fcw.held = {}
  /\ fcw.pc = "open" => enabled
  /\ ct.pc \in {"unprepare", "prep", "enable", "hold", "alloc", "napi_on"} =>
       fc = {} /\ ~fcPending /\ ~fcw.pend /\ fcw.pc = "idle"
  /\ ct.pc \in {"parent", "flush", "gone"} => ~fcw.pend /\ fcw.pc = "idle"
  /\ enabled /\ fcPending => fcw.pend \/ fcw.pc = "zero" \/ np.pc = "schedule"
  /\ enabled /\ fc # {} => fcw.pend \/ fcw.pc = "zero" \/ np.pc \in {"arm", "schedule"}

\* The vnds: registered one by one, freed one by one.
Registered ==
  /\ (\E m \in Muxes : mp[m] = "freed") => ct.pc = "unregister" /\ chain = <<>>
  /\ np.pc \in {"mark", "arm", "schedule", "flow"} => mp[np.cmd.mux] = "live"
  /\ \A m \in Muxes : tx[m] # "idle" => mp[m] = "live"
  /\ uc.pc = "open" => mp[uc.m] = "live"
  /\ uc.pc # "idle" => chan = "up"

\* The receive ring.
ToppedUp ==
  /\ ct.pc \in {"napi_on", "wake", "register", "idle"} /\ DlFree > 0 =>
       alw.pend \/ alw.pc # "idle" \/ napi = "sched" \/ (napi = "poll" /\ np.pc # "done")
  /\ ct.pc \in {"flush", "gone"} => ~alw.pend
  /\ ct.pc = "gone" => alw.pc = "idle"

\* A probe: nobody sends before the first vnd is registered, and none of the
\* vnds that are not registered yet is stopped.
Probing ==
  /\ ct.job = "probe" /\ ct.pc # "register" =>
       ~pstop /\ pq = 0 /\ px = "idle" /\ ul = 0 /\ \A m \in Muxes : mp[m] = "none"
  /\ ct.job = "probe" => \A m \in Muxes : mp[m] = "none" => m \notin vstop

\* The queues, outside a reset and removal.
Serving == ct.pc = "idle" \/ ct.job = "probe"
ParentOpens == Serving /\ pstop => ParentWaker
VndsOpen ==
  /\ uc.pc = "idle" => uc.todo = {}
  /\ Serving => \A m \in (Live \cap vstop) \ stale : VndWaker(m)

---------------------------------------------------------------------------
(* The steps by thread, and what each thread never touches.                *)

\* The senders and the uplink completion callback.
Uplink ==
  \/ \E m \in Muxes : rmnet_vnd_start_xmit(m) \/ VndBusy(m) \/ rmnet_vnd_tx_agg(m)
  \/ mhi_netdev_xmit \/ StopQueues \/ QueueUplink \/ mhi_netdev_xfer_ul_cb \/ WakeParent
  \/ VisitVnd \/ WakeVnd

\* A flow command in the poll.
FlowCommand ==
  \/ FlowMark \/ FlowArm \/ FlowSchedule \/ rmnet_data_vnd_do_flow_control

\* The flow-control deadline.
Deadlines ==
  \/ mhi_netdev_fc_timeout \/ FcZero \/ ForceOpen

\* The modem, the poll and the top-up work.
Downlink ==
  \/ ReceiveData \/ ReceiveFlow \/ mhi_netdev_poll \/ rmnet_data_map_command
  \/ PollRefill \/ napi_complete \/ mhi_netdev_alloc_work \/ WorkRefill \/ WorkRetry

\* The control thread.
Controller ==
  \/ mhi_netdev_pm_release \/ napi_disable \/ ClearFlow \/ mhi_unprepare_from_transfer
  \/ PrepareChannels \/ EnableIface \/ mhi_netdev_pm_hold \/ FirstRefill \/ napi_enable
  \/ WakeAfterReset \/ mhi_netdev_probe \/ mhi_netdev_remove \/ CancelFlow
  \/ rmnet_vnd_unregister_device \/ UnregisterParent \/ flush_delayed_work \/ ResetStart
  \/ mhi_reset_chan

\* Every step is one of these.
LEMMA NextSteps == NNext => Uplink \/ FlowCommand \/ Deadlines \/ Downlink \/ Controller
BY Zenon DEF NNext, Threads, Control, Outside, Uplink, FlowCommand, Deadlines, Downlink, Controller

\* The senders leave the deadline, the downlink and the control thread alone.
LEMMA UplinkFrame == ASSUME Uplink PROVE UNCHANGED <<fcvars, rxvars, ctvars>>
<1> USE DEF txvars, fcvars, rxvars, ctvars
<1>1. ASSUME NEW m \in Muxes, rmnet_vnd_start_xmit(m) PROVE UNCHANGED <<fcvars, rxvars, ctvars>>
  BY <1>1, Zenon DEF rmnet_vnd_start_xmit
<1>2. ASSUME NEW m \in Muxes, VndBusy(m) PROVE UNCHANGED <<fcvars, rxvars, ctvars>>
  BY <1>2, Zenon DEF VndBusy
<1>3. ASSUME NEW m \in Muxes, rmnet_vnd_tx_agg(m) PROVE UNCHANGED <<fcvars, rxvars, ctvars>>
  BY <1>3, Zenon DEF rmnet_vnd_tx_agg, Spend
<1>4. CASE mhi_netdev_xmit
  BY <1>4, Zenon DEF mhi_netdev_xmit
<1>5. CASE StopQueues
  BY <1>5, Zenon DEF StopQueues, StopVnds, Live
<1>6. CASE QueueUplink
  BY <1>6, Zenon DEF QueueUplink, UlFree
<1>7. CASE mhi_netdev_xfer_ul_cb
  BY <1>7, Zenon DEF mhi_netdev_xfer_ul_cb, UcIdle, UlFree
<1>8. CASE WakeParent
  BY <1>8, Zenon DEF WakeParent
<1>9. CASE VisitVnd
  BY <1>9, Zenon DEF VisitVnd, UcIdle
<1>10. CASE WakeVnd
  BY <1>10, Zenon DEF WakeVnd, WakeVnds
<1> QED BY <1>1, <1>2, <1>3, <1>4, <1>5, <1>6, <1>7, <1>8, <1>9, <1>10, Zenon DEF Uplink

\* A flow command does not touch the rings or the control thread.
LEMMA FlowCommandFrame == ASSUME FlowCommand PROVE UNCHANGED <<dlq, filled, chain, napi, missed, alw, pstop, ul, tx, px, uc, ctvars>>
<1> USE DEF txvars, fcvars, rxvars, ctvars
<1>1. CASE FlowMark
  BY <1>1, Zenon DEF FlowMark
<1>2. CASE FlowArm
  BY <1>2, Zenon DEF FlowArm
<1>3. CASE FlowSchedule
  BY <1>3, Zenon DEF FlowSchedule
<1>4. CASE rmnet_data_vnd_do_flow_control
  BY <1>4, Zenon DEF rmnet_data_vnd_do_flow_control, WakeVnds
<1> QED BY <1>1, <1>2, <1>3, <1>4, Zenon DEF FlowCommand

\* The deadline does not touch the downlink or the control thread.
LEMMA DeadlinesFrame == ASSUME Deadlines PROVE UNCHANGED <<rxvars, ctvars, pstop, pq, ul, tx, px, uc>>
<1> USE DEF txvars, fcvars, rxvars, ctvars
<1>1. CASE mhi_netdev_fc_timeout
  BY <1>1, Zenon DEF mhi_netdev_fc_timeout
<1>2. CASE FcZero
  BY <1>2, Zenon DEF FcZero
<1>3. CASE ForceOpen
  BY <1>3, Zenon DEF ForceOpen, WakeVnds
<1> QED BY <1>1, <1>2, <1>3, Zenon DEF Deadlines

\* The downlink does not touch queues, flow control and control thread.
LEMMA DownlinkFrame == ASSUME Downlink PROVE UNCHANGED <<txvars, fcvars, ctvars, stale>>
<1> USE DEF txvars, fcvars, rxvars, ctvars
<1>1. CASE ReceiveData
  BY <1>1, Zenon DEF ReceiveData, Receive, mhi_netdev_status_cb, Spend
<1>2. CASE ReceiveFlow
  BY <1>2, Zenon DEF ReceiveFlow, Receive, mhi_netdev_status_cb, Spend
<1>3. CASE mhi_netdev_poll
  BY <1>3, Zenon DEF mhi_netdev_poll, Idle
<1>4. CASE rmnet_data_map_command
  BY <1>4, Zenon DEF rmnet_data_map_command
<1>5. CASE PollRefill
  BY <1>5, Zenon DEF PollRefill, mhi_netdev_alloc_skb, Spend
<1>6. CASE napi_complete
  BY <1>6, Zenon DEF napi_complete, Idle
<1>7. CASE mhi_netdev_alloc_work
  BY <1>7, Zenon DEF mhi_netdev_alloc_work
<1>8. CASE WorkRefill
  BY <1>8, Zenon DEF WorkRefill, mhi_netdev_alloc_skb, Spend
<1>9. CASE WorkRetry
  BY <1>9, Zenon DEF WorkRetry
<1> QED BY <1>1, <1>2, <1>3, <1>4, <1>5, <1>6, <1>7, <1>8, <1>9, Zenon DEF Downlink

\* The control thread leaves senders, callback and poll to finish.
LEMMA ControllerFrame == ASSUME Controller PROVE UNCHANGED <<tx, px, uc, np, missed>>
<1> USE DEF txvars, fcvars, rxvars, ctvars
<1>1. CASE mhi_netdev_pm_release
  BY <1>1, Zenon DEF mhi_netdev_pm_release, At, Goto
<1>2. CASE napi_disable
  BY <1>2, Zenon DEF napi_disable, At, Goto
<1>3. CASE ClearFlow
  BY <1>3, Zenon DEF ClearFlow, CancelSync, At, Goto
<1>4. CASE mhi_unprepare_from_transfer
  BY <1>4, Zenon DEF mhi_unprepare_from_transfer, At, Goto
<1>5. CASE PrepareChannels
  BY <1>5, Zenon DEF PrepareChannels, Spend, At, Goto
<1>6. CASE EnableIface
  BY <1>6, Zenon DEF EnableIface, SetEnabled, At, Goto
<1>7. CASE mhi_netdev_pm_hold
  BY <1>7, Zenon DEF mhi_netdev_pm_hold, At, Goto
<1>8. CASE FirstRefill
  BY <1>8, Zenon DEF FirstRefill, mhi_netdev_alloc_skb, Spend, At, Goto
<1>9. CASE napi_enable
  BY <1>9, Zenon DEF napi_enable, At, Goto
<1>10. CASE WakeAfterReset
  BY <1>10, Zenon DEF WakeAfterReset, WakeVnds, Live, At
<1>11. CASE mhi_netdev_probe
  BY <1>11, Zenon DEF mhi_netdev_probe, At
<1>12. CASE mhi_netdev_remove
  BY <1>12, Zenon DEF mhi_netdev_remove, SetEnabled, At, Goto
<1>13. CASE CancelFlow
  BY <1>13, Zenon DEF CancelFlow, CancelSync, At, Goto
<1>14. CASE rmnet_vnd_unregister_device
  BY <1>14, Zenon DEF rmnet_vnd_unregister_device, Live, At, Goto
<1>15. CASE UnregisterParent
  BY <1>15, Zenon DEF UnregisterParent, At, Goto
<1>16. CASE flush_delayed_work
  BY <1>16, Zenon DEF flush_delayed_work, At, Goto
<1>17. CASE ResetStart
  BY <1>17, Zenon DEF ResetStart, Quiet, SetEnabled, Spend
<1>18. CASE mhi_reset_chan
  BY <1>18, Zenon DEF mhi_reset_chan, At
<1> QED BY <1>1, <1>2, <1>3, <1>4, <1>5, <1>6, <1>7, <1>8, <1>9, <1>10, <1>11, <1>12, <1>13, <1>14, <1>15, <1>16, <1>17, <1>18, Zenon DEF Controller

---------------------------------------------------------------------------
(* What some of the steps do.                                              *)

\* A chain without packets.
LEMMA NoPackets == <<>> \in PacketQ
BY DEF PacketQ

\* A flow command names one of the muxes.
LEMMA FlowPacket == ASSUME NEW p \in Packets, p.flow PROVE p.mux \in Muxes
<1>1. CASE p \in Cmds
  BY <1>1, Zenon DEF Cmds
<1>2. CASE p = Data
  BY <1>2, Zenon DEF Data
<1> QED BY <1>1, <1>2 DEF Packets

\* rmnet_data_map_command takes a packet off the chain.
LEMMA MapTakes == ASSUME RxTypes, rmnet_data_map_command
  PROVE Head(chain) \in Packets /\ (Head(chain).flow => Head(chain).mux \in Muxes)
<1>1. Head(chain) \in Packets
  BY HeadQ, Zenon DEF RxTypes, PacketQ, rmnet_data_map_command
<1> QED BY <1>1, FlowPacket

\* A flow command is marked, armed, scheduled and answered, in that order.
LEMMA FlowCommandPlace == ASSUME RxTypes, FlowCommand
  PROVE np.pc \in {"mark", "arm", "schedule", "flow"} /\ np.pc' \in {"arm", "schedule", "flow", "rx"}
<1> USE DEF RxTypes, Poll
<1>1. CASE FlowMark
  BY <1>1, Zenon DEF FlowMark
<1>2. CASE FlowArm
  BY <1>2, Zenon DEF FlowArm
<1>3. CASE FlowSchedule
  BY <1>3, Zenon DEF FlowSchedule
<1>4. CASE rmnet_data_vnd_do_flow_control
  BY <1>4, Zenon DEF rmnet_data_vnd_do_flow_control
<1> QED BY <1>1, <1>2, <1>3, <1>4, Zenon DEF FlowCommand

\* Unregistering the vnds.
LEMMA UnregisterPlace == ASSUME CtTypes, rmnet_vnd_unregister_device
  PROVE /\ ct.pc = "unregister" /\ ct.pc' \in {"unregister", "napi"} /\ ct.job' = ct.job
        /\ chain' = chain \/ chain' = <<>>
        /\ UNCHANGED <<enabled, pmRef, usage, chan, dlq, filled, napi, missed, np, alw>>
        /\ UNCHANGED <<txvars, fcvars, stale>>
<1>1. ct' = ct \/ ct' = [ct EXCEPT !.pc = "napi"]
  BY Zenon DEF rmnet_vnd_unregister_device, Goto
<1>2. ct.pc = "unregister"
  BY Zenon DEF rmnet_vnd_unregister_device, At
<1>3. ct.pc' \in {"unregister", "napi"} /\ ct.job' = ct.job
  BY <1>1, <1>2, Zenon DEF CtTypes
<1> QED BY <1>2, <1>3, Zenon DEF rmnet_vnd_unregister_device

\* Starting the channels, or failing to in a reset.
LEMMA PreparePlace == ASSUME CtTypes, PrepareChannels
  PROVE /\ ct.pc = "prep" /\ ct.job' = ct.job
        /\ \/ chan' = "up" /\ ct.pc' = "enable"
           \/ chan' = "down" /\ ct.pc' = "failed" /\ ct.job = "reset"
        /\ UNCHANGED <<enabled, pmRef, usage, mp, txvars, fcvars, rxvars, stale>>
<1>1. \/ chan' = "up" /\ ct' = [ct EXCEPT !.pc = "enable"]
      \/ chan' = "down" /\ ct' = [ct EXCEPT !.pc = "failed"] /\ ct.job = "reset"
  BY Zenon DEF PrepareChannels, Goto
<1>2. ct.pc = "prep" /\ UNCHANGED <<enabled, pmRef, usage, mp, txvars, fcvars, rxvars, stale>>
  BY Zenon DEF PrepareChannels, At
<1>3. CASE chan' = "up" /\ ct' = [ct EXCEPT !.pc = "enable"]
  BY <1>2, <1>3, Zenon DEF CtTypes
<1>4. CASE chan' = "down" /\ ct' = [ct EXCEPT !.pc = "failed"] /\ ct.job = "reset"
  BY <1>2, <1>4, Zenon DEF CtTypes
<1> QED BY <1>1, <1>3, <1>4

\* A received buffer takes no descriptor that was free.
LEMMA ReceiveFree == ASSUME RxTypes, ReceiveData \/ ReceiveFlow
  PROVE DlFree' = DlFree /\ (napi = "idle" => napi' = "sched") /\ (napi # "idle" => napi' = napi)
        /\ UNCHANGED <<np, alw>>
<1>1. PICK p \in Packets, b \in {"data", "cmd"} : Receive(p, b)
  BY Zenon DEF ReceiveData, ReceiveFlow, Packets
<1>2. Len(filled') = Len(filled) + 1 /\ Len(filled) \in Nat
  BY <1>1, AppendQ DEF Receive, RxTypes, PacketQ
<1>3. dlq' = dlq - 1 /\ dlq \in Nat
  BY <1>1, Zenon DEF Receive, RxTypes
<1>4. DlFree' = DlFree
  BY <1>2, <1>3, NetdevAssumption DEF DlFree
<1> QED BY <1>1, <1>4, Zenon DEF Receive, mhi_netdev_status_cb

\* A top-up that succeeds leaves no descriptor free.
LEMMA RefillFills ==
  ASSUME RxTypes, filled' = filled, chan = "up", mhi_netdev_alloc_skb(TRUE) PROVE ~(DlFree' > 0)
<1>1. dlq' = dlq + DlFree
  BY Zenon DEF mhi_netdev_alloc_skb
<1>2. Len(filled) \in Nat /\ dlq \in Nat
  BY DEF RxTypes, PacketQ
<1> QED BY <1>1, <1>2, NetdevAssumption DEF DlFree

\* The types of the senders' state.
LEMMA TxTypesStep == ASSUME TxTypes, FcTypes, RxTypes, CtTypes, Polling, NNext PROVE
  TxTypes'
<1> USE DEF TxTypes, Senders, txvars, fcvars, rxvars, ctvars
<1>1. ASSUME NEW m \in Muxes, rmnet_vnd_start_xmit(m) PROVE TxTypes'
  BY <1>1, Zenon DEF rmnet_vnd_start_xmit
<1>2. ASSUME NEW m \in Muxes, VndBusy(m) PROVE TxTypes'
  BY <1>2, Zenon DEF VndBusy
<1>3. ASSUME NEW m \in Muxes, rmnet_vnd_tx_agg(m) PROVE TxTypes'
  BY <1>3 DEF rmnet_vnd_tx_agg, Spend
<1>4. CASE mhi_netdev_xmit
  BY <1>4 DEF mhi_netdev_xmit
<1>5. CASE StopQueues
  BY <1>5, Zenon DEF StopQueues, StopVnds, Live
<1>6. CASE QueueUplink
  <2>1. ul' \in 0 .. UlRing
    <3>1. ul' = ul \/ (UlRing - ul > 0 /\ ul' = ul + 1)
      BY <1>6, Zenon DEF QueueUplink, UlFree
    <3> QED BY <3>1, Sizes
  <2>2. (pstop \in BOOLEAN /\ vstop \subseteq Muxes /\ pq \in Nat /\ tx \in Senders
        /\ px \in {"idle", "stop", "queue"})'
    BY <1>6, Zenon DEF QueueUplink, UlFree
  <2>3. uc' \in Walk
    BY <1>6, Zenon DEF QueueUplink, UlFree
  <2> QED BY <2>1, <2>2, <2>3
<1>7. CASE mhi_netdev_xfer_ul_cb
  <2>1. ul' \in 0 .. UlRing
    <3>1. ul > 0 /\ ul' = ul - 1
      BY <1>7, Zenon DEF mhi_netdev_xfer_ul_cb
    <3> QED BY <3>1, Sizes
  <2>2. uc' \in Walk
    BY <1>7, Sizes, Zenon DEF Walk, mhi_netdev_xfer_ul_cb, UcIdle, UlFree
  <2> QED BY <1>7, <2>1, <2>2 DEF mhi_netdev_xfer_ul_cb, UcIdle, UlFree
<1>8. CASE WakeParent
  <2>1. uc' \in Walk
    BY <1>8, Sizes, Zenon DEF Walk, WakeParent
  <2> QED BY <1>8, <2>1 DEF WakeParent
<1>9. CASE VisitVnd
  <2>1. uc' \in Walk
    <3>1. CASE uc.todo = {}
      BY <1>9, <3>1, Sizes DEF Walk, VisitVnd, UcIdle
    <3>2. CASE uc.todo # {}
      <4>1. uc.todo \in SUBSET Muxes
        BY Zenon DEF Walk
      <4>2. Least(uc.todo) \in uc.todo
        BY <3>2, <4>1, LeastMux, Zenon
      <4> QED BY <1>9, <3>2, <4>1, <4>2 DEF Walk, VisitVnd, UcIdle
    <3> QED BY <3>1, <3>2
  <2> QED BY <1>9, <2>1 DEF VisitVnd, UcIdle
<1>10. CASE WakeVnd
  <2>1. uc' \in Walk
    BY <1>10, Sizes, Zenon DEF Walk, WakeVnd, WakeVnds
  <2> QED BY <1>10, <2>1 DEF WakeVnd, WakeVnds
<1>11. CASE FlowMark
  BY <1>11, Zenon DEF FlowMark
<1>12. CASE FlowArm
  BY <1>12, Zenon DEF FlowArm
<1>13. CASE FlowSchedule
  BY <1>13, Zenon DEF FlowSchedule
<1>14. CASE rmnet_data_vnd_do_flow_control
  <2>1. vstop' \subseteq Muxes
    BY <1>14, Zenon DEF Polling, rmnet_data_vnd_do_flow_control, WakeVnds
  <2> QED BY <1>14, <2>1 DEF rmnet_data_vnd_do_flow_control, WakeVnds
<1>15. CASE mhi_netdev_fc_timeout
  BY <1>15, Zenon DEF mhi_netdev_fc_timeout
<1>16. CASE FcZero
  BY <1>16, Zenon DEF FcZero
<1>17. CASE ForceOpen
  BY <1>17, Zenon DEF ForceOpen, WakeVnds
<1>18. CASE Downlink
  BY <1>18, DownlinkFrame, Zenon
<1>19. CASE mhi_netdev_pm_release
  BY <1>19, Zenon DEF mhi_netdev_pm_release, At, Goto
<1>20. CASE napi_disable
  BY <1>20, Zenon DEF napi_disable, At, Goto
<1>21. CASE ClearFlow
  BY <1>21, Zenon DEF ClearFlow, CancelSync, At, Goto
<1>22. CASE mhi_unprepare_from_transfer
  <2>1. ul' \in 0 .. UlRing
    BY <1>22, Sizes DEF mhi_unprepare_from_transfer, At, Goto
  <2>2. (pstop \in BOOLEAN /\ vstop \subseteq Muxes /\ pq \in Nat /\ tx \in Senders
        /\ px \in {"idle", "stop", "queue"})'
    BY <1>22, Zenon DEF mhi_unprepare_from_transfer, At, Goto
  <2>3. uc' \in Walk
    BY <1>22, Zenon DEF mhi_unprepare_from_transfer, At, Goto
  <2> QED BY <2>1, <2>2, <2>3
<1>23. CASE PrepareChannels
  BY <1>23, Zenon DEF PrepareChannels, Spend, At, Goto
<1>24. CASE EnableIface
  BY <1>24, Zenon DEF EnableIface, SetEnabled, At, Goto
<1>25. CASE mhi_netdev_pm_hold
  BY <1>25, Zenon DEF mhi_netdev_pm_hold, At, Goto
<1>26. CASE FirstRefill
  BY <1>26, Zenon DEF FirstRefill, mhi_netdev_alloc_skb, Spend, At, Goto
<1>27. CASE napi_enable
  BY <1>27, Zenon DEF napi_enable, At, Goto
<1>28. CASE WakeAfterReset
  BY <1>28, Zenon DEF WakeAfterReset, WakeVnds, Live, At
<1>29. CASE mhi_netdev_probe
  BY <1>29, Zenon DEF mhi_netdev_probe, At
<1>30. CASE mhi_netdev_remove
  BY <1>30, Zenon DEF mhi_netdev_remove, SetEnabled, At, Goto
<1>31. CASE CancelFlow
  BY <1>31, Zenon DEF CancelFlow, CancelSync, At, Goto
<1>32. CASE rmnet_vnd_unregister_device
  BY <1>32, Zenon DEF rmnet_vnd_unregister_device, Live, At, Goto
<1>33. CASE UnregisterParent
  BY <1>33, Zenon DEF UnregisterParent, At, Goto
<1>34. CASE flush_delayed_work
  BY <1>34, Zenon DEF flush_delayed_work, At, Goto
<1>35. CASE ResetStart
  BY <1>35, Zenon DEF ResetStart, Quiet, SetEnabled, Spend
<1>36. CASE mhi_reset_chan
  <2>1. ul' \in 0 .. UlRing
    BY <1>36, Sizes DEF mhi_reset_chan, At
  <2>2. (pstop \in BOOLEAN /\ vstop \subseteq Muxes /\ pq \in Nat /\ tx \in Senders
        /\ px \in {"idle", "stop", "queue"})'
    BY <1>36, Zenon DEF mhi_reset_chan, At
  <2>3. uc' \in Walk
    BY <1>36, Zenon DEF mhi_reset_chan, At
  <2> QED BY <2>1, <2>2, <2>3
<1> QED
  BY <1>1, <1>2, <1>3, <1>4, <1>5, <1>6, <1>7, <1>8, <1>9, <1>10, <1>11, <1>12, <1>13, <1>14,
     <1>15, <1>16, <1>17, <1>18, <1>19, <1>20, <1>21, <1>22, <1>23, <1>24, <1>25, <1>26,
     <1>27, <1>28, <1>29, <1>30, <1>31, <1>32, <1>33, <1>34, <1>35, <1>36, NextSteps, Zenon
     DEF Uplink, FlowCommand, Deadlines, Controller

\* The types of flow control.
LEMMA FcTypesStep == ASSUME TxTypes, FcTypes, RxTypes, CtTypes, Polling, NNext PROVE
  FcTypes'
<1> USE DEF FcTypes, Work, txvars, fcvars, rxvars, ctvars
<1>1. CASE Uplink
  BY <1>1, UplinkFrame, Zenon
<1>2. CASE FlowMark
  BY <1>2, Zenon DEF FlowMark, RxTypes, Poll, Polling
<1>3. CASE FlowArm
  BY <1>3, Zenon DEF FlowArm
<1>4. CASE FlowSchedule
  BY <1>4, Zenon DEF FlowSchedule
<1>5. CASE rmnet_data_vnd_do_flow_control
  BY <1>5, Zenon DEF rmnet_data_vnd_do_flow_control, WakeVnds
<1>6. CASE mhi_netdev_fc_timeout
  BY <1>6, Zenon DEF mhi_netdev_fc_timeout
<1>7. CASE FcZero
  BY <1>7, Zenon DEF FcZero
<1>8. CASE ForceOpen
  BY <1>8, Zenon DEF ForceOpen, WakeVnds
<1>9. CASE Downlink
  BY <1>9, DownlinkFrame, Zenon
<1>10. CASE mhi_netdev_pm_release
  BY <1>10, Zenon DEF mhi_netdev_pm_release, At, Goto
<1>11. CASE napi_disable
  BY <1>11, Zenon DEF napi_disable, At, Goto
<1>12. CASE ClearFlow
  BY <1>12, Zenon DEF ClearFlow, CancelSync, At, Goto
<1>13. CASE mhi_unprepare_from_transfer
  BY <1>13, Zenon DEF mhi_unprepare_from_transfer, At, Goto
<1>14. CASE PrepareChannels
  BY <1>14, Zenon DEF PrepareChannels, Spend, At, Goto
<1>15. CASE EnableIface
  BY <1>15, Zenon DEF EnableIface, SetEnabled, At, Goto
<1>16. CASE mhi_netdev_pm_hold
  BY <1>16, Zenon DEF mhi_netdev_pm_hold, At, Goto
<1>17. CASE FirstRefill
  BY <1>17, Zenon DEF FirstRefill, mhi_netdev_alloc_skb, Spend, At, Goto
<1>18. CASE napi_enable
  BY <1>18, Zenon DEF napi_enable, At, Goto
<1>19. CASE WakeAfterReset
  BY <1>19, Zenon DEF WakeAfterReset, WakeVnds, Live, At
<1>20. CASE mhi_netdev_probe
  BY <1>20, Zenon DEF mhi_netdev_probe, At
<1>21. CASE mhi_netdev_remove
  BY <1>21, Zenon DEF mhi_netdev_remove, SetEnabled, At, Goto
<1>22. CASE CancelFlow
  BY <1>22, Zenon DEF CancelFlow, CancelSync, At, Goto
<1>23. CASE rmnet_vnd_unregister_device
  BY <1>23, Zenon DEF rmnet_vnd_unregister_device, Live, At, Goto
<1>24. CASE UnregisterParent
  BY <1>24, Zenon DEF UnregisterParent, At, Goto
<1>25. CASE flush_delayed_work
  BY <1>25, Zenon DEF flush_delayed_work, At, Goto
<1>26. CASE ResetStart
  BY <1>26, Zenon DEF ResetStart, Quiet, SetEnabled, Spend
<1>27. CASE mhi_reset_chan
  BY <1>27, Zenon DEF mhi_reset_chan, At
<1> QED
  BY <1>1, <1>2, <1>3, <1>4, <1>5, <1>6, <1>7, <1>8, <1>9, <1>10, <1>11, <1>12, <1>13, <1>14,
     <1>15, <1>16, <1>17, <1>18, <1>19, <1>20, <1>21, <1>22, <1>23, <1>24, <1>25, <1>26,
     <1>27, NextSteps, Zenon DEF FlowCommand, Deadlines, Controller

\* The types of the control thread's state.
LEMMA CtTypesStep == ASSUME TxTypes, FcTypes, RxTypes, CtTypes, NNext PROVE CtTypes'
<1> USE DEF CtTypes, Places, Jobs, Vnds, txvars, fcvars, rxvars, ctvars
<1>1. CASE Uplink
  BY <1>1, UplinkFrame, Zenon
<1>2. CASE FlowCommand
  BY <1>2, FlowCommandFrame, Zenon
<1>3. CASE Deadlines
  BY <1>3, DeadlinesFrame, Zenon
<1>4. CASE Downlink
  BY <1>4, DownlinkFrame, Zenon
<1>5. CASE mhi_netdev_pm_release
  <2>1. usage' \in Int
    BY <1>5 DEF mhi_netdev_pm_release, At, Goto
  <2> QED BY <1>5, <2>1, Zenon DEF mhi_netdev_pm_release, At, Goto
<1>6. CASE napi_disable
  BY <1>6, Zenon DEF napi_disable, At, Goto
<1>7. CASE ClearFlow
  BY <1>7, Zenon DEF ClearFlow, CancelSync, At, Goto
<1>8. CASE mhi_unprepare_from_transfer
  BY <1>8, Zenon DEF mhi_unprepare_from_transfer, At, Goto
<1>9. CASE PrepareChannels
  BY <1>9, Zenon DEF PrepareChannels, Spend, At, Goto
<1>10. CASE EnableIface
  BY <1>10, Zenon DEF EnableIface, SetEnabled, At, Goto
<1>11. CASE mhi_netdev_pm_hold
  BY <1>11 DEF mhi_netdev_pm_hold, At, Goto
<1>12. CASE FirstRefill
  BY <1>12, Zenon DEF FirstRefill, mhi_netdev_alloc_skb, Spend, At, Goto
<1>13. CASE napi_enable
  BY <1>13, Zenon DEF napi_enable, At, Goto
<1>14. CASE WakeAfterReset
  BY <1>14, Zenon DEF WakeAfterReset, WakeVnds, Live, At
<1>15. CASE mhi_netdev_probe
  BY <1>15 DEF mhi_netdev_probe, At
<1>16. CASE mhi_netdev_remove
  BY <1>16, Zenon DEF mhi_netdev_remove, SetEnabled, At, Goto
<1>17. CASE CancelFlow
  BY <1>17, Zenon DEF CancelFlow, CancelSync, At, Goto
<1>18. CASE rmnet_vnd_unregister_device
  BY <1>18, Zenon DEF rmnet_vnd_unregister_device, Live, At, Goto
<1>19. CASE UnregisterParent
  BY <1>19, Zenon DEF UnregisterParent, At, Goto
<1>20. CASE flush_delayed_work
  BY <1>20, Zenon DEF flush_delayed_work, At, Goto
<1>21. CASE ResetStart
  BY <1>21, Zenon DEF ResetStart, Quiet, SetEnabled, Spend
<1>22. CASE mhi_reset_chan
  BY <1>22, Zenon DEF mhi_reset_chan, At
<1> QED
  BY <1>1, <1>2, <1>3, <1>4, <1>5, <1>6, <1>7, <1>8, <1>9, <1>10, <1>11, <1>12, <1>13, <1>14,
     <1>15, <1>16, <1>17, <1>18, <1>19, <1>20, <1>21, <1>22, NextSteps, Zenon DEF Controller

\* The free descriptors of the receive ring.
LEMMA DlLeft == ASSUME RxTypes PROVE DlFree \in Nat /\ dlq + DlFree + Len(filled) = DlRing
<1>1. Len(filled) \in Nat
  BY DEF RxTypes, PacketQ
<1> QED BY <1>1, NetdevAssumption DEF RxTypes, DlFree

\* The types of the downlink's state.
LEMMA RxTypesStep == ASSUME TxTypes, FcTypes, RxTypes, CtTypes, Polling, NNext PROVE
  RxTypes'
<1> USE DEF RxTypes, txvars, fcvars, rxvars, ctvars
<1>1. CASE Uplink
  BY <1>1, UplinkFrame, Zenon
<1>2. CASE FlowMark
  BY <1>2, Zenon DEF FlowMark, Poll
<1>3. CASE FlowArm
  BY <1>3, Zenon DEF FlowArm, Poll
<1>4. CASE FlowSchedule
  BY <1>4, Zenon DEF FlowSchedule, Poll
<1>5. CASE rmnet_data_vnd_do_flow_control
  <2>1. np' \in Poll
    BY <1>5, Zenon DEF Poll, Packets, rmnet_data_vnd_do_flow_control, WakeVnds
  <2> QED BY <1>5, <2>1, Zenon DEF rmnet_data_vnd_do_flow_control, WakeVnds
<1>6. CASE Deadlines
  BY <1>6, DeadlinesFrame, Zenon
<1>7. CASE ReceiveData
  <2>1. PICK p \in Packets : dlq > 0 /\ dlq' = dlq - 1 /\ filled' = Append(filled, p)
    BY <1>7, Zenon DEF Packets, ReceiveData, Receive, mhi_netdev_status_cb, Spend
  <2>2. filled' \in PacketQ /\ Len(filled') = Len(filled) + 1 /\ Len(filled) \in Nat
    BY <2>1, AppendQ DEF PacketQ
  <2>3. dlq' \in Nat /\ dlq' + Len(filled') =< DlRing
    BY <2>1, <2>2, NetdevAssumption
  <2>4. napi' \in {"off", "idle", "sched", "poll"} /\ missed' \in BOOLEAN
    BY <1>7, Zenon DEF ReceiveData, Receive, mhi_netdev_status_cb, Spend
  <2> QED BY <1>7, <2>2, <2>3, <2>4, Zenon DEF ReceiveData, Receive, mhi_netdev_status_cb, Spend
<1>8. CASE ReceiveFlow
  <2>1. PICK p \in Packets : dlq > 0 /\ dlq' = dlq - 1 /\ filled' = Append(filled, p)
    BY <1>8, Zenon DEF Packets, ReceiveFlow, Receive, mhi_netdev_status_cb, Spend
  <2>2. filled' \in PacketQ /\ Len(filled') = Len(filled) + 1 /\ Len(filled) \in Nat
    BY <2>1, AppendQ DEF PacketQ
  <2>3. dlq' \in Nat /\ dlq' + Len(filled') =< DlRing
    BY <2>1, <2>2, NetdevAssumption
  <2>4. napi' \in {"off", "idle", "sched", "poll"} /\ missed' \in BOOLEAN
    BY <1>8, Zenon DEF ReceiveFlow, Receive, mhi_netdev_status_cb, Spend
  <2> QED BY <1>8, <2>2, <2>3, <2>4, Zenon DEF ReceiveFlow, Receive, mhi_netdev_status_cb, Spend
<1>9. CASE mhi_netdev_poll
  <2> DEFINE n == IF Len(filled) < Budget THEN Len(filled) ELSE Budget
  <2>1. Len(filled) \in Nat /\ n \in 0 .. Len(filled)
    BY NetdevAssumption DEF PacketQ
  <2>2. np' = [Idle EXCEPT !.pc = "rx", !.took = n] /\ chain' = chain \o SubSeq(filled, 1, n)
        /\ filled' = SubSeq(filled, n + 1, Len(filled)) /\ napi' = "poll" /\ missed' = FALSE
        /\ dlq' = dlq /\ alw' = alw
    BY <1>9, Zenon DEF mhi_netdev_poll
  <2> HIDE DEF n
  <2>3. chain' \in PacketQ
    BY <2>1, <2>2, TakeQ, Zenon DEF PacketQ
  <2>4. filled' \in PacketQ /\ Len(filled') = Len(filled) - n
    BY <2>1, <2>2, DropQ, Zenon DEF PacketQ
  <2>5. dlq \in Nat /\ dlq + Len(filled) =< DlRing /\ DlRing \in Nat
    BY NetdevAssumption, Zenon
  <2>6. np' = [pc |-> "rx", cmd |-> Data, old |-> {}, took |-> n]
    BY <2>2, Zenon DEF Idle
  <2> HIDE DEF RxTypes
  <2>a. n \in Nat
    BY <2>1
  <2>7. np' \in Poll
    BY <2>6, <2>a, Zenon DEF Poll, Packets
  <2>8. dlq' + Len(filled') =< DlRing
    BY <2>1, <2>2, <2>4, <2>5
  <2> QED BY <2>2, <2>3, <2>4, <2>5, <2>7, <2>8, Zenon DEF RxTypes
<1>10. CASE rmnet_data_map_command
  <2>1. Head(chain) \in Packets /\ chain' \in PacketQ
    BY <1>10, HeadQ, Zenon DEF PacketQ, rmnet_data_map_command
  <2>2. np' \in Poll
    BY <1>10, <2>1, Zenon DEF Poll, FcTypes, rmnet_data_map_command
  <2> QED BY <1>10, <2>1, <2>2, Zenon DEF rmnet_data_map_command
<1>11. CASE PollRefill
  <2>1. DlFree \in Nat
    BY DlLeft, Zenon
  <2>2. dlq' \in Nat /\ dlq' + Len(filled) =< DlRing
    BY <1>11, <2>1, DlLeft DEF PollRefill, mhi_netdev_alloc_skb, Spend
  <2>3. alw' \in Refill /\ np' \in Poll
    BY <1>11, Zenon DEF Refill, Poll, PollRefill, mhi_netdev_alloc_skb, Spend
  <2> QED BY <1>11, <2>2, <2>3, Zenon DEF PollRefill, mhi_netdev_alloc_skb, Spend
<1>12. CASE napi_complete
  <2>1. np' \in Poll
    BY <1>12, Zenon DEF Poll, Packets, napi_complete, Idle
  <2> QED BY <1>12, <2>1, Zenon DEF napi_complete, Idle
<1>13. CASE mhi_netdev_alloc_work
  BY <1>13, Zenon DEF mhi_netdev_alloc_work, Refill
<1>14. CASE WorkRefill
  <2>1. DlFree \in Nat
    BY DlLeft, Zenon
  <2>2. dlq' \in Nat /\ dlq' + Len(filled) =< DlRing
    BY <1>14, <2>1, DlLeft DEF WorkRefill, mhi_netdev_alloc_skb, Spend
  <2>3. alw' \in Refill
    BY <1>14, Zenon DEF Refill, WorkRefill, mhi_netdev_alloc_skb, Spend
  <2> QED BY <1>14, <2>2, <2>3, Zenon DEF WorkRefill, mhi_netdev_alloc_skb, Spend
<1>15. CASE WorkRetry
  BY <1>15, Zenon DEF WorkRetry, Refill
<1>16. CASE mhi_netdev_pm_release
  BY <1>16, Zenon DEF mhi_netdev_pm_release, At, Goto
<1>17. CASE napi_disable
  BY <1>17, Zenon DEF napi_disable, At, Goto
<1>18. CASE ClearFlow
  BY <1>18, Zenon DEF ClearFlow, CancelSync, At, Goto
<1>19. CASE mhi_unprepare_from_transfer
  <2>1. filled' \in PacketQ /\ dlq' \in Nat /\ dlq' + Len(filled') =< DlRing
    BY <1>19, NetdevAssumption DEF PacketQ, mhi_unprepare_from_transfer, At, Goto
  <2> QED BY <1>19, <2>1, Zenon DEF mhi_unprepare_from_transfer, At, Goto
<1>20. CASE PrepareChannels
  BY <1>20, Zenon DEF PrepareChannels, Spend, At, Goto
<1>21. CASE EnableIface
  BY <1>21, Zenon DEF EnableIface, SetEnabled, At, Goto
<1>22. CASE mhi_netdev_pm_hold
  BY <1>22, Zenon DEF mhi_netdev_pm_hold, At, Goto
<1>23. CASE FirstRefill
  <2>1. DlFree \in Nat
    BY DlLeft, Zenon
  <2>2. dlq' \in Nat /\ dlq' + Len(filled) =< DlRing
    BY <1>23, <2>1, DlLeft DEF FirstRefill, mhi_netdev_alloc_skb, Spend, At, Goto
  <2>3. alw' \in Refill
    BY <1>23, Zenon DEF Refill, FirstRefill, mhi_netdev_alloc_skb, Spend, At, Goto
  <2> QED BY <1>23, <2>2, <2>3, Zenon DEF FirstRefill, mhi_netdev_alloc_skb, Spend, At, Goto
<1>24. CASE napi_enable
  BY <1>24, Zenon DEF napi_enable, At, Goto
<1>25. CASE WakeAfterReset
  BY <1>25, Zenon DEF WakeAfterReset, WakeVnds, Live, At
<1>26. CASE mhi_netdev_probe
  BY <1>26, Zenon DEF mhi_netdev_probe, At
<1>27. CASE mhi_netdev_remove
  BY <1>27, Zenon DEF mhi_netdev_remove, SetEnabled, At, Goto
<1>28. CASE CancelFlow
  BY <1>28, Zenon DEF CancelFlow, CancelSync, At, Goto
<1>29. CASE rmnet_vnd_unregister_device
  <2>1. chain' = chain \/ chain' = <<>>
    BY <1>29, Zenon DEF rmnet_vnd_unregister_device, Live, At, Goto
  <2>2. chain' \in PacketQ
    BY <2>1, NoPackets, Zenon
  <2> QED BY <1>29, <2>2, Zenon DEF rmnet_vnd_unregister_device, Live, At, Goto
<1>30. CASE UnregisterParent
  BY <1>30, Zenon DEF UnregisterParent, At, Goto, Refill
<1>31. CASE flush_delayed_work
  BY <1>31, Zenon DEF flush_delayed_work, At, Goto
<1>32. CASE ResetStart
  BY <1>32, Zenon DEF ResetStart, Quiet, SetEnabled, Spend
<1>33. CASE mhi_reset_chan
  <2>1. filled' \in PacketQ /\ dlq' \in Nat /\ dlq' + Len(filled') =< DlRing
    BY <1>33, NetdevAssumption DEF PacketQ, mhi_reset_chan, At
  <2> QED BY <1>33, <2>1, Zenon DEF mhi_reset_chan, At
<1> QED
  BY <1>1, <1>2, <1>3, <1>4, <1>5, <1>6, <1>7, <1>8, <1>9, <1>10, <1>11, <1>12, <1>13, <1>14,
     <1>15, <1>16, <1>17, <1>18, <1>19, <1>20, <1>21, <1>22, <1>23, <1>24, <1>25, <1>26,
     <1>27, <1>28, <1>29, <1>30, <1>31, <1>32, <1>33, NextSteps, Zenon DEF FlowCommand,
     Downlink, Controller

\* Where the control thread is, and what is up.
LEMMA StageStep == ASSUME FcTypes, RxTypes, CtTypes, Stage, NNext PROVE Stage'
<1> USE DEF Stage, Places, Jobs, txvars, fcvars, rxvars, ctvars
<1>1. CASE Uplink
  BY <1>1, UplinkFrame
<1>2. CASE FlowCommand
  BY <1>2, FlowCommandFrame
<1>3. CASE Deadlines
  BY <1>3, DeadlinesFrame
<1>4. CASE ReceiveData
  BY <1>4, Zenon DEF ReceiveData, Receive, mhi_netdev_status_cb, Spend
<1>5. CASE ReceiveFlow
  BY <1>5 DEF ReceiveFlow, Receive, mhi_netdev_status_cb, Spend
<1>6. CASE mhi_netdev_poll
  BY <1>6 DEF mhi_netdev_poll, Idle
<1>7. CASE rmnet_data_map_command
  BY <1>7, Zenon DEF rmnet_data_map_command
<1>8. CASE PollRefill
  BY <1>8, Zenon DEF PollRefill, mhi_netdev_alloc_skb, Spend
<1>9. CASE napi_complete
  BY <1>9, Zenon DEF napi_complete, Idle
<1>10. CASE mhi_netdev_alloc_work
  BY <1>10, Zenon DEF mhi_netdev_alloc_work
<1>11. CASE WorkRefill
  BY <1>11, Zenon DEF WorkRefill, mhi_netdev_alloc_skb, Spend
<1>12. CASE WorkRetry
  BY <1>12, Zenon DEF WorkRetry
<1>13. CASE mhi_netdev_pm_release
  BY <1>13 DEF mhi_netdev_pm_release, At, Goto
<1>14. CASE napi_disable
  BY <1>14 DEF napi_disable, At, Goto
<1>15. CASE ClearFlow
  BY <1>15 DEF ClearFlow, CancelSync, At, Goto
<1>16. CASE mhi_unprepare_from_transfer
  BY <1>16 DEF mhi_unprepare_from_transfer, At, Goto
<1>17. CASE PrepareChannels
  <2>1. CASE chan' = "up" /\ Goto("enable")
    BY <1>17, <2>1, Zenon DEF CtTypes, PrepareChannels, Spend, At, Goto
  <2>2. CASE ct.job = "reset" /\ chan' = "down" /\ Goto("failed")
    BY <1>17, <2>2, Zenon DEF CtTypes, PrepareChannels, Spend, At, Goto
  <2> QED BY <1>17, <2>1, <2>2, Zenon DEF PrepareChannels
<1>18. CASE EnableIface
  BY <1>18 DEF EnableIface, SetEnabled, At, Goto
<1>19. CASE mhi_netdev_pm_hold
  BY <1>19 DEF mhi_netdev_pm_hold, At, Goto
<1>20. CASE FirstRefill
  BY <1>20 DEF FirstRefill, mhi_netdev_alloc_skb, Spend, At, Goto
<1>21. CASE napi_enable
  BY <1>21 DEF napi_enable, At, Goto
<1>22. CASE WakeAfterReset
  BY <1>22, Zenon DEF WakeAfterReset, WakeVnds, Live, At
<1>23. CASE mhi_netdev_probe
  BY <1>23 DEF mhi_netdev_probe, At
<1>24. CASE mhi_netdev_remove
  BY <1>24 DEF mhi_netdev_remove, SetEnabled, At, Goto
<1>25. CASE CancelFlow
  BY <1>25 DEF CancelFlow, CancelSync, At, Goto
<1>26. CASE rmnet_vnd_unregister_device
  <2>1. /\ ct' = ct \/ ct' = [ct EXCEPT !.pc = "napi"]
        /\ UNCHANGED <<enabled, pmRef, usage, chan, filled>> /\ ct.pc = "unregister"
    BY <1>26, Zenon DEF rmnet_vnd_unregister_device, Live, At, Goto
  <2> QED BY <2>1 DEF CtTypes
<1>27. CASE UnregisterParent
  BY <1>27 DEF UnregisterParent, At, Goto
<1>28. CASE flush_delayed_work
  BY <1>28 DEF flush_delayed_work, At, Goto
<1>29. CASE ResetStart
  BY <1>29, Zenon DEF ResetStart, Quiet, SetEnabled, Spend
<1>30. CASE mhi_reset_chan
  BY <1>30, Zenon DEF mhi_reset_chan, At
<1> QED
  BY <1>1, <1>2, <1>3, <1>4, <1>5, <1>6, <1>7, <1>8, <1>9, <1>10, <1>11, <1>12, <1>13, <1>14,
     <1>15, <1>16, <1>17, <1>18, <1>19, <1>20, <1>21, <1>22, <1>23, <1>24, <1>25, <1>26,
     <1>27, <1>28, <1>29, <1>30, NextSteps, Zenon DEF Downlink, Controller

\* The poll, and where it cannot run.
LEMMA PollingStep == ASSUME FcTypes, RxTypes, CtTypes, Stage, Polling, NNext PROVE Polling'
<1> USE DEF Polling, RxTypes, Poll, txvars, fcvars, rxvars, ctvars
<1>1. CASE Uplink
  BY <1>1, UplinkFrame, Zenon
<1>2. CASE FlowMark
  BY <1>2, Zenon DEF FlowMark
<1>3. CASE FlowArm
  BY <1>3, Zenon DEF FlowArm
<1>4. CASE FlowSchedule
  BY <1>4, Zenon DEF FlowSchedule
<1>5. CASE rmnet_data_vnd_do_flow_control
  BY <1>5, Zenon DEF rmnet_data_vnd_do_flow_control, WakeVnds
<1>6. CASE mhi_netdev_fc_timeout
  BY <1>6, Zenon DEF mhi_netdev_fc_timeout
<1>7. CASE FcZero
  BY <1>7, Zenon DEF FcZero
<1>8. CASE ForceOpen
  BY <1>8, Zenon DEF ForceOpen, WakeVnds
<1>9. CASE ReceiveData
  BY <1>9, Zenon DEF ReceiveData, Receive, mhi_netdev_status_cb, Spend
<1>10. CASE ReceiveFlow
  BY <1>10, Zenon DEF ReceiveFlow, Receive, mhi_netdev_status_cb, Spend
<1>11. CASE mhi_netdev_poll
  BY <1>11, Zenon DEF mhi_netdev_poll, Idle
<1>12. CASE rmnet_data_map_command
  BY <1>12, MapTakes, Zenon DEF rmnet_data_map_command, RxTypes, Poll
<1>13. CASE PollRefill
  BY <1>13, Zenon DEF PollRefill, mhi_netdev_alloc_skb, Spend
<1>14. CASE napi_complete
  BY <1>14, Zenon DEF napi_complete, Idle
<1>15. CASE mhi_netdev_alloc_work
  BY <1>15, Zenon DEF mhi_netdev_alloc_work
<1>16. CASE WorkRefill
  BY <1>16, Zenon DEF WorkRefill, mhi_netdev_alloc_skb, Spend
<1>17. CASE WorkRetry
  BY <1>17, Zenon DEF WorkRetry
<1>18. CASE mhi_netdev_pm_release
  BY <1>18 DEF mhi_netdev_pm_release, At, Goto
<1>19. CASE napi_disable
  BY <1>19, Zenon DEF napi_disable, At, Goto
<1>20. CASE ClearFlow
  BY <1>20, Zenon DEF ClearFlow, CancelSync, At, Goto
<1>21. CASE mhi_unprepare_from_transfer
  BY <1>21, Zenon DEF mhi_unprepare_from_transfer, At, Goto
<1>22. CASE PrepareChannels
  BY <1>22, Zenon DEF PrepareChannels, Spend, At, Goto
<1>23. CASE EnableIface
  BY <1>23, Zenon DEF EnableIface, SetEnabled, At, Goto
<1>24. CASE mhi_netdev_pm_hold
  BY <1>24, Zenon DEF mhi_netdev_pm_hold, At, Goto
<1>25. CASE FirstRefill
  BY <1>25, Zenon DEF FirstRefill, mhi_netdev_alloc_skb, Spend, At, Goto
<1>26. CASE napi_enable
  BY <1>26 DEF napi_enable, At, Goto
<1>27. CASE WakeAfterReset
  BY <1>27, Zenon DEF WakeAfterReset, WakeVnds, Live, At
<1>28. CASE mhi_netdev_probe
  BY <1>28 DEF mhi_netdev_probe, At
<1>29. CASE mhi_netdev_remove
  BY <1>29 DEF mhi_netdev_remove, SetEnabled, At, Goto
<1>30. CASE CancelFlow
  BY <1>30 DEF CancelFlow, CancelSync, At, Goto
<1>31. CASE rmnet_vnd_unregister_device
  BY <1>31, UnregisterPlace, Zenon DEF rmnet_vnd_unregister_device, Live, At, Goto
<1>32. CASE UnregisterParent
  BY <1>32, Zenon DEF UnregisterParent, At, Goto
<1>33. CASE flush_delayed_work
  BY <1>33, Zenon DEF flush_delayed_work, At, Goto
<1>34. CASE ResetStart
  BY <1>34, Zenon DEF ResetStart, Quiet, SetEnabled, Spend
<1>35. CASE mhi_reset_chan
  BY <1>35, Zenon DEF mhi_reset_chan, At
<1> QED
  BY <1>1, <1>2, <1>3, <1>4, <1>5, <1>6, <1>7, <1>8, <1>9, <1>10, <1>11, <1>12, <1>13, <1>14,
     <1>15, <1>16, <1>17, <1>18, <1>19, <1>20, <1>21, <1>22, <1>23, <1>24, <1>25, <1>26,
     <1>27, <1>28, <1>29, <1>30, <1>31, <1>32, <1>33, <1>34, <1>35, NextSteps, Zenon DEF
     FlowCommand, Deadlines, Downlink, Controller

\* The deadline of a held mux.
LEMMA DeadlineStep == ASSUME FcTypes, RxTypes, CtTypes, Stage, Polling, Deadline, NNext
  PROVE Deadline'
<1> USE DEF Deadline, FcTypes, Work, txvars, fcvars, rxvars, ctvars
<1>1. CASE Uplink
  BY <1>1, UplinkFrame
<1>2. CASE FlowMark
  <2>1. np.pc' = "arm" /\ np.pc = "mark" /\ UNCHANGED <<fcPending, fcw, ctvars>>
    BY <1>2, Zenon DEF RxTypes, Poll, FlowMark
  <2>2. ct.pc \notin {"unprepare", "prep", "enable", "hold", "alloc", "napi_on"}
    BY <2>1, Zenon DEF Polling
  <2> QED BY <2>1, <2>2 DEF ctvars
<1>3. CASE FlowArm
  <2>1. np.pc = "arm" /\ fc' = fc /\ UNCHANGED ctvars
    BY <1>3, Zenon DEF FlowArm
  <2>2. ct.pc \notin {"unprepare", "prep", "enable", "hold", "alloc", "napi_on"}
    BY <2>1, Zenon DEF Polling
  <2>3. CASE fc # {} /\ ~fcPending /\ enabled
    <3>1. np.pc' = "schedule" /\ fcPending' /\ fcw' = fcw
      BY <1>3, <2>3, Zenon DEF RxTypes, Poll, FlowArm
    <3> QED BY <2>1, <2>2, <2>3, <3>1, Zenon DEF ctvars
  <2>4. CASE fc = {} /\ fcPending
    <3>1. ~fcPending' /\ fcw' = [fcw EXCEPT !.pend = FALSE, !.due = FALSE]
      BY <1>3, <2>4, Zenon DEF FlowArm
    <3>2. ~fcw'.pend /\ ~fcw'.due /\ fcw'.pc = fcw.pc /\ fcw'.held = fcw.held
      BY <3>1, Zenon
    <3> QED BY <2>1, <2>2, <2>4, <3>1, <3>2, Zenon DEF ctvars
  <2>5. CASE ~(fc # {} /\ ~fcPending /\ enabled) /\ ~(fc = {} /\ fcPending)
    <3>1. (fcPending' <=> fcPending) /\ fcw' = fcw
      BY <1>3, <2>5, Zenon DEF FlowArm
    <3> QED BY <2>1, <2>2, <2>5, <3>1, Zenon DEF ctvars
  <2> QED BY <2>3, <2>4, <2>5, Zenon
<1>4. CASE FlowSchedule
  <2>1. np.pc' = "flow" /\ np.pc = "schedule" /\ UNCHANGED <<fc, fcPending, ctvars>>
    BY <1>4, Zenon DEF RxTypes, Poll, FlowSchedule
  <2>2. ct.pc \notin {"unprepare", "prep", "enable", "hold", "alloc", "napi_on", "parent", "flush", "gone"}
    BY <2>1, Zenon DEF Polling
  <2>3. fcw'.pend /\ (fcw'.due => fcw'.pend) /\ fcw'.pc = fcw.pc /\ fcw'.held = fcw.held
    BY <1>4, Zenon DEF FlowSchedule
  <2> QED BY <2>1, <2>2, <2>3, Zenon DEF ctvars
<1>5. CASE rmnet_data_vnd_do_flow_control
  BY <1>5, Zenon DEF rmnet_data_vnd_do_flow_control, WakeVnds
<1>6. CASE mhi_netdev_fc_timeout
  BY <1>6, Zenon DEF mhi_netdev_fc_timeout
<1>7. CASE FcZero
  BY <1>7, Zenon DEF FcZero
<1>8. CASE ForceOpen
  BY <1>8, Zenon DEF ForceOpen, WakeVnds
<1>9. CASE ReceiveData
  BY <1>9, Zenon DEF ReceiveData, Receive, mhi_netdev_status_cb, Spend
<1>10. CASE ReceiveFlow
  BY <1>10 DEF ReceiveFlow, Receive, mhi_netdev_status_cb, Spend
<1>11. CASE mhi_netdev_poll
  BY <1>11, Zenon DEF mhi_netdev_poll, Idle, Polling, RxTypes
<1>12. CASE rmnet_data_map_command
  BY <1>12, Zenon DEF rmnet_data_map_command
<1>13. CASE PollRefill
  BY <1>13, Zenon DEF PollRefill, mhi_netdev_alloc_skb, Spend
<1>14. CASE napi_complete
  BY <1>14, Zenon DEF napi_complete, Idle
<1>15. CASE mhi_netdev_alloc_work
  BY <1>15, Zenon DEF mhi_netdev_alloc_work
<1>16. CASE WorkRefill
  BY <1>16, Zenon DEF WorkRefill, mhi_netdev_alloc_skb, Spend
<1>17. CASE WorkRetry
  BY <1>17, Zenon DEF WorkRetry
<1>18. CASE mhi_netdev_pm_release
  BY <1>18 DEF mhi_netdev_pm_release, At, Goto
<1>19. CASE napi_disable
  BY <1>19 DEF napi_disable, At, Goto
<1>20. CASE ClearFlow
  BY <1>20, Zenon DEF ClearFlow, CancelSync, At, Goto
<1>21. CASE mhi_unprepare_from_transfer
  BY <1>21, Zenon DEF mhi_unprepare_from_transfer, At, Goto
<1>22. CASE PrepareChannels
  BY <1>22, Zenon DEF PrepareChannels, Spend, At, Goto
<1>23. CASE EnableIface
  BY <1>23, Zenon DEF EnableIface, SetEnabled, At, Goto
<1>24. CASE mhi_netdev_pm_hold
  BY <1>24, Zenon DEF mhi_netdev_pm_hold, At, Goto
<1>25. CASE FirstRefill
  BY <1>25, Zenon DEF FirstRefill, mhi_netdev_alloc_skb, Spend, At, Goto
<1>26. CASE napi_enable
  BY <1>26, Zenon DEF napi_enable, At, Goto
<1>27. CASE WakeAfterReset
  BY <1>27, Zenon DEF WakeAfterReset, WakeVnds, Live, At
<1>28. CASE mhi_netdev_probe
  BY <1>28 DEF mhi_netdev_probe, At
<1>29. CASE mhi_netdev_remove
  BY <1>29 DEF mhi_netdev_remove, SetEnabled, At, Goto
<1>30. CASE CancelFlow
  BY <1>30, Zenon DEF CancelFlow, CancelSync, At, Goto, CtTypes, Stage
<1>31. CASE rmnet_vnd_unregister_device
  BY <1>31, UnregisterPlace DEF fcvars
<1>32. CASE UnregisterParent
  BY <1>32 DEF UnregisterParent, At, Goto
<1>33. CASE flush_delayed_work
  BY <1>33 DEF flush_delayed_work, At, Goto
<1>34. CASE ResetStart
  BY <1>34, Zenon DEF ResetStart, Quiet, SetEnabled, Spend
<1>35. CASE mhi_reset_chan
  BY <1>35, Zenon DEF mhi_reset_chan, At
<1> QED
  BY <1>1, <1>2, <1>3, <1>4, <1>5, <1>6, <1>7, <1>8, <1>9, <1>10, <1>11, <1>12, <1>13, <1>14,
     <1>15, <1>16, <1>17, <1>18, <1>19, <1>20, <1>21, <1>22, <1>23, <1>24, <1>25, <1>26,
     <1>27, <1>28, <1>29, <1>30, <1>31, <1>32, <1>33, <1>34, <1>35, NextSteps, Zenon DEF
     FlowCommand, Deadlines, Downlink, Controller

\* No thread works on a freed vnd.
LEMMA RegisteredStep == ASSUME TxTypes, FcTypes, RxTypes, CtTypes, Stage, Polling,
  Registered, NNext PROVE Registered'
<1> USE DEF Registered, txvars, fcvars, rxvars, ctvars
<1>1. ASSUME NEW m \in Muxes, rmnet_vnd_start_xmit(m) PROVE Registered'
  BY <1>1 DEF rmnet_vnd_start_xmit
<1>2. ASSUME NEW m \in Muxes, VndBusy(m) PROVE Registered'
  BY <1>2 DEF VndBusy
<1>3. ASSUME NEW m \in Muxes, rmnet_vnd_tx_agg(m) PROVE Registered'
  BY <1>3 DEF rmnet_vnd_tx_agg, Spend
<1>4. CASE mhi_netdev_xmit
  BY <1>4, Zenon DEF mhi_netdev_xmit
<1>5. CASE StopQueues
  BY <1>5, Zenon DEF StopQueues, StopVnds, Live
<1>6. CASE QueueUplink
  BY <1>6, Zenon DEF QueueUplink, UlFree
<1>7. CASE mhi_netdev_xfer_ul_cb
  BY <1>7 DEF mhi_netdev_xfer_ul_cb, UcIdle, UlFree
<1>8. CASE WakeParent
  BY <1>8, Zenon DEF WakeParent
<1>9. CASE VisitVnd
  <2>1. uc.pc = "next" /\ chan = "up" /\ UNCHANGED <<tx, rxvars, ctvars>>
    BY <1>9, Zenon DEF VisitVnd
  <2>2. \A k \in Muxes : mp[k] # "freed"
    BY <2>1, Zenon DEF Stage
  <2>3. uc'.pc = "open" => mp[uc'.m] = "live"
    <3>1. CASE uc.todo = {}
      BY <1>9, <3>1 DEF VisitVnd, UcIdle
    <3>2. CASE uc.todo # {}
      <4>1. Least(uc.todo) \in Muxes
        BY <3>2, LeastMux, Zenon DEF TxTypes, Walk
      <4> QED BY <1>9, <3>2, <4>1, <2>2 DEF VisitVnd, CtTypes, Vnds
    <3> QED BY <3>1, <3>2
  <2> QED BY <2>1, <2>3 DEF rxvars, ctvars
<1>10. CASE WakeVnd
  BY <1>10 DEF WakeVnd, WakeVnds
<1>11. CASE FlowMark
  BY <1>11 DEF FlowMark
<1>12. CASE FlowArm
  BY <1>12 DEF FlowArm
<1>13. CASE FlowSchedule
  BY <1>13 DEF FlowSchedule
<1>14. CASE rmnet_data_vnd_do_flow_control
  BY <1>14 DEF rmnet_data_vnd_do_flow_control, WakeVnds
<1>15. CASE Deadlines
  BY <1>15, DeadlinesFrame, Zenon
<1>16. CASE ReceiveData
  BY <1>16, Zenon DEF ReceiveData, Receive, mhi_netdev_status_cb, Spend
<1>17. CASE ReceiveFlow
  BY <1>17, Zenon DEF ReceiveFlow, Receive, mhi_netdev_status_cb, Spend
<1>18. CASE mhi_netdev_poll
  <2>1. napi = "sched" /\ chain = <<>> /\ np'.pc = "rx" /\ UNCHANGED <<txvars, ctvars>>
    BY <1>18, Zenon DEF mhi_netdev_poll, Polling, Idle
  <2>2. (\E m \in Muxes : mp[m] = "freed") => chain' = <<>>
    <3>1. ct.pc = "unregister" => filled = <<>>
      BY Zenon DEF Stage, CtTypes, Jobs
    <3>2. filled = <<>> => chain' = <<>> \o SubSeq(<<>>, 1, 0)
      BY <1>18, <2>1, TakeNone, NetdevAssumption DEF mhi_netdev_poll
    <3> QED BY <3>1, <3>2, TakeNone
  <2> QED BY <2>1, <2>2, Zenon DEF txvars, ctvars
<1>19. CASE rmnet_data_map_command
  <2>1. np.pc = "rx" /\ chain # <<>> /\ UNCHANGED <<txvars, ctvars>>
    BY <1>19, Zenon DEF rmnet_data_map_command
  <2>2. \A m \in Muxes : mp[m] # "freed"
    BY <2>1, Zenon
  <2>3. np'.pc \in {"mark", "arm", "schedule", "flow"} => mp[np'.cmd.mux] = "live"
    <3>1. CASE Head(chain).flow /\ mp[Head(chain).mux] # "none"
      <4>1. np' = [np EXCEPT !.pc = "mark", !.cmd = Head(chain), !.old = fc]
        BY <1>19, <3>1, Zenon DEF rmnet_data_map_command
      <4>2. np'.cmd = Head(chain)
        BY <4>1, Zenon DEF RxTypes, Poll
      <4> QED BY <1>19, <4>2, <3>1, MapTakes, <2>2 DEF CtTypes, Vnds
    <3>2. CASE ~(Head(chain).flow /\ mp[Head(chain).mux] # "none")
      BY <1>19, <2>1, <3>2, Zenon DEF rmnet_data_map_command
    <3> QED BY <3>1, <3>2
  <2> QED BY <2>1, <2>2, <2>3, Zenon DEF txvars, ctvars
<1>20. CASE PollRefill
  BY <1>20 DEF PollRefill, mhi_netdev_alloc_skb, Spend
<1>21. CASE napi_complete
  BY <1>21, Zenon DEF napi_complete, Idle
<1>22. CASE mhi_netdev_alloc_work
  BY <1>22, Zenon DEF mhi_netdev_alloc_work
<1>23. CASE WorkRefill
  BY <1>23, Zenon DEF WorkRefill, mhi_netdev_alloc_skb, Spend
<1>24. CASE WorkRetry
  BY <1>24, Zenon DEF WorkRetry
<1>25. CASE mhi_netdev_pm_release
  BY <1>25, Zenon DEF mhi_netdev_pm_release, At, Goto
<1>26. CASE napi_disable
  BY <1>26, Zenon DEF napi_disable, At, Goto
<1>27. CASE ClearFlow
  BY <1>27, Zenon DEF ClearFlow, CancelSync, At, Goto
<1>28. CASE mhi_unprepare_from_transfer
  BY <1>28, Zenon DEF mhi_unprepare_from_transfer, At, Goto
<1>29. CASE PrepareChannels
  BY <1>29, PreparePlace DEF Stage
<1>30. CASE EnableIface
  BY <1>30, Zenon DEF EnableIface, SetEnabled, At, Goto
<1>31. CASE mhi_netdev_pm_hold
  BY <1>31, Zenon DEF mhi_netdev_pm_hold, At, Goto
<1>32. CASE FirstRefill
  BY <1>32, Zenon DEF FirstRefill, mhi_netdev_alloc_skb, Spend, At, Goto
<1>33. CASE napi_enable
  BY <1>33, Zenon DEF napi_enable, At, Goto
<1>34. CASE WakeAfterReset
  BY <1>34, Zenon DEF WakeAfterReset, WakeVnds, Live, At
<1>35. CASE mhi_netdev_probe
  <2>1. ct.pc = "register" /\ UNCHANGED <<chan, txvars, rxvars>>
    BY <1>35, Zenon DEF mhi_netdev_probe, At
  <2>2. \A m \in Muxes : mp[m] # "freed"
    BY <2>1, Zenon
  <2>3. \A m \in Muxes : (mp[m] = "live" => mp'[m] = "live") /\ mp'[m] # "freed"
    BY <1>35, <2>2, Zenon DEF mhi_netdev_probe, CtTypes, Vnds
  <2>4. np.pc \in {"mark", "arm", "schedule", "flow"} => mp'[np.cmd.mux] = "live"
    BY <2>3, Zenon DEF Polling
  <2>5. uc.pc = "open" => mp'[uc.m] = "live"
    BY <2>3, Zenon DEF TxTypes, Walk
  <2> QED BY <2>1, <2>3, <2>4, <2>5, Zenon DEF txvars, rxvars
<1>36. CASE mhi_netdev_remove
  BY <1>36, Zenon DEF mhi_netdev_remove, SetEnabled, At, Goto
<1>37. CASE CancelFlow
  BY <1>37, Zenon DEF CancelFlow, CancelSync, At, Goto
<1>38. CASE rmnet_vnd_unregister_device
  <2>1. ct.pc = "unregister" /\ UNCHANGED <<chan, txvars, napi, np>> /\ (chain' = chain \/ chain' = <<>>)
        /\ ct.pc' \in {"unregister", "napi"}
    BY <1>38, UnregisterPlace, Zenon
  <2>2. uc.pc = "idle"
    BY <2>1, Zenon DEF Stage, CtTypes, Jobs, TxTypes, Walk
  <2> DEFINE freed == {k \in Muxes : mp[k] = "freed"}
  <2>3. CASE freed # {} /\ mp' = [k \in Muxes |-> IF k \in freed THEN "none" ELSE mp[k]] /\ ct' = ct
    <3>1. \A k \in Muxes : (mp[k] = "live" => mp'[k] = "live") /\ mp'[k] # "freed"
      BY <2>3, Zenon DEF CtTypes, Vnds
    <3>2. np.pc \in {"mark", "arm", "schedule", "flow"} => mp'[np.cmd.mux] = "live"
      BY <3>1, Zenon DEF Polling
    <3> QED BY <2>1, <2>2, <3>1, <3>2, Zenon DEF txvars
  <2>4. CASE /\ freed = {} /\ Live # {} /\ tx[Least(Live)] = "idle" /\ napi # "poll"
             /\ mp' = [mp EXCEPT ![Least(Live)] = "freed"] /\ UNCHANGED <<ct, chain>>
    <3>1. chain = <<>> /\ np.pc = "idle"
      BY <2>4, Zenon DEF Polling
    <3>2. \A k \in Muxes : tx[k] # "idle" => mp'[k] = mp[k]
      BY <2>4, Zenon DEF CtTypes, Vnds
    <3> QED BY <2>1, <2>2, <2>4, <3>1, <3>2 DEF txvars
  <2>5. CASE freed = {} /\ mp' = mp /\ chain' = <<>>
    BY <2>1, <2>2, <2>5, Zenon DEF txvars
  <2> QED BY <1>38, <2>3, <2>4, <2>5, Zenon DEF rmnet_vnd_unregister_device
<1>39. CASE UnregisterParent
  BY <1>39, Zenon DEF UnregisterParent, At, Goto
<1>40. CASE flush_delayed_work
  BY <1>40, Zenon DEF flush_delayed_work, At, Goto
<1>41. CASE ResetStart
  BY <1>41, Zenon DEF ResetStart, Quiet, SetEnabled, Spend
<1>42. CASE mhi_reset_chan
  BY <1>42, Zenon DEF mhi_reset_chan, At
<1> QED
  BY <1>1, <1>2, <1>3, <1>4, <1>5, <1>6, <1>7, <1>8, <1>9, <1>10, <1>11, <1>12, <1>13, <1>14,
     <1>15, <1>16, <1>17, <1>18, <1>19, <1>20, <1>21, <1>22, <1>23, <1>24, <1>25, <1>26,
     <1>27, <1>28, <1>29, <1>30, <1>31, <1>32, <1>33, <1>34, <1>35, <1>36, <1>37, <1>38,
     <1>39, <1>40, <1>41, <1>42, NextSteps, Zenon DEF Uplink, FlowCommand, Downlink,
     Controller

\* The receive ring is topped up.
LEMMA ToppedUpStep == ASSUME FcTypes, RxTypes, CtTypes, Stage, Polling, ToppedUp, NNext
  PROVE ToppedUp'
<1> USE DEF ToppedUp, txvars, fcvars, rxvars, ctvars
<1>1. CASE Uplink
  BY <1>1, UplinkFrame, Zenon DEF DlFree
<1>2. CASE FlowCommand
  BY <1>2, FlowCommandFrame, FlowCommandPlace, Zenon DEF DlFree
<1>3. CASE Deadlines
  BY <1>3, DeadlinesFrame, Zenon DEF DlFree
<1>4. CASE ReceiveData
  BY <1>4, ReceiveFree, DownlinkFrame, Zenon DEF Downlink, ctvars
<1>5. CASE ReceiveFlow
  BY <1>5, ReceiveFree, DownlinkFrame, Zenon DEF Downlink, ctvars
<1>6. CASE mhi_netdev_poll
  <2>1. napi' = "poll" /\ np'.pc = "rx" /\ UNCHANGED <<alw, ctvars>>
    BY <1>6, Zenon DEF mhi_netdev_poll, Idle
  <2> QED BY <2>1, Zenon DEF ctvars
<1>7. CASE rmnet_data_map_command
  BY <1>7 DEF rmnet_data_map_command, DlFree
<1>8. CASE PollRefill
  <2>1. np.pc = "rx" /\ napi = "poll" /\ UNCHANGED <<filled, napi, ctvars>>
    BY <1>8, Zenon DEF PollRefill, Polling
  <2>2. ct.pc \notin {"flush", "gone", "napi_on"}
    BY <2>1, Zenon DEF Polling
  <2>3. CASE alw.pend /\ UNCHANGED <<dlq, alw, left>>
    BY <2>1, <2>2, <2>3, Zenon DEF ctvars
  <2>4. CASE ~alw.pend /\ mhi_netdev_alloc_skb(TRUE) /\ UNCHANGED alw
    <3>1. chan = "up" => ~(DlFree' > 0)
      BY <2>1, <2>4, RefillFills, Zenon
    <3>2. ct.pc \in {"wake", "register", "idle"} => chan = "up"
      BY Zenon DEF Stage
    <3> QED BY <2>1, <2>2, <2>4, <3>1, <3>2, Zenon DEF ctvars
  <2>5. CASE alw' = [alw EXCEPT !.pend = TRUE]
    <3>1. alw'.pend
      BY <2>5, Zenon DEF RxTypes, Refill
    <3> QED BY <2>1, <2>2, <3>1, Zenon DEF ctvars
  <2> QED BY <1>8, <2>3, <2>4, <2>5, Zenon DEF PollRefill
<1>9. CASE napi_complete
  <2>1. np.pc = "done" /\ napi = "poll" /\ DlFree' = DlFree /\ UNCHANGED <<alw, ctvars>>
    BY <1>9, Zenon DEF napi_complete, Polling, DlFree
  <2> QED BY <2>1, Zenon DEF ctvars
<1>10. CASE mhi_netdev_alloc_work
  BY <1>10, Zenon DEF mhi_netdev_alloc_work, DlFree
<1>11. CASE WorkRefill
  <2>1. alw.pc = "alloc" /\ UNCHANGED <<filled, napi, np, ctvars>>
    BY <1>11, Zenon DEF WorkRefill
  <2>2. PICK ok \in BOOLEAN : /\ mhi_netdev_alloc_skb(ok)
                              /\ alw' = [alw EXCEPT !.pc = IF ok THEN "idle" ELSE "check"]
    BY <1>11, Zenon DEF WorkRefill
  <2>3. alw'.pend = alw.pend /\ (alw'.pc = "idle" <=> ok)
    BY <2>2, Zenon DEF RxTypes, Refill
  <2>4. ct.pc # "gone"
    BY <2>1, Zenon
  <2>5. CASE ~ok
    BY <2>1, <2>3, <2>4, <2>5, Zenon DEF ctvars
  <2>6. CASE ok
    <3>1. chan = "up" => ~(DlFree' > 0)
      BY <2>1, <2>2, <2>6, RefillFills, Zenon
    <3>2. ct.pc \in {"napi_on", "wake", "register", "idle"} => chan = "up"
      BY Zenon DEF Stage
    <3> QED BY <2>1, <2>3, <2>4, <3>1, <3>2, Zenon DEF ctvars
  <2> QED BY <2>5, <2>6
<1>12. CASE WorkRetry
  <2>1. alw' = [pend |-> alw.pend \/ enabled, pc |-> "idle"] /\ DlFree' = DlFree /\ UNCHANGED <<napi, np, ctvars>>
    BY <1>12, Zenon DEF WorkRetry, DlFree
  <2>2. (alw'.pend <=> alw.pend \/ enabled) /\ alw'.pc = "idle"
    BY <2>1, Zenon
  <2>3. /\ ct.pc \in {"napi_on", "wake", "register", "idle"} => enabled
        /\ ct.pc \in {"flush", "gone"} => ~enabled
    BY Zenon DEF Stage
  <2> QED BY <2>1, <2>2, <2>3, Zenon DEF ctvars
<1>13. CASE mhi_netdev_pm_release
  BY <1>13 DEF mhi_netdev_pm_release, At, Goto, DlFree
<1>14. CASE napi_disable
  BY <1>14 DEF napi_disable, At, Goto, DlFree
<1>15. CASE ClearFlow
  BY <1>15 DEF ClearFlow, CancelSync, At, Goto, DlFree
<1>16. CASE mhi_unprepare_from_transfer
  BY <1>16 DEF mhi_unprepare_from_transfer, At, Goto, DlFree
<1>17. CASE PrepareChannels
  BY <1>17, PreparePlace, Zenon DEF rxvars
<1>18. CASE EnableIface
  BY <1>18 DEF EnableIface, SetEnabled, At, Goto, DlFree
<1>19. CASE mhi_netdev_pm_hold
  BY <1>19 DEF mhi_netdev_pm_hold, At, Goto, DlFree
<1>20. CASE FirstRefill
  <2>1. ct.pc = "alloc" /\ ct.pc' = "napi_on" /\ UNCHANGED <<filled, chan>> /\ chan = "up"
    BY <1>20, Zenon DEF CtTypes, Stage, FirstRefill, At, Goto
  <2>2. PICK ok \in BOOLEAN : mhi_netdev_alloc_skb(ok) /\ alw' = [alw EXCEPT !.pend = alw.pend \/ ~ok]
    BY <1>20, Zenon DEF FirstRefill
  <2>3. ~ok => alw'.pend
    BY <2>2, Zenon DEF RxTypes, Refill
  <2>4. ok => ~(DlFree' > 0)
    BY <2>1, <2>2, RefillFills, Zenon
  <2> QED BY <2>1, <2>3, <2>4, Zenon
<1>21. CASE napi_enable
  <2>1. ct.pc = "napi_on" /\ ct.pc' \in {"wake", "register"} /\ DlFree' = DlFree
        /\ alw' = alw /\ napi = "off"
    BY <1>21, Zenon DEF napi_enable, CtTypes, At, Goto, Polling, DlFree
  <2> QED BY <2>1, Zenon
<1>22. CASE WakeAfterReset
  BY <1>22, Zenon DEF WakeAfterReset, WakeVnds, Live, At, DlFree
<1>23. CASE mhi_netdev_probe
  BY <1>23 DEF mhi_netdev_probe, At, DlFree
<1>24. CASE mhi_netdev_remove
  BY <1>24 DEF mhi_netdev_remove, SetEnabled, At, Goto, DlFree
<1>25. CASE CancelFlow
  BY <1>25 DEF CancelFlow, CancelSync, At, Goto, DlFree
<1>26. CASE rmnet_vnd_unregister_device
  BY <1>26, UnregisterPlace, Zenon
<1>27. CASE UnregisterParent
  BY <1>27 DEF UnregisterParent, At, Goto, DlFree
<1>28. CASE flush_delayed_work
  BY <1>28 DEF flush_delayed_work, At, Goto, DlFree
<1>29. CASE ResetStart
  BY <1>29, Zenon DEF ResetStart, Quiet, SetEnabled, Spend, DlFree
<1>30. CASE mhi_reset_chan
  BY <1>30, Zenon DEF mhi_reset_chan, At, DlFree
<1> QED
  BY <1>1, <1>2, <1>3, <1>4, <1>5, <1>6, <1>7, <1>8, <1>9, <1>10, <1>11, <1>12, <1>13, <1>14,
     <1>15, <1>16, <1>17, <1>18, <1>19, <1>20, <1>21, <1>22, <1>23, <1>24, <1>25, <1>26,
     <1>27, <1>28, <1>29, <1>30, NextSteps, Zenon DEF Downlink, Controller

\* The probe.
LEMMA ProbingStep == ASSUME TxTypes, FcTypes, RxTypes, CtTypes, Stage, Polling, Registered,
  Probing, NNext PROVE Probing'
<1> USE DEF Probing, txvars, fcvars, rxvars, ctvars
<1>1. ASSUME NEW m \in Muxes, rmnet_vnd_start_xmit(m) PROVE Probing'
  BY <1>1, Zenon DEF rmnet_vnd_start_xmit
<1>2. ASSUME NEW m \in Muxes, VndBusy(m) PROVE Probing'
  <2>1. mp[m] = "live" /\ vstop' = vstop \cup {m} /\ UNCHANGED <<pstop, pq, ul, px, ctvars>>
    BY <1>2, Zenon DEF VndBusy, Registered
  <2> QED BY <2>1 DEF ctvars
<1>3. ASSUME NEW m \in Muxes, rmnet_vnd_tx_agg(m) PROVE Probing'
  <2>1. mp[m] = "live" /\ UNCHANGED <<pstop, vstop, ul, px, ctvars>>
    BY <1>3, Zenon DEF rmnet_vnd_tx_agg, Registered
  <2> QED BY <2>1 DEF ctvars
<1>4. CASE mhi_netdev_xmit
  BY <1>4 DEF mhi_netdev_xmit
<1>5. CASE StopQueues
  BY <1>5, Zenon DEF StopQueues, StopVnds, Live
<1>6. CASE QueueUplink
  BY <1>6, Zenon DEF QueueUplink, UlFree
<1>7. CASE mhi_netdev_xfer_ul_cb
  BY <1>7 DEF mhi_netdev_xfer_ul_cb, UcIdle, UlFree
<1>8. CASE WakeParent
  BY <1>8, Zenon DEF WakeParent
<1>9. CASE VisitVnd
  BY <1>9, Zenon DEF VisitVnd, UcIdle
<1>10. CASE WakeVnd
  BY <1>10, Zenon DEF WakeVnd, WakeVnds
<1>11. CASE FlowMark
  BY <1>11, Zenon DEF FlowMark
<1>12. CASE FlowArm
  BY <1>12, Zenon DEF FlowArm
<1>13. CASE FlowSchedule
  BY <1>13, Zenon DEF FlowSchedule
<1>14. CASE rmnet_data_vnd_do_flow_control
  <2>1. np.pc = "flow" /\ np.cmd.mux \in Muxes /\ mp[np.cmd.mux] = "live" /\ UNCHANGED <<pstop, ul, px, ctvars>>
    BY <1>14, Zenon DEF rmnet_data_vnd_do_flow_control, Registered, Polling
  <2>2. vstop' \subseteq vstop \cup {np.cmd.mux}
    BY <1>14, Zenon DEF rmnet_data_vnd_do_flow_control, WakeVnds
  <2> QED BY <2>1, <2>2 DEF ctvars
<1>15. CASE mhi_netdev_fc_timeout
  BY <1>15, Zenon DEF mhi_netdev_fc_timeout
<1>16. CASE FcZero
  BY <1>16, Zenon DEF FcZero
<1>17. CASE ForceOpen
  BY <1>17, Zenon DEF ForceOpen, WakeVnds
<1>18. CASE Downlink
  BY <1>18, DownlinkFrame
<1>19. CASE mhi_netdev_pm_release
  BY <1>19 DEF mhi_netdev_pm_release, At, Goto
<1>20. CASE napi_disable
  BY <1>20 DEF napi_disable, At, Goto
<1>21. CASE ClearFlow
  BY <1>21 DEF ClearFlow, CancelSync, At, Goto
<1>22. CASE mhi_unprepare_from_transfer
  BY <1>22 DEF mhi_unprepare_from_transfer, At, Goto
<1>23. CASE PrepareChannels
  BY <1>23, PreparePlace DEF Stage
<1>24. CASE EnableIface
  BY <1>24 DEF EnableIface, SetEnabled, At, Goto
<1>25. CASE mhi_netdev_pm_hold
  BY <1>25 DEF mhi_netdev_pm_hold, At, Goto
<1>26. CASE FirstRefill
  BY <1>26 DEF FirstRefill, mhi_netdev_alloc_skb, Spend, At, Goto
<1>27. CASE napi_enable
  BY <1>27 DEF napi_enable, At, Goto
<1>28. CASE WakeAfterReset
  BY <1>28, Zenon DEF WakeAfterReset, WakeVnds, Live, At
<1>29. CASE mhi_netdev_probe
  <2>1. ct.pc = "register" /\ UNCHANGED txvars
    BY <1>29, Zenon DEF mhi_netdev_probe, At
  <2>2. ct' = ct \/ ct' = [pc |-> "idle", job |-> "none"]
    BY <1>29, Zenon DEF mhi_netdev_probe
  <2>3. \A k \in Muxes : mp'[k] = "none" => mp[k] = "none"
    BY <1>29, Zenon DEF mhi_netdev_probe, CtTypes, Vnds
  <2> QED BY <2>1, <2>2, <2>3 DEF txvars
<1>30. CASE mhi_netdev_remove
  BY <1>30 DEF mhi_netdev_remove, SetEnabled, At, Goto
<1>31. CASE CancelFlow
  BY <1>31 DEF CancelFlow, CancelSync, At, Goto
<1>32. CASE rmnet_vnd_unregister_device
  <2>1. ct.job' = ct.job /\ ct.pc = "unregister"
    BY <1>32, UnregisterPlace, Zenon
  <2> QED BY <2>1 DEF Stage
<1>33. CASE UnregisterParent
  BY <1>33 DEF UnregisterParent, At, Goto
<1>34. CASE flush_delayed_work
  BY <1>34 DEF flush_delayed_work, At, Goto
<1>35. CASE ResetStart
  BY <1>35, Zenon DEF ResetStart, Quiet, SetEnabled, Spend
<1>36. CASE mhi_reset_chan
  BY <1>36, Zenon DEF mhi_reset_chan, At
<1> QED
  BY <1>1, <1>2, <1>3, <1>4, <1>5, <1>6, <1>7, <1>8, <1>9, <1>10, <1>11, <1>12, <1>13, <1>14,
     <1>15, <1>16, <1>17, <1>18, <1>19, <1>20, <1>21, <1>22, <1>23, <1>24, <1>25, <1>26,
     <1>27, <1>28, <1>29, <1>30, <1>31, <1>32, <1>33, <1>34, <1>35, <1>36, NextSteps, Zenon
     DEF Uplink, FlowCommand, Deadlines, Controller

\* A stopped parent has a waker.
LEMMA ParentOpensStep == ASSUME TxTypes, FcTypes, RxTypes, CtTypes, Stage, Probing,
  ParentOpens, NNext PROVE ParentOpens'
<1> USE DEF ParentOpens, Serving, ParentWaker, txvars, fcvars, rxvars, ctvars
<1>1. ASSUME NEW m \in Muxes, rmnet_vnd_start_xmit(m) PROVE ParentOpens'
  BY <1>1, Zenon DEF rmnet_vnd_start_xmit
<1>2. ASSUME NEW m \in Muxes, VndBusy(m) PROVE ParentOpens'
  BY <1>2, Zenon DEF VndBusy
<1>3. ASSUME NEW m \in Muxes, rmnet_vnd_tx_agg(m) PROVE ParentOpens'
  BY <1>3, Zenon DEF rmnet_vnd_tx_agg, Spend
<1>4. CASE mhi_netdev_xmit
  BY <1>4, Zenon DEF mhi_netdev_xmit
<1>5. CASE StopQueues
  BY <1>5, Zenon DEF StopQueues, StopVnds, Live
<1>6. CASE QueueUplink
  <2> SUFFICES ASSUME Serving, pstop PROVE ul' > 0
    BY <1>6, Zenon DEF QueueUplink, ctvars
  <2>1. chan = "up"
    BY Zenon DEF Stage, Probing
  <2>2. ul' = IF UlRing - ul > 0 THEN ul + 1 ELSE ul
    BY <1>6, <2>1, Zenon DEF QueueUplink, UlFree
  <2>3. ul \in 0 .. UlRing
    BY Zenon DEF TxTypes
  <2> QED BY <2>2, <2>3, Sizes
<1>7. CASE mhi_netdev_xfer_ul_cb
  <2> SUFFICES ASSUME Serving, pstop PROVE ul' > 0 \/ uc'.pc = "wake"
    BY <1>7, Zenon DEF mhi_netdev_xfer_ul_cb, ctvars
  <2>1. enabled
    BY Zenon DEF Stage, Probing
  <2>2. CASE UlRing - ul + 1 > High
    BY <1>7, <2>1, <2>2, Zenon DEF mhi_netdev_xfer_ul_cb, UlFree, TxTypes, Walk
  <2>3. CASE ~(UlRing - ul + 1 > High)
    <3>1. ul' = ul - 1 /\ ul \in 0 .. UlRing
      BY <1>7, Zenon DEF mhi_netdev_xfer_ul_cb, TxTypes
    <3> QED BY <2>3, <3>1, NetdevAssumption
  <2> QED BY <2>2, <2>3
<1>8. CASE WakeParent
  BY <1>8, Zenon DEF WakeParent
<1>9. CASE VisitVnd
  BY <1>9, Zenon DEF VisitVnd, UcIdle
<1>10. CASE WakeVnd
  BY <1>10, Zenon DEF WakeVnd, WakeVnds
<1>11. CASE FlowCommand
  BY <1>11, FlowCommandFrame, Zenon
<1>12. CASE Deadlines
  BY <1>12, DeadlinesFrame, Zenon
<1>13. CASE Downlink
  BY <1>13, DownlinkFrame, Zenon
<1>14. CASE mhi_netdev_pm_release
  BY <1>14 DEF mhi_netdev_pm_release, At, Goto
<1>15. CASE napi_disable
  BY <1>15 DEF napi_disable, At, Goto
<1>16. CASE ClearFlow
  BY <1>16 DEF ClearFlow, CancelSync, At, Goto
<1>17. CASE mhi_unprepare_from_transfer
  <2>1. ct.pc = "unprepare" /\ ct' = [ct EXCEPT !.pc = "prep"]
    BY <1>17, Zenon DEF mhi_unprepare_from_transfer, At, Goto
  <2>2. ct.pc' = "prep" /\ ct.job' = ct.job
    BY <2>1, Zenon DEF CtTypes
  <2> QED BY <2>1, <2>2 DEF Stage
<1>18. CASE PrepareChannels
  BY <1>18, PreparePlace, Zenon DEF Stage
<1>19. CASE EnableIface
  BY <1>19 DEF EnableIface, SetEnabled, At, Goto
<1>20. CASE mhi_netdev_pm_hold
  BY <1>20 DEF mhi_netdev_pm_hold, At, Goto
<1>21. CASE FirstRefill
  BY <1>21 DEF FirstRefill, mhi_netdev_alloc_skb, Spend, At, Goto
<1>22. CASE napi_enable
  BY <1>22 DEF napi_enable, At, Goto
<1>23. CASE WakeAfterReset
  BY <1>23, Zenon DEF WakeAfterReset, WakeVnds, Live, At
<1>24. CASE mhi_netdev_probe
  <2>1. ct.pc = "register" /\ ct.job = "probe" /\ UNCHANGED txvars
    BY <1>24, Zenon DEF mhi_netdev_probe, At, Stage, CtTypes, Jobs
  <2> QED BY <2>1, Zenon DEF txvars
<1>25. CASE mhi_netdev_remove
  BY <1>25 DEF mhi_netdev_remove, SetEnabled, At, Goto
<1>26. CASE CancelFlow
  BY <1>26 DEF CancelFlow, CancelSync, At, Goto
<1>27. CASE rmnet_vnd_unregister_device
  <2>1. ct.job' = ct.job /\ ct.pc' # "idle" /\ ct.pc = "unregister"
    BY <1>27, UnregisterPlace, Zenon
  <2> QED BY <2>1 DEF Stage
<1>28. CASE UnregisterParent
  BY <1>28 DEF UnregisterParent, At, Goto
<1>29. CASE flush_delayed_work
  BY <1>29 DEF flush_delayed_work, At, Goto
<1>30. CASE ResetStart
  BY <1>30, Zenon DEF ResetStart, Quiet, SetEnabled, Spend
<1>31. CASE mhi_reset_chan
  BY <1>31, Zenon DEF mhi_reset_chan, At
<1> QED
  BY <1>1, <1>2, <1>3, <1>4, <1>5, <1>6, <1>7, <1>8, <1>9, <1>10, <1>11, <1>12, <1>13, <1>14,
     <1>15, <1>16, <1>17, <1>18, <1>19, <1>20, <1>21, <1>22, <1>23, <1>24, <1>25, <1>26,
     <1>27, <1>28, <1>29, <1>30, <1>31, NextSteps, Zenon DEF Uplink, Controller

\* A stopped vnd has a waker.
LEMMA VndsOpenStep == ASSUME TxTypes, FcTypes, RxTypes, CtTypes, Stage, Polling, Deadline,
  Registered, Probing, VndsOpen, NNext PROVE VndsOpen'
<1> USE DEF VndsOpen, Serving, VndWaker, Live, txvars, fcvars, rxvars, ctvars
<1>1. ASSUME NEW m \in Muxes, rmnet_vnd_start_xmit(m) PROVE VndsOpen'
  BY <1>1, Zenon DEF rmnet_vnd_start_xmit
<1>2. ASSUME NEW m \in Muxes, VndBusy(m) PROVE VndsOpen'
  BY <1>2, Zenon DEF VndBusy
<1>3. ASSUME NEW m \in Muxes, rmnet_vnd_tx_agg(m) PROVE VndsOpen'
  BY <1>3, Zenon DEF rmnet_vnd_tx_agg, Spend
<1>4. CASE mhi_netdev_xmit
  BY <1>4, Zenon DEF mhi_netdev_xmit
<1>5. CASE StopQueues
  BY <1>5, Zenon DEF StopQueues, StopVnds, Live
<1>6. CASE QueueUplink
  BY <1>6, Zenon DEF QueueUplink, UlFree
<1>7. CASE mhi_netdev_xfer_ul_cb
  BY <1>7 DEF mhi_netdev_xfer_ul_cb, UcIdle, UlFree
<1>8. CASE WakeParent
  BY <1>8, Zenon DEF WakeParent
<1>9. CASE VisitVnd
  BY <1>9 DEF VisitVnd, UcIdle
<1>10. CASE WakeVnd
  BY <1>10 DEF WakeVnd, WakeVnds
<1>11. CASE FlowMark
  <2>1. np.pc = "mark" /\ np'.pc = "arm" /\ np'.cmd = np.cmd /\ UNCHANGED <<fcw, txvars, ctvars, stale>>
    BY <1>11, Zenon DEF FlowMark, RxTypes, Poll
  <2>2. fc \subseteq fc' \cup {np.cmd.mux}
    BY <1>11, Zenon DEF FlowMark, Polling
  <2> QED BY <2>1, <2>2 DEF txvars, ctvars
<1>12. CASE FlowArm
  BY <1>12 DEF FlowArm
<1>13. CASE FlowSchedule
  BY <1>13 DEF FlowSchedule
<1>14. CASE rmnet_data_vnd_do_flow_control
  BY <1>14 DEF rmnet_data_vnd_do_flow_control, WakeVnds
<1>15. CASE mhi_netdev_fc_timeout
  <2>1. fcw.pc = "idle" /\ fcw'.held = fc /\ UNCHANGED <<fc, txvars, rxvars, ctvars, stale>>
    BY <1>15, Zenon DEF mhi_netdev_fc_timeout
  <2>2. fcw.held = {}
    BY <2>1, Zenon DEF Deadline
  <2> QED BY <2>1, <2>2 DEF txvars, rxvars, ctvars
<1>16. CASE FcZero
  <2>1. stale' = stale \cup ((vstop \cap fc) \ fcw.held) /\ UNCHANGED <<txvars, rxvars, ctvars>>
    BY <1>16, Zenon DEF FcZero
  <2>2. CASE enabled
    <3>1. fcw'.held = fcw.held
      BY <1>16, <2>2, Zenon DEF FcZero, FcTypes, Work
    <3> QED BY <2>1, <3>1 DEF txvars, rxvars, ctvars
  <2>3. CASE ~enabled
    <3>1. Serving => \A m \in Muxes : mp[m] = "none"
      BY <2>3, Zenon DEF Stage, Probing
    <3> QED BY <2>1, <3>1 DEF txvars, rxvars, ctvars
  <2> QED BY <2>2, <2>3
<1>17. CASE ForceOpen
  BY <1>17, Zenon DEF ForceOpen, WakeVnds
<1>18. CASE ReceiveData
  BY <1>18, Zenon DEF ReceiveData, Receive, mhi_netdev_status_cb, Spend
<1>19. CASE ReceiveFlow
  BY <1>19 DEF ReceiveFlow, Receive, mhi_netdev_status_cb, Spend
<1>20. CASE mhi_netdev_poll
  <2>1. np.pc = "idle" /\ UNCHANGED <<txvars, fcvars, ctvars, stale>>
    BY <1>20, Zenon DEF mhi_netdev_poll, Polling
  <2> QED BY <2>1 DEF txvars, fcvars, ctvars
<1>21. CASE rmnet_data_map_command
  BY <1>21, Zenon DEF rmnet_data_map_command
<1>22. CASE PollRefill
  BY <1>22, Zenon DEF PollRefill, mhi_netdev_alloc_skb, Spend
<1>23. CASE napi_complete
  BY <1>23, Zenon DEF napi_complete, Idle
<1>24. CASE mhi_netdev_alloc_work
  BY <1>24, Zenon DEF mhi_netdev_alloc_work
<1>25. CASE WorkRefill
  BY <1>25, Zenon DEF WorkRefill, mhi_netdev_alloc_skb, Spend
<1>26. CASE WorkRetry
  BY <1>26, Zenon DEF WorkRetry
<1>27. CASE mhi_netdev_pm_release
  BY <1>27 DEF mhi_netdev_pm_release, At, Goto
<1>28. CASE napi_disable
  BY <1>28 DEF napi_disable, At, Goto
<1>29. CASE ClearFlow
  <2>1. ct.pc = "clear" /\ ct' = [ct EXCEPT !.pc = "unprepare"] /\ uc' = uc
    BY <1>29, Zenon DEF ClearFlow, At, Goto, txvars
  <2>2. ct.pc' = "unprepare" /\ ct.job' = ct.job
    BY <2>1, Zenon DEF CtTypes
  <2> QED BY <2>1, <2>2 DEF Stage
<1>30. CASE mhi_unprepare_from_transfer
  BY <1>30 DEF mhi_unprepare_from_transfer, At, Goto
<1>31. CASE PrepareChannels
  BY <1>31, PreparePlace DEF Stage
<1>32. CASE EnableIface
  BY <1>32 DEF EnableIface, SetEnabled, At, Goto
<1>33. CASE mhi_netdev_pm_hold
  BY <1>33 DEF mhi_netdev_pm_hold, At, Goto
<1>34. CASE FirstRefill
  BY <1>34 DEF FirstRefill, mhi_netdev_alloc_skb, Spend, At, Goto
<1>35. CASE napi_enable
  BY <1>35 DEF napi_enable, At, Goto
<1>36. CASE WakeAfterReset
  BY <1>36, Zenon DEF WakeAfterReset, WakeVnds, Live, At
<1>37. CASE mhi_netdev_probe
  <2>1. ct.pc = "register" /\ ct.job = "probe" /\ UNCHANGED <<txvars, fcvars, rxvars, stale>>
    BY <1>37, Zenon DEF mhi_netdev_probe, At, Stage, CtTypes, Jobs
  <2>2. \A k \in Muxes : mp'[k] = "live" => mp[k] \in {"live", "none"}
    <3> DEFINE none == {m \in Muxes : mp[m] = "none"}
    <3>1. CASE none = {}
      BY <1>37, <3>1, Zenon DEF mhi_netdev_probe
    <3>2. CASE none # {}
      <4>1. mp' = [mp EXCEPT ![Least(none)] = "live"]
        BY <1>37, <3>2, Zenon DEF mhi_netdev_probe
      <4>2. Least(none) \in none
        BY <3>2, LeastMux, Zenon
      <4> HIDE DEF none
      <4>3. mp[Least(none)] = "none" /\ Least(none) \in Muxes
        BY <4>2, Zenon DEF none
      <4> QED BY <4>1, <4>3 DEF CtTypes, Vnds
    <3> QED BY <3>1, <3>2
  <2>3. \A k \in Muxes \cap vstop : mp'[k] = "live" => mp[k] = "live"
    BY <2>1, <2>2, Zenon DEF Probing
  <2> QED BY <2>1, <2>3 DEF txvars, fcvars, rxvars
<1>38. CASE mhi_netdev_remove
  BY <1>38 DEF mhi_netdev_remove, SetEnabled, At, Goto
<1>39. CASE CancelFlow
  BY <1>39 DEF CancelFlow, CancelSync, At, Goto
<1>40. CASE rmnet_vnd_unregister_device
  <2>1. ct.job' = ct.job /\ ct.pc' # "idle" /\ ct.pc = "unregister" /\ uc' = uc
    BY <1>40, UnregisterPlace, Zenon DEF txvars
  <2> QED BY <2>1 DEF Stage
<1>41. CASE UnregisterParent
  BY <1>41 DEF UnregisterParent, At, Goto
<1>42. CASE flush_delayed_work
  BY <1>42 DEF flush_delayed_work, At, Goto
<1>43. CASE ResetStart
  BY <1>43, Zenon DEF ResetStart, Quiet, SetEnabled, Spend
<1>44. CASE mhi_reset_chan
  BY <1>44, Zenon DEF mhi_reset_chan, At
<1> QED
  BY <1>1, <1>2, <1>3, <1>4, <1>5, <1>6, <1>7, <1>8, <1>9, <1>10, <1>11, <1>12, <1>13, <1>14,
     <1>15, <1>16, <1>17, <1>18, <1>19, <1>20, <1>21, <1>22, <1>23, <1>24, <1>25, <1>26,
     <1>27, <1>28, <1>29, <1>30, <1>31, <1>32, <1>33, <1>34, <1>35, <1>36, <1>37, <1>38,
     <1>39, <1>40, <1>41, <1>42, <1>43, <1>44, NextSteps, Zenon DEF Uplink, FlowCommand,
     Deadlines, Downlink, Controller

---------------------------------------------------------------------------
(* The inductive invariant and what follows from it.                       *)

\* All of the above.
NetInv ==
  /\ TxTypes /\ FcTypes /\ RxTypes /\ CtTypes
  /\ Stage /\ Polling /\ Deadline /\ Registered /\ ToppedUp
  /\ Probing /\ ParentOpens /\ VndsOpen

\* Before the probe nothing is up and nothing runs.
LEMMA NetStarts == NInit => NetInv
<1> SUFFICES ASSUME NInit PROVE NetInv
  OBVIOUS
<1> USE DEF NInit
<1>1. TxTypes
  <2>1. tx \in Senders
    BY Zenon DEF Senders
  <2>2. uc \in Walk
    BY Sizes, Zenon DEF Walk, UcIdle
  <2>3. ul \in 0 .. UlRing /\ pq \in Nat /\ vstop \subseteq Muxes
    BY Sizes
  <2> QED BY <2>1, <2>2, <2>3, Zenon DEF TxTypes
<1>2. FcTypes
  BY Zenon DEF FcTypes, Work
<1>3. RxTypes
  <2>1. np \in Poll
    BY Zenon DEF Poll, Packets, Idle
  <2>2. dlq \in Nat /\ dlq + Len(filled) =< DlRing
    BY NetdevAssumption
  <2> QED BY <2>1, <2>2, NoPackets, Zenon DEF RxTypes, Refill
<1>4. CtTypes
  <2>1. mp \in Vnds /\ usage \in Int
    BY DEF Vnds
  <2> QED BY <2>1, Zenon DEF CtTypes, Places, Jobs
<1>5. Stage /\ Polling
  BY Zenon DEF Stage, Polling, Idle
<1>6. Deadline /\ Registered /\ ToppedUp
  BY Zenon DEF Deadline, Registered, ToppedUp, Idle, UcIdle
<1>7. Probing /\ ParentOpens /\ VndsOpen
  BY Zenon DEF Probing, ParentOpens, VndsOpen, Serving, Live, UcIdle
<1> QED BY <1>1, <1>2, <1>3, <1>4, <1>5, <1>6, <1>7, Zenon DEF NetInv

\* Every step keeps it.
LEMMA NetKeeps == NetInv /\ [NNext]_nvars => NetInv'
<1> SUFFICES ASSUME NetInv, [NNext]_nvars PROVE NetInv'
  OBVIOUS
<1>1. CASE NNext
  <2> USE <1>1 DEF NetInv
  <2>1. TxTypes' /\ FcTypes' /\ RxTypes' /\ CtTypes'
    BY TxTypesStep, FcTypesStep, RxTypesStep, CtTypesStep, Zenon
  <2>2. Stage' /\ Polling' /\ Deadline' /\ Registered' /\ ToppedUp'
    BY StageStep, PollingStep, DeadlineStep, RegisteredStep, ToppedUpStep, Zenon
  <2>3. Probing' /\ ParentOpens' /\ VndsOpen'
    BY ProbingStep, ParentOpensStep, VndsOpenStep, Zenon
  <2> QED BY <2>1, <2>2, <2>3, Zenon
<1>2. CASE UNCHANGED nvars
  <2> USE <1>2 DEF nvars, txvars, fcvars, rxvars, ctvars
  <2>1. TxTypes' /\ FcTypes' /\ RxTypes' /\ CtTypes'
    BY DEF NetInv, TxTypes, FcTypes, RxTypes, CtTypes
  <2>2. Stage' /\ Polling' /\ Deadline'
    <3>1. Stage'
      BY DEF NetInv, Stage
    <3>2. Polling'
      BY Zenon DEF NetInv, Polling
    <3>3. Deadline'
      BY DEF NetInv, Deadline
    <3> QED BY <3>1, <3>2, <3>3
  <2>3. Registered' /\ ToppedUp'
    BY Zenon DEF NetInv, Registered, ToppedUp, DlFree
  <2>4. Probing' /\ ParentOpens'
    BY Zenon DEF NetInv, Probing, ParentOpens, Serving, ParentWaker
  <2>5. VndsOpen'
    BY Zenon DEF NetInv, VndsOpen, Serving, Live, VndWaker
  <2> QED BY <2>1, <2>2, <2>3, <2>4, <2>5, Zenon DEF NetInv
<1> QED BY <1>1, <1>2, Zenon

\* NetInv holds of every reachable state of the network device, whatever the
\* number of vnds, the sizes of the rings and the thresholds.
THEOREM NetInvariant == NSpec => []NetInv
BY NetStarts, NetKeeps, PTL DEF NSpec

\* Type correctness: in particular the uplink ring never holds more transfers than
\* it has descriptors, and the modem never more receive buffers.
THEOREM NetTypesHold == NSpec => []NTypeOK
<1>1. NetInv => NTypeOK
  <2> SUFFICES ASSUME NetInv PROVE NTypeOK
    OBVIOUS
  <2>1. dlq \in 0 .. DlRing
    <3>1. Len(filled) \in Nat /\ dlq \in Nat /\ dlq + Len(filled) =< DlRing
      BY DEF NetInv, RxTypes, PacketQ
    <3> QED BY <3>1, NetdevAssumption
  <2>2. np.pc \in {"idle", "rx", "mark", "arm", "schedule", "flow", "done"}
    BY Zenon DEF NetInv, RxTypes, Poll
  <2> QED BY <2>1, <2>2, Zenon
    DEF NetInv, NTypeOK, TxTypes, FcTypes, RxTypes, CtTypes, Work, Vnds, Refill
<1> QED BY <1>1, NetInvariant, PTL

\* A queue stopped outside a reset has somebody left who will open it: the parent a
\* transfer in flight or a completion callback, a vnd the walk of that callback, the
\* deadline of the hold or the flow command being executed (except for the three
\* races QueueReopens names).
THEOREM QueueReopensHolds == NSpec => []QueueReopens
<1>1. NetInv => QueueReopens
  BY Zenon DEF NetInv, ParentOpens, VndsOpen, Serving, QueueReopens, Quiet
<1> QED BY <1>1, NetInvariant, PTL

\* While the modem holds a mux of an enabled interface its deadline is pending or
\* running, or the poll is about to arm it.
THEOREM HeldHasDeadlineHolds == NSpec => []HeldHasDeadline
<1>1. NetInv => HeldHasDeadline
  BY Zenon DEF NetInv, Deadline, HeldHasDeadline
<1> QED BY <1>1, NetInvariant, PTL

\* The runtime PM reference of the interface is held exactly once while it is up and
\* not at all once it is down, however resets fail and removal cuts in.
THEOREM ReferenceHeldHolds == NSpec => []ReferenceHeld
<1>1. NetInv => ReferenceHeld
  BY Zenon DEF NetInv, Stage, ReferenceHeld, Quiet
<1> QED BY <1>1, NetInvariant, PTL

\* A receive ring that is short of buffers is being topped up.
THEOREM RingIsToppedUpHolds == NSpec => []RingIsToppedUp
<1>1. NetInv => RingIsToppedUp
  BY Zenon DEF NetInv, ToppedUp, RingIsToppedUp, Quiet
<1> QED BY <1>1, NetInvariant, PTL

\* No thread works on a vnd that removal has freed.
THEOREM NoFreedDeviceHolds == NSpec => []NoFreedDevice
<1>1. NetInv => NoFreedDevice
  <2> SUFFICES ASSUME NetInv PROVE NoFreedDevice
    OBVIOUS
  <2>1. fcw.pc = "open" => ct.pc # "unregister"
    BY Zenon DEF NetInv, Deadline, Stage
  <2>2. fcw.held \subseteq Muxes
    BY Zenon DEF NetInv, FcTypes, Work
  <2> QED BY <2>1, <2>2 DEF NetInv, Registered, NoFreedDevice
<1> QED BY <1>1, NetInvariant, PTL

\* Once removal has returned no poll, no deadline and no top-up is pending or running.
THEOREM NothingAfterRemovalHolds == NSpec => []NothingAfterRemoval
<1>1. NetInv => NothingAfterRemoval
  BY Zenon DEF NetInv, Polling, Deadline, ToppedUp, NothingAfterRemoval, At
<1> QED BY <1>1, NetInvariant, PTL
============================================================================
