--------------------------- MODULE MhiRingProofs ---------------------------
(***************************************************************************)
(* Proofs about MhiRing, continued from MhiRingSteps: the modem's side of  *)
(* the invariant, and the theorems.                                        *)
(***************************************************************************)
EXTENDS MhiRingSteps

---------------------------------------------------------------------------
(* The modem, the doorbells and the events.                                *)

\* What the doorbells never change.
LEMMA DoorbellKeepsOn ==
  ASSUME dv \in DevView, NEW w
  PROVE  /\ DevDoorbell(dv, w).on = dv.on /\ DevDoorbell(dv, w).rp = dv.rp
         /\ DevDoorbell(dv, w).wp = w /\ DevDoorbell(dv, w).poll = ch.burst
         /\ mhi_ring_chan_db(w) \/ KickIfM0(w) => dv'.on = dv.on /\ dv'.rp = dv.rp
BY Zenon DEF DevView, DevDoorbell, mhi_ring_chan_db, process_db, KickIfM0

\* A modem that has just been told to start does nothing until it is told more.
LEMMA FreshIsIdle ==
  ASSUME Fresh PROVE dv.on /\ dv.rp = 0 /\ dv.wp = 0 /\ ~dv.poll /\ DevKnows = 0
BY Zenon DEF Fresh, DevKnows

\* The modem's channel is on as far as the commands say.
LEMMA DeviceStep ==
  ASSUME Types, Threads, InTime, Commands, Rings, Device, RingNext
  PROVE  Device'
<1>a. /\ opn \in {"closed", "start_wait", "open", "reset_wait", "drain", "gone"}
      /\ comp \in BOOLEAN /\ cdn \in Nat /\ cdb \in Nat /\ cdn <= cdb /\ cdb <= Len(cmds)
      /\ dv \in DevView /\ (opn = "gone" => pmst = "ERR") /\ (rem # "idle" => pmst = "ERR")
      /\ ((chst = "ENABLED") <=> (opn = "open" /\ rem \in {"idle", "lock"}))
  BY Zenon DEF Types, Threads
<1>b. /\ UNCHANGED <<opn, chst, comp, ccs, hung, cdn, dv>> /\ (pmst' # "ERR" => pmst # "ERR")
      => Device'
  BY DEF Device, Fresh
<1>c. opn = "open" /\ UNCHANGED <<opn, chst>> /\ (dv.on => dv'.on) => Device'
  BY Zenon DEF Device
<1>1. ASSUME NEW b \in Buf, mhi_queue_skb(b) PROVE Device'
  BY <1>a, <1>c, <1>1, DoorbellKeepsOn, Zenon DEF mhi_queue_skb, ClientMayQueue, SubRest, thrv
<1>2. ASSUME NEW b \in Buf, mhi_queue_dma(b) PROVE Device'
  BY <1>a, <1>c, <1>2, DoorbellKeepsOn, Zenon DEF mhi_queue_dma, ClientMayQueue, SubRest, thrv
<1>3. ASSUME NEW b \in Buf, QueueBufCheck(b) PROVE Device'
  BY <1>b, <1>3, Zenon DEF QueueBufCheck, SubRest, thrv, cmdv
<1>4. CASE mhi_gen_tre
  BY <1>b, <1>4, Zenon DEF mhi_gen_tre, SubRest, thrv, cmdv
<1>5. CASE mhi_queue_buf
  BY <1>a, <1>c, <1>5, DoorbellKeepsOn, Zenon DEF mhi_queue_buf, SubRest, thrv, Threads
<1>6. CASE DevCommand
  <2>1. /\ pmst # "ERR" /\ ~hung /\ cdn < cdb /\ cdn' = cdn + 1
        /\ UNCHANGED <<opn, chst, comp, ccs, hung, pmst>>
    BY <1>6, Zenon DEF DevCommand, DevRest, thrv
  <2>2. cmds # <<>> /\ ~Silent
    BY <1>a, <2>1, ShortRings DEF Silent
  <2>3. opn \in {"start_wait", "reset_wait"} /\ ~comp
    BY <1>a, <2>1, <2>2, Zenon DEF Commands
  <2>4. CASE opn = "start_wait"
    <3>1. cmds = <<"START">> /\ cwp = 0
      BY <2>1, <2>2, <2>4, Zenon DEF Commands, Rings
    <3>2. cdn = 0
      BY <1>a, <2>1, <3>1, ShortRings
    <3>3. Fresh'
      BY <1>6, <3>1, <3>2, ShortRings DEF DevCommand, Fresh
    <3> QED
      BY <1>a, <2>1, <2>3, <2>4, <3>3 DEF Device
  <2>5. CASE opn = "reset_wait"
    <3>1. cmds = <<"RESET">>
      BY <2>1, <2>2, <2>3, <2>5, Zenon DEF Commands
    <3>2. cdn = 0
      BY <1>a, <2>1, <3>1, ShortRings
    <3>3. ~dv'.on
      BY <1>a, <1>6, <3>1, <3>2, ShortRings DEF DevCommand, DevView
    <3> QED
      BY <1>a, <2>1, <2>3, <2>5, <3>3 DEF Device
  <2> QED
    BY <2>3, <2>4, <2>5, Zenon
<1>7. CASE DevServe
  <2>1. /\ opn # "start_wait" /\ dv'.on = dv.on
        /\ UNCHANGED <<opn, chst, comp, hung, cdn, pmst>>
    <3>1. ASSUME opn = "start_wait" PROVE Fresh
      BY <1>a, <1>7, <3>1, Zenon DEF DevServe, Device
    <3>2. ASSUME opn = "start_wait" PROVE FALSE
      BY <3>1, <3>2, <1>7, FreshIsIdle, Zenon DEF DevServe
    <3>3. dv'.on = dv.on
      BY <1>a, <1>7, Zenon DEF DevServe, DevView
    <3> QED
      BY <1>7, <3>2, <3>3, Zenon DEF DevServe, DevRest, thrv
  <2> QED
    BY <1>a, <2>1, Zenon DEF Device
<1>8. CASE DevStopPolling
  <2>1. /\ opn # "start_wait" /\ dv'.on = dv.on
        /\ UNCHANGED <<opn, chst, comp, hung, cdn, pmst>>
    <3>1. ASSUME opn = "start_wait" PROVE Fresh
      BY <1>a, <1>8, <3>1, Zenon DEF DevStopPolling, Device
    <3>2. ASSUME opn = "start_wait" PROVE FALSE
      BY <3>1, <3>2, <1>8, FreshIsIdle, Zenon DEF DevStopPolling
    <3>3. dv'.on = dv.on
      BY <1>a, <1>8, Zenon DEF DevStopPolling, DevView
    <3> QED
      BY <1>8, <3>2, <3>3, Zenon DEF DevStopPolling, DevRest, thrv
  <2> QED
    BY <1>a, <2>1, Zenon DEF Device
<1>9. CASE DevHang
  BY <1>a, <1>9, Zenon DEF DevHang, thrv, cmdv, powv, Device, Fresh
<1>10. CASE parse_xfer_event
  <2>1. CASE UNCHANGED dv
    BY <1>b, <1>10, <2>1, Zenon DEF parse_xfer_event, EvRest, thrv, cmdv, powv
  <2>2. CASE chst = "ENABLED" /\ dv' = DevDoorbell(dv, wp)
    BY <1>a, <1>c, <1>10, <2>2, DoorbellKeepsOn, Zenon DEF parse_xfer_event, EvRest, thrv
  <2> QED
    BY <1>10, <2>1, <2>2, Zenon DEF parse_xfer_event, CompleteUpTo, DbModeEvent
<1>11. CASE XferCallback
  BY <1>b, <1>11, Zenon DEF XferCallback, EvRest, thrv, cmdv, powv
<1>12. CASE mhi_process_cmd_completion
  <2>1. /\ cdn > 0 /\ pmst # "ERR" /\ ccs' = "SUCCESS"
        /\ UNCHANGED <<opn, pmst, chst, dv, hung>>
    BY <1>12, Zenon DEF mhi_process_cmd_completion, thrv, powv
  <2>2. comp'
    BY <1>12, Zenon DEF mhi_process_cmd_completion
  <2> QED
    BY <1>a, <2>1, <2>2 DEF Device, Fresh
<1>13. CASE EnterM2
  BY <1>b, <1>13, Zenon DEF EnterM2, PowRest, thrv, cmdv, powv, cntv, budg
<1>14. CASE EnterM3
  BY <1>b, <1>14, Zenon DEF EnterM3, PowRest, thrv, cmdv, powv, cntv, budg
<1>15. CASE mhi_pm_m0_transition
  <2>1. UNCHANGED <<opn, chst, comp, ccs, hung, cdn>> /\ pmst # "ERR" /\ dv'.on = dv.on
    BY <1>a, <1>15, DoorbellKeepsOn, Zenon DEF mhi_pm_m0_transition, PowRest, thrv
  <2>2. opn = "start_wait" => UNCHANGED dv
    BY <1>15, Zenon DEF mhi_pm_m0_transition, Rings, dbv
  <2> QED
    BY <1>b, <2>1, <2>2, Zenon DEF Device
<1>16. CASE Fault
  BY <1>b, <1>16, Zenon DEF Fault, PowRest, thrv
<1>17. CASE PrepareChannel
  <2>1. /\ opn = "closed" /\ pmst # "ERR" /\ opn' = "start_wait" /\ ~comp'
        /\ UNCHANGED <<hung, cdn, dv, chst, pmst>>
    BY <1>17, Zenon DEF PrepareChannel, mhi_send_cmd, OpRest
  <2>2. cdn = 0
    BY <1>a, <2>1, ShortRings DEF Commands, Silent
  <2> QED
    BY <1>a, <2>1, <2>2 DEF Device
<1>18. CASE ChannelStarted
  <2>1. /\ opn = "start_wait" /\ UNCHANGED <<pmst, dv, hung>> /\ (comp \/ Unanswered)
        /\ opn' \in {"open", "closed"} /\ ((opn' = "open" \/ chst' = "ENABLED") => comp /\ ccs = "SUCCESS")
        /\ (opn' = "closed" => ~(comp /\ ccs = "SUCCESS"))
    BY <1>a, <1>18, Zenon DEF ChannelStarted, OpRest, powv, InTime
  <2>2. opn' = "open" \/ chst' = "ENABLED" => dv.on
    BY <2>1, FreshIsIdle, Zenon DEF Device
  <2>3. opn' = "closed" => hung \/ pmst = "ERR"
    BY <2>1, Zenon DEF Commands, Unanswered
  <2> QED
    BY <2>1, <2>2, <2>3, Zenon DEF Device
<1>19. CASE UnprepareChannel
  <2>1. opn = "open" /\ opn' = "reset_wait" /\ ~comp' /\ chst' # "ENABLED" /\ UNCHANGED <<pmst, dv>>
    BY <1>19, Zenon DEF UnprepareChannel, OpRest
  <2>2. dv.on
    BY <1>19, Zenon DEF UnprepareChannel, Device
  <2>3. pmst # "ERR" => cdn' = 0
    BY <1>a, <1>19, <2>1, ShortRings DEF UnprepareChannel, mhi_send_cmd, Commands
  <2> QED
    BY <1>a, <2>1, <2>2, <2>3, Zenon DEF Device
<1>20. CASE ChannelReset
  BY <1>a, <1>20, Zenon DEF ChannelReset, Unanswered, OpRest, cmdv, powv, Device, InTime
<1>21. CASE mhi_reset_data_chan
  BY <1>b, <1>21, Zenon DEF mhi_reset_data_chan, OpRest, thrv, cmdv, powv
<1>22. CASE ChannelClosed
  BY <1>a, <1>22, Zenon DEF ChannelClosed, OpRest, cmdv, powv, Device
<1>23. CASE RemoveWake
  BY <1>a, <1>23, Zenon DEF RemoveWake, RemRest, OpRest, powv, Device, Fresh
<1>24. CASE RemoveStop
  BY <1>a, <1>24, Zenon DEF RemoveStop, RemRest, OpRest, powv, Device, Fresh
<1>25. CASE RemoveDrained
  BY <1>a, <1>25, Zenon DEF RemoveDrained, RemRest, OpRest, powv, Device, Fresh
<1>26. CASE RemoveClient
  BY <1>a, <1>26, Zenon DEF RemoveClient, RemRest, OpRest, powv, Device, Fresh
<1>27. CASE RemoveDeinit
  BY <1>a, <1>27, Zenon DEF RemoveDeinit, RemRest, OpRest, powv, Device, Fresh
<1>28. CASE mhi_driver_probe
  BY <1>a, <1>28, Zenon DEF mhi_driver_probe, Device
<1> QED
  BY <1>1, <1>2, <1>3, <1>4, <1>5, <1>6, <1>7, <1>8, <1>9, <1>10, <1>11, <1>12, <1>13,
     <1>14, <1>15, <1>16, <1>17, <1>18, <1>19, <1>20, <1>21, <1>22, <1>23, <1>24, <1>25,
     <1>26, <1>27, <1>28, Zenon
     DEF RingNext, QueueStep, DevStep, EventStep, PowerStep, OpenStep, RemoveStep

\* The pointers of a running channel are in the ring, and their distances in order.
LEMMA Order ==
  ASSUME Types, Doorbells
  PROVE  /\ rp \in Idx /\ wp \in Idx /\ cwp \in Idx /\ dv.rp \in Idx /\ dv.wp \in Idx
         /\ DevKnows \in Idx /\ Dist(dv.rp) \in Nat /\ Dist(dv.wp) \in Nat /\ Dist(DevKnows) \in Nat
         /\ Dist(cwp) \in Nat /\ Dist(wp) \in Nat
         /\ chst = "ENABLED" => /\ Dist(dv.rp) <= Dist(DevKnows) /\ Dist(DevKnows) <= Dist(cwp)
                                /\ Dist(cwp) <= Dist(wp)
<1>1. rp \in Idx /\ wp \in Idx /\ cwp \in Idx /\ dv.rp \in Idx /\ dv.wp \in Idx /\ DevKnows \in Idx
  BY KnowsIdx, Zenon DEF Types
<1>2. \A a \in Idx : Dist(a) \in Nat
  BY <1>1, UsedRange DEF Dist
<1> QED
  BY <1>1, <1>2, Zenon DEF Doorbells

\* With an empty ring every pointer of the channel is at rp.
LEMMA AllAtRp ==
  ASSUME Types, Doorbells, chst = "ENABLED", rp = wp
  PROVE  cwp = rp /\ DevKnows = rp /\ dv.rp = rp
<1>1. Dist(wp) = 0
  BY Order, UsedRange, Zenon DEF Dist
<1>2. Dist(cwp) = 0 /\ Dist(DevKnows) = 0 /\ Dist(dv.rp) = 0
  BY <1>1, Order
<1> QED
  BY <1>2, Order, UsedRange DEF Dist

\* Steps that leave the doorbells and the ring alone.
LEMMA DoorbellsSame ==
  ASSUME Doorbells, UNCHANGED <<ch, dbm, dv, cwp, rp, wp, ev>>,
         chst' = "ENABLED" => chst = "ENABLED", pmst' = "M0" => pmst = "M0",
         pmst' = "M0" /\ sub'.pc # "added" => sub.pc # "added"
  PROVE  Doorbells'
BY Zenon DEF Doorbells, Dist, DevKnows

\* mhi_ring_chan_db announces all there is, at once or through the context.
LEMMA RingKeepsDoorbells ==
  ASSUME Types, Doorbells, NEW w \in Idx, chst = "ENABLED" => Dist(wp) <= Dist(w), mhi_ring_chan_db(w),
         wp' = w, UNCHANGED <<rp, ch, ev, chst>>
  PROVE  Doorbells'
<1>1. /\ ch.burst \in BOOLEAN /\ cwp' = w /\ Dist(w) \in Nat /\ dbm \in BOOLEAN /\ dv \in DevView
      /\ process_db(dv, w)
  BY KindTypes, UsedRange DEF Types, mhi_ring_chan_db, Dist
<1>2. CASE ch.burst /\ ~dbm
  <2>1. UNCHANGED <<dv, dbm>>
    BY <1>1, <1>2, Zenon DEF process_db
  <2>2. DevKnows' = IF dv.poll THEN w ELSE DevKnows
    BY <1>1, <2>1, Zenon DEF DevKnows
  <2>3. chst = "ENABLED" => /\ Dist(dv.rp) <= Dist(DevKnows') /\ Dist(DevKnows') <= Dist(w)
    BY <1>1, <2>2, Order
  <2> QED
    BY <1>1, <1>2, <2>1, <2>3 DEF Doorbells, Dist
<1>3. CASE ~(ch.burst /\ ~dbm)
  <2>1. dv' = DevDoorbell(dv, w) /\ dbm' = (dbm /\ ~ch.burst)
    BY <1>1, <1>3, Zenon DEF process_db
  <2>2. dv'.rp = dv.rp /\ dv'.wp = w /\ dv'.poll = ch.burst /\ DevKnows' = w
    BY <1>1, <2>1, DoorbellKeepsOn, Zenon DEF DevKnows
  <2>3. chst = "ENABLED" => Dist(dv.rp) <= Dist(w)
    BY <1>1, Order
  <2>4. (~ch.burst => dbm' /\ ~dv'.poll) /\ (ch.burst => dv'.poll)
    BY <1>1, <2>1, <2>2, Zenon DEF Doorbells
  <2> QED
    BY <1>1, <2>2, <2>3, <2>4 DEF Doorbells, Dist
<1> QED
  BY <1>2, <1>3, Zenon

\* The end of mhi_queue_*: announce in M0, else leave it to the transition to M0.
LEMMA KickKeepsDoorbells ==
  ASSUME Types, Doorbells, NEW w \in Idx, chst = "ENABLED" => Dist(wp) <= Dist(w), KickIfM0(w),
         wp' = w, UNCHANGED <<rp, ch, ev, chst, pmst>>
  PROVE  Doorbells'
<1>1. CASE pmst = "M0"
  BY <1>1, RingKeepsDoorbells, Zenon DEF KickIfM0
<1>2. CASE pmst # "M0"
  <2>1. UNCHANGED <<cwp, dbm, dv>> /\ Dist(w) \in Nat
    BY <1>2, UsedRange DEF KickIfM0, Types, Dist
  <2>2. chst = "ENABLED" => Dist(cwp) <= Dist(w)
    BY <2>1, Order
  <2> QED
    BY <1>2, <2>1, <2>2, Zenon DEF Doorbells, Dist, DevKnows
<1> QED
  BY <1>1, <1>2, Zenon

\* No pointer overtakes another and no doorbell is forgotten.
LEMMA DoorbellsStep ==
  ASSUME Types, Threads, Room, Commands, Rings, Device, Events, Doorbells, RingNext
  PROVE  Doorbells'
<1>a. /\ opn \in {"closed", "start_wait", "open", "reset_wait", "drain", "gone"}
      /\ rem \in {"idle", "lock", "drain", "client", "deinit", "done"} /\ dv \in DevView
      /\ ((chst = "ENABLED") <=> (opn = "open" /\ rem \in {"idle", "lock"}))
      /\ ch.burst \in BOOLEAN /\ dbm \in BOOLEAN
  BY KindTypes, Zenon DEF Types, Threads
<1>b. chst' # "ENABLED" /\ UNCHANGED <<ch, dbm, dv>> => Doorbells'
  BY DEF Doorbells
<1>1. ASSUME NEW b \in Buf, mhi_queue_skb(b) PROVE Doorbells'
  <2>1. /\ wp' = Bump(wp) /\ Bump(wp) \in Idx /\ KickIfM0(Bump(wp))
        /\ UNCHANGED <<rp, ch, ev, chst, pmst>>
    BY <1>1, BumpIdx, Order, Zenon DEF mhi_queue_skb, AddElement, SubRest
  <2>2. Dist(Bump(wp)) = Dist(wp) + 1
    BY <1>1, UsedAdd, Order, Zenon DEF mhi_queue_skb, mhi_is_ring_full, Dist
  <2> QED
    BY <2>1, <2>2, Order, KickKeepsDoorbells
<1>2. ASSUME NEW b \in Buf, mhi_queue_dma(b) PROVE Doorbells'
  <2>1. /\ wp' = Bump(wp) /\ Bump(wp) \in Idx /\ KickIfM0(Bump(wp))
        /\ UNCHANGED <<rp, ch, ev, chst, pmst>>
    BY <1>2, BumpIdx, Order, Zenon DEF mhi_queue_dma, AddElement, SubRest
  <2>2. Dist(Bump(wp)) = Dist(wp) + 1
    BY <1>2, UsedAdd, Order, Zenon DEF mhi_queue_dma, mhi_is_ring_full, Dist
  <2> QED
    BY <2>1, <2>2, Order, KickKeepsDoorbells
<1>3. ASSUME NEW b \in Buf, QueueBufCheck(b) PROVE Doorbells'
  BY <1>3, DoorbellsSame, Zenon DEF QueueBufCheck, ClientMayQueue, SubRest, ringv, dbv
<1>4. CASE mhi_gen_tre
  <2>1. sub.pc = "checked" /\ UNCHANGED <<ch, dbm, dv, cwp, ev, chst, pmst, rp>>
    BY <1>4, Zenon DEF mhi_gen_tre, SubRest, AddElement, dbv, ringv
  <2>2. CASE UNCHANGED wp
    BY <2>1, <2>2, DoorbellsSame, Zenon
  <2>3. CASE wp' = Bump(wp) /\ sub'.pc = "added"
    <3>1. Dist(Bump(wp)) = Dist(wp) + 1
      BY <2>1, UsedAdd, Order, Zenon DEF Room, Dist
    <3> QED
      BY <2>1, <2>3, <3>1, Order DEF Doorbells, Dist, DevKnows
  <2> QED
    BY <1>4, <2>2, <2>3, Zenon DEF mhi_gen_tre, AddElement, Types, Client, ringv
<1>5. CASE mhi_queue_buf
  <2>1. KickIfM0(wp) /\ UNCHANGED <<rp, wp, ch, ev, chst, pmst>>
    BY <1>5, Zenon DEF mhi_queue_buf, SubRest, ringv
  <2> QED
    BY <2>1, Order, KickKeepsDoorbells
<1>6. CASE DevCommand
  <2>1. cmds # <<>> /\ pmst # "ERR"
    BY <1>6, ShortRings DEF DevCommand, Types
  <2>2. chst' # "ENABLED" /\ UNCHANGED <<ch, dbm>>
    BY <1>a, <1>6, <2>1, Zenon DEF DevCommand, DevRest, dbv, Commands
  <2>3. ~dv'.poll
    BY <1>a, <1>6, Zenon DEF DevCommand, DevView
  <2> QED
    BY <2>2, <2>3, Zenon DEF Doorbells
<1>7. CASE DevServe
  <2>1. /\ dv'.poll = dv.poll /\ dv'.wp = dv.wp /\ dv'.rp = Bump(dv.rp) /\ dv.rp # DevKnows
        /\ UNCHANGED <<rp, wp, cwp, ch, dbm, chst, pmst, sub>>
    BY <1>a, <1>7, Zenon DEF DevServe, DevRest, DevView, ringv, dbv
  <2>2. DevKnows' = DevKnows
    BY <2>1, Zenon DEF DevKnows
  <2>3. chst = "ENABLED" => Dist(Bump(dv.rp)) <= Dist(DevKnows)
    <3>1. Dist(dv.rp) # Dist(DevKnows)
      BY <2>1, Order, UsedInjective, Zenon DEF Dist
    <3>2. ASSUME chst = "ENABLED" PROVE Bump(dv.rp) # rp
      BY <3>1, <3>2, Order, UsedNotFull DEF Dist
    <3>3. Bump(dv.rp) # rp => Dist(Bump(dv.rp)) = Dist(dv.rp) + 1
      BY Order, UsedAdd, Zenon DEF Dist
    <3> QED
      BY <3>1, <3>2, <3>3, Order
  <2>4. (\E i \in 1..Len(ev) : ev[i].t = "db") => \E i \in 1..Len(ev') : ev'[i].t = "db"
    BY <1>7, AppendFacts, <1>a DEF DevServe, Types, EventQ, Event, DevView
  <2> QED
    BY <2>1, <2>2, <2>3, <2>4, Zenon DEF Doorbells, Dist
<1>8. CASE DevStopPolling
  <2>1. /\ dv.poll /\ ~dv'.poll /\ dv'.wp = cwp /\ dv'.rp = cwp /\ dv.rp = cwp
        /\ UNCHANGED <<rp, wp, cwp, ch, dbm, chst, pmst, sub>>
    BY <1>a, <1>8, Zenon DEF DevStopPolling, DevRest, DevView, ringv, dbv
  <2>2. DevKnows' = cwp
    BY <2>1, Zenon DEF DevKnows
  <2>3. \E i \in 1..Len(ev') : ev'[i].t = "db"
    BY <1>8, <1>a, AppendFacts DEF DevStopPolling, Types, EventQ
  <2> QED
    BY <2>1, <2>2, <2>3, Order DEF Doorbells, Dist
<1>9. CASE DevHang
  BY <1>9, DoorbellsSame, Zenon DEF DevHang, thrv, cmdv, powv, cntv, budg, dbv, ringv
<1>10. CASE parse_xfer_event
  <2>1. /\ ev # <<>> /\ ev' = Tail(ev) /\ ev \in Seq(Event)
        /\ UNCHANGED <<rp, wp, ch, chst, pmst, sub>>
    BY <1>10, Zenon DEF parse_xfer_event, EvRest, Types, EventQ, powv
  <2>2. CASE chst # "ENABLED"
    BY <1>b, <1>10, <2>1, <2>2, Zenon DEF parse_xfer_event
  <2>3. CASE chst = "ENABLED" /\ Head(ev).t # "db"
    <3>1. UNCHANGED <<cwp, dbm, dv>>
      <4>0. Head(ev) \in Event
        BY <2>1, TailFacts, Zenon
      <4>1. Head(ev).t \in {"tx", "stale"}
        BY <2>3, <4>0, Zenon DEF Event
      <4> QED
        BY <1>10, <2>3, <4>1, Zenon DEF parse_xfer_event, CompleteUpTo
    <3>2. (\E i \in 1..Len(ev) : ev[i].t = "db") => \E i \in 1..Len(ev') : ev'[i].t = "db"
      <4>0. SUFFICES ASSUME NEW i \in 1..Len(ev), ev[i].t = "db"
                     PROVE  \E k \in 1..Len(ev') : ev'[k].t = "db"
        OBVIOUS
      <4>1. ev' = Tail(ev)
        BY <2>1, Zenon
      <4>2. i # 1 /\ i - 1 \in 1..Len(Tail(ev)) /\ Tail(ev)[i - 1] = ev[i]
        BY <2>1, <2>3, <4>0, TailFacts
      <4> QED
        BY <4>0, <4>1, <4>2, Zenon
    <3> QED
      BY <2>1, <3>1, <3>2, Zenon DEF Doorbells, Dist, DevKnows
  <2>4. CASE chst = "ENABLED" /\ Head(ev).t = "db"
    <3>1. DbModeEvent
      BY <1>10, <2>4, Zenon DEF parse_xfer_event
    <3>2. CASE wp # rp /\ pmst = "M0"
      <4>1. /\ cwp' = wp /\ dv'.rp = dv.rp /\ dv'.wp = wp /\ dv'.poll = ch.burst /\ dbm' = ~ch.burst
        BY <1>a, <3>1, <3>2, DoorbellKeepsOn DEF DbModeEvent
      <4>2. DevKnows' = wp /\ Dist(dv.rp) <= Dist(wp)
        BY <2>4, <4>1, Order DEF DevKnows
      <4>3. ~ch.burst => dbm' /\ ~dv'.poll
        BY <4>1, Zenon
      <4>4. ch.burst => dv'.poll
        BY <4>1, Zenon
      <4>5. UNCHANGED <<rp, wp, ch>>
        BY <2>1, Zenon
      <4> QED
        BY <2>4, <4>1, <4>2, <4>3, <4>4, <4>5, Order DEF Doorbells, Dist
    <3>3. CASE ~(wp # rp /\ pmst = "M0")
      <4>1. dbm' /\ UNCHANGED <<cwp, dv>>
        BY <3>1, <3>3, Zenon DEF DbModeEvent
      <4>2. pmst = "M0" => cwp = rp /\ DevKnows = rp
        BY <2>4, <3>3, AllAtRp, Zenon
      <4>3. pmst = "M0" /\ ~dv.poll => dv.wp = cwp
        BY <4>2, Zenon DEF DevKnows
      <4> QED
        BY <1>a, <2>1, <2>4, <4>1, <4>3, Zenon DEF Doorbells, Dist, DevKnows
    <3> QED
      BY <3>2, <3>3, Zenon
  <2> QED
    BY <2>2, <2>3, <2>4, Zenon
<1>11. CASE XferCallback
  <2>1. UNCHANGED <<ch, dbm, dv, cwp, wp, ev, chst, pmst, sub>> /\ h.on
    BY <1>11, Zenon DEF XferCallback, EvRest, dbv, powv
  <2>2. CASE rp = h.upto
    BY <1>11, <2>1, <2>2, DoorbellsSame, Zenon DEF XferCallback
  <2>3. CASE rp # h.upto
    <3>1. rp' = Bump(rp) /\ chst = "ENABLED" /\ Dist(h.upto) <= Dist(dv.rp) /\ h.upto \in Idx
      BY <1>11, <2>3, Zenon DEF XferCallback, Threads, Events, Types, Handling
    <3>2. Dist(h.upto) \in Nat /\ Dist(h.upto) # 0
      BY <2>3, <3>1, Order, UsedRange DEF Dist
    <3>3. rp # dv.rp /\ rp # DevKnows /\ rp # cwp /\ rp # wp
      BY <3>1, <3>2, Order, UsedRange DEF Dist
    <3>4. /\ Dist(dv.rp)' = Dist(dv.rp) - 1 /\ Dist(DevKnows)' = Dist(DevKnows) - 1
          /\ Dist(cwp)' = Dist(cwp) - 1 /\ Dist(wp)' = Dist(wp) - 1
      BY <2>1, <3>1, <3>3, Order, UsedDel, Zenon DEF Dist, DevKnows
    <3> QED
      BY <2>1, <3>1, <3>4, Order DEF Doorbells
  <2> QED
    BY <2>2, <2>3, Zenon
<1>12. CASE mhi_process_cmd_completion
  BY <1>12, DoorbellsSame, Zenon DEF mhi_process_cmd_completion, thrv, cmdv, powv, cntv, budg, dbv,
     ringv
<1>13. CASE EnterM2
  BY <1>13, DoorbellsSame, Zenon DEF EnterM2, PowRest, thrv, cmdv, powv, cntv, budg, dbv, ringv
<1>14. CASE EnterM3
  BY <1>14, DoorbellsSame, Zenon DEF EnterM3, PowRest, thrv, cmdv, powv, cntv, budg, dbv, ringv
<1>15. CASE mhi_pm_m0_transition
  <2>1. UNCHANGED <<rp, wp, ch, ev, chst>>
    BY <1>15, Zenon DEF mhi_pm_m0_transition, PowRest, ringv
  <2>2. CASE chst # "ENABLED"
    <3>1. CASE UNCHANGED <<dbv, dv>>
      BY <1>b, <2>1, <2>2, <3>1, Zenon DEF dbv
    <3>2. CASE mhi_ring_chan_db(wp)
      BY <2>1, <2>2, <3>2, Order, RingKeepsDoorbells, Zenon
    <3> QED
      BY <1>15, <3>1, <3>2, Zenon DEF mhi_pm_m0_transition
  <2>3. CASE chst = "ENABLED" /\ rp = wp
    <3>1. UNCHANGED <<dbm, cwp, dv, sub>>
      BY <1>15, <2>3, Zenon DEF mhi_pm_m0_transition, dbv, PowRest
    <3>2. cwp = wp /\ (~dv.poll => dv.wp = cwp)
      BY <2>3, AllAtRp, Zenon DEF DevKnows
    <3> QED
      BY <2>1, <2>3, <3>1, <3>2, Zenon DEF Doorbells, Dist, DevKnows
  <2>4. CASE chst = "ENABLED" /\ rp # wp
    <3>1. mhi_ring_chan_db(wp)
      BY <1>a, <1>15, <2>4, Zenon DEF mhi_pm_m0_transition, Rings
    <3> QED
      BY <2>1, <3>1, Order, RingKeepsDoorbells
  <2> QED
    BY <2>2, <2>3, <2>4, Zenon
<1>16. CASE Fault
  BY <1>16, DoorbellsSame, Zenon DEF Fault, PowRest, ringv, dbv
<1>17. CASE PrepareChannel
  <2>1. chst' # "ENABLED" /\ dbm' /\ UNCHANGED <<ch, dv>>
    BY <1>17, Zenon DEF PrepareChannel, mhi_init_chan_ctxt, OpRest
  <2> QED
    BY <2>1, Zenon DEF Doorbells
<1>18. CASE ChannelStarted
  <2>1. UNCHANGED <<ch, dbm, dv, cwp, ev>> /\ opn = "start_wait"
    BY <1>18, Zenon DEF ChannelStarted, OpRest, dbv
  <2>2. CASE comp /\ ccs = "SUCCESS"
    <3>1. UNCHANGED <<rp, wp>> /\ rp = 0 /\ wp = 0 /\ cwp = 0 /\ dbm /\ Fresh
      BY <1>18, <2>1, <2>2, Zenon DEF ChannelStarted, ringv, Rings, Device
    <3>2. dv.rp = 0 /\ dv.wp = 0 /\ DevKnows' = 0
      BY <2>1, <3>1, FreshIsIdle, Zenon DEF DevKnows
    <3>3. Dist(0) \in Nat
      BY <3>1, Order, Zenon
    <3> QED
      BY <2>1, <3>1, <3>2, <3>3 DEF Doorbells, Dist
  <2>3. CASE ~(comp /\ ccs = "SUCCESS")
    BY <1>a, <1>b, <1>18, <2>1, <2>3, Zenon DEF ChannelStarted
  <2> QED
    BY <2>2, <2>3, Zenon
<1>19. CASE UnprepareChannel
  BY <1>a, <1>b, <1>19, Zenon DEF UnprepareChannel, OpRest, RemRest, dbv
<1>20. CASE ChannelReset
  BY <1>a, <1>b, <1>20, Zenon DEF ChannelReset, OpRest, RemRest, dbv
<1>21. CASE mhi_reset_data_chan
  BY <1>a, <1>b, <1>21, Zenon DEF mhi_reset_data_chan, OpRest, dbv, Threads
<1>22. CASE ChannelClosed
  BY <1>a, <1>b, <1>22, Zenon DEF ChannelClosed, OpRest, RemRest, dbv
<1>23. CASE RemoveWake
  BY <1>23, DoorbellsSame, Zenon DEF RemoveWake, RemRest, OpRest, dbv, powv, ringv
<1>24. CASE RemoveStop
  BY <1>a, <1>b, <1>24, Zenon DEF RemoveStop, OpRest, RemRest, dbv
<1>25. CASE RemoveDrained
  BY <1>a, <1>b, <1>25, Zenon DEF RemoveDrained, OpRest, RemRest, dbv
<1>26. CASE RemoveClient
  BY <1>a, <1>b, <1>26, Zenon DEF RemoveClient, OpRest, RemRest, dbv
<1>27. CASE RemoveDeinit
  BY <1>a, <1>b, <1>27, Zenon DEF RemoveDeinit, OpRest, RemRest, dbv
<1>28. CASE mhi_driver_probe
  <2>1. chst' # "ENABLED" /\ UNCHANGED <<ch, dbm>> /\ ~dv'.poll
    BY <1>a, <1>28, Zenon DEF mhi_driver_probe, dbv
  <2> QED
    BY <2>1, Zenon DEF Doorbells
<1> QED
  BY <1>1, <1>2, <1>3, <1>4, <1>5, <1>6, <1>7, <1>8, <1>9, <1>10, <1>11, <1>12, <1>13,
     <1>14, <1>15, <1>16, <1>17, <1>18, <1>19, <1>20, <1>21, <1>22, <1>23, <1>24, <1>25,
     <1>26, <1>27, <1>28, Zenon
     DEF RingNext, QueueStep, DevStep, EventStep, PowerStep, OpenStep, RemoveStep

\* The modem serves an element: it is one further from rp.
LEMMA ServeAdvances ==
  ASSUME Types, Doorbells, chst = "ENABLED", dv.rp # DevKnows
  PROVE  Dist(Bump(dv.rp)) = Dist(dv.rp) + 1 /\ Dist(dv.rp) < Dist(DevKnows)
<1>1. Dist(dv.rp) # Dist(DevKnows)
  BY Order, UsedInjective, Zenon DEF Dist
<1>2. Dist(dv.rp) < Dist(DevKnows)
  BY <1>1, Order
<1>3. Bump(dv.rp) # rp
  BY <1>2, Order, UsedNotFull, Zenon DEF Dist
<1> QED
  BY <1>2, <1>3, Order, UsedAdd, Zenon DEF Dist

\* A modem that serves or polls is in an open life of the channel.
LEMMA ServesOpen ==
  ASSUME Types, Threads, Device, pmst = "M0", dv.on, ~hung, dv.rp # DevKnows \/ dv.poll
  PROVE  ~Past
<1>1. ASSUME opn = "start_wait" PROVE FALSE
  <2>1. Fresh
    BY <1>1, Zenon DEF Device
  <2> QED
    BY <2>1, FreshIsIdle, Zenon
<1> QED
  BY <1>1, Zenon DEF Past, Device, Threads, Types

\* The distances of the pointers that the events name.
LEMMA EventDist ==
  ASSUME Types
  PROVE  /\ Len(ev) \in Nat /\ \A i \in 1..Len(ev) : ev[i] \in Event /\ ev[i].p \in Idx /\ Dist(ev[i].p) \in Nat
         /\ h.upto \in Idx /\ Dist(h.upto) \in Nat /\ dv.rp \in Idx /\ Dist(dv.rp) \in Nat
<1>1. Len(ev) \in Nat /\ \A i \in 1..Len(ev) : ev[i] \in Event
  BY ElementOfSeq DEF Types, EventQ
<1>2. \A i \in 1..Len(ev) : ev[i].p \in Idx
  BY <1>1, Zenon DEF Event
<1>3. h.upto \in Idx /\ dv.rp \in Idx /\ rp \in Idx
  BY Zenon DEF Types, Handling, DevView
<1>4. \A a \in Idx : Dist(a) \in Nat
  BY <1>3, UsedRange DEF Dist
<1> QED
  BY <1>1, <1>2, <1>3, <1>4, Zenon

\* Steps that leave the events and the tasklet alone.
LEMMA EventsSame ==
  ASSUME Events, UNCHANGED <<rp, ev, h>>, dv'.rp = dv.rp, Past' => Past,
         chst' = "ENABLED" => chst = "ENABLED"
  PROVE  Events'
BY Zenon DEF Events, Dist

\* Completions come in ring order, and none outlives its channel.
LEMMA EventsStep ==
  ASSUME Types, Threads, Commands, Device, Doorbells, Events, RingNext
  PROVE  Events'
<1>a. /\ opn \in {"closed", "start_wait", "open", "reset_wait", "drain", "gone"}
      /\ rem \in {"idle", "lock", "drain", "client", "deinit", "done"} /\ dv \in DevView
      /\ ((chst = "ENABLED") <=> (opn = "open" /\ rem \in {"idle", "lock"}))
      /\ ev \in Seq(Event) /\ h \in Handling
  BY Zenon DEF Types, Threads, EventQ
<1>b. Past /\ chst' # "ENABLED" /\ UNCHANGED ev => Events'
  BY Zenon DEF Events
<1>1. ASSUME NEW b \in Buf, mhi_queue_skb(b) PROVE Events'
  BY <1>a, <1>1, DoorbellKeepsOn, EventsSame, Zenon DEF mhi_queue_skb, SubRest, AddElement, thrv, ringv, Past
<1>2. ASSUME NEW b \in Buf, mhi_queue_dma(b) PROVE Events'
  BY <1>a, <1>2, DoorbellKeepsOn, EventsSame, Zenon DEF mhi_queue_dma, SubRest, AddElement, thrv, ringv, Past
<1>3. ASSUME NEW b \in Buf, QueueBufCheck(b) PROVE Events'
  BY <1>a, <1>3, DoorbellKeepsOn, EventsSame, Zenon DEF QueueBufCheck, SubRest, AddElement, thrv, ringv, Past
<1>4. CASE mhi_gen_tre
  BY <1>a, <1>4, DoorbellKeepsOn, EventsSame, Zenon DEF mhi_gen_tre, SubRest, AddElement, thrv, ringv, Past
<1>5. CASE mhi_queue_buf
  BY <1>a, <1>5, DoorbellKeepsOn, EventsSame, Zenon DEF mhi_queue_buf, SubRest, AddElement, thrv, ringv, Past
<1>6. CASE DevCommand
  <2>1. cmds # <<>> /\ pmst # "ERR"
    BY <1>6, ShortRings DEF DevCommand, Types
  <2>2. chst' # "ENABLED" /\ UNCHANGED <<opn, rem, ev>>
    BY <1>a, <1>6, <2>1, Zenon DEF DevCommand, DevRest, thrv, Commands
  <2> QED
    BY <2>2, Zenon DEF Events, Past
<1>7. CASE DevServe
  <2>1. /\ dv'.rp = Bump(dv.rp) /\ dv.rp # DevKnows /\ UNCHANGED <<rp, chst, h, opn, rem>>
    BY <1>a, <1>7, Zenon DEF DevServe, DevRest, DevView, ringv, thrv
  <2>2. ~Past'
    BY <1>7, <2>1, ServesOpen, Zenon DEF DevServe, Past
  <2>3. CASE chst # "ENABLED"
    BY <2>1, <2>2, <2>3, Zenon DEF Events
  <2>4. CASE chst = "ENABLED"
    <3>1. Dist(dv.rp)' = Dist(dv.rp) + 1
      BY <2>1, <2>4, ServeAdvances, Zenon DEF Dist
    <3>2. CASE ev' = ev
      BY <2>1, <2>2, <2>4, <3>1, <3>2, EventDist DEF Events, Dist
    <3>3. CASE ev' = Append(ev, [t |-> "tx", p |-> dv.rp])
      <4> DEFINE e == [t |-> "tx", p |-> dv.rp]
      <4>1. e \in Event /\ e.p = dv.rp
        BY EventDist, Zenon DEF Event
      <4> HIDE DEF e
      <4>2. /\ Len(ev') = Len(ev) + 1 /\ Len(ev) \in Nat /\ ev'[Len(ev) + 1] = e
            /\ \A i \in 1..Len(ev) : ev'[i] = ev[i]
        BY <1>a, <3>3, <4>1, AppendFacts DEF e
      <4>3. /\ \A i \in 1..Len(ev) : ev[i].t = "tx" => Dist(ev[i].p) < Dist(dv.rp)
            /\ h.on => Dist(h.upto) <= Dist(dv.rp)
        BY <2>4, Zenon DEF Events
      <4>4. \A i \in 1..Len(ev') : i = Len(ev) + 1 \/ i \in 1..Len(ev)
        BY <4>2
      <4>5. \A i \in 1..Len(ev') : ev'[i].t = "tx" =>
              /\ Dist(ev'[i].p) < Dist(dv.rp) + 1
              /\ h.on => Dist(h.upto) <= Dist(ev'[i].p)
        <5>1. \A i \in 1..Len(ev) : ev[i].t = "tx" =>
                Dist(ev[i].p) < Dist(dv.rp) + 1 /\ (h.on => Dist(h.upto) <= Dist(ev[i].p))
          <6>1. \A i \in 1..Len(ev) : ev[i].t = "tx" /\ h.on => Dist(h.upto) <= Dist(ev[i].p)
            BY <2>4, Zenon DEF Events
          <6> QED
            BY <4>3, <6>1, EventDist
        <5>2. Dist(dv.rp) < Dist(dv.rp) + 1
          BY EventDist
        <5> QED
          BY <4>1, <4>2, <4>3, <4>4, <5>1, <5>2, Zenon
      <4>6. \A i, j \in 1..Len(ev') : i < j /\ ev'[i].t = "tx" /\ ev'[j].t = "tx" =>
              Dist(ev'[i].p) < Dist(ev'[j].p)
        <5> SUFFICES ASSUME NEW i \in 1..Len(ev'), NEW j \in 1..Len(ev'), i < j,
                            ev'[i].t = "tx", ev'[j].t = "tx"
                     PROVE  Dist(ev'[i].p) < Dist(ev'[j].p)
          OBVIOUS
        <5>1. i \in 1..Len(ev) /\ ev'[i] = ev[i]
          BY <4>2
        <5>2. CASE j = Len(ev) + 1
          BY <4>1, <4>2, <4>3, <5>1, <5>2, Zenon
        <5>3. CASE j \in 1..Len(ev)
          BY <2>4, <4>2, <5>1, <5>3, Zenon DEF Events
        <5> QED
          BY <4>4, <5>2, <5>3, Zenon
      <4>7. h.on => Dist(h.upto) <= Dist(dv.rp) + 1
        BY <4>3, EventDist
      <4> QED
        BY <2>1, <2>2, <3>1, <4>5, <4>6, <4>7, Zenon DEF Events, Dist
    <3> QED
      BY <1>7, <3>2, <3>3, Zenon DEF DevServe
  <2> QED
    BY <2>3, <2>4, Zenon
<1>8. CASE DevStopPolling
  <2>1. /\ dv'.rp = dv.rp /\ UNCHANGED <<rp, chst, h, opn, rem>>
    BY <1>a, <1>8, Zenon DEF DevStopPolling, DevRest, DevView, ringv, thrv
  <2>2. ~Past'
    BY <1>8, <2>1, ServesOpen, Zenon DEF DevStopPolling, Past
  <2>3. 0 \in Idx
    BY NAssumption DEF Idx
  <2>4. /\ Len(ev') = Len(ev) + 1 /\ Len(ev) \in Nat /\ ev'[Len(ev) + 1].t = "db"
        /\ \A i \in 1..Len(ev) : ev'[i] = ev[i]
    BY <1>a, <1>8, <2>3, AppendFacts DEF DevStopPolling, Event
  <2>5. \A i \in 1..Len(ev') : ev'[i].t = "tx" => i \in 1..Len(ev)
    BY <2>4
  <2> QED
    BY <2>1, <2>2, <2>4, <2>5, Zenon DEF Events, Dist
<1>9. CASE DevHang
  BY <1>9, EventsSame, Zenon DEF DevHang, thrv, cmdv, powv, cntv, budg, dbv, ringv, Past
<1>10. CASE parse_xfer_event
  <2>1. /\ ev # <<>> /\ ev' = Tail(ev) /\ ~h.on /\ UNCHANGED <<rp, chst, opn, rem>>
    BY <1>10, Zenon DEF parse_xfer_event, EvRest, thrv
  <2>2. /\ Len(ev) \in Nat /\ Len(ev) > 0 /\ Len(ev') = Len(ev) - 1 /\ Head(ev) = ev[1]
        /\ \A i \in 1..Len(ev') : ev'[i] = ev[i + 1] /\ i + 1 \in 1..Len(ev)
    BY <1>a, <2>1, TailFacts
  <2>3. Past' => \A i \in 1..Len(ev') : ev'[i].t = "stale"
    BY <2>1, <2>2, Zenon DEF Past, Events
  <2>4. CASE chst # "ENABLED"
    BY <2>1, <2>3, <2>4, Zenon DEF Events
  <2>5. CASE chst = "ENABLED"
    <3>1. dv'.rp = dv.rp
      BY <1>a, <1>10, DoorbellKeepsOn DEF parse_xfer_event, CompleteUpTo, DbModeEvent
    <3>2. \A i \in 1..Len(ev') : ev'[i].t = "tx" => Dist(ev'[i].p) < Dist(dv.rp)
      BY <2>2, <2>5, Zenon DEF Events
    <3>3. \A i, j \in 1..Len(ev') : i < j /\ ev'[i].t = "tx" /\ ev'[j].t = "tx" =>
            Dist(ev'[i].p) < Dist(ev'[j].p)
      <4> SUFFICES ASSUME NEW i \in 1..Len(ev'), NEW j \in 1..Len(ev'), i < j,
                          ev'[i].t = "tx", ev'[j].t = "tx"
                   PROVE  Dist(ev'[i].p) < Dist(ev'[j].p)
        OBVIOUS
      <4>1. /\ ev'[i] = ev[i + 1] /\ i + 1 \in 1..Len(ev) /\ ev'[j] = ev[j + 1]
            /\ j + 1 \in 1..Len(ev) /\ i + 1 < j + 1
        BY <2>2
      <4> QED
        BY <2>5, <4>1, Zenon DEF Events
    <3>4. CASE Head(ev).t # "tx"
      <4>1. ~h'.on
        BY <1>10, <2>1, <3>4, Zenon DEF parse_xfer_event, DbModeEvent
      <4> QED
        BY <2>1, <2>3, <3>1, <3>2, <3>3, <4>1, Zenon DEF Events, Dist
    <3>5. CASE Head(ev).t = "tx"
      <4>1. h'.on /\ h'.upto = Bump(ev[1].p)
        BY <1>10, <2>2, <2>5, <3>5 DEF parse_xfer_event, CompleteUpTo
      <4>2. 1 \in 1..Len(ev) /\ ev[1].p \in Idx /\ Dist(ev[1].p) < Dist(dv.rp)
        BY <2>2, <2>5, <3>5, EventDist DEF Events
      <4>3. Bump(ev[1].p) # rp
        BY <4>2, EventDist, UsedNotFull, Zenon DEF Dist, Types
      <4>4. Dist(Bump(ev[1].p)) = Dist(ev[1].p) + 1
        BY <4>2, <4>3, UsedAdd, Zenon DEF Dist, Types
      <4>5. Dist(Bump(ev[1].p)) <= Dist(dv.rp)
        BY <4>2, <4>4, EventDist
      <4>6. \A i \in 1..Len(ev') : ev'[i].t = "tx" => Dist(Bump(ev[1].p)) <= Dist(ev'[i].p)
        <5> SUFFICES ASSUME NEW i \in 1..Len(ev'), ev'[i].t = "tx"
                     PROVE  Dist(Bump(ev[1].p)) <= Dist(ev'[i].p)
          OBVIOUS
        <5>1. ev'[i] = ev[i + 1] /\ i + 1 \in 1..Len(ev) /\ 1 < i + 1
          BY <2>2
        <5>2. Dist(ev[1].p) < Dist(ev[i + 1].p)
          BY <2>2, <2>5, <3>5, <4>2, <5>1, Zenon DEF Events
        <5> QED
          BY <4>2, <4>4, <5>1, <5>2, EventDist
      <4> QED
        BY <2>1, <2>3, <3>1, <3>2, <3>3, <4>1, <4>5, <4>6, Zenon DEF Events, Dist
    <3> QED
      BY <3>4, <3>5, Zenon
  <2> QED
    BY <2>4, <2>5, Zenon
<1>11. CASE XferCallback
  <2>1. h.on /\ UNCHANGED <<ev, dv, chst, opn, rem>>
    BY <1>11, Zenon DEF XferCallback, EvRest, thrv
  <2>2. CASE rp = h.upto
    <3>1. rp' = rp /\ ~h'.on
      BY <1>a, <1>11, <2>2, Zenon DEF XferCallback, Handling
    <3> QED
      BY <2>1, <3>1, Zenon DEF Events, Dist, Past
  <2>3. CASE rp # h.upto
    <3>1. rp' = Bump(rp) /\ h' = h /\ chst = "ENABLED" /\ ~Past
      BY <1>a, <1>11, <2>3, Zenon DEF XferCallback, Threads, Past
    <3>2. rp \in Idx /\ Dist(h.upto) # 0
      <4>1. rp \in Idx /\ h.upto \in Idx
        BY EventDist, Zenon DEF Types
      <4> QED
        BY <2>3, <4>1, UsedRange, Zenon DEF Dist
    <3>3. \A a \in Idx : Dist(h.upto) <= Dist(a) => get_used_ring_elements(rp', a) = Dist(a) - 1
      BY <3>1, <3>2, EventDist, UsedRange, UsedDel DEF Dist
    <3>4. /\ get_used_ring_elements(rp', h.upto) = Dist(h.upto) - 1
          /\ get_used_ring_elements(rp', dv.rp) = Dist(dv.rp) - 1
          /\ Dist(h.upto) <= Dist(dv.rp)
      <4>1. Dist(h.upto) <= Dist(dv.rp)
        BY <2>1, <3>1, Zenon DEF Events
      <4> QED
        BY <3>3, <4>1, EventDist
    <3>5. \A i \in 1..Len(ev) : ev[i].t = "tx" =>
            /\ get_used_ring_elements(rp', ev[i].p) = Dist(ev[i].p) - 1
            /\ Dist(h.upto) <= Dist(ev[i].p) /\ Dist(ev[i].p) < Dist(dv.rp)
      BY <2>1, <3>1, <3>3, EventDist, Zenon DEF Events
    <3>6. \A i, j \in 1..Len(ev) : i < j /\ ev[i].t = "tx" /\ ev[j].t = "tx" =>
            get_used_ring_elements(rp', ev[i].p) < get_used_ring_elements(rp', ev[j].p)
      BY <3>1, <3>5, EventDist DEF Events
    <3>7. \A i \in 1..Len(ev) : ev[i].t = "tx" =>
            /\ get_used_ring_elements(rp', h.upto) <= get_used_ring_elements(rp', ev[i].p)
            /\ get_used_ring_elements(rp', ev[i].p) < get_used_ring_elements(rp', dv.rp)
      BY <3>4, <3>5, EventDist
    <3>8. get_used_ring_elements(rp', h.upto) <= get_used_ring_elements(rp', dv.rp)
      BY <3>4, EventDist
    <3>9. ~Past'
      BY <2>1, <3>1, Zenon DEF Past
    <3> QED
      BY <2>1, <3>1, <3>6, <3>7, <3>8, <3>9 DEF Events, Dist
  <2> QED
    BY <2>2, <2>3, Zenon
<1>12. CASE mhi_process_cmd_completion
  BY <1>12, EventsSame, Zenon DEF mhi_process_cmd_completion, thrv, cmdv, powv, cntv, budg, dbv,
     ringv, Past
<1>13. CASE EnterM2
  BY <1>13, EventsSame, Zenon DEF EnterM2, PowRest, thrv, cmdv, powv, cntv, budg, dbv, ringv, Past
<1>14. CASE EnterM3
  BY <1>14, EventsSame, Zenon DEF EnterM3, PowRest, thrv, cmdv, powv, cntv, budg, dbv, ringv, Past
<1>15. CASE mhi_pm_m0_transition
  BY <1>a, <1>15, DoorbellKeepsOn, EventsSame, Zenon DEF mhi_pm_m0_transition, PowRest, dbv, ringv, thrv, Past
<1>16. CASE Fault
  BY <1>16, EventsSame, Zenon DEF Fault, PowRest, ringv, thrv, Past
<1>17. CASE PrepareChannel
  BY <1>a, <1>b, <1>17, Zenon DEF PrepareChannel, OpRest, RemRest, Past
<1>18. CASE ChannelStarted
  <2>1. opn = "start_wait" /\ UNCHANGED ev /\ ~h.on /\ h' = h
    BY <1>18, Zenon DEF ChannelStarted, OpRest
  <2> QED
    BY <2>1, Zenon DEF Events, Past
<1>19. CASE UnprepareChannel
  <2>1. opn' = "reset_wait" /\ rem' \in {"idle", "lock"} /\ chst' # "ENABLED"
    BY <1>a, <1>19, Zenon DEF UnprepareChannel
  <2> QED
    BY <2>1, Zenon DEF Events, Past
<1>20. CASE ChannelReset
  <2>1. /\ Len(ev') \in Nat /\ \A i \in 1..Len(ev') : ev'[i].t = "stale"
    BY <1>a, <1>20, MarkedEvents, Zenon DEF ChannelReset, EventQ
  <2>2. chst' # "ENABLED"
    BY <1>a, <1>20, Zenon DEF ChannelReset
  <2> QED
    BY <2>1, <2>2, Zenon DEF Events
<1>21. CASE mhi_reset_data_chan
  BY <1>a, <1>b, <1>21, Zenon DEF mhi_reset_data_chan, OpRest, Past, Threads
<1>22. CASE ChannelClosed
  BY <1>a, <1>b, <1>22, Zenon DEF ChannelClosed, OpRest, RemRest, Past
<1>23. CASE RemoveWake
  BY <1>23, EventsSame, Zenon DEF RemoveWake, RemRest, OpRest, ringv, Past
<1>24. CASE RemoveStop
  <2>1. /\ Len(ev') \in Nat /\ \A i \in 1..Len(ev') : ev'[i].t = "stale"
    BY <1>a, <1>24, MarkedEvents, Zenon DEF RemoveStop, EventQ
  <2>2. chst' # "ENABLED"
    BY <1>a, <1>24, Zenon DEF RemoveStop
  <2> QED
    BY <2>1, <2>2, Zenon DEF Events
<1>25. CASE RemoveDrained
  BY <1>a, <1>b, <1>25, Zenon DEF RemoveDrained, OpRest, RemRest, Past
<1>26. CASE RemoveClient
  BY <1>a, <1>b, <1>26, Zenon DEF RemoveClient, OpRest, RemRest, Past
<1>27. CASE RemoveDeinit
  BY <1>a, <1>b, <1>27, Zenon DEF RemoveDeinit, OpRest, RemRest, Past
<1>28. CASE mhi_driver_probe
  <2>1. ev' = <<>> /\ chst' # "ENABLED"
    BY <1>a, <1>28, Zenon DEF mhi_driver_probe
  <2> QED
    BY <2>1 DEF Events
<1> QED
  BY <1>1, <1>2, <1>3, <1>4, <1>5, <1>6, <1>7, <1>8, <1>9, <1>10, <1>11, <1>12, <1>13,
     <1>14, <1>15, <1>16, <1>17, <1>18, <1>19, <1>20, <1>21, <1>22, <1>23, <1>24, <1>25,
     <1>26, <1>27, <1>28, Zenon
     DEF RingNext, QueueStep, DevStep, EventStep, PowerStep, OpenStep, RemoveStep

---------------------------------------------------------------------------
(* The invariant.                                                          *)

\* A channel at rest satisfies the invariant.
LEMMA RingStarts == ASSUME RingInit PROVE RingInv
<1>1. 0 \in Idx
  BY NAssumption DEF Idx
<1>2. get_used_ring_elements(0, 0) = 0
  BY DEF get_used_ring_elements
<1>3. ev \in EventQ /\ cmds \in CommandQ /\ Len(ev) = 0 /\ Len(cmds) = 0
  BY DEF RingInit, EventQ, CommandQ
<1>4. dv \in DevView /\ h \in Handling /\ sub \in Client
  BY <1>1, Zenon DEF RingInit, DevView, Handling, Client
<1>5. slot \in Slots /\ chn \in Flags
  BY Zenon DEF RingInit, Slots, Flags
<1>6. ini \in BOOLEAN /\ hung \in BOOLEAN /\ dbm \in BOOLEAN /\ wk \in BOOLEAN /\ comp \in BOOLEAN
  BY Zenon DEF RingInit
<1>7. Types
  BY <1>1, <1>3, <1>4, <1>5, <1>6, ChannelsAssumption DEF RingInit, Types
<1>8. Threads /\ Room
  BY DEF RingInit, Threads, Room
<1>9. Commands /\ Device
  BY Zenon DEF RingInit, Commands, Device
<1>10. Rings
  BY Zenon DEF RingInit, Rings
<1>11. Doorbells /\ Events
  BY <1>3 DEF RingInit, Doorbells, Events
<1>12. PendingBalanced
  BY <1>2 DEF RingInit, PendingBalanced
<1> QED
  BY <1>7, <1>8, <1>9, <1>10, <1>11, <1>12, Zenon DEF RingInv

\* Every step keeps it.
LEMMA RingKeeps == ASSUME InTime, RingInv, [RingNext]_ringVars PROVE RingInv'
<1>1. CASE RingNext
  <2> USE <1>1 DEF RingInv
  <2>1. Types' /\ Threads'
    BY TypesStep, ThreadsStep, Zenon
  <2>2. Room' /\ PendingBalanced'
    BY RoomStep, PendingStep, Zenon
  <2>3. Rings' /\ Commands' /\ Device'
    BY RingsStep, CommandsStep, DeviceStep, Zenon
  <2>4. Doorbells' /\ Events'
    BY DoorbellsStep, EventsStep, Zenon
  <2> QED
    BY <2>1, <2>2, <2>3, <2>4, Zenon
<1>2. CASE UNCHANGED ringVars
  <2> USE <1>2 DEF RingInv, ringVars, ringv, dbv, cmdv, powv, cntv, thrv
  <2>1. Types'
    BY DEF Types
  <2>2. Threads'
    BY Zenon DEF Threads
  <2>3. Room' /\ PendingBalanced'
    BY Zenon DEF Room, InRing, PendingBalanced
  <2>4. Rings' /\ Commands' /\ Device'
    BY Zenon DEF Rings, Commands, Silent, Device, Fresh
  <2>5. Doorbells' /\ Events'
    BY Zenon DEF Doorbells, DevKnows, Dist, Events, Past
  <2> QED
    BY <2>1, <2>2, <2>3, <2>4, <2>5, Zenon
<1> QED
  BY <1>1, <1>2, Zenon

\* The invariant holds in every reachable state: the pointers of a channel
\* stay in order, whatever the client, the opener, the tasklet, the modem, its
\* power states and the recovery do.
THEOREM RingInvariant == ASSUME InTime PROVE RingSpec => []RingInv
<1>1. RingInit => RingInv
  BY RingStarts, Zenon
<1>2. RingInv /\ [RingNext]_ringVars => RingInv'
  BY RingKeeps, Zenon
<1> QED
  BY <1>1, <1>2, PTL DEF RingSpec

\* Every variable of a channel keeps its type: indices stay in the ring, the
\* runtime reference is never taken twice nor given back twice.
THEOREM RingTypesHold == ASSUME InTime PROVE RingSpec => []RingTypeOK
<1>1. RingInv => RingTypeOK
  <2> SUFFICES ASSUME RingInv PROVE RingTypeOK
    OBVIOUS
  <2>1. Types /\ PendingBalanced
    BY Zenon DEF RingInv
  <2>2. sub.pc \in {"idle", "checked", "added"}
    BY <2>1, Zenon DEF Types, Client
  <2>3. Len(cmds) \in Nat
    BY <2>1 DEF Types, CommandQ
  <2>4. get_used_ring_elements(rp, wp) \in 0 .. N - 1
    BY <2>1, UsedRange, Zenon DEF Types
  <2>5. pend \in -1..N /\ rref \in 0..1
    BY <2>1, <2>4, NAssumption DEF PendingBalanced
  <2>6. cdn \in 0..cdb /\ cdb \in 0..Len(cmds)
    BY <2>1, <2>3 DEF Types
  <2> QED
    BY <2>1, <2>2, <2>5, <2>6, Zenon DEF RingTypeOK, Types, Slots, Flags, DevView
<1> QED
  BY <1>1, RingInvariant, PTL

\* pending_pkts and the runtime reference it stands for agree with the ring in
\* every reachable state (mhi_queue_skb, mhi_queue_buf, parse_xfer_event,
\* mhi_reset_data_chan), through sleeps, closes and recoveries.
THEOREM PendingBalancedHolds == ASSUME InTime PROVE RingSpec => []PendingBalanced
<1>1. RingInv => PendingBalanced
  BY Zenon DEF RingInv
<1> QED
  BY <1>1, RingInvariant, PTL

\* No doorbell is lost (mhi_db_brstmode, parse_xfer_event's DB_MODE case,
\* mhi_pm_m0_transition): a modem that has not been told of a buffer is about
\* to be.
THEOREM NoLostDoorbellHolds == ASSUME InTime PROVE RingSpec => []NoLostDoorbell
<1>1. RingInv => NoLostDoorbell
  BY Zenon DEF RingInv, Doorbells, DevKnows, NoLostDoorbell
<1> QED
  BY <1>1, RingInvariant, PTL

\* The rings of a channel are freed (mhi_deinit_chan_ctxt) only when every
\* buffer has gone back to the client.
THEOREM DrainedBeforeFreeHolds == ASSUME InTime PROVE RingSpec => []DrainedBeforeFree
<1>1. RingInv => DrainedBeforeFree
  BY Zenon DEF RingInv, Rings, DrainedBeforeFree
<1> QED
  BY <1>1, RingInvariant, PTL
=============================================================================
