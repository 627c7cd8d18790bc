------------------------------ MODULE MhiRing ------------------------------
(***************************************************************************)
(* One channel of the MHI host driver (gl-feed/kernel/pcie_mhi): transfer  *)
(* ring and buffer ring, doorbells with and without burst mode, completion *)
(* events, the START and RESET commands, draining, and the removal of the  *)
(* channel's driver after an error (core/mhi_main.c, core/mhi_init.c).     *)
(*                                                                         *)
(* Four actors interleave: the client that queues buffers, the thread that *)
(* opens and closes the channel, the event tasklet, and the recovery that  *)
(* removes the driver.  The modem is external: it serves what the doorbell *)
(* or the polled context tells it, in order.  The power states are those   *)
(* of MhiPm that the data path distinguishes.                              *)
(***************************************************************************)
EXTENDS Integers, Sequences, FiniteSets

CONSTANTS Buf,      \* buffers of the client
          N,        \* elements of the ring, one of which stays free
          Channels, \* channel kinds to explore, a subset of ChannelKinds
          Late,     \* commands a working modem may answer after the timeout
          Racy,     \* an error may strike inside mhi_queue_buf
          FaultMax, \* bound: errors
          HangMax,  \* bound: times the modem stops answering
          OpenMax,  \* bound: channel starts
          EvMax,    \* bound: completion events in flight
          CmdMax    \* bound: commands in flight

ASSUME NAssumption == N \in Nat /\ N >= 2
ASSUME BoundsAssumption == FaultMax \in Nat /\ HangMax \in Nat /\ OpenMax \in Nat /\ EvMax \in Nat

VARIABLES
  ch,                    \* kind of the channel
  rp, wp, slot, chn,     \* tre_ring/buf_ring indices, cb_buf, CHAIN flag
  ini, cwp, dbm,         \* rings allocated, *ctxt_wp, db_cfg.db_mode
  chst, comp, ccs,       \* ch_state, completion, code of the last command
  cmds, cdb, cdn,        \* command ring, its doorbell, commands served
  pmst, wk,              \* pm_state, a wake-up is under way
  pend, rref,            \* pending_pkts, the data path's runtime reference
  dv, hung, ev, h,       \* modem's view, does it answer, events, tasklet's event
  opn, rem, was, mtx,    \* opener, remover, the state it found, channel mutex
  sub,                   \* client inside mhi_queue_buf
  faults, hangs, opens   \* budgets used

ringv == <<rp, wp, slot, chn, ini>>
dbv   == <<cwp, dbm>>
cmdv  == <<comp, ccs, cmds, cdb, cdn>>
powv  == <<pmst, wk>>
cntv  == <<pend, rref>>
thrv  == <<opn, rem, was, mtx>>
budg  == <<faults, hangs, opens>>
ringVars == <<ch, ringv, dbv, chst, cmdv, powv, cntv, dv, hung, ev, h, thrv, sub,
              budg>>

None == "none"
Idx  == 0 .. N - 1

---------------------------------------------------------------------------
(* of_parse_ch_cfg: what is configured of a channel.                       *)

ChannelKinds ==
  {[dir |-> "UL", xfer |-> "SKB",    burst |-> TRUE],    \* IP_HW_0_OUT
   [dir |-> "DL", xfer |-> "DMA",    burst |-> TRUE],    \* IP_HW_0_IN
   [dir |-> "UL", xfer |-> "BUFFER", burst |-> FALSE],   \* QMI, MBIM, DUN, ...
   [dir |-> "DL", xfer |-> "BUFFER", burst |-> FALSE]}

ASSUME ChannelsAssumption == Channels \subseteq ChannelKinds

---------------------------------------------------------------------------
(* Ring pointers.                                                          *)

\* mhi_add_ring_element and mhi_del_ring_element: the pointer wraps at the end
Bump(i) == IF i + 1 >= N THEN 0 ELSE i + 1

get_used_ring_elements(r, w) == IF w >= r THEN w - r ELSE N - (r - w)

get_nr_avail_ring_elements(r, w) ==
  IF w < r THEN (r - w) - 1 ELSE r + ((N - w) - 1)

mhi_is_ring_full(r, w) == Bump(w) = r

---------------------------------------------------------------------------
(* Doorbells.  A burst channel rings only in doorbell mode and then leaves *)
(* it; the modem polls the context until it says otherwise.                *)

\* the modem learns w; on a burst channel it polls the context from now on
DevDoorbell(d, w) == [d EXCEPT !.wp = w, !.poll = ch.burst]

\* mhi_db_brstmode, mhi_db_brstmode_disable
process_db(d, w) ==
  IF ch.burst /\ ~dbm THEN dv' = d /\ UNCHANGED dbm
                      ELSE dv' = DevDoorbell(d, w) /\ dbm' = (dbm /\ ~ch.burst)

\* mhi_ring_chan_db, for a ring whose write pointer is w
mhi_ring_chan_db(w) == cwp' = w /\ process_db(dv, w)

---------------------------------------------------------------------------
(* Packet accounting: the first pending packet of the controller takes a   *)
(* runtime reference, the last one gives it back.                          *)

PendingGet(c) == /\ pend' = pend + c
                 /\ rref' = IF c > 0 /\ pend' = 1 THEN rref + 1 ELSE rref
PendingPut(c) == /\ pend' = pend - c
                 /\ rref' = IF c > 0 /\ pend' = 0 THEN rref - 1 ELSE rref
Counted == IF ch.dir = "UL" THEN 1 ELSE 0

\* mhi_assert_dev_wake in M2 and the runtime reference in M3 bring the modem
\* back
Waking == wk \/ pmst \in {"M2", "M3"}

---------------------------------------------------------------------------
(* Queueing.  mhi_queue_skb and mhi_queue_dma hold pm_lock from the error  *)
(* check to the doorbell; mhi_queue_buf checks, writes the descriptor and  *)
(* kicks in three steps, and takes the lock only for the last.             *)

InRing == {slot[i] : i \in {j \in Idx : get_used_ring_elements(rp, j) <
                                         get_used_ring_elements(rp, wp)}}
ClientMayQueue(b) == opn = "open" /\ b \notin InRing /\ sub.pc = "idle"

SubRest == UNCHANGED <<ch, chst, cmdv, pmst, hung, ev, h, thrv, budg>>

\* mutant: the buffer entry is taken after the write pointer has moved
AddElementLate(b, chain) ==
  /\ slot' = [slot EXCEPT ![Bump(wp)] = b] /\ chn' = [chn EXCEPT ![wp] = chain]
  /\ wp' = Bump(wp) /\ UNCHANGED <<rp, ini>>

\* mhi_gen_tre and its counterparts: descriptor and buffer entry at wp
AddElement(b, chain) ==
  /\ slot' = [slot EXCEPT ![wp] = b] /\ chn' = [chn EXCEPT ![wp] = chain]
  /\ wp' = Bump(wp) /\ UNCHANGED <<rp, ini>>

KickIfM0(w) == IF pmst = "M0" THEN mhi_ring_chan_db(w)
                              ELSE UNCHANGED <<cwp, dbm, dv>>

mhi_queue_skb(b) ==
  /\ ch.xfer = "SKB" /\ ClientMayQueue(b)
  /\ ~mhi_is_ring_full(rp, wp) /\ pmst # "ERR"
  /\ wk' = Waking /\ PendingGet(Counted)
  /\ AddElement(b, FALSE) /\ KickIfM0(wp')
  /\ UNCHANGED sub /\ SubRest

mhi_queue_dma(b) ==
  /\ ch.xfer = "DMA" /\ ClientMayQueue(b)
  /\ ~mhi_is_ring_full(rp, wp) /\ pmst # "ERR"
  /\ wk' = Waking /\ PendingGet(Counted)
  /\ AddElement(b, FALSE) /\ KickIfM0(wp')
  /\ UNCHANGED sub /\ SubRest

\* mhi_queue_buf: the unlocked check; uci chains a buffer only if another
\* element stays free and more data follows
QueueBufCheck(b) ==
  /\ ch.xfer = "BUFFER" /\ ClientMayQueue(b)
  /\ pmst # "ERR" /\ ~mhi_is_ring_full(rp, wp)
  /\ \E chain \in BOOLEAN :
       /\ chain => ch.dir = "UL" /\ get_nr_avail_ring_elements(rp, wp) > 1
       /\ sub' = [pc |-> "checked", b |-> b, chain |-> chain]
  /\ UNCHANGED <<ringv, dbv, wk, cntv, dv>> /\ SubRest

\* mhi_gen_tre, whose mapping may fail
mhi_gen_tre ==
  /\ sub.pc = "checked"
  /\ \/ AddElement(sub.b, sub.chain) /\ sub' = [sub EXCEPT !.pc = "added"]
     \/ sub' = [sub EXCEPT !.pc = "idle"] /\ UNCHANGED ringv
  /\ UNCHANGED <<dbv, wk, cntv, dv>> /\ SubRest

\* the rest of mhi_queue_buf under pm_lock
mhi_queue_buf ==
  /\ sub.pc = "added" /\ sub' = [sub EXCEPT !.pc = "idle"]
  /\ wk' = Waking /\ PendingGet(Counted) /\ KickIfM0(wp)
  /\ UNCHANGED ringv /\ SubRest

QueueStep == \/ \E b \in Buf : \/ mhi_queue_skb(b) \/ mhi_queue_dma(b)
                               \/ QueueBufCheck(b)
             \/ mhi_gen_tre \/ mhi_queue_buf

---------------------------------------------------------------------------
(* The modem (external).                                                   *)

DevKnows == IF dv.poll THEN cwp ELSE dv.wp
DevRest == UNCHANGED <<hung, ch, ringv, dbv, chst, comp, ccs, pmst, wk, cntv, h, thrv,
                       sub, budg>>

DevCommand ==
  /\ pmst # "ERR" /\ cdn < cdb /\ ~hung
  /\ cdn' = cdn + 1
  /\ dv' = IF cmds[cdn + 1] = "START"
           THEN [on |-> TRUE, rp |-> 0, wp |-> cwp, poll |-> FALSE]
           ELSE [dv EXCEPT !.on = FALSE, !.poll = FALSE]
  /\ UNCHANGED <<cmds, cdb, ev>> /\ DevRest

\* one element; an event for it unless it is chained to the next
DevServe ==
  /\ pmst = "M0" /\ dv.on /\ dv.rp # DevKnows /\ Len(ev) < EvMax /\ ~hung
  /\ dv' = [dv EXCEPT !.rp = Bump(dv.rp)]
  /\ ev' = IF chn[dv.rp] THEN ev ELSE Append(ev, [t |-> "tx", p |-> dv.rp])
  /\ UNCHANGED <<cmds, cdb, cdn>> /\ DevRest

\* a burst channel found empty goes back to doorbell mode and says so
DevStopPolling ==
  /\ pmst = "M0" /\ dv.on /\ dv.poll /\ dv.rp = cwp /\ Len(ev) < EvMax /\ ~hung
  /\ dv' = [dv EXCEPT !.poll = FALSE, !.wp = dv.rp]
  /\ ev' = Append(ev, [t |-> "db", p |-> 0])
  /\ UNCHANGED <<cmds, cdb, cdn>> /\ DevRest

\* the modem stops answering, until the host resets it
DevHang ==
  /\ ~hung /\ hangs < HangMax /\ hung' = TRUE /\ hangs' = hangs + 1
  /\ UNCHANGED <<ch, ringv, dbv, chst, cmdv, powv, cntv, dv, ev, h, thrv, sub,
                 faults, opens>>

DevStep == DevCommand \/ DevServe \/ DevStopPolling \/ DevHang

---------------------------------------------------------------------------
(* Event tasklet: mhi_ev_task, mhi_process_data_event_ring,                *)
(* parse_xfer_event.  It holds the event ring's lock throughout and the    *)
(* channel's lock while it works on an event (h.on).                       *)

EvRest == UNCHANGED <<hung, ch, wp, slot, chn, ini, chst, cmdv, powv, thrv, sub, budg>>

\* buffers up to dp go back to the client, one callback each
CompleteUpTo(dp) == /\ h' = [on |-> TRUE, upto |-> dp]
                    /\ UNCHANGED <<cwp, dbm, dv>>

\* mutant: the channel is put in doorbell mode but what was queued while the
\* modem was polling is not announced
DbModeSilent ==
  /\ UNCHANGED <<h, cwp, dv>> /\ dbm' = TRUE

\* DB_MODE or OOB: doorbell mode again; ring now if something is waiting
DbModeEvent ==
  /\ UNCHANGED h
  /\ IF wp # rp /\ pmst = "M0"
     THEN /\ cwp' = wp /\ dv' = DevDoorbell(dv, wp) /\ dbm' = ~ch.burst
     ELSE /\ dbm' = TRUE /\ UNCHANGED <<cwp, dv>>

parse_xfer_event ==
  /\ pmst # "ERR" /\ ~h.on /\ ev # <<>>
  /\ ev' = Tail(ev)
  /\ IF Head(ev).t = "stale" \/ chst # "ENABLED" THEN UNCHANGED <<h, cwp, dbm, dv>>
     ELSE IF Head(ev).t = "tx" THEN CompleteUpTo(Bump(Head(ev).p))
     ELSE DbModeEvent
  /\ UNCHANGED <<rp, cntv>> /\ EvRest

\* mutant: an uplink completion forgets its runtime reference
XferCallbackKeepsRef ==
  /\ h.on
  /\ IF rp = h.upto
     THEN h' = [h EXCEPT !.on = FALSE] /\ UNCHANGED <<rp, cntv>>
     ELSE rp' = Bump(rp) /\ pend' = pend - Counted /\ UNCHANGED <<rref, h>>
  /\ UNCHANGED <<ev, dbv, dv>> /\ EvRest

\* the loop of parse_xfer_event: element retired, client called, packet counted
XferCallback ==
  /\ h.on
  /\ IF rp = h.upto
     THEN h' = [h EXCEPT !.on = FALSE] /\ UNCHANGED <<rp, cntv>>
     ELSE rp' = Bump(rp) /\ PendingPut(Counted) /\ UNCHANGED h
  /\ UNCHANGED <<ev, dbv, dv>> /\ EvRest

\* mhi_process_cmd_completion: completions come in ring order
mhi_process_cmd_completion ==
  /\ pmst # "ERR" /\ cdn > 0
  /\ cmds' = Tail(cmds) /\ cdb' = cdb - 1 /\ cdn' = cdn - 1
  /\ comp' = TRUE /\ ccs' = "SUCCESS"
  /\ UNCHANGED <<hung, ch, ringv, dbv, chst, powv, cntv, dv, ev, h, thrv, sub, budg>>

EventStep == parse_xfer_event \/ XferCallback \/ mhi_process_cmd_completion

---------------------------------------------------------------------------
(* Power.                                                                  *)

PowRest == UNCHANGED <<hung, ch, ringv, chst, comp, ccs, cmds, cdn, cntv, ev, h, thrv, sub>>

\* mhi_pm_m1_transition, when the idle modem asks for it: with packets pending
\* it is called back at once
EnterM2 ==
  /\ cdn = cdb /\ (dv.on => dv.rp = DevKnows) /\ ~hung
  /\ pmst = "M0" /\ pmst' = "M2" /\ wk' = (pend # 0)
  /\ UNCHANGED <<dbv, dv, cdb, budg>> /\ PowRest

\* mhi_pm_suspend, which needs the runtime reference dropped
EnterM3 ==
  /\ pmst = "M2" /\ rref = 0 /\ ~wk /\ pmst' = "M3"
  /\ UNCHANGED <<dbv, dv, cdb, wk, budg>> /\ PowRest

\* mutant: after a sleep only the command ring is announced
M0WithoutChannels ==
  /\ pmst \in {"M2", "M3"} /\ ~hung /\ pmst' = "M0" /\ wk' = FALSE /\ cdb' = Len(cmds)
  /\ UNCHANGED <<dbv, dv>>
  /\ UNCHANGED budg /\ PowRest

\* mhi_pm_m0_transition: command ring and every channel ring that is not empty
mhi_pm_m0_transition ==
  /\ pmst \in {"M2", "M3"} /\ ~hung /\ pmst' = "M0" /\ wk' = FALSE /\ cdb' = Len(cmds)
  /\ IF ini /\ wp # rp THEN mhi_ring_chan_db(wp) ELSE UNCHANGED <<dbv, dv>>
  /\ UNCHANGED budg /\ PowRest

\* a system error; unless Racy it does not fall inside mhi_queue_buf
Fault ==
  /\ pmst # "ERR" /\ faults < FaultMax
  /\ Racy \/ sub.pc = "idle"
  /\ pmst' = "ERR" /\ faults' = faults + 1 /\ wk' = FALSE
  /\ UNCHANGED <<dbv, dv, cdb, hangs, opens>> /\ PowRest

PowerStep == EnterM2 \/ EnterM3 \/ mhi_pm_m0_transition \/ Fault

---------------------------------------------------------------------------
(* Opening and closing.                                                    *)

OpRest == UNCHANGED <<ch, dv, hung, h, sub, faults, hangs>>

\* mhi_send_cmd; the doorbell needs M0
mhi_send_cmd(c) ==
  /\ Len(cmds) < CmdMax
  /\ cmds' = Append(cmds, c)
  /\ cdb' = IF pmst = "M0" THEN Len(cmds') ELSE cdb
  /\ wk' = Waking /\ UNCHANGED cdn

\* mhi_init_chan_ctxt: empty rings, doorbell mode
mhi_init_chan_ctxt ==
  /\ rp' = 0 /\ wp' = 0 /\ cwp' = 0 /\ dbm' = TRUE /\ ini' = TRUE
  /\ slot' = [i \in Idx |-> None] /\ chn' = [i \in Idx |-> FALSE]

mhi_deinit_chan_ctxt == ini' = FALSE /\ UNCHANGED <<rp, wp, slot, chn>>

\* what a timeout of seconds means for a modem that posts its answers at once
Unanswered == hung /\ cdn = 0

\* __mhi_prepare_channel up to the wait
PrepareChannel ==
  /\ opn = "closed" /\ rem = "idle" /\ mtx = "none" /\ opens < OpenMax
  /\ chst = "DISABLED" /\ pmst # "ERR"
  /\ mhi_init_chan_ctxt /\ comp' = FALSE /\ UNCHANGED ccs
  /\ mhi_send_cmd("START")
  /\ opn' = "start_wait" /\ mtx' = "opn" /\ opens' = opens + 1
  /\ UNCHANGED <<chst, pmst, cntv, ev, rem, was>> /\ OpRest

\* its end: the completion, the remover's, or the timeout
ChannelStarted ==
  /\ opn = "start_wait" /\ (comp \/ Unanswered \/ "START" \in Late) /\ ~h.on
  /\ IF comp /\ ccs = "SUCCESS"
     THEN chst' = "ENABLED" /\ opn' = "open" /\ UNCHANGED ringv
     ELSE mhi_deinit_chan_ctxt /\ opn' = "closed" /\ UNCHANGED chst
  /\ mtx' = "none"
  /\ UNCHANGED <<dbv, cmdv, powv, cntv, ev, rem, was, opens>> /\ OpRest

\* __mhi_unprepare_channel up to the wait; the client has stopped queueing
UnprepareChannel ==
  /\ opn = "open" /\ mtx = "none" /\ chst = "ENABLED" /\ ~h.on /\ sub.pc = "idle"
  /\ chst' = "DISABLED" /\ mtx' = "opn" /\ comp' = FALSE /\ UNCHANGED ccs
  /\ opn' = "reset_wait"
  /\ IF pmst = "ERR" THEN UNCHANGED <<cmds, cdb, cdn, wk>> ELSE mhi_send_cmd("RESET")
  /\ UNCHANGED <<ringv, dbv, pmst, cntv, ev, rem, was, opens>> /\ OpRest

\* mhi_mark_stale_events
mhi_mark_stale_events == ev' = [i \in 1..Len(ev) |-> [ev[i] EXCEPT !.t = "stale"]]

\* "even if it fails we will still reset"
ChannelReset ==
  /\ opn = "reset_wait" /\ (comp \/ Unanswered \/ pmst = "ERR" \/ "RESET" \in Late) /\ ~h.on
  /\ mhi_mark_stale_events /\ opn' = "drain"
  /\ UNCHANGED <<ringv, dbv, chst, cmdv, powv, cntv, rem, was, mtx, opens>> /\ OpRest

\* mhi_reset_data_chan: every buffer still in the ring goes back with -ENOTCONN
mhi_reset_data_chan ==
  /\ opn = "drain" \/ rem = "drain"
  /\ rp # wp
  /\ rp' = Bump(rp) /\ PendingPut(Counted)
  /\ UNCHANGED <<wp, slot, chn, ini, dbv, chst, cmdv, powv, ev, thrv, opens>> /\ OpRest

ChannelClosed ==
  /\ opn = "drain" /\ rp = wp
  /\ mhi_deinit_chan_ctxt /\ opn' = "closed" /\ mtx' = "none"
  /\ UNCHANGED <<dbv, chst, cmdv, powv, cntv, ev, rem, was, opens>> /\ OpRest

OpenStep == \/ PrepareChannel \/ ChannelStarted \/ UnprepareChannel
            \/ ChannelReset \/ mhi_reset_data_chan \/ ChannelClosed

---------------------------------------------------------------------------
(* mhi_driver_remove, run by the recovery from an error.                   *)

RemRest == UNCHANGED <<dbv, cmds, cdb, cdn, powv, cntv, opens>> /\ OpRest

\* wake whoever waits for a completion
RemoveWake ==
  /\ pmst = "ERR" /\ rem = "idle" /\ rem' = "lock"
  /\ comp' = TRUE /\ ccs' = "INVALID"
  /\ UNCHANGED <<ringv, chst, ev, opn, was, mtx>> /\ RemRest

\* under the channel's mutex: no more processing, then mhi_reset_chan
RemoveStop ==
  /\ rem = "lock" /\ mtx = "none" /\ ~h.on
  /\ rem' = "drain" /\ mtx' = "rem" /\ was' = chst /\ chst' = "SUSPENDED"
  /\ mhi_mark_stale_events
  /\ UNCHANGED <<ringv, comp, ccs, opn>> /\ RemRest

RemoveDrained ==
  /\ rem = "drain" /\ rp = wp
  /\ rem' = "client" /\ mtx' = "none"
  /\ UNCHANGED <<ringv, chst, comp, ccs, ev, was, opn>> /\ RemRest

\* the client's remove, which takes the client's own lock
RemoveClient ==
  /\ rem = "client" /\ sub.pc = "idle"
  /\ rem' = "deinit" /\ opn' = "gone"
  /\ UNCHANGED <<ringv, chst, comp, ccs, ev, was, mtx>> /\ RemRest

RemoveDeinit ==
  /\ rem = "deinit" /\ mtx = "none"
  /\ rem' = "done" /\ chst' = "DISABLED"
  /\ IF was = "ENABLED" THEN mhi_deinit_chan_ctxt ELSE UNCHANGED ringv
  /\ UNCHANGED <<comp, ccs, ev, opn, was, mtx>> /\ RemRest

\* the controller comes back: rings reset by mhi_pm_disable_transition, the
\* client probed again by mhi_driver_probe
mhi_driver_probe ==
  /\ rem = "done" /\ pmst = "ERR"
  /\ rem' = "idle" /\ opn' = "closed" /\ pmst' = "M0"
  /\ cmds' = <<>> /\ cdb' = 0 /\ cdn' = 0 /\ ev' = <<>>
  /\ dv' = [on |-> FALSE, rp |-> 0, wp |-> 0, poll |-> FALSE] /\ hung' = FALSE
  /\ UNCHANGED <<ch, ringv, dbv, chst, comp, ccs, wk, cntv, h, was, mtx, sub, budg>>

RemoveStep == \/ RemoveWake \/ RemoveStop \/ RemoveDrained \/ RemoveClient
              \/ RemoveDeinit \/ mhi_driver_probe

---------------------------------------------------------------------------
RingInit ==
  /\ ch \in Channels
  /\ rp = 0 /\ wp = 0 /\ slot = [i \in Idx |-> None] /\ chn = [i \in Idx |-> FALSE]
  /\ ini = FALSE /\ cwp = 0 /\ dbm = TRUE
  /\ chst = "DISABLED" /\ comp = FALSE /\ ccs = "INVALID"
  /\ cmds = <<>> /\ cdb = 0 /\ cdn = 0
  /\ pmst = "M0" /\ wk = FALSE /\ pend = 0 /\ rref = 0
  /\ dv = [on |-> FALSE, rp |-> 0, wp |-> 0, poll |-> FALSE]
  /\ ev = <<>> /\ h = [on |-> FALSE, upto |-> 0]
  /\ opn = "closed" /\ rem = "idle" /\ was = "DISABLED" /\ mtx = "none"
  /\ sub = [pc |-> "idle", b |-> None, chain |-> FALSE]
  /\ hung = FALSE /\ faults = 0 /\ hangs = 0 /\ opens = 0

RingNext == \/ QueueStep \/ DevStep \/ EventStep \/ PowerStep \/ OpenStep
            \/ RemoveStep

RingSpec == RingInit /\ [][RingNext]_ringVars

\* The steps of one actor each: the data tasklet, a client inside
\* mhi_queue_buf, a thread inside an open or a close, the recovery.
DataTasklet == parse_xfer_event \/ XferCallback
Queueing == mhi_gen_tre \/ mhi_queue_buf
Opener == \/ ChannelStarted \/ ChannelReset \/ ChannelClosed
          \/ opn = "drain" /\ mhi_reset_data_chan
Remover == \/ RemoveWake \/ RemoveStop \/ RemoveDrained \/ RemoveClient \/ RemoveDeinit
           \/ rem = "drain" /\ mhi_reset_data_chan

\* The modem serves what it knows of and answers the host's wake-ups, the
\* tasklets and the threads run; clients need not queue, open or close.
RingFairSpec ==
  /\ RingSpec
  /\ WF_ringVars(DevCommand) /\ WF_ringVars(DevServe)
  /\ WF_ringVars(wk /\ mhi_pm_m0_transition)
  /\ WF_ringVars(DataTasklet) /\ WF_ringVars(mhi_process_cmd_completion)
  /\ WF_ringVars(Queueing) /\ WF_ringVars(Opener) /\ WF_ringVars(Remover)

---------------------------------------------------------------------------
(* Properties.                                                             *)

\* Every variable has its type; no counter leaves its range.
RingTypeOK ==
  /\ ch \in ChannelKinds /\ rp \in Idx /\ wp \in Idx /\ cwp \in Idx
  /\ slot \in [Idx -> Buf \cup {None}] /\ chn \in [Idx -> BOOLEAN]
  /\ ini \in BOOLEAN /\ hung \in BOOLEAN /\ dbm \in BOOLEAN /\ wk \in BOOLEAN
  /\ chst \in {"DISABLED", "ENABLED", "SUSPENDED"}
  /\ cdn \in 0..cdb /\ cdb \in 0..Len(cmds)
  /\ pmst \in {"M0", "M2", "M3", "ERR"}
  /\ pend \in -1..N /\ rref \in 0..1
  /\ dv \in [on : BOOLEAN, rp : Idx, wp : Idx, poll : BOOLEAN]
  /\ opn \in {"closed", "start_wait", "open", "reset_wait", "drain", "gone"}
  /\ rem \in {"idle", "lock", "drain", "client", "deinit", "done"}
  /\ mtx \in {"none", "opn", "rem"}
  /\ sub.pc \in {"idle", "checked", "added"}

\* pending_pkts is the number of uplink buffers in the ring, except that
\* mhi_queue_buf counts its packet after publishing the descriptor (the
\* counter may pass through -1); and the controller holds exactly one runtime
\* reference while it is positive, none otherwise.
PendingBalanced ==
  /\ pend = IF ch.dir = "UL"
            THEN get_used_ring_elements(rp, wp) - (IF sub.pc = "added" THEN 1 ELSE 0)
            ELSE 0
  /\ rref = IF pend > 0 THEN 1 ELSE 0

\* No lost doorbell: on a running channel in M0, a modem that does not know of
\* all queued buffers is about to be told, by the queueing thread that has not
\* yet kicked or by the tasklet that has not yet seen the end of the burst.
NoLostDoorbell ==
  chst = "ENABLED" /\ pmst = "M0" /\ dv.on /\ DevKnows # wp =>
    \/ sub.pc = "added"
    \/ \E i \in 1..Len(ev) : ev[i].t = "db"

\* Refinement: the channel keeps the promise of XferQueue.  The queue is the
\* part of the buffer ring from rp to wp, served up to where the modem is.
Closing == /\ chst # "ENABLED"
           /\ \/ opn \in {"reset_wait", "drain"}
              \/ rem \in {"drain", "client", "deinit"} /\ was = "ENABLED"
Mode == IF chst = "ENABLED" THEN "open" ELSE IF Closing THEN "closing" ELSE "closed"
Nth(i) == IF rp + i - 1 >= N THEN rp + i - 1 - N ELSE rp + i - 1
Queue == IF Mode = "closed" THEN <<>>
         ELSE [i \in 1..get_used_ring_elements(rp, wp) |-> slot[Nth(i)]]
Served == IF Mode = "open" THEN get_used_ring_elements(rp, dv.rp) ELSE 0
XQ == INSTANCE XferQueue WITH Cap <- N - 1, xq <- Queue, xserved <- Served,
                              xmode <- Mode

\* The channel implements the queue its clients are promised.
ChannelImplementsQueue == XQ!XSpec

\* Every uplink buffer handed to the channel comes back, served or flushed,
\* through any sleep of the modem and any recovery, unless the client
\* stopped in the middle of a chain of descriptors or the modem stopped
\* answering.
LastIsChained == wp # rp /\ chn[IF wp = 0 THEN N - 1 ELSE wp - 1]
EveryBufferReturned ==
  \A b \in Buf : ch.dir = "UL" /\ b \in InRing ~> (b \notin InRing \/ LastIsChained \/ hung)

\* A channel that closes has drained "the whole ring through the client's own
\* xfer_cb" (mhi_main.c:1128): when its rings are freed, no buffer is in them.
DrainedBeforeFree == ~ini => rp = wp
=============================================================================
