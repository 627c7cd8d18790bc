---------------------------- MODULE MhiRingSteps ----------------------------
(***************************************************************************)
(* Proofs about MhiRing, for rings of any size, any set of buffers, every  *)
(* kind of channel and any bounds: the accounts of a channel balance, no   *)
(* doorbell is lost, its rings are freed only when they are empty, and it  *)
(* implements the queue of XferQueue.                                      *)
(*                                                                         *)
(* The inductive invariant orders every pointer into the ring by its       *)
(* distance from rp, the oldest buffer: what the tasklet is completing,    *)
(* the completions in flight, where the modem is, what it has been told,   *)
(* the context's write pointer, and wp.                                    *)
(***************************************************************************)
EXTENDS MhiRing, SequenceTheorems, TLAPS

(* The assumptions of the proofs: a working modem answers in time and an   *)
(* error does not fall inside mhi_queue_buf (MhiRing says what happens     *)
(* when they do).                                                          *)
InTime == Late = {} /\ Racy = FALSE

---------------------------------------------------------------------------
(* Ring arithmetic.                                                        *)

\* mhi_add_ring_element keeps a pointer in the ring and never leaves it where
\* it was.
LEMMA BumpIdx == \A i \in Idx : Bump(i) \in Idx /\ Bump(i) # i
BY NAssumption DEF Idx, Bump

\* The distance between two pointers is that of the elements between them.
LEMMA UsedRange ==
  \A r, w \in Idx : /\ get_used_ring_elements(r, w) \in 0 .. N - 1
                    /\ (get_used_ring_elements(r, w) = 0) = (r = w)
BY NAssumption DEF Idx, get_used_ring_elements

\* Two pointers at the same distance are the same.
LEMMA UsedInjective ==
  \A r, v, w \in Idx : get_used_ring_elements(r, v) = get_used_ring_elements(r, w) => v = w
BY NAssumption DEF Idx, get_used_ring_elements

\* mhi_add_ring_element: one element more, unless the ring is full.
LEMMA UsedAdd ==
  \A r, w \in Idx : Bump(w) # r =>
    get_used_ring_elements(r, Bump(w)) = get_used_ring_elements(r, w) + 1
BY NAssumption DEF Idx, Bump, get_used_ring_elements

\* A pointer that has another one ahead of it can be advanced.
LEMMA UsedNotFull ==
  \A r, v, w \in Idx : get_used_ring_elements(r, v) < get_used_ring_elements(r, w) => Bump(v) # r
BY NAssumption DEF Idx, Bump, get_used_ring_elements

\* mhi_del_ring_element: every other pointer is one element closer.
LEMMA UsedDel ==
  \A r, w \in Idx : r # w =>
    get_used_ring_elements(Bump(r), w) = get_used_ring_elements(r, w) - 1
BY NAssumption DEF Idx, Bump, get_used_ring_elements

\* Retiring an element leaves room in the ring.
LEMMA DelNotFull == \A r, w \in Idx : r # w /\ Bump(w) # r => Bump(w) # Bump(r)
BY NAssumption DEF Idx, Bump

---------------------------------------------------------------------------
(* The inductive invariant, in parts.                                      *)

\* The full state: the types of RingTypeOK and those of the sequences.
Event    == [t : {"tx", "db", "stale"}, p : Idx]
EventQ   == Seq(Event)
CommandQ == Seq({"START", "RESET"})
Slots    == [Idx -> Buf \cup {None}]
Flags    == [Idx -> BOOLEAN]
DevView  == [on : BOOLEAN, rp : Idx, wp : Idx, poll : BOOLEAN]
Handling == [on : BOOLEAN, upto : Idx]
Client   == [pc : {"idle", "checked", "added"}, b : Buf \cup {None}, chain : BOOLEAN]
Types ==
  /\ ch \in ChannelKinds /\ rp \in Idx /\ wp \in Idx /\ cwp \in Idx
  /\ slot \in Slots /\ chn \in Flags
  /\ ini \in BOOLEAN /\ hung \in BOOLEAN /\ dbm \in BOOLEAN /\ wk \in BOOLEAN
  /\ comp \in BOOLEAN /\ ccs \in {"INVALID", "SUCCESS"}
  /\ chst \in {"DISABLED", "ENABLED", "SUSPENDED"}
  /\ cmds \in CommandQ /\ cdb \in Nat /\ cdn \in Nat /\ cdn <= cdb /\ cdb <= Len(cmds)
  /\ pmst \in {"M0", "M2", "M3", "ERR"} /\ pend \in Int /\ rref \in Int
  /\ dv \in DevView /\ ev \in EventQ /\ h \in Handling
  /\ opn \in {"closed", "start_wait", "open", "reset_wait", "drain", "gone"}
  /\ rem \in {"idle", "lock", "drain", "client", "deinit", "done"}
  /\ mtx \in {"none", "opn", "rem"}
  /\ sub \in Client

\* Who holds the channel's mutex, and what ch_state says of where the opener,
\* the remover, the client and the tasklet are.
Threads ==
  /\ (mtx = "opn") = (opn \in {"start_wait", "reset_wait", "drain"})
  /\ (mtx = "rem") = (rem = "drain")
  /\ rem # "idle" => pmst = "ERR"
  /\ (chst = "SUSPENDED") = (rem \in {"drain", "client", "deinit"})
  /\ (chst = "ENABLED") = (opn = "open" /\ rem \in {"idle", "lock"})
  /\ rem \in {"drain", "client"} => opn = IF was = "ENABLED" THEN "open" ELSE "closed"
  /\ (opn = "gone") = (rem \in {"deinit", "done"})
  /\ sub.pc # "idle" => opn = "open" /\ pmst # "ERR" /\ ch.xfer = "BUFFER" /\ sub.b \in Buf
  /\ h.on => chst = "ENABLED"

\* What mhi_queue_buf checked before it writes the descriptor still holds.
Room == sub.pc = "checked" => sub.b \notin InRing /\ Bump(wp) # rp

\* Unless the modem has stopped answering, the command ring holds the one
\* command the opener waits for, and nothing when no one waits.
Silent == hung /\ cdn = 0
Commands ==
  pmst # "ERR" =>
    /\ opn = "open" => cmds = <<>>
    /\ opn \in {"closed", "drain"} => cmds = <<>> \/ Silent
    /\ opn = "start_wait" => cmds = (IF comp THEN <<>> ELSE <<"START">>) \/ (Silent /\ ~comp)
    /\ opn = "reset_wait" => cmds = (IF comp THEN <<>> ELSE <<"RESET">>) \/ (Silent /\ ~comp)
    /\ opn = "start_wait" /\ comp => ccs = "SUCCESS"

\* When the rings are allocated, and when they are empty.
Rings ==
  /\ ini = (\/ opn \in {"start_wait", "open", "reset_wait", "drain"}
            \/ rem = "deinit" /\ was = "ENABLED")
  /\ ~ini => rp = wp
  /\ opn = "start_wait" => rp = 0 /\ wp = 0 /\ cwp = 0 /\ dbm
  /\ rem \in {"client", "deinit", "done"} => rp = wp

\* The modem's channel is on exactly as far as the commands say.
Fresh == dv = [on |-> TRUE, rp |-> 0, wp |-> 0, poll |-> FALSE]
Device ==
  /\ dv.on => hung \/ pmst = "ERR" \/ opn \in {"start_wait", "open", "reset_wait"}
  /\ opn = "start_wait" /\ pmst # "ERR" /\ (cdn > 0 \/ comp) => Fresh
  /\ opn = "start_wait" /\ comp /\ ccs = "SUCCESS" => Fresh
  /\ opn = "start_wait" /\ pmst # "ERR" /\ dv.on => hung \/ cdn > 0 \/ comp
  /\ opn = "reset_wait" /\ pmst # "ERR" /\ ~hung => (dv.on <=> (cdn = 0 /\ ~comp))
  /\ chst = "ENABLED" => dv.on

\* On a running channel: the modem is not ahead of what it knows, which is not
\* ahead of the context, which is not ahead of the ring; in M0 the context is
\* up to date; a modem that has not been told all waits for a DB_MODE event
\* that is on its way.
Dist(a) == get_used_ring_elements(rp, a)
Doorbells ==
  /\ ~ch.burst => dbm /\ ~dv.poll
  /\ chst = "ENABLED" =>
       /\ Dist(dv.rp) <= Dist(DevKnows) /\ Dist(DevKnows) <= Dist(cwp)
       /\ Dist(cwp) <= Dist(wp)
       /\ pmst = "M0" /\ sub.pc # "added" => cwp = wp
       /\ pmst = "M0" /\ ~dv.poll /\ dv.wp # cwp => ch.burst /\ ~dbm
       /\ ch.burst /\ ~dv.poll /\ ~dbm => \E i \in 1..Len(ev) : ev[i].t = "db"

\* Outside an open life of the channel every event in flight is stale; in it
\* the completions are in ring order, behind the modem and ahead of what the
\* tasklet is completing.
Past == \/ opn \in {"closed", "start_wait", "drain", "gone"}
        \/ rem \in {"drain", "client", "deinit", "done"}
Events ==
  /\ Past => \A i \in 1..Len(ev) : ev[i].t = "stale"
  /\ chst = "ENABLED" =>
       /\ h.on => Dist(h.upto) <= Dist(dv.rp)
       /\ \A i \in 1..Len(ev) : ev[i].t = "tx" =>
             /\ Dist(ev[i].p) < Dist(dv.rp)
             /\ h.on => Dist(h.upto) <= Dist(ev[i].p)
       /\ \A i, j \in 1..Len(ev) : i < j /\ ev[i].t = "tx" /\ ev[j].t = "tx" =>
             Dist(ev[i].p) < Dist(ev[j].p)

RingInv == /\ Types /\ Threads /\ Room /\ Commands /\ Rings /\ Device /\ Doorbells
           /\ Events /\ PendingBalanced

---------------------------------------------------------------------------
(* Each part is kept by every step.                                        *)

\* A descriptor is written to one element of the rings.
LEMMA AddTypes ==
  ASSUME NEW b \in Buf \cup {None}, NEW c \in BOOLEAN, Types, AddElement(b, c)
  PROVE  wp' \in Idx /\ slot' \in Slots /\ chn' \in Flags /\ rp' = rp /\ ini' = ini
BY BumpIdx, Zenon DEF AddElement, Types, Slots, Flags

\* What a channel's configuration says.
LEMMA KindTypes ==
  ASSUME ch \in ChannelKinds
  PROVE  ch.burst \in BOOLEAN /\ ch.dir \in {"UL", "DL"} /\ ch.xfer \in {"SKB", "DMA", "BUFFER"}
<1>1. ChannelKinds \subseteq [dir : {"UL", "DL"}, xfer : {"SKB", "DMA", "BUFFER"}, burst : BOOLEAN]
  BY SMT DEF ChannelKinds
<1> QED
  BY <1>1, Zenon

\* A doorbell, or none.
LEMMA DoorbellTypes ==
  ASSUME NEW w \in Idx, ch \in ChannelKinds, dv \in DevView, dbm \in BOOLEAN
  PROVE  /\ DevDoorbell(dv, w) \in DevView
         /\ mhi_ring_chan_db(w) => cwp' \in Idx /\ dv' \in DevView /\ dbm' \in BOOLEAN
         /\ cwp \in Idx /\ KickIfM0(w) => cwp' \in Idx /\ dv' \in DevView /\ dbm' \in BOOLEAN
<1>1. ch.burst \in BOOLEAN
  BY KindTypes, Zenon
<1>2. DevDoorbell(dv, w) \in DevView
  BY <1>1, Zenon DEF DevDoorbell, DevView
<1>3. ASSUME mhi_ring_chan_db(w) PROVE cwp' \in Idx /\ dv' \in DevView /\ dbm' \in BOOLEAN
  BY <1>1, <1>2, <1>3, Zenon DEF mhi_ring_chan_db, process_db
<1> QED
  BY <1>2, <1>3, Zenon DEF KickIfM0

\* Counting a packet keeps the counters integers.
LEMMA CountTypes ==
  ASSUME Types, PendingGet(Counted) \/ PendingPut(Counted)
  PROVE  pend' \in Int /\ rref' \in Int
BY DEF Types, PendingGet, PendingPut, Counted

\* A sequence with one element appended.
LEMMA AppendFacts ==
  ASSUME NEW S, NEW s \in Seq(S), NEW e \in S
  PROVE  /\ Append(s, e) \in Seq(S) /\ Len(s) \in Nat
         /\ Len(Append(s, e)) = Len(s) + 1 /\ Append(s, e)[Len(s) + 1] = e
         /\ \A i \in 1..Len(s) : Append(s, e)[i] = s[i] /\ s[i] \in S
OBVIOUS

\* A sequence without its first element.
LEMMA TailFacts ==
  ASSUME NEW S, NEW s \in Seq(S), s # <<>>
  PROVE  /\ Tail(s) \in Seq(S) /\ Len(s) \in Nat /\ Len(s) > 0
         /\ Len(Tail(s)) = Len(s) - 1 /\ Head(s) = s[1] /\ Head(s) \in S
         /\ \A i \in 1..Len(s) : s[i] \in S
         /\ \A i \in 1..Len(s) - 1 : Tail(s)[i] = s[i + 1]
OBVIOUS

\* Marking events stale changes nothing else about them.
LEMMA MarkedEvents ==
  ASSUME ev \in EventQ, mhi_mark_stale_events
  PROVE  /\ ev' \in EventQ /\ Len(ev') = Len(ev) /\ Len(ev) \in Nat
         /\ \A i \in 1..Len(ev') : ev'[i].t = "stale"
<1>1. Len(ev) \in Nat /\ \A i \in 1..Len(ev) : ev[i] \in Event
  BY ElementOfSeq DEF EventQ
<1>2. \A i \in 1..Len(ev) : [ev[i] EXCEPT !.t = "stale"] \in Event
  BY <1>1, Zenon DEF Event
<1>3. ev' \in [1..Len(ev) -> Event]
  BY <1>2, Zenon DEF mhi_mark_stale_events
<1>4. ev' \in EventQ /\ Len(ev') = Len(ev)
  BY <1>1, <1>3 DEF EventQ
<1>5. \A i \in 1..Len(ev) : ev'[i].t = "stale"
  BY <1>1, Zenon DEF mhi_mark_stale_events, Event
<1> QED
  BY <1>1, <1>4, <1>5, Zenon

\* mhi_send_cmd appends one command.
LEMMA SendTypes ==
  ASSUME NEW c \in {"START", "RESET"}, Types, mhi_send_cmd(c)
  PROVE  /\ cmds' \in CommandQ /\ cdb' \in Nat /\ cdn' = cdn /\ cdn' <= cdb' /\ cdb' <= Len(cmds')
         /\ wk' \in BOOLEAN
<1>1. /\ Len(cmds) \in Nat /\ cmds' \in CommandQ /\ Len(cmds') = Len(cmds) + 1
  BY DEF mhi_send_cmd, CommandQ, Types
<1>2. wk' \in BOOLEAN
  BY Zenon DEF mhi_send_cmd, Waking, Types
<1> QED
  BY <1>1, <1>2 DEF mhi_send_cmd, Types

\* The types are kept.
LEMMA TypesStep == ASSUME Types, RingNext PROVE Types'
<1> USE DEF Types, ringv, dbv, cmdv, powv, cntv, thrv, budg
<1>0. 0 \in Idx
  BY NAssumption DEF Idx
<1>1. ASSUME NEW b \in Buf, mhi_queue_skb(b) PROVE Types'
  <2>1. wp' \in Idx /\ slot' \in Slots /\ chn' \in Flags /\ rp' = rp /\ ini' = ini
    BY <1>1, AddTypes, Zenon DEF mhi_queue_skb
  <2>2. cwp' \in Idx /\ dv' \in DevView /\ dbm' \in BOOLEAN
    BY <1>1, <2>1, DoorbellTypes, Zenon DEF mhi_queue_skb
  <2>3. pend' \in Int /\ rref' \in Int
    BY <1>1, CountTypes, Zenon DEF mhi_queue_skb
  <2> QED
    BY <1>1, <2>1, <2>2, <2>3 DEF mhi_queue_skb, SubRest, Waking
<1>2. ASSUME NEW b \in Buf, mhi_queue_dma(b) PROVE Types'
  <2>1. wp' \in Idx /\ slot' \in Slots /\ chn' \in Flags /\ rp' = rp /\ ini' = ini
    BY <1>2, AddTypes, Zenon DEF mhi_queue_dma
  <2>2. cwp' \in Idx /\ dv' \in DevView /\ dbm' \in BOOLEAN
    BY <1>2, <2>1, DoorbellTypes, Zenon DEF mhi_queue_dma
  <2>3. pend' \in Int /\ rref' \in Int
    BY <1>2, CountTypes, Zenon DEF mhi_queue_dma
  <2> QED
    BY <1>2, <2>1, <2>2, <2>3 DEF mhi_queue_dma, SubRest, Waking
<1>3. ASSUME NEW b \in Buf, QueueBufCheck(b) PROVE Types'
  <2>1. sub' \in Client
    BY <1>3 DEF QueueBufCheck, Client
  <2> QED
    BY <1>3, <2>1 DEF QueueBufCheck, SubRest
<1>4. CASE mhi_gen_tre
  <2>1. /\ sub.b \in Buf \cup {None} /\ sub.chain \in BOOLEAN
        /\ [sub EXCEPT !.pc = "added"] \in Client /\ [sub EXCEPT !.pc = "idle"] \in Client
    BY Zenon DEF Client
  <2>2. wp' \in Idx /\ slot' \in Slots /\ chn' \in Flags /\ rp' = rp /\ ini' = ini
    BY <1>4, <2>1, AddTypes, Zenon DEF mhi_gen_tre
  <2> QED
    BY <1>4, <2>1, <2>2 DEF mhi_gen_tre, SubRest
<1>5. CASE mhi_queue_buf
  <2>1. cwp' \in Idx /\ dv' \in DevView /\ dbm' \in BOOLEAN
    BY <1>5, DoorbellTypes, Zenon DEF mhi_queue_buf
  <2>2. pend' \in Int /\ rref' \in Int
    BY <1>5, CountTypes, Zenon DEF mhi_queue_buf
  <2>3. sub' \in Client
    BY <1>5, Zenon DEF mhi_queue_buf, Client
  <2> QED
    BY <1>5, <2>1, <2>2, <2>3 DEF mhi_queue_buf, SubRest, Waking
<1>6. CASE DevCommand
  <2>1. dv' \in DevView
    BY <1>0, <1>6, Zenon DEF DevCommand, DevView
  <2> QED
    BY <1>6, <2>1 DEF DevCommand, DevRest
<1>7. CASE DevServe
  <2>1. [t |-> "tx", p |-> dv.rp] \in Event /\ dv' \in DevView
    BY <1>7, BumpIdx, Zenon DEF DevServe, DevView, Event
  <2>2. ev' \in EventQ
    BY <1>7, <2>1, AppendFacts, Zenon DEF DevServe, EventQ
  <2> QED
    BY <1>7, <2>1, <2>2 DEF DevServe, DevRest
<1>8. CASE DevStopPolling
  <2>1. [t |-> "db", p |-> 0] \in Event /\ dv' \in DevView
    BY <1>0, <1>8, Zenon DEF DevStopPolling, DevView, Event
  <2>2. ev' \in EventQ
    BY <1>8, <2>1, AppendFacts, Zenon DEF DevStopPolling, EventQ
  <2> QED
    BY <1>8, <2>1, <2>2 DEF DevStopPolling, DevRest
<1>9. CASE DevHang
  BY <1>9 DEF DevHang
<1>10. CASE parse_xfer_event
  <2>1. ev \in Seq(Event) /\ ev # <<>> /\ ev' = Tail(ev)
    BY <1>10, Zenon DEF parse_xfer_event, EventQ
  <2>2. Tail(ev) \in Seq(Event) /\ Head(ev) \in Event
    BY <2>1, TailFacts, Zenon
  <2>3. [on |-> TRUE, upto |-> Bump(Head(ev).p)] \in Handling
    BY <2>2, BumpIdx, Zenon DEF Handling, Event
  <2>4. dbm' \in BOOLEAN
    BY <1>10, KindTypes, Zenon DEF parse_xfer_event, CompleteUpTo, DbModeEvent
  <2>5. DevDoorbell(dv, wp) \in DevView
    BY DoorbellTypes, Zenon
  <2>6. h' \in Handling /\ cwp' \in Idx /\ dv' \in DevView
    BY <1>10, <2>3, <2>5, Zenon DEF parse_xfer_event, CompleteUpTo, DbModeEvent
  <2> QED
    BY <1>10, <2>1, <2>2, <2>4, <2>6 DEF parse_xfer_event, EvRest, EventQ
<1>11. CASE XferCallback
  <2>1. h' \in Handling
    BY <1>11, Zenon DEF XferCallback, Handling
  <2>2. pend' \in Int /\ rref' \in Int
    BY <1>11, CountTypes, Zenon DEF XferCallback
  <2> QED
    BY <1>11, <2>1, <2>2, BumpIdx DEF XferCallback, EvRest
<1>12. CASE mhi_process_cmd_completion
  <2>1. cmds # <<>> /\ Len(cmds) \in Nat
    BY <1>12 DEF mhi_process_cmd_completion, CommandQ
  <2>2. cmds' \in CommandQ /\ Len(cmds') = Len(cmds) - 1
    BY <1>12, <2>1 DEF mhi_process_cmd_completion, CommandQ
  <2> QED
    BY <1>12, <2>1, <2>2 DEF mhi_process_cmd_completion
<1>13. CASE EnterM2
  BY <1>13 DEF EnterM2, PowRest
<1>14. CASE EnterM3
  BY <1>14 DEF EnterM3, PowRest
<1>15. CASE mhi_pm_m0_transition
  <2>1. cwp' \in Idx /\ dv' \in DevView /\ dbm' \in BOOLEAN
    BY <1>15, DoorbellTypes, Zenon DEF mhi_pm_m0_transition
  <2>2. Len(cmds) \in Nat
    BY DEF CommandQ
  <2>3. wk' \in BOOLEAN
    BY <1>15, Zenon DEF mhi_pm_m0_transition
  <2> QED
    BY <1>15, <2>1, <2>2, <2>3 DEF mhi_pm_m0_transition, PowRest
<1>16. CASE Fault
  <2>1. wk' \in BOOLEAN
    BY <1>16, Zenon DEF Fault
  <2> QED
    BY <1>16, <2>1 DEF Fault, PowRest
<1>17. CASE PrepareChannel
  <2>1. slot' \in Slots /\ chn' \in Flags
    BY <1>17, Zenon DEF PrepareChannel, mhi_init_chan_ctxt, Slots, Flags
  <2>2. ini' \in BOOLEAN /\ dbm' \in BOOLEAN /\ comp' \in BOOLEAN
    BY <1>17, Zenon DEF PrepareChannel, mhi_init_chan_ctxt
  <2> QED
    BY <1>0, <1>17, <2>1, <2>2, SendTypes, Zenon DEF PrepareChannel, OpRest, mhi_init_chan_ctxt
<1>18. CASE ChannelStarted
  <2>1. ini' \in BOOLEAN
    BY <1>18, Zenon DEF ChannelStarted, mhi_deinit_chan_ctxt
  <2> QED
    BY <1>18, <2>1 DEF ChannelStarted, OpRest, mhi_deinit_chan_ctxt, Unanswered
<1>19. CASE UnprepareChannel
  <2>1. comp' \in BOOLEAN
    BY <1>19, Zenon DEF UnprepareChannel
  <2>2. CASE pmst = "ERR"
    BY <1>19, <2>1, <2>2, Zenon DEF UnprepareChannel, OpRest
  <2>3. CASE mhi_send_cmd("RESET")
    BY <1>19, <2>1, <2>3, SendTypes DEF UnprepareChannel, OpRest
  <2> QED
    BY <1>19, <2>2, <2>3, Zenon DEF UnprepareChannel
<1>20. CASE ChannelReset
  BY <1>20, MarkedEvents DEF ChannelReset, OpRest
<1>21. CASE mhi_reset_data_chan
  <2>1. pend' \in Int /\ rref' \in Int
    BY <1>21, CountTypes, Zenon DEF mhi_reset_data_chan
  <2> QED
    BY <1>21, <2>1, BumpIdx DEF mhi_reset_data_chan, OpRest
<1>22. CASE ChannelClosed
  <2>1. ini' \in BOOLEAN
    BY <1>22, Zenon DEF ChannelClosed, mhi_deinit_chan_ctxt
  <2> QED
    BY <1>22, <2>1 DEF ChannelClosed, mhi_deinit_chan_ctxt, OpRest
<1>23. CASE RemoveWake
  BY <1>23 DEF RemoveWake, RemRest, OpRest
<1>24. CASE RemoveStop
  BY <1>24, MarkedEvents DEF RemoveStop, RemRest, OpRest
<1>25. CASE RemoveDrained
  BY <1>25 DEF RemoveDrained, RemRest, OpRest
<1>26. CASE RemoveClient
  BY <1>26 DEF RemoveClient, RemRest, OpRest
<1>27. CASE RemoveDeinit
  <2>1. ini' \in BOOLEAN
    BY <1>27, Zenon DEF RemoveDeinit, mhi_deinit_chan_ctxt
  <2> QED
    BY <1>27, <2>1 DEF RemoveDeinit, RemRest, OpRest, mhi_deinit_chan_ctxt
<1>28. CASE mhi_driver_probe
  <2>1. cmds' \in CommandQ /\ Len(cmds') = 0 /\ ev' \in EventQ /\ dv' \in DevView
    BY <1>0, <1>28 DEF mhi_driver_probe, CommandQ, EventQ, DevView
  <2>2. hung' \in BOOLEAN
    BY <1>28, Zenon DEF mhi_driver_probe
  <2> QED
    BY <1>28, <2>1, <2>2 DEF mhi_driver_probe
<1> QED
  BY <1>1, <1>2, <1>3, <1>4, <1>5, <1>6, <1>7, <1>8, <1>9, <1>10, <1>11, <1>12, <1>13,
     <1>14, <1>15, <1>16, <1>17, <1>18, <1>19, <1>20, <1>21, <1>22, <1>23, <1>24, <1>25,
     <1>26, <1>27, <1>28, Zenon
     DEF RingNext, QueueStep, DevStep, EventStep, PowerStep, OpenStep, RemoveStep

\* The mutex and ch_state are kept.
LEMMA ThreadsStep == ASSUME Types, Threads, InTime, RingNext PROVE Threads'
<1> USE DEF Threads, ringv, dbv, cmdv, powv, cntv, thrv, budg
<1>0. /\ opn \in {"closed", "start_wait", "open", "reset_wait", "drain", "gone"}
      /\ rem \in {"idle", "lock", "drain", "client", "deinit", "done"}
      /\ chst \in {"DISABLED", "ENABLED", "SUSPENDED"}
      /\ mtx \in {"none", "opn", "rem"} /\ sub \in Client /\ h \in Handling
  BY Zenon DEF Types
<1>1. ASSUME NEW b \in Buf, mhi_queue_skb(b) PROVE Threads'
  BY <1>0, <1>1, Zenon DEF mhi_queue_skb, SubRest
<1>2. ASSUME NEW b \in Buf, mhi_queue_dma(b) PROVE Threads'
  BY <1>0, <1>2, Zenon DEF mhi_queue_dma, SubRest
<1>3. ASSUME NEW b \in Buf, QueueBufCheck(b) PROVE Threads'
  BY <1>0, <1>3 DEF QueueBufCheck, ClientMayQueue, SubRest
<1>4. CASE mhi_gen_tre
  BY <1>0, <1>4, Zenon DEF mhi_gen_tre, SubRest, Client
<1>5. CASE mhi_queue_buf
  BY <1>0, <1>5, Zenon DEF mhi_queue_buf, SubRest, Client
<1>6. CASE DevCommand
  BY <1>0, <1>6, Zenon DEF DevCommand, DevRest
<1>7. CASE DevServe
  BY <1>0, <1>7, Zenon DEF DevServe, DevRest
<1>8. CASE DevStopPolling
  BY <1>0, <1>8, Zenon DEF DevStopPolling, DevRest
<1>9. CASE DevHang
  BY <1>0, <1>9, Zenon DEF DevHang
<1>10. CASE parse_xfer_event
  BY <1>0, <1>10, Zenon DEF parse_xfer_event, CompleteUpTo, DbModeEvent, EvRest
<1>11. CASE XferCallback
  BY <1>0, <1>11, Zenon DEF XferCallback, EvRest, Handling
<1>12. CASE mhi_process_cmd_completion
  BY <1>0, <1>12, Zenon DEF mhi_process_cmd_completion
<1>13. CASE EnterM2
  BY <1>0, <1>13, Zenon DEF EnterM2, PowRest
<1>14. CASE EnterM3
  BY <1>0, <1>14, Zenon DEF EnterM3, PowRest
<1>15. CASE mhi_pm_m0_transition
  BY <1>0, <1>15, Zenon DEF mhi_pm_m0_transition, PowRest
<1>16. CASE Fault
  BY <1>0, <1>16, InTime, Zenon DEF Fault, PowRest, InTime
<1>17. CASE PrepareChannel
  BY <1>0, <1>17, Zenon DEF PrepareChannel, OpRest, mhi_send_cmd
<1>18. CASE ChannelStarted
  BY <1>0, <1>18 DEF ChannelStarted, OpRest, mhi_deinit_chan_ctxt, Unanswered
<1>19. CASE UnprepareChannel
  BY <1>0, <1>19, Zenon DEF UnprepareChannel, OpRest, mhi_send_cmd, Waking
<1>20. CASE ChannelReset
  BY <1>0, <1>20, Zenon DEF ChannelReset, OpRest, Unanswered
<1>21. CASE mhi_reset_data_chan
  BY <1>0, <1>21, Zenon DEF mhi_reset_data_chan, OpRest
<1>22. CASE ChannelClosed
  BY <1>0, <1>22 DEF ChannelClosed, mhi_deinit_chan_ctxt, OpRest
<1>23. CASE RemoveWake
  BY <1>0, <1>23 DEF RemoveWake, RemRest, OpRest
<1>24. CASE RemoveStop
  BY <1>0, <1>24 DEF RemoveStop, RemRest, OpRest
<1>25. CASE RemoveDrained
  BY <1>0, <1>25 DEF RemoveDrained, RemRest, OpRest
<1>26. CASE RemoveClient
  BY <1>0, <1>26 DEF RemoveClient, RemRest, OpRest
<1>27. CASE RemoveDeinit
  BY <1>0, <1>27 DEF RemoveDeinit, RemRest, OpRest, mhi_deinit_chan_ctxt
<1>28. CASE mhi_driver_probe
  BY <1>0, <1>28 DEF mhi_driver_probe
<1> QED
  BY <1>1, <1>2, <1>3, <1>4, <1>5, <1>6, <1>7, <1>8, <1>9, <1>10, <1>11, <1>12, <1>13,
     <1>14, <1>15, <1>16, <1>17, <1>18, <1>19, <1>20, <1>21, <1>22, <1>23, <1>24, <1>25,
     <1>26, <1>27, <1>28, Zenon
     DEF RingNext, QueueStep, DevStep, EventStep, PowerStep, OpenStep, RemoveStep

\* What the modem knows is a pointer into the ring.
LEMMA KnowsIdx == ASSUME Types PROVE DevKnows \in Idx /\ dv.rp \in Idx /\ dv.wp \in Idx
BY Zenon DEF Types, DevKnows, DevView

\* The tasklet retires an element only while there is one.
LEMMA CallbackNotEmpty ==
  ASSUME Types, Threads, Doorbells, Events, h.on, rp # h.upto
  PROVE  rp # wp
<1>1. chst = "ENABLED" /\ h.upto \in Idx /\ rp \in Idx /\ wp \in Idx /\ cwp \in Idx
  BY Zenon DEF Threads, Types, Handling
<1>2. Dist(h.upto) # 0 /\ Dist(h.upto) \in Nat /\ Dist(wp) \in Nat
  BY <1>1, UsedRange DEF Dist
<1>3. Dist(dv.rp) \in Nat /\ Dist(DevKnows) \in Nat /\ Dist(cwp) \in Nat
  BY <1>1, UsedRange, KnowsIdx DEF Dist
<1>4. Dist(h.upto) <= Dist(dv.rp) /\ Dist(dv.rp) <= Dist(DevKnows) /\ Dist(DevKnows) <= Dist(cwp)
      /\ Dist(cwp) <= Dist(wp)
  BY <1>1, Zenon DEF Doorbells, Events
<1>5. Dist(wp) # 0
  BY <1>2, <1>3, <1>4
<1> QED
  BY <1>1, <1>5, UsedRange, Zenon DEF Dist

\* The buffers in the ring are those between rp and wp.
LEMMA InRingSame == ASSUME UNCHANGED <<rp, wp, slot>> PROVE InRing' = InRing
BY Zenon DEF InRing

\* Retiring an element adds none.
LEMMA InRingRetired ==
  ASSUME rp \in Idx, wp \in Idx, rp # wp, rp' = Bump(rp), UNCHANGED <<wp, slot>>
  PROVE  InRing' \subseteq InRing
<1>1. ASSUME NEW j \in Idx,
             get_used_ring_elements(Bump(rp), j) < get_used_ring_elements(Bump(rp), wp)
      PROVE  get_used_ring_elements(rp, j) < get_used_ring_elements(rp, wp)
  BY <1>1, NAssumption DEF Idx, Bump, get_used_ring_elements
<1> QED
  BY <1>1, Zenon DEF InRing

\* What mhi_queue_buf has checked stays so until it writes the descriptor.
LEMMA RoomStep == ASSUME Types, Threads, Doorbells, Events, Room, RingNext PROVE Room'
<1> USE DEF Room, ringv, dbv, cmdv, powv, cntv, thrv, budg
<1>0. /\ UNCHANGED <<rp, wp, slot, sub>> => Room'
      /\ sub'.pc # "checked" => Room'
  BY InRingSame, Zenon
<1>1. ASSUME NEW b \in Buf, mhi_queue_skb(b) PROVE Room'
  BY <1>0, <1>1, Zenon DEF mhi_queue_skb, ClientMayQueue
<1>2. ASSUME NEW b \in Buf, mhi_queue_dma(b) PROVE Room'
  BY <1>0, <1>2, Zenon DEF mhi_queue_dma, ClientMayQueue
<1>3. ASSUME NEW b \in Buf, QueueBufCheck(b) PROVE Room'
  BY <1>3, InRingSame DEF QueueBufCheck, ClientMayQueue, mhi_is_ring_full
<1>4. CASE mhi_gen_tre
  BY <1>0, <1>4, Zenon DEF mhi_gen_tre, Types, Client
<1>5. CASE mhi_queue_buf
  BY <1>0, <1>5, Zenon DEF mhi_queue_buf, Types, Client
<1>6. CASE DevCommand
  BY <1>0, <1>6, Zenon DEF DevCommand, DevRest
<1>7. CASE DevServe
  BY <1>0, <1>7, Zenon DEF DevServe, DevRest
<1>8. CASE DevStopPolling
  BY <1>0, <1>8, Zenon DEF DevStopPolling, DevRest
<1>9. CASE DevHang
  BY <1>0, <1>9, Zenon DEF DevHang
<1>10. CASE parse_xfer_event
  BY <1>0, <1>10, Zenon DEF parse_xfer_event, EvRest
<1>11. CASE XferCallback
  <2>1. CASE rp = h.upto
    BY <1>0, <1>11, <2>1, Zenon DEF XferCallback, EvRest
  <2>2. CASE rp # h.upto
    <3>1. rp \in Idx /\ wp \in Idx /\ rp # wp
      BY <1>11, <2>2, CallbackNotEmpty, Zenon DEF XferCallback, Types
    <3>2. rp' = Bump(rp) /\ UNCHANGED <<wp, slot, sub>>
      BY <1>11, <2>2, Zenon DEF XferCallback, EvRest
    <3>3. InRing' \subseteq InRing /\ (Bump(wp) # rp => Bump(wp) # Bump(rp))
      BY <3>1, <3>2, InRingRetired, DelNotFull, Zenon
    <3> QED
      BY <3>2, <3>3, Zenon
  <2> QED
    BY <2>1, <2>2, Zenon
<1>12. CASE mhi_process_cmd_completion
  BY <1>0, <1>12, Zenon DEF mhi_process_cmd_completion
<1>13. CASE EnterM2
  BY <1>0, <1>13, Zenon DEF EnterM2, PowRest
<1>14. CASE EnterM3
  BY <1>0, <1>14, Zenon DEF EnterM3, PowRest
<1>15. CASE mhi_pm_m0_transition
  BY <1>0, <1>15, Zenon DEF mhi_pm_m0_transition, PowRest
<1>16. CASE Fault
  BY <1>0, <1>16, Zenon DEF Fault, PowRest
<1>17. CASE PrepareChannel
  BY <1>0, <1>17, Zenon DEF PrepareChannel, OpRest, Threads
<1>18. CASE ChannelStarted
  BY <1>0, <1>18, Zenon DEF ChannelStarted, OpRest, mhi_deinit_chan_ctxt, Unanswered
<1>19. CASE UnprepareChannel
  BY <1>0, <1>19, Zenon DEF UnprepareChannel, OpRest, mhi_send_cmd, Waking
<1>20. CASE ChannelReset
  BY <1>0, <1>20, Zenon DEF ChannelReset, OpRest, Unanswered
<1>21. CASE mhi_reset_data_chan
  BY <1>0, <1>21, Zenon DEF mhi_reset_data_chan, OpRest, Threads, Types
<1>22. CASE ChannelClosed
  BY <1>0, <1>22, Zenon DEF ChannelClosed, mhi_deinit_chan_ctxt, OpRest
<1>23. CASE RemoveWake
  BY <1>0, <1>23, Zenon DEF RemoveWake, RemRest, OpRest
<1>24. CASE RemoveStop
  BY <1>0, <1>24, Zenon DEF RemoveStop, RemRest, OpRest
<1>25. CASE RemoveDrained
  BY <1>0, <1>25, Zenon DEF RemoveDrained, RemRest, OpRest
<1>26. CASE RemoveClient
  BY <1>0, <1>26, Zenon DEF RemoveClient, RemRest, OpRest
<1>27. CASE RemoveDeinit
  BY <1>0, <1>27, Zenon DEF RemoveDeinit, RemRest, OpRest, mhi_deinit_chan_ctxt
<1>28. CASE mhi_driver_probe
  BY <1>0, <1>28, Zenon DEF mhi_driver_probe
<1> QED
  BY <1>1, <1>2, <1>3, <1>4, <1>5, <1>6, <1>7, <1>8, <1>9, <1>10, <1>11, <1>12, <1>13,
     <1>14, <1>15, <1>16, <1>17, <1>18, <1>19, <1>20, <1>21, <1>22, <1>23, <1>24, <1>25,
     <1>26, <1>27, <1>28, Zenon
     DEF RingNext, QueueStep, DevStep, EventStep, PowerStep, OpenStep, RemoveStep

\* The accounts after n elements more and, unless added, as many packets counted.
LEMMA Balance ==
  ASSUME Types, PendingBalanced, NEW n \in {0, 1, -1},
         get_used_ring_elements(rp', wp') = get_used_ring_elements(rp, wp) + n, ch' = ch,
         sub.pc \in {"idle", "checked", "added"}
  PROVE  /\ n = 0 /\ UNCHANGED <<cntv, sub>> => PendingBalanced'
         /\ n = 1 /\ PendingGet(Counted) /\ sub.pc # "added" /\ UNCHANGED sub => PendingBalanced'
         /\ n = -1 /\ PendingPut(Counted) /\ UNCHANGED sub => PendingBalanced'
         /\ n = 1 /\ sub.pc # "added" /\ sub'.pc = "added" /\ UNCHANGED cntv => PendingBalanced'
         /\ n = 0 /\ sub.pc # "added" /\ sub'.pc # "added" /\ UNCHANGED cntv => PendingBalanced'
         /\ n = 0 /\ sub.pc = "added" /\ sub'.pc = "idle" /\ PendingGet(Counted) => PendingBalanced'
<1>1. get_used_ring_elements(rp, wp) \in Nat /\ pend \in Int /\ rref \in Int
  BY UsedRange DEF Types
<1> USE <1>1 DEF PendingBalanced, PendingGet, PendingPut, Counted, cntv
<1>2. n = 0 /\ UNCHANGED <<cntv, sub>> => PendingBalanced'
  OBVIOUS
<1>3. n = 1 /\ PendingGet(Counted) /\ sub.pc # "added" /\ UNCHANGED sub => PendingBalanced'
  OBVIOUS
<1>4. n = -1 /\ PendingPut(Counted) /\ UNCHANGED sub => PendingBalanced'
  OBVIOUS
<1>5. n = 1 /\ sub.pc # "added" /\ sub'.pc = "added" /\ UNCHANGED cntv => PendingBalanced'
  OBVIOUS
<1>6. n = 0 /\ sub.pc # "added" /\ sub'.pc # "added" /\ UNCHANGED cntv => PendingBalanced'
  OBVIOUS
<1>7. n = 0 /\ sub.pc = "added" /\ sub'.pc = "idle" /\ PendingGet(Counted) => PendingBalanced'
  <2> SUFFICES ASSUME n = 0, sub.pc = "added", sub'.pc = "idle", PendingGet(Counted)
      PROVE  PendingBalanced'
    OBVIOUS
  <2>1. CASE ch.dir = "UL"
    <3>1. pend' = pend + 1 /\ rref' = IF pend' = 1 THEN rref + 1 ELSE rref
      BY <2>1
    <3>2. pend = get_used_ring_elements(rp, wp) - 1
      BY <2>1, Zenon
    <3> QED
      BY <2>1, <3>1, <3>2
  <2>2. CASE ch.dir # "UL"
    BY <2>2
  <2> QED
    BY <2>1, <2>2, Zenon
<1> QED
  BY <1>2, <1>3, <1>4, <1>5, <1>6, <1>7, Zenon

\* The accounts stay balanced.
LEMMA PendingStep ==
  ASSUME Types, Threads, Room, Rings, Doorbells, Events, PendingBalanced, RingNext
  PROVE  PendingBalanced'
<1> USE DEF thrv, cmdv, powv
<1>a. /\ rp \in Idx /\ wp \in Idx /\ sub.pc \in {"idle", "checked", "added"}
      /\ get_used_ring_elements(rp, wp) \in Nat
  BY UsedRange DEF Types, Client
<1>b. UNCHANGED <<ch, rp, wp, sub, cntv>> => PendingBalanced'
  BY <1>a, Balance
<1>1. ASSUME NEW b \in Buf, mhi_queue_skb(b) PROVE PendingBalanced'
  <2>1. /\ get_used_ring_elements(rp', wp') = get_used_ring_elements(rp, wp) + 1
        /\ PendingGet(Counted) /\ sub.pc # "added" /\ UNCHANGED <<ch, sub>>
    BY <1>a, <1>1, UsedAdd, Zenon DEF mhi_queue_skb, AddElement, mhi_is_ring_full, ClientMayQueue, SubRest
  <2> QED
    BY <1>a, <2>1, Balance, Zenon
<1>2. ASSUME NEW b \in Buf, mhi_queue_dma(b) PROVE PendingBalanced'
  <2>1. /\ get_used_ring_elements(rp', wp') = get_used_ring_elements(rp, wp) + 1
        /\ PendingGet(Counted) /\ sub.pc # "added" /\ UNCHANGED <<ch, sub>>
    BY <1>a, <1>2, UsedAdd, Zenon DEF mhi_queue_dma, AddElement, mhi_is_ring_full, ClientMayQueue, SubRest
  <2> QED
    BY <1>a, <2>1, Balance, Zenon
<1>3. ASSUME NEW b \in Buf, QueueBufCheck(b) PROVE PendingBalanced'
  <2>1. UNCHANGED <<ch, rp, wp, cntv>> /\ sub.pc # "added" /\ sub'.pc # "added"
    BY <1>3 DEF QueueBufCheck, ClientMayQueue, SubRest, ringv
  <2> QED
    BY <1>a, <2>1, Balance
<1>4. CASE mhi_gen_tre
  <2>1. UNCHANGED <<ch, cntv>> /\ sub.pc = "checked" /\ Bump(wp) # rp
    BY <1>4, Zenon DEF mhi_gen_tre, SubRest, Room
  <2>2. CASE AddElement(sub.b, sub.chain) /\ sub' = [sub EXCEPT !.pc = "added"]
    <3>1. sub'.pc = "added"
      BY <2>2, Zenon DEF Types, Client
    <3>2. get_used_ring_elements(rp', wp') = get_used_ring_elements(rp, wp) + 1
      BY <1>a, <2>1, <2>2, UsedAdd, Zenon DEF AddElement
    <3> QED
      BY <1>a, <2>1, <3>1, <3>2, Balance, Zenon
  <2>3. CASE sub' = [sub EXCEPT !.pc = "idle"] /\ UNCHANGED ringv
    <3>1. sub'.pc # "added" /\ UNCHANGED <<rp, wp>>
      BY <2>3, Zenon DEF Types, Client, ringv
    <3> QED
      BY <1>a, <2>1, <3>1, Balance
  <2> QED
    BY <1>4, <2>2, <2>3, Zenon DEF mhi_gen_tre
<1>5. CASE mhi_queue_buf
  <2>1. /\ UNCHANGED <<ch, rp, wp>> /\ sub.pc = "added" /\ sub'.pc = "idle"
        /\ PendingGet(Counted)
    BY <1>5, Zenon DEF mhi_queue_buf, SubRest, ringv, Types, Client
  <2> QED
    BY <1>a, <2>1, Balance
<1>6. CASE DevCommand
  BY <1>b, <1>6, Zenon DEF DevCommand, DevRest, ringv, cntv
<1>7. CASE DevServe
  BY <1>b, <1>7, Zenon DEF DevServe, DevRest, ringv, cntv
<1>8. CASE DevStopPolling
  BY <1>b, <1>8, Zenon DEF DevStopPolling, DevRest, ringv, cntv
<1>9. CASE DevHang
  BY <1>b, <1>9, Zenon DEF DevHang, ringv, cntv
<1>10. CASE parse_xfer_event
  BY <1>b, <1>10, Zenon DEF parse_xfer_event, EvRest, cntv
<1>11. CASE XferCallback
  <2>1. CASE rp = h.upto
    BY <1>b, <1>11, <2>1, Zenon DEF XferCallback, EvRest, cntv
  <2>2. CASE rp # h.upto
    <3>1. rp # wp
      BY <1>11, <2>2, CallbackNotEmpty, Zenon DEF XferCallback
    <3>2. rp' = Bump(rp) /\ PendingPut(Counted) /\ UNCHANGED <<ch, wp, sub>>
      BY <1>11, <2>2, Zenon DEF XferCallback, EvRest
    <3> QED
      BY <1>a, <3>1, <3>2, UsedDel, UsedRange, Balance
  <2> QED
    BY <2>1, <2>2, Zenon
<1>12. CASE mhi_process_cmd_completion
  BY <1>b, <1>12, Zenon DEF mhi_process_cmd_completion, ringv, cntv
<1>13. CASE EnterM2
  BY <1>b, <1>13, Zenon DEF EnterM2, PowRest, ringv, cntv
<1>14. CASE EnterM3
  BY <1>b, <1>14, Zenon DEF EnterM3, PowRest, ringv, cntv
<1>15. CASE mhi_pm_m0_transition
  BY <1>b, <1>15, Zenon DEF mhi_pm_m0_transition, PowRest, ringv, cntv
<1>16. CASE Fault
  BY <1>b, <1>16, Zenon DEF Fault, PowRest, ringv, cntv
<1>17. CASE PrepareChannel
  <2>1. /\ rp = wp /\ sub.pc = "idle"
        /\ rp' = 0 /\ wp' = 0 /\ UNCHANGED <<ch, sub, cntv>>
    BY <1>17, Zenon DEF PrepareChannel, mhi_init_chan_ctxt, OpRest, Threads, Rings
  <2>2. 0 \in Idx
    BY NAssumption DEF Idx
  <2>3. get_used_ring_elements(rp', wp') = get_used_ring_elements(rp, wp)
    BY <1>a, <2>1, <2>2, UsedRange
  <2> QED
    BY <1>a, <2>1, <2>3, Balance
<1>18. CASE ChannelStarted
  BY <1>b, <1>18, Zenon DEF ChannelStarted, OpRest, mhi_deinit_chan_ctxt, Unanswered, ringv, cntv
<1>19. CASE UnprepareChannel
  BY <1>b, <1>19, Zenon DEF UnprepareChannel, OpRest, mhi_send_cmd, Waking, ringv, cntv
<1>20. CASE ChannelReset
  BY <1>b, <1>20, Zenon DEF ChannelReset, OpRest, Unanswered, ringv, cntv
<1>21. CASE mhi_reset_data_chan
  <2>1. /\ rp # wp /\ rp' = Bump(rp) /\ PendingPut(Counted) /\ UNCHANGED <<ch, wp, sub>>
    BY <1>21, Zenon DEF mhi_reset_data_chan, OpRest
  <2> QED
    BY <1>a, <2>1, UsedDel, UsedRange, Balance
<1>22. CASE ChannelClosed
  BY <1>b, <1>22, Zenon DEF ChannelClosed, mhi_deinit_chan_ctxt, OpRest, ringv, cntv
<1>23. CASE RemoveWake
  BY <1>b, <1>23, Zenon DEF RemoveWake, RemRest, OpRest, ringv, cntv
<1>24. CASE RemoveStop
  BY <1>b, <1>24, Zenon DEF RemoveStop, RemRest, OpRest, ringv, cntv
<1>25. CASE RemoveDrained
  BY <1>b, <1>25, Zenon DEF RemoveDrained, RemRest, OpRest, ringv, cntv
<1>26. CASE RemoveClient
  BY <1>b, <1>26, Zenon DEF RemoveClient, RemRest, OpRest, ringv, cntv
<1>27. CASE RemoveDeinit
  BY <1>b, <1>27, Zenon DEF RemoveDeinit, RemRest, OpRest, mhi_deinit_chan_ctxt, ringv, cntv
<1>28. CASE mhi_driver_probe
  BY <1>b, <1>28, Zenon DEF mhi_driver_probe, ringv, cntv
<1> QED
  BY <1>1, <1>2, <1>3, <1>4, <1>5, <1>6, <1>7, <1>8, <1>9, <1>10, <1>11, <1>12, <1>13,
     <1>14, <1>15, <1>16, <1>17, <1>18, <1>19, <1>20, <1>21, <1>22, <1>23, <1>24, <1>25,
     <1>26, <1>27, <1>28, Zenon
     DEF RingNext, QueueStep, DevStep, EventStep, PowerStep, OpenStep, RemoveStep

\* The rings are allocated and empty when they should be.
LEMMA RingsStep == ASSUME Types, Threads, Rings, RingNext PROVE Rings'
<1> USE DEF Rings, Threads, ringv, dbv, cmdv, powv, cntv, thrv, budg
<1>a. /\ opn \in {"closed", "start_wait", "open", "reset_wait", "drain", "gone"}
      /\ rem \in {"idle", "lock", "drain", "client", "deinit", "done"}
      /\ chst \in {"DISABLED", "ENABLED", "SUSPENDED"} /\ ini \in BOOLEAN /\ dbm \in BOOLEAN
  BY Zenon DEF Types
<1>1. ASSUME NEW b \in Buf, mhi_queue_skb(b) PROVE Rings'
  BY <1>a, <1>1, Zenon DEF mhi_queue_skb, ClientMayQueue, AddElement, SubRest
<1>2. ASSUME NEW b \in Buf, mhi_queue_dma(b) PROVE Rings'
  BY <1>a, <1>2, Zenon DEF mhi_queue_dma, ClientMayQueue, AddElement, SubRest
<1>3. ASSUME NEW b \in Buf, QueueBufCheck(b) PROVE Rings'
  BY <1>a, <1>3, Zenon DEF QueueBufCheck, ClientMayQueue, SubRest
<1>4. CASE mhi_gen_tre
  BY <1>a, <1>4, Zenon DEF mhi_gen_tre, AddElement, SubRest
<1>5. CASE mhi_queue_buf
  BY <1>a, <1>5, Zenon DEF mhi_queue_buf, SubRest
<1>6. CASE DevCommand
  BY <1>a, <1>6, Zenon DEF DevCommand, DevRest
<1>7. CASE DevServe
  BY <1>a, <1>7, Zenon DEF DevServe, DevRest
<1>8. CASE DevStopPolling
  BY <1>a, <1>8, Zenon DEF DevStopPolling, DevRest
<1>9. CASE DevHang
  BY <1>a, <1>9, Zenon DEF DevHang
<1>10. CASE parse_xfer_event
  BY <1>a, <1>10, Zenon DEF parse_xfer_event, CompleteUpTo, DbModeEvent, EvRest
<1>11. CASE XferCallback
  BY <1>a, <1>11, Zenon DEF XferCallback, EvRest
<1>12. CASE mhi_process_cmd_completion
  BY <1>a, <1>12, Zenon DEF mhi_process_cmd_completion
<1>13. CASE EnterM2
  BY <1>a, <1>13, Zenon DEF EnterM2, PowRest
<1>14. CASE EnterM3
  BY <1>a, <1>14, Zenon DEF EnterM3, PowRest
<1>15. CASE mhi_pm_m0_transition
  BY <1>a, <1>15, Zenon DEF mhi_pm_m0_transition, PowRest
<1>16. CASE Fault
  BY <1>a, <1>16, Zenon DEF Fault, PowRest
<1>17. CASE PrepareChannel
  BY <1>a, <1>17, Zenon DEF PrepareChannel, OpRest, mhi_init_chan_ctxt
<1>18. CASE ChannelStarted
  <2>1. CASE comp /\ ccs = "SUCCESS"
    BY <1>a, <1>18, <2>1, Zenon DEF ChannelStarted, OpRest
  <2>2. CASE ~(comp /\ ccs = "SUCCESS")
    <3>1. ini' = FALSE /\ opn' = "closed" /\ UNCHANGED <<rp, wp, rem>>
      BY <1>18, <2>2, Zenon DEF ChannelStarted, mhi_deinit_chan_ctxt
    <3> QED
      BY <1>a, <1>18, <3>1, Zenon DEF ChannelStarted
  <2> QED
    BY <2>1, <2>2, Zenon
<1>19. CASE UnprepareChannel
  BY <1>a, <1>19, Zenon DEF UnprepareChannel, OpRest, mhi_send_cmd, Waking
<1>20. CASE ChannelReset
  BY <1>a, <1>20, Zenon DEF ChannelReset, OpRest, Unanswered
<1>21. CASE mhi_reset_data_chan
  BY <1>a, <1>21, Zenon DEF mhi_reset_data_chan, OpRest
<1>22. CASE ChannelClosed
  BY <1>a, <1>22, Zenon DEF ChannelClosed, mhi_deinit_chan_ctxt, OpRest
<1>23. CASE RemoveWake
  BY <1>a, <1>23, Zenon DEF RemoveWake, RemRest, OpRest
<1>24. CASE RemoveStop
  BY <1>a, <1>24, Zenon DEF RemoveStop, RemRest, OpRest
<1>25. CASE RemoveDrained
  BY <1>a, <1>25, Zenon DEF RemoveDrained, RemRest, OpRest
<1>26. CASE RemoveClient
  BY <1>a, <1>26, Zenon DEF RemoveClient, RemRest, OpRest
<1>27. CASE RemoveDeinit
  <2>1. UNCHANGED <<rp, wp, opn>> /\ rem' = "done" /\ rp = wp /\ opn = "gone"
    BY <1>27, Zenon DEF RemoveDeinit, RemRest, OpRest, mhi_deinit_chan_ctxt
  <2>2. ini' = FALSE
    BY <1>a, <1>27, <2>1, Zenon DEF RemoveDeinit, mhi_deinit_chan_ctxt
  <2> QED
    BY <2>1, <2>2, Zenon
<1>28. CASE mhi_driver_probe
  BY <1>a, <1>28, Zenon DEF mhi_driver_probe
<1> QED
  BY <1>1, <1>2, <1>3, <1>4, <1>5, <1>6, <1>7, <1>8, <1>9, <1>10, <1>11, <1>12, <1>13,
     <1>14, <1>15, <1>16, <1>17, <1>18, <1>19, <1>20, <1>21, <1>22, <1>23, <1>24, <1>25,
     <1>26, <1>27, <1>28, Zenon
     DEF RingNext, QueueStep, DevStep, EventStep, PowerStep, OpenStep, RemoveStep

\* Short command rings.
LEMMA ShortRings ==
  /\ Len(<<>>) = 0 /\ \A c : Len(<<c>>) = 1 /\ Tail(<<c>>) = <<>> /\ <<c>>[1] = c
  /\ \A c : Append(<<>>, c) = <<c>>
OBVIOUS

\* The command ring holds the command that is waited for.
LEMMA CommandsStep == ASSUME Types, Threads, InTime, Commands, RingNext PROVE Commands'
<1>a. /\ opn \in {"closed", "start_wait", "open", "reset_wait", "drain", "gone"}
      /\ comp \in BOOLEAN /\ cdn \in Nat /\ cdb \in Nat /\ cdn <= cdb /\ cdb <= Len(cmds)
      /\ (opn = "gone" => pmst = "ERR") /\ (rem # "idle" => pmst = "ERR")
  BY Zenon DEF Types, Threads
<1>b. UNCHANGED <<opn, cmds, comp, ccs, hung, cdn>> /\ (pmst' # "ERR" => pmst # "ERR") => Commands'
  BY DEF Commands, Silent
<1>1. ASSUME NEW b \in Buf, mhi_queue_skb(b) PROVE Commands'
  BY <1>b, <1>1, Zenon DEF mhi_queue_skb, SubRest, thrv, cmdv
<1>2. ASSUME NEW b \in Buf, mhi_queue_dma(b) PROVE Commands'
  BY <1>b, <1>2, Zenon DEF mhi_queue_dma, SubRest, thrv, cmdv
<1>3. ASSUME NEW b \in Buf, QueueBufCheck(b) PROVE Commands'
  BY <1>b, <1>3, Zenon DEF QueueBufCheck, SubRest, thrv, cmdv
<1>4. CASE mhi_gen_tre
  BY <1>b, <1>4, Zenon DEF mhi_gen_tre, SubRest, thrv, cmdv
<1>5. CASE mhi_queue_buf
  BY <1>b, <1>5, Zenon DEF mhi_queue_buf, SubRest, thrv, cmdv
<1>6. CASE DevCommand
  BY <1>a, <1>6, Zenon DEF DevCommand, DevRest, thrv, Commands, Silent
<1>7. CASE DevServe
  BY <1>b, <1>7, Zenon DEF DevServe, DevRest, thrv, cmdv, powv
<1>8. CASE DevStopPolling
  BY <1>b, <1>8, Zenon DEF DevStopPolling, DevRest, thrv, cmdv, powv
<1>9. CASE DevHang
  BY <1>a, <1>9, Zenon DEF DevHang, thrv, cmdv, powv, Commands, Silent
<1>10. CASE parse_xfer_event
  BY <1>b, <1>10, Zenon DEF parse_xfer_event, EvRest, thrv, cmdv, powv
<1>11. CASE XferCallback
  BY <1>b, <1>11, Zenon DEF XferCallback, EvRest, thrv, cmdv, powv
<1>12. CASE mhi_process_cmd_completion
  <2>1. /\ cdn > 0 /\ pmst # "ERR" /\ cmds' = Tail(cmds) /\ ccs' = "SUCCESS"
        /\ UNCHANGED <<opn, pmst>>
    BY <1>12, Zenon DEF mhi_process_cmd_completion, thrv, powv
  <2>2. cmds # <<>> /\ ~Silent
    BY <1>a, <2>1, ShortRings DEF Silent
  <2>3. opn \in {"start_wait", "reset_wait"}
    BY <1>a, <2>1, <2>2, Zenon DEF Commands
  <2>4. cmds = <<"START">> \/ cmds = <<"RESET">>
    BY <1>a, <2>1, <2>2, <2>3, Zenon DEF Commands
  <2>5. cmds' = <<>>
    BY <2>1, <2>4, ShortRings, Zenon
  <2>6. comp'
    BY <1>12, Zenon DEF mhi_process_cmd_completion
  <2> QED
    BY <2>1, <2>3, <2>5, <2>6, Zenon DEF Commands
<1>13. CASE EnterM2
  BY <1>b, <1>13, Zenon DEF EnterM2, PowRest, thrv, cmdv, powv
<1>14. CASE EnterM3
  BY <1>b, <1>14, Zenon DEF EnterM3, PowRest, thrv, cmdv, powv
<1>15. CASE mhi_pm_m0_transition
  BY <1>b, <1>15, Zenon DEF mhi_pm_m0_transition, PowRest, thrv
<1>16. CASE Fault
  BY <1>b, <1>16, Zenon DEF Fault, PowRest, thrv
<1>17. CASE PrepareChannel
  <2>1. /\ opn = "closed" /\ pmst # "ERR" /\ opn' = "start_wait" /\ ~comp'
        /\ cmds' = Append(cmds, "START") /\ UNCHANGED <<hung, cdn>>
    BY <1>17, Zenon DEF PrepareChannel, mhi_send_cmd, OpRest
  <2>2. CASE cmds = <<>>
    BY <2>1, <2>2, ShortRings, Zenon DEF Commands
  <2>3. CASE Silent
    BY <2>1, <2>3, Zenon DEF Commands, Silent
  <2> QED
    BY <2>1, <2>2, <2>3, Zenon DEF Commands
<1>18. CASE ChannelStarted
  BY <1>a, <1>18, Zenon DEF ChannelStarted, Unanswered, OpRest, cmdv, powv, Commands, Silent, InTime
<1>19. CASE UnprepareChannel
  <2>1. opn = "open" /\ opn' = "reset_wait" /\ ~comp' /\ pmst' = pmst
    BY <1>19, Zenon DEF UnprepareChannel
  <2>2. CASE pmst = "ERR"
    BY <2>1, <2>2, Zenon DEF Commands
  <2>3. CASE pmst # "ERR"
    <3>1. cmds' = Append(cmds, "RESET") /\ cmds = <<>>
      BY <1>19, <2>1, <2>3, Zenon DEF UnprepareChannel, mhi_send_cmd, Commands
    <3> QED
      BY <2>1, <3>1, ShortRings, Zenon DEF Commands
  <2> QED
    BY <2>2, <2>3, Zenon
<1>20. CASE ChannelReset
  BY <1>a, <1>20, Zenon DEF ChannelReset, Unanswered, OpRest, cmdv, powv, Commands, Silent, InTime
<1>21. CASE mhi_reset_data_chan
  BY <1>b, <1>21, Zenon DEF mhi_reset_data_chan, OpRest, thrv, cmdv, powv
<1>22. CASE ChannelClosed
  BY <1>a, <1>22, Zenon DEF ChannelClosed, OpRest, cmdv, powv, Commands, Silent
<1>23. CASE RemoveWake
  BY <1>a, <1>23, Zenon DEF RemoveWake, RemRest, OpRest, powv, Commands
<1>24. CASE RemoveStop
  BY <1>a, <1>24, Zenon DEF RemoveStop, RemRest, OpRest, powv, Commands
<1>25. CASE RemoveDrained
  BY <1>a, <1>25, Zenon DEF RemoveDrained, RemRest, OpRest, powv, Commands
<1>26. CASE RemoveClient
  BY <1>a, <1>26, Zenon DEF RemoveClient, RemRest, OpRest, powv, Commands
<1>27. CASE RemoveDeinit
  BY <1>a, <1>27, Zenon DEF RemoveDeinit, RemRest, OpRest, powv, Commands
<1>28. CASE mhi_driver_probe
  BY <1>28, Zenon DEF mhi_driver_probe, Commands
<1> QED
  BY <1>1, <1>2, <1>3, <1>4, <1>5, <1>6, <1>7, <1>8, <1>9, <1>10, <1>11, <1>12, <1>13,
     <1>14, <1>15, <1>16, <1>17, <1>18, <1>19, <1>20, <1>21, <1>22, <1>23, <1>24, <1>25,
     <1>26, <1>27, <1>28, Zenon
     DEF RingNext, QueueStep, DevStep, EventStep, PowerStep, OpenStep, RemoveStep
=============================================================================
