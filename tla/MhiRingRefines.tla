-------------------------- MODULE MhiRingRefines --------------------------
(***************************************************************************)
(* The channel of MhiRing implements the queue of XferQueue: the invariant *)
(* of MhiRingProofs, and one abstract step or none for every step.         *)
(***************************************************************************)
EXTENDS MhiRingProofs

\* The i-th element from rp.
LEMMA NthFacts ==
  ASSUME rp \in Idx, wp \in Idx
  PROVE  /\ Dist(wp) \in 0 .. N - 1
         /\ \A i \in 1..Dist(wp) : Nth(i) \in Idx /\ Dist(Nth(i)) = i - 1
         /\ Nth(Dist(wp) + 1) = wp
BY NAssumption DEF Idx, Nth, Dist, get_used_ring_elements

\* After the oldest element is retired every other one moves up.
LEMMA NthAfter ==
  ASSUME rp \in Idx, wp \in Idx, rp # wp, rp' = Bump(rp)
  PROVE  \A i \in 1..Dist(wp) - 1 : Nth(i)' = Nth(i + 1)
BY NAssumption DEF Idx, Nth, Dist, get_used_ring_elements, Bump

\* A sequence is the function of its elements.
LEMMA SeqIsFunction ==
  ASSUME NEW S, NEW s \in Seq(S), NEW n \in Nat, Len(s) = n
  PROVE  s = [i \in 1..n |-> s[i]]
<1>1. s \in [1..n -> S]
  BY LenProperties, Zenon
<1> QED
  BY <1>1, Zenon

\* The ring, oldest buffer first.
Content == [i \in 1..get_used_ring_elements(rp, wp) |-> slot[Nth(i)]]

\* It is a sequence of what the buffer ring holds.
LEMMA ContentFacts ==
  ASSUME Types
  PROVE  /\ Content \in Seq(Buf \cup {None}) /\ Len(Content) = Dist(wp)
         /\ Dist(wp) \in 0 .. N - 1
         /\ rp = wp => Content = <<>>
         /\ Content = <<>> => rp = wp
         /\ \A i \in 1..Len(Content) : Content[i] = slot[Nth(i)] /\ Content[i] \in InRing
<1>1. rp \in Idx /\ wp \in Idx /\ slot \in [Idx -> Buf \cup {None}]
  BY Zenon DEF Types, Slots
<1>2. /\ Dist(wp) \in 0 .. N - 1
      /\ \A i \in 1..Dist(wp) : Nth(i) \in Idx /\ Dist(Nth(i)) = i - 1
  BY <1>1, NthFacts, Zenon
<1>3. Content = [i \in 1..Dist(wp) |-> slot[Nth(i)]]
  BY Zenon DEF Content, Dist
<1>4. Content \in [1..Dist(wp) -> Buf \cup {None}]
  BY <1>1, <1>2, <1>3, Zenon
<1>5. Content \in Seq(Buf \cup {None}) /\ Len(Content) = Dist(wp)
  BY <1>2, <1>4
<1>6. (Dist(wp) = 0) = (rp = wp)
  BY <1>1, UsedRange, Zenon DEF Dist
<1>7. Content = <<>> <=> rp = wp
  BY <1>5, <1>6
<1>8. \A i \in 1..Dist(wp) : Nth(i) \in {j \in Idx : Dist(j) < Dist(wp)}
  BY <1>2
<1>9. \A i \in 1..Dist(wp) : Content[i] = slot[Nth(i)] /\ Content[i] \in InRing
  BY <1>3, <1>8, Zenon DEF InRing, Dist
<1> QED
  BY <1>2, <1>5, <1>7, <1>9, Zenon

\* Where the opener and the remover are decides the mode.
LEMMA ModeFacts ==
  /\ Mode = "open" <=> chst = "ENABLED"
  /\ Mode = "closing" <=> Closing
  /\ Mode = "closed" <=> chst # "ENABLED" /\ ~Closing
  /\ Mode # "closed" => Queue = Content
  /\ Mode = "closed" => Queue = <<>>
  /\ Mode = "open" => Served = Dist(dv.rp)
  /\ Mode # "open" => Served = 0
BY Zenon DEF Mode, Closing, Queue, Content, Served, Dist

\* A step that leaves the ring, the modem and the mode alone is a stutter.
LEMMA QueueSame ==
  ASSUME UNCHANGED <<rp, wp, slot>>, dv'.rp = dv.rp, Mode' = Mode
  PROVE  UNCHANGED XQ!xvars
BY Zenon DEF XQ!xvars, Queue, Served, Nth

\* A descriptor is written: the abstract queue takes the buffer.
LEMMA Submits ==
  ASSUME Types, NEW b \in Buf, NEW c \in BOOLEAN, AddElement(b, c), chst = "ENABLED", chst' = "ENABLED",
         dv'.rp = dv.rp, Bump(wp) # rp, b \notin InRing
  PROVE  XQ!XNext
<1>1. rp \in Idx /\ wp \in Idx /\ slot \in [Idx -> Buf \cup {None}] /\ rp' = rp /\ wp' = Bump(wp)
      /\ slot' = [slot EXCEPT ![wp] = b]
  BY Zenon DEF Types, Slots, AddElement
<1>2. /\ Dist(wp) \in 0 .. N - 1
      /\ \A i \in 1..Dist(wp) : Nth(i) \in Idx /\ Dist(Nth(i)) = i - 1
      /\ Nth(Dist(wp) + 1) = wp
  BY <1>1, NthFacts, Zenon
<1>3. get_used_ring_elements(rp', wp') = Dist(wp) + 1 /\ Dist(wp) + 1 \in 0 .. N - 1
  BY <1>1, UsedAdd, UsedRange, BumpIdx DEF Dist
<1>4. \A i : Nth(i)' = Nth(i)
  BY <1>1, Zenon DEF Nth
<1>5. Content' = [i \in 1..Dist(wp) + 1 |-> slot'[Nth(i)]]
  BY <1>3, <1>4, Zenon DEF Content
<1>6. \A i \in 1..Dist(wp) : slot'[Nth(i)] = slot[Nth(i)]
  BY <1>1, <1>2
<1>7. slot'[Nth(Dist(wp) + 1)] = b
  BY <1>1, <1>2, Zenon
<1>8. Content \in Seq(Buf \cup {None}) /\ Len(Content) = Dist(wp)
      /\ \A i \in 1..Len(Content) : Content[i] = slot[Nth(i)] /\ Content[i] \in InRing
  BY ContentFacts, Zenon
<1>9. Content' = Append(Content, b)
  <2>1. /\ Append(Content, b) \in Seq(Buf \cup {None})
        /\ Len(Append(Content, b)) = Dist(wp) + 1 /\ Append(Content, b)[Dist(wp) + 1] = b
        /\ \A i \in 1..Dist(wp) : Append(Content, b)[i] = Content[i]
    BY <1>8, AppendFacts
  <2>2. Append(Content, b) = [i \in 1..Dist(wp) + 1 |-> Append(Content, b)[i]]
    <3> DEFINE s == Append(Content, b)
               n == Dist(wp) + 1
    <3>1. s \in Seq(Buf \cup {None}) /\ n \in Nat /\ Len(s) = n
      BY <1>2, <2>1
    <3> HIDE DEF s, n
    <3>2. s = [i \in 1..n |-> s[i]]
      BY <3>1, SeqIsFunction, Zenon
    <3> QED
      BY <3>2, Zenon DEF s, n
  <2>3. \A i \in 1..Dist(wp) + 1 : Append(Content, b)[i] = slot'[Nth(i)]
    BY <1>2, <1>6, <1>7, <1>8, <2>1
  <2> QED
    BY <1>5, <2>2, <2>3, Zenon
<1>10. /\ Mode = "open" /\ Mode' = "open" /\ Queue = Content /\ Queue' = Content'
       /\ Served' = Served
  BY <1>1, Zenon DEF Mode, Queue, Content, Served
<1>11. Len(Content) < N - 1
  BY <1>2, <1>3, <1>8, NAssumption
<1>12. \A i \in 1..Len(Content) : Content[i] # b
  BY <1>8, Zenon
<1>13. XQ!XSubmit(b)
  BY <1>9, <1>10, <1>11, <1>12, Zenon DEF XQ!XSubmit
<1> QED
  BY <1>13, Zenon DEF XQ!XNext

\* The oldest element is retired: the abstract queue loses its head.
LEMMA Retires ==
  ASSUME Types, rp # wp, rp' = Bump(rp), UNCHANGED <<wp, slot>>
  PROVE  Content # <<>> /\ Content' = Tail(Content)
<1>1. rp \in Idx /\ wp \in Idx
  BY Zenon DEF Types
<1>2. Content \in Seq(Buf \cup {None}) /\ Len(Content) = Dist(wp) /\ Content # <<>>
      /\ \A i \in 1..Len(Content) : Content[i] = slot[Nth(i)]
  BY ContentFacts, Zenon
<1>3. /\ Tail(Content) \in Seq(Buf \cup {None}) /\ Len(Tail(Content)) = Dist(wp) - 1
      /\ \A i \in 1..Dist(wp) - 1 : Tail(Content)[i] = Content[i + 1]
      /\ Dist(wp) \in Nat
  BY <1>2, TailFacts, Zenon
<1>4. get_used_ring_elements(rp', wp') = Dist(wp) - 1
  BY <1>1, UsedDel, Zenon DEF Dist
<1>5. Content' = [i \in 1..Dist(wp) - 1 |-> slot'[Nth(i)']]
  BY <1>4, Zenon DEF Content
<1>6. \A i \in 1..Dist(wp) - 1 : slot'[Nth(i)'] = Tail(Content)[i]
  BY <1>1, <1>2, <1>3, NthAfter
<1>7. Tail(Content) = [i \in 1..Dist(wp) - 1 |-> Tail(Content)[i]]
  <2> DEFINE s == Tail(Content)
             n == Dist(wp) - 1
  <2>1. s \in Seq(Buf \cup {None}) /\ Len(s) = n
    BY <1>3, Zenon
  <2> HIDE DEF s, n
  <2>2. s = [i \in 1..n |-> s[i]]
    BY <2>1, LenProperties, SeqIsFunction, Zenon
  <2> QED
    BY <2>2, Zenon DEF s, n
<1> QED
  BY <1>2, <1>5, <1>6, <1>7, Zenon

\* Every step of the channel is a step of the queue or none.
LEMMA RefinesStep ==
  ASSUME Types, Threads, Room, Commands, Rings, Device, Doorbells, Events, RingNext
  PROVE  XQ!XNext \/ UNCHANGED XQ!xvars
<1>a. /\ opn \in {"closed", "start_wait", "open", "reset_wait", "drain", "gone"}
      /\ rem \in {"idle", "lock", "drain", "client", "deinit", "done"} /\ dv \in DevView
      /\ chst \in {"DISABLED", "ENABLED", "SUSPENDED"}
      /\ ((chst = "ENABLED") <=> (opn = "open" /\ rem \in {"idle", "lock"}))
      /\ rem # "idle" => pmst = "ERR"
      /\ sub \in Client
  BY Zenon DEF Types, Threads
<1>b. UNCHANGED <<chst, opn, rem, was>> => Mode' = Mode
  BY Zenon DEF Mode, Closing
<1>1. ASSUME NEW b \in Buf, mhi_queue_skb(b) PROVE XQ!XNext \/ UNCHANGED XQ!xvars
  <2>1. chst = "ENABLED" /\ chst' = "ENABLED" /\ dv'.rp = dv.rp
    BY <1>a, <1>1, DoorbellKeepsOn, Zenon DEF mhi_queue_skb, ClientMayQueue, SubRest
  <2> QED
    BY <1>1, <2>1, Submits, Zenon DEF mhi_queue_skb, ClientMayQueue, mhi_is_ring_full
<1>2. ASSUME NEW b \in Buf, mhi_queue_dma(b) PROVE XQ!XNext \/ UNCHANGED XQ!xvars
  <2>1. chst = "ENABLED" /\ chst' = "ENABLED" /\ dv'.rp = dv.rp
    BY <1>a, <1>2, DoorbellKeepsOn, Zenon DEF mhi_queue_dma, ClientMayQueue, SubRest
  <2> QED
    BY <1>2, <2>1, Submits, Zenon DEF mhi_queue_dma, ClientMayQueue, mhi_is_ring_full
<1>3. ASSUME NEW b \in Buf, QueueBufCheck(b) PROVE XQ!XNext \/ UNCHANGED XQ!xvars
  BY <1>a, <1>b, <1>3, DoorbellKeepsOn, QueueSame DEF QueueBufCheck, SubRest, thrv, ringv
<1>4. CASE mhi_gen_tre
  <2>1. /\ chst = "ENABLED" /\ chst' = "ENABLED" /\ dv' = dv /\ sub.b \in Buf
        /\ sub.chain \in BOOLEAN
    BY <1>a, <1>4, Zenon DEF mhi_gen_tre, SubRest, Threads, Client
  <2>2. CASE AddElement(sub.b, sub.chain)
    BY <1>4, <2>1, <2>2, Submits, Zenon DEF mhi_gen_tre, Room
  <2>3. CASE UNCHANGED ringv
    BY <1>b, <1>4, <2>1, <2>3, QueueSame DEF mhi_gen_tre, SubRest, thrv, ringv
  <2> QED
    BY <1>4, <2>2, <2>3, Zenon DEF mhi_gen_tre
<1>5. CASE mhi_queue_buf
  BY <1>a, <1>b, <1>5, DoorbellKeepsOn, QueueSame DEF mhi_queue_buf, SubRest, thrv, ringv
<1>6. CASE DevCommand
  <2>1. cmds # <<>>
    BY <1>6, ShortRings DEF DevCommand, Types
  <2>2. chst # "ENABLED" /\ UNCHANGED <<rp, wp, slot, chst, opn, rem, was>>
    BY <1>a, <1>6, <2>1, Zenon DEF DevCommand, DevRest, ringv, thrv, Commands
  <2> QED
    BY <1>b, <2>2, ModeFacts, Zenon DEF XQ!xvars, Queue, Served, Nth
<1>7. CASE DevServe
  <2>1. /\ dv'.rp = Bump(dv.rp) /\ dv.rp # DevKnows
        /\ UNCHANGED <<rp, wp, slot, chst, opn, rem, was>>
    BY <1>a, <1>7, Zenon DEF DevServe, DevRest, DevView, ringv, thrv
  <2>2. Mode' = Mode /\ Queue' = Queue
    BY <1>b, <2>1, Zenon DEF Queue, Nth
  <2>3. CASE chst # "ENABLED"
    BY <2>1, <2>2, <2>3, Zenon DEF XQ!xvars, Served, Mode
  <2>4. CASE chst = "ENABLED"
    <3>1. Dist(Bump(dv.rp)) = Dist(dv.rp) + 1 /\ Dist(dv.rp) < Dist(DevKnows)
      BY <2>1, <2>4, ServeAdvances, Zenon
    <3>2. Served = Dist(dv.rp) /\ Served' = Dist(dv.rp) + 1 /\ Mode = "open" /\ Queue = Content
      BY <2>1, <2>2, <2>4, <3>1, ModeFacts DEF Served, Dist
    <3>3. Dist(dv.rp) < Dist(wp)
      BY <2>4, <3>1, Order
    <3>4. XQ!XServe
      BY <2>2, <3>2, <3>3, ContentFacts, Zenon DEF XQ!XServe
    <3> QED
      BY <3>4, Zenon DEF XQ!XNext
  <2> QED
    BY <2>3, <2>4, Zenon
<1>8. CASE DevStopPolling
  BY <1>a, <1>b, <1>8, QueueSame DEF DevStopPolling, DevRest, thrv, ringv
<1>9. CASE DevHang
  BY <1>a, <1>b, <1>9, QueueSame, Zenon DEF DevHang, thrv, ringv
<1>10. CASE parse_xfer_event
  BY <1>a, <1>b, <1>10, DoorbellKeepsOn, QueueSame DEF parse_xfer_event, CompleteUpTo, DbModeEvent, EvRest, thrv, ringv
<1>11. CASE XferCallback
  <2>1. UNCHANGED <<wp, slot, dv, chst, opn, rem, was>> /\ chst = "ENABLED" /\ h.on
    BY <1>11, Zenon DEF XferCallback, EvRest, thrv, Threads
  <2>2. CASE rp = h.upto
    BY <1>b, <1>11, <2>1, <2>2, QueueSame DEF XferCallback
  <2>3. CASE rp # h.upto
    <3>1. rp' = Bump(rp) /\ rp \in Idx
      BY <1>11, <2>3, Zenon DEF XferCallback, Types
    <3>2. Dist(h.upto) > 0 /\ Dist(h.upto) <= Dist(dv.rp)
      BY <2>1, <2>3, <3>1, EventDist, UsedRange DEF Dist, Events
    <3>3. rp # dv.rp /\ rp # wp
      <4>1. /\ Dist(dv.rp) \in Nat /\ Dist(wp) \in Nat /\ Dist(h.upto) \in Nat
            /\ Dist(dv.rp) <= Dist(wp)
        BY <2>1, EventDist, Order
      <4>2. Dist(dv.rp) > 0 /\ Dist(wp) > 0
        BY <3>2, <4>1
      <4> QED
        BY <3>1, <4>2, UsedRange DEF Dist
    <3>4. Content # <<>> /\ Content' = Tail(Content)
      BY <2>1, <3>1, <3>3, Retires, Zenon
    <3>5. get_used_ring_elements(rp', dv.rp) = Dist(dv.rp) - 1
      BY <3>1, <3>3, EventDist, UsedDel, Zenon DEF Dist
    <3>6. /\ Mode = "open" /\ Mode' = "open" /\ Queue = Content /\ Queue' = Content'
          /\ Served = Dist(dv.rp) /\ Served' = Dist(dv.rp) - 1
      BY <2>1, <3>5, Zenon DEF Mode, Queue, Content, Served, Dist
    <3>7. XQ!XComplete
      BY <3>2, <3>4, <3>6, EventDist DEF XQ!XComplete
    <3> QED
      BY <3>7, Zenon DEF XQ!XNext
  <2> QED
    BY <2>2, <2>3, Zenon
<1>12. CASE mhi_process_cmd_completion
  BY <1>a, <1>b, <1>12, QueueSame DEF mhi_process_cmd_completion, thrv, ringv
<1>13. CASE EnterM2
  BY <1>a, <1>b, <1>13, QueueSame DEF EnterM2, PowRest, thrv, ringv
<1>14. CASE EnterM3
  BY <1>a, <1>b, <1>14, QueueSame DEF EnterM3, PowRest, thrv, ringv
<1>15. CASE mhi_pm_m0_transition
  BY <1>a, <1>b, <1>15, DoorbellKeepsOn, QueueSame DEF mhi_pm_m0_transition, PowRest, dbv, thrv, ringv
<1>16. CASE Fault
  BY <1>a, <1>b, <1>16, QueueSame, Zenon DEF Fault, PowRest, thrv, ringv
<1>17. CASE PrepareChannel
  <2>1. Mode = "closed" /\ Mode' = "closed"
    BY <1>a, <1>17, Zenon DEF PrepareChannel, Mode, Closing
  <2> QED
    BY <2>1, Zenon DEF XQ!xvars, Queue, Served
<1>18. CASE ChannelStarted
  <2>1. Mode = "closed" /\ opn = "start_wait"
    BY <1>a, <1>18, Zenon DEF ChannelStarted, Mode, Closing, Threads
  <2>2. CASE comp /\ ccs = "SUCCESS"
    <3>1. chst' = "ENABLED" /\ UNCHANGED <<rp, wp, dv>>
      BY <1>18, <2>2, Zenon DEF ChannelStarted, OpRest, ringv
    <3>2. rp = 0 /\ wp = 0 /\ dv.rp = 0
      BY <2>1, <2>2 DEF Rings, Device, Fresh
    <3>3. get_used_ring_elements(0, 0) = 0
      BY DEF get_used_ring_elements
    <3>4. Mode' = "open" /\ Queue' = <<>> /\ Served' = 0
      BY <3>1, <3>2, <3>3 DEF Mode, Queue, Served
    <3>5. XQ!XOpen
      BY <2>1, <3>4, ModeFacts, Zenon DEF XQ!XOpen
    <3> QED
      BY <3>5, Zenon DEF XQ!XNext
  <2>3. CASE ~(comp /\ ccs = "SUCCESS")
    <3>1. Mode' = "closed"
      BY <1>a, <1>18, <2>3, Zenon DEF ChannelStarted, Mode, Closing, Threads
    <3> QED
      BY <2>1, <3>1, Zenon DEF XQ!xvars, Queue, Served
  <2> QED
    BY <2>2, <2>3, Zenon
<1>19. CASE UnprepareChannel
  <2>1. Mode = "open" /\ Mode' = "closing" /\ UNCHANGED <<rp, wp, slot>>
    BY <1>19, Zenon DEF UnprepareChannel, Mode, Closing, ringv
  <2>2. XQ!XClosing
    BY <2>1, Zenon DEF XQ!XClosing, Queue, Served, Nth
  <2> QED
    BY <2>2, Zenon DEF XQ!XNext
<1>20. CASE ChannelReset
  <2>1. Mode' = Mode
    BY <1>a, <1>20, Zenon DEF ChannelReset, OpRest, RemRest, Mode, Closing, Threads
  <2> QED
    BY <1>20, <2>1, QueueSame, Zenon DEF ChannelReset, OpRest, RemRest, ringv, mhi_deinit_chan_ctxt
<1>21. CASE mhi_reset_data_chan
  <2>1. rp # wp /\ rp' = Bump(rp) /\ UNCHANGED <<wp, slot, chst, opn, rem, was>>
    BY <1>21, Zenon DEF mhi_reset_data_chan, thrv
  <2>2. Mode = "closing"
    <3>1. CASE opn = "drain"
      BY <1>a, <3>1, Zenon DEF Mode, Closing
    <3>2. CASE rem = "drain"
      <4>1. ini
        BY <2>1, Zenon DEF Rings
      <4>2. was = "ENABLED"
        BY <3>2, <4>1, Zenon DEF Rings, Threads
      <4> QED
        BY <1>a, <3>2, <4>2, Zenon DEF Mode, Closing
    <3> QED
      BY <1>21, <3>1, <3>2, Zenon DEF mhi_reset_data_chan
  <2>3. Content # <<>> /\ Content' = Tail(Content)
    BY <2>1, Retires, Zenon
  <2>4. /\ Mode' = "closing" /\ Queue = Content /\ Queue' = Content' /\ Served' = Served
    BY <1>b, <2>1, <2>2, Zenon DEF Queue, Content, Served
  <2>5. XQ!XFlush
    BY <2>2, <2>3, <2>4, Zenon DEF XQ!XFlush
  <2> QED
    BY <2>5, Zenon DEF XQ!XNext
<1>22. CASE ChannelClosed
  <2>1. Mode = "closing" /\ Mode' = "closed" /\ rp = wp
    BY <1>a, <1>22, Zenon DEF ChannelClosed, Mode, Closing, Threads
  <2>2. Queue = <<>> /\ Queue' = <<>> /\ Served = 0 /\ Served' = 0
    BY <2>1, ModeFacts, ContentFacts, Zenon DEF Queue, Served
  <2>3. XQ!XClosed
    BY <2>1, <2>2, Zenon DEF XQ!XClosed
  <2> QED
    BY <2>3, Zenon DEF XQ!XNext
<1>23. CASE RemoveWake
  <2>1. Mode' = Mode
    BY <1>a, <1>23, Zenon DEF RemoveWake, OpRest, RemRest, Mode, Closing, Threads
  <2> QED
    BY <1>23, <2>1, QueueSame, Zenon DEF RemoveWake, OpRest, RemRest, ringv, mhi_deinit_chan_ctxt
<1>24. CASE RemoveStop
  <2>1. UNCHANGED <<rp, wp, slot, dv>>
    BY <1>24, Zenon DEF RemoveStop, RemRest, OpRest, ringv
  <2>2. CASE chst = "ENABLED"
    <3>1. Mode = "open" /\ Mode' = "closing"
      BY <1>24, <2>2, Zenon DEF RemoveStop, Mode, Closing
    <3>2. XQ!XClosing
      BY <2>1, <3>1, Zenon DEF XQ!XClosing, Queue, Served, Nth
    <3> QED
      BY <3>2, Zenon DEF XQ!XNext
  <2>3. CASE chst # "ENABLED"
    <3>1. Mode' = Mode
      BY <1>a, <1>24, <2>3, Zenon DEF RemoveStop, Mode, Closing, Threads
    <3> QED
      BY <2>1, <3>1, QueueSame, Zenon
  <2> QED
    BY <2>2, <2>3, Zenon
<1>25. CASE RemoveDrained
  <2>1. Mode' = Mode
    BY <1>a, <1>25, Zenon DEF RemoveDrained, OpRest, RemRest, Mode, Closing, Threads
  <2> QED
    BY <1>25, <2>1, QueueSame, Zenon DEF RemoveDrained, OpRest, RemRest, ringv, mhi_deinit_chan_ctxt
<1>26. CASE RemoveClient
  <2>1. Mode' = Mode
    BY <1>a, <1>26, Zenon DEF RemoveClient, OpRest, RemRest, Mode, Closing, Threads
  <2> QED
    BY <1>26, <2>1, QueueSame, Zenon DEF RemoveClient, OpRest, RemRest, ringv, mhi_deinit_chan_ctxt
<1>27. CASE RemoveDeinit
  <2>1. chst # "ENABLED" /\ rp = wp /\ Mode' = "closed" /\ opn = "gone"
    BY <1>a, <1>27, Zenon DEF RemoveDeinit, Rings, Threads, Mode, Closing
  <2>2. Queue = <<>> /\ Queue' = <<>> /\ Served = 0 /\ Served' = 0
    BY <2>1, ModeFacts, ContentFacts, Zenon DEF Queue, Served
  <2>3. CASE Mode = "closing"
    <3>1. XQ!XClosed
      BY <2>1, <2>2, <2>3, Zenon DEF XQ!XClosed
    <3> QED
      BY <3>1, Zenon DEF XQ!XNext
  <2>4. CASE Mode # "closing"
    BY <2>1, <2>2, <2>4, ModeFacts, Zenon DEF XQ!xvars, Mode
  <2> QED
    BY <2>3, <2>4, Zenon
<1>28. CASE mhi_driver_probe
  <2>1. Mode = "closed" /\ Mode' = "closed"
    BY <1>a, <1>28, Zenon DEF mhi_driver_probe, Mode, Closing, Threads
  <2> QED
    BY <2>1, Zenon DEF XQ!xvars, Queue, Served
<1> QED
  BY <1>1, <1>2, <1>3, <1>4, <1>5, <1>6, <1>7, <1>8, <1>9, <1>10, <1>11, <1>12, <1>13,
     <1>14, <1>15, <1>16, <1>17, <1>18, <1>19, <1>20, <1>21, <1>22, <1>23, <1>24, <1>25,
     <1>26, <1>27, <1>28, Zenon
     DEF RingNext, QueueStep, DevStep, EventStep, PowerStep, OpenStep, RemoveStep

\* A channel implements the queue its clients are promised (XferQueue): in
\* order, each buffer once, returned before the channel closes; for rings of
\* any size and any number of buffers.
THEOREM ChannelRefinesQueue == ASSUME InTime PROVE RingSpec => ChannelImplementsQueue
<1>1. RingInit => XQ!XInit
  BY Zenon DEF RingInit, XQ!XInit, Queue, Served, Mode, Closing
<1>2. RingInv /\ [RingNext]_ringVars => [XQ!XNext]_(XQ!xvars)
  <2> SUFFICES ASSUME RingInv, [RingNext]_ringVars PROVE [XQ!XNext]_(XQ!xvars)
    OBVIOUS
  <2>1. CASE RingNext
    BY <2>1, RefinesStep, Zenon DEF RingInv
  <2>2. CASE UNCHANGED ringVars
    <3>1. UNCHANGED <<rp, wp, slot, dv, chst, opn, rem, was>>
      BY <2>2, Zenon DEF ringVars, ringv, thrv
    <3> QED
      BY <3>1, QueueSame, Zenon DEF Mode, Closing
  <2> QED
    BY <2>1, <2>2, Zenon
<1> QED
  BY <1>1, <1>2, RingInvariant, PTL DEF RingSpec, ChannelImplementsQueue, XQ!XSpec
=============================================================================
