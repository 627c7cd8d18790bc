------------------------------- MODULE MhiUci -------------------------------
(***************************************************************************)
(* The character devices of the MHI driver, /dev/mhi_QMI0, mhi_DUN,        *)
(* mhi_DIAG, ... (pcie_mhi, devices/mhi_uci.c), and the modem-control      *)
(* lines behind their ioctl (core/mhi_dtr.c).                              *)
(*                                                                         *)
(* A node exists from probe to remove; the structure behind it lives until *)
(* the last file is closed, so several generations may coexist after a     *)
(* recovery.  The two channels are queues that keep the promise of         *)
(* XferQueue: in order, each buffer back exactly once.  Programs open,     *)
(* read, write and close, the tasklet delivers, the recovery removes.      *)
(***************************************************************************)
EXTENDS Naturals, Sequences, FiniteSets

CONSTANTS Files,     \* open files
          NB,        \* nr_trbs: inbound buffers, one more than the ring takes
          UlCap,     \* free descriptors of the uplink
          GenMax,    \* bound: times the node is probed
          MsgMax,    \* bound: messages of the modem
          WrMax,     \* bound: writes
          IoMax,     \* bound: ioctls
          Kinds,     \* "copy": DUN, QMI, MBIM; "pend": the other nodes
          Early,     \* the modem may send before all inbound buffers are queued
          ZeroLen    \* the modem may complete a transfer of length zero

ASSUME UciAssumption == NB \in Nat /\ NB >= 2 /\ UlCap \in Nat \ {0}

VARIABLES
  kind, gen, cur,              \* node kind, generations used, current one or 0
  en, ref, st, buf,            \* per generation: enabled, ref_count, life, uci_buf
  dead,                         \* the controller is in an error state
  strt, inq, ulq,              \* channels started, inbound ring, uplink packets
  nt, rxe,                     \* nr_trb, rx_error of the current generation
  pl, cb,                      \* pending list, cur_buf
  fg,                          \* generation behind each open file, 0 if closed
  op, rm, rd, wr, io,          \* opener, remover, reader, writer, ioctl
  msgs, lastRead,                   \* messages sent by the modem, last one read
  tio, mdm, dtm,               \* DTR line: host's record, modem's view, message
  wrs, ios                     \* budgets used

nodev == <<kind, gen, cur, en, ref, st, buf>>
chanv == <<strt, inq, ulq>>
rxv   == <<nt, rxe, pl, cb, lastRead>>
dtrv  == <<tio, mdm, dtm, io, ios>>
uciVars == <<nodev, dead, chanv, rxv, fg, op, rm, rd, wr, msgs, dtrv, wrs>>

Gens == 1 .. GenMax
Before(b) == IF b > 0 THEN b - 1 ELSE NB - 1
After(b) == IF b + 1 = NB THEN 0 ELSE b + 1
NoIo == 2
NoOpen == [pc |-> "idle", f |-> 0, i |-> 0]
Lines0 == [dtr |-> 0, cd |-> 0]
MutexFree == op.pc = "idle" /\ io = NoIo

---------------------------------------------------------------------------
(* Life of the node.                                                       *)

mhi_uci_probe ==
  /\ cur = 0 /\ gen < GenMax /\ rm = "idle"
  /\ gen' = gen + 1 /\ cur' = gen'
  /\ en' = [en EXCEPT ![gen'] = TRUE] /\ st' = [st EXCEPT ![gen'] = "live"]
  /\ nt' = 0 /\ rxe' = FALSE /\ pl' = <<>> /\ cb' = <<>>
  /\ tio' = Lines0 /\ mdm' = Lines0 /\ dtm' = "none" /\ dead' = FALSE
  /\ UNCHANGED <<kind, ref, buf, chanv, lastRead, fg, op, rm, rd, wr, io, msgs, wrs, ios>>

\* mhi_uci_open: the first opener starts the channels
mhi_uci_open(f) ==
  /\ cur # 0 /\ fg[f] = 0 /\ MutexFree /\ en[cur]
  /\ IF ref[cur] > 0
     THEN /\ ref' = [ref EXCEPT ![cur] = @ + 1] /\ fg' = [fg EXCEPT ![f] = cur]
          /\ UNCHANGED <<strt, op, buf>>
     ELSE /\ ~dead                       \* otherwise mhi_prepare_for_transfer fails
          /\ ref' = [ref EXCEPT ![cur] = 1] /\ strt' = TRUE
          /\ op' = [pc |-> "inbound", f |-> f, i |-> 0]
          /\ buf' = [buf EXCEPT ![cur] = IF @ = "none" THEN "held" ELSE @]
          /\ UNCHANGED fg
  /\ UNCHANGED <<kind, gen, cur, en, st, dead, inq, ulq, rxv, rm, rd, wr, msgs, dtrv, wrs>>

\* mhi_queue_inbound, one buffer at a time
mhi_queue_inbound ==
  /\ op.pc = "inbound" /\ op.i < NB - 1 /\ ~dead
  /\ inq' = Append(inq, op.i) /\ op' = [op EXCEPT !.i = @ + 1]
  /\ UNCHANGED <<nodev, dead, strt, ulq, rxv, fg, rm, rd, wr, msgs, dtrv, wrs>>

\* a failed queue undoes the start and frees the buffers, but leaves ref_count
OpenFailed ==
  /\ op.pc = "inbound" /\ op.i < NB - 1 /\ dead
  /\ strt' = FALSE /\ inq' = <<>> /\ ulq' = 0
  /\ buf' = [buf EXCEPT ![cur] = "freed"] /\ op' = NoOpen
  /\ UNCHANGED <<kind, gen, cur, en, ref, st, dead, rxv, fg, rm, rd, wr, msgs, dtrv, wrs>>

\* one more reference keeps the node open for ever (QUEC_MHI_UCI_ALWAYS_OPEN)
OpenDone ==
  /\ op.pc = "inbound" /\ op.i = NB - 1
  /\ ref' = [ref EXCEPT ![cur] = @ + 1]
  /\ fg' = [fg EXCEPT ![op.f] = cur] /\ op' = NoOpen
  /\ UNCHANGED <<kind, gen, cur, en, st, buf, dead, chanv, rxv, rm, rd, wr, msgs, dtrv, wrs>>

\* mhi_uci_release; the last file of a removed node frees everything
mhi_uci_release(f) ==
  LET g == fg[f] IN
  /\ g # 0 /\ MutexFree /\ rd.f # f /\ wr.f # f
  /\ fg' = [fg EXCEPT ![f] = 0]
  /\ ref' = [ref EXCEPT ![g] = @ - 1]
  /\ IF ref[g] = 1
     THEN /\ buf' = [buf EXCEPT ![g] = IF @ = "none" THEN @ ELSE "freed"]
          /\ st' = [st EXCEPT ![g] = IF en[g] THEN @ ELSE "freed"]
          /\ IF en[g] THEN strt' = FALSE /\ inq' = <<>> /\ ulq' = 0
                      ELSE UNCHANGED chanv
          /\ cb' = (IF g = cur THEN <<>> ELSE cb)
     ELSE UNCHANGED <<buf, st, chanv, cb>>
  /\ UNCHANGED <<kind, gen, cur, en, dead, nt, rxe, pl, lastRead, op, rm, rd, wr, msgs, dtrv, wrs>>

\* the controller fails, and its recovery removes the devices
Fail == /\ ~dead /\ cur # 0 /\ dead' = TRUE
        /\ UNCHANGED <<nodev, chanv, rxv, fg, op, rm, rd, wr, msgs, dtrv, wrs>>

\* mhi_driver_remove: each buffer still in a ring comes back with -ENOTCONN
RemoveDrain ==
  /\ dead /\ cur # 0 /\ rm = "idle" /\ op.pc = "idle"
  /\ rm' = "client"
  /\ LET n == Len(inq) IN
       /\ rxe' = (rxe \/ \E i \in 1..n : inq[i] # (nt + i - 1) % NB)
       /\ nt' = (nt + n) % NB
  /\ inq' = <<>> /\ ulq' = 0 /\ UNCHANGED strt
  /\ UNCHANGED <<nodev, dead, pl, cb, lastRead, fg, op, rd, wr, msgs, dtrv, wrs>>

mhi_uci_remove ==
  /\ rm = "client" /\ MutexFree
  /\ en' = [en EXCEPT ![cur] = FALSE]
  /\ ref' = [ref EXCEPT ![cur] = IF @ > 0 THEN @ - 1 ELSE @]
  /\ st' = [st EXCEPT ![cur] = IF ref'[cur] = 0 THEN "freed" ELSE @]
  /\ cur' = 0 /\ rm' = "idle" /\ strt' = FALSE
  /\ UNCHANGED <<kind, gen, buf, dead, inq, ulq, rxv, fg, op, rd, wr, msgs, dtrv, wrs>>

LifeStep == \/ mhi_uci_probe \/ mhi_queue_inbound \/ OpenFailed \/ OpenDone \/ Fail \/ RemoveDrain
            \/ mhi_uci_remove
            \/ \E f \in Files : mhi_uci_open(f) \/ mhi_uci_release(f)

---------------------------------------------------------------------------
(* Inbound data: the tasklet fills, a program reads.                       *)

\* mutant: the completed buffer itself goes back
RequeueSame(q, b) == IF dead THEN q ELSE Append(q, b)

\* the buffer given back to the ring is the one BEFORE the completed one, so
\* that with NB buffers for NB - 1 places each place keeps its address
Requeue(q, b) == IF dead THEN q ELSE Append(q, Before(b))

\* mhi_dl_xfer_cb on the buffer at the head of the ring
mhi_dl_xfer_cb(len) ==
  LET b == Head(inq) IN
  /\ strt /\ ~dead /\ rm = "idle" /\ inq # <<>> /\ msgs < MsgMax
  /\ Early \/ op.pc = "idle"
  /\ msgs' = msgs + 1
  /\ IF b # nt
     THEN /\ rxe' = TRUE /\ inq' = Tail(inq) /\ UNCHANGED <<nt, pl>>
     ELSE /\ nt' = After(nt) /\ UNCHANGED rxe
          /\ \/ len = 0 /\ inq' = Tail(inq) /\ UNCHANGED pl
             \/ /\ len > 0 /\ kind = "pend" /\ inq' = Tail(inq)
                /\ pl' = Append(pl, [b |-> b, id |-> msgs'])
             \/ /\ len > 0 /\ kind = "copy" /\ inq' = Requeue(Tail(inq), b)
                /\ pl' = IF ref[cur] = 1 THEN pl          \* nobody has it open
                         ELSE Append(pl, [b |-> b, id |-> msgs'])
  /\ UNCHANGED <<nodev, dead, strt, ulq, cb, lastRead, fg, op, rm, rd, wr, dtrv, wrs>>

\* mhi_uci_read, up to the wait: EINVAL after rx_error, ERESTARTSYS if removed
ReadBegin(f) ==
  /\ fg[f] # 0 /\ rd.pc = "idle" /\ wr.f # f
  /\ en[fg[f]] /\ ~rxe
  /\ rd' = [pc |-> "wait", f |-> f]
  /\ UNCHANGED <<nodev, dead, chanv, rxv, fg, op, rm, wr, msgs, dtrv, wrs>>

\* mutant: only data ends the wait
ReadWakeOnData ==
  /\ rd.pc = "wait" /\ en[fg[rd.f]] /\ (cb # <<>> \/ pl # <<>>)
  /\ rd' = [rd EXCEPT !.pc = "copy"]
  /\ IF cb # <<>> THEN UNCHANGED <<pl, cb>> ELSE cb' = <<Head(pl)>> /\ pl' = Tail(pl)
  /\ UNCHANGED <<nodev, dead, chanv, nt, rxe, lastRead, fg, op, rm, wr, msgs, dtrv, wrs>>

\* the wait ends: the node was removed, or there is a buffer to copy from
ReadWake ==
  /\ rd.pc = "wait"
  /\ \/ ~en[fg[rd.f]] /\ rd' = [pc |-> "idle", f |-> 0] /\ UNCHANGED <<pl, cb>>
     \/ /\ en[fg[rd.f]] /\ (cb # <<>> \/ pl # <<>>)
        /\ rd' = [rd EXCEPT !.pc = "copy"]
        /\ IF cb # <<>> THEN UNCHANGED <<pl, cb>>
           ELSE cb' = <<Head(pl)>> /\ pl' = Tail(pl)
  /\ UNCHANGED <<nodev, dead, chanv, nt, rxe, lastRead, fg, op, rm, wr, msgs, dtrv, wrs>>

\* the copy ends: part of the buffer is left, or it goes back
ReadDone(rest) ==
  /\ rd.pc = "copy" /\ rd' = [pc |-> "idle", f |-> 0]
  /\ IF cur # fg[rd.f] \/ rest THEN UNCHANGED <<cb, lastRead, inq>>
     ELSE /\ cb' = <<>> /\ lastRead' = cb[1].id
          /\ inq' = (IF kind = "pend" /\ en[cur] /\ rm = "idle" THEN Requeue(inq, cb[1].b) ELSE inq)
  /\ UNCHANGED <<nodev, dead, strt, ulq, nt, rxe, pl, fg, op, rm, wr, msgs, dtrv, wrs>>

RxStep == \/ \E len \in (IF ZeroLen THEN {0, 1} ELSE {1}) : mhi_dl_xfer_cb(len)
          \/ (\E f \in Files : ReadBegin(f)) \/ ReadWake
          \/ \E rest \in BOOLEAN : ReadDone(rest)

---------------------------------------------------------------------------
(* Outbound data.                                                          *)

WriteBegin(f) ==
  /\ fg[f] # 0 /\ wr.pc = "idle" /\ rd.f # f /\ wrs < WrMax
  /\ en[fg[f]] /\ ~rxe
  /\ wr' = [pc |-> "wait", f |-> f] /\ wrs' = wrs + 1
  /\ UNCHANGED <<nodev, dead, chanv, rxv, fg, op, rm, rd, msgs, dtrv>>

\* wait for a descriptor or the removal, copy, queue the chunk; more is left
mhi_uci_write(more) ==
  LET g == fg[wr.f] IN
  /\ wr.pc = "wait"
  /\ \/ ~en[g] /\ UNCHANGED ulq /\ wr' = [pc |-> "idle", f |-> 0]
     \/ /\ en[g] /\ ulq < UlCap
        /\ ulq' = (IF dead THEN ulq ELSE ulq + 1)
        /\ wr' = IF more /\ ~dead THEN wr ELSE [pc |-> "idle", f |-> 0]
  /\ UNCHANGED <<nodev, dead, strt, inq, rxv, fg, op, rm, rd, msgs, dtrv, wrs>>

\* mhi_ul_xfer_cb: the chunk is freed and the writer woken
mhi_ul_xfer_cb ==
  /\ strt /\ ~dead /\ ulq > 0 /\ ulq' = ulq - 1
  /\ UNCHANGED <<nodev, dead, strt, inq, rxv, fg, op, rm, rd, wr, msgs, dtrv, wrs>>

TxStep == \/ (\E f \in Files : WriteBegin(f)) \/ mhi_ul_xfer_cb
          \/ \E more \in BOOLEAN : mhi_uci_write(more)

---------------------------------------------------------------------------
(* Modem-control lines: the ioctl holds the node's mutex while it waits.   *)
(* Programs use them on DUN only, one of the "copy" nodes.                 *)

\* mhi_dtr_tiocmset up to its wait; unchanged lines need no message
TiocmsetBegin(v) ==
  /\ v # tio.dtr /\ ~dead                 \* in an error state: -EIO
  /\ io' = v /\ dtm' = "queued" /\ ios' = ios + 1

\* TIOCMSET, where there is a control device
mhi_ioctl(v) == kind = "copy" /\ TiocmsetBegin(v)

mhi_uci_ioctl(f, v) ==
  /\ fg[f] # 0 /\ MutexFree /\ en[fg[f]] /\ ios < IoMax
  /\ mhi_ioctl(v)
  /\ UNCHANGED <<nodev, dead, chanv, rxv, fg, op, rm, rd, wr, msgs, tio, mdm, wrs>>

\* the modem takes the message; mhi_dtr_ul_xfer_cb completes the waiter
mhi_dtr_ul_xfer_cb ==
  /\ dtm = "queued" /\ ~dead /\ dtm' = "done" /\ mdm' = [mdm EXCEPT !.dtr = io]
  /\ UNCHANGED <<nodev, dead, chanv, rxv, fg, op, rm, rd, wr, msgs, tio, io, wrs, ios>>

\* the waiter ends: completed, timed out, or woken by the removal of the
\* control device, which it takes for a success
mhi_dtr_tiocmset ==
  /\ io # NoIo /\ (dtm = "done" \/ dead)
  /\ \/ tio' = [tio EXCEPT !.dtr = io]
     \/ dtm # "done" /\ UNCHANGED tio
  /\ io' = NoIo /\ dtm' = "none"
  /\ UNCHANGED <<nodev, dead, chanv, rxv, fg, op, rm, rd, wr, msgs, mdm, wrs, ios>>

\* mhi_dtr_dl_xfer_cb: the modem reports its carrier
mhi_dtr_dl_xfer_cb ==
  /\ kind = "copy" /\ cur # 0 /\ ~dead /\ mdm.cd = 0
  /\ mdm' = [mdm EXCEPT !.cd = 1] /\ tio' = [tio EXCEPT !.cd = mdm'.cd]
  /\ UNCHANGED <<nodev, dead, chanv, rxv, fg, op, rm, rd, wr, msgs, io, dtm, wrs, ios>>

DtrStep == \/ \E f \in Files, v \in {0, 1} : mhi_uci_ioctl(f, v)
           \/ mhi_dtr_ul_xfer_cb \/ mhi_dtr_tiocmset \/ mhi_dtr_dl_xfer_cb

---------------------------------------------------------------------------
UciInit ==
  /\ kind \in Kinds /\ gen = 0 /\ cur = 0
  /\ en = [g \in Gens |-> FALSE] /\ ref = [g \in Gens |-> 0]
  /\ st = [g \in Gens |-> "none"] /\ buf = [g \in Gens |-> "none"]
  /\ dead = FALSE /\ strt = FALSE /\ inq = <<>> /\ ulq = 0
  /\ nt = 0 /\ rxe = FALSE /\ pl = <<>> /\ cb = <<>> /\ lastRead = 0
  /\ fg = [f \in Files |-> 0]
  /\ op = NoOpen /\ rm = "idle"
  /\ rd = [pc |-> "idle", f |-> 0] /\ wr = [pc |-> "idle", f |-> 0]
  /\ io = NoIo /\ msgs = 0 /\ tio = Lines0 /\ mdm = Lines0 /\ dtm = "none"
  /\ wrs = 0 /\ ios = 0

UciNext == LifeStep \/ RxStep \/ TxStep \/ DtrStep
UciSpec == UciInit /\ [][UciNext]_uciVars

\* the recovery runs to its end, waiters run when woken, the ioctl has a timeout
UciFair == /\ WF_uciVars(RemoveDrain) /\ WF_uciVars(mhi_uci_remove)
           /\ WF_uciVars(mhi_queue_inbound \/ OpenFailed \/ OpenDone) /\ WF_uciVars(mhi_dtr_tiocmset)
           /\ WF_uciVars(ReadWake)
           /\ WF_uciVars(\E more \in BOOLEAN : mhi_uci_write(more))

---------------------------------------------------------------------------

\* The rotation of the inbound buffers keeps the ring in the order the driver
\* expects: no completion is ever for another buffer than uci_buf[nr_trb], so
\* rx_error, which disables the node for good, stays zero ("this can make the
\* address in ring do not change").
RxInOrder == ~rxe

\* Once the controller has failed, the programs blocked in read and write
\* return: the removal always gets the mutex, and its wake-ups reach both.
Blocked == \/ rd.pc = "wait" /\ (dead \/ ~en[fg[rd.f]])
           \/ wr.pc = "wait" /\ (dead \/ ~en[fg[wr.f]])
BlockedCallsEnd == Blocked ~> ~Blocked
=============================================================================
