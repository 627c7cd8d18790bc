----------------------------- MODULE QmiTransport -----------------------------
(***************************************************************************)
(* The request/response layer of quectel-CM: QmiThreadSendQMITimeout and    *)
(* QmiThreadRecvQMI (QMIThread.c) over the two back ends, QmiWwanCM.c (one  *)
(* character device or proxy, client ids from the CTL service) and          *)
(* GobiNetCM.c (one file per service).  The main thread sends one request   *)
(* at a time and waits on a condition variable in slices; the reader thread *)
(* matches answers, turns indications into events and aborts the request    *)
(* when it stops.  Both share s_pRequest and s_pResponse under one mutex.   *)
(***************************************************************************)
EXTENDS Integers, Sequences, FiniteSets

CONSTANTS Ops,       \* back ends to explore, a subset of {"qmiwwan", "gobinet"}
          Slots,     \* client slots, a subset of {"WDS", "WDS6", "NAS"}
          TidMax,    \* last transaction id before the counter wraps
          Slices,    \* slices of one wait (4 in the code)
          SyncMax,   \* tries of the SYNC request (10 in the code)
          FaultMax,  \* lost answers, failed writes, spurious wakeups, hangups, resets
          IndMax,    \* indications the modem sends
          ReqMax     \* requests of the main loop

ASSUME TransportAssumption ==
  /\ Ops \subseteq {"qmiwwan", "gobinet"} /\ Slots \subseteq {"WDS", "WDS6", "NAS"}
  /\ {TidMax, Slices, SyncMax} \subseteq Nat \ {0}
  /\ {FaultMax, IndMax, ReqMax} \subseteq Nat

VARIABLES
  ops,      \* the back end of this run
  mpc,      \* where the main thread is
  todo,     \* requests the main thread still has to make, in order
  req,      \* the request of the call in progress
  sreq,     \* s_pRequest
  sresp,    \* s_pResponse
  got,      \* *ppResponse
  ret,      \* result of the wait, then of the call
  slice,    \* slices of the wait used up
  mutex,    \* cm_command_mutex is held by the main thread
  tid,      \* the transaction counter
  rpc,      \* where the reader thread is
  rmsg,     \* the message the reader has read
  fd,       \* the device is open
  quitting, \* wait_for_request_quit
  ctl,      \* events main -> reader
  ev,       \* events reader -> main
  clients,  \* qmiclientId
  down, up, \* messages to and from the modem
  granted,  \* client ids the modem has given out and not taken back
  ids,      \* ids given out so far
  round,    \* client ids granted since the reader was started
  freed,    \* the current request, once it has been freed
  missed,   \* a signal was sent while the waiter was between two slices
  stop,     \* SIGTERM: "no", "sent", "read" or "lost"
  n, faults, inds, reqs

mainVars == <<mpc, todo, req, got, ret, slice, tid, n, reqs>>
shared == <<sreq, sresp, freed>>
readerVars == <<rpc, rmsg, quitting>>
modemVars == <<down, up, granted, ids, round>>
tvars == <<ops, mainVars, shared, mutex, readerVars, fd, ctl, ev, clients, modemVars,
           missed, stop, faults, inds>>

None == [op |-> "none", slot |-> "CTL", svc |-> "CTL", cid |-> 0, tid |-> 0, n |-> 0, val |-> 0]
Service(s) == IF s = "WDS6" THEN "WDS" ELSE s
Call(op, s) == [None EXCEPT !.op = op, !.slot = s]
SlotSeq == SelectSeq(<<"WDS", "WDS6", "NAS">>, LAMBDA s : s \in Slots)

TInit ==
  /\ ops \in Ops /\ mpc = "create" /\ todo = <<>> /\ req = None /\ sreq = None /\ sresp = None
  /\ got = None /\ ret = "0" /\ slice = 0 /\ mutex = FALSE /\ tid = 0 /\ rpc = "none"
  /\ rmsg = None /\ fd = FALSE /\ quitting = FALSE /\ ctl = <<>> /\ ev = <<>>
  /\ clients = [s \in Slots |-> 0] /\ down = <<>> /\ up = <<>> /\ granted = {} /\ ids = 0
  /\ round = {} /\ freed = {} /\ missed = FALSE /\ stop = "no"
  /\ n = 0 /\ faults = 0 /\ inds = 0 /\ reqs = 0
-----------------------------------------------------------------------------
(* The main thread: composing, sending and waiting.                          *)

\* The counters run from 1 to their largest value and start over.
GetTransactionId == tid' = IF tid + 1 > TidMax THEN 1 ELSE tid + 1

\* A request of the CTL service, whose client id is 0.
ComposeQCTLMsg(c) == [c EXCEPT !.svc = "CTL", !.cid = 0, !.tid = tid', !.n = n + 1]

\* A request to a service; the back end fills in the client id.
ComposeQMUXMsg(c) == [c EXCEPT !.svc = c.slot, !.cid = 0, !.tid = tid', !.n = n + 1]

\* An answer belongs to the request with its service, client id and transaction id.
is_response(p, r) == p.svc = r.svc /\ p.cid = r.cid /\ p.tid = r.tid

SendKeepsResponse ==
  /\ mpc = "call" /\ ~mutex /\ todo # <<>>
  /\ GetTransactionId /\ n' = n + 1 /\ todo' = Tail(todo)
  /\ req' = IF Head(todo).op = "REQ" THEN ComposeQMUXMsg(Head(todo))
                                     ELSE ComposeQCTLMsg(Head(todo))
  /\ mutex' = TRUE /\ sreq' = req' /\ freed' = {} /\ got' = None
  /\ mpc' = "send" /\ slice' = 0 /\ missed' = FALSE
  /\ UNCHANGED <<ops, ret, sresp, readerVars, fd, ctl, ev, clients, modemVars, stop,
                 faults, inds, reqs>>

\* QmiThreadSendQMITimeout up to the send: the request becomes the current one.
QmiThreadSendQMITimeout ==
  /\ mpc = "call" /\ ~mutex /\ todo # <<>>
  /\ GetTransactionId /\ n' = n + 1 /\ todo' = Tail(todo)
  /\ req' = IF Head(todo).op = "REQ" THEN ComposeQMUXMsg(Head(todo))
                                     ELSE ComposeQCTLMsg(Head(todo))
  /\ mutex' = TRUE /\ sreq' = req' /\ freed' = {} /\ sresp' = None /\ got' = None
  /\ mpc' = "send" /\ slice' = 0 /\ missed' = FALSE
  /\ UNCHANGED <<ops, ret, readerVars, fd, ctl, ev, clients, modemVars, stop, faults,
                 inds, reqs>>

\* The call is over: the mutex is released, the request stays current.
CallReturns(r) == ret' = r /\ mutex' = FALSE /\ mpc' = "return"

\* Start of QmiWwanSendQMI: the device must be open and the slot have a client id;
\* the second WDS client goes out as service WDS.
QmiWwanSendQMI ==
  /\ ops = "qmiwwan" /\ mpc = "send"
  /\ IF fd /\ (req.op = "REQ" => clients[req.slot] # 0)
     THEN /\ req' = IF req.op # "REQ" THEN req
                    ELSE [req EXCEPT !.svc = Service(req.slot), !.cid = clients[req.slot]]
          /\ sreq' = req' /\ mpc' = "write" /\ UNCHANGED <<ret, mutex>>
     ELSE CallReturns("ENODEV") /\ UNCHANGED <<req, sreq>>

\* GobiNetSendQMI: the file of the service is its client id, its type is kept.
GobiNetSendQMI ==
  /\ ops = "gobinet" /\ mpc = "send"
  /\ IF clients[req.slot] # 0
     THEN /\ req' = [req EXCEPT !.cid = clients[req.slot]] /\ sreq' = req' /\ mpc' = "write"
          /\ UNCHANGED <<ret, mutex>>
     ELSE CallReturns("ENODEV") /\ UNCHANGED <<req, sreq>>

qmidev_send ==
  /\ QmiWwanSendQMI \/ GobiNetSendQMI
  /\ UNCHANGED <<ops, todo, got, slice, tid, n, reqs, sresp, freed, readerVars, fd, ctl, ev,
                 clients, modemVars, missed, stop, faults, inds>>

\* The write itself: done, failed, or, when the device is not ready for 5 s,
\* skipped with the result of a success.
Write ==
  /\ mpc = "write"
  /\ \/ fd /\ down' = Append(down, req) /\ mpc' = "cond" /\ mutex' = FALSE
        /\ UNCHANGED <<ret, faults>>
     \/ faults < FaultMax /\ faults' = faults + 1 /\ ops = "qmiwwan"
        /\ mpc' = "cond" /\ mutex' = FALSE /\ UNCHANGED <<down, ret>>
     \/ (faults < FaultMax \/ ~fd) /\ faults' = (IF fd THEN faults + 1 ELSE faults)
        /\ CallReturns("EIO") /\ UNCHANGED down
  /\ UNCHANGED <<ops, todo, req, got, slice, tid, n, reqs, shared, readerVars, fd, ctl, ev,
                 clients, up, granted, ids, round, missed, stop, inds>>

\* pthread_cond_timeout_np: the wait ends by a signal (see Signal), by the end of
\* a slice, or spuriously; the mutex is taken again before anything else happens.
pthread_cond_timedwait ==
  /\ mpc = "cond" /\ mpc' = "woken"
  /\ \/ ret' = "ETIMEDOUT" /\ slice' = slice + 1 /\ UNCHANGED faults
     \/ faults < FaultMax /\ faults' = faults + 1 /\ ret' = "0" /\ UNCHANGED slice
  /\ UNCHANGED <<ops, todo, req, got, tid, n, reqs, shared, mutex, readerVars, fd, ctl, ev,
                 clients, modemVars, missed, stop, inds>>

\* With the mutex back: the next slice, or the end of the call with the answer.
pthread_cond_timeout_np ==
  /\ mpc = "woken" /\ ~mutex
  /\ IF ret = "ETIMEDOUT" /\ slice < Slices
     THEN mpc' = "cond" /\ UNCHANGED <<ret, mutex, got>>
     ELSE CASE ret = "ETIMEDOUT" -> CallReturns(ret) /\ UNCHANGED got
            [] ret = "0" /\ sresp # None -> CallReturns("0") /\ got' = sresp
            [] OTHER -> CallReturns("EINVAL") /\ UNCHANGED got
  /\ UNCHANGED <<ops, todo, req, slice, tid, n, reqs, shared, readerVars, fd, ctl, ev,
                 clients, modemVars, missed, stop, faults, inds>>
-----------------------------------------------------------------------------
(* The main thread: what it does with the results.                           *)

InitCalls(i) ==
  [k \in 1..i |-> Call("SYNC", "CTL")] \o <<Call("VERSION", "CTL")>>
    \o [k \in 1..Len(SlotSeq) |-> Call("CLIENT", SlotSeq[k])]

\* The reader is created; the first event says whether it could open the device.
\* GobiNet needs no further set-up, QmiWwanInit starts with SYNC.  The sockets are
\* new, so a SIGTERM of the round before is forgotten.
CreateReader ==
  /\ mpc = "create" /\ rpc = "none" /\ rpc' = "open" /\ mpc' = "connect"
  /\ ctl' = <<>> /\ ev' = <<>> /\ round' = {} /\ quitting' = FALSE
  /\ stop' = IF stop = "sent" THEN "lost" ELSE stop
  /\ UNCHANGED <<ops, todo, req, got, ret, slice, tid, n, reqs, shared, mutex, rmsg, fd,
                 clients, down, up, granted, ids, missed, faults, inds>>

AfterConnect ==
  /\ mpc = "connect" /\ ev # <<>> /\ ev' = Tail(ev)
  /\ \/ Head(ev) # "CONNECTED" /\ mpc' = "done" /\ UNCHANGED todo
     \/ Head(ev) = "CONNECTED" /\ ops = "gobinet" /\ mpc' = "loop" /\ UNCHANGED todo
     \/ Head(ev) = "CONNECTED" /\ ops = "qmiwwan" /\ mpc' = "call" /\ todo' = InitCalls(SyncMax)
  /\ UNCHANGED <<ops, req, got, ret, slice, tid, n, reqs, shared, mutex, readerVars, fd, ctl,
                 clients, modemVars, missed, stop, faults, inds>>

\* SYNC is tried again only after a timeout; any other failure fails the set-up.
AfterSync ==
  /\ mpc = "return" /\ req.op = "SYNC"
  /\ LET left == SelectSeq(todo, LAMBDA c : c.op # "SYNC") IN
     \/ ret = "ETIMEDOUT" /\ Head(todo).op = "SYNC" /\ mpc' = "call" /\ UNCHANGED todo
     \/ ret = "0" /\ mpc' = "call" /\ todo' = left
     \/ ret # "0" /\ (ret # "ETIMEDOUT" \/ Head(todo).op # "SYNC") /\ mpc' = "done"
        /\ UNCHANGED todo
  /\ UNCHANGED clients

\* QmiWwanGetClientID: the id of a good answer for this service, or 0.
QmiWwanGetClientID ==
  /\ mpc = "return" /\ req.op = "CLIENT"
  /\ clients' = [clients EXCEPT ![req.slot] =
                   IF got.op = "ok" /\ got.slot = Service(req.slot) THEN got.val ELSE 0]
  /\ mpc' = (IF todo = <<>> THEN "loop" ELSE "call") /\ UNCHANGED todo

\* QmiWwanReleaseClientID's answer is not looked at.
AfterOther ==
  /\ mpc = "return" /\ req.op \in {"VERSION", "REQ", "RELEASE"}
  /\ mpc' = CASE todo # <<>> -> "call" [] req.op = "RELEASE" -> "quit" [] OTHER -> "loop"
  /\ UNCHANGED <<todo, clients>>

QmiWwanInit ==
  /\ AfterSync \/ QmiWwanGetClientID \/ AfterOther
  /\ UNCHANGED <<ops, req, got, ret, slice, tid, n, reqs, shared, mutex, readerVars, fd, ctl, ev,
                 modemVars, missed, stop, faults, inds>>

Releases == LET held == SelectSeq(SlotSeq, LAMBDA s : clients[s] # 0) IN
  [k \in 1..Len(held) |-> [Call("RELEASE", held[k]) EXCEPT !.val = clients[held[k]]]]

\* QmiWwanDeInit: every slot in use is released once and cleared.
QmiWwanDeInit ==
  /\ ops = "qmiwwan" /\ todo' = Releases /\ clients' = [s \in Slots |-> 0]
  /\ mpc' = IF todo' = <<>> THEN "quit" ELSE "call"

\* GobiNetDeInit closes the files, which the reader may be polling.
GobiNetDeInit == ops = "gobinet" /\ clients' = [s \in Slots |-> 0]

\* SIGTERM in the main loop: deinit, then the reader is told to quit.
MainStop ==
  /\ mpc = "loop" /\ stop = "sent" /\ stop' = "read"
  /\ QmiWwanDeInit \/ (GobiNetDeInit /\ mpc' = "quit" /\ UNCHANGED todo)
  /\ UNCHANGED <<ops, req, got, ret, slice, tid, n, reqs, shared, mutex, readerVars, fd, ctl, ev,
                 modemVars, missed, faults, inds>>

\* A request of the main loop: on its own account or for an indication.
MainRequest(s) ==
  /\ mpc = "loop" /\ mpc' = "call" /\ todo' = <<Call("REQ", s)>>
  /\ \/ reqs < ReqMax /\ reqs' = reqs + 1 /\ UNCHANGED ev
     \/ ev # <<>> /\ Head(ev) = (IF s = "NAS" THEN "NET" ELSE "CALL") /\ ev' = Tail(ev)
        /\ UNCHANGED reqs
  /\ UNCHANGED <<ops, req, got, ret, slice, tid, n, shared, mutex, readerVars, fd, ctl, clients,
                 modemVars, missed, stop, faults, inds>>

\* A reset of the modem ends the round without deinit, a lost device too.
MainEvent ==
  /\ mpc = "loop" /\ ev # <<>> /\ Head(ev) \in {"RESET", "DISCONNECTED"} /\ ev' = Tail(ev)
  /\ IF Head(ev) = "RESET" THEN ctl' = Append(ctl, "QUIT") /\ mpc' = "restart"
                           ELSE UNCHANGED ctl /\ mpc' = "join"
  /\ UNCHANGED <<ops, todo, req, got, ret, slice, tid, n, reqs, shared, mutex, readerVars, fd,
                 clients, modemVars, missed, stop, faults, inds>>

MainQuit ==
  /\ mpc = "quit" /\ ctl' = Append(ctl, "QUIT") /\ mpc' = "join"
  /\ UNCHANGED <<ops, todo, req, got, ret, slice, tid, n, reqs, shared, mutex, readerVars, fd,
                 ev, clients, modemVars, missed, stop, faults, inds>>

\* pthread_join; after a reset quectel_CM starts over with new sockets.
MainJoin ==
  /\ mpc \in {"join", "restart"} /\ rpc = "gone" /\ rpc' = "none"
  /\ mpc' = IF mpc = "restart" THEN "create" ELSE "done"
  /\ UNCHANGED <<ops, todo, req, got, ret, slice, tid, n, reqs, shared, mutex, rmsg, quitting,
                 fd, ctl, ev, clients, modemVars, missed, stop, faults, inds>>

\* SIGTERM tells both threads.
Stop ==
  /\ stop = "no" /\ stop' = "sent" /\ mpc \notin {"create", "done", "join", "restart"}
  /\ ctl' = Append(ctl, "STOP")
  /\ UNCHANGED <<ops, mainVars, shared, mutex, readerVars, fd, ev, clients, modemVars, missed,
                 faults, inds>>
-----------------------------------------------------------------------------
(* The reader thread.                                                        *)

\* Waking the waiter, if there is one in pthread_cond_timedwait.
Signal ==
  /\ IF mpc = "cond" THEN mpc' = "woken" /\ ret' = "0" ELSE UNCHANGED <<mpc, ret>>
  /\ missed' = (missed \/ (mpc = "woken" /\ ret = "ETIMEDOUT"))

RecvNullKeepsLock(next) ==
  /\ ~mutex /\ rpc' = next
  /\ IF sreq # None
     THEN freed' = {sreq.n} /\ sreq' = None /\ sresp' = None /\ Signal /\ mutex' = FALSE
     ELSE UNCHANGED <<shared, mpc, ret, missed>> /\ mutex' = TRUE
  /\ UNCHANGED <<ev, rmsg>>

\* QmiThreadRecvQMI(NULL): a request in progress is aborted.
QmiThreadRecvNull(next) ==
  /\ ~mutex /\ rpc' = next
  /\ IF sreq # None
     THEN freed' = {sreq.n} /\ sreq' = None /\ sresp' = None /\ Signal
     ELSE UNCHANGED <<shared, mpc, ret, missed>>
  /\ UNCHANGED <<mutex, ev, rmsg>>

RecvKeepsRequest ==
  /\ ~mutex /\ rpc' = "poll" /\ rmsg' = None
  /\ IF sreq # None /\ is_response(sreq, rmsg)
     THEN freed' = {sreq.n} /\ sresp' = rmsg /\ Signal /\ UNCHANGED <<ev, sreq>>
     ELSE /\ ev' = IF rmsg.op \in {"RESET", "NET", "CALL"} THEN Append(ev, rmsg.op) ELSE ev
          /\ UNCHANGED <<shared, mpc, ret, missed>>
  /\ UNCHANGED mutex

\* QmiThreadRecvQMI: an answer to the current request wakes its sender, an
\* indication becomes an event, anything else is dropped.
QmiThreadRecvQMI ==
  /\ ~mutex /\ rpc' = "poll" /\ rmsg' = None
  /\ IF sreq # None /\ is_response(sreq, rmsg)
     THEN freed' = {sreq.n} /\ sreq' = None /\ sresp' = rmsg /\ Signal /\ UNCHANGED ev
     ELSE /\ ev' = IF rmsg.op \in {"RESET", "NET", "CALL"} THEN Append(ev, rmsg.op) ELSE ev
          /\ UNCHANGED <<shared, mpc, ret, missed>>
  /\ UNCHANGED mutex

ReaderRecv ==
  /\ \/ rpc = "recv" /\ QmiThreadRecvQMI
     \/ rpc = "abort" /\ QmiThreadRecvNull("poll")
     \/ rpc = "last" /\ QmiThreadRecvNull("gone")
  /\ UNCHANGED <<ops, todo, req, got, slice, tid, n, reqs, quitting, fd, ctl, clients, modemVars,
                 stop, faults, inds>>

\* cm_open_dev or cm_open_proxy, with CONNECTED or DISCONNECTED for the main thread.
QmiWwanOpen ==
  /\ ops = "qmiwwan" /\ UNCHANGED <<clients, ids, granted, round>>
  /\ \/ fd' = TRUE /\ ev' = Append(ev, "CONNECTED") /\ rpc' = "poll" /\ UNCHANGED faults
     \/ faults < FaultMax /\ faults' = faults + 1 /\ fd' = FALSE
        /\ ev' = Append(ev, "DISCONNECTED") /\ rpc' = "gone"

\* GobiNetGetClientID for every service: a file each, at most one of them missing;
\* without the WDS file the others are closed again.
GobiNetOpen ==
  /\ ops = "gobinet" /\ ids' = ids + Cardinality(Slots)
  /\ \E miss \in {{}} \cup (IF faults < FaultMax THEN {{s} : s \in Slots} ELSE {}) :
       LET ok == "WDS" \notin miss IN
       /\ clients' = [s \in Slots |-> IF ok /\ s \notin miss
                        THEN ids + (CHOOSE k \in 1..Len(SlotSeq) : SlotSeq[k] = s) ELSE 0]
       /\ granted' = {<<s, clients'[s]>> : s \in {s \in Slots : clients'[s] # 0}}
       /\ round' = {clients'[s] : s \in Slots} \ {0} /\ fd' = ok
       /\ ev' = Append(ev, IF ok THEN "CONNECTED" ELSE "DISCONNECTED")
       /\ rpc' = (IF ok THEN "poll" ELSE "gone") /\ faults' = faults + Cardinality(miss)

ReaderOpen ==
  /\ rpc = "open"
  /\ QmiWwanOpen \/ GobiNetOpen
  /\ UNCHANGED <<ops, mainVars, shared, mutex, rmsg, quitting, ctl, down, up, missed, stop, inds>>

\* The control socket: STOP arms the one second limit, QUIT ends the loop.
ReaderControl ==
  /\ rpc = "poll" /\ ctl # <<>> /\ ctl' = Tail(ctl)
  /\ IF Head(ctl) = "QUIT" THEN rpc' = "quit" /\ UNCHANGED quitting
                           ELSE quitting' = TRUE /\ UNCHANGED rpc
  /\ UNCHANGED <<ops, mainVars, shared, mutex, rmsg, fd, ev, clients, modemVars, missed, stop,
                 faults, inds>>

\* One message; through a proxy qmi_proxy_read takes it from the stream.
ReaderRead ==
  /\ rpc = "poll" /\ fd /\ up # <<>> /\ rmsg' = Head(up) /\ up' = Tail(up) /\ rpc' = "recv"
  /\ UNCHANGED <<ops, mainVars, shared, mutex, quitting, fd, ctl, ev, clients, down, granted, ids,
                 round, missed, stop, faults, inds>>

\* poll() times out only after STOP, then the request in progress is aborted.
ReaderSilence ==
  /\ rpc = "poll" /\ quitting /\ ctl = <<>> /\ up = <<>> /\ rpc' = "abort"
  /\ UNCHANGED <<ops, mainVars, shared, mutex, rmsg, quitting, fd, ctl, ev, clients, modemVars,
                 missed, stop, faults, inds>>

\* The device hangs up, or GobiNetDeInit closed the files under the poll.
ReaderHup ==
  /\ rpc = "poll" /\ rpc' = "quit"
  /\ \/ faults < FaultMax /\ faults' = faults + 1
     \/ ops = "gobinet" /\ (\A s \in Slots : clients[s] = 0) /\ UNCHANGED faults
  /\ UNCHANGED <<ops, mainVars, shared, mutex, rmsg, quitting, fd, ctl, ev, clients, modemVars,
                 missed, stop, inds>>

\* The end of the thread: close, tell the main thread, abort its request.
ReaderQuit ==
  /\ rpc = "quit" /\ rpc' = "last" /\ fd' = FALSE /\ ev' = Append(ev, "DISCONNECTED")
  /\ IF ops = "gobinet" THEN GobiNetDeInit ELSE UNCHANGED clients
  /\ down' = <<>> /\ up' = <<>>
  /\ UNCHANGED <<ops, mainVars, shared, mutex, rmsg, quitting, ctl, granted, ids, round, missed,
                 stop, faults, inds>>

-----------------------------------------------------------------------------
(* The modem and its driver.                                                 *)

\* An answer, unless it is lost; it comes before the transaction ids wrap.
ModemAnswers ==
  /\ down # <<>> /\ down' = Tail(down)
  /\ LET r == Head(down)
         known == r.op # "REQ" \/ <<r.svc, r.cid>> \in granted
         a == [r EXCEPT !.op = IF known THEN "ok" ELSE "err", !.slot = Service(r.slot)] IN
     \/ /\ n - r.n < TidMax
        /\ CASE r.op = "CLIENT" -> /\ ids' = ids + 1 /\ up' = Append(up, [a EXCEPT !.val = ids'])
                                   /\ granted' = granted \cup {<<Service(r.slot), ids'>>}
                                   /\ round' = round \cup {ids'}
             [] r.op = "RELEASE" -> /\ granted' = granted \ {<<Service(r.slot), r.val>>}
                                    /\ up' = Append(up, a) /\ UNCHANGED <<ids, round>>
             [] r.op = "SYNC" -> granted' = {} /\ up' = Append(up, a) /\ UNCHANGED <<ids, round>>
             [] OTHER -> up' = Append(up, a) /\ UNCHANGED <<ids, round, granted>>
        /\ UNCHANGED faults
     \/ /\ faults < FaultMax /\ faults' = faults + 1 /\ UNCHANGED <<up, ids, round, granted>>
  /\ UNCHANGED <<ops, mainVars, shared, mutex, readerVars, fd, ctl, ev, clients, missed, stop,
                 inds>>

Indication(k) ==
  /\ fd /\ up' = Append(up, [None EXCEPT !.op = k, !.svc = CASE k = "NET" -> "NAS" [] k = "CALL" -> "WDS"
                                                     [] OTHER -> "CTL", !.cid = 255])
  /\ IF k = "RESET" THEN faults < FaultMax /\ faults' = faults + 1 /\ granted' = {} /\ UNCHANGED inds
                    ELSE inds < IndMax /\ inds' = inds + 1 /\ UNCHANGED <<granted, faults>>
  /\ UNCHANGED <<ops, mainVars, shared, mutex, readerVars, fd, ctl, ev, clients, down, ids, round,
                 missed, stop>>

Main == \/ CreateReader \/ AfterConnect \/ QmiThreadSendQMITimeout \/ qmidev_send \/ Write
        \/ pthread_cond_timeout_np \/ QmiWwanInit \/ MainStop \/ MainEvent \/ MainQuit \/ MainJoin
        \/ \E s \in Slots : MainRequest(s)
Reader == ReaderOpen \/ ReaderRecv \/ ReaderControl \/ ReaderRead \/ ReaderSilence \/ ReaderHup
          \/ ReaderQuit
TNext == Main \/ Reader \/ pthread_cond_timedwait \/ Stop \/ ModemAnswers
         \/ \E k \in {"CALL", "RESET"} \cup {"NET" : s \in Slots \cap {"NAS"}} : Indication(k)

\* Both threads run, and time passes for the waiter.
TFairness == WF_tvars(Main) /\ WF_tvars(Reader) /\ WF_tvars(pthread_cond_timedwait)
TSpec == TInit /\ [][TNext]_tvars /\ TFairness
-----------------------------------------------------------------------------
\* A call that succeeds hands over the answer to its own request, whatever late
\* answers, aborts and spurious wakeups came in between.
AnswerIsOwn == (mpc = "return" /\ ret = "0") => got.n = req.n

\* s_pRequest never points to a freed request, so no request is freed twice.
CurrentNotFreed == sreq # None => sreq.n \notin freed

\* After SIGTERM the process ends: no request, abort or lost answer keeps the two
\* threads waiting for each other.  (A reset read before the signal forgets it.)
TransportStops == (stop = "sent") ~> (mpc = "done" \/ stop = "lost")
=============================================================================
