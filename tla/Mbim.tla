--------------------------------- MODULE Mbim ---------------------------------
(***************************************************************************)
(* quectel-CM over MBIM (mbim-cm.c): the main thread sends one command at a *)
(* time and waits for its answer, the reader thread hands over answers and  *)
(* turns indications into events for the main loop, and the main loop keeps *)
(* its idea of the modem (attached, connected, address) up to date from     *)
(* both.  IPv4 only: with MBIM the IPv6 status is a copy of the IPv4 one.    *)
(***************************************************************************)
EXTENDS Integers, Sequences, FiniteSets, Functions

CONSTANTS Starts,    \* pairs of user settings and states of the modem to start from
          Configs,   \* IP configurations the network hands out
          TidMax,    \* last transaction id (0xFFFFFF in the code)
          Slices,    \* slices of one wait (4 in the code)
          OpenMax,   \* tries of MBIM_OPEN (10 in the code)
          FaultMax,  \* lost answers, refusals, failed writes, early timeouts, hangups
          ChangeMax  \* changes of state the modem makes by itself

VARIABLES
  prof,    \* the user's settings
  mpc,     \* where the main thread is
  job,     \* the command in progress
  why,     \* what the main thread runs the command for
  tries,   \* tries of MBIM_OPEN
  tid,     \* TransactionId
  req,     \* mbim_pRequest
  resp,    \* mbim_pResponse
  err,     \* what the call returns
  got,     \* the answer the call returns
  slice,   \* slices of the wait used up
  auth,    \* profile->auth
  mauth,   \* mbim_auth
  retry,   \* old_auto once this dial has switched the authentication protocol, else -1
  rec,     \* ReadyState, RegisterState, PacketServiceState, ActivationState
  old,     \* their old* copies, which the reader compares with
  sk,      \* qmi_over_mbim_sk: "none", "open" or "closed"
  attached, conn, ip, link,  \* PSAttachedState, IPv4ConnectionStatus, profile->ipv4, s_link
  sig, ev, alarm,            \* signals and events for the main loop, the armed alarm
  rpc, fd, quitting, ctl,  \* the reader thread and what it is told
  modem, mip, down, up,      \* the modem's state, its IP configuration, the two directions
  raced,   \* fields of which an indication was compared with an outdated copy
  stop,    \* SIGTERM has been sent
  faults, changes

mainVars == <<mpc, job, why, tries, tid, err, got, slice, auth, mauth, retry, rec, old, sk,
              attached, conn, ip, link, alarm>>
readerVars == <<rpc, quitting>>
modemVars == <<modem, mip, down, up, changes>>
mvars == <<prof, mainVars, req, resp, sig, ev, readerVars, fd, ctl, modemVars, raced, stop, faults>>

Fields == {"ready", "reg", "ps", "act"}
\* The field a command or an indication is about.
FieldOf(j) == CASE j = "sim" -> {"ready"} [] j = "reg" -> {"reg"} [] j \in {"ps", "attach"} -> {"ps"}
                [] j \in {"connect", "off", "query"} -> {"act"} [] OTHER -> {}
Unknown == [ready |-> "NotInitialized", reg |-> "Unknown", ps |-> "Unknown", act |-> "Unknown"]

\* MBIM_MESSAGE_HEADER and the body: own is cleared when the call that sent it is over.
None == [type |-> "none", tid |-> 0, job |-> "none", status |-> 0, val |-> Unknown,
         cfg |-> <<>>, data |-> <<>>, auth |-> 0, own |-> FALSE]
NoIp == [Address |-> <<0, 0, 0, 0>>, Gateway |-> <<0, 0, 0, 0>>, SubnetMask |-> 0,
         Dns |-> <<<<0, 0, 0, 0>>, <<0, 0, 0, 0>>>>]

MInit ==
  /\ \E s \in Starts : prof = s.prof /\ modem = s.modem
  /\ mpc = "create" /\ job = "none" /\ why = "boot" /\ tries = 0 /\ tid = 1
  /\ req = None /\ resp = None /\ err = "ok" /\ got = None /\ slice = 0 /\ auth = prof.auth
  /\ mauth = 0 /\ retry = -1 /\ rec = Unknown /\ old = Unknown /\ sk = "none"
  /\ attached = 0 /\ conn = "UNKNOW" /\ ip = NoIp /\ link = -1 /\ sig = {} /\ ev = {} /\ alarm = FALSE
  /\ rpc = "none" /\ fd = FALSE /\ quitting = FALSE /\ ctl = <<>>
  /\ mip = (CHOOSE c \in Configs : TRUE) /\ down = <<>> /\ up = <<>> /\ changes = 0
  /\ raced = {} /\ stop = FALSE /\ faults = 0
-----------------------------------------------------------------------------
(* Message contents.                                                         *)

\* _align_32
Align(k) == k + (IF k % 4 = 0 THEN 0 ELSE 4 - (k % 4))

\* Letters become 16-bit characters, as many as there is room for.
char2wchar(s, room) ==
  LET k == IF Len(s) > room \div 2 THEN room \div 2 ELSE Len(s)
  IN [i \in 1..2 * k |-> IF i % 2 = 1 THEN s[(i + 1) \div 2] ELSE 0]

\* The letters of the segment at off of size bytes.
wchar2char(b, off, size) == [i \in 1..size \div 2 |-> b[off + 2 * i - 1]]

Place(b, off, w) ==
  [i \in DOMAIN b |-> IF i - off \in DOMAIN w THEN w[i - off] ELSE b[i]]

\* One string of the connect data: where it goes, and where the next one is put.
Segment(acc, s) ==
  IF s = <<>> THEN [acc EXCEPT !.refs = Append(@, <<0, 0>>)]
  ELSE LET w == char2wchar(s, Len(acc.buf) - acc.off)
       IN [buf |-> Place(acc.buf, acc.off, w), off |-> Align(Len(w)),
           refs |-> Append(acc.refs, <<acc.off, 2 * Len(s)>>)]

\* APN, user name and password, each aligned to four bytes.
mbim_populate_connect_data(p) ==
  LET buflen == Align(Align(Align(2 * Len(p.apn)) + 2 * Len(p.user)) + 2 * Len(p.pd))
      empty == [buf |-> [i \in 1..buflen |-> 0], off |-> 0, refs |-> <<>>]
  IN Segment(Segment(Segment(empty, p.apn), p.user), p.pd)

\* What the modem reads out of the connect data.
Decoded(d) == [k \in 1..3 |-> wchar2char(d.buf, d.refs[k][1], d.refs[k][2])]

\* mbim2qmi_ipv4addr swaps the four bytes; ipv4Str prints them from the last to the first.
mbim2qmi_ipv4addr(b) == <<b[4], b[3], b[2], b[1]>>
ipv4Str(b) == <<b[4], b[3], b[2], b[1]>>

\* The modem reads the strings of a profile out of the connect data as they were
\* given, and an address is printed as the network sent it.
ASSUME ContentsSurvive ==
  /\ \A s \in Starts : Decoded(mbim_populate_connect_data(s.prof)) = <<s.prof.apn, s.prof.user, s.prof.pd>>
  /\ \A c \in Configs : ipv4Str(mbim2qmi_ipv4addr(c.addr)) = c.addr

\* mbim_ip_config on an answer with a configuration: absent parts keep their value.
SetIp(c) ==
  [Address |-> mbim2qmi_ipv4addr(c.addr),
   Gateway |-> IF c.gw = <<>> THEN ip.Gateway ELSE mbim2qmi_ipv4addr(c.gw),
   SubnetMask |-> c.prefix,
   Dns |-> [k \in 1..2 |-> IF k <= Len(c.dns) THEN mbim2qmi_ipv4addr(c.dns[k])
                           ELSE ip.Dns[k]]]
-----------------------------------------------------------------------------
(* The main thread: one command and its answer.                              *)

\* The compose_* functions: type, length, id, service and contents of a command.
Command(j, t) ==
  [None EXCEPT !.type = "cmd", !.job = j, !.tid = t, !.own = TRUE, !.auth = mauth,
               !.data = IF j \in {"connect", "off"} THEN mbim_populate_connect_data(prof) ELSE <<>>]

Disown(s) == [i \in DOMAIN s |-> [s[i] EXCEPT !.own = FALSE]]

\* The call is over: nobody waits for its answer any more.
CallEnds(e, m) ==
  /\ mpc' = "ret" /\ err' = e /\ got' = m /\ req' = None /\ resp' = None
  /\ down' = Disown(down) /\ up' = Disown(up)

\* The ids run from 1 to TidMax; the id that would follow is replaced by 1.
WrapsNow == tid = TidMax + 1

\* mbim_send_command up to the wait.  Without device or reader it returns at once.
mbim_send_command ==
  /\ mpc = "call"
  /\ \/ /\ ~fd /\ tid' = tid + 1 /\ CallEnds("neg", None) /\ UNCHANGED <<slice, faults, raced>>
     \/ /\ fd /\ LET t == IF WrapsNow THEN 1 ELSE tid
                     m == Command(job, t)
                 IN /\ tid' = t + 1
                    /\ \/ /\ down' = Append(down, m) /\ req' = m /\ resp' = None /\ got' = None
                          /\ mpc' = "cond" /\ slice' = 0 /\ raced' = raced \ FieldOf(job)
                          /\ UNCHANGED <<err, up, faults>>
                       \/ /\ faults < FaultMax /\ faults' = faults + 1
                          /\ \E e \in {"neg", "pos"} : CallEnds(e, None)
                          /\ UNCHANGED <<slice, raced>>
  /\ UNCHANGED <<prof, job, why, tries, auth, mauth, retry, rec, old, sk, attached, conn, ip, link,
                 alarm, sig, ev, rpc, quitting, fd, ctl, modem, mip, changes, stop>>

\* The answer to the command in progress has been lost, or the signal for it.
Unanswered == \/ resp # None \/ rpc = "gone"
              \/ \A m \in Range(down) \cup Range(up) : ~m.own

\* pthread_cond_timeout_np: a slice of the wait is over and the mutex is wanted again.
SliceExpires ==
  /\ mpc = "cond" /\ mpc' = "late" /\ slice' = slice + 1
  /\ IF Unanswered \/ slice > 0 THEN UNCHANGED faults ELSE faults < FaultMax /\ faults' = faults + 1
  /\ UNCHANGED <<prof, job, why, tries, tid, err, got, auth, mauth, retry, rec, old, sk, attached,
                 conn, ip, link, alarm, req, resp, sig, ev, readerVars, fd, ctl, modemVars, raced, stop>>

\* The next slice, or the end of the wait, whatever has come in meanwhile.
pthread_cond_timeout_np ==
  /\ mpc = "late"
  /\ IF slice < Slices THEN mpc' = "cond" /\ UNCHANGED <<err, got, req, resp, down, up>>
                       ELSE CallEnds("ETIMEDOUT", None)
  /\ UNCHANGED <<prof, job, why, tries, tid, slice, auth, mauth, retry, rec, old, sk, attached, conn,
                 ip, link, alarm, sig, ev, rpc, quitting, fd, ctl, modem, mip, changes, raced, stop, faults>>

\* The signalled waiter has the mutex again and takes the answer, if there is one.
Awake ==
  /\ mpc = "woken" /\ CallEnds("ok", resp)
  /\ UNCHANGED <<prof, job, why, tries, tid, slice, auth, mauth, retry, rec, old, sk, attached, conn,
                 ip, link, alarm, sig, ev, rpc, quitting, fd, ctl, modem, mip, changes, raced, stop, faults>>

\* mbim_check_err and mbim_status_code: a call without answer or with a status fails.
Result == IF err # "ok" THEN err ELSE IF got = None \/ got.status # 0 THEN "pos" ELSE "ok"
-----------------------------------------------------------------------------
(* The main thread: what an answer leads to.                                 *)

\* The answer has been looked at and freed.
Taken == err' = "ok" /\ got' = None /\ slice' = 0
Go(j, w) == mpc' = "call" /\ job' = j /\ why' = w

\* The commands, each named as the function that sends it and looks at its answer.
mbim_proxy_configure(w) == Go("proxy", w)
mbim_open(w) == Go("open", w)
mbim_device_caps_query(w) == Go("caps", w)
mbim_device_services(w) == Go("services", w)
mbim_ms_version_query(w) == Go("version", w)
mbim_set_radio_state(w) == Go("radio", w)
mbim_subscriber_status_query(w) == Go("sim", w)
mbim_register_state_query(w) == Go("reg", w)
mbim_packet_service_query(w) == Go("ps", w)
mbim_packet_service_set(w) == Go("attach", w)
mbim_set_connect(w) == Go(IF w = "stop" THEN "off" ELSE "connect", w)
mbim_query_connect(w) == Go("query", w)
mbim_ip_config(w) == Go("ip", w)
mbim_close_device(w) == Go("close", w)

Idle == mpc' = "idle" /\ job' = "none" /\ why' = "none"
\* qmi_main returns from its set-up: the process ends.
Exit == mpc' = "done" /\ UNCHANGED <<job, why>>

\* The part of an answer that the queries keep, then mbim_update_state on all four fields.
Recorded(j) == [f \in Fields |-> IF f \in FieldOf(j) THEN got.val[f] ELSE rec[f]]

mbim_update_state(j) == rec' = Recorded(j) /\ old' = rec'

\* mbim_proxy_configure, then mbim_open_device: a timed-out MBIM_OPEN is sent again.
mbim_open_device ==
  \/ job = "proxy" /\ UNCHANGED tries /\ (IF Result = "ok" THEN mbim_open(why) ELSE Exit)
  \/ /\ job = "open" /\ tries' = tries + 1
     /\ CASE Result = "ETIMEDOUT" /\ tries' < OpenMax -> mbim_open(why)
          [] Result = "ok" -> mbim_device_caps_query(why)
          [] OTHER -> Exit

\* mbim_device_services_query: the version is asked for if the modem has that command.
mbim_device_services_query ==
  /\ job = "services" /\ IF Result = "ok" THEN (IF prof.v2 THEN mbim_ms_version_query(why) ELSE mbim_set_radio_state(why)) ELSE Exit

\* mbim_init: one command after the other; only the version query may fail.
mbim_init ==
  /\ mpc = "ret" /\ Taken /\ job \in {"proxy", "open", "caps", "services", "version", "radio"}
  /\ \/ mbim_open_device /\ UNCHANGED sk
     \/ job = "caps" /\ (IF Result = "ok" THEN mbim_device_services(why) ELSE Exit) /\ UNCHANGED <<tries, sk>>
     \/ mbim_device_services_query /\ UNCHANGED <<tries, sk>>
     \/ job = "version" /\ mbim_set_radio_state(why) /\ UNCHANGED <<tries, sk>>
     \/ /\ job = "radio" /\ UNCHANGED tries /\ IF Result = "ok" THEN mbim_subscriber_status_query("boot") ELSE Exit
        /\ sk' = IF Result = "ok" /\ prof.qmux THEN "open" ELSE sk
  /\ UNCHANGED <<prof, tid, auth, mauth, retry, rec, old, attached, conn, ip, link, alarm,
                 req, resp, sig, ev, readerVars, fd, ctl, modemVars, raced, stop, faults>>

\* usbnet_link_change: a link that goes down clears the address.
usbnet_link_change(l, i) == link' = l /\ ip' = IF l = link \/ l = 1 THEN i ELSE NoIp

\* The end of SIG_EVENT_CHECK for the connection status c and the address i.
CheckEnds(c, i) ==
  /\ conn' = c /\ Idle
  /\ CASE c = "DISCONNECTED" -> usbnet_link_change(0, i) /\ sig' = sig \cup {"START"}
       [] c = "CONNECTED" -> usbnet_link_change(1, i) /\ UNCHANGED sig
       [] OTHER -> link' = link /\ ip' = i /\ UNCHANGED sig

\* SIG_EVENT_CHECK after the registration: a call that is not known to be down is queried.
CheckCall ==
  IF conn # "DISCONNECTED" THEN mbim_query_connect("check") /\ UNCHANGED <<conn, ip, link, sig>>
                           ELSE CheckEnds(conn, ip)

\* The end of requestRegistrationState, in the set-up, for an event or in a check.
Registered(a) ==
  /\ attached' = a
  /\ CASE why = "boot" -> Idle /\ sig' = sig \cup {"CHECK"} /\ UNCHANGED <<conn, ip, link>>
       [] why = "net" -> /\ Idle /\ UNCHANGED <<conn, ip, link>>
                         /\ sig' = IF a = 1 /\ conn = "DISCONNECTED" THEN sig \cup {"START"} ELSE sig
       [] OTHER -> CheckCall

\* The states in which requestRegistrationState goes on to the packet service.
RegisterAttached(s) == s \in {"Home", "Roaming"}

\* requestRegistrationState: registration, then packet service, then an attach whose
\* outcome the next round finds out.  A failed packet service query leaves attached at 1.
requestRegistrationState ==
  /\ mpc = "ret" /\ Taken /\ job \in {"reg", "ps", "attach"}
  /\ IF Result = "ok" THEN mbim_update_state(job) ELSE UNCHANGED <<rec, old>>
  /\ \/ /\ job = "reg"
        /\ IF Result = "ok" /\ RegisterAttached(rec'.reg)
           THEN mbim_packet_service_query(why) /\ attached' = 1 /\ UNCHANGED <<conn, ip, link, sig>>
           ELSE Registered(0)
     \/ /\ job = "ps"
        /\ IF Result = "ok" /\ rec'.ps # "Attached"
           THEN mbim_packet_service_set(why) /\ attached' = 0 /\ UNCHANGED <<conn, ip, link, sig>>
           ELSE Registered(1)
     \/ job = "attach" /\ Registered(0)
  /\ UNCHANGED <<prof, tries, tid, auth, mauth, retry, sk, alarm, req, resp, ev, readerVars,
                 fd, ctl, modemVars, raced, stop, faults>>

\* requestGetSIMStatus: its outcome is only logged when the modem speaks MBIM.
requestGetSIMStatus ==
  /\ mpc = "ret" /\ Taken /\ job = "sim" /\ mbim_register_state_query(why)
  /\ IF Result = "ok" THEN mbim_update_state(job) ELSE UNCHANGED <<rec, old>>
  /\ UNCHANGED <<prof, tries, tid, auth, mauth, retry, sk, attached, conn, ip, link, alarm,
                 req, resp, sig, ev, readerVars, fd, ctl, modemVars, raced, stop, faults>>

\* requestQueryDataCall: the status an activation state stands for.
CallStatus(s) == CASE s = "Unknown" -> "UNKNOW" [] s = "Activated" -> "CONNECTED" [] OTHER -> "DISCONNECTED"

\* SIG_EVENT_CHECK after the query: a call without address gets one.
requestQueryDataCall ==
  /\ job = "query" /\ (IF Result = "ok" THEN mbim_update_state(job) ELSE UNCHANGED <<rec, old>>)
  /\ LET c == IF Result = "ok" THEN CallStatus(rec'.act) ELSE "DISCONNECTED"
     IN IF c = "CONNECTED" /\ ip.Address = NoIp.Address THEN mbim_ip_config("check") /\ conn' = c /\ UNCHANGED <<ip, link, sig>>
                                                        ELSE CheckEnds(c, ip)

\* requestGetIPAddress in a check: without an address the call counts as down.
CheckAddress ==
  /\ job = "ip" /\ why = "check" /\ UNCHANGED <<rec, old>>
  /\ IF Result = "ok" THEN CheckEnds(conn, SetIp(got.cfg)) ELSE CheckEnds("DISCONNECTED", ip)

AfterCheck ==
  /\ mpc = "ret" /\ Taken /\ (requestQueryDataCall \/ CheckAddress)
  /\ UNCHANGED <<prof, tries, tid, auth, mauth, retry, sk, attached, alarm, req, resp, ev,
                 readerVars, fd, ctl, modemVars, raced, stop, faults>>

\* requestSetupDataCall copies the settings that are set, then activates.
requestSetupDataCall(a) == mbim_set_connect("start") /\ mauth' = IF a # 0 THEN a ELSE mauth

\* The end of SIG_EVENT_START: while the call is down the alarm is set.
StartEnds(c) == conn' = c /\ Idle /\ retry' = -1 /\ alarm' = (c = "DISCONNECTED")

\* A refused call is tried once with the other protocol, which is undone if that fails too.
SetupFails ==
  /\ job = "connect" /\ Result # "ok"
  /\ IF Result # "neg" /\ prof.user # <<>> /\ prof.pd # <<>> /\ retry = -1
     THEN /\ retry' = auth /\ auth' = IF auth = 1 THEN 2 ELSE 1
          /\ requestSetupDataCall(auth') /\ UNCHANGED <<conn, alarm>>
     ELSE /\ auth' = (IF retry = -1 THEN auth ELSE retry) /\ UNCHANGED mauth /\ StartEnds(conn)
  /\ UNCHANGED <<rec, old, ip>>

\* An activated call counts as connected once its address is known.
SetupSucceeds ==
  \/ /\ job = "connect" /\ Result = "ok" /\ mbim_update_state(job) /\ mbim_ip_config("start")
     /\ UNCHANGED <<auth, mauth, retry, conn, alarm, ip>>
  \/ /\ job = "ip" /\ why = "start" /\ UNCHANGED <<rec, old, auth, mauth>>
     /\ IF Result = "ok" THEN ip' = SetIp(got.cfg) /\ StartEnds("CONNECTED") ELSE UNCHANGED ip /\ StartEnds(conn)

AfterStart ==
  /\ mpc = "ret" /\ Taken /\ (SetupFails \/ SetupSucceeds)
  /\ UNCHANGED <<prof, tries, tid, sk, attached, link, req, resp, sig, ev, readerVars, fd,
                 ctl, modemVars, raced, stop, faults>>

\* The end of SIG_EVENT_STOP: the link goes down, mbim_deinit closes the device and the
\* socket pair, and the reader is told to quit.
mbim_deinit ==
  /\ mpc = "ret" /\ Taken /\ job \in {"off", "close"}
  /\ IF job = "off"
     THEN /\ mbim_close_device("stop") /\ usbnet_link_change(0, ip) /\ UNCHANGED <<sk, ctl>>
          /\ IF Result = "ok" THEN mbim_update_state(job) ELSE UNCHANGED <<rec, old>>
     ELSE /\ sk' = (IF sk = "open" THEN "closed" ELSE sk) /\ ctl' = Append(ctl, "QUIT")
          /\ mpc' = "join" /\ UNCHANGED <<job, why, link, ip, rec, old>>
  /\ UNCHANGED <<prof, tries, tid, auth, mauth, retry, attached, conn, alarm, req, resp, sig,
                 ev, readerVars, fd, modemVars, raced, stop, faults>>
-----------------------------------------------------------------------------
(* The main loop.                                                            *)

\* The reader thread is started; without device it ends at once and so does qmi_main.
MainCreate ==
  /\ mpc = "create"
  /\ \/ /\ fd' = TRUE /\ rpc' = "poll" /\ (IF prof.libmbim THEN mbim_proxy_configure("boot") ELSE mbim_open("boot")) /\ UNCHANGED faults
     \/ /\ faults < FaultMax /\ faults' = faults + 1 /\ fd' = FALSE /\ rpc' = "gone" /\ Exit
  /\ UNCHANGED <<prof, tries, tid, err, got, slice, auth, mauth, retry, rec, old, sk, attached, conn, ip, link,
                 alarm, req, resp, sig, ev, quitting, ctl, modemVars, raced, stop>>

\* Every signal read turns the alarm off.
MainSignal ==
  /\ mpc = "idle"
  /\ \/ /\ "CHECK" \in sig /\ alarm' = FALSE /\ UNCHANGED <<mauth, retry>>
        /\ IF attached # 1 THEN mbim_register_state_query("check") /\ sig' = sig \ {"CHECK"} /\ UNCHANGED <<conn, ip, link>>
           ELSE IF conn # "DISCONNECTED"
                THEN mbim_query_connect("check") /\ sig' = sig \ {"CHECK"} /\ UNCHANGED <<conn, ip, link>>
                ELSE /\ usbnet_link_change(0, ip) /\ sig' = (sig \ {"CHECK"}) \cup {"START"}
                     /\ UNCHANGED conn /\ Idle
     \/ /\ "START" \in sig /\ sig' = sig \ {"START"} /\ alarm' = FALSE /\ UNCHANGED <<conn, ip, link, retry>>
        /\ IF attached = 1 /\ conn # "CONNECTED" THEN requestSetupDataCall(auth) ELSE Idle /\ UNCHANGED mauth
     \/ /\ "STOP" \in sig /\ sig' = sig \ {"STOP"} /\ alarm' = FALSE /\ UNCHANGED <<conn, mauth, retry>>
        /\ IF conn = "CONNECTED" THEN mbim_set_connect("stop") /\ UNCHANGED <<ip, link>>
                                 ELSE mbim_close_device("stop") /\ usbnet_link_change(0, ip)
  /\ UNCHANGED <<prof, tries, tid, err, got, slice, auth, rec, old, sk, attached, req, resp, ev, readerVars,
                 fd, ctl, modemVars, raced, stop, faults>>

MainEvent ==
  /\ mpc = "idle"
  /\ \/ /\ "NET" \in ev /\ ev' = ev \ {"NET"} /\ mbim_register_state_query("net") /\ UNCHANGED <<sig, link, ip>>
     \/ /\ "CALL" \in ev /\ ev' = ev \ {"CALL"} /\ sig' = sig \cup {"CHECK"} /\ Idle /\ UNCHANGED <<link, ip>>
     \/ /\ "DISCONNECTED" \in ev /\ ev' = ev \ {"DISCONNECTED"} /\ UNCHANGED sig
        /\ usbnet_link_change(0, ip) /\ mpc' = "join" /\ UNCHANGED <<job, why>>
  /\ UNCHANGED <<prof, tries, tid, err, got, slice, auth, mauth, retry, rec, old, sk, attached, conn, alarm,
                 req, resp, readerVars, fd, ctl, modemVars, raced, stop, faults>>

\* 15 seconds without signal or event: a check.  The alarm: a start.  It takes at least
\* five seconds, in which the loop is at rest or waits for an answer, and in which a reader
\* that has begun to end has ended.
MainTimer ==
  /\ rpc \in {"poll", "gone"}
  /\ \/ mpc = "idle" /\ sig = {} /\ ev = {} /\ sig' = {"CHECK"} /\ UNCHANGED alarm
     \/ mpc = "idle" /\ sig = {} /\ ev = {} /\ alarm /\ alarm' = FALSE /\ sig' = {"START"}
     \/ mpc = "cond" /\ alarm /\ alarm' = FALSE /\ sig' = sig \cup {"START"}
  /\ UNCHANGED <<prof, mpc, job, why, tries, tid, err, got, slice, auth, mauth, retry, rec, old, sk, attached,
                 conn, ip, link, req, resp, ev, readerVars, fd, ctl, modemVars, raced, stop, faults>>

MainJoin ==
  /\ mpc = "join" /\ rpc = "gone" /\ mpc' = "done" /\ usbnet_link_change(0, ip)
  /\ UNCHANGED <<prof, job, why, tries, tid, err, got, slice, auth, mauth, retry, rec, old, sk, attached, conn,
                 alarm, req, resp, sig, ev, readerVars, fd, ctl, modemVars, raced, stop, faults>>

\* SIGTERM tells both threads.
Sigterm ==
  /\ ~stop /\ stop' = TRUE /\ mpc \notin {"create", "join", "done"}
  /\ sig' = sig \cup {"STOP"} /\ ctl' = Append(ctl, "STOP")
  /\ UNCHANGED <<prof, mainVars, req, resp, ev, readerVars, fd, modemVars, raced, faults>>
-----------------------------------------------------------------------------
(* The reader thread.                                                        *)

Signal == mpc' = IF mpc = "cond" THEN "woken" ELSE mpc

\* An indication is reported if it differs from the copy the main thread has last made.
\* The copy is outdated while an answer about the same field is on its way to it.
ind_differs(m, f) == old[f] # m.val[f]

RecvMissesConnect(m) ==
  \/ /\ req # None /\ req.tid = m.tid /\ resp' = m /\ Signal /\ UNCHANGED <<ev, raced>>
  \/ /\ ~(req # None /\ req.tid = m.tid) /\ UNCHANGED <<resp, mpc, raced>>
     /\ ev' = IF m.type = "ind" /\ \E f \in FieldOf(m.job) \ {"act"} : ind_differs(m, f) THEN ev \cup {"NET"} ELSE ev

\* mbim_recv_command: the answer to the current command wakes its sender, an indication
\* of a new state becomes an event, the rest is dropped.
mbim_recv_command(m) ==
  \/ /\ req # None /\ req.tid = m.tid /\ resp' = m /\ Signal /\ UNCHANGED <<ev, raced>>
  \/ /\ ~(req # None /\ req.tid = m.tid) /\ UNCHANGED <<resp, mpc>>
     /\ IF m.type # "ind" THEN UNCHANGED <<ev, raced>>
        ELSE \E f \in FieldOf(m.job) :
               /\ ev' = IF ind_differs(m, f) THEN ev \cup {IF f = "act" THEN "CALL" ELSE "NET"} ELSE ev
               /\ raced' = IF ~ind_differs(m, f) /\ f \in FieldOf(job) /\ mpc \in {"woken", "late", "ret"}
                           THEN raced \cup {f} ELSE raced

\* mbim_read_thread: a message of the device, an order of the main thread, or the end.
ReadDevice ==
  /\ rpc = "poll" /\ up # <<>> /\ mbim_recv_command(Head(up)) /\ up' = Tail(up)
  /\ UNCHANGED <<prof, job, why, tries, tid, err, got, slice, auth, mauth, retry, rec, old, sk, attached, conn,
                 ip, link, alarm, req, sig, rpc, quitting, fd, ctl, modem, mip, down, changes, stop, faults>>

ReadOrder ==
  /\ rpc = "poll" /\ ctl # <<>> /\ ctl' = Tail(ctl)
  /\ IF Head(ctl) = "QUIT" THEN rpc' = "quit" /\ UNCHANGED quitting ELSE quitting' = TRUE /\ UNCHANGED rpc
  /\ UNCHANGED <<prof, mainVars, req, resp, sig, ev, fd, modemVars, raced, stop, faults>>

\* After SIGTERM a quiet second ends the thread; a hangup or a closed socket does at once.
ReaderGivesUp ==
  /\ rpc = "poll" /\ rpc' = "quit"
  /\ \/ quitting /\ up = <<>> /\ ctl = <<>> /\ UNCHANGED faults
     \/ sk = "closed" /\ UNCHANGED faults
     \/ faults < FaultMax /\ faults' = faults + 1
  /\ UNCHANGED <<prof, mainVars, req, resp, sig, ev, quitting, fd, ctl, modemVars, raced, stop>>

CloseDevice ==
  /\ rpc = "quit" /\ fd' = FALSE /\ rpc' = "null"
  /\ UNCHANGED <<prof, mainVars, req, resp, sig, ev, quitting, ctl, modemVars, raced, stop, faults>>

\* mbim_recv_command(NULL): a waiting sender is woken without an answer.
ReaderEnds ==
  /\ rpc = "null" /\ rpc' = "gone" /\ Signal /\ ev' = ev \cup {"DISCONNECTED"}
  /\ UNCHANGED <<prof, job, why, tries, tid, err, got, slice, auth, mauth, retry, rec, old, sk, attached, conn,
                 ip, link, alarm, req, resp, sig, quitting, fd, ctl, modemVars, raced, stop, faults>>
-----------------------------------------------------------------------------
(* The modem.                                                                *)

Reply(m, s) == [m EXCEPT !.type = IF s = 5 THEN "error" ELSE "done", !.status = s, !.val = modem',
                         !.cfg = IF m.job = "ip" THEN mip' ELSE <<>>, !.data = <<>>]

Carried(m) ==
  /\ modem' = CASE m.job = "attach" /\ modem.reg = "Home" -> [modem EXCEPT !.ps = "Attached"]
                [] m.job = "connect" /\ modem.reg = "Home" -> [modem EXCEPT !.act = "Activated"]
                [] m.job = "off" -> [modem EXCEPT !.act = "Deactivated"]
                [] OTHER -> modem
  /\ IF modem'.act = "Activated" /\ modem.act # "Activated" THEN mip' \in Configs ELSE UNCHANGED mip

\* A command is carried out and answered, refused, answered with an error message, or lost
\* before or after it has been carried out.
Answer ==
  /\ down # <<>> /\ down' = Tail(down)
  /\ LET m == Head(down)
         refused == \/ m.job \in {"connect", "attach"} /\ modem.reg # "Home"
                    \/ m.job = "ip" /\ modem.act # "Activated"
     IN \/ Carried(m) /\ up' = Append(up, Reply(m, IF refused THEN 7 ELSE 0)) /\ UNCHANGED faults
        \/ /\ faults < FaultMax /\ faults' = faults + 1 /\ UNCHANGED <<modem, mip>>
           /\ \/ \E s \in {2, 5} : up' = Append(up, Reply(m, s))
              \/ UNCHANGED up
        \/ faults < FaultMax /\ faults' = faults + 1 /\ Carried(m) /\ UNCHANGED up
  /\ UNCHANGED <<prof, mainVars, req, resp, sig, ev, readerVars, fd, ctl, changes, raced, stop>>

\* A change of the modem's own: the network comes and goes, the card is pulled, the call drops.
Change(f) ==
  /\ changes < ChangeMax /\ changes' = changes + 1
  /\ modem' = CASE f = "reg" -> [modem EXCEPT !.reg = IF @ = "Home" THEN "Searching" ELSE "Home"]
                [] f = "ps" -> [modem EXCEPT !.ps = IF @ = "Attached" THEN "Detached" ELSE "Attached"]
                [] f = "ready" -> [modem EXCEPT !.ready = IF @ = "Initialized" THEN "SimNotInserted" ELSE "Initialized"]
                [] OTHER -> [modem EXCEPT !.act = "Deactivated"]
  /\ modem' # modem
  /\ up' = Append(up, [None EXCEPT !.type = "ind", !.val = modem',
                                   !.job = CASE f = "reg" -> "reg" [] f = "ps" -> "ps" [] f = "ready" -> "sim"
                                             [] OTHER -> "query"])
  /\ UNCHANGED <<prof, mainVars, req, resp, sig, ev, readerVars, fd, ctl, mip, down, raced, stop, faults>>
-----------------------------------------------------------------------------
Main == \/ MainCreate \/ mbim_send_command \/ SliceExpires \/ pthread_cond_timeout_np \/ Awake
        \/ mbim_init \/ requestGetSIMStatus \/ requestRegistrationState \/ AfterCheck \/ AfterStart
        \/ mbim_deinit \/ MainSignal \/ MainEvent \/ MainTimer \/ MainJoin
Reader == ReadDevice \/ ReadOrder \/ ReaderGivesUp \/ CloseDevice \/ ReaderEnds
MNext == Main \/ Reader \/ Answer \/ (\E f \in Fields : Change(f)) \/ Sigterm

MSpec == MInit /\ [][MNext]_mvars
-----------------------------------------------------------------------------

\* A message about field f that the main loop has yet to act on.
Pending(f) == \/ \E m \in Range(up) : m.type = "ind" /\ f \in FieldOf(m.job)
              \/ (IF f = "act" THEN "CALL" ELSE "NET") \in ev \/ f \in raced \/ rpc # "poll"

\* While the main loop is at rest it takes the call to be up only if it is, or news of the
\* end is on its way.  The exception is an indication that the reader compares with the
\* old state while the main thread holds an answer it has not recorded yet.
BelievesCall == mpc = "idle" /\ conn = "CONNECTED" /\ modem.act # "Activated" => Pending("act") \/ "CHECK" \in sig

=============================================================================
