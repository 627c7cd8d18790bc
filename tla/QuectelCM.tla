------------------------------- MODULE QuectelCM -------------------------------
(***************************************************************************)
(* The dialler quectel-CM on a QMI modem: the loop of main, the event loop *)
(* of qmi_main with its handlers, the four data-call requests of           *)
(* QMIThread.c and the link it hands to the network stack.  A handler is a *)
(* chain of requests, one step each, so the modem, the reader thread and   *)
(* signals act between any two of them.  A request answers or fails        *)
(* (QmiTransport is about how); the modem is the environment.              *)
(***************************************************************************)
EXTENDS Naturals, Sequences, FiniteSets

CONSTANTS
  Profiles,       \* command lines: <<families, credentials, QCM_V6_FIRST set>>
  FaultMax,       \* bound: requests that fail or whose answer is lost
  NetMax,         \* bound: changes of the network: drops, attaches, addresses
  ResetMax,       \* bound: modem resets the process survives
  TroubleMax,     \* bound: the three together
  QMax            \* bound: events waiting in a socketpair

ASSUME CMAssumption ==
  /\ Profiles \subseteq ((SUBSET {4, 6}) \ {{}}) \X {"none", "apn", "user"} \X BOOLEAN
  /\ {FaultMax, NetMax, ResetMax, TroubleMax, QMax} \subseteq Nat

Fam == {4, 6}
Status == {"unknow", "connected", "disconnected"}

VARIABLES
  pc,        \* where the main thread is
  rev,       \* the descriptors the last poll() found readable, not yet served
  sig, dev,  \* the two socketpairs: signal_control_fd, qmidevice_control_fd
  alarmed,   \* is alarm() pending
  later,     \* SetupCallAllowTime: 0 reached, 1 within the 15 s of poll(), 2 beyond
  fails,     \* SetupCallFail, up to the entry of allow_time that is beyond 15 s
  ps,        \* PSAttachedState = 1
  st,        \* IPv4ConnectionStatus and IPv6ConnectionStatus
  hdl,       \* is WdsConnectionIPv{4,6}Handle non-zero
  en,        \* the families with profile->enable_ipv{4,6}
  apn,       \* profile->apn, or "user" with a user name and a password too
  v6f,       \* getenv("QCM_V6_FIRST")
  conf,      \* g_pdn_conflict
  conf4,     \* pdn_conflict_v4
  addr,      \* profile->ipv4.Address
  link,      \* s_link
  pub,       \* /var/run/gl-cellular-qmi-ipv4
  marker,    \* /var/run/gl-cellular-pdn-conflict
  again,     \* g_donot_exit_when_modem_hangup
  term,      \* SIGTERM was delivered
  lostStop,  \* it was delivered where no descriptor of the loop kept it
  alive,     \* the device is there and knows the client ids
  att, call, maddr,  \* the modem: attached, the data calls, the IPv4 address
  net, faults, resets

cfgVars == <<apn, v6f>>
dialVars == <<st, hdl, en, conf, conf4, addr>>
modemVars == <<att, call, maddr, net>>
timeVars == <<alarmed, later, fails>>
linkVars == <<link, pub>>
stopVars == <<again, term, lostStop, resets>>
cmVars == <<pc, rev, sig, dev, ps, marker, alive, faults, cfgVars, dialVars, modemVars,
            timeVars, linkVars, stopVars>>

NoCall == [f \in Fam |-> FALSE]

CMInit ==
  /\ pc = "main" /\ rev = {} /\ sig = <<>> /\ dev = <<>>
  /\ alarmed = FALSE /\ later = 0 /\ fails = 0 /\ ps = FALSE
  /\ st = [f \in Fam |-> "unknow"] /\ hdl = NoCall
  /\ \E p \in Profiles : en = p[1] /\ apn = p[2] /\ v6f = p[3]
  /\ conf = FALSE /\ conf4 = FALSE /\ addr = 0 /\ link = {} /\ pub = 0
  /\ marker = FALSE /\ again = FALSE /\ term = FALSE /\ lostStop = FALSE
  /\ alive = FALSE /\ att \in BOOLEAN /\ call = NoCall /\ maddr = 1
  /\ net = 0 /\ faults = 0 /\ resets = 0

-----------------------------------------------------------------------------
(***************************************************************************)
(* The four data-call requests, each with its result r.  "lost" stands for *)
(* a timeout, an aborted wait or a dead device: the modem may have done    *)
(* what was asked.                                                         *)
(***************************************************************************)
Trouble == faults + net + resets < TroubleMax
Lost == IF alive THEN faults < FaultMax /\ Trouble /\ faults' = faults + 1 ELSE UNCHANGED faults
Answered == alive /\ UNCHANGED faults

\* START_NETWORK_INTERFACE: a client whose call is up is refused (NO_EFFECT).
requestSetupDataCall(f, r, forgive) ==
  /\ conf' = (r = "conflict" /\ ~forgive)
  /\ \/ /\ r = "ok" /\ Answered /\ att /\ ~call[f]
        /\ call' = [call EXCEPT ![f] = TRUE] /\ hdl' = [hdl EXCEPT ![f] = TRUE]
     \/ /\ r = "refused" /\ Answered /\ UNCHANGED <<call, hdl>>
     \/ /\ r = "conflict" /\ Answered /\ ~call[f] /\ UNCHANGED <<call, hdl>>
     \/ /\ r = "lost" /\ Lost /\ UNCHANGED hdl
        /\ call' \in {call, [call EXCEPT ![f] = @ \/ (alive /\ att)]}

\* GET_PKT_SRVC_STATUS: s is the status it stores; a call the modem wants
\* reconfigured counts as disconnected.
requestQueryDataCall(f, r, s) ==
  \/ /\ r = "ok" /\ Answered
     /\ s = IF call[f] THEN "connected" ELSE "disconnected"
     /\ hdl' = [hdl EXCEPT ![f] = @ /\ s = "connected"]
  \/ /\ r = "ok" /\ alive /\ Lost /\ call[f] /\ s = "disconnected"
     /\ hdl' = [hdl EXCEPT ![f] = FALSE]
  \/ r = "lost" /\ Lost /\ s = st[f] /\ UNCHANGED hdl

\* STOP_NETWORK_INTERFACE, sent only with a handle.
requestDeactivateDefaultPDP(f) ==
  \/ ~hdl[f] /\ UNCHANGED <<call, hdl, faults>>
  \/ /\ hdl[f] /\ Answered
     /\ call' = [call EXCEPT ![f] = FALSE] /\ hdl' = [hdl EXCEPT ![f] = FALSE]
  \/ hdl[f] /\ Lost /\ UNCHANGED hdl /\ call' \in {call, [call EXCEPT ![f] = FALSE]}

\* GET_RUNTIME_SETTINGS: clears the family's settings first, and without a
\* handle stops there with success.
requestGetIPAddress(f, r) ==
  /\ addr' = IF f # 4 THEN addr ELSE IF r = "ok" /\ hdl[4] THEN maddr ELSE 0
  /\ \/ r = "ok" /\ ~hdl[f] /\ UNCHANGED faults
     \/ r = "ok" /\ hdl[f] /\ call[f] /\ Answered
     \/ r = "refused" /\ hdl[f] /\ ~call[f] /\ Answered
     \/ r = "lost" /\ hdl[f] /\ Lost

requestRegistrationState == (ps' = att /\ Answered) \/ (Lost /\ UNCHANGED ps)

\* Not the code: the ids are dropped without releasing them.
DeInitForgets ==
  \/ alive /\ UNCHANGED <<call, faults>>
  \/ Lost /\ UNCHANGED call

\* The client ids are released, which ends the calls of the clients.
QmiWwanDeInit ==
  \/ alive /\ call' = NoCall /\ UNCHANGED faults
  \/ Lost /\ UNCHANGED call

Result == {"ok", "refused", "conflict", "lost"}

\* The IPv4 address is published when there is one, and withdrawn with the link.
udhcpc_start == pub' = IF addr' # 0 THEN addr' ELSE pub
udhcpc_stop == pub' = 0

\* The link handed over: settings of the families left out are cleared.
usbnet_link_change(l) ==
  \/ link = l /\ UNCHANGED <<linkVars, addr>>
  \/ /\ link # l /\ link' = l /\ addr' = IF 4 \in l THEN addr ELSE 0
     /\ IF l # {} THEN udhcpc_start ELSE udhcpc_stop
-----------------------------------------------------------------------------
(***************************************************************************)
(* main, quectel_CM and the prologue of qmi_main.                          *)
(***************************************************************************)
send_signo_to_main(e) == sig' = Append(sig, e)

\* No device is found, or qmi_main starts: the flag is cleared, the sockets are
\* made anew, the reader thread opens the device.
quectel_CM ==
  /\ pc = "main"
  /\ \/ pc' = (IF again THEN "sleep" ELSE "exit") /\ UNCHANGED <<again, alive, sig, dev, st>>
     \/ /\ pc' = "init" /\ again' = FALSE /\ alive' = TRUE /\ sig' = <<>> /\ dev' = <<>>
        /\ st' = [f \in Fam |-> "unknow"]
  /\ UNCHANGED <<rev, ps, marker, faults, cfgVars, hdl, en, conf, conf4, addr,
                 modemVars, timeVars, linkVars, term, lostStop, resets>>

\* qmi_ops->init fails and qmi_main returns, or the profile is written and the
\* registration read; with the profile holding the APN the call is dialled by
\* profile (QCM_DIAL_BY_PROFILE).
qmi_main_init ==
  /\ pc = "init"
  /\ \/ /\ pc' = "exit" /\ Lost /\ UNCHANGED <<apn, ps, sig>>
     \/ /\ pc' = "poll" /\ requestRegistrationState
        /\ apn' \in (IF apn = "user" THEN {apn} ELSE {"none"} \cup (IF Trouble THEN {apn} ELSE {}))
        /\ send_signo_to_main("CHECK")
  /\ later' = 0 /\ fails' = 0
  /\ UNCHANGED <<rev, dev, marker, alive, v6f, dialVars, modemVars, alarmed, linkVars,
                 stopVars>>

\* __main_quit: the link goes down, the reader thread is joined, the sockets close.
main_quit ==
  /\ pc = "quit" /\ usbnet_link_change({})
  /\ pc' = IF again THEN "sleep" ELSE "exit"
  /\ alive' = FALSE /\ lostStop' = (lostStop \/ (again /\ term))
  /\ UNCHANGED <<rev, sig, dev, ps, marker, faults, cfgVars, st, hdl, en, conf, conf4,
                 modemVars, timeVars, again, term, resets>>

\* The loop of main: after a modem reset, another round in 3 s.
main ==
  /\ pc = "sleep" /\ pc' = IF again THEN "main" ELSE "exit"
  /\ UNCHANGED <<rev, sig, dev, ps, marker, alive, faults, cfgVars, dialVars, modemVars,
                 timeVars, linkVars, stopVars>>
-----------------------------------------------------------------------------
(***************************************************************************)
(* The event loop.                                                         *)
(***************************************************************************)
\* Not the code: poll() that times out does not check the calls.
PollForgetsCheck ==
  /\ pc = "poll" /\ rev = {}
  /\ \/ /\ sig = <<>> /\ dev = <<>> /\ UNCHANGED <<sig, rev>>
        /\ later' = IF later = 2 THEN 1 ELSE 0
     \/ /\ sig # <<>> \/ dev # <<>>
        /\ rev' = {x \in {"sig", "dev"} : (IF x = "sig" THEN sig ELSE dev) # <<>>}
        /\ UNCHANGED <<sig, later>>
  /\ UNCHANGED <<pc, dev, ps, marker, alive, faults, cfgVars, dialVars, modemVars,
                 alarmed, fails, linkVars, stopVars>>

\* poll() of 15 s on both descriptors; a timeout asks for a check.
Poll ==
  /\ pc = "poll" /\ rev = {}
  /\ \/ /\ sig = <<>> /\ dev = <<>> /\ send_signo_to_main("CHECK") /\ UNCHANGED rev
        /\ later' = IF later = 2 THEN 1 ELSE 0
     \/ /\ sig # <<>> \/ dev # <<>>
        /\ rev' = {x \in {"sig", "dev"} : (IF x = "sig" THEN sig ELSE dev) # <<>>}
        /\ UNCHANGED <<sig, later>>
  /\ UNCHANGED <<pc, dev, ps, marker, alive, faults, cfgVars, dialVars, modemVars,
                 alarmed, fails, linkVars, stopVars>>

v6_first == en = Fam /\ v6f

\* One event of signal_control_fd; reading one always cancels the alarm.
ReadSignal ==
  /\ pc = "poll" /\ "sig" \in rev
  /\ rev' = rev \ {"sig"} /\ sig' = Tail(sig)
  /\ LET e == Head(sig) IN
     /\ pc' = CASE e = "STOP" -> "stop4"
                [] e = "CHECK" -> IF ps THEN "check4" ELSE "checkReg"
                [] OTHER -> IF ~ps \/ later > 0 THEN "poll"
                            ELSE IF v6_first THEN "start6" ELSE "start4"
     /\ alarmed' = (e = "START" /\ ps /\ later > 0)
     /\ conf4' = (conf4 /\ ~(e = "START" /\ ps /\ later = 0))
  /\ UNCHANGED <<dev, ps, marker, alive, faults, cfgVars, st, hdl, en, conf, addr,
                 modemVars, later, fails, linkVars, stopVars>>

\* One event of qmidevice_control_fd.
ReadDevice ==
  /\ pc = "poll" /\ rev = {"dev"} /\ rev' = {} /\ dev' = Tail(dev)
  /\ LET e == Head(dev) IN
     \/ /\ e = "GONE" /\ pc' = "quit" /\ usbnet_link_change({})
        /\ UNCHANGED <<sig, later, again>>
     \/ /\ e = "NET" /\ pc' = "netReg" /\ UNCHANGED <<sig, later, again, addr, linkVars>>
     \/ /\ e = "CALLS" /\ send_signo_to_main("CHECK") /\ UNCHANGED <<pc, again, addr, linkVars>>
        /\ later' = IF "connected" \in {st[f] : f \in Fam} THEN 1 ELSE later
     \/ /\ e = "RESET" /\ again' = TRUE /\ pc' = "quit"
        /\ UNCHANGED <<sig, later, addr, linkVars>>
  /\ UNCHANGED <<ps, marker, alive, faults, cfgVars, st, hdl, en, conf, conf4, modemVars,
                 alarmed, fails, term, lostStop, resets>>

Down(f) == f \in en /\ st[f] = "disconnected"

\* NETWORK_STATE_CHANGED: registration is read again.
NetworkStateChanged ==
  /\ pc = "netReg" /\ pc' = "poll" /\ requestRegistrationState
  /\ IF ps' /\ \E f \in Fam : Down(f) THEN send_signo_to_main("START") ELSE UNCHANGED sig
  /\ later' = IF ps' THEN later ELSE 0
  /\ UNCHANGED <<rev, dev, marker, alive, cfgVars, dialVars, modemVars, alarmed, fails, linkVars,
                 stopVars>>
-----------------------------------------------------------------------------
(***************************************************************************)
(* SIG_EVENT_START: one pass per family, in the order v6_first says.       *)
(***************************************************************************)
StartRest == <<rev, sig, dev, ps, marker, alive, cfgVars, timeVars, linkVars, stopVars,
               att, maddr, net>>
AfterV4 == IF v6_first THEN "startEnd" ELSE "start6"
AfterV6 == IF v6_first THEN "start4" ELSE "startEnd"

\* The IPv4 pass; with credentials a failure is tried once more with the other
\* authentication, and refused for a PDN the modem holds already it is tried once
\* more by profile alone.
StartV4 ==
  /\ pc \in {"start4", "start4a", "start4p"} /\ UNCHANGED <<StartRest, st, en, addr>>
  /\ \/ /\ 4 \notin en \/ st[4] = "connected"
        /\ pc' = AfterV4
        /\ UNCHANGED <<call, hdl, conf, conf4, faults>>
     \/ /\ 4 \in en /\ st[4] # "connected"
        /\ \E r \in Result :
             /\ requestSetupDataCall(4, r, FALSE)
             /\ pc' = CASE r = "ok" -> "addr4"
                        [] r # "ok" /\ pc = "start4" /\ apn = "user" -> "start4a"
                        [] r = "conflict" /\ pc # "start4p" /\ apn # "none" -> "start4p"
                        [] OTHER -> AfterV4
             /\ conf4' = IF pc' = AfterV4 THEN conf' ELSE conf4

StartV4Address ==
  /\ pc = "addr4" /\ pc' = AfterV4 /\ UNCHANGED <<StartRest, call, hdl, en, conf, conf4>>
  /\ \E r \in Result : /\ requestGetIPAddress(4, r)
                       /\ st' = IF r = "ok" THEN [st EXCEPT ![4] = "connected"] ELSE st

\* The IPv6 pass; refused for such a PDN while IPv4 is up, IPv6 is given up.
StartV6 ==
  /\ pc = "start6" /\ UNCHANGED <<StartRest, st, addr, conf4>>
  /\ \/ /\ 6 \notin en \/ st[6] = "connected"
        /\ pc' = AfterV6 /\ UNCHANGED <<call, hdl, conf, en, faults>>
     \/ /\ 6 \in en /\ st[6] # "connected"
        /\ \E r \in Result : LET giveUp == r = "conflict" /\ 4 \in en /\ st[4] = "connected" IN
             /\ requestSetupDataCall(6, r, giveUp)
             /\ en' = IF giveUp THEN en \ {6} ELSE en
             /\ pc' = IF r = "ok" THEN "addr6" ELSE AfterV6

StartV6Address ==
  /\ pc = "addr6" /\ pc' = AfterV6 /\ UNCHANGED <<StartRest, call, hdl, en, conf, conf4>>
  /\ \E r \in Result : /\ requestGetIPAddress(6, r)
                       /\ st' = IF r = "ok" THEN [st EXCEPT ![6] = "connected"] ELSE st

\* The verdict: exit for the caller to release the stale PDN (IPv4 decides),
\* or back off and try again, or done.
\* allow_time = {5, 10, 20, 40, 60}: the first index beyond the poll() timeout.
LongWait == 2
Decides == IF 4 \in en THEN 4 ELSE 6
pdn_conflict == IF 4 \in en THEN conf4 ELSE conf

StartEnd ==
  /\ pc = "startEnd"
  /\ \/ /\ pdn_conflict /\ st[Decides] = "disconnected" /\ marker' = TRUE /\ pc' = "quit"
        /\ usbnet_link_change({}) /\ QmiWwanDeInit /\ UNCHANGED timeVars
     \/ /\ ~(pdn_conflict /\ st[Decides] = "disconnected") /\ pc' = "poll"
        /\ \/ /\ \E f \in Fam : Down(f)
              /\ alarmed' = TRUE /\ later' = IF fails < LongWait THEN 1 ELSE 2
              /\ fails' = IF fails < LongWait THEN fails + 1 ELSE fails
           \/ /\ ~(\E f \in Fam : Down(f)) /\ UNCHANGED alarmed
              /\ IF \E f \in Fam : st[f] = "connected" THEN later' = 0 /\ fails' = 0
                 ELSE UNCHANGED <<later, fails>>
        /\ UNCHANGED <<marker, addr, linkVars, call, faults>>
  /\ UNCHANGED <<rev, sig, dev, ps, alive, cfgVars, st, hdl, en, conf, conf4, att, maddr,
                 net, stopVars>>
-----------------------------------------------------------------------------
(***************************************************************************)
(* SIG_EVENT_CHECK.                                                        *)
(***************************************************************************)
CheckRest == <<rev, dev, marker, alive, cfgVars, en, conf, conf4, timeVars, stopVars,
               att, maddr, net>>

CheckRegistration ==
  /\ pc = "checkReg" /\ pc' = "check4" /\ requestRegistrationState
  /\ UNCHANGED <<CheckRest, sig, st, hdl, addr, linkVars, call>>

\* IPv4: any doubt about the call means disconnected.
CheckV4 ==
  /\ pc = "check4" /\ UNCHANGED <<CheckRest, ps, sig, linkVars, call, addr>>
  /\ \/ /\ 4 \notin en \/ st[4] = "disconnected"
        /\ st' = [st EXCEPT ![4] = "disconnected"] /\ pc' = "check6" /\ UNCHANGED <<hdl, faults>>
     \/ /\ 4 \in en /\ st[4] # "disconnected"
        /\ \E r \in {"ok", "lost"}, s \in Status :
             /\ requestQueryDataCall(4, r, s)
             /\ st' = [st EXCEPT ![4] = IF r = "ok" THEN s ELSE "disconnected"]
             /\ pc' = IF st'[4] # "connected" THEN "check6"
                      ELSE IF addr = 0 THEN "checkAddr0" ELSE "checkAddr"

\* The call outlived the settings: read them.
CheckV4Settings ==
  /\ pc = "checkAddr0" /\ UNCHANGED <<CheckRest, ps, sig, linkVars, call, hdl>>
  /\ \E r \in Result :
       /\ requestGetIPAddress(4, r)
       /\ st' = IF r = "ok" THEN st ELSE [st EXCEPT ![4] = "disconnected"]
       /\ pc' = IF r = "ok" THEN "checkAddr" ELSE "check6"

\* The modem's address against the one in use.
check_ipv4_address ==
  /\ pc = "checkAddr" /\ UNCHANGED <<CheckRest, ps, sig, st, linkVars, call, hdl>>
  /\ \E r \in Result : /\ requestGetIPAddress(4, r)
                       /\ pc' = IF r = "ok" /\ addr' = addr THEN "check6" ELSE "checkDrop"

CheckV4Drop ==
  /\ pc = "checkDrop" /\ pc' = "check6" /\ requestDeactivateDefaultPDP(4)
  /\ st' = [st EXCEPT ![4] = "disconnected"]
  /\ UNCHANGED <<CheckRest, ps, sig, linkVars, addr>>

\* IPv6: a failed query leaves the status alone.
CheckV6 ==
  /\ pc = "check6" /\ pc' = "checkEnd" /\ UNCHANGED <<CheckRest, ps, sig, linkVars, call, addr>>
  /\ \/ /\ 6 \in en /\ st[6] # "disconnected"
        /\ \E r \in {"ok", "lost"}, s \in Status :
             requestQueryDataCall(6, r, s) /\ st' = [st EXCEPT ![6] = s]
     \/ /\ ~(6 \in en /\ st[6] # "disconnected")
        /\ st' = [st EXCEPT ![6] = "disconnected"] /\ UNCHANGED <<hdl, faults>>

Connected == {f \in Fam : st[f] = "connected"}

\* Not the code: a call found down is not dialled again.
CheckEndNoRedial ==
  /\ pc = "checkEnd" /\ pc' = "poll"
  /\ IF Connected # {} \/ (\A f \in Fam : st[f] = "disconnected")
     THEN usbnet_link_change(Connected) ELSE UNCHANGED <<linkVars, addr>>
  /\ UNCHANGED sig
  /\ UNCHANGED <<CheckRest, ps, st, hdl, call, faults>>

CheckEnd ==
  /\ pc = "checkEnd" /\ pc' = "poll"
  /\ IF Connected # {} \/ (\A f \in Fam : st[f] = "disconnected")
     THEN usbnet_link_change(Connected) ELSE UNCHANGED <<linkVars, addr>>
  /\ IF \E f \in Fam : Down(f) THEN send_signo_to_main("START") ELSE UNCHANGED sig
  /\ UNCHANGED <<CheckRest, ps, st, hdl, call, faults>>
-----------------------------------------------------------------------------
(***************************************************************************)
(* SIG_EVENT_STOP, and the signal handler.                                 *)
(***************************************************************************)
StopRest == <<rev, sig, dev, ps, marker, alive, cfgVars, st, en, conf, conf4, timeVars,
              stopVars, att, maddr, net>>

StopCall(f, at, next) ==
  /\ pc = at /\ pc' = next /\ UNCHANGED <<StopRest, linkVars, addr>>
  /\ IF f \in en /\ st[f] = "connected" THEN requestDeactivateDefaultPDP(f)
     ELSE UNCHANGED <<call, hdl, faults>>

StopEnd ==
  /\ pc = "stopEnd" /\ pc' = "quit" /\ usbnet_link_change({})
  /\ QmiWwanDeInit /\ UNCHANGED <<StopRest, hdl>>

StopV4 == StopCall(4, "stop4", "stop6")
StopV6 == StopCall(6, "stop6", "stopEnd")

\* Are the socketpairs of this round open.
Open == pc \notin {"main", "sleep", "exit"}

ql_sigaction ==
  /\ ~term /\ term' = TRUE /\ again' = FALSE /\ pc # "exit"
  /\ IF Open THEN send_signo_to_main("STOP") ELSE UNCHANGED sig
  /\ lostStop' = (pc = "main")
  /\ UNCHANGED <<pc, rev, dev, ps, marker, alive, faults, cfgVars, dialVars, modemVars,
                 timeVars, linkVars, resets>>

\* SIGALRM: the wait it was set for is over.
SigAlrm ==
  /\ alarmed /\ later < 2 /\ alarmed' = FALSE /\ later' = 0
  /\ IF Open THEN Len(sig) < QMax /\ send_signo_to_main("START") ELSE UNCHANGED sig
  /\ UNCHANGED <<pc, rev, dev, ps, marker, alive, faults, cfgVars, dialVars, modemVars,
                 fails, linkVars, stopVars>>

\* SetupCallAllowTime is reached with no alarm set for it.
TimePasses ==
  /\ later = 1 /\ ~alarmed /\ later' = 0
  /\ UNCHANGED <<pc, rev, sig, dev, ps, marker, alive, faults, cfgVars, dialVars,
                 modemVars, alarmed, fails, linkVars, stopVars>>
-----------------------------------------------------------------------------
(***************************************************************************)
(* The modem, and the reader thread that turns its indications into events *)
(***************************************************************************)
EnvRest == <<pc, rev, sig, ps, marker, faults, cfgVars, dialVars, timeVars, linkVars>>
qmidevice_send_event_to_main(e) == dev' = IF alive THEN Append(dev, e) ELSE dev
Change == Trouble /\ net < NetMax /\ net' = net + 1 /\ Len(dev) < QMax /\ pc # "exit"

CallDrops(f) ==
  /\ Change /\ call[f] /\ call' = [call EXCEPT ![f] = FALSE]
  /\ qmidevice_send_event_to_main("CALLS")
  /\ UNCHANGED <<EnvRest, alive, att, maddr, stopVars>>

AddressChanges ==
  /\ Change /\ call[4] /\ maddr' = 3 - maddr
  /\ qmidevice_send_event_to_main("CALLS")
  /\ UNCHANGED <<EnvRest, alive, att, call, stopVars>>

\* Only a modem without calls loses or gains its attachment: the drops come first.
Attach ==
  /\ Change /\ call = NoCall /\ att' = ~att
  /\ qmidevice_send_event_to_main("NET")
  /\ UNCHANGED <<EnvRest, alive, call, maddr, stopVars>>

\* REVOKE_CLIENT_ID: every call and client is gone.
ModemResets ==
  /\ Trouble /\ resets < ResetMax /\ resets' = resets + 1 /\ alive /\ Len(dev) < QMax
  /\ call' = NoCall /\ alive' = FALSE /\ qmidevice_send_event_to_main("RESET")
  /\ UNCHANGED <<EnvRest, att, maddr, net, again, term, lostStop>>

\* The reader thread ends with the device.
DeviceGone ==
  /\ Change /\ alive /\ alive' = FALSE /\ call' = NoCall
  /\ qmidevice_send_event_to_main("GONE")
  /\ UNCHANGED <<EnvRest, att, maddr, stopVars>>

Dialler ==
  \/ quectel_CM \/ qmi_main_init \/ main_quit \/ main \/ Poll \/ ReadSignal \/ ReadDevice
  \/ NetworkStateChanged \/ StartV4 \/ StartV4Address \/ StartV6 \/ StartV6Address
  \/ StartEnd \/ CheckRegistration \/ CheckV4 \/ CheckV4Settings \/ check_ipv4_address
  \/ CheckV4Drop \/ CheckV6 \/ CheckEnd \/ StopV4 \/ StopV6 \/ StopEnd

CMEnv ==
  \/ ql_sigaction \/ SigAlrm \/ TimePasses \/ AddressChanges \/ Attach \/ ModemResets
  \/ DeviceGone \/ \E f \in Fam : CallDrops(f)

CMNext == Dialler \/ CMEnv
CMSpec == CMInit /\ [][CMNext]_cmVars
\* The main thread runs; alarms ring and time passes.
CMFairSpec == CMSpec /\ WF_cmVars(Dialler) /\ WF_cmVars(SigAlrm \/ TimePasses)
-----------------------------------------------------------------------------

\* The process leaves no data call behind, whichever way it ends, unless an
\* answer was lost (SIG_EVENT_STOP, the exit on a PDN conflict, a device gone).
NoOrphanCall == pc = "exit" /\ faults = 0 => call = NoCall

\* A link whose call is gone is corrected, even when the indication's check lost
\* its answer: the 15 s timeout of poll() checks again.
LinkFollowsCall == (\E f \in link : ~call[f]) ~> (\A f \in link : call[f])

Waiting == Open /\ ps /\ att /\ \E f \in Fam : Down(f)

\* While attached, a family that is down is dialled again, although every event
\* read cancels the alarm set for the next attempt.
Redialled == Waiting ~> (~Waiting \/ pc \in {"start4", "start6"})
=============================================================================
