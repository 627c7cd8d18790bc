------------------------------- MODULE MhiPm -------------------------------
(***************************************************************************)
(* Power and life-cycle control of the MHI host driver (gl-feed/kernel/    *)
(* pcie_mhi): the pm_state machine of core/mhi_pm.c, the interrupt and     *)
(* control-event paths of core/mhi_main.c that drive it, the flash         *)
(* download of core/mhi_boot.c and the PCI glue with its runtime power     *)
(* management of controllers/mhi_qti.c.                                    *)
(*                                                                         *)
(* The host runs many threads: the hard interrupt and the control-event    *)
(* tasklet, three work items (state transitions, ready polling, system     *)
(* error), the runtime-PM callbacks, PCI remove, and the clients that open *)
(* channels.  Each has its own program counter here, and every wait of the *)
(* code is a state between two actions.                                    *)
(***************************************************************************)
EXTENDS Naturals, Sequences, FiniteSets

CONSTANTS FaultMax,  \* bound: crashes of the modem
          CycleMax,  \* bound: PCI probes
          EvMax,     \* bound: control events in flight
          StartEE,   \* execution environments the modem may be found in
          CrashEE    \* execution environments a crashed modem may show

ASSUME PmAssumption ==
  /\ {FaultMax, CycleMax, EvMax} \subseteq Nat
  /\ StartEE \subseteq {"PBL", "PTHRU", "EDL", "SBL", "AMSS", "FP", "RDDM"}
  /\ CrashEE \subseteq {"PBL", "EDL", "SBL", "AMSS", "FP", "RDDM"}

VARIABLES
  pm, dst, ee,             \* mhi_cntrl->pm_state, dev_state, ee
  dev,                     \* the modem: MHI state, ee, RESET bit, request
  evq, irq, tks, tsk,      \* control event ring, MSI, tasklet scheduled, running
  stq, stw, rw, sew,       \* transition_list, st_worker, ready_worker, syserr_worker
  dis, mtx,                \* mhi_pm_disable_transition per caller, pm_mutex
  chd, ctx, on, bnd, stray,\* mhi devices, contexts, powered_on, PCI binding
  rpm, auto, tmr, rq, pmc, \* runtime PM status, allowed, timer, request, callback
  cl, xp, bhi,             \* a channel client, xfer_paths, flash download
  faults, cycles           \* budgets used

hostv == <<pm, dst, ee>>
evv   == <<evq, irq, tks, tsk>>
workv == <<stq, stw, rw, sew>>
disv  == <<dis, mtx>>
lifev == <<chd, ctx, on, bnd, stray>>
rpmv  == <<rpm, auto, tmr, rq, pmc>>
clv   == <<cl, xp, bhi>>
budv  == <<faults, cycles>>
pmVars == <<hostv, dev, evv, workv, disv, lifev, rpmv, clv, budv>>

---------------------------------------------------------------------------
(* The pm_state table and the macros over it.                              *)

L0 == {"DISABLE", "POR", "M0", "M2", "M3_ENTER", "M3", "M3_EXIT"}
ErrorStates == {"FW_DL_ERR", "SYS_ERR_DETECT", "SYS_ERR_PROCESS",
                "SHUTDOWN_PROCESS", "LD_ERR_FATAL_DETECT"}
PmStates == L0 \cup ErrorStates

RegAccess == {"POR", "M0", "M2", "M3_ENTER", "M3_EXIT", "SYS_ERR_DETECT",
              "SYS_ERR_PROCESS", "SHUTDOWN_PROCESS", "FW_DL_ERR"}
EventAccess == PmStates \ ({"DISABLE"} \cup ErrorStates)
Suspended == {"M3_ENTER", "M3"}
InPBL == {"PBL", "PTHRU", "EDL"}
MissionMode == {"AMSS", "WFW"}
ChanEEs == {"SBL", "AMSS", "FP"}          \* ee_mask of the configured channels

\* mhi_state_transitions[]
Transitions ==
  [s \in PmStates |->
    CASE s = "DISABLE" -> {"POR"}
      [] s = "POR" -> {"POR", "DISABLE", "M0", "SYS_ERR_DETECT",
              "SHUTDOWN_PROCESS", "LD_ERR_FATAL_DETECT", "FW_DL_ERR"}
      [] s = "M0" -> {"M2", "M3_ENTER", "SYS_ERR_DETECT",
              "SHUTDOWN_PROCESS", "LD_ERR_FATAL_DETECT", "FW_DL_ERR"}
      [] s \in {"M2", "M3_EXIT"} -> {"M0", "SYS_ERR_DETECT",
              "SHUTDOWN_PROCESS", "LD_ERR_FATAL_DETECT"}
      [] s = "M3_ENTER" -> {"M3", "SYS_ERR_DETECT",
              "SHUTDOWN_PROCESS", "LD_ERR_FATAL_DETECT"}
      [] s = "M3" -> {"M3_EXIT", "SYS_ERR_DETECT",
              "SHUTDOWN_PROCESS", "LD_ERR_FATAL_DETECT"}
      [] s = "FW_DL_ERR" -> {"FW_DL_ERR", "SYS_ERR_DETECT",
              "SHUTDOWN_PROCESS", "LD_ERR_FATAL_DETECT"}
      [] s = "SYS_ERR_DETECT" -> {"SYS_ERR_PROCESS", "SHUTDOWN_PROCESS",
              "LD_ERR_FATAL_DETECT"}
      [] s = "SYS_ERR_PROCESS" -> {"POR", "SHUTDOWN_PROCESS",
              "LD_ERR_FATAL_DETECT"}
      [] s = "SHUTDOWN_PROCESS" -> {"DISABLE", "LD_ERR_FATAL_DETECT"}
      [] s = "LD_ERR_FATAL_DETECT" -> {"LD_ERR_FATAL_DETECT",
              "SHUTDOWN_PROCESS"}]

\* mhi_tryset_pm_state: the state pm_state has after asking for s
Tryset(s) == IF s \in Transitions[pm] THEN s ELSE pm

\* mhi_assert_dev_wake: the doorbell is rung only while the host believes M2
Waken(d) == IF dst = "M2" THEN [d EXCEPT !.req = "M0"] ELSE d

\* mhi_set_mhi_state
SetState(d, s) == IF s = "RESET" THEN [d EXCEPT !.rst = TRUE, !.req = "-"]
                                 ELSE [d EXCEPT !.req = s]

---------------------------------------------------------------------------
(* The modem (external): how the code expects it to behave.                *)

EeEvent == [SBL |-> "EE_SBL", AMSS |-> "EE_AMSS", FP |-> "EE_FP"]

Post(es) == /\ Len(evq) + Len(es) <= EvMax
            /\ evq' = evq \o es
            /\ irq' = TRUE
            /\ UNCHANGED <<tks, tsk>>

DevRest == UNCHANGED <<hostv, workv, disv, lifev, rpmv, clv>>

DevBoot ==
  /\ dev.st # "SYS_ERR"
  /\ \/ dev.ee = "PTHRU" /\ dev' = [dev EXCEPT !.ee = "AMSS"] /\ UNCHANGED evv
     \/ /\ dev.ee = "SBL" /\ dev.st = "M0"
        /\ dev' = [dev EXCEPT !.ee = "AMSS"] /\ Post(<<"EE_AMSS">>)
  /\ DevRest /\ UNCHANGED budv

DevReset ==
  /\ dev.rst
  /\ dev' = [dev EXCEPT !.rst = FALSE, !.st = "RESET", !.req = "-",
                        !.ee = IF @ = "RDDM" THEN "PTHRU" ELSE @]
  /\ irq' = TRUE
  /\ DevRest /\ UNCHANGED <<evq, tks, tsk, budv>>

DevReady ==
  /\ dev.st = "RESET" /\ ~dev.rst /\ dev.ee \in ChanEEs
  /\ dev' = [dev EXCEPT !.st = "READY"]
  /\ DevRest /\ UNCHANGED <<evv, budv>>

\* the modem carries out a requested state change and reports it
DevObey ==
  /\ ~dev.rst /\ dev.st # "SYS_ERR" /\ dev.req # "-"
  /\ LET to == dev.req IN
     /\ dev' = [dev EXCEPT !.st = IF to = "M2" /\ @ # "M1" THEN @ ELSE to,
                           !.req = "-"]
     /\ \/ to = "M0" /\ dev.st = "READY" /\ Post(<<"M0", EeEvent[dev.ee]>>)
        \/ to = "M0" /\ dev.st \in {"M1", "M2", "M3"} /\ Post(<<"M0">>)
        \/ to = "M3" /\ Post(<<"M3">>)
        \/ (to = "M2" \/ (to = "M0" /\ dev.st = "M0")) /\ UNCHANGED evv
  /\ DevRest /\ UNCHANGED budv

\* inactivity: the modem asks for M2 with an M1 event; data brings it back
DevIdle ==
  /\ ~dev.rst /\ dev.req = "-" /\ evq = <<>>
  /\ \/ dev.st = "M0" /\ dev.ee = "AMSS" /\ chd = "added"
        /\ dev' = [dev EXCEPT !.st = "M1"] /\ Post(<<"M1">>)
     \/ dev.st = "M2" /\ dev' = [dev EXCEPT !.st = "M0"] /\ Post(<<"M0">>)
  /\ DevRest /\ UNCHANGED budv

\* a crash: reported by an event, or only visible in the status register
DevCrash ==
  /\ faults < FaultMax /\ ctx /\ dev.st \in {"READY", "M0", "M1", "M2", "M3"}
  /\ \E e \in CrashEE :
       /\ dev' = [dev EXCEPT !.st = "SYS_ERR", !.ee = e, !.req = "-"]
       /\ \/ Post(<<"SYS_ERR">>)
          \/ e = "RDDM" /\ Post(<<"EE_RDDM">>)
          \/ irq' = TRUE /\ UNCHANGED <<evq, tks, tsk>>
  /\ faults' = faults + 1
  /\ DevRest /\ UNCHANGED cycles

DevStep == DevBoot \/ DevReset \/ DevReady \/ DevObey \/ DevIdle \/ DevCrash

---------------------------------------------------------------------------
(* Interrupts and control events.                                          *)

\* mhi_intvec_threaded_handlr: what the handler finds and who is told
IntvecDetects == /\ pm \in RegAccess /\ dev.st = "SYS_ERR"
                 /\ pm # "SYS_ERR_DETECT"
                 /\ Tryset("SYS_ERR_DETECT") = "SYS_ERR_DETECT"
\* mutant: any boot-loader environment is reported as fatal
IntvecFatalAnyPbl == IntvecDetects /\ dev.ee \in InPBL
\* only an unchanged boot-loader environment is left to the controller
IntvecFatal == IntvecDetects /\ ee = dev.ee /\ dev.ee \in InPBL
IntvecPm == IF IntvecDetects THEN "SYS_ERR_DETECT" ELSE pm
\* mutant: an error without a change of environment schedules nothing
IntvecSewNewEeOnly == sew \/ (IntvecDetects /\ ee # dev.ee)
IntvecSew == sew \/ (IntvecDetects /\ ~IntvecFatal)

\* mhi_msi_handlr / mhi_one_msi_handlr: pending events wake the tasklet, an
\* interrupt without events means a state change of the modem
mhi_one_msi_handlr ==
  /\ irq /\ ctx
  /\ irq' = FALSE
  /\ \/ evq # <<>> /\ tks' = TRUE
        /\ UNCHANGED <<pm, sew, auto>>
     \/ /\ evq = <<>>
        /\ pm' = IntvecPm /\ sew' = IntvecSew
        /\ auto' = (auto /\ ~IntvecFatal)
        /\ UNCHANGED tks
  /\ UNCHANGED <<dst, ee, dev, evq, tsk, stq, stw, rw, disv, lifev, rpm, tmr, rq, pmc,
                 clv, budv>>

\* mhi_ctrl_ev_task, first half: register and event access are checked once
mhi_ctrl_ev_task ==
  /\ tks /\ tsk = "idle"
  /\ tks' = FALSE
  /\ tsk' = IF pm \in RegAccess \cap EventAccess THEN "first" ELSE "idle"
  /\ UNCHANGED <<hostv, dev, evq, irq, workv, disv, lifev, rpmv, clv, budv>>

\* mhi_queue_state_transition
QueueTransition(t) == stq' = Append(stq, t)

StateOfEvent == [EE_SBL |-> "SBL", EE_FP |-> "FP", EE_AMSS |-> "MISSION_MODE"]

mhi_pm_m0_transition == pm' = Tryset("M0") /\ dst' = "M0" /\ UNCHANGED dev
mhi_pm_m1_transition ==
  IF Tryset("M2") = "M2"
  THEN pm' = "M2" /\ dst' = "M2" /\ dev' = SetState(dev, "M2")
  ELSE UNCHANGED <<pm, dst, dev>>
mhi_pm_m3_transition == pm' = Tryset("M3") /\ dst' = "M3" /\ UNCHANGED dev

mhi_process_ctrl_ev_ring ==
  /\ tsk \in {"first", "more"} /\ evq # <<>>
  /\ evq' = Tail(evq) /\ tsk' = "more" /\ UNCHANGED tks
  /\ LET e == Head(evq) IN
     \/ e = "M0" /\ mhi_pm_m0_transition /\ UNCHANGED <<ee, stq, sew>>
     \/ e = "M1" /\ mhi_pm_m1_transition /\ UNCHANGED <<ee, stq, sew>>
     \/ e = "M3" /\ mhi_pm_m3_transition /\ UNCHANGED <<ee, stq, sew>>
     \/ /\ e = "SYS_ERR"
        /\ pm' = Tryset("SYS_ERR_DETECT")
        /\ sew' = (sew \/ pm' = "SYS_ERR_DETECT")
        /\ UNCHANGED <<dst, ee, dev, stq>>
     \/ e = "EE_RDDM" /\ ee' = "RDDM" /\ UNCHANGED <<pm, dst, dev, stq, sew>>
     \/ e \in DOMAIN StateOfEvent /\ QueueTransition(StateOfEvent[e])
        /\ UNCHANGED <<pm, dst, ee, dev, sew>>
  /\ UNCHANGED <<irq, stw, rw, disv, lifev, rpmv, clv, budv>>

\* mhi_ctrl_ev_task, second half: an interrupt that carried no event makes
\* the task look at the status register, whatever pm_state is by then
CtrlEvEnd ==
  /\ tsk \in {"first", "more"} /\ evq = <<>>
  /\ tsk' = "idle"
  /\ pm' = IF tsk = "first" /\ dev.st = "SYS_ERR"
           THEN Tryset("SYS_ERR_DETECT") ELSE pm
  /\ sew' = (sew \/ (tsk = "first" /\ dev.st = "SYS_ERR"
                     /\ pm' = "SYS_ERR_DETECT"))
  /\ UNCHANGED <<dst, ee, dev, evq, irq, tks, stq, stw, rw, disv, lifev, rpmv, clv, budv>>

EventStep == \/ mhi_one_msi_handlr \/ mhi_ctrl_ev_task
             \/ mhi_process_ctrl_ev_ring \/ CtrlEvEnd

---------------------------------------------------------------------------
(* mhi_ready_state_transition: the wait, its failure and its success.      *)

ReadyFails == pm = "LD_ERR_FATAL_DETECT" \/ dev.rst \/ dev.st # "READY"
ReadySeen == pm # "LD_ERR_FATAL_DETECT" /\ ~dev.rst /\ dev.st = "READY"
ReadyDone == /\ ReadySeen
             /\ pm' = Tryset("POR") /\ dst' = "READY"
             /\ dev' = IF pm' = "POR" THEN SetState(dev, "M0") ELSE dev

(* The work items.                                                         *)

\* mhi_pm_ready_worker; the body is also what flush_delayed_work runs
ReadyWorkerBody ==
  LET seen == IF pm \in RegAccess THEN dev.ee ELSE "MAX" IN
  /\ rw' = (dst = "RESET" /\ seen = "PTHRU")
  /\ \/ dst = "RESET" /\ seen \in {"AMSS", "SBL"} /\ QueueTransition("READY")
     \/ dst = "RESET" /\ seen = "EDL" /\ QueueTransition("PBL")
     \/ (dst # "RESET" \/ seen \notin {"AMSS", "SBL", "EDL"}) /\ UNCHANGED stq

mhi_pm_ready_worker ==
  /\ rw /\ ReadyWorkerBody
  /\ UNCHANGED <<hostv, dev, evv, stw, sew, disv, lifev, rpmv, clv, budv>>

\* mhi_pm_st_worker: takes the next queued transition
mhi_pm_st_worker ==
  /\ stw = "idle" /\ stq # <<>>
  /\ stq' = Tail(stq)
  /\ LET t == Head(stq) IN
     \/ /\ t = "PBL" /\ ee' = (IF pm \in RegAccess THEN dev.ee ELSE ee)
        /\ UNCHANGED <<stw, dev, rq>>
     \/ t \in {"SBL", "FP"} /\ ee' = t /\ stw' = "create" /\ UNCHANGED <<dev, rq>>
     \/ t = "READY" /\ stw' = "ready" /\ UNCHANGED <<ee, dev, rq>>
     \/ /\ t = "MISSION_MODE" /\ stw' = "wait_m0" /\ dev' = Waken(dev)
        /\ rq' = (rq \/ (pm \in Suspended /\ rpm # "active"))
        /\ UNCHANGED ee
  /\ UNCHANGED <<pm, dst, evv, rw, sew, disv, lifev, rpm, auto, tmr, pmc, clv, budv>>

StRest == UNCHANGED <<evv, stq, rw, sew, disv, ctx, on, bnd, stray, rpmv, clv,
                      faults, cycles>>

StReady ==
  /\ stw = "ready" /\ stw' = "idle"
  /\ \/ ReadyFails /\ UNCHANGED <<pm, dst, dev>>
     \/ ReadyDone
  /\ UNCHANGED <<ee, chd>> /\ StRest

\* __mhi_device_get_sync inside mhi_pm_mission_mode_transition
MissionWait ==
  /\ stw = "wait_m0"
  /\ \/ pm = "M0" /\ stw' = "read_ee"
     \/ pm # "M0" /\ stw' = "idle"            \* an error state, or the timeout
  /\ UNCHANGED <<hostv, dev, chd>> /\ StRest

\* mhi_pm_mission_mode_transition: re-reads the environment under the lock,
\* drops the lock, takes it again and checks
mhi_pm_mission_mode_transition ==
  /\ \/ /\ stw = "read_ee" /\ stw' = "check"
        /\ ee' = IF pm \in RegAccess THEN dev.ee ELSE ee
     \/ /\ stw = "check" /\ UNCHANGED ee
        /\ stw' = IF ee \in MissionMode /\ pm \notin ErrorStates
                  THEN "create" ELSE "idle"
  /\ UNCHANGED <<pm, dst, dev, chd>> /\ StRest

\* mhi_create_devices: the environment is tested without a lock, the device
\* is added later
mhi_create_devices ==
  /\ \/ /\ stw = "create" /\ UNCHANGED chd
        /\ stw' = IF ee \in ChanEEs /\ chd = "none" THEN "add" ELSE "idle"
     \/ stw = "add" /\ chd' = "added" /\ stw' = "idle"
  /\ UNCHANGED <<hostv, dev>> /\ StRest

WorkStep == \/ mhi_pm_ready_worker \/ mhi_pm_st_worker \/ StReady \/ MissionWait
            \/ mhi_pm_mission_mode_transition \/ mhi_create_devices

---------------------------------------------------------------------------
(* mhi_pm_disable_transition, run by the system-error worker ("sys", to    *)
(* SYS_ERR_PROCESS) and by mhi_power_down ("down", to SHUTDOWN_PROCESS).   *)

Goal(w) == IF w = "sys" THEN "SYS_ERR_PROCESS" ELSE "SHUTDOWN_PROCESS"
Goto(w, l) == dis' = [dis EXCEPT ![w] = l]
\* a runtime-PM call that waits for the device to be active
RpmSettled == rpm \in {"active", "error"}
\* where the thread goes on when the disable transition returns
After(w) == IF w = "sys" THEN "idle" ELSE "free"

\* mhi_pm_sys_err_worker: the controller is told before pm_mutex is taken
mhi_pm_sys_err_worker ==
  /\ sew /\ dis["sys"] = "idle"
  /\ sew' = FALSE /\ Goto("sys", "notify")
  /\ UNCHANGED <<hostv, dev, evv, stq, stw, rw, mtx, lifev, rpmv, clv, budv>>

\* status_cb(MHI_CB_SYS_ERROR): pm_runtime_forbid resumes and waits
mhi_status_cb ==
  /\ dis["sys"] = "notify"
  /\ \/ RpmSettled /\ auto' = FALSE /\ Goto("sys", "enter") /\ UNCHANGED rq
     \/ ~RpmSettled /\ ~rq /\ rq' = TRUE /\ UNCHANGED <<auto, dis>>
  /\ UNCHANGED <<hostv, dev, evv, workv, mtx, lifev, rpm, tmr, pmc, clv, budv>>

DisRest == UNCHANGED <<irq, tks, tsk, stw, sew, ctx, on, bnd, stray, rpmv, bhi,
                       faults, cycles>>

\* pm_mutex, the state change, and the RESET written if registers were usable
DisEnter(w) ==
  /\ dis[w] = "enter" /\ mtx = "none"
  /\ \/ /\ Tryset(Goal(w)) # Goal(w)
        /\ Goto(w, After(w))
        /\ UNCHANGED <<hostv, dev, mtx>>
     \/ /\ Tryset(Goal(w)) = Goal(w)
        /\ pm' = Goal(w) /\ ee' = "DISABLE_TRANSITION" /\ dst' = "RESET"
        /\ mtx' = w
        /\ \/ /\ pm \in RegAccess /\ dev' = SetState(dev, "RESET")
              /\ Goto(w, "reset")
           \/ pm \notin RegAccess /\ UNCHANGED dev /\ Goto(w, "kill")
  /\ UNCHANGED <<evq, stq, rw, chd, cl, xp>> /\ DisRest

\* the wait for RESET to clear; a system error gives up for good
DisReset(w) ==
  /\ dis[w] = "reset"
  /\ \/ ~dev.rst /\ Goto(w, "kill") /\ UNCHANGED mtx
     \/ /\ dev.rst                              \* the timeout
        /\ \/ w = "sys" /\ Goto(w, "idle") /\ mtx' = "none"
           \/ w = "down" /\ Goto(w, "kill") /\ UNCHANGED mtx
  /\ UNCHANGED <<hostv, dev, evq, stq, rw, chd, cl, xp>> /\ DisRest

\* tasklet_kill waits for a scheduled or running tasklet
DisKill(w) ==
  /\ dis[w] = "kill" /\ tsk = "idle" /\ ~tks
  /\ Goto(w, "destroy") /\ mtx' = "none"
  /\ UNCHANGED <<hostv, dev, evq, stq, rw, chd, cl, xp>> /\ DisRest

\* mhi_destroy_device for every child: drivers stop their channels
DisDestroy(w) ==
  /\ dis[w] = "destroy" /\ cl # "starting"
  /\ chd' = "none" /\ cl' = "closed"
  /\ xp' = IF cl = "started" /\ xp > 0 THEN xp - 1 ELSE xp
  /\ Goto(w, "flush_ready")
  /\ UNCHANGED <<hostv, dev, evq, stq, rw, mtx>> /\ DisRest

\* flush_delayed_work(ready_worker) runs a pending poll now
DisFlushReady(w) ==
  /\ dis[w] = "flush_ready" /\ Goto(w, "flush_st")
  /\ \/ rw /\ ReadyWorkerBody
     \/ ~rw /\ UNCHANGED <<rw, stq>>
  /\ UNCHANGED <<hostv, dev, evq, mtx, chd, cl, xp>> /\ DisRest

\* flush_work(st_worker), then the rings are reset under pm_mutex
DisRings(w) ==
  /\ dis[w] = "flush_st" /\ stw = "idle" /\ stq = <<>> /\ mtx = "none"
  /\ evq' = <<>>
  /\ \/ /\ w = "sys" /\ ~(dev.ee = "EDL" /\ dev.st = "RESET")
        /\ Goto(w, "ready") /\ mtx' = w /\ UNCHANGED hostv
     \/ /\ w = "sys" /\ dev.ee = "EDL" /\ dev.st = "RESET"
        /\ ee' = "EDL" /\ pm' = Tryset("POR") /\ Goto(w, "idle")
        /\ UNCHANGED <<dst, mtx>>
     \/ w = "down" /\ pm' = Tryset("DISABLE") /\ Goto(w, "free")
        /\ UNCHANGED <<dst, ee, mtx>>
  /\ UNCHANGED <<dev, stq, rw, chd, cl, xp>> /\ DisRest

\* the recovery ends by bringing the modem back to READY
DisReady ==
  /\ dis["sys"] = "ready" /\ Goto("sys", "idle") /\ mtx' = "none"
  /\ \/ ReadyFails /\ UNCHANGED <<pm, dst, dev>>
     \/ ReadyDone
  /\ UNCHANGED <<ee, evq, stq, rw, chd, cl, xp>> /\ DisRest

DisableStep == \/ mhi_pm_sys_err_worker \/ mhi_status_cb \/ DisReady
               \/ \E w \in {"sys", "down"} :
                    \/ DisEnter(w) \/ DisReset(w) \/ DisKill(w)
                    \/ DisDestroy(w) \/ DisFlushReady(w) \/ DisRings(w)

---------------------------------------------------------------------------
(* PCI probe and remove.                                                   *)

\* mhi_async_power_up: the rings are new and empty, a modem found running is
\* reset first, then the ready poll or, with the firmware up, the READY
\* transition is started
mhi_async_power_up ==
  /\ ctx' = TRUE /\ evq' = <<>> /\ pm' = "POR" /\ ee' = "MAX"
  /\ dev' = IF dev.st \in {"M0", "M1", "M2", "M3", "SYS_ERR"}
            THEN [dev EXCEPT !.st = "RESET", !.rst = FALSE, !.req = "-"]
            ELSE dev
  /\ \/ dev.ee \in InPBL /\ rw' = TRUE /\ UNCHANGED stq
     \/ dev.ee \notin InPBL /\ QueueTransition("READY") /\ UNCHANGED rw

\* mhi_pci_probe: alone on the device until it returns; when a resource or the
\* power-up fails everything is unwound but powered_on
mhi_pci_probe ==
  /\ ~bnd /\ cycles < CycleMax /\ cycles' = cycles + 1
  /\ on' = TRUE /\ dst' = "RESET"
  /\ \/ bnd' = TRUE /\ mhi_async_power_up
     \/ dev.st = "SYS_ERR" /\ UNCHANGED <<pm, ee, dev, ctx, evq, bnd, stq, rw>>
  /\ UNCHANGED <<irq, tks, tsk, stw, sew, disv, chd, stray, rpmv, clv, faults>>

\* mhi_pci_device_removed: pm_runtime_get_sync, powered_on, link down
mhi_pci_device_removed ==
  /\ bnd
  /\ \/ dis["down"] = "idle" /\ Goto("down", "get") /\ UNCHANGED <<rq, on, pm>>
     \/ /\ dis["down"] = "get" /\ UNCHANGED <<on, pm>>
        /\ \/ RpmSettled /\ Goto("down", "off") /\ UNCHANGED rq
           \/ ~RpmSettled /\ ~rq /\ rq' = TRUE /\ UNCHANGED dis
     \/ /\ dis["down"] = "off" /\ mtx = "none"
        /\ on' = FALSE /\ Goto("down", "ld") /\ UNCHANGED <<rq, pm>>
     \/ \* mhi_power_down(graceful = false)
        /\ dis["down"] = "ld" /\ mtx = "none"
        /\ pm' = Tryset("LD_ERR_FATAL_DETECT") /\ Goto("down", "enter")
        /\ UNCHANGED <<rq, on>>
  /\ UNCHANGED <<dst, ee, dev, evv, workv, mtx, chd, ctx, bnd, stray, rpm, auto, tmr,
                 pmc, clv, budv>>

\* the end of mhi_power_down and of remove: interrupts, contexts and the
\* controller are freed; work that still refers to it is left stray
DisFree ==
  /\ dis["down"] = "free"
  /\ stray' = (stray \/ rw \/ sew \/ tks \/ stw # "idle" \/ dis["sys"] # "idle"
               \/ stq # <<>> \/ pmc # "none")
  /\ pm' = "DISABLE" /\ dst' = "RESET" /\ ee' = "MAX"
  /\ evq' = <<>> /\ irq' = FALSE /\ tks' = FALSE /\ tsk' = "idle"
  /\ stq' = <<>> /\ stw' = "idle" /\ rw' = FALSE /\ sew' = FALSE
  /\ dis' = [w \in {"sys", "down"} |-> "idle"] /\ mtx' = "none"
  /\ chd' = "none" /\ ctx' = FALSE /\ bnd' = FALSE /\ UNCHANGED on
  /\ rpm' = "active" /\ auto' = FALSE /\ tmr' = FALSE /\ rq' = FALSE /\ pmc' = "none"
  /\ cl' = "closed" /\ xp' = 0 /\ bhi' = "idle"
  /\ UNCHANGED <<dev, budv>>

LifeStep == mhi_pci_probe \/ mhi_pci_device_removed \/ DisFree

---------------------------------------------------------------------------
(* Runtime power management.  The PM core (external) runs one callback at  *)
(* a time; -EBUSY keeps the device active, any other error sticks.         *)

UsageZero == auto /\ cl # "starting" /\ dis["down"] = "idle"

PmRest == UNCHANGED <<evv, workv, dis, lifev, clv, faults, cycles>>

\* the user writes "auto" to power/control
RpmAllow == /\ bnd /\ ~auto /\ auto' = TRUE /\ dis["sys"] = "idle"
            /\ UNCHANGED <<hostv, dev, mtx, rpm, tmr, rq, pmc>> /\ PmRest

\* mhi_runtime_idle answers 0 only in M2, and the autosuspend timer starts
mhi_runtime_idle ==
  /\ bnd /\ rpm = "active" /\ UsageZero /\ ~tmr
  /\ dst = "M2" /\ ee = "AMSS"
  /\ tmr' = TRUE
  /\ UNCHANGED <<hostv, dev, mtx, rpm, auto, rq, pmc>> /\ PmRest

\* the timer: a suspend starts if nobody holds a reference by then
RpmTimer ==
  /\ tmr /\ tmr' = FALSE /\ rpm = "active" /\ bnd
  /\ \/ UsageZero /\ rpm' = "suspending" /\ pmc' = "s_begin"
     \/ ~UsageZero /\ UNCHANGED <<rpm, pmc>>
  /\ UNCHANGED <<hostv, dev, mtx, auto, rq>> /\ PmRest

\* what a callback leaves behind: a deferred resume request survives only a
\* successful suspend
PmReturn(st) == /\ pmc' = "none" /\ mtx' = "none" /\ rpm' = st
                /\ rq' = (rq /\ st = "suspended")

\* mhi_pm_suspend up to its first wait: a dead link sticks as an error, open
\* transfer paths keep the device active
SuspendBegin ==
  \/ pm \in {"DISABLE"} \cup ErrorStates /\ PmReturn("error") /\ UNCHANGED dev
  \/ /\ pm \notin {"DISABLE"} \cup ErrorStates
     /\ xp > 0 /\ PmReturn("active") /\ UNCHANGED dev
  \/ /\ pm \notin {"DISABLE"} \cup ErrorStates /\ xp = 0
     /\ mtx' = "pm" /\ pmc' = "s_wait_m0" /\ dev' = Waken(dev)
     /\ UNCHANGED <<rpm, rq>>

mhi_runtime_suspend ==
  /\ pmc = "s_begin" /\ mtx = "none"
  /\ \/ ~on /\ PmReturn("suspended") /\ UNCHANGED dev
     \/ on /\ ee # "AMSS" /\ PmReturn("active") /\ UNCHANGED dev
     \/ on /\ ee = "AMSS" /\ SuspendBegin
  /\ UNCHANGED <<hostv, auto, tmr>> /\ PmRest

\* mhi_pm_suspend after the wait for M0: xfer_paths is not looked at again
SuspendEnter ==
  /\ pmc = "s_wait_m0"
  /\ \/ /\ dst = "M0" /\ pm \notin ErrorStates /\ Tryset("M3_ENTER") = "M3_ENTER"
        /\ pm' = "M3_ENTER" /\ dev' = SetState(dev, "M3") /\ pmc' = "s_wait_m3"
        /\ UNCHANGED <<mtx, rpm, rq>>
     \/ /\ (dst = "M0" \/ pm \in ErrorStates)
        /\ Tryset("M3_ENTER") # "M3_ENTER"
        /\ PmReturn("error") /\ UNCHANGED <<pm, dev>>
     \/ dst # "M0" /\ PmReturn("error") /\ UNCHANGED <<pm, dev>>
  /\ UNCHANGED <<dst, ee, auto, tmr>> /\ PmRest

\* mutant: the result of the wait for M3 is not looked at
SuspendDoneUnchecked ==
  /\ pmc = "s_wait_m3"
  /\ (IF pm \in ErrorStates THEN PmReturn("error") ELSE PmReturn("suspended"))
  /\ UNCHANGED <<hostv, dev, auto, tmr>> /\ PmRest

\* mhi_pm_suspend after the wait for M3
SuspendDone ==
  /\ pmc = "s_wait_m3"
  /\ \/ dst = "M3" /\ pm \notin ErrorStates /\ PmReturn("suspended")
     \/ (dst # "M3" \/ pm \in ErrorStates) /\ PmReturn("error")
  /\ UNCHANGED <<hostv, dev, auto, tmr>> /\ PmRest

\* a pending request starts the resume of a suspended device
RpmResume ==
  /\ rq /\ rpm = "suspended"
  /\ rq' = FALSE /\ rpm' = "resuming" /\ pmc' = "r_begin"
  /\ UNCHANGED <<hostv, dev, mtx, auto, tmr>> /\ PmRest

\* mhi_pm_resume up to its wait
ResumeBegin ==
  \/ pm = "DISABLE" /\ PmReturn("active") /\ UNCHANGED <<pm, dev>>
  \/ /\ pm # "DISABLE" /\ Tryset("M3_EXIT") # "M3_EXIT"
     /\ PmReturn("error") /\ UNCHANGED <<pm, dev>>
  \/ /\ Tryset("M3_EXIT") = "M3_EXIT"
     /\ pm' = "M3_EXIT" /\ dev' = SetState(dev, "M0")
     /\ pmc' = "r_wait_m0" /\ mtx' = "pm" /\ UNCHANGED <<rpm, rq>>

mhi_runtime_resume ==
  /\ pmc = "r_begin" /\ mtx = "none"
  /\ \/ ~on /\ PmReturn("active") /\ UNCHANGED <<pm, dev>>
     \/ on /\ ResumeBegin
  /\ UNCHANGED <<dst, ee, auto, tmr>> /\ PmRest

\* mhi_pm_resume after its wait: a failure forces the interrupt handler's
\* check in this very thread, where telling the controller of a fatal error
\* would wait for the resume that is running
ResumeDone ==
  /\ pmc = "r_wait_m0"
  /\ \/ /\ dst = "M0" /\ pm \notin ErrorStates /\ PmReturn("active")
        /\ UNCHANGED <<pm, sew>>
     \/ /\ pm \in ErrorStates \/ dst # "M0"
        /\ pm' = IntvecPm /\ sew' = IntvecSew
        /\ LET self == IntvecFatal /\ auto IN
           /\ pmc' = (IF self THEN "self" ELSE "none") /\ rq' = (rq /\ self)
           /\ mtx' = (IF self THEN mtx ELSE "none")
           /\ rpm' = (IF self THEN rpm ELSE "error")
  /\ UNCHANGED <<dst, ee, dev, evv, stq, stw, rw, dis, lifev, clv, auto, tmr, faults,
                 cycles>>

PmStep == \/ RpmAllow \/ mhi_runtime_idle \/ RpmTimer \/ mhi_runtime_suspend
          \/ SuspendEnter \/ SuspendDone \/ RpmResume \/ mhi_runtime_resume
          \/ ResumeDone

---------------------------------------------------------------------------
(* Clients of the bus.                                                     *)

ClRest == UNCHANGED <<dst, ee, evv, stq, stw, rw, disv, lifev, auto, tmr, pmc, faults,
                      cycles>>

\* mhi_prepare_for_transfer up to the wait for the START completion; the
\* runtime reference taken here is also a resume request
mhi_prepare_for_transfer ==
  /\ chd = "added" /\ cl = "closed"
  /\ ee \in ChanEEs /\ pm \notin ErrorStates
  /\ cl' = "starting" /\ dev' = Waken(dev)
  /\ rq' = (rq \/ rpm \notin {"active", "error"})
  /\ UNCHANGED <<pm, sew, rpm, xp, bhi>> /\ ClRest

\* the START command completes (its doorbell is rung in M0 only), or not
ChanStarted ==
  /\ cl = "starting"
  /\ \/ pm = "M0" /\ dev.st \in {"M0", "M1"} /\ cl' = "started" /\ xp' = xp + 1
     \/ cl' = "closed" /\ UNCHANGED xp         \* an error state, or the timeout
  /\ UNCHANGED <<pm, dev, sew, rpm, rq, bhi>> /\ ClRest

mhi_unprepare_from_transfer ==
  /\ cl = "started" /\ cl' = "closed"
  /\ xp' = IF xp > 0 THEN xp - 1 ELSE xp
  /\ rq' = (rq \/ (pm \notin ErrorStates /\ rpm \notin {"active", "error"}))
  /\ UNCHANGED <<pm, dev, sew, rpm, bhi>> /\ ClRest

\* mhi_debugfs_trigger_reset, its wait for M0 over
mhi_debugfs_trigger_reset ==
  /\ chd = "added" /\ faults < FaultMax
  /\ dst = "M0" /\ pm \notin ErrorStates
  /\ pm' = Tryset("SYS_ERR_DETECT")
  /\ sew' = (sew \/ pm' = "SYS_ERR_DETECT")
  /\ faults' = faults + 1
  /\ UNCHANGED <<dst, ee, dev, evv, stq, stw, rw, disv, lifev, rpmv, clv, cycles>>

\* BhiWrite: image to the boot loader, RESET to READY, flash programmer
BhiRest == UNCHANGED <<ee, evv, workv, disv, lifev, rpmv, cl, xp, faults, cycles>>
BhiWrite ==
  \/ /\ bhi = "idle" /\ ee = "EDL" /\ pm \in RegAccess /\ bhi' = "sbl"
     /\ UNCHANGED <<pm, dst, dev>> /\ BhiRest
  \/ /\ bhi = "sbl"
     /\ \/ /\ pm \notin ErrorStates /\ dev.ee = "EDL" /\ dev.st = "RESET"
           /\ dev' = [dev EXCEPT !.ee = "FP"]
           /\ dst' = "RESET" /\ bhi' = "ready"
        \/ bhi' = "idle" /\ UNCHANGED <<dev, dst>>
     /\ UNCHANGED pm /\ BhiRest
  \/ /\ bhi = "ready"
     /\ \/ ReadyFails /\ bhi' = "idle" /\ UNCHANGED <<pm, dst, dev>>
        \/ ReadyDone /\ bhi' = IF pm' = "POR" THEN "fp" ELSE "idle"
     /\ BhiRest
  \/ /\ bhi = "fp" /\ bhi' = "idle"
     /\ UNCHANGED <<pm, dst, dev>> /\ BhiRest

ClientStep == \/ mhi_prepare_for_transfer \/ ChanStarted
              \/ mhi_unprepare_from_transfer \/ mhi_debugfs_trigger_reset
              \/ BhiWrite

---------------------------------------------------------------------------
PmInit ==
  /\ pm = "DISABLE" /\ dst = "RESET" /\ ee = "MAX"
  /\ dev \in [st : {"RESET"}, ee : StartEE, rst : {FALSE}, req : {"-"}]
  /\ evq = <<>> /\ irq = FALSE /\ tks = FALSE /\ tsk = "idle"
  /\ stq = <<>> /\ stw = "idle" /\ rw = FALSE /\ sew = FALSE
  /\ dis = [w \in {"sys", "down"} |-> "idle"] /\ mtx = "none"
  /\ chd = "none" /\ ctx = FALSE /\ on = FALSE /\ bnd = FALSE /\ stray = FALSE
  /\ rpm = "active" /\ auto = FALSE /\ tmr = FALSE /\ rq = FALSE /\ pmc = "none"
  /\ cl = "closed" /\ xp = 0 /\ bhi = "idle"
  /\ faults = 0 /\ cycles = 0

PmNext == \/ DevStep \/ EventStep \/ WorkStep \/ DisableStep \/ LifeStep
          \/ PmStep \/ ClientStep

PmSpec == PmInit /\ [][PmNext]_pmVars

---------------------------------------------------------------------------
(* Properties.                                                             *)

\* Every variable has its type; xfer_paths counts the one started channel.
PmTypeOK ==
  /\ pm \in PmStates /\ dst \in {"RESET", "READY", "M0", "M2", "M3"}
  /\ ee \in {"MAX", "DISABLE_TRANSITION", "RDDM"} \cup InPBL \cup ChanEEs
  /\ irq \in BOOLEAN /\ tks \in BOOLEAN /\ tsk \in {"idle", "first", "more"}
  /\ stw \in {"idle", "ready", "wait_m0", "read_ee", "check", "create", "add"}
  /\ rw \in BOOLEAN /\ sew \in BOOLEAN
  /\ mtx \in {"none", "sys", "down", "pm"}
  /\ xp \in 0..1 /\ chd \in {"none", "added"} /\ cl \in {"closed", "starting", "started"}
  /\ rpm \in {"active", "suspending", "suspended", "resuming", "error"}
  /\ faults \in 0..FaultMax /\ cycles \in 0..CycleMax

\* The PM core believes the device suspended only if the modem went to M3, or
\* an error was found since: mhi_runtime_suspend never reports success early.
SuspendedMeansM3 == rpm = "suspended" /\ on => pm \in {"M3"} \cup ErrorStates

\* No set of the driver's threads waits in a circle: for pm_mutex, for the
\* runtime-PM callback another one needs finished, for st_worker to drain, for
\* a client inside a channel start.  (The code's own hints: status_cb comes
\* before pm_mutex in mhi_pm_sys_err_worker, and mhi_pm_resume calls the
\* interrupt thread's handler from inside the callback.)
Threads == {"sys", "down", "pm", "st", "cl"}
WaitsFor ==
  [t \in Threads |->
     {u \in Threads :
        \/ t \in {"sys", "down"} /\ dis[t] \in {"enter", "off", "ld", "flush_st"}
           /\ mtx = u
        \/ t \in {"sys", "down"} /\ dis[t] = "flush_st" /\ stw # "idle" /\ u = "st"
        \/ t \in {"sys", "down"} /\ dis[t] = "destroy" /\ cl = "starting" /\ u = "cl"
        \/ t \in {"sys", "down"} /\ dis[t] \in {"notify", "get"} /\ ~RpmSettled
           /\ pmc # "none" /\ u = "pm"
        \/ t = "pm" /\ pmc \in {"s_begin", "r_begin"} /\ mtx = u
        \/ t = "pm" /\ pmc = "self" /\ u = "pm"}]
NoWaitCycle ==
  LET waits == WaitsFor
  IN \A S \in (SUBSET Threads) \ {{}} : \E t \in S : waits[t] \cap S = {}

\* A detected system error has an owner: the worker is scheduled or on its way
\* to SYS_ERR_PROCESS, whoever detected it, unless the modem sits in a boot
\* loader, which mhi_intvec_threaded_handlr leaves to the controller.
ErrorIsOwned ==
  pm = "SYS_ERR_DETECT" /\ bnd /\ dev.ee \notin InPBL =>
    sew \/ dis["sys"] \in {"notify", "enter"}
=============================================================================
