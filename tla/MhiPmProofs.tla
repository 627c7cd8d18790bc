---------------------------- MODULE MhiPmProofs ----------------------------
(***************************************************************************)
(* Proofs about MhiPm, for any number of crashes, probes and events and    *)
(* any environments the modem is found or crashes in: the PM core believes *)
(* the device suspended only if the modem is, and a detected error has an  *)
(* owner.                                                                  *)
(*                                                                         *)
(* The inductive invariant ties the two callers of the disable transition, *)
(* the runtime-PM callbacks and removal together: who holds pm_mutex, when *)
(* a callback may run, and what is left to the controller.                 *)
(***************************************************************************)
EXTENDS MhiPm, TLAPS

---------------------------------------------------------------------------
(* The inductive invariant, in parts.                                      *)

Callers      == {"sys", "down"}
MhiStates    == {"RESET", "READY", "M0", "M2", "M3"}
Environments == InPBL \cup ChanEEs \cup {"RDDM"}
Modems == [st : MhiStates \cup {"M1", "SYS_ERR"}, ee : Environments, rst : BOOLEAN,
           req : {"-", "M0", "M2", "M3"}]
Stages == {"idle", "notify", "enter", "reset", "kill", "destroy", "flush_ready", "flush_st",
           "ready", "get", "off", "ld", "free"}

\* The full state.
HostTypes   == /\ pm \in PmStates /\ dst \in MhiStates
               /\ ee \in {"MAX", "DISABLE_TRANSITION"} \cup Environments
ModemTypes  == dev \in Modems
ThreadTypes == dis \in [Callers -> Stages] /\ mtx \in {"none", "sys", "down", "pm"}
PlaceTypes  == /\ tsk \in {"idle", "first", "more"}
               /\ stw \in {"idle", "ready", "wait_m0", "read_ee", "check", "create", "add"}
               /\ chd \in {"none", "added"}
               /\ rpm \in {"active", "suspending", "suspended", "resuming", "error"}
FlagTypes   == irq \in BOOLEAN /\ tks \in BOOLEAN /\ rw \in BOOLEAN /\ sew \in BOOLEAN
BudgetTypes == faults \in 0 .. FaultMax /\ cycles \in 0 .. CycleMax

\* Who holds pm_mutex.
Mutex ==
  /\ mtx = "sys" <=> dis["sys"] \in {"reset", "kill", "ready"}
  /\ mtx = "down" <=> dis["down"] \in {"reset", "kill"}
  /\ mtx = "pm" <=> pmc \in {"s_wait_m0", "s_wait_m3", "r_wait_m0", "self"}

\* The callback that runs is the one the PM core's status is about.
Callback ==
  /\ rpm = "suspending" <=> pmc \in {"s_begin", "s_wait_m0", "s_wait_m3"}
  /\ rpm = "resuming" <=> pmc \in {"r_begin", "r_wait_m0", "self"}

\* A device that is not bound is active for the PM core, and nobody removes it.
Unbound == ~bnd => rpm = "active" /\ dis["down"] = "idle"

\* powered_on is cleared before the power-down begins.
PoweredOff == on => dis["down"] \in {"idle", "get", "off"}

\* Past pm_runtime_forbid the recovery meets no suspended device.
Forbidden == dis["sys"] \notin {"idle", "notify"} => ~auto /\ rpm \in {"active", "error"}
InError == pm = "SYS_ERR_PROCESS" /\ on => rpm # "suspended"

\* mhi_pm_suspend waits for M3 in M3_ENTER, and dev_state is not M3 before its event.
Entering ==
  /\ pmc = "s_wait_m3" => pm \in {"M3_ENTER", "M3", "SYS_ERR_DETECT"}
  /\ pm = "M3_ENTER" => dst # "M3"

\* A detected error has an owner, or the modem rests in a boot loader.
Parked == /\ dev.ee \in {"PBL", "EDL"}
          /\ dev.st = "SYS_ERR" \/ (dev.st = "RESET" /\ dev.req \in {"-", "M0"})
Owned == sew \/ dis["sys"] \in {"notify", "enter"}
Left ==
  /\ pm = "SYS_ERR_DETECT" /\ bnd => Owned \/ Parked
  /\ dev.st = "SYS_ERR" => dev.ee # "PTHRU"

\* xfer_paths counts the started channel.
Paths == /\ cl \in {"closed", "starting", "started"}
         /\ xp = IF cl = "started" THEN 1 ELSE 0

PmInv == /\ HostTypes /\ ModemTypes /\ ThreadTypes /\ PlaceTypes /\ FlagTypes /\ BudgetTypes
         /\ Mutex /\ Callback /\ Unbound /\ PoweredOff /\ Forbidden /\ InError /\ Entering
         /\ SuspendedMeansM3 /\ Left /\ Paths

---------------------------------------------------------------------------
(* The transition table and the requests to the modem.                     *)

\* Which of the states the driver asks for it gets.
LEMMA Trysets == ASSUME pm \in PmStates
  PROVE /\ Tryset("M0") = IF pm \in {"POR", "M2", "M3_EXIT"} THEN "M0" ELSE pm
        /\ Tryset("M2") = IF pm = "M0" THEN "M2" ELSE pm
        /\ Tryset("M3_ENTER") = IF pm = "M0" THEN "M3_ENTER" ELSE pm
        /\ Tryset("M3") = IF pm = "M3_ENTER" THEN "M3" ELSE pm
        /\ Tryset("M3_EXIT") = IF pm = "M3" THEN "M3_EXIT" ELSE pm
        /\ Tryset("POR") = IF pm \in {"DISABLE", "POR", "SYS_ERR_PROCESS"} THEN "POR" ELSE pm
        /\ Tryset("DISABLE") = IF pm \in {"POR", "SHUTDOWN_PROCESS"} THEN "DISABLE" ELSE pm
        /\ Tryset("SYS_ERR_PROCESS") = IF pm = "SYS_ERR_DETECT" THEN "SYS_ERR_PROCESS" ELSE pm
        /\ Tryset("SYS_ERR_DETECT") =
             IF pm \in {"POR", "M0", "M2", "M3_ENTER", "M3", "M3_EXIT", "FW_DL_ERR"}
             THEN "SYS_ERR_DETECT" ELSE pm
        /\ Tryset("SHUTDOWN_PROCESS") = IF pm = "DISABLE" THEN pm ELSE "SHUTDOWN_PROCESS"
        /\ Tryset("LD_ERR_FATAL_DETECT") = IF pm = "DISABLE" THEN pm ELSE "LD_ERR_FATAL_DETECT"
<1>1. PICK t : t = Transitions[pm]
  OBVIOUS
<1> QED BY <1>1 DEF Tryset, Transitions, PmStates, L0, ErrorStates

\* What happens to a modem leaves it a modem.
LEMMA ModemSets == ASSUME NEW d \in Modems
  PROVE /\ Waken(d) \in Modems
        /\ SetState(d, "RESET") \in Modems /\ SetState(d, "M0") \in Modems
        /\ SetState(d, "M2") \in Modems /\ SetState(d, "M3") \in Modems
        /\ [d EXCEPT !.st = "READY"] \in Modems /\ [d EXCEPT !.st = "M1"] \in Modems
        /\ [d EXCEPT !.st = "M0"] \in Modems
        /\ [d EXCEPT !.st = "RESET", !.rst = FALSE, !.req = "-"] \in Modems
        /\ [d EXCEPT !.ee = "FP"] \in Modems /\ [d EXCEPT !.ee = "AMSS"] \in Modems
<1>1. Waken(d) \in Modems /\ SetState(d, "RESET") \in Modems
  BY Zenon DEF Waken, SetState, Modems
<1>2. SetState(d, "M0") \in Modems /\ SetState(d, "M2") \in Modems /\ SetState(d, "M3") \in Modems
  BY Zenon DEF SetState, Modems
<1>3. /\ [d EXCEPT !.st = "READY"] \in Modems /\ [d EXCEPT !.st = "M1"] \in Modems
      /\ [d EXCEPT !.st = "M0"] \in Modems
  BY Zenon DEF Modems, MhiStates
<1>4. [d EXCEPT !.st = "RESET", !.rst = FALSE, !.req = "-"] \in Modems
  BY Zenon DEF Modems, MhiStates
<1>5. [d EXCEPT !.ee = "FP"] \in Modems /\ [d EXCEPT !.ee = "AMSS"] \in Modems
  BY Zenon DEF Modems, Environments, ChanEEs
<1> QED BY <1>1, <1>2, <1>3, <1>4, <1>5

---------------------------------------------------------------------------
(* What a step leaves alone.                                               *)

\* Each part of the invariant is about some of the variables only.
LEMMA HostTypesKept == ASSUME HostTypes, UNCHANGED <<pm, dst, ee>> PROVE HostTypes'
BY Zenon DEF HostTypes

\* The state of the modem.
LEMMA ModemTypesKept == ASSUME ModemTypes, UNCHANGED <<dev>> PROVE ModemTypes'
BY Zenon DEF ModemTypes

\* The disable transitions and pm_mutex.
LEMMA ThreadTypesKept == ASSUME ThreadTypes, UNCHANGED <<dis, mtx>> PROVE ThreadTypes'
BY Zenon DEF ThreadTypes

\* The tasklet, st_worker, the children and the PM core.
LEMMA PlaceTypesKept == ASSUME PlaceTypes, UNCHANGED <<tsk, stw, chd, rpm>> PROVE PlaceTypes'
BY Zenon DEF PlaceTypes

\* The flags.
LEMMA FlagTypesKept == ASSUME FlagTypes, UNCHANGED <<irq, tks, rw, sew>> PROVE FlagTypes'
BY Zenon DEF FlagTypes

\* The budgets.
LEMMA BudgetTypesKept == ASSUME BudgetTypes, UNCHANGED <<faults, cycles>> PROVE BudgetTypes'
BY Zenon DEF BudgetTypes

\* Who holds pm_mutex.
LEMMA MutexKept == ASSUME Mutex, UNCHANGED <<mtx, dis, pmc>> PROVE Mutex'
BY Zenon DEF Mutex

\* The callback that runs.
LEMMA CallbackKept == ASSUME Callback, UNCHANGED <<rpm, pmc>> PROVE Callback'
BY Zenon DEF Callback

\* An unbound device.
LEMMA UnboundKept == ASSUME Unbound, UNCHANGED <<bnd, rpm, dis>> PROVE Unbound'
BY Zenon DEF Unbound

\* powered_on.
LEMMA PoweredOffKept == ASSUME PoweredOff, UNCHANGED <<on, dis>> PROVE PoweredOff'
BY Zenon DEF PoweredOff

\* pm_runtime_forbid.
LEMMA ForbiddenKept == ASSUME Forbidden, UNCHANGED <<dis, auto, rpm>> PROVE Forbidden'
BY Zenon DEF Forbidden

\* A device in recovery.
LEMMA InErrorKept == ASSUME InError, UNCHANGED <<pm, on, rpm>> PROVE InError'
BY Zenon DEF InError

\* The wait for M3.
LEMMA EnteringKept == ASSUME Entering, UNCHANGED <<pmc, pm, dst>> PROVE Entering'
BY Zenon DEF Entering

\* What the PM core believes.
LEMMA SuspendedMeansM3Kept == ASSUME SuspendedMeansM3, UNCHANGED <<rpm, on, pm>> PROVE SuspendedMeansM3'
BY Zenon DEF SuspendedMeansM3

\* The owner of an error.
LEMMA LeftKept == ASSUME Left, UNCHANGED <<pm, bnd, dev, sew, dis>> PROVE Left'
BY Zenon DEF Left, Parked, Owned

\* xfer_paths.
LEMMA PathsKept == ASSUME Paths, UNCHANGED <<xp, cl>> PROVE Paths'
BY Zenon DEF Paths

\* Steps of the modem.
LEMMA DevStepKeeps == ASSUME PmInv, DevStep PROVE PmInv'
<1>1. CASE DevBoot
  <2>1. UNCHANGED <<pm, dst, ee, tsk, stw, dis, mtx, chd, on, bnd, rpm, auto, pmc, cl, xp, faults, cycles>>
    BY <1>1, Zenon DEF DevBoot, Post, DevRest, hostv, evv, workv, disv, lifev, rpmv, clv, budv
  <2>2. /\ HostTypes' /\ ThreadTypes' /\ PlaceTypes' /\ BudgetTypes' /\ Mutex'
         /\ Callback' /\ Unbound' /\ PoweredOff' /\ Forbidden' /\ InError' /\ Entering'
         /\ SuspendedMeansM3' /\ Paths'
    BY <2>1, HostTypesKept, ThreadTypesKept, PlaceTypesKept, BudgetTypesKept, MutexKept,
      CallbackKept, UnboundKept, PoweredOffKept, ForbiddenKept, InErrorKept, EnteringKept,
      SuspendedMeansM3Kept, PathsKept, Zenon DEF PmInv
  <2>3. ModemTypes'
    BY <1>1, ModemSets, Zenon DEF PmInv, ModemTypes, DevBoot, Post, DevRest
  <2>4. FlagTypes'
    BY <1>1, Zenon DEF PmInv, FlagTypes, DevBoot, Post, DevRest, evv, workv
  <2>5. Left'
    BY <1>1, Trysets, Zenon DEF PmInv, Left, HostTypes, ModemTypes, ThreadTypes, Unbound, Parked,
      Owned, DevBoot, Post, DevRest, InPBL, ChanEEs, Callers, Stages, Modems, Environments,
      RegAccess, PmStates, L0, ErrorStates, hostv, workv, disv, lifev, rpmv
  <2> QED BY <2>1, <2>2, <2>3, <2>4, <2>5, Zenon DEF PmInv
<1>2. CASE DevReset
  <2>1. UNCHANGED <<pm, dst, ee, tsk, stw, dis, mtx, chd, on, bnd, rpm, auto, pmc, cl, xp, faults, cycles>>
    BY <1>2, Zenon DEF DevReset, DevRest, hostv, workv, disv, lifev, rpmv, clv, budv
  <2>2. /\ HostTypes' /\ ThreadTypes' /\ PlaceTypes' /\ BudgetTypes' /\ Mutex'
         /\ Callback' /\ Unbound' /\ PoweredOff' /\ Forbidden' /\ InError' /\ Entering'
         /\ SuspendedMeansM3' /\ Paths'
    BY <2>1, HostTypesKept, ThreadTypesKept, PlaceTypesKept, BudgetTypesKept, MutexKept,
      CallbackKept, UnboundKept, PoweredOffKept, ForbiddenKept, InErrorKept, EnteringKept,
      SuspendedMeansM3Kept, PathsKept, Zenon DEF PmInv
  <2>3. ModemTypes'
    <3>1. dev' = [dev EXCEPT !.rst = FALSE, !.st = "RESET", !.req = "-",
                             !.ee = IF @ = "RDDM" THEN "PTHRU" ELSE @]
      BY <1>2, Zenon DEF DevReset
    <3> QED BY <3>1 DEF PmInv, ModemTypes, Modems, MhiStates, Environments, InPBL, ChanEEs
  <2>4. FlagTypes'
    BY <1>2, Zenon DEF PmInv, FlagTypes, DevReset, DevRest, workv
  <2>5. Left'
    BY <1>2, Trysets, Zenon DEF PmInv, Left, HostTypes, ModemTypes, ThreadTypes, Unbound, Parked,
      Owned, DevReset, DevRest, InPBL, ChanEEs, Callers, Stages, Modems, Environments,
      RegAccess, PmStates, L0, ErrorStates, hostv, workv, disv, lifev, rpmv
  <2> QED BY <2>1, <2>2, <2>3, <2>4, <2>5, Zenon DEF PmInv
<1>3. CASE DevReady
  <2>1. UNCHANGED <<pm, dst, ee, irq, tks, tsk, stw, rw, sew, dis, mtx, chd, on, bnd, rpm, auto, pmc, cl, xp,
                    faults, cycles>>
    BY <1>3, Zenon DEF DevReady, DevRest, hostv, evv, workv, disv, lifev, rpmv, clv, budv
  <2>2. /\ HostTypes' /\ ThreadTypes' /\ PlaceTypes' /\ FlagTypes' /\ BudgetTypes'
         /\ Mutex' /\ Callback' /\ Unbound' /\ PoweredOff' /\ Forbidden' /\ InError'
         /\ Entering' /\ SuspendedMeansM3' /\ Paths'
    BY <2>1, HostTypesKept, ThreadTypesKept, PlaceTypesKept, FlagTypesKept, BudgetTypesKept,
      MutexKept, CallbackKept, UnboundKept, PoweredOffKept, ForbiddenKept, InErrorKept,
      EnteringKept, SuspendedMeansM3Kept, PathsKept, Zenon DEF PmInv
  <2>3. ModemTypes'
    BY <1>3, ModemSets, Zenon DEF PmInv, ModemTypes, DevReady, DevRest
  <2>4. Left'
    BY <1>3, Trysets, Zenon DEF PmInv, Left, HostTypes, ModemTypes, ThreadTypes, Unbound, Parked,
      Owned, DevReady, DevRest, InPBL, ChanEEs, Callers, Stages, Modems, Environments,
      RegAccess, PmStates, L0, ErrorStates, hostv, workv, disv, lifev, rpmv
  <2> QED BY <2>1, <2>2, <2>3, <2>4, Zenon DEF PmInv
<1>4. CASE DevObey
  <2>1. UNCHANGED <<pm, dst, ee, tsk, stw, dis, mtx, chd, on, bnd, rpm, auto, pmc, cl, xp, faults, cycles>>
    BY <1>4, Zenon DEF DevObey, Post, DevRest, hostv, evv, workv, disv, lifev, rpmv, clv, budv
  <2>2. /\ HostTypes' /\ ThreadTypes' /\ PlaceTypes' /\ BudgetTypes' /\ Mutex'
         /\ Callback' /\ Unbound' /\ PoweredOff' /\ Forbidden' /\ InError' /\ Entering'
         /\ SuspendedMeansM3' /\ Paths'
    BY <2>1, HostTypesKept, ThreadTypesKept, PlaceTypesKept, BudgetTypesKept, MutexKept,
      CallbackKept, UnboundKept, PoweredOffKept, ForbiddenKept, InErrorKept, EnteringKept,
      SuspendedMeansM3Kept, PathsKept, Zenon DEF PmInv
  <2>3. ModemTypes'
    <3>1. dev' = [dev EXCEPT !.st = IF dev.req = "M2" /\ @ # "M1" THEN @ ELSE dev.req, !.req = "-"]
      BY <1>4, Zenon DEF DevObey
    <3>2. dev.req # "-"
      BY <1>4, Zenon DEF DevObey
    <3> QED BY <3>1, <3>2 DEF PmInv, ModemTypes, Modems, MhiStates
  <2>4. FlagTypes'
    BY <1>4, Zenon DEF PmInv, FlagTypes, DevObey, Post, DevRest, evv, workv
  <2>5. Left'
    BY <1>4, Trysets DEF PmInv, Left, HostTypes, ModemTypes, ThreadTypes, Unbound, Parked,
      Owned, DevObey, Post, DevRest, InPBL, ChanEEs, Callers, Stages, Modems, Environments,
      RegAccess, PmStates, L0, ErrorStates, hostv, workv, disv, lifev, rpmv
  <2> QED BY <2>1, <2>2, <2>3, <2>4, <2>5, Zenon DEF PmInv
<1>5. CASE DevIdle
  <2>1. UNCHANGED <<pm, dst, ee, tsk, stw, dis, mtx, chd, on, bnd, rpm, auto, pmc, cl, xp, faults, cycles>>
    BY <1>5, Zenon DEF DevIdle, Post, DevRest, hostv, workv, disv, lifev, rpmv, clv, budv
  <2>2. /\ HostTypes' /\ ThreadTypes' /\ PlaceTypes' /\ BudgetTypes' /\ Mutex'
         /\ Callback' /\ Unbound' /\ PoweredOff' /\ Forbidden' /\ InError' /\ Entering'
         /\ SuspendedMeansM3' /\ Paths'
    BY <2>1, HostTypesKept, ThreadTypesKept, PlaceTypesKept, BudgetTypesKept, MutexKept,
      CallbackKept, UnboundKept, PoweredOffKept, ForbiddenKept, InErrorKept, EnteringKept,
      SuspendedMeansM3Kept, PathsKept, Zenon DEF PmInv
  <2>3. ModemTypes'
    BY <1>5, ModemSets, Zenon DEF PmInv, ModemTypes, DevIdle, Post, DevRest
  <2>4. FlagTypes'
    BY <1>5, Zenon DEF PmInv, FlagTypes, DevIdle, Post, DevRest, workv
  <2>5. Left'
    BY <1>5, Trysets, Zenon DEF PmInv, Left, HostTypes, ModemTypes, ThreadTypes, Unbound, Parked,
      Owned, DevIdle, Post, DevRest, InPBL, ChanEEs, Callers, Stages, Modems, Environments,
      RegAccess, PmStates, L0, ErrorStates, hostv, workv, disv, lifev, rpmv
  <2> QED BY <2>1, <2>2, <2>3, <2>4, <2>5, Zenon DEF PmInv
<1>6. CASE DevCrash
  <2>1. UNCHANGED <<pm, dst, ee, tsk, stw, dis, mtx, chd, on, bnd, rpm, auto, pmc, cl, xp>>
    BY <1>6, Zenon DEF DevCrash, Post, DevRest, hostv, workv, disv, lifev, rpmv, clv
  <2>2. /\ HostTypes' /\ ThreadTypes' /\ PlaceTypes' /\ Mutex' /\ Callback' /\ Unbound'
         /\ PoweredOff' /\ Forbidden' /\ InError' /\ Entering' /\ SuspendedMeansM3'
         /\ Paths'
    BY <2>1, HostTypesKept, ThreadTypesKept, PlaceTypesKept, MutexKept, CallbackKept,
      UnboundKept, PoweredOffKept, ForbiddenKept, InErrorKept, EnteringKept,
      SuspendedMeansM3Kept, PathsKept, Zenon DEF PmInv
  <2>3. ModemTypes'
    <3>1. PICK e \in CrashEE : dev' = [dev EXCEPT !.st = "SYS_ERR", !.ee = e, !.req = "-"]
      BY <1>6, Zenon DEF DevCrash
    <3>2. e \in Environments
      BY PmAssumption, Zenon DEF Environments, InPBL, ChanEEs
    <3> QED BY <3>1, <3>2 DEF PmInv, ModemTypes, Modems
  <2>4. FlagTypes'
    BY <1>6, Zenon DEF PmInv, FlagTypes, DevCrash, Post, DevRest, workv
  <2>5. BudgetTypes'
    BY <1>6, PmAssumption DEF PmInv, BudgetTypes, DevCrash, Post, DevRest
  <2>6. Left'
    BY <1>6, PmAssumption, Zenon DEF PmInv, Left, HostTypes, ModemTypes, ThreadTypes, Unbound, Parked,
      Owned, DevCrash, Post, DevRest, InPBL, ChanEEs, Callers, Stages, Modems, Environments,
      RegAccess, PmStates, L0, ErrorStates, hostv, workv, disv, lifev, rpmv
  <2> QED BY <2>1, <2>2, <2>3, <2>4, <2>5, <2>6, Zenon DEF PmInv
<1> QED BY <1>1, <1>2, <1>3, <1>4, <1>5, <1>6, Zenon DEF DevStep

\* The interrupt handler and the control-event tasklet.
LEMMA EventStepKeeps == ASSUME PmInv, EventStep PROVE PmInv'
<1>1. CASE mhi_one_msi_handlr
  <2>1. UNCHANGED <<dev, tsk, stw, dis, mtx, chd, on, bnd, rpm, pmc, cl, xp, faults, cycles>>
    BY <1>1, Zenon DEF mhi_one_msi_handlr, disv, lifev, clv, budv
  <2>2. /\ ModemTypes' /\ ThreadTypes' /\ PlaceTypes' /\ BudgetTypes' /\ Mutex'
         /\ Callback' /\ Unbound' /\ PoweredOff' /\ Paths'
    BY <2>1, ModemTypesKept, ThreadTypesKept, PlaceTypesKept, BudgetTypesKept, MutexKept,
      CallbackKept, UnboundKept, PoweredOffKept, PathsKept, Zenon DEF PmInv
  <2>3. HostTypes'
    BY <1>1, Trysets DEF PmInv, HostTypes, ModemTypes, mhi_one_msi_handlr, IntvecPm, IntvecSew,
      IntvecFatal, IntvecDetects, PmStates, L0, ErrorStates, InPBL, ChanEEs, RegAccess,
      MhiStates, Environments, Modems
  <2>4. FlagTypes'
    BY <1>1, Zenon DEF PmInv, FlagTypes, mhi_one_msi_handlr, IntvecPm, IntvecSew, IntvecFatal,
      IntvecDetects
  <2>5. Forbidden'
    BY <1>1, Zenon DEF PmInv, Forbidden, ThreadTypes, Unbound, Callback, mhi_one_msi_handlr, IntvecPm,
      IntvecSew, IntvecFatal, IntvecDetects, Callers, disv, lifev
  <2>6. InError'
    BY <1>1, Trysets, Zenon DEF PmInv, InError, Forbidden, HostTypes, PoweredOff, Unbound, ThreadTypes,
      SuspendedMeansM3, Callback, mhi_one_msi_handlr, IntvecPm, IntvecSew, IntvecFatal,
      IntvecDetects, ErrorStates, Callers, PmStates, L0, disv, lifev
  <2>7. Entering'
    BY <1>1, Trysets, Zenon DEF PmInv, Entering, HostTypes, Callback, Mutex, ThreadTypes,
      mhi_one_msi_handlr, IntvecPm, IntvecSew, IntvecFatal, IntvecDetects, ErrorStates, Callers,
      PmStates, L0, disv
  <2>8. SuspendedMeansM3'
    BY <1>1, Trysets, Zenon DEF PmInv, SuspendedMeansM3, InError, Entering, HostTypes, PoweredOff,
      Unbound, Callback, ThreadTypes, mhi_one_msi_handlr, IntvecPm, IntvecSew, IntvecFatal,
      IntvecDetects, ErrorStates, Callers, PmStates, L0, disv, lifev
  <2>9. Left'
    <3>1. UNCHANGED <<bnd, dev, dis>>
      BY <1>1, Zenon DEF mhi_one_msi_handlr, disv, lifev
    <3>2. (pm' = pm /\ (sew => sew')) \/ (IntvecDetects /\ (sew' \/ IntvecFatal))
      BY <1>1, Zenon DEF mhi_one_msi_handlr, IntvecPm, IntvecSew
    <3>3. IntvecFatal => Parked
      BY Zenon DEF PmInv, Left, Parked, IntvecFatal, IntvecDetects, InPBL
    <3> QED BY <3>1, <3>2, <3>3, Zenon DEF PmInv, Left, Owned, Parked
  <2> QED BY <2>1, <2>2, <2>3, <2>4, <2>5, <2>6, <2>7, <2>8, <2>9, Zenon DEF PmInv
<1>2. CASE mhi_ctrl_ev_task
  <2>1. UNCHANGED <<pm, dst, ee, dev, sew, dis, mtx, on, bnd, rpm, auto, pmc, cl, xp, faults, cycles>>
    BY <1>2, Zenon DEF mhi_ctrl_ev_task, hostv, workv, disv, lifev, rpmv, clv, budv
  <2>2. /\ HostTypes' /\ ModemTypes' /\ ThreadTypes' /\ BudgetTypes' /\ Mutex'
         /\ Callback' /\ Unbound' /\ PoweredOff' /\ Forbidden' /\ InError' /\ Entering'
         /\ SuspendedMeansM3' /\ Left' /\ Paths'
    BY <2>1, HostTypesKept, ModemTypesKept, ThreadTypesKept, BudgetTypesKept, MutexKept,
      CallbackKept, UnboundKept, PoweredOffKept, ForbiddenKept, InErrorKept, EnteringKept,
      SuspendedMeansM3Kept, LeftKept, PathsKept, Zenon DEF PmInv
  <2>3. PlaceTypes'
    BY <1>2, Zenon DEF PmInv, PlaceTypes, mhi_ctrl_ev_task, workv, lifev, rpmv
  <2>4. FlagTypes'
    BY <1>2, Zenon DEF PmInv, FlagTypes, mhi_ctrl_ev_task, workv
  <2> QED BY <2>1, <2>2, <2>3, <2>4, Zenon DEF PmInv
<1>3. CASE mhi_process_ctrl_ev_ring
  <2>1. UNCHANGED <<dis, mtx, on, bnd, rpm, auto, pmc, cl, xp, faults, cycles>>
    BY <1>3, Zenon DEF mhi_process_ctrl_ev_ring, mhi_pm_m0_transition, mhi_pm_m1_transition,
      mhi_pm_m3_transition, QueueTransition, disv, lifev, rpmv, clv, budv
  <2>2. /\ ThreadTypes' /\ BudgetTypes' /\ Mutex' /\ Callback' /\ Unbound' /\ PoweredOff'
         /\ Forbidden' /\ Paths'
    BY <2>1, ThreadTypesKept, BudgetTypesKept, MutexKept, CallbackKept, UnboundKept,
      PoweredOffKept, ForbiddenKept, PathsKept, Zenon DEF PmInv
  <2>3. HostTypes'
    BY <1>3, Trysets DEF PmInv, HostTypes, ModemTypes, mhi_process_ctrl_ev_ring, SetState,
      mhi_pm_m0_transition, mhi_pm_m1_transition, mhi_pm_m3_transition, QueueTransition,
      PmStates, L0, ErrorStates, InPBL, ChanEEs, RegAccess, MhiStates, Environments, Modems
  <2>4. ModemTypes'
    BY <1>3, ModemSets, Zenon DEF PmInv, ModemTypes, mhi_process_ctrl_ev_ring,
      mhi_pm_m0_transition, mhi_pm_m1_transition, mhi_pm_m3_transition, QueueTransition
  <2>5. PlaceTypes'
    BY <1>3, Zenon DEF PmInv, PlaceTypes, mhi_process_ctrl_ev_ring, SetState,
      mhi_pm_m0_transition, mhi_pm_m1_transition, mhi_pm_m3_transition, QueueTransition, lifev,
      rpmv
  <2>6. FlagTypes'
    BY <1>3, Zenon DEF PmInv, FlagTypes, mhi_process_ctrl_ev_ring, SetState,
      mhi_pm_m0_transition, mhi_pm_m1_transition, mhi_pm_m3_transition, QueueTransition
  <2>7. InError'
    BY <1>3, Trysets, Zenon DEF PmInv, InError, Forbidden, HostTypes, PoweredOff, Unbound, ThreadTypes,
      SuspendedMeansM3, Callback, mhi_process_ctrl_ev_ring, SetState, mhi_pm_m0_transition,
      mhi_pm_m1_transition, mhi_pm_m3_transition, QueueTransition, ErrorStates, Callers,
      PmStates, L0, disv, lifev, rpmv
  <2>8. Entering'
    BY <1>3, Trysets DEF PmInv, Entering, HostTypes, Callback, Mutex, ThreadTypes,
      mhi_process_ctrl_ev_ring, SetState, mhi_pm_m0_transition, mhi_pm_m1_transition,
      mhi_pm_m3_transition, QueueTransition, ErrorStates, Callers, PmStates, L0, disv, rpmv
  <2>9. SuspendedMeansM3'
    BY <1>3, Trysets DEF PmInv, SuspendedMeansM3, InError, Entering, HostTypes, PoweredOff,
      Unbound, Callback, ThreadTypes, mhi_process_ctrl_ev_ring, SetState, mhi_pm_m0_transition,
      mhi_pm_m1_transition, mhi_pm_m3_transition, QueueTransition, ErrorStates, Callers,
      PmStates, L0, disv, lifev, rpmv
  <2>10. Left'
    <3>1. UNCHANGED <<bnd, dis>>
      BY <1>3, Zenon DEF mhi_process_ctrl_ev_ring, disv, lifev
    <3>5. sew => sew'
      BY <1>3, Zenon DEF mhi_process_ctrl_ev_ring
    <3>2. (pm' = "SYS_ERR_DETECT" => sew' \/ pm = "SYS_ERR_DETECT") /\ (dev' = dev \/ pm' = "M2")
      BY <1>3, Trysets, Zenon DEF PmInv, HostTypes, mhi_process_ctrl_ev_ring, mhi_pm_m0_transition,
         mhi_pm_m1_transition, mhi_pm_m3_transition
    <3>3. dev'.st = dev.st /\ dev'.ee = dev.ee
      BY <1>3, Zenon DEF PmInv, ModemTypes, Modems, mhi_process_ctrl_ev_ring, mhi_pm_m0_transition,
         mhi_pm_m1_transition, mhi_pm_m3_transition, SetState
    <3>4. pm' = "SYS_ERR_DETECT" => sew' \/ (pm = "SYS_ERR_DETECT" /\ dev' = dev)
      BY <3>2, Zenon
    <3> QED BY <3>1, <3>3, <3>4, <3>5, Zenon DEF PmInv, Left, Owned, Parked
  <2> QED BY <2>1, <2>2, <2>3, <2>4, <2>5, <2>6, <2>7, <2>8, <2>9, <2>10, Zenon DEF PmInv
<1>4. CASE CtrlEvEnd
  <2>1. UNCHANGED <<dev, dis, mtx, on, bnd, rpm, auto, pmc, cl, xp, faults, cycles>>
    BY <1>4, Zenon DEF CtrlEvEnd, disv, lifev, rpmv, clv, budv
  <2>2. /\ ModemTypes' /\ ThreadTypes' /\ BudgetTypes' /\ Mutex' /\ Callback' /\ Unbound'
         /\ PoweredOff' /\ Forbidden' /\ Paths'
    BY <2>1, ModemTypesKept, ThreadTypesKept, BudgetTypesKept, MutexKept, CallbackKept,
      UnboundKept, PoweredOffKept, ForbiddenKept, PathsKept, Zenon DEF PmInv
  <2>3. HostTypes'
    BY <1>4, Trysets DEF PmInv, HostTypes, ModemTypes, CtrlEvEnd, PmStates, L0, ErrorStates,
      InPBL, ChanEEs, RegAccess, MhiStates, Environments, Modems
  <2>4. PlaceTypes'
    BY <1>4, Zenon DEF PmInv, PlaceTypes, CtrlEvEnd, lifev, rpmv
  <2>5. FlagTypes'
    BY <1>4, Zenon DEF PmInv, FlagTypes, CtrlEvEnd
  <2>6. InError'
    BY <1>4, Trysets, Zenon DEF PmInv, InError, Forbidden, HostTypes, PoweredOff, Unbound, ThreadTypes,
      SuspendedMeansM3, Callback, CtrlEvEnd, ErrorStates, Callers, PmStates, L0, disv, lifev,
      rpmv
  <2>7. Entering'
    BY <1>4, Trysets, Zenon DEF PmInv, Entering, HostTypes, Callback, Mutex, ThreadTypes, CtrlEvEnd,
      ErrorStates, Callers, PmStates, L0, disv, rpmv
  <2>8. SuspendedMeansM3'
    BY <1>4, Trysets, Zenon DEF PmInv, SuspendedMeansM3, InError, Entering, HostTypes, PoweredOff,
      Unbound, Callback, ThreadTypes, CtrlEvEnd, ErrorStates, Callers, PmStates, L0, disv,
      lifev, rpmv
  <2>9. Left'
    BY <1>4, Trysets, Zenon DEF PmInv, Left, HostTypes, ModemTypes, ThreadTypes, Unbound, Parked,
      Owned, CtrlEvEnd, InPBL, ChanEEs, Callers, Stages, Modems, Environments, RegAccess,
      PmStates, L0, ErrorStates, disv, lifev, rpmv
  <2> QED BY <2>1, <2>2, <2>3, <2>4, <2>5, <2>6, <2>7, <2>8, <2>9, Zenon DEF PmInv
<1> QED BY <1>1, <1>2, <1>3, <1>4, Zenon DEF EventStep

\* The ready poll and st_worker.
LEMMA WorkStepKeeps == ASSUME PmInv, WorkStep PROVE PmInv'
<1>1. CASE mhi_pm_ready_worker
  <2>1. UNCHANGED <<pm, dst, ee, dev, tsk, stw, sew, dis, mtx, chd, on, bnd, rpm, auto, pmc, cl, xp, faults, cycles>>
    BY <1>1, Zenon DEF mhi_pm_ready_worker, ReadyWorkerBody, QueueTransition, hostv, evv, disv,
      lifev, rpmv, clv, budv
  <2>2. /\ HostTypes' /\ ModemTypes' /\ ThreadTypes' /\ PlaceTypes' /\ BudgetTypes'
         /\ Mutex' /\ Callback' /\ Unbound' /\ PoweredOff' /\ Forbidden' /\ InError'
         /\ Entering' /\ SuspendedMeansM3' /\ Left' /\ Paths'
    BY <2>1, HostTypesKept, ModemTypesKept, ThreadTypesKept, PlaceTypesKept, BudgetTypesKept,
      MutexKept, CallbackKept, UnboundKept, PoweredOffKept, ForbiddenKept, InErrorKept,
      EnteringKept, SuspendedMeansM3Kept, LeftKept, PathsKept, Zenon DEF PmInv
  <2>3. FlagTypes'
    BY <1>1, Zenon DEF PmInv, FlagTypes, mhi_pm_ready_worker, ReadyWorkerBody, QueueTransition,
      evv
  <2> QED BY <2>1, <2>2, <2>3, Zenon DEF PmInv
<1>2. CASE mhi_pm_st_worker
  <2>1. UNCHANGED <<pm, dst, irq, tks, rw, sew, dis, mtx, on, bnd, rpm, auto, pmc, cl, xp, faults, cycles>>
    BY <1>2, Zenon DEF mhi_pm_st_worker, evv, disv, lifev, clv, budv
  <2>2. /\ ThreadTypes' /\ FlagTypes' /\ BudgetTypes' /\ Mutex' /\ Callback' /\ Unbound'
         /\ PoweredOff' /\ Forbidden' /\ InError' /\ Entering' /\ SuspendedMeansM3'
         /\ Paths'
    BY <2>1, ThreadTypesKept, FlagTypesKept, BudgetTypesKept, MutexKept, CallbackKept,
      UnboundKept, PoweredOffKept, ForbiddenKept, InErrorKept, EnteringKept,
      SuspendedMeansM3Kept, PathsKept, Zenon DEF PmInv
  <2>3. HostTypes'
    BY <1>2, Trysets DEF PmInv, HostTypes, ModemTypes, mhi_pm_st_worker, Waken, PmStates, L0,
      ErrorStates, InPBL, ChanEEs, RegAccess, MhiStates, Environments, Modems
  <2>4. ModemTypes'
    BY <1>2, ModemSets, Zenon DEF PmInv, ModemTypes, mhi_pm_st_worker
  <2>5. PlaceTypes'
    BY <1>2, Zenon DEF PmInv, PlaceTypes, mhi_pm_st_worker, Waken, evv, lifev
  <2>6. Left'
    BY <1>2, Trysets DEF PmInv, Left, HostTypes, ModemTypes, ThreadTypes, Unbound, Parked,
      Owned, mhi_pm_st_worker, Waken, InPBL, ChanEEs, Callers, Stages, Modems, Environments,
      RegAccess, PmStates, L0, ErrorStates, disv, lifev
  <2> QED BY <2>1, <2>2, <2>3, <2>4, <2>5, <2>6, Zenon DEF PmInv
<1>3. CASE StReady
  <2>1. UNCHANGED <<irq, tks, rw, sew, dis, mtx, on, bnd, rpm, auto, pmc, cl, xp, faults, cycles>>
    BY <1>3, Zenon DEF StReady, StRest, ReadyDone, evv, disv, rpmv, clv
  <2>2. /\ ThreadTypes' /\ FlagTypes' /\ BudgetTypes' /\ Mutex' /\ Callback' /\ Unbound'
         /\ PoweredOff' /\ Forbidden' /\ Paths'
    BY <2>1, ThreadTypesKept, FlagTypesKept, BudgetTypesKept, MutexKept, CallbackKept,
      UnboundKept, PoweredOffKept, ForbiddenKept, PathsKept, Zenon DEF PmInv
  <2>3. HostTypes'
    BY <1>3, Trysets DEF PmInv, HostTypes, ModemTypes, StReady, SetState, StRest, ReadyDone,
      ReadySeen, ReadyFails, PmStates, L0, ErrorStates, InPBL, ChanEEs, RegAccess, MhiStates,
      Environments, Modems
  <2>4. ModemTypes'
    BY <1>3, ModemSets, Zenon DEF PmInv, ModemTypes, StReady, StRest, ReadyDone, ReadySeen,
      ReadyFails
  <2>5. PlaceTypes'
    BY <1>3, Zenon DEF PmInv, PlaceTypes, StReady, SetState, StRest, ReadyDone, ReadySeen,
      ReadyFails, evv, rpmv
  <2>6. InError'
    BY <1>3, Trysets, Zenon DEF PmInv, InError, Forbidden, HostTypes, PoweredOff, Unbound, ThreadTypes,
      SuspendedMeansM3, Callback, StReady, SetState, StRest, ReadyDone, ReadySeen, ReadyFails,
      ErrorStates, Callers, PmStates, L0, disv, rpmv
  <2>7. Entering'
    BY <1>3, Trysets, Zenon DEF PmInv, Entering, HostTypes, Callback, Mutex, ThreadTypes, StReady,
      SetState, StRest, ReadyDone, ReadySeen, ReadyFails, ErrorStates, Callers, PmStates, L0,
      disv, rpmv
  <2>8. SuspendedMeansM3'
    BY <1>3, Trysets, Zenon DEF PmInv, SuspendedMeansM3, InError, Entering, HostTypes, PoweredOff,
      Unbound, Callback, ThreadTypes, StReady, SetState, StRest, ReadyDone, ReadySeen,
      ReadyFails, ErrorStates, Callers, PmStates, L0, disv, rpmv
  <2>9. Left'
    BY <1>3, Trysets DEF PmInv, Left, HostTypes, ModemTypes, ThreadTypes, Unbound, Parked,
      Owned, StReady, SetState, StRest, ReadyDone, ReadySeen, ReadyFails, InPBL, ChanEEs,
      Callers, Stages, Modems, Environments, RegAccess, PmStates, L0, ErrorStates, disv, rpmv
  <2> QED BY <2>1, <2>2, <2>3, <2>4, <2>5, <2>6, <2>7, <2>8, <2>9, Zenon DEF PmInv
<1>4. CASE MissionWait
  <2>1. UNCHANGED <<pm, dst, ee, dev, irq, tks, rw, sew, dis, mtx, on, bnd, rpm, auto, pmc, cl, xp, faults, cycles>>
    BY <1>4, Zenon DEF MissionWait, StRest, hostv, evv, disv, rpmv, clv
  <2>2. /\ HostTypes' /\ ModemTypes' /\ ThreadTypes' /\ FlagTypes' /\ BudgetTypes'
         /\ Mutex' /\ Callback' /\ Unbound' /\ PoweredOff' /\ Forbidden' /\ InError'
         /\ Entering' /\ SuspendedMeansM3' /\ Left' /\ Paths'
    BY <2>1, HostTypesKept, ModemTypesKept, ThreadTypesKept, FlagTypesKept, BudgetTypesKept,
      MutexKept, CallbackKept, UnboundKept, PoweredOffKept, ForbiddenKept, InErrorKept,
      EnteringKept, SuspendedMeansM3Kept, LeftKept, PathsKept, Zenon DEF PmInv
  <2>3. PlaceTypes'
    BY <1>4, Zenon DEF PmInv, PlaceTypes, MissionWait, StRest, evv, rpmv
  <2> QED BY <2>1, <2>2, <2>3, Zenon DEF PmInv
<1>5. CASE mhi_pm_mission_mode_transition
  <2>1. UNCHANGED <<pm, dst, dev, irq, tks, rw, sew, dis, mtx, on, bnd, rpm, auto, pmc, cl, xp, faults, cycles>>
    BY <1>5, Zenon DEF mhi_pm_mission_mode_transition, StRest, evv, disv, rpmv, clv
  <2>2. /\ ModemTypes' /\ ThreadTypes' /\ FlagTypes' /\ BudgetTypes' /\ Mutex'
         /\ Callback' /\ Unbound' /\ PoweredOff' /\ Forbidden' /\ InError' /\ Entering'
         /\ SuspendedMeansM3' /\ Left' /\ Paths'
    BY <2>1, ModemTypesKept, ThreadTypesKept, FlagTypesKept, BudgetTypesKept, MutexKept,
      CallbackKept, UnboundKept, PoweredOffKept, ForbiddenKept, InErrorKept, EnteringKept,
      SuspendedMeansM3Kept, LeftKept, PathsKept, Zenon DEF PmInv
  <2>3. HostTypes'
    BY <1>5, Trysets DEF PmInv, HostTypes, ModemTypes, mhi_pm_mission_mode_transition, StRest,
      PmStates, L0, ErrorStates, InPBL, ChanEEs, RegAccess, MhiStates, Environments, Modems
  <2>4. PlaceTypes'
    BY <1>5, Zenon DEF PmInv, PlaceTypes, mhi_pm_mission_mode_transition, StRest, evv, rpmv
  <2> QED BY <2>1, <2>2, <2>3, <2>4, Zenon DEF PmInv
<1>6. CASE mhi_create_devices
  <2>1. UNCHANGED <<pm, dst, ee, dev, irq, tks, rw, sew, dis, mtx, on, bnd, rpm, auto, pmc, cl, xp, faults, cycles>>
    BY <1>6, Zenon DEF mhi_create_devices, StRest, hostv, evv, disv, rpmv, clv
  <2>2. /\ HostTypes' /\ ModemTypes' /\ ThreadTypes' /\ FlagTypes' /\ BudgetTypes'
         /\ Mutex' /\ Callback' /\ Unbound' /\ PoweredOff' /\ Forbidden' /\ InError'
         /\ Entering' /\ SuspendedMeansM3' /\ Left' /\ Paths'
    BY <2>1, HostTypesKept, ModemTypesKept, ThreadTypesKept, FlagTypesKept, BudgetTypesKept,
      MutexKept, CallbackKept, UnboundKept, PoweredOffKept, ForbiddenKept, InErrorKept,
      EnteringKept, SuspendedMeansM3Kept, LeftKept, PathsKept, Zenon DEF PmInv
  <2>3. PlaceTypes'
    BY <1>6, Zenon DEF PmInv, PlaceTypes, mhi_create_devices, StRest, evv, rpmv
  <2> QED BY <2>1, <2>2, <2>3, Zenon DEF PmInv
<1> QED BY <1>1, <1>2, <1>3, <1>4, <1>5, <1>6, Zenon DEF WorkStep

\* The disable transition of the system-error worker and of the power-down.
LEMMA DisableStepKeeps == ASSUME PmInv, DisableStep PROVE PmInv'
<1>1. CASE mhi_pm_sys_err_worker
  <2>1. UNCHANGED <<pm, dst, ee, dev, tsk, stw, chd, on, rpm, pmc, cl, xp, faults, cycles>>
    BY <1>1, Zenon DEF mhi_pm_sys_err_worker, Goto, hostv, evv, lifev, rpmv, clv, budv
  <2>2. /\ HostTypes' /\ ModemTypes' /\ PlaceTypes' /\ BudgetTypes' /\ Callback'
         /\ InError' /\ Entering' /\ SuspendedMeansM3' /\ Paths'
    BY <2>1, HostTypesKept, ModemTypesKept, PlaceTypesKept, BudgetTypesKept, CallbackKept,
      InErrorKept, EnteringKept, SuspendedMeansM3Kept, PathsKept, Zenon DEF PmInv
  <2>3. ThreadTypes'
    BY <1>1, Zenon DEF PmInv, ThreadTypes, mhi_pm_sys_err_worker, Goto, Callers, Stages
  <2>4. FlagTypes'
    BY <1>1, Zenon DEF PmInv, FlagTypes, mhi_pm_sys_err_worker, Goto, evv
  <2>5. Mutex'
    BY <1>1, Zenon DEF PmInv, Mutex, ThreadTypes, mhi_pm_sys_err_worker, Goto, Callers, rpmv
  <2>6. Unbound'
    BY <1>1, Zenon DEF PmInv, Unbound, ThreadTypes, Callback, mhi_pm_sys_err_worker, Goto, Callers,
      lifev, rpmv
  <2>7. PoweredOff'
    BY <1>1, Zenon DEF PmInv, PoweredOff, Unbound, ThreadTypes, mhi_pm_sys_err_worker, Goto, Callers,
      lifev, rpmv
  <2>8. Forbidden'
    BY <1>1, Zenon DEF PmInv, Forbidden, ThreadTypes, Unbound, Callback, mhi_pm_sys_err_worker, Goto,
      Callers, lifev, rpmv
  <2>9. Left'
    BY <1>1, Trysets, Zenon DEF PmInv, Left, HostTypes, ModemTypes, ThreadTypes, Unbound, Parked,
      Owned, mhi_pm_sys_err_worker, Goto, InPBL, ChanEEs, Callers, Stages, Modems, Environments,
      RegAccess, PmStates, L0, ErrorStates, hostv, lifev, rpmv
  <2> QED BY <2>1, <2>2, <2>3, <2>4, <2>5, <2>6, <2>7, <2>8, <2>9, Zenon DEF PmInv
<1>2. CASE mhi_status_cb
  <2>1. UNCHANGED <<pm, dst, ee, dev, irq, tks, tsk, stw, rw, sew, chd, on, rpm, pmc, cl, xp, faults, cycles>>
    BY <1>2, Zenon DEF mhi_status_cb, Goto, hostv, evv, workv, lifev, clv, budv
  <2>2. /\ HostTypes' /\ ModemTypes' /\ PlaceTypes' /\ FlagTypes' /\ BudgetTypes'
         /\ Callback' /\ InError' /\ Entering' /\ SuspendedMeansM3' /\ Paths'
    BY <2>1, HostTypesKept, ModemTypesKept, PlaceTypesKept, FlagTypesKept, BudgetTypesKept,
      CallbackKept, InErrorKept, EnteringKept, SuspendedMeansM3Kept, PathsKept, Zenon DEF PmInv
  <2>3. ThreadTypes'
    BY <1>2, Zenon DEF PmInv, ThreadTypes, mhi_status_cb, Goto, RpmSettled, Callers, Stages
  <2>4. Mutex'
    BY <1>2, Zenon DEF PmInv, Mutex, ThreadTypes, mhi_status_cb, Goto, RpmSettled, Callers
  <2>5. Unbound'
    BY <1>2, Zenon DEF PmInv, Unbound, ThreadTypes, Callback, mhi_status_cb, Goto, RpmSettled, Callers,
      lifev
  <2>6. PoweredOff'
    BY <1>2, Zenon DEF PmInv, PoweredOff, Unbound, ThreadTypes, mhi_status_cb, Goto, RpmSettled,
      Callers, lifev
  <2>7. Forbidden'
    BY <1>2, Zenon DEF PmInv, Forbidden, ThreadTypes, Unbound, Callback, mhi_status_cb, Goto,
      RpmSettled, Callers, lifev
  <2>8. Left'
    BY <1>2, Trysets, Zenon DEF PmInv, Left, HostTypes, ModemTypes, ThreadTypes, Unbound, Parked,
      Owned, mhi_status_cb, Goto, RpmSettled, InPBL, ChanEEs, Callers, Stages, Modems,
      Environments, RegAccess, PmStates, L0, ErrorStates, hostv, workv, lifev
  <2> QED BY <2>1, <2>2, <2>3, <2>4, <2>5, <2>6, <2>7, <2>8, Zenon DEF PmInv
<1>3. CASE DisReady
  <2>1. UNCHANGED <<irq, tks, tsk, stw, rw, sew, chd, rpm, pmc, cl, xp, faults, cycles>>
    BY <1>3, Zenon DEF DisReady, DisRest, Goto, ReadyDone, rpmv
  <2>2. /\ PlaceTypes' /\ FlagTypes' /\ BudgetTypes' /\ Callback' /\ Paths'
    BY <2>1, PlaceTypesKept, FlagTypesKept, BudgetTypesKept, CallbackKept, PathsKept,
      Zenon DEF PmInv
  <2>3. HostTypes'
    BY <1>3, Trysets, Zenon DEF PmInv, HostTypes, ModemTypes, DisReady, SetState, DisRest, Goto,
      ReadyDone, ReadySeen, ReadyFails, PmStates, L0, ErrorStates, InPBL, ChanEEs, RegAccess,
      MhiStates, Environments, Modems
  <2>4. ModemTypes'
    BY <1>3, ModemSets, Zenon DEF PmInv, ModemTypes, DisReady, DisRest, Goto, ReadyDone,
      ReadySeen, ReadyFails
  <2>5. ThreadTypes'
    BY <1>3, Zenon DEF PmInv, ThreadTypes, DisReady, SetState, DisRest, Goto, ReadyDone, ReadySeen,
      ReadyFails, Callers, Stages
  <2>6. Mutex'
    BY <1>3, Zenon DEF PmInv, Mutex, ThreadTypes, DisReady, SetState, DisRest, Goto, ReadyDone,
      ReadySeen, ReadyFails, Callers, rpmv
  <2>7. Unbound'
    BY <1>3, Zenon DEF PmInv, Unbound, ThreadTypes, Callback, DisReady, SetState, DisRest, Goto,
      ReadyDone, ReadySeen, ReadyFails, Callers, rpmv
  <2>8. PoweredOff'
    BY <1>3, Zenon DEF PmInv, PoweredOff, Unbound, ThreadTypes, DisReady, SetState, DisRest, Goto,
      ReadyDone, ReadySeen, ReadyFails, Callers, rpmv
  <2>9. Forbidden'
    BY <1>3, Zenon DEF PmInv, Forbidden, ThreadTypes, Unbound, Callback, DisReady, SetState, DisRest,
      Goto, ReadyDone, ReadySeen, ReadyFails, Callers, rpmv
  <2>10. InError'
    BY <1>3, Trysets, Zenon DEF PmInv, InError, Forbidden, HostTypes, PoweredOff, Unbound, ThreadTypes,
      SuspendedMeansM3, Callback, DisReady, SetState, DisRest, Goto, ReadyDone, ReadySeen,
      ReadyFails, ErrorStates, Callers, PmStates, L0, rpmv
  <2>11. Entering'
    BY <1>3, Trysets, Zenon DEF PmInv, Entering, HostTypes, Callback, Mutex, ThreadTypes, DisReady,
      SetState, DisRest, Goto, ReadyDone, ReadySeen, ReadyFails, ErrorStates, Callers, PmStates,
      L0, rpmv
  <2>12. SuspendedMeansM3'
    BY <1>3, Trysets, Zenon DEF PmInv, SuspendedMeansM3, InError, Entering, HostTypes, PoweredOff,
      Unbound, Callback, ThreadTypes, DisReady, SetState, DisRest, Goto, ReadyDone, ReadySeen,
      ReadyFails, ErrorStates, Callers, PmStates, L0, rpmv
  <2>13. Left'
    BY <1>3, Trysets DEF PmInv, Left, HostTypes, ModemTypes, ThreadTypes, Unbound, Parked,
      Owned, DisReady, SetState, DisRest, Goto, ReadyDone, ReadySeen, ReadyFails, InPBL,
      ChanEEs, Callers, Stages, Modems, Environments, RegAccess, PmStates, L0, ErrorStates, rpmv
  <2> QED BY <2>1, <2>2, <2>3, <2>4, <2>5, <2>6, <2>7, <2>8, <2>9, <2>10, <2>11, <2>12, <2>13, Zenon DEF PmInv
<1>4. ASSUME NEW w \in Callers, DisEnter(w) PROVE PmInv'
  <2>1. UNCHANGED <<irq, tks, tsk, stw, rw, sew, chd, rpm, pmc, cl, xp, faults, cycles>>
    BY <1>4, Zenon DEF DisEnter, DisRest, Goto, hostv, rpmv
  <2>2. /\ PlaceTypes' /\ FlagTypes' /\ BudgetTypes' /\ Callback' /\ Paths'
    BY <2>1, PlaceTypesKept, FlagTypesKept, BudgetTypesKept, CallbackKept, PathsKept,
      Zenon DEF PmInv
  <2>3. HostTypes'
    BY <1>4, Trysets, Zenon DEF PmInv, HostTypes, ModemTypes, DisEnter, SetState, DisRest, Goto, Goal,
      After, PmStates, L0, ErrorStates, InPBL, ChanEEs, RegAccess, MhiStates, Environments,
      Modems, hostv
  <2>4. ModemTypes'
    BY <1>4, ModemSets, Zenon DEF PmInv, ModemTypes, DisEnter, DisRest, Goto, Goal, After
  <2>5. ThreadTypes'
    BY <1>4 DEF PmInv, ThreadTypes, DisEnter, SetState, DisRest, Goto, Goal, After, Callers,
      Stages
  <2>6. Mutex'
    BY <1>4, Zenon DEF PmInv, Mutex, ThreadTypes, DisEnter, SetState, DisRest, Goto, Goal, After,
      Callers, rpmv
  <2>7. Unbound'
    BY <1>4, Zenon DEF PmInv, Unbound, ThreadTypes, Callback, DisEnter, SetState, DisRest, Goto, Goal,
      After, Callers, rpmv
  <2>8. PoweredOff'
    BY <1>4, Zenon DEF PmInv, PoweredOff, Unbound, ThreadTypes, DisEnter, SetState, DisRest, Goto,
      Goal, After, Callers, rpmv
  <2>9. Forbidden'
    BY <1>4, Zenon DEF PmInv, Forbidden, ThreadTypes, Unbound, Callback, DisEnter, SetState, DisRest,
      Goto, Goal, After, Callers, rpmv
  <2>10. InError'
    BY <1>4, Trysets, Zenon DEF PmInv, InError, Forbidden, HostTypes, PoweredOff, Unbound, ThreadTypes,
      SuspendedMeansM3, Callback, DisEnter, SetState, DisRest, Goto, Goal, After, ErrorStates,
      Callers, PmStates, L0, hostv, rpmv
  <2>11. Entering'
    BY <1>4, Trysets, Zenon DEF PmInv, Entering, HostTypes, Callback, Mutex, ThreadTypes, DisEnter,
      SetState, DisRest, Goto, Goal, After, ErrorStates, Callers, PmStates, L0, hostv, rpmv
  <2>12. SuspendedMeansM3'
    BY <1>4, Trysets, Zenon DEF PmInv, SuspendedMeansM3, InError, Entering, HostTypes, PoweredOff,
      Unbound, Callback, ThreadTypes, DisEnter, SetState, DisRest, Goto, Goal, After,
      ErrorStates, Callers, PmStates, L0, hostv, rpmv
  <2>13. Left'
    BY <1>4, Trysets DEF PmInv, Left, HostTypes, ModemTypes, ThreadTypes, Unbound, Parked,
      Owned, DisEnter, SetState, DisRest, Goto, Goal, After, InPBL, ChanEEs, Callers, Stages,
      Modems, Environments, RegAccess, PmStates, L0, ErrorStates, hostv, rpmv
  <2> QED BY <2>1, <2>2, <2>3, <2>4, <2>5, <2>6, <2>7, <2>8, <2>9, <2>10, <2>11, <2>12, <2>13, Zenon DEF PmInv
<1>5. ASSUME NEW w \in Callers, DisReset(w) PROVE PmInv'
  <2>1. UNCHANGED <<pm, dst, ee, dev, irq, tks, tsk, stw, rw, sew, chd, on, rpm, pmc, cl, xp, faults, cycles>>
    BY <1>5, Zenon DEF DisReset, DisRest, Goto, hostv, rpmv
  <2>2. /\ HostTypes' /\ ModemTypes' /\ PlaceTypes' /\ FlagTypes' /\ BudgetTypes'
         /\ Callback' /\ InError' /\ Entering' /\ SuspendedMeansM3' /\ Paths'
    BY <2>1, HostTypesKept, ModemTypesKept, PlaceTypesKept, FlagTypesKept, BudgetTypesKept,
      CallbackKept, InErrorKept, EnteringKept, SuspendedMeansM3Kept, PathsKept, Zenon DEF PmInv
  <2>3. ThreadTypes'
    BY <1>5 DEF PmInv, ThreadTypes, DisReset, DisRest, Goto, Callers, Stages
  <2>4. Mutex'
    BY <1>5, Zenon DEF PmInv, Mutex, ThreadTypes, DisReset, DisRest, Goto, Callers, rpmv
  <2>5. Unbound'
    BY <1>5, Zenon DEF PmInv, Unbound, ThreadTypes, Callback, DisReset, DisRest, Goto, Callers, rpmv
  <2>6. PoweredOff'
    BY <1>5, Zenon DEF PmInv, PoweredOff, Unbound, ThreadTypes, DisReset, DisRest, Goto, Callers, rpmv
  <2>7. Forbidden'
    BY <1>5, Zenon DEF PmInv, Forbidden, ThreadTypes, Unbound, Callback, DisReset, DisRest, Goto,
      Callers, rpmv
  <2>8. Left'
    BY <1>5, Trysets, Zenon DEF PmInv, Left, HostTypes, ModemTypes, ThreadTypes, Unbound, Parked,
      Owned, DisReset, DisRest, Goto, InPBL, ChanEEs, Callers, Stages, Modems, Environments,
      RegAccess, PmStates, L0, ErrorStates, hostv, rpmv
  <2> QED BY <2>1, <2>2, <2>3, <2>4, <2>5, <2>6, <2>7, <2>8, Zenon DEF PmInv
<1>6. ASSUME NEW w \in Callers, DisKill(w) PROVE PmInv'
  <2>1. UNCHANGED <<pm, dst, ee, dev, irq, tks, tsk, stw, rw, sew, chd, on, rpm, pmc, cl, xp, faults, cycles>>
    BY <1>6, Zenon DEF DisKill, DisRest, Goto, hostv, rpmv
  <2>2. /\ HostTypes' /\ ModemTypes' /\ PlaceTypes' /\ FlagTypes' /\ BudgetTypes'
         /\ Callback' /\ InError' /\ Entering' /\ SuspendedMeansM3' /\ Paths'
    BY <2>1, HostTypesKept, ModemTypesKept, PlaceTypesKept, FlagTypesKept, BudgetTypesKept,
      CallbackKept, InErrorKept, EnteringKept, SuspendedMeansM3Kept, PathsKept, Zenon DEF PmInv
  <2>3. ThreadTypes'
    BY <1>6, Zenon DEF PmInv, ThreadTypes, DisKill, DisRest, Goto, Callers, Stages
  <2>4. Mutex'
    BY <1>6, Zenon DEF PmInv, Mutex, ThreadTypes, DisKill, DisRest, Goto, Callers, rpmv
  <2>5. Unbound'
    BY <1>6, Zenon DEF PmInv, Unbound, ThreadTypes, Callback, DisKill, DisRest, Goto, Callers, rpmv
  <2>6. PoweredOff'
    BY <1>6, Zenon DEF PmInv, PoweredOff, Unbound, ThreadTypes, DisKill, DisRest, Goto, Callers, rpmv
  <2>7. Forbidden'
    BY <1>6, Zenon DEF PmInv, Forbidden, ThreadTypes, Unbound, Callback, DisKill, DisRest, Goto,
      Callers, rpmv
  <2>8. Left'
    BY <1>6, Trysets, Zenon DEF PmInv, Left, HostTypes, ModemTypes, ThreadTypes, Unbound, Parked,
      Owned, DisKill, DisRest, Goto, InPBL, ChanEEs, Callers, Stages, Modems, Environments,
      RegAccess, PmStates, L0, ErrorStates, hostv, rpmv
  <2> QED BY <2>1, <2>2, <2>3, <2>4, <2>5, <2>6, <2>7, <2>8, Zenon DEF PmInv
<1>7. ASSUME NEW w \in Callers, DisDestroy(w) PROVE PmInv'
  <2>1. UNCHANGED <<pm, dst, ee, dev, irq, tks, rw, sew, on, rpm, pmc, faults, cycles>>
    BY <1>7, Zenon DEF DisDestroy, DisRest, Goto, hostv, rpmv
  <2>2. /\ HostTypes' /\ ModemTypes' /\ FlagTypes' /\ BudgetTypes' /\ Callback'
         /\ InError' /\ Entering' /\ SuspendedMeansM3'
    BY <2>1, HostTypesKept, ModemTypesKept, FlagTypesKept, BudgetTypesKept, CallbackKept,
      InErrorKept, EnteringKept, SuspendedMeansM3Kept, Zenon DEF PmInv
  <2>3. ThreadTypes'
    BY <1>7, Zenon DEF PmInv, ThreadTypes, DisDestroy, DisRest, Goto, Callers, Stages
  <2>4. PlaceTypes'
    BY <1>7, Zenon DEF PmInv, PlaceTypes, DisDestroy, DisRest, Goto, rpmv
  <2>5. Mutex'
    BY <1>7, Zenon DEF PmInv, Mutex, ThreadTypes, DisDestroy, DisRest, Goto, Callers, rpmv
  <2>6. Unbound'
    BY <1>7, Zenon DEF PmInv, Unbound, ThreadTypes, Callback, DisDestroy, DisRest, Goto, Callers, rpmv
  <2>7. PoweredOff'
    BY <1>7, Zenon DEF PmInv, PoweredOff, Unbound, ThreadTypes, DisDestroy, DisRest, Goto, Callers,
      rpmv
  <2>8. Forbidden'
    BY <1>7, Zenon DEF PmInv, Forbidden, ThreadTypes, Unbound, Callback, DisDestroy, DisRest, Goto,
      Callers, rpmv
  <2>9. Left'
    BY <1>7, Trysets, Zenon DEF PmInv, Left, HostTypes, ModemTypes, ThreadTypes, Unbound, Parked,
      Owned, DisDestroy, DisRest, Goto, InPBL, ChanEEs, Callers, Stages, Modems, Environments,
      RegAccess, PmStates, L0, ErrorStates, hostv, rpmv
  <2>10. Paths'
    BY <1>7 DEF PmInv, Paths, DisDestroy, DisRest, Goto
  <2> QED BY <2>1, <2>2, <2>3, <2>4, <2>5, <2>6, <2>7, <2>8, <2>9, <2>10, Zenon DEF PmInv
<1>8. ASSUME NEW w \in Callers, DisFlushReady(w) PROVE PmInv'
  <2>1. UNCHANGED <<pm, dst, ee, dev, tsk, stw, chd, on, rpm, pmc, cl, xp, faults, cycles>>
    BY <1>8, Zenon DEF DisFlushReady, DisRest, Goto, ReadyWorkerBody, QueueTransition, hostv,
      rpmv
  <2>2. /\ HostTypes' /\ ModemTypes' /\ PlaceTypes' /\ BudgetTypes' /\ Callback'
         /\ InError' /\ Entering' /\ SuspendedMeansM3' /\ Paths'
    BY <2>1, HostTypesKept, ModemTypesKept, PlaceTypesKept, BudgetTypesKept, CallbackKept,
      InErrorKept, EnteringKept, SuspendedMeansM3Kept, PathsKept, Zenon DEF PmInv
  <2>3. ThreadTypes'
    BY <1>8, Zenon DEF PmInv, ThreadTypes, DisFlushReady, DisRest, Goto, ReadyWorkerBody,
      QueueTransition, Callers, Stages
  <2>4. FlagTypes'
    BY <1>8, Zenon DEF PmInv, FlagTypes, DisFlushReady, DisRest, Goto, ReadyWorkerBody,
      QueueTransition
  <2>5. Mutex'
    BY <1>8, Zenon DEF PmInv, Mutex, ThreadTypes, DisFlushReady, DisRest, Goto, ReadyWorkerBody,
      QueueTransition, Callers, rpmv
  <2>6. Unbound'
    BY <1>8, Zenon DEF PmInv, Unbound, ThreadTypes, Callback, DisFlushReady, DisRest, Goto,
      ReadyWorkerBody, QueueTransition, Callers, rpmv
  <2>7. PoweredOff'
    BY <1>8, Zenon DEF PmInv, PoweredOff, Unbound, ThreadTypes, DisFlushReady, DisRest, Goto,
      ReadyWorkerBody, QueueTransition, Callers, rpmv
  <2>8. Forbidden'
    BY <1>8, Zenon DEF PmInv, Forbidden, ThreadTypes, Unbound, Callback, DisFlushReady, DisRest, Goto,
      ReadyWorkerBody, QueueTransition, Callers, rpmv
  <2>9. Left'
    BY <1>8, Trysets, Zenon DEF PmInv, Left, HostTypes, ModemTypes, ThreadTypes, Unbound, Parked,
      Owned, DisFlushReady, DisRest, Goto, ReadyWorkerBody, QueueTransition, InPBL, ChanEEs,
      Callers, Stages, Modems, Environments, RegAccess, PmStates, L0, ErrorStates, hostv, rpmv
  <2> QED BY <2>1, <2>2, <2>3, <2>4, <2>5, <2>6, <2>7, <2>8, <2>9, Zenon DEF PmInv
<1>9. ASSUME NEW w \in Callers, DisRings(w) PROVE PmInv'
  <2>1. UNCHANGED <<dev, irq, tks, tsk, stw, rw, sew, chd, rpm, pmc, cl, xp, faults, cycles>>
    BY <1>9, Zenon DEF DisRings, DisRest, Goto, hostv, rpmv
  <2>2. /\ ModemTypes' /\ PlaceTypes' /\ FlagTypes' /\ BudgetTypes' /\ Callback' /\ Paths'
    BY <2>1, ModemTypesKept, PlaceTypesKept, FlagTypesKept, BudgetTypesKept, CallbackKept,
      PathsKept, Zenon DEF PmInv
  <2>3. HostTypes'
    BY <1>9, Trysets, Zenon DEF PmInv, HostTypes, ModemTypes, DisRings, DisRest, Goto, PmStates, L0,
      ErrorStates, InPBL, ChanEEs, RegAccess, MhiStates, Environments, Modems, hostv
  <2>4. ThreadTypes'
    BY <1>9 DEF PmInv, ThreadTypes, DisRings, DisRest, Goto, Callers, Stages
  <2>5. Mutex'
    BY <1>9, Zenon DEF PmInv, Mutex, ThreadTypes, DisRings, DisRest, Goto, Callers, rpmv
  <2>6. Unbound'
    BY <1>9, Zenon DEF PmInv, Unbound, ThreadTypes, Callback, DisRings, DisRest, Goto, Callers, rpmv
  <2>7. PoweredOff'
    BY <1>9, Zenon DEF PmInv, PoweredOff, Unbound, ThreadTypes, DisRings, DisRest, Goto, Callers, rpmv
  <2>8. Forbidden'
    BY <1>9, Zenon DEF PmInv, Forbidden, ThreadTypes, Unbound, Callback, DisRings, DisRest, Goto,
      Callers, rpmv
  <2>9. InError'
    BY <1>9, Trysets, Zenon DEF PmInv, InError, Forbidden, HostTypes, PoweredOff, Unbound, ThreadTypes,
      SuspendedMeansM3, Callback, DisRings, DisRest, Goto, ErrorStates, Callers, PmStates, L0,
      hostv, rpmv
  <2>10. Entering'
    BY <1>9, Trysets, Zenon DEF PmInv, Entering, HostTypes, Callback, Mutex, ThreadTypes, DisRings,
      DisRest, Goto, ErrorStates, Callers, PmStates, L0, hostv, rpmv
  <2>11. SuspendedMeansM3'
    BY <1>9, Trysets, Zenon DEF PmInv, SuspendedMeansM3, InError, Entering, HostTypes, PoweredOff,
      Unbound, Callback, ThreadTypes, DisRings, DisRest, Goto, ErrorStates, Callers, PmStates,
      L0, hostv, rpmv
  <2>12. Left'
    BY <1>9, Trysets DEF PmInv, Left, HostTypes, ModemTypes, ThreadTypes, Unbound, Parked,
      Owned, DisRings, DisRest, Goto, InPBL, ChanEEs, Callers, Stages, Modems, Environments,
      RegAccess, PmStates, L0, ErrorStates, hostv, rpmv
  <2> QED BY <2>1, <2>2, <2>3, <2>4, <2>5, <2>6, <2>7, <2>8, <2>9, <2>10, <2>11, <2>12, Zenon DEF PmInv
<1> QED BY <1>1, <1>2, <1>3, <1>4, <1>5, <1>6, <1>7, <1>8, <1>9, Zenon DEF DisableStep, Callers

\* Probe and removal.
LEMMA LifeStepKeeps == ASSUME PmInv, LifeStep PROVE PmInv'
<1>1. CASE mhi_pci_probe
  <2>1. UNCHANGED <<tsk, stw, dis, mtx, chd, rpm, auto, pmc, cl, xp>>
    BY <1>1, Zenon DEF mhi_pci_probe, mhi_async_power_up, QueueTransition, disv, rpmv, clv
  <2>2. /\ ThreadTypes' /\ PlaceTypes' /\ Mutex' /\ Callback' /\ Forbidden' /\ Paths'
    BY <2>1, ThreadTypesKept, PlaceTypesKept, MutexKept, CallbackKept, ForbiddenKept, PathsKept,
      Zenon DEF PmInv
  <2>3. HostTypes'
    BY <1>1, Trysets, Zenon DEF PmInv, HostTypes, ModemTypes, mhi_pci_probe, mhi_async_power_up,
      QueueTransition, PmStates, L0, ErrorStates, InPBL, ChanEEs, RegAccess, MhiStates,
      Environments, Modems
  <2>4. ModemTypes'
    BY <1>1, ModemSets, Zenon DEF PmInv, ModemTypes, mhi_pci_probe, mhi_async_power_up,
      QueueTransition
  <2>5. FlagTypes'
    BY <1>1, Zenon DEF PmInv, FlagTypes, mhi_pci_probe, mhi_async_power_up, QueueTransition
  <2>6. BudgetTypes'
    BY <1>1, PmAssumption DEF PmInv, BudgetTypes, mhi_pci_probe, mhi_async_power_up,
      QueueTransition
  <2>7. Unbound'
    BY <1>1, Zenon DEF PmInv, Unbound, ThreadTypes, Callback, mhi_pci_probe, mhi_async_power_up,
      QueueTransition, Callers, disv, rpmv
  <2>8. PoweredOff'
    BY <1>1, Zenon DEF PmInv, PoweredOff, Unbound, ThreadTypes, mhi_pci_probe, mhi_async_power_up,
      QueueTransition, Callers, disv, rpmv
  <2>9. InError'
    BY <1>1, Trysets, Zenon DEF PmInv, InError, Forbidden, HostTypes, PoweredOff, Unbound, ThreadTypes,
      SuspendedMeansM3, Callback, mhi_pci_probe, mhi_async_power_up, QueueTransition,
      ErrorStates, Callers, PmStates, L0, disv, rpmv
  <2>10. Entering'
    BY <1>1, Trysets, Zenon DEF PmInv, Entering, Callback, Unbound, mhi_pci_probe, mhi_async_power_up,
      QueueTransition, ErrorStates, Callers, PmStates, L0, disv, rpmv
  <2>11. SuspendedMeansM3'
    BY <1>1, Trysets, Zenon DEF PmInv, SuspendedMeansM3, InError, Entering, HostTypes, PoweredOff,
      Unbound, Callback, ThreadTypes, mhi_pci_probe, mhi_async_power_up, QueueTransition,
      ErrorStates, Callers, PmStates, L0, disv, rpmv
  <2>12. Left'
    <3>1. CASE bnd' = TRUE /\ mhi_async_power_up
      <4>1. pm' = "POR"
        BY <3>1, Zenon DEF mhi_async_power_up
      <4>2. dev'.st = "SYS_ERR" => dev' = dev
        BY <3>1, Zenon DEF PmInv, ModemTypes, Modems, mhi_async_power_up
      <4> QED BY <4>1, <4>2 DEF PmInv, Left
    <3>2. CASE UNCHANGED <<pm, dev, bnd>>
      <4>1. UNCHANGED <<sew, dis>>
        BY <1>1, Zenon DEF mhi_pci_probe, disv
      <4> QED BY <3>2, <4>1, LeftKept, Zenon DEF PmInv
    <3> QED BY <1>1, <3>1, <3>2, Zenon DEF mhi_pci_probe
  <2> QED BY <2>1, <2>2, <2>3, <2>4, <2>5, <2>6, <2>7, <2>8, <2>9, <2>10, <2>11, <2>12, Zenon DEF PmInv
<1>2. CASE mhi_pci_device_removed
  <2>1. UNCHANGED <<dev, irq, tks, tsk, stw, rw, sew, chd, rpm, pmc, cl, xp, faults, cycles>>
    BY <1>2, Zenon DEF mhi_pci_device_removed, Goto, evv, workv, clv, budv
  <2>2. /\ ModemTypes' /\ PlaceTypes' /\ FlagTypes' /\ BudgetTypes' /\ Callback' /\ Paths'
    BY <2>1, ModemTypesKept, PlaceTypesKept, FlagTypesKept, BudgetTypesKept, CallbackKept,
      PathsKept, Zenon DEF PmInv
  <2>3. HostTypes'
    BY <1>2, Trysets DEF PmInv, HostTypes, ModemTypes, mhi_pci_device_removed, Goto, RpmSettled,
      PmStates, L0, ErrorStates, InPBL, ChanEEs, RegAccess, MhiStates, Environments, Modems
  <2>4. ThreadTypes'
    BY <1>2 DEF PmInv, ThreadTypes, mhi_pci_device_removed, Goto, RpmSettled, Callers, Stages
  <2>5. Mutex'
    BY <1>2, Zenon DEF PmInv, Mutex, ThreadTypes, mhi_pci_device_removed, Goto, RpmSettled, Callers
  <2>6. Unbound'
    BY <1>2, Zenon DEF PmInv, Unbound, ThreadTypes, Callback, mhi_pci_device_removed, Goto, RpmSettled,
      Callers
  <2>7. PoweredOff'
    BY <1>2, Zenon DEF PmInv, PoweredOff, Unbound, ThreadTypes, mhi_pci_device_removed, Goto,
      RpmSettled, Callers
  <2>8. Forbidden'
    BY <1>2, Zenon DEF PmInv, Forbidden, ThreadTypes, Unbound, Callback, mhi_pci_device_removed, Goto,
      RpmSettled, Callers
  <2>9. InError'
    BY <1>2, Trysets, Zenon DEF PmInv, InError, Forbidden, HostTypes, PoweredOff, Unbound, ThreadTypes,
      SuspendedMeansM3, Callback, mhi_pci_device_removed, Goto, RpmSettled, ErrorStates,
      Callers, PmStates, L0
  <2>10. Entering'
    BY <1>2, Trysets, Zenon DEF PmInv, Entering, HostTypes, Callback, Mutex, ThreadTypes,
      mhi_pci_device_removed, Goto, RpmSettled, ErrorStates, Callers, PmStates, L0
  <2>11. SuspendedMeansM3'
    BY <1>2, Trysets, Zenon DEF PmInv, SuspendedMeansM3, InError, Entering, HostTypes, PoweredOff,
      Unbound, Callback, ThreadTypes, mhi_pci_device_removed, Goto, RpmSettled, ErrorStates,
      Callers, PmStates, L0
  <2>12. Left'
    BY <1>2, Trysets, Zenon DEF PmInv, Left, HostTypes, ModemTypes, ThreadTypes, Unbound, Parked,
      Owned, mhi_pci_device_removed, Goto, RpmSettled, InPBL, ChanEEs, Callers, Stages, Modems,
      Environments, RegAccess, PmStates, L0, ErrorStates, workv
  <2> QED BY <2>1, <2>2, <2>3, <2>4, <2>5, <2>6, <2>7, <2>8, <2>9, <2>10, <2>11, <2>12, Zenon DEF PmInv
<1>3. CASE DisFree
  <2>1. UNCHANGED <<dev, faults, cycles>>
    BY <1>3, Zenon DEF DisFree, budv
  <2>2. /\ ModemTypes' /\ BudgetTypes'
    BY <2>1, ModemTypesKept, BudgetTypesKept, Zenon DEF PmInv
  <2>3. HostTypes'
    BY <1>3, Trysets, Zenon DEF PmInv, HostTypes, ModemTypes, DisFree, PmStates, L0, ErrorStates,
      InPBL, ChanEEs, RegAccess, MhiStates, Environments, Modems
  <2>4. ThreadTypes'
    BY <1>3, Zenon DEF PmInv, ThreadTypes, DisFree, Callers, Stages
  <2>5. PlaceTypes'
    BY <1>3, Zenon DEF PmInv, PlaceTypes, DisFree
  <2>6. FlagTypes'
    BY <1>3, Zenon DEF PmInv, FlagTypes, DisFree
  <2>7. Mutex'
    BY <1>3, Zenon DEF PmInv, Mutex, ThreadTypes, DisFree, Callers
  <2>8. Callback'
    BY <1>3, Zenon DEF PmInv, Callback, Mutex, DisFree
  <2>9. Unbound'
    BY <1>3, Zenon DEF PmInv, Unbound, ThreadTypes, Callback, DisFree, Callers
  <2>10. PoweredOff'
    BY <1>3, Zenon DEF PmInv, PoweredOff, Unbound, ThreadTypes, DisFree, Callers
  <2>11. Forbidden'
    BY <1>3, Zenon DEF PmInv, Forbidden, ThreadTypes, Unbound, Callback, DisFree, Callers
  <2>12. InError'
    BY <1>3, Trysets, Zenon DEF PmInv, InError, Forbidden, HostTypes, PoweredOff, Unbound, ThreadTypes,
      SuspendedMeansM3, Callback, DisFree, ErrorStates, Callers, PmStates, L0
  <2>13. Entering'
    BY <1>3, Trysets, Zenon DEF PmInv, Entering, HostTypes, Callback, Mutex, ThreadTypes, DisFree,
      ErrorStates, Callers, PmStates, L0
  <2>14. SuspendedMeansM3'
    BY <1>3, Trysets, Zenon DEF PmInv, SuspendedMeansM3, InError, Entering, HostTypes, PoweredOff,
      Unbound, Callback, ThreadTypes, DisFree, ErrorStates, Callers, PmStates, L0
  <2>15. Left'
    BY <1>3, Trysets, Zenon DEF PmInv, Left, HostTypes, ModemTypes, ThreadTypes, Unbound, Parked,
      Owned, DisFree, InPBL, ChanEEs, Callers, Stages, Modems, Environments, RegAccess,
      PmStates, L0, ErrorStates
  <2>16. Paths'
    BY <1>3, Zenon DEF PmInv, Paths, DisFree
  <2> QED BY <2>1, <2>2, <2>3, <2>4, <2>5, <2>6, <2>7, <2>8, <2>9, <2>10, <2>11, <2>12, <2>13, <2>14, <2>15, <2>16, Zenon DEF PmInv
<1> QED BY <1>1, <1>2, <1>3, Zenon DEF LifeStep

\* The runtime-PM callbacks.
LEMMA PmStepKeeps == ASSUME PmInv, PmStep PROVE PmInv'
<1>1. CASE RpmAllow
  <2>1. UNCHANGED <<pm, dst, ee, dev, irq, tks, tsk, stw, rw, sew, dis, mtx, chd, on, bnd, rpm, pmc, cl, xp, faults,
                    cycles>>
    BY <1>1, Zenon DEF RpmAllow, PmRest, hostv, evv, workv, lifev, clv
  <2>2. /\ HostTypes' /\ ModemTypes' /\ ThreadTypes' /\ PlaceTypes' /\ FlagTypes'
         /\ BudgetTypes' /\ Mutex' /\ Callback' /\ Unbound' /\ PoweredOff' /\ InError'
         /\ Entering' /\ SuspendedMeansM3' /\ Left' /\ Paths'
    BY <2>1, HostTypesKept, ModemTypesKept, ThreadTypesKept, PlaceTypesKept, FlagTypesKept,
      BudgetTypesKept, MutexKept, CallbackKept, UnboundKept, PoweredOffKept, InErrorKept,
      EnteringKept, SuspendedMeansM3Kept, LeftKept, PathsKept, Zenon DEF PmInv
  <2>3. Forbidden'
    BY <1>1, Zenon DEF PmInv, Forbidden, ThreadTypes, Unbound, Callback, RpmAllow, PmRest, Callers,
      lifev
  <2> QED BY <2>1, <2>2, <2>3, Zenon DEF PmInv
<1>2. CASE mhi_runtime_idle
  <2>1. UNCHANGED <<pm, dst, ee, dev, irq, tks, tsk, stw, rw, sew, dis, mtx, chd, on, bnd, rpm, auto, pmc, cl, xp,
                    faults, cycles>>
    BY <1>2, Zenon DEF mhi_runtime_idle, PmRest, hostv, evv, workv, lifev, clv
  <2>2. /\ HostTypes' /\ ModemTypes' /\ ThreadTypes' /\ PlaceTypes' /\ FlagTypes'
         /\ BudgetTypes' /\ Mutex' /\ Callback' /\ Unbound' /\ PoweredOff' /\ Forbidden'
         /\ InError' /\ Entering' /\ SuspendedMeansM3' /\ Left' /\ Paths'
    BY <2>1, HostTypesKept, ModemTypesKept, ThreadTypesKept, PlaceTypesKept, FlagTypesKept,
      BudgetTypesKept, MutexKept, CallbackKept, UnboundKept, PoweredOffKept, ForbiddenKept,
      InErrorKept, EnteringKept, SuspendedMeansM3Kept, LeftKept, PathsKept, Zenon DEF PmInv
  <2> QED BY <2>1, <2>2, Zenon DEF PmInv
<1>3. CASE RpmTimer
  <2>1. UNCHANGED <<pm, dst, ee, dev, irq, tks, rw, sew, dis, mtx, on, bnd, cl, xp, faults, cycles>>
    BY <1>3, Zenon DEF RpmTimer, PmRest, hostv, evv, workv, lifev, clv
  <2>2. /\ HostTypes' /\ ModemTypes' /\ ThreadTypes' /\ FlagTypes' /\ BudgetTypes'
         /\ PoweredOff' /\ Left' /\ Paths'
    BY <2>1, HostTypesKept, ModemTypesKept, ThreadTypesKept, FlagTypesKept, BudgetTypesKept,
      PoweredOffKept, LeftKept, PathsKept, Zenon DEF PmInv
  <2>3. PlaceTypes'
    BY <1>3, Zenon DEF PmInv, PlaceTypes, RpmTimer, PmRest, UsageZero, evv, workv, lifev
  <2>4. Mutex'
    BY <1>3, Zenon DEF PmInv, Mutex, Callback, RpmTimer, PmRest, UsageZero, Callers
  <2>5. Callback'
    BY <1>3, Zenon DEF PmInv, Callback, Mutex, RpmTimer, PmRest, UsageZero
  <2>6. Unbound'
    BY <1>3, Zenon DEF PmInv, Unbound, ThreadTypes, Callback, RpmTimer, PmRest, UsageZero, Callers,
      lifev
  <2>7. Forbidden'
    BY <1>3, Zenon DEF PmInv, Forbidden, ThreadTypes, Unbound, Callback, RpmTimer, PmRest, UsageZero,
      Callers, lifev
  <2>8. InError'
    BY <1>3, Trysets, Zenon DEF PmInv, InError, Forbidden, HostTypes, PoweredOff, Unbound, ThreadTypes,
      SuspendedMeansM3, Callback, RpmTimer, PmRest, UsageZero, ErrorStates, Callers, PmStates,
      L0, hostv, lifev
  <2>9. Entering'
    BY <1>3, Trysets, Zenon DEF PmInv, Entering, HostTypes, Callback, Mutex, ThreadTypes, RpmTimer,
      PmRest, UsageZero, ErrorStates, Callers, PmStates, L0, hostv
  <2>10. SuspendedMeansM3'
    BY <1>3, Trysets, Zenon DEF PmInv, SuspendedMeansM3, InError, Entering, HostTypes, PoweredOff,
      Unbound, Callback, ThreadTypes, RpmTimer, PmRest, UsageZero, ErrorStates, Callers,
      PmStates, L0, hostv, lifev
  <2> QED BY <2>1, <2>2, <2>3, <2>4, <2>5, <2>6, <2>7, <2>8, <2>9, <2>10, Zenon DEF PmInv
<1>4. CASE mhi_runtime_suspend
  <2>1. UNCHANGED <<pm, dst, ee, irq, tks, rw, sew, dis, on, cl, xp, faults, cycles>>
    BY <1>4, Zenon DEF mhi_runtime_suspend, PmRest, PmReturn, SuspendBegin, hostv, evv, workv,
      lifev, clv
  <2>2. /\ HostTypes' /\ FlagTypes' /\ BudgetTypes' /\ PoweredOff' /\ Paths'
    BY <2>1, HostTypesKept, FlagTypesKept, BudgetTypesKept, PoweredOffKept, PathsKept,
      Zenon DEF PmInv
  <2>3. ModemTypes'
    BY <1>4, ModemSets, Zenon DEF PmInv, ModemTypes, mhi_runtime_suspend, PmRest, PmReturn,
      SuspendBegin
  <2>4. ThreadTypes'
    BY <1>4, Zenon DEF PmInv, ThreadTypes, mhi_runtime_suspend, Waken, PmRest, PmReturn, SuspendBegin,
      Callers, Stages
  <2>5. PlaceTypes'
    BY <1>4, Zenon DEF PmInv, PlaceTypes, mhi_runtime_suspend, Waken, PmRest, PmReturn,
      SuspendBegin, evv, workv, lifev
  <2>6. Mutex'
    BY <1>4, Zenon DEF PmInv, Mutex, ThreadTypes, mhi_runtime_suspend, Waken, PmRest, PmReturn,
      SuspendBegin, Callers
  <2>7. Callback'
    BY <1>4, Zenon DEF PmInv, Callback, Mutex, mhi_runtime_suspend, Waken, PmRest, PmReturn,
      SuspendBegin
  <2>8. Unbound'
    BY <1>4, Zenon DEF PmInv, Unbound, ThreadTypes, Callback, mhi_runtime_suspend, Waken, PmRest,
      PmReturn, SuspendBegin, Callers, lifev
  <2>9. Forbidden'
    BY <1>4, Zenon DEF PmInv, Forbidden, ThreadTypes, Unbound, Callback, mhi_runtime_suspend, Waken,
      PmRest, PmReturn, SuspendBegin, Callers, lifev
  <2>10. InError'
    BY <1>4, Trysets, Zenon DEF PmInv, InError, Forbidden, HostTypes, PoweredOff, Unbound, ThreadTypes,
      SuspendedMeansM3, Callback, mhi_runtime_suspend, Waken, PmRest, PmReturn, SuspendBegin,
      ErrorStates, Callers, PmStates, L0, hostv, lifev
  <2>11. Entering'
    BY <1>4, Trysets, Zenon DEF PmInv, Entering, HostTypes, Callback, Mutex, ThreadTypes,
      mhi_runtime_suspend, Waken, PmRest, PmReturn, SuspendBegin, ErrorStates, Callers,
      PmStates, L0, hostv
  <2>12. SuspendedMeansM3'
    BY <1>4, Trysets, Zenon DEF PmInv, SuspendedMeansM3, InError, Entering, HostTypes, PoweredOff,
      Unbound, Callback, ThreadTypes, mhi_runtime_suspend, Waken, PmRest, PmReturn,
      SuspendBegin, ErrorStates, Callers, PmStates, L0, hostv, lifev
  <2>13. Left'
    BY <1>4, Trysets DEF PmInv, Left, HostTypes, ModemTypes, ThreadTypes, Unbound, Parked,
      Owned, mhi_runtime_suspend, Waken, PmRest, PmReturn, SuspendBegin, InPBL, ChanEEs,
      Callers, Stages, Modems, Environments, RegAccess, PmStates, L0, ErrorStates, hostv, workv,
      lifev
  <2> QED BY <2>1, <2>2, <2>3, <2>4, <2>5, <2>6, <2>7, <2>8, <2>9, <2>10, <2>11, <2>12, <2>13, Zenon DEF PmInv
<1>5. CASE SuspendEnter
  <2>1. UNCHANGED <<irq, tks, rw, sew, dis, on, cl, xp, faults, cycles>>
    BY <1>5, Zenon DEF SuspendEnter, PmRest, PmReturn, evv, workv, lifev, clv
  <2>2. /\ FlagTypes' /\ BudgetTypes' /\ PoweredOff' /\ Paths'
    BY <2>1, FlagTypesKept, BudgetTypesKept, PoweredOffKept, PathsKept, Zenon DEF PmInv
  <2>3. HostTypes'
    BY <1>5, Trysets, Zenon DEF PmInv, HostTypes, ModemTypes, SuspendEnter, SetState, PmRest, PmReturn,
      PmStates, L0, ErrorStates, InPBL, ChanEEs, RegAccess, MhiStates, Environments, Modems
  <2>4. ModemTypes'
    BY <1>5, ModemSets, Zenon DEF PmInv, ModemTypes, SuspendEnter, PmRest, PmReturn
  <2>5. ThreadTypes'
    BY <1>5, Zenon DEF PmInv, ThreadTypes, SuspendEnter, SetState, PmRest, PmReturn, Callers, Stages
  <2>6. PlaceTypes'
    BY <1>5, Zenon DEF PmInv, PlaceTypes, SuspendEnter, SetState, PmRest, PmReturn, evv, workv,
      lifev
  <2>7. Mutex'
    BY <1>5, Zenon DEF PmInv, Mutex, ThreadTypes, SuspendEnter, SetState, PmRest, PmReturn, Callers
  <2>8. Callback'
    BY <1>5, Zenon DEF PmInv, Callback, Mutex, SuspendEnter, SetState, PmRest, PmReturn
  <2>9. Unbound'
    BY <1>5, Zenon DEF PmInv, Unbound, ThreadTypes, Callback, SuspendEnter, SetState, PmRest, PmReturn,
      Callers, lifev
  <2>10. Forbidden'
    BY <1>5, Zenon DEF PmInv, Forbidden, ThreadTypes, Unbound, Callback, SuspendEnter, SetState,
      PmRest, PmReturn, Callers, lifev
  <2>11. InError'
    BY <1>5, Trysets, Zenon DEF PmInv, InError, Forbidden, HostTypes, PoweredOff, Unbound, ThreadTypes,
      SuspendedMeansM3, Callback, SuspendEnter, SetState, PmRest, PmReturn, ErrorStates,
      Callers, PmStates, L0, lifev
  <2>12. Entering'
    BY <1>5, Trysets, Zenon DEF PmInv, Entering, HostTypes, Callback, Mutex, ThreadTypes, SuspendEnter,
      SetState, PmRest, PmReturn, ErrorStates, Callers, PmStates, L0
  <2>13. SuspendedMeansM3'
    BY <1>5, Trysets, Zenon DEF PmInv, SuspendedMeansM3, InError, Entering, HostTypes, PoweredOff,
      Unbound, Callback, ThreadTypes, SuspendEnter, SetState, PmRest, PmReturn, ErrorStates,
      Callers, PmStates, L0, lifev
  <2>14. Left'
    BY <1>5, Trysets DEF PmInv, Left, HostTypes, ModemTypes, ThreadTypes, Unbound, Parked,
      Owned, SuspendEnter, SetState, PmRest, PmReturn, InPBL, ChanEEs, Callers, Stages, Modems,
      Environments, RegAccess, PmStates, L0, ErrorStates, workv, lifev
  <2> QED BY <2>1, <2>2, <2>3, <2>4, <2>5, <2>6, <2>7, <2>8, <2>9, <2>10, <2>11, <2>12, <2>13, <2>14, Zenon DEF PmInv
<1>6. CASE SuspendDone
  <2>1. UNCHANGED <<pm, dst, ee, dev, irq, tks, rw, sew, dis, on, bnd, cl, xp, faults, cycles>>
    BY <1>6, Zenon DEF SuspendDone, PmRest, PmReturn, hostv, evv, workv, lifev, clv
  <2>2. /\ HostTypes' /\ ModemTypes' /\ FlagTypes' /\ BudgetTypes' /\ PoweredOff' /\ Left'
         /\ Paths'
    BY <2>1, HostTypesKept, ModemTypesKept, FlagTypesKept, BudgetTypesKept, PoweredOffKept,
      LeftKept, PathsKept, Zenon DEF PmInv
  <2>3. ThreadTypes'
    BY <1>6, Zenon DEF PmInv, ThreadTypes, SuspendDone, PmRest, PmReturn, Callers, Stages
  <2>4. PlaceTypes'
    BY <1>6, Zenon DEF PmInv, PlaceTypes, SuspendDone, PmRest, PmReturn, evv, workv, lifev
  <2>5. Mutex'
    BY <1>6, Zenon DEF PmInv, Mutex, ThreadTypes, SuspendDone, PmRest, PmReturn, Callers
  <2>6. Callback'
    BY <1>6, Zenon DEF PmInv, Callback, Mutex, SuspendDone, PmRest, PmReturn
  <2>7. Unbound'
    BY <1>6, Zenon DEF PmInv, Unbound, ThreadTypes, Callback, SuspendDone, PmRest, PmReturn, Callers,
      lifev
  <2>8. Forbidden'
    BY <1>6, Zenon DEF PmInv, Forbidden, ThreadTypes, Unbound, Callback, SuspendDone, PmRest, PmReturn,
      Callers, lifev
  <2>9. InError'
    BY <1>6, Trysets, Zenon DEF PmInv, InError, Forbidden, HostTypes, PoweredOff, Unbound, ThreadTypes,
      SuspendedMeansM3, Callback, SuspendDone, PmRest, PmReturn, ErrorStates, Callers, PmStates,
      L0, hostv, lifev
  <2>10. Entering'
    BY <1>6, Trysets, Zenon DEF PmInv, Entering, HostTypes, Callback, Mutex, ThreadTypes, SuspendDone,
      PmRest, PmReturn, ErrorStates, Callers, PmStates, L0, hostv
  <2>11. SuspendedMeansM3'
    BY <1>6, Trysets, Zenon DEF PmInv, SuspendedMeansM3, InError, Entering, HostTypes, PoweredOff,
      Unbound, Callback, ThreadTypes, SuspendDone, PmRest, PmReturn, ErrorStates, Callers,
      PmStates, L0, hostv, lifev
  <2> QED BY <2>1, <2>2, <2>3, <2>4, <2>5, <2>6, <2>7, <2>8, <2>9, <2>10, <2>11, Zenon DEF PmInv
<1>7. CASE RpmResume
  <2>1. UNCHANGED <<pm, dst, ee, dev, irq, tks, rw, sew, dis, mtx, on, bnd, cl, xp, faults, cycles>>
    BY <1>7, Zenon DEF RpmResume, PmRest, hostv, evv, workv, lifev, clv
  <2>2. /\ HostTypes' /\ ModemTypes' /\ ThreadTypes' /\ FlagTypes' /\ BudgetTypes'
         /\ PoweredOff' /\ Left' /\ Paths'
    BY <2>1, HostTypesKept, ModemTypesKept, ThreadTypesKept, FlagTypesKept, BudgetTypesKept,
      PoweredOffKept, LeftKept, PathsKept, Zenon DEF PmInv
  <2>3. PlaceTypes'
    BY <1>7, Zenon DEF PmInv, PlaceTypes, RpmResume, PmRest, evv, workv, lifev
  <2>4. Mutex'
    BY <1>7, Zenon DEF PmInv, Mutex, Callback, RpmResume, PmRest, Callers
  <2>5. Callback'
    BY <1>7, Zenon DEF PmInv, Callback, Mutex, RpmResume, PmRest
  <2>6. Unbound'
    BY <1>7, Zenon DEF PmInv, Unbound, ThreadTypes, Callback, RpmResume, PmRest, Callers, lifev
  <2>7. Forbidden'
    BY <1>7, Zenon DEF PmInv, Forbidden, ThreadTypes, Unbound, Callback, RpmResume, PmRest, Callers,
      lifev
  <2>8. InError'
    BY <1>7, Trysets, Zenon DEF PmInv, InError, Forbidden, HostTypes, PoweredOff, Unbound, ThreadTypes,
      SuspendedMeansM3, Callback, RpmResume, PmRest, ErrorStates, Callers, PmStates, L0, hostv,
      lifev
  <2>9. Entering'
    BY <1>7, Trysets, Zenon DEF PmInv, Entering, HostTypes, Callback, Mutex, ThreadTypes, RpmResume,
      PmRest, ErrorStates, Callers, PmStates, L0, hostv
  <2>10. SuspendedMeansM3'
    BY <1>7, Trysets, Zenon DEF PmInv, SuspendedMeansM3, InError, Entering, HostTypes, PoweredOff,
      Unbound, Callback, ThreadTypes, RpmResume, PmRest, ErrorStates, Callers, PmStates, L0,
      hostv, lifev
  <2> QED BY <2>1, <2>2, <2>3, <2>4, <2>5, <2>6, <2>7, <2>8, <2>9, <2>10, Zenon DEF PmInv
<1>8. CASE mhi_runtime_resume
  <2>1. UNCHANGED <<irq, tks, rw, sew, dis, on, cl, xp, faults, cycles>>
    BY <1>8, Zenon DEF mhi_runtime_resume, PmRest, PmReturn, ResumeBegin, evv, workv, lifev, clv
  <2>2. /\ FlagTypes' /\ BudgetTypes' /\ PoweredOff' /\ Paths'
    BY <2>1, FlagTypesKept, BudgetTypesKept, PoweredOffKept, PathsKept, Zenon DEF PmInv
  <2>3. HostTypes'
    BY <1>8, Trysets, Zenon DEF PmInv, HostTypes, ModemTypes, mhi_runtime_resume, SetState, PmRest,
      PmReturn, ResumeBegin, PmStates, L0, ErrorStates, InPBL, ChanEEs, RegAccess, MhiStates,
      Environments, Modems
  <2>4. ModemTypes'
    BY <1>8, ModemSets, Zenon DEF PmInv, ModemTypes, mhi_runtime_resume, PmRest, PmReturn,
      ResumeBegin
  <2>5. ThreadTypes'
    BY <1>8, Zenon DEF PmInv, ThreadTypes, mhi_runtime_resume, SetState, PmRest, PmReturn, ResumeBegin,
      Callers, Stages
  <2>6. PlaceTypes'
    BY <1>8, Zenon DEF PmInv, PlaceTypes, mhi_runtime_resume, SetState, PmRest, PmReturn,
      ResumeBegin, evv, workv, lifev
  <2>7. Mutex'
    BY <1>8, Zenon DEF PmInv, Mutex, ThreadTypes, mhi_runtime_resume, SetState, PmRest, PmReturn,
      ResumeBegin, Callers
  <2>8. Callback'
    BY <1>8, Zenon DEF PmInv, Callback, Mutex, mhi_runtime_resume, SetState, PmRest, PmReturn,
      ResumeBegin
  <2>9. Unbound'
    BY <1>8, Zenon DEF PmInv, Unbound, ThreadTypes, Callback, mhi_runtime_resume, SetState, PmRest,
      PmReturn, ResumeBegin, Callers, lifev
  <2>10. Forbidden'
    BY <1>8, Zenon DEF PmInv, Forbidden, ThreadTypes, Unbound, Callback, mhi_runtime_resume, SetState,
      PmRest, PmReturn, ResumeBegin, Callers, lifev
  <2>11. InError'
    BY <1>8, Trysets, Zenon DEF PmInv, InError, Forbidden, HostTypes, PoweredOff, Unbound, ThreadTypes,
      SuspendedMeansM3, Callback, mhi_runtime_resume, SetState, PmRest, PmReturn, ResumeBegin,
      ErrorStates, Callers, PmStates, L0, lifev
  <2>12. Entering'
    BY <1>8, Trysets, Zenon DEF PmInv, Entering, HostTypes, Callback, Mutex, ThreadTypes,
      mhi_runtime_resume, SetState, PmRest, PmReturn, ResumeBegin, ErrorStates, Callers,
      PmStates, L0
  <2>13. SuspendedMeansM3'
    BY <1>8, Trysets, Zenon DEF PmInv, SuspendedMeansM3, InError, Entering, HostTypes, PoweredOff,
      Unbound, Callback, ThreadTypes, mhi_runtime_resume, SetState, PmRest, PmReturn,
      ResumeBegin, ErrorStates, Callers, PmStates, L0, lifev
  <2>14. Left'
    BY <1>8, Trysets DEF PmInv, Left, HostTypes, ModemTypes, ThreadTypes, Unbound, Parked,
      Owned, mhi_runtime_resume, SetState, PmRest, PmReturn, ResumeBegin, InPBL, ChanEEs,
      Callers, Stages, Modems, Environments, RegAccess, PmStates, L0, ErrorStates, workv, lifev
  <2> QED BY <2>1, <2>2, <2>3, <2>4, <2>5, <2>6, <2>7, <2>8, <2>9, <2>10, <2>11, <2>12, <2>13, <2>14, Zenon DEF PmInv
<1>9. CASE ResumeDone
  <2>1. UNCHANGED <<dev, dis, on, cl, xp, faults, cycles>>
    BY <1>9, Zenon DEF ResumeDone, PmReturn, evv, lifev, clv
  <2>2. /\ ModemTypes' /\ BudgetTypes' /\ PoweredOff' /\ Paths'
    BY <2>1, ModemTypesKept, BudgetTypesKept, PoweredOffKept, PathsKept, Zenon DEF PmInv
  <2>3. HostTypes'
    BY <1>9, Trysets DEF PmInv, HostTypes, ModemTypes, ResumeDone, PmReturn, IntvecPm,
      IntvecSew, IntvecFatal, IntvecDetects, PmStates, L0, ErrorStates, InPBL, ChanEEs,
      RegAccess, MhiStates, Environments, Modems
  <2>4. ThreadTypes'
    BY <1>9, Zenon DEF PmInv, ThreadTypes, ResumeDone, PmReturn, IntvecPm, IntvecSew, IntvecFatal,
      IntvecDetects, Callers, Stages
  <2>5. PlaceTypes'
    BY <1>9, Zenon DEF PmInv, PlaceTypes, ResumeDone, PmReturn, IntvecPm, IntvecSew,
      IntvecFatal, IntvecDetects, evv, lifev
  <2>6. FlagTypes'
    BY <1>9, Zenon DEF PmInv, FlagTypes, ResumeDone, PmReturn, IntvecPm, IntvecSew, IntvecFatal,
      IntvecDetects, evv
  <2>7. Mutex'
    BY <1>9, Zenon DEF PmInv, Mutex, ThreadTypes, ResumeDone, PmReturn, IntvecPm, IntvecSew,
      IntvecFatal, IntvecDetects, Callers
  <2>8. Callback'
    BY <1>9, Zenon DEF PmInv, Callback, Mutex, ResumeDone, PmReturn, IntvecPm, IntvecSew, IntvecFatal,
      IntvecDetects
  <2>9. Unbound'
    BY <1>9, Zenon DEF PmInv, Unbound, ThreadTypes, Callback, ResumeDone, PmReturn, IntvecPm,
      IntvecSew, IntvecFatal, IntvecDetects, Callers, lifev
  <2>10. Forbidden'
    BY <1>9, Zenon DEF PmInv, Forbidden, ThreadTypes, Unbound, Callback, ResumeDone, PmReturn,
      IntvecPm, IntvecSew, IntvecFatal, IntvecDetects, Callers, lifev
  <2>11. InError'
    BY <1>9, Trysets, Zenon DEF PmInv, InError, Forbidden, HostTypes, PoweredOff, Unbound, ThreadTypes,
      SuspendedMeansM3, Callback, ResumeDone, PmReturn, IntvecPm, IntvecSew, IntvecFatal,
      IntvecDetects, ErrorStates, Callers, PmStates, L0, lifev
  <2>12. Entering'
    BY <1>9, Trysets, Zenon DEF PmInv, Entering, HostTypes, Callback, Mutex, ThreadTypes, ResumeDone,
      PmReturn, IntvecPm, IntvecSew, IntvecFatal, IntvecDetects, ErrorStates, Callers, PmStates,
      L0
  <2>13. SuspendedMeansM3'
    BY <1>9, Trysets, Zenon DEF PmInv, SuspendedMeansM3, InError, Entering, HostTypes, PoweredOff,
      Unbound, Callback, ThreadTypes, ResumeDone, PmReturn, IntvecPm, IntvecSew, IntvecFatal,
      IntvecDetects, ErrorStates, Callers, PmStates, L0, lifev
  <2>14. Left'
    BY <1>9, Trysets DEF PmInv, Left, HostTypes, ModemTypes, ThreadTypes, Unbound, Parked,
      Owned, ResumeDone, PmReturn, IntvecPm, IntvecSew, IntvecFatal, IntvecDetects, InPBL,
      ChanEEs, Callers, Stages, Modems, Environments, RegAccess, PmStates, L0, ErrorStates,
      lifev
  <2> QED BY <2>1, <2>2, <2>3, <2>4, <2>5, <2>6, <2>7, <2>8, <2>9, <2>10, <2>11, <2>12, <2>13, <2>14, Zenon DEF PmInv
<1> QED BY <1>1, <1>2, <1>3, <1>4, <1>5, <1>6, <1>7, <1>8, <1>9, Zenon DEF PmStep

\* The clients of the bus.
LEMMA ClientStepKeeps == ASSUME PmInv, ClientStep PROVE PmInv'
<1>1. CASE mhi_prepare_for_transfer
  <2>1. UNCHANGED <<pm, dst, ee, irq, tks, tsk, stw, rw, sew, dis, mtx, chd, on, bnd, rpm, auto, pmc, faults, cycles>>
    BY <1>1, Zenon DEF mhi_prepare_for_transfer, ClRest, evv, disv, lifev
  <2>2. /\ HostTypes' /\ ThreadTypes' /\ PlaceTypes' /\ FlagTypes' /\ BudgetTypes'
         /\ Mutex' /\ Callback' /\ Unbound' /\ PoweredOff' /\ Forbidden' /\ InError'
         /\ Entering' /\ SuspendedMeansM3'
    BY <2>1, HostTypesKept, ThreadTypesKept, PlaceTypesKept, FlagTypesKept, BudgetTypesKept,
      MutexKept, CallbackKept, UnboundKept, PoweredOffKept, ForbiddenKept, InErrorKept,
      EnteringKept, SuspendedMeansM3Kept, Zenon DEF PmInv
  <2>3. ModemTypes'
    BY <1>1, ModemSets, Zenon DEF PmInv, ModemTypes, mhi_prepare_for_transfer, ClRest
  <2>4. Left'
    BY <1>1, Trysets, Zenon DEF PmInv, Left, HostTypes, ModemTypes, ThreadTypes, Unbound, Parked,
      Owned, mhi_prepare_for_transfer, Waken, ClRest, InPBL, ChanEEs, Callers, Stages, Modems,
      Environments, RegAccess, PmStates, L0, ErrorStates, disv, lifev
  <2>5. Paths'
    BY <1>1, Zenon DEF PmInv, Paths, mhi_prepare_for_transfer, Waken, ClRest
  <2> QED BY <2>1, <2>2, <2>3, <2>4, <2>5, Zenon DEF PmInv
<1>2. CASE ChanStarted
  <2>1. UNCHANGED <<pm, dst, ee, dev, irq, tks, tsk, stw, rw, sew, dis, mtx, chd, on, bnd, rpm, auto, pmc, faults,
                    cycles>>
    BY <1>2, Zenon DEF ChanStarted, ClRest, evv, disv, lifev
  <2>2. /\ HostTypes' /\ ModemTypes' /\ ThreadTypes' /\ PlaceTypes' /\ FlagTypes'
         /\ BudgetTypes' /\ Mutex' /\ Callback' /\ Unbound' /\ PoweredOff' /\ Forbidden'
         /\ InError' /\ Entering' /\ SuspendedMeansM3' /\ Left'
    BY <2>1, HostTypesKept, ModemTypesKept, ThreadTypesKept, PlaceTypesKept, FlagTypesKept,
      BudgetTypesKept, MutexKept, CallbackKept, UnboundKept, PoweredOffKept, ForbiddenKept,
      InErrorKept, EnteringKept, SuspendedMeansM3Kept, LeftKept, Zenon DEF PmInv
  <2>3. Paths'
    BY <1>2 DEF PmInv, Paths, ChanStarted, ClRest
  <2> QED BY <2>1, <2>2, <2>3, Zenon DEF PmInv
<1>3. CASE mhi_unprepare_from_transfer
  <2>1. UNCHANGED <<pm, dst, ee, dev, irq, tks, tsk, stw, rw, sew, dis, mtx, chd, on, bnd, rpm, auto, pmc, faults,
                    cycles>>
    BY <1>3, Zenon DEF mhi_unprepare_from_transfer, ClRest, evv, disv, lifev
  <2>2. /\ HostTypes' /\ ModemTypes' /\ ThreadTypes' /\ PlaceTypes' /\ FlagTypes'
         /\ BudgetTypes' /\ Mutex' /\ Callback' /\ Unbound' /\ PoweredOff' /\ Forbidden'
         /\ InError' /\ Entering' /\ SuspendedMeansM3' /\ Left'
    BY <2>1, HostTypesKept, ModemTypesKept, ThreadTypesKept, PlaceTypesKept, FlagTypesKept,
      BudgetTypesKept, MutexKept, CallbackKept, UnboundKept, PoweredOffKept, ForbiddenKept,
      InErrorKept, EnteringKept, SuspendedMeansM3Kept, LeftKept, Zenon DEF PmInv
  <2>3. Paths'
    BY <1>3 DEF PmInv, Paths, mhi_unprepare_from_transfer, ClRest
  <2> QED BY <2>1, <2>2, <2>3, Zenon DEF PmInv
<1>4. CASE mhi_debugfs_trigger_reset
  <2>1. UNCHANGED <<dev, tsk, stw, dis, mtx, chd, on, bnd, rpm, auto, pmc, cl, xp>>
    BY <1>4, Zenon DEF mhi_debugfs_trigger_reset, evv, disv, lifev, rpmv, clv
  <2>2. /\ ModemTypes' /\ ThreadTypes' /\ PlaceTypes' /\ Mutex' /\ Callback' /\ Unbound'
         /\ PoweredOff' /\ Forbidden' /\ Paths'
    BY <2>1, ModemTypesKept, ThreadTypesKept, PlaceTypesKept, MutexKept, CallbackKept,
      UnboundKept, PoweredOffKept, ForbiddenKept, PathsKept, Zenon DEF PmInv
  <2>3. HostTypes'
    BY <1>4, Trysets, Zenon DEF PmInv, HostTypes, ModemTypes, mhi_debugfs_trigger_reset, PmStates, L0,
      ErrorStates, InPBL, ChanEEs, RegAccess, MhiStates, Environments, Modems
  <2>4. FlagTypes'
    BY <1>4, Zenon DEF PmInv, FlagTypes, mhi_debugfs_trigger_reset, evv
  <2>5. BudgetTypes'
    BY <1>4, PmAssumption DEF PmInv, BudgetTypes, mhi_debugfs_trigger_reset
  <2>6. InError'
    BY <1>4, Trysets, Zenon DEF PmInv, InError, Forbidden, HostTypes, PoweredOff, Unbound, ThreadTypes,
      SuspendedMeansM3, Callback, mhi_debugfs_trigger_reset, ErrorStates, Callers, PmStates, L0,
      disv, lifev, rpmv
  <2>7. Entering'
    BY <1>4, Trysets, Zenon DEF PmInv, Entering, HostTypes, Callback, Mutex, ThreadTypes,
      mhi_debugfs_trigger_reset, ErrorStates, Callers, PmStates, L0, disv, rpmv
  <2>8. SuspendedMeansM3'
    BY <1>4, Trysets, Zenon DEF PmInv, SuspendedMeansM3, InError, Entering, HostTypes, PoweredOff,
      Unbound, Callback, ThreadTypes, mhi_debugfs_trigger_reset, ErrorStates, Callers, PmStates,
      L0, disv, lifev, rpmv
  <2>9. Left'
    BY <1>4, Trysets, Zenon DEF PmInv, Left, HostTypes, ModemTypes, ThreadTypes, Unbound, Parked,
      Owned, mhi_debugfs_trigger_reset, InPBL, ChanEEs, Callers, Stages, Modems, Environments,
      RegAccess, PmStates, L0, ErrorStates, disv, lifev, rpmv
  <2> QED BY <2>1, <2>2, <2>3, <2>4, <2>5, <2>6, <2>7, <2>8, <2>9, Zenon DEF PmInv
<1>5. CASE BhiWrite
  <2>1. UNCHANGED <<irq, tks, tsk, stw, rw, sew, dis, mtx, chd, on, bnd, rpm, auto, pmc, cl, xp, faults, cycles>>
    BY <1>5, Zenon DEF BhiWrite, BhiRest, ReadyDone, evv, workv, disv, lifev, rpmv
  <2>2. /\ ThreadTypes' /\ PlaceTypes' /\ FlagTypes' /\ BudgetTypes' /\ Mutex'
         /\ Callback' /\ Unbound' /\ PoweredOff' /\ Forbidden' /\ Paths'
    BY <2>1, ThreadTypesKept, PlaceTypesKept, FlagTypesKept, BudgetTypesKept, MutexKept,
      CallbackKept, UnboundKept, PoweredOffKept, ForbiddenKept, PathsKept, Zenon DEF PmInv
  <2>3. HostTypes'
    BY <1>5, Trysets DEF PmInv, HostTypes, ModemTypes, BhiWrite, SetState, BhiRest, ReadyDone,
      ReadySeen, ReadyFails, PmStates, L0, ErrorStates, InPBL, ChanEEs, RegAccess, MhiStates,
      Environments, Modems
  <2>4. ModemTypes'
    BY <1>5, ModemSets, Zenon DEF PmInv, ModemTypes, BhiWrite, BhiRest, ReadyDone, ReadySeen,
      ReadyFails
  <2>5. InError'
    BY <1>5, Trysets, Zenon DEF PmInv, InError, Forbidden, HostTypes, PoweredOff, Unbound, ThreadTypes,
      SuspendedMeansM3, Callback, BhiWrite, SetState, BhiRest, ReadyDone, ReadySeen, ReadyFails,
      ErrorStates, Callers, PmStates, L0, disv, lifev, rpmv
  <2>6. Entering'
    BY <1>5, Trysets DEF PmInv, Entering, HostTypes, Callback, Mutex, ThreadTypes, BhiWrite,
      SetState, BhiRest, ReadyDone, ReadySeen, ReadyFails, ErrorStates, Callers, PmStates, L0,
      disv, rpmv
  <2>7. SuspendedMeansM3'
    BY <1>5, Trysets, Zenon DEF PmInv, SuspendedMeansM3, InError, Entering, HostTypes, PoweredOff,
      Unbound, Callback, ThreadTypes, BhiWrite, SetState, BhiRest, ReadyDone, ReadySeen,
      ReadyFails, ErrorStates, Callers, PmStates, L0, disv, lifev, rpmv
  <2>8. Left'
    BY <1>5, Trysets DEF PmInv, Left, HostTypes, ModemTypes, ThreadTypes, Unbound, Parked,
      Owned, BhiWrite, SetState, BhiRest, ReadyDone, ReadySeen, ReadyFails, InPBL, ChanEEs,
      Callers, Stages, Modems, Environments, RegAccess, PmStates, L0, ErrorStates, workv, disv,
      lifev, rpmv
  <2> QED BY <2>1, <2>2, <2>3, <2>4, <2>5, <2>6, <2>7, <2>8, Zenon DEF PmInv
<1> QED BY <1>1, <1>2, <1>3, <1>4, <1>5, Zenon DEF ClientStep

---------------------------------------------------------------------------
(* Results.                                                                *)

\* A driver that is loaded satisfies the invariant.
LEMMA PmStarts == ASSUME PmInit PROVE PmInv
<1>1. HostTypes /\ PlaceTypes /\ FlagTypes /\ Paths
  BY Zenon DEF PmInit, HostTypes, PmStates, L0, MhiStates, PlaceTypes, FlagTypes, Paths
<1>2. ModemTypes /\ BudgetTypes
  <2>1. dev \in [st : {"RESET"}, ee : StartEE, rst : {FALSE}, req : {"-"}]
    BY Zenon DEF PmInit
  <2>2. ModemTypes
    BY <2>1, PmAssumption, Zenon DEF ModemTypes, Modems, Environments, MhiStates, InPBL, ChanEEs
  <2>3. BudgetTypes
    BY PmAssumption DEF PmInit, BudgetTypes
  <2> QED BY <2>2, <2>3
<1>3. ThreadTypes
  BY Zenon DEF PmInit, ThreadTypes, Callers, Stages
<1>4. dis["sys"] = "idle" /\ dis["down"] = "idle"
  BY Zenon DEF PmInit
<1>5. dev.st # "SYS_ERR"
  BY Zenon DEF PmInit
<1>6. Mutex /\ Callback /\ Unbound /\ PoweredOff /\ Forbidden
  BY <1>4, Zenon DEF PmInit, Mutex, Callback, Unbound, PoweredOff, Forbidden
<1>7. InError /\ Entering /\ SuspendedMeansM3 /\ Left
  BY <1>5, Zenon DEF PmInit, InError, Entering, SuspendedMeansM3, Left
<1> QED BY <1>1, <1>2, <1>3, <1>6, <1>7, Zenon DEF PmInv

\* Every step keeps it.
LEMMA PmKeeps == ASSUME PmInv, [PmNext]_pmVars PROVE PmInv'
<1>1. CASE UNCHANGED pmVars
  <2>1. UNCHANGED <<hostv, dev, evv, workv, disv, lifev, rpmv, clv, budv>>
    BY <1>1, Zenon DEF pmVars
  <2>2. UNCHANGED <<pm, dst, ee, dev, irq, tks, tsk, stw, rw, sew, dis, mtx, chd, on, bnd>>
    BY <2>1, Zenon DEF hostv, evv, workv, disv, lifev
  <2>3. UNCHANGED <<rpm, auto, pmc, cl, xp, faults, cycles>>
    BY <2>1, Zenon DEF rpmv, clv, budv
  <2>4. HostTypes' /\ ModemTypes' /\ ThreadTypes' /\ PlaceTypes' /\ FlagTypes' /\ BudgetTypes'
    BY <2>2, <2>3, HostTypesKept, ModemTypesKept, ThreadTypesKept, PlaceTypesKept, FlagTypesKept,
       BudgetTypesKept, Zenon DEF PmInv
  <2>5. Mutex' /\ Callback' /\ Unbound' /\ PoweredOff' /\ Forbidden'
    BY <2>2, <2>3, MutexKept, CallbackKept, UnboundKept, PoweredOffKept, ForbiddenKept, Zenon DEF PmInv
  <2>6. InError' /\ Entering' /\ SuspendedMeansM3' /\ Left' /\ Paths'
    BY <2>2, <2>3, InErrorKept, EnteringKept, SuspendedMeansM3Kept, LeftKept, PathsKept, Zenon DEF PmInv
  <2> QED BY <2>4, <2>5, <2>6, Zenon DEF PmInv
<1> QED BY <1>1, DevStepKeeps, EventStepKeeps, WorkStepKeeps, DisableStepKeeps, LifeStepKeeps,
           PmStepKeeps, ClientStepKeeps, Zenon DEF PmNext

\* The invariant holds of the driver.
THEOREM PmInvariant == PmSpec => []PmInv
BY PmStarts, PmKeeps, PTL DEF PmSpec

\* Every variable of the driver keeps its type; xfer_paths counts the started channel.
THEOREM PmTypesHold == PmSpec => []PmTypeOK
<1>1. PmInv => PmTypeOK
  <2> SUFFICES ASSUME PmInv PROVE PmTypeOK
    OBVIOUS
  <2>1. xp \in 0 .. 1 /\ cl \in {"closed", "starting", "started"}
    BY DEF PmInv, Paths
  <2>2. ee \in {"MAX", "DISABLE_TRANSITION", "RDDM"} \cup InPBL \cup ChanEEs
    BY Zenon DEF PmInv, HostTypes, Environments
  <2> QED BY <2>1, <2>2, Zenon DEF PmInv, PmTypeOK, HostTypes, MhiStates, ThreadTypes, PlaceTypes,
              FlagTypes, BudgetTypes
<1> QED BY <1>1, PmInvariant, PTL

\* The PM core believes the device suspended only if the modem went to M3 or an
\* error was found since (mhi_runtime_suspend, mhi_pm_suspend).
THEOREM SuspendedMeansM3Holds == PmSpec => []SuspendedMeansM3
<1>1. PmInv => SuspendedMeansM3
  BY Zenon DEF PmInv
<1> QED BY <1>1, PmInvariant, PTL

\* A detected system error has an owner, or the modem is in a boot loader and the
\* error is left to the controller (mhi_intvec_threaded_handlr).
THEOREM ErrorIsOwnedHolds == PmSpec => []ErrorIsOwned
<1>1. PmInv => ErrorIsOwned
  BY Zenon DEF PmInv, Left, Parked, Owned, ErrorIsOwned, InPBL
<1> QED BY <1>1, PmInvariant, PTL

\* The waits of the driver's threads are ordered: clients and st_worker wait for
\* nobody, and neither does the holder of pm_mutex; a callback waits for that holder
\* only; the disable transitions wait for any of these, never for each other.
LEMMA WaitsAreOrdered == ASSUME ThreadTypes, Mutex, pmc # "self" PROVE NoWaitCycle
<1>1. /\ \A u \in WaitsFor["st"] : FALSE
      /\ \A u \in WaitsFor["cl"] : FALSE
      /\ \A u \in WaitsFor["pm"] : u = mtx
      /\ \A u \in WaitsFor["sys"] : u \in {mtx, "st", "cl", "pm"}
      /\ \A u \in WaitsFor["down"] : u \in {mtx, "st", "cl", "pm"}
  BY Zenon DEF WaitsFor, Threads
<1>2. mtx # "none" => \A u \in WaitsFor[mtx] : FALSE
  BY Zenon DEF WaitsFor, Threads, ThreadTypes, Mutex
<1> SUFFICES ASSUME NEW S \in (SUBSET Threads) \ {{}}
             PROVE  \E t \in S : WaitsFor[t] \cap S = {}
  BY Zenon DEF NoWaitCycle
<1> SUFFICES \E t \in S : \A u \in WaitsFor[t] : u \notin S
  OBVIOUS
<1>3. CASE mtx \in S
  BY <1>2, <1>3, Zenon DEF Threads
<1>4. CASE mtx \notin S /\ ("st" \in S \/ "cl" \in S \/ "pm" \in S)
  BY <1>1, <1>4, Zenon
<1>5. CASE mtx \notin S /\ "st" \notin S /\ "cl" \notin S /\ "pm" \notin S
  <2>0. \E t \in Threads : t \in S
    BY Zenon
  <2>1. "sys" \in S \/ "down" \in S
    BY <1>5, <2>0, Zenon DEF Threads
  <2> QED BY <1>1, <1>5, <2>1
<1> QED BY <1>3, <1>4, <1>5, Zenon

\* No set of the driver's threads waits in a circle, unless it is mhi_pm_resume that
\* waits for itself: only a fatal error reported from inside it could close a circle.
THEOREM OnlyResumeWaitsInCircle == PmSpec => [](pmc # "self" => NoWaitCycle)
<1>1. PmInv => (pmc # "self" => NoWaitCycle)
  BY WaitsAreOrdered, Zenon DEF PmInv
<1> QED BY <1>1, PmInvariant, PTL
=============================================================================
