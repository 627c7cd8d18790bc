---------------------------- MODULE WwanControl ----------------------------
(***************************************************************************)
(* Everything that takes the wwan interface down or brings it up, and what *)
(* resets the modem under it: the watchdog's redials and resets, the UI's  *)
(* Connect, Disconnect, PIN entry and operator scan, the other holders of  *)
(* the network-reconfiguration lock, and the modem firmware upgrade, which *)
(* raises a flag the others are to respect.                                *)
(*                                                                         *)
(* Each script is a sequence of instructions; a `Slot` is a process that   *)
(* runs one script at a time.                                              *)
(***************************************************************************)
EXTENDS Integers, Sequences

CONSTANTS
  Slots,      \* processes
  Watchdog,   \* the slot of gl-cellular-boot-redial and its children
  Events,     \* what may happen, of AllEvents
  None

AllEvents == {"redial", "relock", "mhi", "reset", "connect", "settings", "disconnect",
              "pin", "scan", "scanOnly", "health", "upgrade", "reboot", "fault"}

ASSUME ControlAssumption ==
  /\ Watchdog \in Slots
  /\ Events \subseteq AllEvents
  /\ None \notin Slots

VARIABLES
  job,        \* the script each slot runs
  at,         \* and the instruction it is at
  lock,       \* holder of gl-net-reconfig.lock
  wwan,       \* netifd's view of the interface and its qcm setup
  dial,       \* gl-cellular.state.dial_enabled
  scanning,   \* gl-cellular.state.scan_in_progress
  flashing,   \* /var/run/gl-cellular-flashing exists
  fw,         \* where upgrade_cellular is
  watching    \* the watchdog service is running

scripts == <<job, at, lock>>
intent == <<dial, scanning>>
vars == <<scripts, intent, wwan, flashing, fw, watching>>

----------------------------------------------------------------------------
\* An instruction, and the number of instructions to skip when it is not
\* carried out (0: the script exits).
Op(name) == [op |-> name, skip |-> 0]
OpOr(name, n) == [op |-> name, skip |-> n]

\* gl-cellular-wwan-reconnect; "tick" is the rest of the watchdog's tick that
\* starts the script
Reconnect == <<Op("tick"), Op("unflashed"), Op("lock"), Op("wanted"), Op("ifdownOrExit"),
               Op("attach"), Op("wanted"), Op("ifup")>>

\* the subshell of do_redial
Redial == <<Op("tick"), Op("lock"), Op("ifdown"), Op("wait"), Op("enabled"), Op("ifup")>>

\* gl-cellular-modem-reset
ModemReset == <<Op("tick"), Op("unflashed"), Op("mayfail"), Op("lock"), Op("wanted"),
                Op("ifdownOrExit"), Op("touch"), Op("wanted"), Op("ifup")>>

\* gl-cellular-mhi-reset: the channels, then the controller
MhiReset == <<Op("tick"), Op("unflashed"), Op("lock"), Op("mayfail"),
              OpOr("touch", 5), Op("traffic"), OpOr("ifdownIfNotUp", 3), Op("wait"), Op("ifup"),
              Op("traffic"),
              OpOr("touch", 4), OpOr("ifdownIfNotUp", 1), Op("wait"), Op("ifup"), Op("wait")>>

\* gl-cellular-net-run with what modem.lua hands to it
NetDown == <<Op("lock"), Op("ifdown")>>
PinBounce == <<Op("lock"), Op("ifdown"), Op("pause"), Op("ifup")>>

\* scan_operator_list with the worker of at.lua
Scan == <<OpOr("lock", 2), Op("ifdown"), Op("unlock"), Op("wait"),
          OpOr("lock", 2), Op("ifup"), Op("unlock"), Op("scanned"),
          Op("lock"), Op("ifup")>>
ScanOnly == <<Op("wait"), Op("scanned")>>

\* recover() of gl-wan-health, which holds the lock for another interface
Health == <<Op("lock"), Op("hold")>>

Script(j) ==
  CASE j \in {"relock", "connect", "settings"} -> Reconnect
    [] j = "redial" -> Redial
    [] j = "reset" -> ModemReset
    [] j = "mhi" -> MhiReset
    [] j = "disconnect" -> NetDown
    [] j = "pin" -> PinBounce
    [] j = "scan" -> Scan
    [] j = "scanOnly" -> ScanOnly
    [] j = "health" -> Health

Idle(s) == job[s] = "none"
Here(s) == Script(job[s])[at[s]]
Runs(s, op) == ~Idle(s) /\ Here(s).op = op

\* auto, disabled, dial_enabled and scan_in_progress, as every script reads them
Wanted == dial /\ ~scanning

Init ==
  /\ job = [s \in Slots |-> "none"]
  /\ at = [s \in Slots |-> 1]
  /\ lock = None
  /\ wwan = "starting"
  /\ dial = TRUE
  /\ scanning = FALSE
  /\ flashing = FALSE
  /\ fw = "idle"
  /\ watching = TRUE

----------------------------------------------------------------------------
\* The script of s ends, and with it its hold on the lock.
End(s) ==
  /\ job' = [job EXCEPT ![s] = "none"]
  /\ at' = [at EXCEPT ![s] = 1]
  /\ lock' = IF lock = s THEN None ELSE lock

\* It goes on, n instructions further than the next one.
Advance(s, n) ==
  /\ at' = [at EXCEPT ![s] = @ + 1 + n]
  /\ job' = job

Continue(s) ==
  IF at[s] = Len(Script(job[s])) THEN End(s) ELSE Advance(s, 0) /\ lock' = lock

\* It does not carry out the instruction it is at.
Decline(s) ==
  LET n == Here(s).skip IN
  IF n = 0 \/ at[s] + 1 + n > Len(Script(job[s])) THEN End(s) ELSE Advance(s, n) /\ lock' = lock

\* [ -e /var/run/gl-cellular-flashing ] && exit
Flagged == flashing
CheckFlag(s) ==
  /\ Runs(s, "unflashed")
  /\ IF Flagged THEN Decline(s) ELSE Continue(s)
  /\ UNCHANGED <<wwan, intent, flashing, fw, watching>>

\* How long, at most and in seconds, a holder of the lock can stay at its
\* instruction, and how long a script tries to get the lock.
LongestHold(s) ==
  CASE Runs(s, "hold") -> 16
    [] Runs(s, "attach") -> 24
    [] Runs(s, "wait") \/ Runs(s, "touch") \/ Runs(s, "traffic") -> 120
    [] OTHER -> 2

PatienceMutant(j) ==
  CASE j \in {"redial", "relock", "connect", "settings"} -> 10
    [] j = "mhi" -> 15
    [] OTHER -> 30
Patience(j) ==
  CASE j = "redial" -> 10
    [] j = "mhi" -> 15
    [] j \in {"relock", "connect", "settings"} -> 20
    [] OTHER -> 30

\* The bounded `until flock -n 9` loop.
LockFreeMutant == TRUE
LockFree == lock = None
TakeLock(s) ==
  /\ Runs(s, "lock")
  /\ \/ LockFree /\ lock' = s /\ Advance(s, 0)
     \/ lock # None /\ LongestHold(lock) > Patience(job[s]) /\ Decline(s)
  /\ UNCHANGED <<wwan, intent, flashing, fw, watching>>

ReleaseLock(s) ==
  /\ Runs(s, "unlock")
  /\ lock' = None
  /\ Advance(s, 0)
  /\ UNCHANGED <<wwan, intent, flashing, fw, watching>>

\* The user's intent read again; enabled() also wants a SIM that is not locked.
CheckWantedMutant(s) ==
  /\ Runs(s, "wanted") \/ Runs(s, "enabled")
  /\ Continue(s)
  /\ UNCHANGED <<wwan, intent, flashing, fw, watching>>
CheckWanted(s) ==
  /\ \/ (Runs(s, "wanted") \/ Runs(s, "enabled")) /\ Wanted /\ Continue(s)
     \/ ((Runs(s, "wanted") /\ ~Wanted) \/ Runs(s, "enabled")) /\ Decline(s)
  /\ UNCHANGED <<wwan, intent, flashing, fw, watching>>

\* ifdown: netifd ends the qcm setup and the data call, or cannot be reached.
IfDown(s) ==
  /\ \/ (Runs(s, "ifdown") \/ Runs(s, "ifdownOrExit")) /\ wwan' = "down" /\ Continue(s)
     \/ Runs(s, "ifdownOrExit") /\ "fault" \in Events /\ wwan' = wwan /\ Decline(s)
     \/ Runs(s, "ifdownIfNotUp") /\ wwan # "up" /\ wwan' = "down" /\ Continue(s)
     \/ Runs(s, "ifdownIfNotUp") /\ wwan = "up" /\ wwan' = wwan /\ Decline(s)
  /\ UNCHANGED <<intent, flashing, fw, watching>>

\* ifup: netifd runs the qcm setup from its start.
IfUp(s) ==
  /\ Runs(s, "ifup")
  /\ wwan' = "starting"
  /\ Continue(s)
  /\ UNCHANGED <<intent, flashing, fw, watching>>

\* A wait, the modem's reset (which may not be possible) and a step that may
\* find it cannot go on; wait_for_traffic ends the script when it sees any.
WorkMutant(s) ==
  /\ ~Idle(s)
  /\ Here(s).op \in {"tick", "pause", "hold", "attach", "wait", "touch", "mayfail", "traffic"}
  /\ ~(job[s] = "redial" /\ Here(s).op = "wait")
  /\ Continue(s)
  /\ UNCHANGED <<wwan, intent, flashing, fw, watching>>
Work(s) ==
  /\ \/ ~Idle(s) /\ Here(s).op \in {"tick", "pause", "hold", "attach", "wait", "touch"}
        /\ Continue(s)
     \/ Runs(s, "touch") /\ Here(s).skip # 0 /\ Decline(s)
     \/ Runs(s, "mayfail") /\ (Continue(s) \/ Decline(s))
     \/ Runs(s, "traffic") /\ Continue(s)
     \/ Runs(s, "traffic") /\ wwan = "up" /\ End(s)
  /\ UNCHANGED <<wwan, intent, flashing, fw, watching>>

\* The scan's answer arrives and the request clears the flag; without an
\* answer the request redials once more; an aborted request clears nothing.
Scanned(s) ==
  /\ Runs(s, "scanned")
  /\ \/ scanning' = FALSE /\ (End(s) \/ Continue(s))
     \/ UNCHANGED scanning /\ End(s)
  /\ UNCHANGED <<wwan, dial, flashing, fw, watching>>

Step(s) ==
  \/ CheckFlag(s) \/ TakeLock(s) \/ ReleaseLock(s) \/ CheckWanted(s)
  \/ IfDown(s) \/ IfUp(s) \/ Work(s) \/ Scanned(s)

----------------------------------------------------------------------------
Begin(s, j, first) ==
  /\ Idle(s) /\ j \in Events
  /\ job' = [job EXCEPT ![s] = j]
  /\ at' = [at EXCEPT ![s] = first]
  /\ lock' = lock

\* os.execute holds up the one nginx worker: what the UI runs in the
\* foreground is over before it takes another request.
Blocking(s) == job[s] = "disconnect" \/ (job[s] = "scan" /\ (at[s] < 4 \/ at[s] > 8))
Request(s, j) ==
  /\ s # Watchdog
  /\ \A t \in Slots : ~Blocking(t)
  /\ Begin(s, j, IF j \in {"connect", "settings"} THEN 2 ELSE 1)

\* A tick of the watchdog that ends in a recovery: it looked at the flag and
\* at the user's intent when it began.
Recover(j) ==
  /\ watching /\ ~flashing /\ Wanted
  /\ Begin(Watchdog, j, 1)
  /\ UNCHANGED <<wwan, intent, flashing, fw, watching>>

Scans(s) == job[s] \in {"scan", "scanOnly"}

ExpireScan ==
  /\ watching /\ ~flashing /\ scanning /\ dial
  /\ \A s \in Slots : ~Scans(s)
  /\ scanning' = FALSE
  /\ UNCHANGED <<scripts, dial, wwan, flashing, fw, watching>>

Connect(s) ==
  /\ Request(s, "connect")
  /\ dial' = TRUE
  /\ UNCHANGED <<scanning, wwan, flashing, fw, watching>>

\* set_sim_config, the tower lock and the SIM slot end in a reconnect.
ApplySettings(s) ==
  /\ Request(s, "settings")
  /\ UNCHANGED <<intent, wwan, flashing, fw, watching>>

Disconnect(s) ==
  /\ Request(s, "disconnect")
  /\ dial' = FALSE
  /\ UNCHANGED <<scanning, wwan, flashing, fw, watching>>

\* set_sim_pin_code, when wwan is neither up nor pending
EnterPin(s) ==
  /\ Request(s, "pin")
  /\ wwan \in {"down", "blocked"}
  /\ UNCHANGED <<intent, wwan, flashing, fw, watching>>

StartScan(s) ==
  /\ Request(s, IF dial THEN "scan" ELSE "scanOnly")
  /\ scanning' = TRUE
  /\ UNCHANGED <<dial, wwan, flashing, fw, watching>>

RecoverWan(s) ==
  /\ s # Watchdog /\ Begin(s, "health", 1)
  /\ UNCHANGED <<intent, wwan, flashing, fw, watching>>

----------------------------------------------------------------------------
\* proto_qcm_setup: the gate, then a setup that succeeds, is to be retried or
\* finds that it needs the user; and a data call that ends.
QcmGateMutant == "setup"
QcmGate == IF flashing THEN "blocked" ELSE "setup"
Qcm ==
  /\ \/ wwan = "starting" /\ wwan' = QcmGate
     \/ wwan = "setup" /\ wwan' \in {"up", "starting", "blocked"}
     \/ wwan = "up" /\ wwan' = "starting"
  /\ UNCHANGED <<scripts, intent, flashing, fw, watching>>

\* The watchdog service is stopped: the watchdog goes, a script it has
\* started stays.
StopWatchdog ==
  /\ watching' = FALSE
  /\ IF Runs(Watchdog, "tick") THEN End(Watchdog) ELSE UNCHANGED scripts

\* cellular_stack_stop, in its order, then the write.
FwStops ==
  /\ \/ fw \in {"idle", "dead"} /\ "upgrade" \in Events /\ fw' = "raised" /\ flashing' = TRUE
        /\ UNCHANGED <<scripts, wwan, watching>>
     \/ fw = "raised" /\ fw' = "stopped" /\ StopWatchdog /\ UNCHANGED <<wwan, flashing>>
     \/ fw = "stopped" /\ fw' = "write" /\ wwan' = "down"
        /\ UNCHANGED <<scripts, flashing, watching>>
  /\ UNCHANGED intent

\* The write fails, or was the modem's own update: cellular_stack_start, in
\* its order.
FwRestarts ==
  /\ \/ fw = "write" /\ fw' = "lowered" /\ flashing' = FALSE /\ UNCHANGED <<wwan, watching>>
     \/ fw = "lowered" /\ fw' = "started" /\ watching' = TRUE /\ UNCHANGED <<wwan, flashing>>
     \/ fw = "started" /\ fw' \in {"idle", "done"} /\ wwan' = "starting"
        /\ UNCHANGED <<flashing, watching>>
  /\ UNCHANGED <<scripts, intent>>

\* The script dies and leaves the flag.
FwDies ==
  /\ fw = "write" /\ fw' = "dead"
  /\ UNCHANGED <<scripts, intent, wwan, flashing, watching>>

\* The committed options survive; netifd starts wwan, whose option auto is 1.
Reboot ==
  /\ "reboot" \in Events \/ fw \in {"write", "done"}
  /\ job' = [s \in Slots |-> "none"]
  /\ at' = [s \in Slots |-> 1]
  /\ lock' = None
  /\ wwan' = "starting"
  /\ flashing' = FALSE /\ fw' = "idle" /\ watching' = TRUE
  /\ UNCHANGED intent

Next ==
  \/ \E s \in Slots : \/ Step(s) \/ Connect(s) \/ Disconnect(s) \/ ApplySettings(s)
                      \/ EnterPin(s) \/ StartScan(s) \/ RecoverWan(s)
  \/ \E j \in {"redial", "relock", "mhi", "reset"} : Recover(j)
  \/ ExpireScan \/ Qcm \/ FwStops \/ FwRestarts \/ FwDies \/ Reboot

Spec == Init /\ [][Next]_vars

\* A script goes on, its wait for the lock being bounded, and the watchdog
\* keeps looking at the scan flag.
FairSpec == Spec /\ (\A s \in Slots : SF_vars(Step(s))) /\ WF_vars(ExpireScan)
----------------------------------------------------------------------------
TypeOK ==
  /\ job \in [Slots -> AllEvents \cup {"none"}]
  /\ at \in [Slots -> 1..15]
  /\ \A s \in Slots : ~Idle(s) => at[s] <= Len(Script(job[s]))
  /\ lock \in Slots \cup {None}
  /\ wwan \in {"down", "starting", "setup", "up", "blocked"}
  /\ dial \in BOOLEAN /\ scanning \in BOOLEAN
  /\ flashing \in BOOLEAN /\ watching \in BOOLEAN
  /\ fw \in {"idle", "raised", "stopped", "write", "lowered", "started", "done", "dead"}

\* While QFirehose writes the modem's firmware no data call runs on it and
\* none is being set up, whatever redial, reconnect or UI action was under
\* way: the flag is raised before wwan is taken down and the qcm setup looks
\* at it first.
NoDataCallWhileFlashing == fw \in {"write", "dead"} => wwan \notin {"setup", "up"}

\* Once s has taken wwan down and until it brings it up again, it stays down:
\* no other script bounces the interface in between.
Bouncing(s) ==
  /\ lock = s
  /\ job[s] \in {"redial", "relock", "connect", "settings", "reset", "pin"}
  /\ \E i \in 1..(at[s] - 1) : Script(job[s])[i].op \in {"ifdown", "ifdownOrExit"}
BouncesDoNotInterleave == \A s \in Slots : Bouncing(s) => wwan = "down"

\* "Desired dial state": when no script is under way and the user has chosen
\* Disconnect, wwan is down.
DisconnectSticks ==
  ~dial /\ fw = "idle" /\ (\A s \in Slots : Idle(s)) => wwan \in {"down", "blocked"}

\* The converse: when no script is under way and the user has chosen Connect,
\* wwan has not been left down by a reconnect that gave up or was overtaken.
ConnectTakesEffect ==
  Wanted /\ fw = "idle" /\ (\A s \in Slots : Idle(s)) => wwan # "down"

\* Every script ends: none waits for ever for a lock that is never released.
EveryScriptEnds == \A s \in Slots : ~Idle(s) ~> Idle(s)

============================================================================
