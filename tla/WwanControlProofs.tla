------------------------- MODULE WwanControlProofs -------------------------
(***************************************************************************)
(* For any number of processes and any events: no data call on a modem     *)
(* that is being flashed, and, without an upgrade, bounces of wwan that do *)
(* not interleave.                                                         *)
(***************************************************************************)
EXTENDS WwanControl, TLAPS

\* The flag stands from before the interface is taken down until after the
\* write, and then nothing gets past the gate of the qcm setup.
FlashInv ==
  /\ fw \in {"raised", "stopped", "write", "dead"} => flashing
  /\ fw \in {"write", "dead"} => wwan \notin {"setup", "up"}

\* What a script's instruction does to the interface and to the upgrade.
LEMMA StepEffect ==
  ASSUME NEW s, Step(s)
  PROVE  /\ wwan' \in {wwan, "down", "starting"}
         /\ fw' = fw /\ flashing' = flashing
BY DEF Step, CheckFlag, TakeLock, ReleaseLock, CheckWanted, IfDown, IfUp, Work, Scanned

\* Neither a request nor a tick of the watchdog touches them when it begins.
LEMMA StartEffect ==
  ASSUME NEW s, NEW j,
         \/ Connect(s) \/ Disconnect(s) \/ ApplySettings(s) \/ EnterPin(s)
         \/ StartScan(s) \/ RecoverWan(s) \/ Recover(j) \/ ExpireScan
  PROVE  wwan' = wwan /\ fw' = fw /\ flashing' = flashing
BY DEF Connect, Disconnect, ApplySettings, EnterPin, StartScan, RecoverWan, Recover, ExpireScan

\* No script, request, setup or stage of the upgrade breaks FlashInv.
THEOREM FlashInductive == Spec => []FlashInv
<1>1. Init => FlashInv
  BY DEF Init, FlashInv
<1>2. FlashInv /\ [Next]_vars => FlashInv'
  <2> SUFFICES ASSUME FlashInv, [Next]_vars PROVE FlashInv'
    OBVIOUS
  <2>1. ASSUME NEW s \in Slots, Step(s) PROVE FlashInv'
    BY <2>1, StepEffect DEF FlashInv
  <2>2. ASSUME NEW s \in Slots,
               \/ Connect(s) \/ Disconnect(s) \/ ApplySettings(s) \/ EnterPin(s)
               \/ StartScan(s) \/ RecoverWan(s)
        PROVE FlashInv'
    BY <2>2, StartEffect DEF FlashInv
  <2>3. ASSUME NEW j \in {"redial", "relock", "mhi", "reset"}, Recover(j) PROVE FlashInv'
    BY <2>3, StartEffect DEF FlashInv
  <2>4. CASE ExpireScan
    BY <2>4, StartEffect DEF FlashInv
  <2>5. CASE Qcm
    BY <2>5 DEF Qcm, QcmGate, FlashInv
  <2>6. CASE FwStops
    BY <2>6 DEF FwStops, StopWatchdog, FlashInv
  <2>7. CASE FwRestarts
    BY <2>7 DEF FwRestarts, FlashInv
  <2>8. CASE FwDies
    BY <2>8 DEF FwDies, FlashInv
  <2>9. CASE Reboot
    BY <2>9 DEF Reboot, FlashInv
  <2>10. CASE UNCHANGED vars
    BY <2>10 DEF vars, scripts, intent, FlashInv
  <2> QED
    BY <2>1, <2>2, <2>3, <2>4, <2>5, <2>6, <2>7, <2>8, <2>9, <2>10 DEF Next
<1> QED
  BY <1>1, <1>2, PTL DEF Spec

\* Whatever scripts are under way when the upgrade starts, no data call runs
\* on the modem, or is being set up, while its firmware is written.
THEOREM NoDataCallWhileFlashingHolds == Spec => []NoDataCallWhileFlashing
<1>1. FlashInv => NoDataCallWhileFlashing
  BY DEF FlashInv, NoDataCallWhileFlashing
<1> QED
  BY <1>1, FlashInductive, PTL

----------------------------------------------------------------------------
Jobs == {"redial", "relock", "mhi", "reset", "connect", "settings", "disconnect", "pin", "scan",
         "scanOnly", "health"}

\* The instructions of a script that run under the lock, and those between a
\* bounce's ifdown and the end of its ifup.
Held(j) ==
  CASE j \in {"relock", "connect", "settings"} -> 4..8
    [] j = "redial" -> 3..6
    [] j = "reset" -> 5..9
    [] j = "mhi" -> 4..15
    [] j = "disconnect" -> {2}
    [] j = "pin" -> 2..4
    [] j = "scan" -> {2, 3, 6, 7, 10}
    [] j = "scanOnly" -> {}
    [] j = "health" -> {2}
Down(j) ==
  CASE j \in {"relock", "connect", "settings"} -> 6..8
    [] j = "redial" -> 4..6
    [] j = "reset" -> 7..9
    [] j = "pin" -> 3..4
    [] OTHER -> {}
Bouncers == {"redial", "relock", "connect", "settings", "reset", "pin"}

\* What the tables say about the instruction i of the script j.
Tabled(j, i) ==
  LET n == Len(Script(j)) op == Script(j)[i].op skip == Script(j)[i].skip IN
  /\ n \in 2..15 /\ skip \in 0..5
  /\ op \in {"ifdown", "ifdownOrExit", "ifdownIfNotUp", "ifup", "unlock"} => i \in Held(j)
  /\ op \in {"lock", "unlock"} => i < n
  /\ op = "unlock" => i + 1 \notin Held(j)
  /\ op # "lock" /\ i < n /\ i + 1 \in Held(j) => i \in Held(j)
  /\ skip # 0 /\ i + 1 + skip <= n /\ i + 1 + skip \in Held(j) => op # "lock" /\ i \in Held(j)
  /\ i < n /\ i + 1 \in Down(j) => i \in Down(j) \/ op \in {"ifdown", "ifdownOrExit"}
  /\ skip # 0 => i + 1 + skip \notin Down(j)
  /\ i \in Down(j) => i \in Held(j) /\ (op = "ifup" => i = n)
  /\ j \in Bouncers /\ op \in {"ifdown", "ifdownOrExit"} => \A k \in (i + 1)..n : k \in Down(j)

\* No script is shorter than two instructions.
LEMMA Lengths == \A j \in Jobs : Len(Script(j)) \in 2..15
<1>1. ASSUME NEW j \in {"relock", "connect", "settings"} PROVE Len(Script(j)) \in 2..15
  <2>1. Script(j) = Reconnect
    BY DEF Script
  <2> QED
    BY <2>1 DEF Reconnect
<1>2. ASSUME NEW j \in {"redial"} PROVE Len(Script(j)) \in 2..15
  <2>1. Script(j) = Redial
    BY DEF Script
  <2> QED
    BY <2>1 DEF Redial
<1>3. ASSUME NEW j \in {"reset"} PROVE Len(Script(j)) \in 2..15
  <2>1. Script(j) = ModemReset
    BY DEF Script
  <2> QED
    BY <2>1 DEF ModemReset
<1>4. ASSUME NEW j \in {"mhi"} PROVE Len(Script(j)) \in 2..15
  <2>1. Script(j) = MhiReset
    BY DEF Script
  <2> QED
    BY <2>1 DEF MhiReset
<1>5. ASSUME NEW j \in {"disconnect"} PROVE Len(Script(j)) \in 2..15
  <2>1. Script(j) = NetDown
    BY DEF Script
  <2> QED
    BY <2>1 DEF NetDown
<1>6. ASSUME NEW j \in {"pin"} PROVE Len(Script(j)) \in 2..15
  <2>1. Script(j) = PinBounce
    BY DEF Script
  <2> QED
    BY <2>1 DEF PinBounce
<1>7. ASSUME NEW j \in {"scan"} PROVE Len(Script(j)) \in 2..15
  <2>1. Script(j) = Scan
    BY DEF Script
  <2> QED
    BY <2>1 DEF Scan
<1>8. ASSUME NEW j \in {"scanOnly"} PROVE Len(Script(j)) \in 2..15
  <2>1. Script(j) = ScanOnly
    BY DEF Script
  <2> QED
    BY <2>1 DEF ScanOnly
<1>9. ASSUME NEW j \in {"health"} PROVE Len(Script(j)) \in 2..15
  <2>1. Script(j) = Health
    BY DEF Script
  <2> QED
    BY <2>1 DEF Health
<1> QED
  BY <1>1, <1>2, <1>3, <1>4, <1>5, <1>6, <1>7, <1>8, <1>9 DEF Jobs

\* The tables are right.
LEMMA Tables == \A j \in Jobs : \A i \in 1..Len(Script(j)) : Tabled(j, i)
<1> USE DEF Tabled, Held, Down, Bouncers, Op, OpOr
<1>1. ASSUME NEW j \in {"relock", "connect", "settings"}, NEW i \in 1..Len(Script(j))
      PROVE Tabled(j, i)
  <2>1. Script(j) = Reconnect
    BY <1>1 DEF Script
  <2>2. Len(Reconnect) = 8
    BY DEF Reconnect
  <2> QED
    BY <1>1, <2>1, <2>2 DEF Reconnect
<1>2. ASSUME NEW j \in {"redial"}, NEW i \in 1..Len(Script(j))
      PROVE Tabled(j, i)
  <2>1. Script(j) = Redial
    BY <1>2 DEF Script
  <2>2. Len(Redial) = 6
    BY DEF Redial
  <2> QED
    BY <1>2, <2>1, <2>2 DEF Redial
<1>3. ASSUME NEW j \in {"reset"}, NEW i \in 1..Len(Script(j))
      PROVE Tabled(j, i)
  <2>1. Script(j) = ModemReset
    BY <1>3 DEF Script
  <2>2. Len(ModemReset) = 9
    BY DEF ModemReset
  <2> QED
    BY <1>3, <2>1, <2>2 DEF ModemReset
<1>4. ASSUME NEW j \in {"mhi"}, NEW i \in 1..Len(Script(j))
      PROVE Tabled(j, i)
  <2>1. Script(j) = MhiReset
    BY <1>4 DEF Script
  <2>2. Len(MhiReset) = 15
    BY DEF MhiReset
  <2> QED
    BY <1>4, <2>1, <2>2 DEF MhiReset
<1>5. ASSUME NEW j \in {"disconnect"}, NEW i \in 1..Len(Script(j))
      PROVE Tabled(j, i)
  <2>1. Script(j) = NetDown
    BY <1>5 DEF Script
  <2>2. Len(NetDown) = 2
    BY DEF NetDown
  <2> QED
    BY <1>5, <2>1, <2>2 DEF NetDown
<1>6. ASSUME NEW j \in {"pin"}, NEW i \in 1..Len(Script(j))
      PROVE Tabled(j, i)
  <2>1. Script(j) = PinBounce
    BY <1>6 DEF Script
  <2>2. Len(PinBounce) = 4
    BY DEF PinBounce
  <2> QED
    BY <1>6, <2>1, <2>2 DEF PinBounce
<1>7. ASSUME NEW j \in {"scan"}, NEW i \in 1..Len(Script(j))
      PROVE Tabled(j, i)
  <2>1. Script(j) = Scan
    BY <1>7 DEF Script
  <2>2. Len(Scan) = 10
    BY DEF Scan
  <2> QED
    BY <1>7, <2>1, <2>2 DEF Scan
<1>8. ASSUME NEW j \in {"scanOnly"}, NEW i \in 1..Len(Script(j))
      PROVE Tabled(j, i)
  <2>1. Script(j) = ScanOnly
    BY <1>8 DEF Script
  <2>2. Len(ScanOnly) = 2
    BY DEF ScanOnly
  <2> QED
    BY <1>8, <2>1, <2>2 DEF ScanOnly
<1>9. ASSUME NEW j \in {"health"}, NEW i \in 1..Len(Script(j))
      PROVE Tabled(j, i)
  <2>1. Script(j) = Health
    BY <1>9 DEF Script
  <2>2. Len(Health) = 2
    BY DEF Health
  <2> QED
    BY <1>9, <2>1, <2>2 DEF Health
<1> HIDE DEF Tabled
<1> QED
  BY <1>1, <1>2, <1>3, <1>4, <1>5, <1>6, <1>7, <1>8, <1>9 DEF Jobs

\* No upgrade; a script at an instruction that needs the lock has it, and one
\* in the middle of a bounce finds wwan down.
BounceInv ==
  /\ fw = "idle"
  /\ job \in [Slots -> Jobs \cup {"none"}]
  /\ at \in [Slots -> Nat]
  /\ \A s \in Slots : ~Idle(s) =>
       /\ at[s] \in 1..Len(Script(job[s]))
       /\ at[s] \in Held(job[s]) => lock = s
       /\ at[s] \in Down(job[s]) => wwan = "down"

\* A step of one process keeps BounceInv when it keeps the process's own part
\* and takes nothing from a process that has the lock.
LEMMA OneMoves ==
  ASSUME BounceInv, NEW s \in Slots, fw' = fw,
         job' \in [Slots -> Jobs \cup {"none"}], at' \in [Slots -> Nat],
         \A t \in Slots \ {s} : job'[t] = job[t] /\ at'[t] = at[t],
         job'[s] # "none" => /\ at'[s] \in 1..Len(Script(job'[s]))
                             /\ at'[s] \in Held(job'[s]) => lock' = s
                             /\ at'[s] \in Down(job'[s]) => wwan' = "down",
         lock' = lock \/ lock \in {s, None},
         wwan' \in {wwan, "down"} \/ lock = s
  PROVE  BounceInv'
<1>1. ASSUME NEW t \in Slots \ {s}, ~Idle(t)'
      PROVE /\ at'[t] \in 1..Len(Script(job'[t]))
            /\ at'[t] \in Held(job'[t]) => lock' = t
            /\ at'[t] \in Down(job'[t]) => wwan' = "down"
  <2>1. ~Idle(t) /\ job'[t] = job[t] /\ at'[t] = at[t] /\ job[t] \in Jobs
    BY <1>1 DEF Idle, BounceInv
  <2>2. at[t] \in 1..Len(Script(job[t])) /\ (at[t] \in Held(job[t]) => lock = t)
        /\ (at[t] \in Down(job[t]) => wwan = "down")
    BY <2>1 DEF BounceInv
  <2>3. at[t] \in Down(job[t]) => at[t] \in Held(job[t])
    BY <2>1, <2>2, Tables DEF Tabled
  <2> QED
    BY <2>1, <2>2, <2>3, ControlAssumption
<1>2. ~Idle(s)' => /\ at'[s] \in 1..Len(Script(job'[s]))
                   /\ at'[s] \in Held(job'[s]) => lock' = s
                   /\ at'[s] \in Down(job'[s]) => wwan' = "down"
  BY DEF Idle
<1> QED
  BY <1>1, <1>2 DEF BounceInv, Script, Held, Down

\* The end of a script, which may have brought wwan up.
LEMMA EndKeeps ==
  ASSUME BounceInv, NEW s \in Slots, End(s), fw' = fw, wwan' \in {wwan, "down"} \/ lock = s
  PROVE  BounceInv'
<1>1. job' = [job EXCEPT ![s] = "none"] /\ at' = [at EXCEPT ![s] = 1]
  BY DEF End
<1>2. job' \in [Slots -> Jobs \cup {"none"}] /\ at' \in [Slots -> Nat] /\ job'[s] = "none"
  BY <1>1 DEF BounceInv
<1>3. \A t \in Slots \ {s} : job'[t] = job[t] /\ at'[t] = at[t]
  BY <1>1 DEF BounceInv
<1>4. lock' = lock \/ lock \in {s, None}
  BY DEF End
<1> QED
  BY <1>2, <1>3, <1>4, OneMoves

\* A step to a later instruction of the same script.
LEMMA AdvanceKeeps ==
  ASSUME BounceInv, NEW s \in Slots, ~Idle(s), NEW n \in 0..5, Advance(s, n),
         at[s] + 1 + n <= Len(Script(job[s])),
         at[s] + 1 + n \in Held(job[s]) => lock' = s,
         at[s] + 1 + n \in Down(job[s]) => wwan' = "down",
         fw' = fw,
         lock' = lock \/ lock \in {s, None},
         wwan' \in {wwan, "down"} \/ lock = s
  PROVE  BounceInv'
<1>1. job' = job /\ at' = [at EXCEPT ![s] = at[s] + 1 + n]
  BY DEF Advance, BounceInv
<1>2. at[s] \in Nat /\ job[s] \in Jobs /\ job' \in [Slots -> Jobs \cup {"none"}]
  BY <1>1 DEF BounceInv, Idle
<1>3. at' \in [Slots -> Nat] /\ at'[s] = at[s] + 1 + n
  BY <1>1, <1>2 DEF BounceInv
<1>4. \A t \in Slots \ {s} : job'[t] = job[t] /\ at'[t] = at[t]
  BY <1>1 DEF BounceInv
<1>5. Len(Script(job[s])) \in Nat
  <2>1. at[s] \in 1..Len(Script(job[s]))
    BY DEF BounceInv
  <2> QED
    BY <1>2, <2>1, Tables DEF Tabled
<1>6. at'[s] \in 1..Len(Script(job'[s]))
  BY <1>1, <1>2, <1>3, <1>5
<1> QED
  BY <1>1, <1>2, <1>3, <1>4, <1>6, OneMoves

\* What the tables say about the instruction a process is at.
LEMMA HereTabled ==
  ASSUME BounceInv, NEW s \in Slots, ~Idle(s)
  PROVE  /\ job[s] \in Jobs /\ at[s] \in 1..Len(Script(job[s]))
         /\ Tabled(job[s], at[s])
         /\ at[s] \in Held(job[s]) => lock = s
         /\ at[s] \in Down(job[s]) => wwan = "down"
<1>1. job[s] \in Jobs /\ at[s] \in 1..Len(Script(job[s]))
  BY DEF BounceInv, Idle
<1> QED
  BY <1>1, Tables DEF BounceInv

\* An instruction other than the lock's that is carried out.
LEMMA ContinueKeeps ==
  ASSUME BounceInv, NEW s \in Slots, ~Idle(s), Continue(s), Here(s).op # "lock", fw' = fw,
         wwan' \in {wwan, "down"} \/ (Here(s).op = "ifup" /\ lock = s),
         Here(s).op \in {"ifdown", "ifdownOrExit"} => wwan' = "down"
  PROVE  BounceInv'
<1>1. CASE at[s] = Len(Script(job[s]))
  BY <1>1, EndKeeps DEF Continue
<1>2. CASE at[s] # Len(Script(job[s]))
  <2>1. Advance(s, 0) /\ lock' = lock
    BY <1>2 DEF Continue
  <2>2. at[s] \in 1..Len(Script(job[s])) /\ Len(Script(job[s])) \in 2..15
    BY HereTabled DEF Tabled
  <2>3. at[s] < Len(Script(job[s])) /\ at[s] + 1 + 0 = at[s] + 1
    BY <1>2, <2>2
  <2>4. at[s] + 1 \in Held(job[s]) => lock' = s
    BY <2>1, <2>3, HereTabled DEF Tabled, Here
  <2>5. at[s] + 1 \in Down(job[s]) => wwan' = "down"
    BY <2>3, HereTabled DEF Tabled, Here
  <2> QED
    BY <2>1, <2>2, <2>3, <2>4, <2>5, AdvanceKeeps
<1> QED
  BY <1>1, <1>2

\* An instruction that is not carried out.
LEMMA DeclineKeeps ==
  ASSUME BounceInv, NEW s \in Slots, ~Idle(s), Decline(s), fw' = fw, wwan' = wwan
  PROVE  BounceInv'
<1> DEFINE n == Here(s).skip
<1>1. CASE n = 0 \/ at[s] + 1 + n > Len(Script(job[s]))
  BY <1>1, EndKeeps DEF Decline
<1>2. CASE ~(n = 0 \/ at[s] + 1 + n > Len(Script(job[s])))
  <2>1. Advance(s, n) /\ lock' = lock
    BY <1>2 DEF Decline
  <2>2. at[s] \in 1..Len(Script(job[s])) /\ Len(Script(job[s])) \in 2..15 /\ n \in 0..5
    BY HereTabled DEF Tabled, Here
  <2>3. n # 0 /\ at[s] + 1 + n <= Len(Script(job[s]))
    BY <1>2, <2>2
  <2>4. at[s] + 1 + n \in Held(job[s]) => lock' = s
    BY <2>1, <2>3, HereTabled DEF Tabled, Here
  <2>5. at[s] + 1 + n \notin Down(job[s])
    BY <2>3, HereTabled DEF Tabled, Here
  <2> HIDE DEF n
  <2> QED
    BY <2>1, <2>2, <2>3, <2>4, <2>5, AdvanceKeeps
<1> QED
  BY <1>1, <1>2

\* Every instruction of every script keeps BounceInv.
LEMMA StepKeeps ==
  ASSUME BounceInv, NEW s \in Slots, Step(s)
  PROVE  BounceInv'
<1>1. CASE CheckFlag(s)
  <2>1. ~Idle(s) /\ Here(s).op = "unflashed" /\ fw' = fw /\ wwan' = wwan
    BY <1>1 DEF CheckFlag, Runs
  <2>2. Decline(s) \/ Continue(s)
    BY <1>1 DEF CheckFlag
  <2> QED
    BY <2>1, <2>2, ContinueKeeps, DeclineKeeps
<1>2. CASE TakeLock(s)
  <2>1. ~Idle(s) /\ Here(s).op = "lock" /\ fw' = fw /\ wwan' = wwan
    BY <1>2 DEF TakeLock, Runs
  <2>2. CASE LockFree /\ lock' = s /\ Advance(s, 0)
    <3>1. at[s] \in 1..Len(Script(job[s])) /\ Len(Script(job[s])) \in 2..15
          /\ at[s] < Len(Script(job[s]))
      BY <2>1, HereTabled DEF Tabled, Here
    <3>2. at[s] + 1 + 0 = at[s] + 1 /\ at[s] + 1 <= Len(Script(job[s]))
      BY <3>1
    <3>3. at[s] + 1 \in Down(job[s]) => wwan' = "down"
      BY <2>1, <3>1, HereTabled DEF Tabled, Here
    <3> QED
      BY <2>1, <2>2, <3>2, <3>3, AdvanceKeeps DEF LockFree
  <2>3. CASE Decline(s)
    BY <2>1, <2>3, DeclineKeeps
  <2> QED
    BY <1>2, <2>2, <2>3 DEF TakeLock
<1>3. CASE ReleaseLock(s)
  <2>1. ~Idle(s) /\ Here(s).op = "unlock" /\ fw' = fw /\ wwan' = wwan /\ Advance(s, 0)
    BY <1>3 DEF ReleaseLock, Runs
  <2>2. at[s] \in 1..Len(Script(job[s])) /\ Len(Script(job[s])) \in 2..15
        /\ at[s] < Len(Script(job[s])) /\ lock = s
    BY <2>1, HereTabled DEF Tabled, Here
  <2>3. at[s] + 1 + 0 = at[s] + 1 /\ at[s] + 1 <= Len(Script(job[s]))
    BY <2>2
  <2>4. at[s] + 1 \notin Held(job[s]) /\ (at[s] + 1 \in Down(job[s]) => wwan' = "down")
    BY <2>1, <2>2, HereTabled DEF Tabled, Here
  <2> QED
    BY <2>1, <2>2, <2>3, <2>4, AdvanceKeeps
<1>4. CASE CheckWanted(s)
  <2>1. ~Idle(s) /\ Here(s).op \in {"wanted", "enabled"} /\ fw' = fw /\ wwan' = wwan
    BY <1>4 DEF CheckWanted, Runs
  <2>2. Decline(s) \/ Continue(s)
    BY <1>4 DEF CheckWanted
  <2> QED
    BY <2>1, <2>2, ContinueKeeps, DeclineKeeps
<1>5. CASE IfDown(s)
  <2>1. ~Idle(s) /\ Here(s).op \in {"ifdown", "ifdownOrExit", "ifdownIfNotUp"} /\ fw' = fw
    BY <1>5 DEF IfDown, Runs
  <2>2. (wwan' = "down" /\ Continue(s)) \/ (wwan' = wwan /\ Decline(s))
    BY <1>5 DEF IfDown
  <2> QED
    BY <2>1, <2>2, ContinueKeeps, DeclineKeeps
<1>6. CASE IfUp(s)
  <2>1. ~Idle(s) /\ Here(s).op = "ifup" /\ fw' = fw /\ Continue(s)
    BY <1>6 DEF IfUp, Runs
  <2>2. lock = s
    BY <2>1, HereTabled DEF Tabled, Here
  <2> QED
    BY <2>1, <2>2, ContinueKeeps
<1>7. CASE Work(s)
  <2>1. /\ ~Idle(s) /\ fw' = fw /\ wwan' = wwan
        /\ Here(s).op \in {"tick", "pause", "hold", "attach", "wait", "touch", "mayfail", "traffic"}
    BY <1>7 DEF Work, Runs
  <2>2. Continue(s) \/ Decline(s) \/ End(s)
    BY <1>7 DEF Work
  <2> QED
    BY <2>1, <2>2, ContinueKeeps, DeclineKeeps, EndKeeps
<1>8. CASE Scanned(s)
  <2>1. ~Idle(s) /\ Here(s).op = "scanned" /\ fw' = fw /\ wwan' = wwan
    BY <1>8 DEF Scanned, Runs
  <2>2. Continue(s) \/ End(s)
    BY <1>8 DEF Scanned
  <2> QED
    BY <2>1, <2>2, ContinueKeeps, EndKeeps
<1> QED
  BY <1>1, <1>2, <1>3, <1>4, <1>5, <1>6, <1>7, <1>8 DEF Step

\* A script begins before its lock.
LEMMA BeginKeeps ==
  ASSUME BounceInv, NEW s \in Slots, NEW j \in Jobs,
         NEW first \in IF j \in {"connect", "settings"} THEN {2} ELSE {1},
         Begin(s, j, first), fw' = fw, wwan' = wwan
  PROVE  BounceInv'
<1>1. job' = [job EXCEPT ![s] = j] /\ at' = [at EXCEPT ![s] = first] /\ lock' = lock
  BY DEF Begin
<1>2. first \in 1..2 /\ first \notin Held(j)
  BY DEF Held, Jobs
<1>3. first \in 1..Len(Script(j)) /\ first \notin Down(j)
  <2>1. Len(Script(j)) \in 2..15
    BY Lengths
  <2> DEFINE n == Len(Script(j))
  <2> HIDE DEF n
  <2>2. n \in 2..15
    BY <2>1 DEF n
  <2>3. first = 1 \/ first = 2
    BY <1>2
  <2>4. first \in 1..n
    BY <2>2, <2>3
  <2>5. first \in 1..Len(Script(j))
    BY <2>4 DEF n
  <2> QED
    BY <1>2, <2>5, Tables DEF Tabled
<1>4. job' \in [Slots -> Jobs \cup {"none"}] /\ at' \in [Slots -> Nat]
  BY <1>1, <1>2 DEF BounceInv
<1>5. job'[s] = j /\ at'[s] = first /\ \A t \in Slots \ {s} : job'[t] = job[t] /\ at'[t] = at[t]
  BY <1>1 DEF BounceInv
<1> QED
  BY <1>1, <1>2, <1>3, <1>4, <1>5, OneMoves

\* Without an upgrade, BounceInv is an invariant.
THEOREM BounceInductive ==
  ASSUME "upgrade" \notin Events
  PROVE  Spec => []BounceInv
<1>1. Init => BounceInv
  BY DEF Init, BounceInv, Idle
<1>2. BounceInv /\ [Next]_vars => BounceInv'
  <2> SUFFICES ASSUME BounceInv, [Next]_vars PROVE BounceInv'
    OBVIOUS
  <2>1. ASSUME NEW s \in Slots, Step(s) PROVE BounceInv'
    BY <2>1, StepKeeps
  <2>2. ASSUME NEW s \in Slots, Connect(s) PROVE BounceInv'
    BY <2>2, BeginKeeps DEF Connect, Request, Jobs
  <2>3. ASSUME NEW s \in Slots, Disconnect(s) PROVE BounceInv'
    BY <2>3, BeginKeeps DEF Disconnect, Request, Jobs
  <2>4. ASSUME NEW s \in Slots, ApplySettings(s) PROVE BounceInv'
    BY <2>4, BeginKeeps DEF ApplySettings, Request, Jobs
  <2>5. ASSUME NEW s \in Slots, EnterPin(s) PROVE BounceInv'
    BY <2>5, BeginKeeps DEF EnterPin, Request, Jobs
  <2>6. ASSUME NEW s \in Slots, StartScan(s) PROVE BounceInv'
    <3>1. PICK j \in {"scan", "scanOnly"} : Request(s, j)
      BY <2>6 DEF StartScan
    <3>2. Begin(s, j, 1) /\ j \in Jobs /\ j \notin {"connect", "settings"}
      BY <3>1 DEF Request, Jobs
    <3>3. fw' = fw /\ wwan' = wwan
      BY <2>6 DEF StartScan
    <3> QED
      BY <3>2, <3>3, BeginKeeps
  <2>7. ASSUME NEW s \in Slots, RecoverWan(s) PROVE BounceInv'
    BY <2>7, BeginKeeps DEF RecoverWan, Jobs
  <2>8. ASSUME NEW j \in {"redial", "relock", "mhi", "reset"}, Recover(j) PROVE BounceInv'
    BY <2>8, BeginKeeps, ControlAssumption DEF Recover, Jobs
  <2>9. CASE ExpireScan
    BY <2>9 DEF ExpireScan, scripts, BounceInv, Idle, Script, Held, Down
  <2>10. CASE Qcm
    <3>1. job' = job /\ at' = at /\ lock' = lock /\ fw' = fw /\ wwan # "down"
      BY <2>10 DEF Qcm, scripts
    <3> QED
      BY <3>1 DEF BounceInv, Idle, Script, Held, Down
  <2>11. CASE FwStops \/ FwRestarts \/ FwDies
    BY <2>11 DEF FwStops, FwRestarts, FwDies, BounceInv
  <2>12. CASE Reboot
    BY <2>12 DEF Reboot, BounceInv, Idle
  <2>13. CASE UNCHANGED vars
    BY <2>13 DEF vars, scripts, intent, BounceInv, Idle, Script, Held, Down
  <2> QED
    BY <2>1, <2>2, <2>3, <2>4, <2>5, <2>6, <2>7, <2>8, <2>9, <2>10, <2>11, <2>12, <2>13 DEF Next
<1> QED
  BY <1>1, <1>2, PTL DEF Spec

\* With any number of processes, redials, reconnects, resets and PIN bounces
\* of wwan never interleave.
THEOREM BouncesDoNotInterleaveHolds ==
  ASSUME "upgrade" \notin Events
  PROVE  Spec => []BouncesDoNotInterleave
<1>1. BounceInv => BouncesDoNotInterleave
  <2> SUFFICES ASSUME BounceInv, NEW s \in Slots, Bouncing(s) PROVE wwan = "down"
    BY DEF BouncesDoNotInterleave
  <2>1. ~Idle(s) /\ job[s] \in Bouncers
    BY DEF Bouncing, Idle, Bouncers
  <2>2. PICK i \in 1..(at[s] - 1) : Script(job[s])[i].op \in {"ifdown", "ifdownOrExit"}
    BY DEF Bouncing
  <2>3. /\ job[s] \in Jobs /\ at[s] \in 1..Len(Script(job[s]))
        /\ at[s] \in Down(job[s]) => wwan = "down"
    BY <2>1, HereTabled
  <2>4. Len(Script(job[s])) \in 2..15
    BY <2>3, Lengths
  <2>5. i \in 1..Len(Script(job[s])) /\ at[s] \in (i + 1)..Len(Script(job[s]))
    BY <2>2, <2>3, <2>4
  <2>6. at[s] \in Down(job[s])
    BY <2>1, <2>2, <2>3, <2>5, Tables DEF Tabled
  <2> QED
    BY <2>3, <2>6
<1> QED
  BY <1>1, BounceInductive, PTL
============================================================================
