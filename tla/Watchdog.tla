------------------------------ MODULE Watchdog ------------------------------
(***************************************************************************)
(* The recovery ladder of gl-cellular-boot-redial: what one tick of its    *)
(* main loop concludes from what it sees of the modem, which rung it takes *)
(* (redial, in-place MHI reset, radio power-cycle, PCIe hard reset) and    *)
(* the counters, windows and cooldowns that bound each rung.               *)
(*                                                                         *)
(* Each shell function is an operator on `w`, the script's variables.  The *)
(* script only ever compares the time since something happened with an     *)
(* option, so w holds ages (counted up to the largest value that matters)  *)
(* and time still to run.                                                  *)
(***************************************************************************)
EXTENDS Integers, Sequences

CONSTANTS
  OfflineThreshold, TriggerWindow, TriggerMax, BlockSec, GraceSec,
  CfunAfterCycles, CfunCooldown, CfunBeforeReset, CfunRecheckTicks,
  AtDeadTicks, DeadPlaneTicks,
  MhiResetMax, MhiResetWindow,
  ModemResetMax, ModemResetWindow, ModemResetBackoff,
  AttachLostCfun, AttachLostCfunMax,
  TickLengths,      \* how long a tick may last
  Situations,       \* what ticks may find, of AllSituations
  Failures          \* what may fail under the script, of AllFailures

ASSUME WatchdogAssumption ==
  /\ {OfflineThreshold, TriggerWindow, TriggerMax, BlockSec, GraceSec, CfunAfterCycles,
      CfunCooldown, CfunBeforeReset, CfunRecheckTicks, AtDeadTicks, DeadPlaneTicks,
      MhiResetWindow, ModemResetMax, ModemResetWindow, ModemResetBackoff,
      AttachLostCfun, AttachLostCfunMax} \subseteq Nat \ {0}
  /\ MhiResetMax \in Nat
  /\ TickLengths \subseteq Nat \ {0}

VARIABLES
  w,      \* the script's variables
  did,    \* the rungs of the last tick, in order
  seen    \* what the last tick found

vars == <<w, did, seen>>

\* What a tick can find: is wwan up, does rx_bytes grow, does the modem answer
\* AT, is there a QMI node, is it attached, does a probe get through, has
\* quectel-CM published an address.
Finding(up, rx, at, qmi, attach, reach, call) ==
  [up |-> up, rx |-> rx, at |-> at, qmi |-> qmi, attach |-> attach, reach |-> reach,
   call |-> call]
Find ==
  [good     |-> Finding(TRUE, "grew", TRUE, TRUE, "1", TRUE, TRUE),
   idle     |-> Finding(TRUE, "flat", TRUE, TRUE, "1", TRUE, TRUE),
   rebased  |-> Finding(TRUE, "back", TRUE, TRUE, "1", TRUE, TRUE),
   plane    |-> Finding(TRUE, "flat", TRUE, TRUE, "1", FALSE, TRUE),
   stalled  |-> Finding(TRUE, "flat", TRUE, TRUE, "1", FALSE, FALSE),
   down     |-> Finding(FALSE, "flat", TRUE, TRUE, "1", FALSE, FALSE),
   noqmi    |-> Finding(FALSE, "flat", TRUE, FALSE, "1", FALSE, FALSE),
   hung     |-> Finding(FALSE, "flat", FALSE, TRUE, "", FALSE, FALSE),
   gone     |-> Finding(FALSE, "flat", FALSE, FALSE, "", FALSE, FALSE),
   nosignal |-> Finding(FALSE, "flat", TRUE, TRUE, "0", FALSE, FALSE)]

Outcomes ==
  [lock : {TRUE, "lock" \notin Failures}, mhi : {TRUE, "mhi" \notin Failures},
   reset : {TRUE, "reset" \notin Failures}, radio : {TRUE, "radio" \notin Failures},
   admin : {TRUE, "admin" \notin Failures}, off : {FALSE, "off" \in Failures},
   relock : {"none"} \cup (Failures \cap {"bounced", "dead"})]

----------------------------------------------------------------------------
Least(a, b) == IF a < b THEN a ELSE b
Never == -1

\* attach_lost_wait starts at the option and is capped at the maximum, which the
\* option may exceed.
LongestLost == IF AttachLostCfun > AttachLostCfunMax THEN AttachLostCfun ELSE AttachLostCfunMax

Init ==
  /\ w = [bad |-> 0, redials |-> 0, window |-> TriggerWindow + 1, blocked |-> 0, grace |-> 0,
          pending |-> FALSE, failed |-> 0, cfuns |-> 0, cfun |-> CfunCooldown, base |-> FALSE,
          atDead |-> 0, qmiMissing |-> 0, mhis |-> 0, mhiWindow |-> MhiResetWindow + 1,
          resets |-> 0, resetWindow |-> ModemResetWindow + 1, reset |-> ModemResetBackoff,
          deadTicks |-> 0, deadCfun |-> FALSE, nosignal |-> 0, lost |-> Never,
          lostWait |-> AttachLostCfun]
  /\ did = <<>>
  /\ seen = "none"

\* The outcome of a function: the variables, the rungs taken, its status.
Result(v, rungs, ok) == [w |-> v, rungs |-> rungs, ok |-> ok]

\* Functions called one after the other.
Then(r, s) == Result(s.w, r.rungs \o s.rungs, s.ok)

\* Without redial_pending=1.
DoRedialMutant(v, o) ==
  LET u == IF v.window > TriggerWindow
             THEN [v EXCEPT !.window = 0, !.redials = 1]
             ELSE [v EXCEPT !.redials = Least(@ + 1, TriggerMax + 1)]
  IN
  IF u.redials > TriggerMax THEN Result([u EXCEPT !.blocked = BlockSec], <<>>, FALSE)
  ELSE IF ~o.lock THEN Result(u, <<>>, FALSE)
  ELSE Result([u EXCEPT !.grace = GraceSec, !.bad = 0, !.base = FALSE], <<"redial">>, TRUE)

\* do_redial; o.lock: it got the reconfiguration lock
DoRedial(v, o) ==
  LET u == IF v.window > TriggerWindow
             THEN [v EXCEPT !.window = 0, !.redials = 1]
             ELSE [v EXCEPT !.redials = Least(@ + 1, TriggerMax + 1)]
  IN
  IF u.redials > TriggerMax THEN Result([u EXCEPT !.blocked = BlockSec], <<>>, FALSE)
  ELSE IF ~o.lock THEN Result(u, <<>>, FALSE)
  ELSE Result([u EXCEPT !.grace = GraceSec, !.pending = TRUE, !.bad = 0, !.base = FALSE],
              <<"redial">>, TRUE)

\* mhi_path_reset; not ok when it did not run at all
MhiPathReset(v, o) ==
  LET u == IF v.mhiWindow > MhiResetWindow THEN [v EXCEPT !.mhiWindow = 0, !.mhis = 0] ELSE v
      ran == [u EXCEPT !.mhis = @ + 1, !.base = FALSE, !.pending = TRUE, !.grace = GraceSec]
  IN
  IF u.mhis >= MhiResetMax THEN Result(u, <<>>, FALSE)
  ELSE IF ~o.mhi THEN Result(ran, <<"mhi">>, TRUE)
  ELSE Result([ran EXCEPT !.mhis = 0, !.mhiWindow = MhiResetWindow + 1, !.bad = 0,
                          !.failed = 0, !.cfuns = 0], <<"mhi">>, TRUE)

\* modem_hard_reset; o.reset: gl-cellular-modem-reset succeeds
ModemHardReset(v, o) ==
  LET u == IF v.resetWindow > ModemResetWindow
             THEN [v EXCEPT !.resetWindow = 0, !.resets = 0] ELSE v
      ran == [u EXCEPT !.resets = Least(@ + 1, ModemResetMax), !.reset = 0]
  IN
  IF ~o.admin THEN Result(v, <<>>, FALSE)
  ELSE IF u.resets >= ModemResetMax /\ u.reset < ModemResetBackoff
    THEN Result(u, <<>>, FALSE)
  ELSE IF ~o.reset THEN Result(ran, <<"reset">>, FALSE)
  ELSE Result([ran EXCEPT !.atDead = 0, !.bad = 0, !.deadTicks = 0, !.failed = 0, !.cfuns = 0,
                          !.mhis = 0, !.mhiWindow = MhiResetWindow + 1, !.redials = 0,
                          !.window = TriggerWindow + 1, !.base = FALSE, !.pending = TRUE,
                          !.grace = GraceSec], <<"reset">>, TRUE)

\* _do_cfun_cycle; o.radio: AT+CFUN? reads 1 in the end
DoCfunCycle(v, o) ==
  LET u == Result([v EXCEPT !.cfun = 0], <<"cfun">>, TRUE)
      next == IF o.radio THEN DoRedial([u.w EXCEPT !.failed = 0], o) ELSE ModemHardReset(u.w, o)
  IN
  IF v.cfun < CfunCooldown THEN Result(v, <<>>, FALSE)
  ELSE [Then(u, next) EXCEPT !.ok = TRUE]

\* A redial that counts as a failed cycle until a good tick clears it.
CountedRedial(v, o) ==
  LET r == DoRedial(v, o) IN
  IF r.ok THEN [r EXCEPT !.w.failed = Least(@ + 1, CfunAfterCycles)] ELSE r

Escalate(v, o) ==
  LET m == MhiPathReset(v, o)
      c == DoCfunCycle(m.w, o)
  IN
  IF v.failed + 1 < CfunAfterCycles THEN CountedRedial(v, o)
  ELSE IF m.ok THEN m
  ELSE IF m.w.cfuns >= CfunBeforeReset THEN ModemHardReset(m.w, o)
  ELSE IF c.ok THEN [c EXCEPT !.w.cfuns = Least(@ + 1, CfunBeforeReset)]
  ELSE CountedRedial(m.w, o)

DeadPlaneRecover(v, o) ==
  IF ~v.deadCfun /\ v.cfun >= CfunCooldown
    THEN DoCfunCycle([v EXCEPT !.deadCfun = TRUE], o)
    ELSE ModemHardReset(v, o)
\* attach_lost_watch, on a tick without attach
AttachLostWatch(v, o) ==
  LET c == DoCfunCycle(v, o) IN
  IF v.lost = Never THEN Result([v EXCEPT !.lost = 0], <<>>, TRUE)
  ELSE IF v.lost < v.lostWait \/ v.cfun < CfunCooldown \/ o.off THEN Result(v, <<>>, TRUE)
  ELSE [c EXCEPT !.w.lost = 0, !.w.lostWait = Least(3 * @, AttachLostCfunMax)]

\* A tick without attach: wait, but not on a radio that is off or stuck.
NoSignal(v, o) ==
  LET recheck == v.nosignal + 1 >= CfunRecheckTicks
      u == [v EXCEPT !.nosignal = IF recheck THEN 0 ELSE @ + 1]
      resent == recheck /\ v.cfun >= CfunCooldown /\ o.off
      r == IF resent THEN AttachLostWatch([u EXCEPT !.cfun = 0], o) ELSE AttachLostWatch(u, o)
  IN [r EXCEPT !.w.bad = 0, !.rungs = IF resent THEN <<"cfun">> \o @ ELSE @]

\* The bug the comment in the good branch describes: no baseline counts as good.
GoodMutant(v, confirmed) ==
  [v EXCEPT !.bad = 0, !.failed = 0, !.cfuns = 0, !.mhis = 0,
            !.mhiWindow = MhiResetWindow + 1, !.resets = 0, !.deadTicks = 0,
            !.deadCfun = FALSE, !.lostWait = AttachLostCfun]

\* A good tick; only one that saw traffic or a probe get through clears the ladder.
Good(v, confirmed) ==
  IF confirmed
    THEN [v EXCEPT !.bad = 0, !.failed = 0, !.cfuns = 0, !.mhis = 0,
                   !.mhiWindow = MhiResetWindow + 1, !.resets = 0, !.deadTicks = 0,
                   !.deadCfun = FALSE, !.lostWait = AttachLostCfun]
    ELSE [v EXCEPT !.bad = 0]

\* The checks of a bad tick, in their order.  Each yields the next one's start;
\* `ok` ends the tick.
AtCheck(v, f, o) ==
  LET u == [v EXCEPT !.atDead = IF f.at THEN 0 ELSE Least(@ + 1, AtDeadTicks)] IN
  IF u.atDead >= AtDeadTicks THEN ModemHardReset(u, o) ELSE Result(u, <<>>, FALSE)

QmiCheck(v, f, o) ==
  LET u == [v EXCEPT !.qmiMissing = IF f.qmi THEN 0 ELSE Least(@ + 1, AtDeadTicks)]
      r == ModemHardReset(u, o)
  IN
  IF u.qmiMissing < AtDeadTicks THEN Result(u, <<>>, FALSE)
  ELSE IF r.ok THEN [r EXCEPT !.w.qmiMissing = 0] ELSE r

PlaneCheck(v, f, o) ==
  LET u == [v EXCEPT !.deadTicks = @ + 1] IN
  IF ~(f.up /\ f.call) THEN Result(v, <<>>, FALSE)
  ELSE IF u.deadTicks >= DeadPlaneTicks THEN DeadPlaneRecover([u EXCEPT !.deadTicks = 0], o)
  ELSE Result(u, <<>>, FALSE)

BadTick(v, o) ==
  LET u == [v EXCEPT !.bad = Least(@ + 1, OfflineThreshold)] IN
  IF u.bad < OfflineThreshold THEN Result(u, <<>>, TRUE) ELSE Escalate(u, o)

\* Attached, or the modem did not say.
Attached(v, f, o) ==
  LET u == [v EXCEPT !.nosignal = 0, !.lost = Never]
      p == PlaneCheck(u, f, o)
  IN
  IF f.up /\ f.reach THEN Result(Good(u, TRUE), <<>>, TRUE)
  ELSE IF p.ok THEN p ELSE Then(p, BadTick(p.w, o))

Bad(v, f, o) ==
  LET a == AtCheck(v, f, o)
      q == Then(a, QmiCheck(a.w, f, o))
  IN
  IF a.ok THEN a ELSE IF q.ok THEN q
  ELSE Then(q, IF f.attach = "0" THEN NoSignal(q.w, o) ELSE Attached(q.w, f, o))

\* The tick's own evaluation, past the waits.
Evaluate(v, f, o) ==
  IF ~f.up THEN Bad(v, f, o)
  ELSE IF ~v.base \/ f.rx = "back" THEN Result(Good([v EXCEPT !.base = TRUE], FALSE), <<>>, TRUE)
  ELSE IF f.rx = "grew" THEN Result(Good(v, TRUE), <<>>, TRUE)
  ELSE Bad(v, f, o)

\* relock_reconnect, from sim_lock_watch or sim_reinit_watch
Relock(v, o) ==
  LET r == ModemHardReset(v, o) IN
  CASE o.relock = "none"    -> Result(v, <<>>, TRUE)
    [] o.relock = "bounced" -> Result(v, <<"bounce">>, TRUE)
    [] o.relock = "dead"    -> Then(Result(v, <<"bounce">>, TRUE), r)

ResetState(v) ==
  [v EXCEPT !.bad = 0, !.redials = 0, !.window = TriggerWindow + 1, !.blocked = 0,
            !.grace = 0, !.pending = FALSE, !.failed = 0, !.cfuns = 0, !.base = FALSE,
            !.nosignal = 0, !.deadTicks = 0, !.deadCfun = FALSE, !.lost = Never]

\* Still down without coverage taken for a fault.
PendingMutant(v, f, o) ==
  LET u == [v EXCEPT !.pending = FALSE] IN
  IF f.up THEN Evaluate([u EXCEPT !.grace = 0], f, o)
  ELSE IF v.grace > 0 THEN Result(v, <<>>, TRUE)
  ELSE Escalate(u, o)

\* A redial or reset is under way: wait for the interface or for the grace to end.
Pending(v, f, o) ==
  LET u == [v EXCEPT !.pending = FALSE] IN
  IF f.up THEN Evaluate([u EXCEPT !.grace = 0], f, o)
  ELSE IF v.grace > 0 THEN Result(v, <<>>, TRUE)
  ELSE IF f.attach = "0" THEN Result(u, <<>>, TRUE)
  ELSE Escalate(u, o)

\* One turn of the main loop, up to its sleep.
Turn(v, f, o) ==
  IF v.blocked > 0 THEN Result(v, <<>>, TRUE)
  ELSE IF v.pending THEN Pending(v, f, o)
  ELSE Evaluate(v, f, o)

\* Time passes.
Less(a, d) == IF a > d THEN a - d ELSE 0
Elapse(v, d) ==
  [v EXCEPT !.window = Least(@ + d, TriggerWindow + 1), !.blocked = Less(@, d),
            !.grace = Less(@, d), !.cfun = Least(@ + d, CfunCooldown),
            !.mhiWindow = Least(@ + d, MhiResetWindow + 1),
            !.resetWindow = Least(@ + d, ModemResetWindow + 1),
            !.reset = Least(@ + d, ModemResetBackoff),
            !.lost = IF @ = Never THEN Never ELSE Least(@ + d, LongestLost)]

\* The tick finds the user, or a locked SIM, has dialling off.
DisabledTick ==
  \E d \in TickLengths :
    /\ "disabled" \in Situations
    /\ w' = Elapse(ResetState(w), d)
    /\ did' = <<>>
    /\ seen' = "disabled"

\* The tick finds situation s.  A modem that does not answer AT confirms no radio
\* and reports no SIM event.
Tick(s) ==
  \E o \in Outcomes, d \in TickLengths :
    LET k == Relock(w, o)
        r == Then(k, Turn(k.w, Find[s], o))
    IN
    /\ ~Find[s].at => ~o.radio /\ o.relock = "none"
    /\ w' = Elapse(r.w, d)
    /\ did' = r.rungs
    /\ seen' = s

Next == DisabledTick \/ \E s \in Situations \ {"disabled"} : Tick(s)

Spec == Init /\ [][Next]_vars

\* procd respawns the script and its loop never ends.
FairSpec == Spec /\ WF_vars(Next)

----------------------------------------------------------------------------
Rungs == {"redial", "mhi", "cfun", "reset", "bounce"}
Occurs(rung) == \E i \in 1 .. Len(did) : did[i] = rung

\* The script's counters stay within the thresholds that act on them, and its
\* ages within the longest wait that is compared with them.
TypeOK ==
  /\ w \in [bad : 0 .. OfflineThreshold, redials : 0 .. TriggerMax + 1,
            window : 0 .. TriggerWindow + 1, blocked : 0 .. BlockSec, grace : 0 .. GraceSec,
            pending : BOOLEAN, failed : 0 .. CfunAfterCycles, cfuns : 0 .. CfunBeforeReset,
            cfun : 0 .. CfunCooldown, base : BOOLEAN, atDead : 0 .. AtDeadTicks,
            qmiMissing : 0 .. AtDeadTicks, mhis : 0 .. MhiResetMax,
            mhiWindow : 0 .. MhiResetWindow + 1, resets : 0 .. ModemResetMax,
            resetWindow : 0 .. ModemResetWindow + 1, reset : 0 .. ModemResetBackoff,
            deadTicks : 0 .. DeadPlaneTicks - 1, deadCfun : BOOLEAN,
            nosignal : 0 .. CfunRecheckTicks - 1, lost : Never .. LongestLost,
            lostWait : 1 .. LongestLost]
  /\ \A i \in 1 .. Len(did) : did[i] \in Rungs
  /\ seen \in Situations \cup {"none"}

\* A dial in progress is left alone.  Nothing follows a redial in its tick, and
\* while a redial, MHI reset or hard reset has its grace left and the interface
\* is still down, no tick takes a rung, except the bounce (and its hard reset)
\* of a SIM that re-locked.
FreshDialLeftAlone ==
  [][/\ \A i \in 1 .. Len(did') : did'[i] \in {"redial", "mhi"} => i = Len(did')
     /\ (w.pending /\ w.grace > 0 /\ seen' # "disabled" /\ ~Find[seen'].up)
          => (did' = <<>> \/ did'[1] = "bounce")
     /\ (did' # <<>> /\ did'[Len(did')] \in {"redial", "mhi"}) => w'.pending]_vars

\* No churn in a dead zone: a tick that finds the modem not attached redials
\* only at the end of the power-cycle of a radio that has long been lost.
NoChurnWithoutSignal ==
  seen = "nosignal" /\ Occurs("redial")
    => did[Len(did)] = "redial" /\ Len(did) >= 2 /\ did[Len(did) - 1] = "cfun"

\* The ladder never wedges.  A modem that stays stuck in one way, whichever, is
\* hard-reset again and again for as long as it does, although grace, block,
\* cooldown and backoff all hold rungs back and every reset may fail.
StuckModemIsReset ==
  \A s \in Situations \cap {"plane", "stalled", "down", "noqmi", "hung", "gone"} :
    <>[](seen = s) => []<>Occurs("reset")

=============================================================================
