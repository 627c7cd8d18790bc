--------------------------- MODULE WatchdogProofs ---------------------------
(***************************************************************************)
(* Proofs about Watchdog, for any thresholds, windows, cooldowns and tick  *)
(* lengths and whatever fails under the script: its counters and ages stay *)
(* within their bounds, a dial in progress is left alone, and a modem that *)
(* is not attached is redialled only after a power-cycle of its radio.     *)
(*                                                                         *)
(* Every function of the script yields a result: its variables, and the    *)
(* rungs it took.  For each there is a lemma that its variables stay in    *)
(* range and its rungs have a certain shape; the shapes compose.           *)
(***************************************************************************)
EXTENDS Watchdog, SequenceTheorems, TLAPS

---------------------------------------------------------------------------
(* Counters, ages and time to run.                                         *)

\* The values of a counter or an age with bound n.
Upto(n) == 0 .. n

\* The time the modem has been without attach, and how long that is tolerated.
LostAges == Never .. LongestLost
LostWaits == 1 .. LongestLost

\* The script's variables.
Script ==
  [bad : Upto(OfflineThreshold), redials : Upto(TriggerMax + 1),
   window : Upto(TriggerWindow + 1), blocked : Upto(BlockSec), grace : Upto(GraceSec),
   pending : BOOLEAN, failed : Upto(CfunAfterCycles), cfuns : Upto(CfunBeforeReset),
   cfun : Upto(CfunCooldown), base : BOOLEAN, atDead : Upto(AtDeadTicks),
   qmiMissing : Upto(AtDeadTicks), mhis : Upto(MhiResetMax),
   mhiWindow : Upto(MhiResetWindow + 1), resets : Upto(ModemResetMax),
   resetWindow : Upto(ModemResetWindow + 1), reset : Upto(ModemResetBackoff),
   deadTicks : Upto(DeadPlaneTicks - 1), deadCfun : BOOLEAN,
   nosignal : Upto(CfunRecheckTicks - 1), lost : LostAges, lostWait : LostWaits]

\* The values the script sets its variables to.
LEMMA Settings ==
  /\ {0, OfflineThreshold} \subseteq Upto(OfflineThreshold)
  /\ {0, 1} \subseteq Upto(TriggerMax + 1) /\ {0, TriggerWindow + 1} \subseteq Upto(TriggerWindow + 1)
  /\ {0, BlockSec} \subseteq Upto(BlockSec) /\ {0, GraceSec} \subseteq Upto(GraceSec)
  /\ 0 \in Upto(CfunAfterCycles) /\ 0 \in Upto(CfunBeforeReset)
  /\ {0, CfunCooldown} \subseteq Upto(CfunCooldown) /\ 0 \in Upto(AtDeadTicks)
  /\ 0 \in Upto(MhiResetMax) /\ {0, MhiResetWindow + 1} \subseteq Upto(MhiResetWindow + 1)
  /\ 0 \in Upto(ModemResetMax) /\ {0, ModemResetWindow + 1} \subseteq Upto(ModemResetWindow + 1)
  /\ {0, ModemResetBackoff} \subseteq Upto(ModemResetBackoff)
  /\ 0 \in Upto(DeadPlaneTicks - 1) /\ 0 \in Upto(CfunRecheckTicks - 1)
  /\ {Never, 0} \subseteq LostAges /\ AttachLostCfun \in LostWaits
BY WatchdogAssumption DEF Upto, LostAges, LostWaits, LongestLost, Never

\* And the values it counts up to.
LEMMA Increments == ASSUME NEW v \in Script
  PROVE /\ Least(v.bad + 1, OfflineThreshold) \in Upto(OfflineThreshold)
        /\ Least(v.redials + 1, TriggerMax + 1) \in Upto(TriggerMax + 1)
        /\ Least(v.failed + 1, CfunAfterCycles) \in Upto(CfunAfterCycles)
        /\ Least(v.cfuns + 1, CfunBeforeReset) \in Upto(CfunBeforeReset)
        /\ Least(v.atDead + 1, AtDeadTicks) \in Upto(AtDeadTicks)
        /\ Least(v.qmiMissing + 1, AtDeadTicks) \in Upto(AtDeadTicks)
        /\ Least(v.resets + 1, ModemResetMax) \in Upto(ModemResetMax)
        /\ v.mhis < MhiResetMax => v.mhis + 1 \in Upto(MhiResetMax)
        /\ v.deadTicks + 1 < DeadPlaneTicks => v.deadTicks + 1 \in Upto(DeadPlaneTicks - 1)
        /\ v.nosignal + 1 < CfunRecheckTicks => v.nosignal + 1 \in Upto(CfunRecheckTicks - 1)
        /\ Least(3 * v.lostWait, AttachLostCfunMax) \in LostWaits
BY WatchdogAssumption DEF Upto, LostAges, LostWaits, LongestLost, Never, Least, Script

---------------------------------------------------------------------------
(* The rungs of a result.                                                  *)

\* Sequences of rungs that do not dial.
Calm == Seq({"reset", "cfun", "bounce"})

\* They can be put before anything.
LEMMA CalmFacts ==
  /\ {<<>>, <<"reset">>, <<"cfun">>, <<"bounce">>} \subseteq Calm
  /\ \A c, d \in Calm : /\ c \o d \in Calm
                        /\ c \o (d \o <<"redial">>) = (c \o d) \o <<"redial">>
                        /\ c \o (d \o <<"mhi">>) = (c \o d) \o <<"mhi">>
                        /\ c \o ((d \o <<"cfun">>) \o <<"redial">>)
                             = ((c \o d) \o <<"cfun">>) \o <<"redial">>
  /\ <<>> \o <<"redial">> = <<"redial">> /\ <<>> \o <<"mhi">> = <<"mhi">>
  /\ <<>> \o <<"cfun">> = <<"cfun">>
<1>1. /\ {<<>>, <<"reset">>, <<"cfun">>, <<"bounce">>} \subseteq Calm
      /\ <<>> \o <<"redial">> = <<"redial">> /\ <<>> \o <<"mhi">> = <<"mhi">>
      /\ <<>> \o <<"cfun">> = <<"cfun">>
  BY DEF Calm
<1>2. \A c, d \in Calm : c \o d \in Calm
  BY DEF Calm
<1>3. ASSUME NEW c \in Calm, NEW d \in Calm
      PROVE  /\ c \o (d \o <<"redial">>) = (c \o d) \o <<"redial">>
             /\ c \o (d \o <<"mhi">>) = (c \o d) \o <<"mhi">>
             /\ c \o ((d \o <<"cfun">>) \o <<"redial">>)
                  = ((c \o d) \o <<"cfun">>) \o <<"redial">>
  <2>1. /\ {c, d, <<"redial">>, <<"mhi">>, <<"cfun">>} \subseteq Seq(Rungs)
        /\ d \o <<"cfun">> \in Seq(Rungs)
    BY DEF Calm, Rungs
  <2>2. \A x, y, z \in Seq(Rungs) : x \o (y \o z) = (x \o y) \o z
    BY ConcatAssociative
  <2> QED BY <2>1, <2>2
<1> QED BY <1>1, <1>2, <1>3, Zenon

\* All sequences of rungs.
Climb == Seq(Rungs)

\* Calm rungs are rungs, and climbs can be put together.
LEMMA ClimbFacts ==
  /\ Calm \subseteq Climb /\ <<"redial">> \in Climb /\ <<"mhi">> \in Climb
  /\ \A s, t \in Climb : s \o t \in Climb
BY DEF Calm, Climb, Rungs

\* A dial, where there is one, is the last rung, and the script waits for it.
Ladder(v, s) ==
  \/ s \in Calm
  \/ v.pending /\ \E c \in Calm : s = c \o <<"redial">> \/ s = c \o <<"mhi">>

\* The same without an MHI reset, the redial following a power-cycle.
Cycle(v, s) ==
  \/ s \in Calm
  \/ v.pending /\ \E c \in Calm : s = (c \o <<"cfun">>) \o <<"redial">>

\* A power-cycle is a ladder.
LEMMA CycleIsLadder == ASSUME NEW v, NEW s, Cycle(v, s) PROVE Ladder(v, s)
BY CalmFacts, Zenon DEF Cycle, Ladder

\* A calm prefix changes neither.
LEMMA Prefixed == ASSUME NEW v, NEW c \in Calm, NEW s
  PROVE (Ladder(v, s) => Ladder(v, c \o s)) /\ (Cycle(v, s) => Cycle(v, c \o s))
<1>1. s \in Calm => c \o s \in Calm
  BY CalmFacts, Zenon
<1>2. ASSUME NEW d \in Calm, s = d \o <<"redial">> PROVE \E e \in Calm : c \o s = e \o <<"redial">>
  BY <1>2, CalmFacts, Zenon
<1>3. ASSUME NEW d \in Calm, s = d \o <<"mhi">> PROVE \E e \in Calm : c \o s = e \o <<"mhi">>
  BY <1>3, CalmFacts, Zenon
<1>4. ASSUME NEW d \in Calm, s = (d \o <<"cfun">>) \o <<"redial">>
      PROVE  \E e \in Calm : c \o s = (e \o <<"cfun">>) \o <<"redial">>
  BY <1>4, CalmFacts, Zenon
<1>5. Ladder(v, s) => Ladder(v, c \o s)
  BY <1>1, <1>2, <1>3, Zenon DEF Ladder
<1>6. Cycle(v, s) => Cycle(v, c \o s)
  BY <1>1, <1>4, Zenon DEF Cycle
<1> QED BY <1>5, <1>6

\* Results.
Results == [w : Script, rungs : Climb, ok : BOOLEAN]
Calmly(r) == r \in Results /\ r.rungs \in Calm
Climbs(r) == r \in Results /\ Ladder(r.w, r.rungs)
Cycles(r) == r \in Results /\ Cycle(r.w, r.rungs)

\* Calm results cycle, and cycles climb.
LEMMA ResultFacts == ASSUME NEW r
  PROVE (Calmly(r) => Cycles(r) /\ Climbs(r)) /\ (Cycles(r) => Climbs(r))
BY CycleIsLadder, Zenon DEF Calmly, Climbs, Cycles, Cycle

\* A result built by Result.
LEMMA ResultIs == ASSUME NEW v \in Script, NEW s \in Climb, NEW b \in BOOLEAN
  PROVE /\ Result(v, s, b) \in Results
        /\ Result(v, s, b).w = v /\ Result(v, s, b).rungs = s /\ (Result(v, s, b).ok <=> b)
BY Zenon DEF Results, Result

\* Functions called one after the other.
LEMMA ThenIs == ASSUME NEW r, NEW s, Calmly(r), s \in Results
  PROVE /\ Then(r, s).w = s.w /\ (Then(r, s).ok <=> s.ok)
        /\ Calmly(s) => Calmly(Then(r, s))
        /\ Climbs(s) => Climbs(Then(r, s))
        /\ Cycles(s) => Cycles(Then(r, s))
<1>1. s.w \in Script /\ s.ok \in BOOLEAN /\ r.rungs \o s.rungs \in Climb
  BY ClimbFacts, Zenon DEF Results, Calmly
<1>2. /\ Then(r, s) \in Results /\ Then(r, s).w = s.w
      /\ Then(r, s).rungs = r.rungs \o s.rungs /\ (Then(r, s).ok <=> s.ok)
  <2> DEFINE x == s.w
             y == r.rungs \o s.rungs
             z == s.ok
  <2>1. Then(r, s) = Result(x, y, z)
    BY Zenon DEF Then
  <2>2. x \in Script /\ y \in Climb /\ z \in BOOLEAN
    BY <1>1, Zenon
  <2>3. x = s.w /\ y = r.rungs \o s.rungs /\ (z <=> s.ok)
    OBVIOUS
  <2> HIDE DEF x, y, z
  <2>4. /\ Result(x, y, z) \in Results
        /\ Result(x, y, z).w = x /\ Result(x, y, z).rungs = y /\ (Result(x, y, z).ok <=> z)
    BY <2>2, ResultIs, Zenon
  <2> QED BY <2>1, <2>3, <2>4, Zenon
<1>3. Calmly(s) => Calmly(Then(r, s))
  <2>1. \A c, d \in Calm : c \o d \in Calm
    BY CalmFacts, Zenon
  <2> QED BY <1>2, <2>1, Zenon DEF Calmly
<1>4. Climbs(s) => Climbs(Then(r, s))
  BY <1>2, Prefixed, Zenon DEF Calmly, Climbs
<1>5. Cycles(s) => Cycles(Then(r, s))
  BY <1>2, Prefixed, Zenon DEF Calmly, Cycles
<1> QED BY <1>2, <1>3, <1>4, <1>5, Zenon

\* A calm result, and a result that ends in a dial that is waited for.
LEMMA PlainResults == ASSUME NEW v \in Script, NEW b \in BOOLEAN, NEW c \in Calm
  PROVE /\ Calmly(Result(v, c, b))
        /\ v.pending => Climbs(Result(v, <<"redial">>, b)) /\ Climbs(Result(v, <<"mhi">>, b))
<1>1. Calmly(Result(v, c, b))
  BY ResultIs, ClimbFacts DEF Calmly
<1>2. v.pending => Ladder(v, <<"redial">>) /\ Ladder(v, <<"mhi">>)
  BY CalmFacts, Zenon DEF Ladder
<1>3. \A t \in Climb : /\ Result(v, t, b) \in Results
                       /\ Result(v, t, b).w = v /\ Result(v, t, b).rungs = t
  BY ResultIs
<1> QED BY <1>1, <1>2, <1>3, ClimbFacts, Zenon DEF Climbs

---------------------------------------------------------------------------
(* The functions of the script.                                            *)

\* do_redial: a redial that is waited for, or nothing.
LEMMA RedialIs == ASSUME NEW v \in Script, NEW o
  PROVE /\ Climbs(DoRedial(v, o))
        /\ \/ DoRedial(v, o).rungs = <<>>
           \/ DoRedial(v, o).rungs = <<"redial">> /\ DoRedial(v, o).w.pending
<1> DEFINE u == IF v.window > TriggerWindow
                  THEN [v EXCEPT !.window = 0, !.redials = 1]
                  ELSE [v EXCEPT !.redials = Least(@ + 1, TriggerMax + 1)]
           b == [u EXCEPT !.blocked = BlockSec]
           d == [u EXCEPT !.grace = GraceSec, !.pending = TRUE, !.bad = 0, !.base = FALSE]
<1>1. u \in Script
  <2>1. [v EXCEPT !.window = 0, !.redials = 1] \in Script
    BY Settings, Zenon DEF Script
  <2>2. [v EXCEPT !.redials = Least(v.redials + 1, TriggerMax + 1)] \in Script
    BY Increments, Zenon DEF Script
  <2> QED BY <2>1, <2>2, Zenon
<1>2. DoRedial(v, o) \in {Result(b, <<>>, FALSE), Result(u, <<>>, FALSE),
                          Result(d, <<"redial">>, TRUE)}
  BY Zenon DEF DoRedial
<1> HIDE DEF u
<1>3. b \in Script /\ d \in Script /\ d.pending
  BY <1>1, Settings DEF Script
<1> HIDE DEF b, d
<1>4. Calmly(Result(b, <<>>, FALSE)) /\ Calmly(Result(u, <<>>, FALSE))
  BY <1>1, <1>3, PlainResults, CalmFacts, Zenon
<1>5. Climbs(Result(d, <<"redial">>, TRUE))
  BY <1>3, PlainResults, CalmFacts, Zenon
<1>6. Result(b, <<>>, FALSE).rungs = <<>> /\ Result(u, <<>>, FALSE).rungs = <<>>
  BY Zenon DEF Result
<1>7. Result(d, <<"redial">>, TRUE).rungs = <<"redial">> /\ Result(d, <<"redial">>, TRUE).w = d
  BY Zenon DEF Result
<1> QED BY <1>2, <1>3, <1>4, <1>5, <1>6, <1>7, ResultFacts, Zenon

\* mhi_path_reset: a reset of the MHI path that is waited for, or nothing.
LEMMA MhiIs == ASSUME NEW v \in Script, NEW o PROVE Climbs(MhiPathReset(v, o))
<1> DEFINE u == IF v.mhiWindow > MhiResetWindow
                  THEN [v EXCEPT !.mhiWindow = 0, !.mhis = 0] ELSE v
           ran == [u EXCEPT !.mhis = @ + 1, !.base = FALSE, !.pending = TRUE, !.grace = GraceSec]
           good == [ran EXCEPT !.mhis = 0, !.mhiWindow = MhiResetWindow + 1, !.bad = 0,
                               !.failed = 0, !.cfuns = 0]
<1>1. u \in Script
  BY Settings, Zenon DEF Script
<1>2. IF u.mhis >= MhiResetMax THEN MhiPathReset(v, o) = Result(u, <<>>, FALSE)
      ELSE MhiPathReset(v, o) \in {Result(ran, <<"mhi">>, TRUE), Result(good, <<"mhi">>, TRUE)}
  BY Zenon DEF MhiPathReset
<1> HIDE DEF u
<1>3. CASE u.mhis >= MhiResetMax
  BY <1>1, <1>2, <1>3, PlainResults, CalmFacts, ResultFacts, Zenon
<1>4. CASE ~(u.mhis >= MhiResetMax)
  <2>1. u.mhis + 1 \in Upto(MhiResetMax)
    BY <1>1, <1>4, Increments, WatchdogAssumption DEF Script, Upto
  <2>2. ran \in Script /\ ran.pending
    BY <1>1, <2>1, Settings, Zenon DEF Script
  <2> HIDE DEF ran
  <2>3. good \in Script /\ good.pending
    BY <2>2, Settings, Zenon DEF Script
  <2> HIDE DEF good
  <2>4. Climbs(Result(ran, <<"mhi">>, TRUE)) /\ Climbs(Result(good, <<"mhi">>, TRUE))
    BY <2>2, <2>3, PlainResults, CalmFacts, Zenon
  <2> QED BY <1>2, <1>4, <2>4, Zenon
<1> QED BY <1>3, <1>4

\* modem_hard_reset: a hard reset, or nothing.
LEMMA HardResetIs == ASSUME NEW v \in Script, NEW o PROVE Calmly(ModemHardReset(v, o))
<1> DEFINE u == IF v.resetWindow > ModemResetWindow
                  THEN [v EXCEPT !.resetWindow = 0, !.resets = 0] ELSE v
           ran == [u EXCEPT !.resets = Least(@ + 1, ModemResetMax), !.reset = 0]
           good == [ran EXCEPT !.atDead = 0, !.bad = 0, !.deadTicks = 0, !.failed = 0, !.cfuns = 0,
                               !.mhis = 0, !.mhiWindow = MhiResetWindow + 1, !.redials = 0,
                               !.window = TriggerWindow + 1, !.base = FALSE, !.pending = TRUE,
                               !.grace = GraceSec]
<1>1. u \in Script
  BY Settings DEF Script
<1>2. ModemHardReset(v, o) \in {Result(v, <<>>, FALSE), Result(u, <<>>, FALSE),
                                Result(ran, <<"reset">>, FALSE), Result(good, <<"reset">>, TRUE)}
  BY Zenon DEF ModemHardReset
<1> HIDE DEF u
<1>3. ran \in Script
  BY <1>1, Settings, Increments, Zenon DEF Script
<1> HIDE DEF ran
<1>4. good \in Script
  BY <1>3, Settings, Zenon DEF Script
<1> HIDE DEF good
<1>5. <<>> \in Calm /\ <<"reset">> \in Calm
  BY CalmFacts, Zenon
<1> QED BY <1>1, <1>2, <1>3, <1>4, <1>5, PlainResults, Zenon

\* _do_cfun_cycle: a power-cycle of the radio, then a redial or a hard reset; nothing
\* when it is too soon.
LEMMA CfunIs == ASSUME NEW v \in Script, NEW o
  PROVE Cycles(DoCfunCycle(v, o)) /\ (~DoCfunCycle(v, o).ok => Calmly(DoCfunCycle(v, o)))
<1> DEFINE x == [v EXCEPT !.cfun = 0]
           y == [x EXCEPT !.failed = 0]
           u == Result(x, <<"cfun">>, TRUE)
           next == IF o.radio THEN DoRedial(y, o) ELSE ModemHardReset(x, o)
           t == Then(u, next)
<1>1. x \in Script /\ y \in Script
  BY Settings, Zenon DEF Script
<1>2. u.w = x /\ u.rungs = <<"cfun">>
  BY Zenon DEF Result
<1>3. DoCfunCycle(v, o) = IF v.cfun < CfunCooldown THEN Result(v, <<>>, FALSE)
                          ELSE [t EXCEPT !.ok = TRUE]
  BY <1>2, Zenon DEF DoCfunCycle
<1> HIDE DEF x, y
<1>4. <<>> \in Calm /\ <<"cfun">> \in Calm
  BY CalmFacts, Zenon
<1>5. Calmly(u)
  BY <1>1, <1>4, PlainResults, Zenon
<1>6. Cycles(t)
  <2>1. CASE o.radio
    <3> DEFINE r == DoRedial(y, o)
    <3>1. Climbs(r) /\ (r.rungs = <<>> \/ (r.rungs = <<"redial">> /\ r.w.pending))
      BY <1>1, RedialIs, Zenon
    <3> HIDE DEF r
    <3>2. next = r
      BY <2>1, Zenon DEF r
    <3> HIDE DEF u, next
    <3>3. t.w = r.w /\ (Calmly(r) => Calmly(t)) /\ Climbs(t)
      BY <1>5, <3>1, <3>2, ThenIs, Zenon DEF Climbs
    <3>4. CASE r.rungs = <<>>
      BY <3>1, <3>3, <3>4, <1>4, ResultFacts, Zenon DEF Climbs, Calmly
    <3>5. CASE r.rungs = <<"redial">> /\ r.w.pending
      <4>1. t.rungs = (<<>> \o <<"cfun">>) \o <<"redial">>
        BY <1>2, <3>2, <3>5, CalmFacts, Zenon DEF Then, Result
      <4> QED BY <3>3, <3>5, <4>1, <1>4, Zenon DEF Climbs, Cycles, Cycle
    <3> QED BY <3>1, <3>4, <3>5
  <2>2. CASE ~o.radio
    <3>1. next = ModemHardReset(x, o)
      BY <2>2, Zenon
    <3>2. Calmly(next)
      BY <1>1, <3>1, HardResetIs, Zenon
    <3> HIDE DEF u, next
    <3> QED BY <1>5, <3>2, ThenIs, ResultFacts, Zenon DEF Calmly
  <2> QED BY <2>1, <2>2
<1> HIDE DEF t
<1>7. /\ [t EXCEPT !.ok = TRUE].ok /\ [t EXCEPT !.ok = TRUE] \in Results
      /\ [t EXCEPT !.ok = TRUE].w = t.w /\ [t EXCEPT !.ok = TRUE].rungs = t.rungs
  BY <1>6, Zenon DEF Cycles, Results
<1>8. Cycles([t EXCEPT !.ok = TRUE])
  BY <1>6, <1>7, Zenon DEF Cycles
<1>9. Calmly(Result(v, <<>>, FALSE))
  BY <1>4, PlainResults, Zenon
<1> QED BY <1>3, <1>7, <1>8, <1>9, ResultFacts, Zenon

\* A result whose variables are changed, but not whether the script waits.
LEMMA Changed == ASSUME NEW r \in Results, NEW x \in Script, x.pending <=> r.w.pending
  PROVE LET q == [r EXCEPT !.w = x] IN
        /\ q \in Results /\ q.w = x /\ q.rungs = r.rungs /\ (q.ok <=> r.ok)
        /\ (Calmly(r) => Calmly(q)) /\ (Climbs(r) => Climbs(q)) /\ (Cycles(r) => Cycles(q))
<1> DEFINE q == [r EXCEPT !.w = x]
<1>1. q \in Results /\ q.w = x /\ q.rungs = r.rungs /\ (q.ok <=> r.ok)
  BY Zenon DEF Results
<1> HIDE DEF q
<1>2. (Calmly(r) => Calmly(q)) /\ (Climbs(r) => Climbs(q)) /\ (Cycles(r) => Cycles(q))
  BY <1>1, Zenon DEF Calmly, Climbs, Cycles, Ladder, Cycle
<1> QED BY <1>1, <1>2 DEF q

\* A redial counted as a failed cycle.
LEMMA CountedIs == ASSUME NEW v \in Script, NEW o PROVE Climbs(CountedRedial(v, o))
<1> DEFINE r == DoRedial(v, o)
           x == [r.w EXCEPT !.failed = Least(@ + 1, CfunAfterCycles)]
<1>1. Climbs(r)
  BY RedialIs, Zenon
<1>2. CountedRedial(v, o) = IF r.ok THEN [r EXCEPT !.w.failed = Least(@ + 1, CfunAfterCycles)] ELSE r
  BY Zenon DEF CountedRedial
<1> HIDE DEF r
<1>3. r \in Results /\ r.w \in Script
  BY <1>1, Zenon DEF Climbs, Results
<1>4. [r EXCEPT !.w.failed = Least(@ + 1, CfunAfterCycles)] = [r EXCEPT !.w = x]
  BY <1>3, Zenon
<1>5. x \in Script /\ (x.pending <=> r.w.pending)
  BY <1>3, Increments, Zenon DEF Script
<1> HIDE DEF x
<1>6. Climbs([r EXCEPT !.w = x])
  BY <1>1, <1>3, <1>5, Changed, Zenon
<1> QED BY <1>1, <1>2, <1>4, <1>6, Zenon

\* The ladder: redials, then an MHI reset, power-cycles, a hard reset.
LEMMA EscalateIs == ASSUME NEW v \in Script, NEW o PROVE Climbs(Escalate(v, o))
<1> DEFINE m == MhiPathReset(v, o)
           c == DoCfunCycle(m.w, o)
           x == [c.w EXCEPT !.cfuns = Least(@ + 1, CfunBeforeReset)]
           d == [c EXCEPT !.w.cfuns = Least(@ + 1, CfunBeforeReset)]
<1>1. Climbs(m)
  BY MhiIs, Zenon
<1>2. Escalate(v, o) \in {CountedRedial(v, o), m, ModemHardReset(m.w, o), d, CountedRedial(m.w, o)}
  BY Zenon DEF Escalate
<1> HIDE DEF m
<1>3. m.w \in Script
  BY <1>1, Zenon DEF Climbs, Results
<1>4. Cycles(c)
  BY <1>3, CfunIs, Zenon
<1>5. Climbs(CountedRedial(v, o)) /\ Climbs(CountedRedial(m.w, o))
  BY <1>3, CountedIs, Zenon
<1>6. Climbs(ModemHardReset(m.w, o))
  BY <1>3, HardResetIs, ResultFacts, Zenon
<1> HIDE DEF c
<1>7. c \in Results /\ c.w \in Script
  BY <1>4, Zenon DEF Cycles, Results
<1>8. d = [c EXCEPT !.w = x]
  BY <1>7, Zenon
<1>9. x \in Script /\ (x.pending <=> c.w.pending)
  BY <1>7, Increments, Zenon DEF Script
<1> HIDE DEF x, d
<1>10. Cycles(d)
  BY <1>4, <1>7, <1>8, <1>9, Changed, Zenon
<1> QED BY <1>1, <1>2, <1>5, <1>6, <1>10, ResultFacts, Zenon

\* dead_plane_recover: a power-cycle once, then hard resets.
LEMMA DeadPlaneIs == ASSUME NEW v \in Script, NEW o
  PROVE /\ Cycles(DeadPlaneRecover(v, o))
        /\ ~DeadPlaneRecover(v, o).ok => Calmly(DeadPlaneRecover(v, o))
<1> DEFINE x == [v EXCEPT !.deadCfun = TRUE]
<1>1. x \in Script
  BY Zenon DEF Script
<1>2. DeadPlaneRecover(v, o) \in {DoCfunCycle(x, o), ModemHardReset(v, o)}
  BY Zenon DEF DeadPlaneRecover
<1> HIDE DEF x
<1>3. Cycles(DoCfunCycle(x, o)) /\ (~DoCfunCycle(x, o).ok => Calmly(DoCfunCycle(x, o)))
  BY <1>1, CfunIs, Zenon
<1>4. Calmly(ModemHardReset(v, o))
  BY HardResetIs, Zenon
<1> QED BY <1>2, <1>3, <1>4, ResultFacts, Zenon

\* attach_lost_watch: a power-cycle when the modem has long been lost.
LEMMA AttachLostIs == ASSUME NEW v \in Script, NEW o PROVE Cycles(AttachLostWatch(v, o))
<1> DEFINE c == DoCfunCycle(v, o)
           x == [c.w EXCEPT !.lost = 0, !.lostWait = Least(3 * @, AttachLostCfunMax)]
           d == [c EXCEPT !.w.lost = 0, !.w.lostWait = Least(3 * @, AttachLostCfunMax)]
           y == [v EXCEPT !.lost = 0]
<1>1. Cycles(c)
  BY CfunIs, Zenon
<1>2. AttachLostWatch(v, o) \in {Result(y, <<>>, TRUE), Result(v, <<>>, TRUE), d}
  BY Zenon DEF AttachLostWatch
<1> HIDE DEF c
<1>3. c \in Results /\ c.w \in Script
  BY <1>1, Zenon DEF Cycles, Results
<1>4. d = [c EXCEPT !.w = x]
  BY <1>3, Zenon DEF Results, Script
<1>5. x \in Script /\ (x.pending <=> c.w.pending)
  BY <1>3, Settings, Increments, Zenon DEF Script
<1>6. y \in Script
  BY Settings, Zenon DEF Script
<1> HIDE DEF x, d, y
<1>7. Cycles(d)
  BY <1>1, <1>3, <1>4, <1>5, Changed, Zenon
<1>8. <<>> \in Calm
  BY CalmFacts, Zenon
<1>9. Calmly(Result(y, <<>>, TRUE)) /\ Calmly(Result(v, <<>>, TRUE))
  BY <1>6, <1>8, PlainResults, Zenon
<1> QED BY <1>2, <1>7, <1>9, ResultFacts, Zenon

\* A tick without attach.
LEMMA NoSignalIs == ASSUME NEW v \in Script, NEW o PROVE Cycles(NoSignal(v, o))
<1> DEFINE recheck == v.nosignal + 1 >= CfunRecheckTicks
           u == [v EXCEPT !.nosignal = IF recheck THEN 0 ELSE @ + 1]
           t == [u EXCEPT !.cfun = 0]
           resent == recheck /\ v.cfun >= CfunCooldown /\ o.off
           r == IF resent THEN AttachLostWatch(t, o) ELSE AttachLostWatch(u, o)
           x == [r.w EXCEPT !.bad = 0]
           q == [r EXCEPT !.w = x]
           s == IF resent THEN <<"cfun">> \o r.rungs ELSE r.rungs
<1>1. NoSignal(v, o) = [r EXCEPT !.w.bad = 0, !.rungs = IF resent THEN <<"cfun">> \o @ ELSE @]
  BY Zenon DEF NoSignal
<1>2. u \in Script
  <2>1. ~recheck => v.nosignal + 1 \in Upto(CfunRecheckTicks - 1)
    BY Increments, WatchdogAssumption DEF Script, Upto
  <2> HIDE DEF recheck
  <2> QED BY <2>1, Settings DEF Script
<1> HIDE DEF recheck, u
<1>3. t \in Script
  BY <1>2, Settings, Zenon DEF Script
<1> HIDE DEF resent, t
<1>4. Cycles(r)
  BY <1>2, <1>3, AttachLostIs, Zenon
<1> HIDE DEF r
<1>5. r \in Results /\ r.w \in Script /\ r.rungs \in Climb
  BY <1>4, Zenon DEF Cycles, Results
<1>6. [r EXCEPT !.w.bad = 0, !.rungs = IF resent THEN <<"cfun">> \o @ ELSE @] = [q EXCEPT !.rungs = s]
  BY <1>5, Zenon DEF Results
<1>7. x \in Script /\ (x.pending <=> r.w.pending)
  BY <1>5, Settings, Zenon DEF Script
<1> HIDE DEF x
<1>8. Cycles(q) /\ q.rungs = r.rungs /\ q.w = x
  BY <1>4, <1>5, <1>7, Changed, Zenon
<1>9. Cycle(x, s) /\ s \in Climb
  <2>1. Cycle(x, r.rungs)
    BY <1>8, Zenon DEF Cycles
  <2>2. <<"cfun">> \in Calm /\ <<"cfun">> \in Climb
    BY CalmFacts, ClimbFacts, Zenon
  <2>3. Cycle(x, <<"cfun">> \o r.rungs) /\ <<"cfun">> \o r.rungs \in Climb
    BY <2>1, <2>2, <1>5, Prefixed, ClimbFacts, Zenon
  <2> QED BY <2>1, <2>3, <1>5, Zenon
<1> HIDE DEF q, s
<1>10. [q EXCEPT !.rungs = s] \in Results /\ [q EXCEPT !.rungs = s].w = x /\ [q EXCEPT !.rungs = s].rungs = s
  BY <1>8, <1>9, Zenon DEF Cycles, Results
<1> QED BY <1>1, <1>6, <1>9, <1>10, Zenon DEF Cycles

\* A good tick keeps the variables in range.
LEMMA GoodIs == ASSUME NEW v \in Script, NEW b \in BOOLEAN PROVE Good(v, b) \in Script
<1> DEFINE u == [v EXCEPT !.bad = 0, !.failed = 0, !.cfuns = 0, !.mhis = 0]
           x == [u EXCEPT !.mhiWindow = MhiResetWindow + 1, !.resets = 0, !.deadTicks = 0]
<1>1. [v EXCEPT !.bad = 0] \in Script
  BY Settings, Zenon DEF Script
<1>2. u \in Script
  BY Settings, Zenon DEF Script
<1>3. x \in Script
  <2> HIDE DEF u
  <2> QED BY <1>2, Settings, Zenon DEF Script
<1>4. [x EXCEPT !.deadCfun = FALSE, !.lostWait = AttachLostCfun] \in Script
  <2> HIDE DEF x
  <2> QED BY <1>3, Settings, Zenon DEF Script
<1> QED BY <1>1, <1>4, Zenon DEF Good

\* The checks of a bad tick: hard resets, or nothing.
LEMMA AtCheckIs == ASSUME NEW v \in Script, NEW f, NEW o PROVE Calmly(AtCheck(v, f, o))
<1> DEFINE u == [v EXCEPT !.atDead = IF f.at THEN 0 ELSE Least(@ + 1, AtDeadTicks)]
<1>1. u \in Script
  BY Settings, Increments, Zenon DEF Script
<1>2. AtCheck(v, f, o) \in {ModemHardReset(u, o), Result(u, <<>>, FALSE)}
  BY Zenon DEF AtCheck
<1> HIDE DEF u
<1>3. <<>> \in Calm
  BY CalmFacts, Zenon
<1>4. Calmly(ModemHardReset(u, o)) /\ Calmly(Result(u, <<>>, FALSE))
  BY <1>1, <1>3, HardResetIs, PlainResults, Zenon
<1> QED BY <1>2, <1>4, Zenon

\* The check of the QMI node.
LEMMA QmiCheckIs == ASSUME NEW v \in Script, NEW f, NEW o PROVE Calmly(QmiCheck(v, f, o))
<1> DEFINE u == [v EXCEPT !.qmiMissing = IF f.qmi THEN 0 ELSE Least(@ + 1, AtDeadTicks)]
           r == ModemHardReset(u, o)
           x == [r.w EXCEPT !.qmiMissing = 0]
           d == [r EXCEPT !.w.qmiMissing = 0]
<1>1. u \in Script
  BY Settings, Increments, Zenon DEF Script
<1>2. QmiCheck(v, f, o) \in {Result(u, <<>>, FALSE), d, r}
  BY Zenon DEF QmiCheck
<1> HIDE DEF u
<1>3. Calmly(r)
  BY <1>1, HardResetIs, Zenon
<1> HIDE DEF r
<1>4. r \in Results /\ r.w \in Script
  BY <1>3, Zenon DEF Calmly, Results
<1>5. d = [r EXCEPT !.w = x]
  BY <1>4, Zenon
<1>6. x \in Script /\ (x.pending <=> r.w.pending)
  BY <1>4, Settings, Zenon DEF Script
<1> HIDE DEF x, d
<1>7. Calmly(d)
  BY <1>3, <1>4, <1>5, <1>6, Changed, Zenon
<1>8. <<>> \in Calm
  BY CalmFacts, Zenon
<1>9. Calmly(Result(u, <<>>, FALSE))
  BY <1>1, <1>8, PlainResults, Zenon
<1> QED BY <1>2, <1>3, <1>7, <1>9, Zenon

\* The check of the data plane; it goes on only after hard resets or nothing.
LEMMA PlaneCheckIs == ASSUME NEW v \in Script, NEW f, NEW o
  PROVE Cycles(PlaneCheck(v, f, o)) /\ (~PlaneCheck(v, f, o).ok => Calmly(PlaneCheck(v, f, o)))
<1> DEFINE u == [v EXCEPT !.deadTicks = @ + 1]
           x == [u EXCEPT !.deadTicks = 0]
<1>1. IF ~(f.up /\ f.call) THEN PlaneCheck(v, f, o) = Result(v, <<>>, FALSE)
      ELSE IF u.deadTicks >= DeadPlaneTicks THEN PlaneCheck(v, f, o) = DeadPlaneRecover(x, o)
      ELSE PlaneCheck(v, f, o) = Result(u, <<>>, FALSE)
  BY Zenon DEF PlaneCheck
<1>2. x = [v EXCEPT !.deadTicks = 0] /\ u.deadTicks = v.deadTicks + 1
  BY Zenon DEF Script
<1>3. x \in Script
  BY <1>2, Settings, Zenon DEF Script
<1>4. ~(u.deadTicks >= DeadPlaneTicks) => u \in Script
  <2>1. ~(u.deadTicks >= DeadPlaneTicks) => v.deadTicks + 1 \in Upto(DeadPlaneTicks - 1)
    BY <1>2, Increments, WatchdogAssumption DEF Script, Upto
  <2> QED BY <2>1 DEF Script
<1> HIDE DEF u, x
<1>5. <<>> \in Calm
  BY CalmFacts, Zenon
<1>6. Cycles(DeadPlaneRecover(x, o)) /\ (~DeadPlaneRecover(x, o).ok => Calmly(DeadPlaneRecover(x, o)))
  BY <1>3, DeadPlaneIs, Zenon
<1>7. Calmly(Result(v, <<>>, FALSE)) /\ (u \in Script => Calmly(Result(u, <<>>, FALSE)))
  BY <1>5, PlainResults, Zenon
<1> QED BY <1>1, <1>4, <1>6, <1>7, ResultFacts, Zenon

\* A bad tick waits, or climbs the ladder.
LEMMA BadTickIs == ASSUME NEW v \in Script, NEW o PROVE Climbs(BadTick(v, o))
<1> DEFINE u == [v EXCEPT !.bad = Least(@ + 1, OfflineThreshold)]
<1>1. u \in Script
  BY Increments, Zenon DEF Script
<1>2. BadTick(v, o) \in {Result(u, <<>>, TRUE), Escalate(u, o)}
  BY Zenon DEF BadTick
<1> HIDE DEF u
<1>3. <<>> \in Calm
  BY CalmFacts, Zenon
<1>4. Climbs(Escalate(u, o)) /\ Calmly(Result(u, <<>>, TRUE))
  BY <1>1, <1>3, EscalateIs, PlainResults, Zenon
<1> QED BY <1>2, <1>4, ResultFacts, Zenon

\* A bad tick of a modem that is attached, or does not say.
LEMMA AttachedIs == ASSUME NEW v \in Script, NEW f, NEW o PROVE Climbs(Attached(v, f, o))
<1> DEFINE u == [v EXCEPT !.nosignal = 0, !.lost = Never]
           p == PlaneCheck(u, f, o)
           b == BadTick(p.w, o)
           g == Result(Good(u, TRUE), <<>>, TRUE)
<1>1. u \in Script
  BY Settings, Zenon DEF Script
<1>2. IF f.up /\ f.reach THEN Attached(v, f, o) = g
      ELSE IF p.ok THEN Attached(v, f, o) = p ELSE Attached(v, f, o) = Then(p, b)
  BY Zenon DEF Attached
<1> HIDE DEF u
<1>3. Cycles(p) /\ (~p.ok => Calmly(p))
  BY <1>1, PlaneCheckIs, Zenon
<1> HIDE DEF p
<1>4. p.w \in Script
  BY <1>3, Zenon DEF Cycles, Results
<1>5. Climbs(b)
  BY <1>4, BadTickIs, Zenon
<1> HIDE DEF b
<1>6. ~p.ok => Climbs(Then(p, b))
  BY <1>3, <1>5, ThenIs, Zenon DEF Climbs
<1>7. Calmly(g)
  <2>1. Good(u, TRUE) \in Script /\ <<>> \in Calm
    BY <1>1, GoodIs, CalmFacts, Zenon
  <2> QED BY <2>1, PlainResults, Zenon
<1> QED BY <1>2, <1>3, <1>6, <1>7, ResultFacts, Zenon

\* A bad tick; without attach it only ever redials after a power-cycle.
LEMMA BadIs == ASSUME NEW v \in Script, NEW f, NEW o
  PROVE Climbs(Bad(v, f, o)) /\ (f.attach = "0" => Cycles(Bad(v, f, o)))
<1> DEFINE a == AtCheck(v, f, o)
           c == QmiCheck(a.w, f, o)
           q == Then(a, c)
           n == NoSignal(q.w, o)
           t == Attached(q.w, f, o)
<1>1. /\ Bad(v, f, o) \in {a, q, Then(q, n), Then(q, t)}
      /\ f.attach = "0" => Bad(v, f, o) \in {a, q, Then(q, n)}
  BY Zenon DEF Bad
<1>2. Calmly(a)
  BY AtCheckIs, Zenon
<1> HIDE DEF a
<1>3. a.w \in Script
  BY <1>2, Zenon DEF Calmly, Results
<1>4. Calmly(c)
  BY <1>3, QmiCheckIs, Zenon
<1> HIDE DEF c
<1>5. Calmly(q)
  BY <1>2, <1>4, ThenIs, Zenon DEF Calmly
<1> HIDE DEF q
<1>6. q.w \in Script
  BY <1>5, Zenon DEF Calmly, Results
<1>7. Cycles(n) /\ Climbs(t)
  BY <1>6, NoSignalIs, AttachedIs, Zenon
<1> HIDE DEF n, t
<1>8. Cycles(Then(q, n)) /\ Climbs(Then(q, t))
  BY <1>5, <1>7, ThenIs, Zenon DEF Cycles, Climbs
<1> QED BY <1>1, <1>2, <1>5, <1>8, ResultFacts, Zenon

\* The evaluation of a tick.
LEMMA EvaluateIs == ASSUME NEW v \in Script, NEW f, NEW o
  PROVE Climbs(Evaluate(v, f, o)) /\ (f.attach = "0" => Cycles(Evaluate(v, f, o)))
<1> DEFINE u == [v EXCEPT !.base = TRUE]
           g == Good(u, FALSE)
           h == Good(v, TRUE)
<1>1. u \in Script
  BY Zenon DEF Script
<1>2. Evaluate(v, f, o) \in {Bad(v, f, o), Result(g, <<>>, TRUE), Result(h, <<>>, TRUE)}
  BY Zenon DEF Evaluate
<1> HIDE DEF u
<1>3. g \in Script /\ h \in Script /\ <<>> \in Calm
  BY <1>1, GoodIs, CalmFacts, Zenon
<1> HIDE DEF g, h
<1>4. Calmly(Result(g, <<>>, TRUE)) /\ Calmly(Result(h, <<>>, TRUE))
  BY <1>3, PlainResults, Zenon
<1> QED BY <1>2, <1>4, BadIs, ResultFacts, Zenon

\* A tick while a dial is under way: nothing, while it has grace and wwan is down.
LEMMA PendingIs == ASSUME NEW v \in Script, NEW f, NEW o
  PROVE /\ Climbs(Pending(v, f, o)) /\ (f.attach = "0" => Cycles(Pending(v, f, o)))
        /\ ~f.up /\ v.grace > 0 => Pending(v, f, o).rungs = <<>>
<1> DEFINE u == [v EXCEPT !.pending = FALSE]
           e == [u EXCEPT !.grace = 0]
<1>1. u \in Script /\ e \in Script
  BY Settings, Zenon DEF Script
<1>2. /\ Pending(v, f, o) \in {Evaluate(e, f, o), Result(v, <<>>, TRUE), Result(u, <<>>, TRUE),
                               Escalate(u, o)}
      /\ f.attach = "0" => Pending(v, f, o) \in {Evaluate(e, f, o), Result(v, <<>>, TRUE),
                                                 Result(u, <<>>, TRUE)}
      /\ ~f.up /\ v.grace > 0 => Pending(v, f, o) = Result(v, <<>>, TRUE)
  BY Zenon DEF Pending
<1> HIDE DEF u, e
<1>3. <<>> \in Calm
  BY CalmFacts, Zenon
<1>4. Calmly(Result(u, <<>>, TRUE)) /\ Calmly(Result(v, <<>>, TRUE)) /\ Climbs(Escalate(u, o))
  BY <1>1, <1>3, PlainResults, EscalateIs, Zenon
<1>5. Result(v, <<>>, TRUE).rungs = <<>>
  BY Zenon DEF Result
<1> QED BY <1>1, <1>2, <1>4, <1>5, EvaluateIs, ResultFacts, Zenon

\* One turn of the main loop.
LEMMA TurnIs == ASSUME NEW v \in Script, NEW f, NEW o
  PROVE /\ Climbs(Turn(v, f, o)) /\ (f.attach = "0" => Cycles(Turn(v, f, o)))
        /\ ~f.up /\ v.pending /\ v.grace > 0 => Turn(v, f, o).rungs = <<>>
<1>1. /\ Turn(v, f, o) \in {Result(v, <<>>, TRUE), Pending(v, f, o), Evaluate(v, f, o)}
      /\ v.pending => Turn(v, f, o) \in {Result(v, <<>>, TRUE), Pending(v, f, o)}
  BY Zenon DEF Turn
<1>2. <<>> \in Calm
  BY CalmFacts, Zenon
<1>3. Calmly(Result(v, <<>>, TRUE))
  BY <1>2, PlainResults, Zenon
<1>4. Result(v, <<>>, TRUE).rungs = <<>>
  BY Zenon DEF Result
<1> QED BY <1>1, <1>3, <1>4, PendingIs, EvaluateIs, ResultFacts, Zenon

\* relock_reconnect: a bounce, and a hard reset when the modem does not come back.
LEMMA RelockIs == ASSUME NEW v \in Script, NEW o \in Outcomes
  PROVE /\ Calmly(Relock(v, o))
        /\ o.relock = "none" => Relock(v, o).w = v /\ Relock(v, o).rungs = <<>>
        /\ o.relock # "none" => \A t \in Climb : (Relock(v, o).rungs \o t)[1] = "bounce"
<1> DEFINE n == Result(v, <<>>, TRUE)
           b == Result(v, <<"bounce">>, TRUE)
           r == ModemHardReset(v, o)
           t == Then(b, r)
<1>1. o.relock \in {"none", "bounced", "dead"}
  BY Zenon DEF Outcomes
<1>2. Relock(v, o) = CASE o.relock = "none" -> n [] o.relock = "bounced" -> b [] o.relock = "dead" -> t
  BY Zenon DEF Relock
<1>3. /\ n.w = v /\ n.rungs = <<>> /\ b.rungs = <<"bounce">>
      /\ t.rungs = b.rungs \o r.rungs
  BY Zenon DEF Result, Then
<1>4. <<>> \in Calm /\ <<"bounce">> \in Calm
  BY CalmFacts, Zenon
<1>5. Calmly(n) /\ Calmly(b) /\ Calmly(r)
  BY <1>4, PlainResults, HardResetIs, Zenon
<1> HIDE DEF n, b, r
<1>6. Calmly(t)
  BY <1>5, ThenIs, Zenon DEF Calmly
<1>7. r.rungs \in Climb
  BY <1>5, Zenon DEF Calmly, Results
<1>8. \A s, z \in Climb : (<<"bounce">> \o s)[1] = "bounce" /\ ((<<"bounce">> \o s) \o z)[1] = "bounce"
  BY DEF Climb, Rungs
<1> HIDE DEF t
<1>9. CASE o.relock = "none"
  BY <1>2, <1>3, <1>5, <1>9, Zenon
<1>10. CASE o.relock = "bounced"
  BY <1>2, <1>3, <1>5, <1>8, <1>10, Zenon
<1>11. CASE o.relock = "dead"
  BY <1>2, <1>3, <1>6, <1>7, <1>8, <1>11
<1> QED BY <1>1, <1>9, <1>10, <1>11

\* A tick with dialling off starts over.
LEMMA ResetStateIs == ASSUME NEW v \in Script PROVE ResetState(v) \in Script
BY Settings, Zenon DEF Script, ResetState

\* Time passes within the bounds, and changes no wait into none.
LEMMA ElapseIs == ASSUME NEW v \in Script, NEW d \in TickLengths
  PROVE Elapse(v, d) \in Script /\ (Elapse(v, d).pending <=> v.pending)
<1>1. d \in Nat
  BY WatchdogAssumption, Zenon
<1>2. /\ Least(v.window + d, TriggerWindow + 1) \in Upto(TriggerWindow + 1)
      /\ Less(v.blocked, d) \in Upto(BlockSec) /\ Less(v.grace, d) \in Upto(GraceSec)
      /\ Least(v.cfun + d, CfunCooldown) \in Upto(CfunCooldown)
      /\ Least(v.mhiWindow + d, MhiResetWindow + 1) \in Upto(MhiResetWindow + 1)
      /\ Least(v.resetWindow + d, ModemResetWindow + 1) \in Upto(ModemResetWindow + 1)
      /\ Least(v.reset + d, ModemResetBackoff) \in Upto(ModemResetBackoff)
  BY <1>1, WatchdogAssumption DEF Script, Upto, Least, Less
<1>3. /\ Never \in LostAges
      /\ v.lost # Never => Least(v.lost + d, LongestLost) \in LostAges
  BY <1>1, WatchdogAssumption DEF Script, LostAges, LongestLost, Least, Never
<1> QED BY <1>2, <1>3 DEF Script, Elapse

---------------------------------------------------------------------------
(* What a ladder and a power-cycle look like.                              *)

\* A calm climb contains no dial; otherwise the dial is the last rung.
LEMMA DialIsLast == ASSUME NEW v, NEW s \in Climb, Ladder(v, s)
  PROVE /\ \A i \in 1 .. Len(s) : s[i] \in {"redial", "mhi"} => i = Len(s)
        /\ s # <<>> /\ s[Len(s)] \in {"redial", "mhi"} => v.pending
<1>1. CASE s \in Calm
  <2>1. \A i \in 1 .. Len(s) : s[i] \notin {"redial", "mhi"}
    BY <1>1 DEF Calm
  <2>2. s # <<>> => Len(s) \in 1 .. Len(s)
    BY DEF Climb
  <2> QED BY <2>1, <2>2
<1>2. ASSUME NEW c \in Calm, NEW x \in {"redial", "mhi"}, s = c \o <<x>>
      PROVE  \A i \in 1 .. Len(s) : s[i] \in {"redial", "mhi"} => i = Len(s)
  <2>1. Len(s) = Len(c) + 1 /\ Len(c) \in Nat
    BY <1>2 DEF Calm
  <2>2. \A i \in 1 .. Len(c) : s[i] = c[i] /\ c[i] \notin {"redial", "mhi"}
    BY <1>2 DEF Calm
  <2> QED BY <2>1, <2>2
<1> QED BY <1>1, <1>2 DEF Ladder

\* The redial of a power-cycle follows it.
LEMMA RedialFollowsCycle == ASSUME NEW v, NEW s \in Climb, Cycle(v, s), NEW i \in 1 .. Len(s), s[i] = "redial"
  PROVE s[Len(s)] = "redial" /\ Len(s) >= 2 /\ s[Len(s) - 1] = "cfun"
<1>1. s \notin Calm
  BY DEF Calm
<1>2. PICK c \in Calm : s = (c \o <<"cfun">>) \o <<"redial">>
  BY <1>1, Zenon DEF Cycle
<1>3. Len(s) = Len(c) + 2 /\ Len(c) \in Nat
  BY <1>2 DEF Calm
<1>4. s[Len(c) + 2] = "redial" /\ s[Len(c) + 1] = "cfun"
  BY <1>2 DEF Calm
<1> QED BY <1>3, <1>4

---------------------------------------------------------------------------
(* Every reachable state.                                                  *)

\* The variables are in range, the last tick's rungs are rungs, and a tick without
\* attach redials only after a power-cycle.
WatchdogInv ==
  /\ w \in Script /\ did \in Climb /\ seen \in Situations \cup {"none"}
  /\ NoChurnWithoutSignal

\* What a tick does.
LEMMA TickDoes == ASSUME w \in Script, NEW s \in Situations \ {"disabled"}, Tick(s)
  PROVE /\ w' \in Script /\ did' \in Climb /\ seen' = s
        /\ Ladder(w', did') /\ (Find[s].attach = "0" => Cycle(w', did'))
        /\ w.pending /\ w.grace > 0 /\ ~Find[s].up => did' = <<>> \/ did'[1] = "bounce"
<1> DEFINE f == Find[s]
<1>1. PICK o \in Outcomes, d \in TickLengths :
        LET k == Relock(w, o)
            r == Then(k, Turn(k.w, f, o))
        IN w' = Elapse(r.w, d) /\ did' = r.rungs /\ seen' = s
  BY Zenon DEF Tick
<1> HIDE DEF f
<1> DEFINE k == Relock(w, o)
           t == Turn(k.w, f, o)
           r == Then(k, t)
<1>2. w' = Elapse(r.w, d) /\ did' = r.rungs /\ seen' = s
  BY <1>1, Zenon
<1>3. /\ Calmly(k) /\ (o.relock = "none" => k.w = w /\ k.rungs = <<>>)
      /\ (o.relock # "none" => \A z \in Climb : (k.rungs \o z)[1] = "bounce")
  BY RelockIs, Zenon
<1> HIDE DEF k
<1>4. k.w \in Script
  BY <1>3, Zenon DEF Calmly, Results
<1>5. /\ Climbs(t) /\ (f.attach = "0" => Cycles(t))
      /\ (~f.up /\ k.w.pending /\ k.w.grace > 0 => t.rungs = <<>>)
  BY <1>4, TurnIs, Zenon
<1>6. t.rungs \in Climb /\ t \in Results
  BY <1>5, Zenon DEF Climbs, Results
<1>7. Climbs(r) /\ (f.attach = "0" => Cycles(r))
  <2> HIDE DEF t
  <2> QED BY <1>3, <1>5, <1>6, ThenIs, Zenon
<1>8. r.rungs = k.rungs \o t.rungs
  BY Zenon DEF Then, Result
<1> HIDE DEF t, r
<1>9. r.w \in Script /\ r.rungs \in Climb
  BY <1>7, Zenon DEF Climbs, Results
<1>10. w' \in Script /\ (w'.pending <=> r.w.pending)
  BY <1>2, <1>9, ElapseIs, Zenon
<1>11. Ladder(w', did') /\ (f.attach = "0" => Cycle(w', did'))
  BY <1>2, <1>7, <1>10, Zenon DEF Climbs, Cycles, Ladder, Cycle
<1>12. w.pending /\ w.grace > 0 /\ ~f.up => did' = <<>> \/ did'[1] = "bounce"
  <2>1. CASE o.relock = "none"
    <3>1. w.pending /\ w.grace > 0 /\ ~f.up => k.rungs = <<>> /\ t.rungs = <<>>
      BY <1>3, <1>5, <2>1, Zenon
    <3>2. <<>> \o <<>> = <<>>
      OBVIOUS
    <3> QED BY <1>2, <1>8, <3>1, <3>2, Zenon
  <2>2. CASE o.relock # "none"
    BY <1>2, <1>3, <1>6, <1>8, <2>2, Zenon
  <2> QED BY <2>1, <2>2
<1> QED BY <1>2, <1>9, <1>10, <1>11, <1>12, Zenon DEF f

\* What a tick with dialling off does.
LEMMA DisabledDoes == ASSUME w \in Script, DisabledTick
  PROVE w' \in Script /\ did' = <<>> /\ seen' = "disabled" /\ "disabled" \in Situations
<1>1. PICK d \in TickLengths : w' = Elapse(ResetState(w), d)
  BY Zenon DEF DisabledTick
<1>2. ResetState(w) \in Script
  BY ResetStateIs, Zenon
<1>3. w' \in Script
  BY <1>1, <1>2, ElapseIs, Zenon
<1> QED BY <1>3, Zenon DEF DisabledTick

\* The script starts in range.
LEMMA WatchdogStarts == Init => WatchdogInv
<1> SUFFICES ASSUME Init PROVE WatchdogInv
  OBVIOUS
<1>1. w \in Script
  BY Settings, Zenon DEF Init, Script
<1>2. did = <<>> /\ <<>> \in Climb /\ seen = "none"
  BY DEF Init, Climb
<1> QED BY <1>1, <1>2 DEF WatchdogInv, NoChurnWithoutSignal

\* Every tick keeps it.
LEMMA WatchdogKeeps == WatchdogInv /\ [Next]_vars => WatchdogInv'
<1> SUFFICES ASSUME WatchdogInv, [Next]_vars PROVE WatchdogInv'
  OBVIOUS
<1>1. CASE DisabledTick
  <2>1. <<>> \in Climb
    BY DEF Climb
  <2> QED BY <1>1, <2>1, DisabledDoes DEF WatchdogInv, NoChurnWithoutSignal
<1>2. ASSUME NEW s \in Situations \ {"disabled"}, Tick(s) PROVE WatchdogInv'
  <2>1. /\ w' \in Script /\ did' \in Climb /\ seen' = s
        /\ (Find[s].attach = "0" => Cycle(w', did'))
    BY <1>2, TickDoes, Zenon DEF WatchdogInv
  <2>2. Find["nosignal"].attach = "0"
    BY Zenon DEF Find, Finding
  <2>3. ASSUME s = "nosignal", NEW i \in 1 .. Len(did'), did'[i] = "redial"
        PROVE  did'[Len(did')] = "redial" /\ Len(did') >= 2 /\ did'[Len(did') - 1] = "cfun"
    BY <2>1, <2>2, <2>3, RedialFollowsCycle, Zenon
  <2>4. NoChurnWithoutSignal'
    BY <2>1, <2>3, Zenon DEF NoChurnWithoutSignal, Occurs
  <2> QED BY <2>1, <2>4 DEF WatchdogInv
<1>3. CASE UNCHANGED vars
  BY <1>3, Zenon DEF vars, WatchdogInv, NoChurnWithoutSignal, Occurs
<1> QED BY <1>1, <1>2, <1>3 DEF Next

\* The invariant of the script, for any options and failures.
THEOREM WatchdogInvariant == Spec => []WatchdogInv
BY WatchdogStarts, WatchdogKeeps, PTL DEF Spec

\* The script's counters stay within the thresholds that act on them, and its ages
\* within the longest wait that is compared with them.
THEOREM WatchdogTypes == Spec => []TypeOK
<1>1. WatchdogInv => TypeOK
  <2> SUFFICES ASSUME WatchdogInv PROVE TypeOK
    OBVIOUS
  <2>1. \A i \in 1 .. Len(did) : did[i] \in Rungs
    BY DEF WatchdogInv, Climb
  <2> QED BY <2>1, Zenon DEF WatchdogInv, TypeOK, Script, Upto, LostAges, LostWaits
<1> QED BY <1>1, WatchdogInvariant, PTL

\* No churn in a dead zone: a tick that finds the modem not attached redials only at
\* the end of the power-cycle of a radio that has long been lost.
THEOREM NoChurnWithoutSignalHolds == Spec => []NoChurnWithoutSignal
<1>1. WatchdogInv => NoChurnWithoutSignal
  BY Zenon DEF WatchdogInv
<1> QED BY <1>1, WatchdogInvariant, PTL

\* What a tick may never do to a dial in progress.
LeftAlone ==
  /\ \A i \in 1 .. Len(did') : did'[i] \in {"redial", "mhi"} => i = Len(did')
  /\ (w.pending /\ w.grace > 0 /\ seen' # "disabled" /\ ~Find[seen'].up)
       => (did' = <<>> \/ did'[1] = "bounce")
  /\ (did' # <<>> /\ did'[Len(did')] \in {"redial", "mhi"}) => w'.pending

\* No tick does.
LEMMA NextLeavesAlone == ASSUME WatchdogInv, Next PROVE LeftAlone
<1>1. CASE DisabledTick
  <2>1. did' = <<>> /\ seen' = "disabled"
    BY <1>1, DisabledDoes, Zenon DEF WatchdogInv
  <2> QED BY <2>1 DEF LeftAlone
<1>2. ASSUME NEW s \in Situations \ {"disabled"}, Tick(s) PROVE LeftAlone
  <2>1. /\ did' \in Climb /\ seen' = s /\ Ladder(w', did')
        /\ w.pending /\ w.grace > 0 /\ ~Find[s].up => did' = <<>> \/ did'[1] = "bounce"
    BY <1>2, TickDoes, Zenon DEF WatchdogInv
  <2>2. /\ \A i \in 1 .. Len(did') : did'[i] \in {"redial", "mhi"} => i = Len(did')
        /\ did' # <<>> /\ did'[Len(did')] \in {"redial", "mhi"} => w'.pending
    BY <2>1, DialIsLast, Zenon
  <2> QED BY <2>1, <2>2, Zenon DEF LeftAlone
<1> QED BY <1>1, <1>2 DEF Next

\* A dial in progress is left alone, whatever fails and however long ticks last: a
\* redial or MHI reset ends its tick and is waited for, and while it has grace left
\* and wwan is down only the bounce of a SIM that re-locked interferes.
THEOREM FreshDialLeftAloneHolds == Spec => FreshDialLeftAlone
<1>1. WatchdogInv /\ [Next]_vars => [LeftAlone]_vars
  BY NextLeavesAlone, Zenon
<1>2. Spec => [][LeftAlone]_vars
  BY <1>1, WatchdogInvariant, PTL DEF Spec
<1> QED BY <1>2, Zenon DEF FreshDialLeftAlone, LeftAlone
====
