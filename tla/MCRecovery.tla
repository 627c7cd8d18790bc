----------------------------- MODULE MCRecovery -----------------------------
(* What recovery must come to, for TLC: every script that takes wwan down or  *)
(* up ends and leaves it as the user wants it, a saved PIN that is right      *)
(* unlocks the SIM, and a modem that stays stuck is hard-reset.  A behaviour  *)
(* plays one of these and the others stay in an initial state.                *)
EXTENDS WwanControl

CONSTANTS wd, p1, p2, qcm, simA, pinA, pinB

VARIABLES
  playing,    \* what this behaviour plays
  card, sim, left, uci, flash, simLock, pc, rc, mypin, myiccid, myleft, ui, wanted, quiet,
  charged, typed, swapped,    \* SimUnlock
  w, did, seen                \* Watchdog

\* What the user's choice is kept through: not a scan, a PIN bounce or an MHI
\* reset that was under way, nor a reboot or an upgrade.
IntentEvents == {"redial", "relock", "reset", "connect", "settings", "disconnect", "health", "fault"}
ConnectEvents == IntentEvents \ {"redial", "fault"}
Three == {wd, p1, p2}
Intents == INSTANCE WwanControl WITH Slots <- Three, Events <- IntentEvents
Connects == INSTANCE WwanControl WITH Slots <- Three, Events <- ConnectEvents

Callers == {qcm, wd}
Cards == {simA}
RealPin == [k \in Cards |-> pinA]
Sim == INSTANCE SimUnlock WITH Callers <- Callers, OpenCards <- {}, Pins <- {pinA, pinB}, UiPins <- {}, lock <- simLock

Dog == INSTANCE Watchdog WITH
  OfflineThreshold <- 2, TriggerWindow <- 4, TriggerMax <- 1, BlockSec <- 4, GraceSec <- 2,
  CfunAfterCycles <- 2, CfunCooldown <- 4, CfunBeforeReset <- 1, CfunRecheckTicks <- 2,
  AtDeadTicks <- 2, DeadPlaneTicks <- 2, MhiResetMax <- 0, MhiResetWindow <- 1,
  ModemResetMax <- 1, ModemResetWindow <- 4, ModemResetBackoff <- 3,
  AttachLostCfun <- 1, AttachLostCfunMax <- 2, TickLengths <- {1},
  Situations <- {"good", "plane", "down", "gone", "disabled"},
  Failures <- {"reset", "radio"}

simVars == <<card, sim, left, uci, flash, simLock, pc, rc, mypin, myiccid, myleft, ui, wanted, quiet,
             charged, typed, swapped>>
dogVars == <<w, did, seen>>
recVars == <<playing, vars, simVars, dogVars>>

SimRests == left = [k \in Cards |-> 3] /\ uci = [pin |-> None, iccid |-> None, failed |-> FALSE, pending |-> None] /\ Sim!Init

RecInit ==
  \/ playing = "live" /\ Init /\ SimRests /\ Dog!Init
  \/ playing = "intent" /\ Intents!Init /\ SimRests /\ Dog!Init
  \/ playing = "connect" /\ Connects!Init /\ SimRests /\ Dog!Init
  \/ playing = "sim" /\ Init /\ Sim!Init /\ Dog!Init
  \/ playing = "dog" /\ Init /\ SimRests /\ Dog!Init

OfWwan(A) == playing = "live" /\ A /\ UNCHANGED <<playing, simVars, dogVars>>
OfIntents(A) == playing = "intent" /\ A /\ UNCHANGED <<playing, simVars, dogVars>>
OfConnects(A) == playing = "connect" /\ A /\ UNCHANGED <<playing, simVars, dogVars>>
OfSim(A) == playing = "sim" /\ A /\ UNCHANGED <<playing, vars, dogVars>>
OfDog(A) == playing = "dog" /\ A /\ UNCHANGED <<playing, vars, simVars>>

RecNext ==
  OfWwan(Next) \/ OfIntents(Intents!Next) \/ OfConnects(Connects!Next) \/ OfSim(Sim!Next) \/ OfDog(Dog!Next)

\* The fairness of each component.
RecFair ==
  /\ \A s \in Slots : SF_recVars(OfWwan(Step(s)))
  /\ WF_recVars(OfWwan(ExpireScan) \/ OfDog(Dog!Next))
  /\ \A c \in Callers : WF_recVars(OfSim(Sim!Start(c))) /\ WF_recVars(OfSim(Sim!Run(c)))

RecSpec == RecInit /\ [][RecNext]_recVars /\ RecFair

\* DisconnectSticks, with the events it is about: a redial, reconnect or reset
\* under way when the user disconnects does not bring wwan up behind them.
DisconnectHeld == playing = "intent" => Intents!DisconnectSticks

\* ConnectTakesEffect, with the events it is about: reconnects and resets that
\* overtake each other do not leave wwan down when the user wants it up.
ConnectHeld == playing = "connect" => Connects!ConnectTakesEffect

\* EveryScriptEnds of WwanControl: no script waits for ever for the lock.
ScriptsEnd == playing = "live" => EveryScriptEnds

\* RightPinRecovers of SimUnlock: the right saved PIN unlocks the SIM of a
\* modem that has come to rest, whatever went unanswered before.
RightPinUnlocks == playing = "sim" => Sim!RightPinRecovers

\* StuckModemIsReset of Watchdog: the ladder never wedges.
StuckModemReset == playing = "dog" => Dog!StuckModemIsReset
=============================================================================
