----------------------------- MODULE SimUnlock -----------------------------
(***************************************************************************)
(* The automatic SIM unlock: gl-cellular-sim-unlock, run by netifd's qcm   *)
(* proto handler before every data call and by the watchdog's              *)
(* sim_lock_watch after a re-lock, next to the UI's set_sim_pin_code RPC,  *)
(* which enters a PIN without taking the script's lock.                    *)
(*                                                                         *)
(* The configuration options of network.wwan live in two places: `uci` is  *)
(* what `uci get` shows, staged changes included, and `flash` is what was  *)
(* committed and survives a reboot.  The card and its attempt counter are  *)
(* external; an AT query can go unanswered until the modem is `quiet`.     *)
(***************************************************************************)
EXTENDS Integers

CONSTANTS
  Callers,     \* processes that run the script
  Watchdog,    \* the one of them that is gl-cellular-boot-redial
  Cards,       \* SIM cards, named by their ICCID
  OpenCards,   \* the cards that ask for no PIN
  Pins,        \* PINs
  UiPins,      \* the PINs somebody types into the UI
  RealPin,     \* the PIN each card accepts
  None

ASSUME SimAssumption ==
  /\ Watchdog \in Callers
  /\ OpenCards \subseteq Cards
  /\ UiPins \subseteq Pins
  /\ RealPin \in [Cards -> Pins]
  /\ None \notin Callers \cup Cards \cup Pins \cup Int

VARIABLES
  card,      \* the card in the tray
  sim,       \* what AT+CPIN? reports of it
  left,      \* the PIN attempts each card has left (AT+QPINC?)
  uci,       \* pincode, pin_iccid, pin_failed and pin_pending as `uci get` shows them
  flash,     \* the same options as committed
  lock,      \* holder of gl-cellular-sim-unlock.lock
  pc,        \* where each run of the script is
  rc,        \* exit code of its last run
  mypin,     \* its copy of the saved PIN,
  myiccid,   \* of the saved binding
  myleft,    \* and of the attempt counter
  ui,        \* the PIN set_sim_pin_code has had accepted and not yet saved
  wanted,    \* cellular is administratively enabled
  quiet,     \* the modem answers and nothing disturbs it any more
  charged,   \* history: attempts automatic entries have cost each card since its counter was last full
  typed,     \* history: somebody has entered a PIN in the UI
  swapped    \* history: the card has been changed

config == <<uci, flash>>
local == <<mypin, myiccid, myleft>>
modem == <<card, sim, left, charged>>
history == <<typed, swapped>>
vars == <<config, local, modem, history, lock, pc, rc, ui, wanted, quiet>>

FullTries == 3
Config == [pin : Pins \cup {None}, iccid : Cards \cup {None}, failed : BOOLEAN,
           pending : 0..FullTries \cup {None}]
Steps == {"idle", "lock", "cpin", "config", "iccid", "qpinc", "persist",
          "submit", "rejected", "confirm"}

\* What a card reports when the modem has just powered it up.
PoweredUp(k, tries) == IF tries = 0 THEN "PUK" ELSE IF k \in OpenCards THEN "READY" ELSE "PIN"

Init ==
  /\ card \in Cards
  /\ left \in [Cards -> 1..FullTries]
  /\ sim = PoweredUp(card, left[card])
  /\ uci \in [pin : Pins \cup {None}, iccid : Cards \cup {None}, failed : {FALSE}, pending : {None}]
  /\ flash = uci
  /\ lock = None
  /\ pc = [c \in Callers |-> "idle"]
  /\ rc = [c \in Callers |-> 0]
  /\ mypin = [c \in Callers |-> None]
  /\ myiccid = [c \in Callers |-> None]
  /\ myleft = [c \in Callers |-> 0]
  /\ ui = None
  /\ wanted = TRUE
  /\ quiet = FALSE
  /\ charged = [k \in Cards |-> 0]
  /\ typed = FALSE
  /\ swapped = FALSE

----------------------------------------------------------------------------
\* `uci commit network` after the options became c; while the modem is not
\* quiet the flash write may fail as well.
CommitMutant(c, ok) == (ok \/ ~quiet) /\ uci' = c /\ UNCHANGED flash
Commit(c, ok) ==
  /\ ok \/ ~quiet
  /\ uci' = c
  /\ flash' = IF ok THEN c ELSE flash

Goto(c, step) == pc' = [pc EXCEPT ![c] = step]

\* The script exits, and its variables and its flock go with it.
Exit(c, code) ==
  /\ Goto(c, "idle")
  /\ rc' = [rc EXCEPT ![c] = code]
  /\ lock' = IF lock = c THEN None ELSE lock
  /\ mypin' = [mypin EXCEPT ![c] = None]
  /\ myiccid' = [myiccid EXCEPT ![c] = None]
  /\ myleft' = [myleft EXCEPT ![c] = 0]

\* The script goes on to its next step without reading anything.
Proceed(c, step) == Goto(c, step) /\ UNCHANGED <<lock, rc, local>>

\* READY was seen: clear_pending, then exit 0, or 5 when the commit fails.
ReadyExit(c) ==
  \/ uci.pending = None /\ UNCHANGED config /\ Exit(c, 0)
  \/ /\ uci.pending # None
     /\ \E ok \in BOOLEAN : /\ Commit([uci EXCEPT !.pending = None], ok)
                            /\ Exit(c, IF ok THEN 0 ELSE 5)

\* netifd runs setup again unless the last exit blocked the interface; the
\* watchdog runs the script when it sees the PIN prompt and may use the PIN.
Start(c) ==
  /\ pc[c] = "idle"
  /\ IF c = Watchdog
       THEN sim = "PIN" /\ wanted /\ uci.pin # None /\ ~uci.failed
       ELSE rc[c] \notin 1..3
  /\ Proceed(c, "lock")
  /\ UNCHANGED <<config, modem, history, ui, wanted, quiet>>

\* flock -n takes the lock.
LockFreeMutant == TRUE
LockFree == lock = None

AcquireLock(c) ==
  /\ pc[c] = "lock"
  /\ \/ LockFree /\ lock' = c /\ Goto(c, "cpin") /\ UNCHANGED <<rc, local>>
     \/ lock # None /\ Exit(c, 5)
  /\ UNCHANGED <<config, modem, history, ui, wanted, quiet>>

\* The boot-time wait for an answer to AT+CPIN?, and what its answer means.
CheckSim(c) ==
  /\ pc[c] = "cpin"
  /\ \/ ~quiet /\ UNCHANGED config /\ \E code \in {3, 4} : Exit(c, code)
     \/ sim = "READY" /\ ReadyExit(c)
     \/ sim = "PUK" /\ UNCHANGED config /\ Exit(c, 3)
     \/ sim = "PIN" /\ UNCHANGED config /\ Proceed(c, "config")
  /\ UNCHANGED <<modem, history, ui, wanted, quiet>>

ReadConfig(c) ==
  /\ pc[c] = "config"
  /\ \/ uci.pin = None /\ Exit(c, 1)
     \/ uci.pin # None /\ uci.failed /\ Exit(c, 2)
     \/ /\ uci.pin # None /\ ~uci.failed
        /\ mypin' = [mypin EXCEPT ![c] = uci.pin]
        /\ myiccid' = [myiccid EXCEPT ![c] = uci.iccid]
        /\ Goto(c, "iccid")
        /\ UNCHANGED <<myleft, lock, rc>>
  /\ UNCHANGED <<config, modem, history, ui, wanted, quiet>>

CheckBinding(c) ==
  /\ pc[c] = "iccid"
  /\ \/ ~quiet /\ Exit(c, 4)
     \/ myiccid[c] # card /\ Exit(c, 1)
     \/ myiccid[c] = card /\ Proceed(c, "qpinc")
  /\ UNCHANGED <<config, modem, history, ui, wanted, quiet>>

TooFewMutant(n) == n < 1
TooFew(n) == n < 2

ReadCounter(c) ==
  /\ pc[c] = "qpinc"
  /\ \/ ~quiet /\ Exit(c, 4)
     \/ TooFew(left[card]) /\ Exit(c, 2)
     \/ /\ ~TooFew(left[card])
        /\ myleft' = [myleft EXCEPT ![c] = left[card]]
        /\ Goto(c, "persist")
        /\ UNCHANGED <<mypin, myiccid, lock, rc>>
  /\ UNCHANGED <<config, modem, history, ui, wanted, quiet>>

\* An earlier entry was never confirmed and has cost an attempt.
RefusalMutant(c) == uci.pending # None
Refusal(c) == uci.pending # None /\ myleft[c] < uci.pending

Mark(c) == myleft[c]

\* An entry that was never confirmed is judged by the counter; otherwise the
\* counter is committed before the PIN is sent, if cellular is still wanted.
Persist(c) ==
  /\ pc[c] = "persist"
  /\ \E ok \in BOOLEAN :
       \/ /\ Refusal(c)
          /\ Commit([uci EXCEPT !.failed = TRUE, !.pending = None], ok)
          /\ Exit(c, 2)
       \/ /\ ~Refusal(c) /\ wanted
          /\ Commit([uci EXCEPT !.pending = Mark(c)], ok)
          /\ IF ok THEN Proceed(c, "submit") ELSE Exit(c, 5)
       \/ /\ ~Refusal(c) /\ ~wanted
          /\ UNCHANGED config /\ Exit(c, 5)
  /\ UNCHANGED <<modem, history, ui, wanted, quiet>>

\* The card's answer to AT+CPIN="p": a prompt for a PIN accepts the right one
\* and counts a wrong one; in any other state nothing is consumed.
CardTakes(p) ==
  LET right == p = RealPin[card] IN
  IF sim # "PIN" THEN UNCHANGED <<sim, left>>
  ELSE /\ left' = [left EXCEPT ![card] = IF right THEN FullTries ELSE @ - 1]
       /\ sim' = IF right THEN "READY" ELSE IF left[card] = 1 THEN "PUK" ELSE "PIN"

Refused(p) == sim = "PIN" /\ p # RealPin[card]

\* The PIN goes out.  The command or its reply can be lost; only a reply
\* that names a wrong password is recognised.
Submit(c) ==
  /\ pc[c] = "submit"
  /\ \/ /\ CardTakes(mypin[c])
        /\ charged' = [charged EXCEPT ![card] = IF Refused(mypin[c]) THEN @ + 1
                                                ELSE IF sim = "PIN" THEN 0 ELSE @]
        /\ \/ Refused(mypin[c]) /\ Proceed(c, "rejected")
           \/ (~Refused(mypin[c]) \/ ~quiet) /\ Proceed(c, "confirm")
     \/ ~quiet /\ UNCHANGED <<sim, left, charged>> /\ Proceed(c, "confirm")
  /\ UNCHANGED <<config, card, history, ui, wanted, quiet>>

Rejected(c) ==
  /\ pc[c] = "rejected"
  /\ \E ok \in BOOLEAN : Commit([uci EXCEPT !.failed = TRUE], ok)
  /\ Exit(c, 2)
  /\ UNCHANGED <<modem, history, ui, wanted, quiet>>

\* READY reconciles a lost reply; after 20 polls the counter is left to decide.
Confirm(c) ==
  /\ pc[c] = "confirm"
  /\ \/ sim = "READY" /\ ReadyExit(c)
     \/ sim = "PUK" /\ UNCHANGED config /\ Exit(c, 3)
     \/ (sim = "PIN" \/ ~quiet) /\ UNCHANGED config /\ Exit(c, 5)
  /\ UNCHANGED <<modem, history, ui, wanted, quiet>>

\* The run is killed: netifd does that to a setup that is being torn down.
Kill(c) ==
  /\ ~quiet /\ pc[c] # "idle"
  /\ Exit(c, 5)
  /\ UNCHANGED <<config, modem, history, ui, wanted, quiet>>

----------------------------------------------------------------------------
\* set_sim_pin_code: the card takes or refuses the PIN the user typed ...
UiEnter(p) ==
  /\ ui = None /\ sim = "PIN" /\ ~quiet
  /\ CardTakes(p)
  /\ charged' = [charged EXCEPT ![card] = IF Refused(p) THEN @ ELSE 0]
  /\ ui' \in {None} \cup (IF Refused(p) THEN {} ELSE {p})
  /\ typed' = TRUE
  /\ UNCHANGED <<config, local, card, lock, pc, rc, wanted, quiet, swapped>>

\* ... and an accepted one is saved, bound to the ICCID if that query is
\* answered; a wwan that had stopped to wait for it is brought up again.
UiSave ==
  /\ ui # None
  /\ \E k \in {card} \cup (IF quiet THEN {} ELSE {uci.iccid}), ok \in BOOLEAN :
       Commit([uci EXCEPT !.pin = ui, !.iccid = k, !.failed = FALSE], ok)
  /\ ui' = None
  /\ rc' = [c \in Callers |-> IF rc[c] \in 1..3 THEN 0 ELSE rc[c]]
  /\ UNCHANGED <<local, modem, history, lock, pc, wanted, quiet>>

\* Anybody's `ifup wwan` lifts the block netifd put on the interface.
IfUp(c) ==
  /\ c # Watchdog /\ rc[c] \in 1..3 /\ pc[c] = "idle" /\ ~quiet
  /\ rc' = [rc EXCEPT ![c] = 0]
  /\ UNCHANGED <<config, local, modem, history, lock, pc, ui, wanted, quiet>>

\* The modem re-initialises the card it is using.
Relock ==
  /\ ~quiet /\ sim = "READY"
  /\ sim' = PoweredUp(card, left[card])
  /\ UNCHANGED <<config, local, card, left, charged, history, lock, pc, rc, ui, wanted, quiet>>

Swap(k) ==
  /\ ~quiet /\ k # card
  /\ card' = k
  /\ sim' = PoweredUp(k, left[k])
  /\ swapped' = TRUE
  /\ UNCHANGED <<config, local, left, charged, typed, lock, pc, rc, ui, wanted, quiet>>

Toggle ==
  /\ ~quiet
  /\ wanted' = ~wanted
  /\ UNCHANGED <<config, local, modem, history, lock, pc, rc, ui, quiet>>

\* A reboot loses every process and every change that was only staged.
Reboot ==
  /\ ~quiet
  /\ uci' = flash
  /\ pc' = [c \in Callers |-> "idle"]
  /\ rc' = [c \in Callers |-> 0]
  /\ lock' = None
  /\ ui' = None
  /\ mypin' = [c \in Callers |-> None]
  /\ myiccid' = [c \in Callers |-> None]
  /\ myleft' = [c \in Callers |-> 0]
  /\ sim' = PoweredUp(card, left[card])
  /\ UNCHANGED <<flash, card, left, charged, history, wanted, quiet>>

Settle ==
  /\ ~quiet
  /\ quiet' = TRUE
  /\ UNCHANGED <<config, local, modem, history, lock, pc, rc, ui, wanted>>

Run(c) ==
  \/ AcquireLock(c) \/ CheckSim(c) \/ ReadConfig(c) \/ CheckBinding(c) \/ ReadCounter(c)
  \/ Persist(c) \/ Submit(c) \/ Rejected(c) \/ Confirm(c)

Next ==
  \/ \E c \in Callers : Start(c) \/ Run(c) \/ Kill(c) \/ IfUp(c)
  \/ \E p \in UiPins : UiEnter(p)
  \/ \E k \in Cards : Swap(k)
  \/ UiSave \/ Relock \/ Toggle \/ Reboot \/ Settle

Spec == Init /\ [][Next]_vars

\* A started run goes on, netifd retries a setup that did not block the
\* interface, and the watchdog looks at the SIM in every tick.
FairSpec == Spec /\ \A c \in Callers : WF_vars(Start(c)) /\ WF_vars(Run(c))
----------------------------------------------------------------------------
TypeOK ==
  /\ card \in Cards
  /\ sim \in {"PIN", "READY", "PUK"}
  /\ left \in [Cards -> 0..FullTries]
  /\ uci \in Config /\ flash \in Config
  /\ lock \in Callers \cup {None}
  /\ pc \in [Callers -> Steps]
  /\ rc \in [Callers -> 0..5]
  /\ mypin \in [Callers -> Pins \cup {None}]
  /\ myiccid \in [Callers -> Cards \cup {None}]
  /\ myleft \in [Callers -> 0..FullTries]
  /\ ui \in Pins \cup {None}
  /\ wanted \in BOOLEAN /\ quiet \in BOOLEAN
  /\ charged \in [Cards -> Nat]
  /\ typed \in BOOLEAN /\ swapped \in BOOLEAN

\* Left to itself the router never locks the SIM: as long as nobody types a
\* PIN in the UI or changes the card, no sequence of automatic entries, lost
\* replies, kills, failed commits and reboots brings the card to its PUK.
UnattendedNeverPuk == ~typed /\ ~swapped => sim # "PUK"

\* A saved PIN that the card refuses costs it one attempt and not two before
\* the counter is full again, whatever is lost or killed in between, because
\* the counter was committed before the PIN was sent (as long as nobody
\* types a PIN or changes the card meanwhile).
ChargedOnce == ~typed /\ ~swapped => \A k \in Cards : charged[k] <= 1

\* Once the card has refused the saved PIN (pin_failed), no run of the script
\* is on its way to entering it again, the other caller's included.
NoEntryAfterReject ==
  \A c \in Callers : pc[c] \in {"iccid", "qpinc", "persist", "submit"} => ~uci.failed

\* An unconfirmed entry never blocks the next one for good: when the modem is
\* quiet and the saved PIN is the right one, the SIM gets unlocked without
\* the UI.
RightPinRecovers ==
  (/\ quiet /\ wanted /\ sim = "PIN" /\ left[card] >= 2
   /\ uci.pin = RealPin[card] /\ uci.iccid = card /\ ~uci.failed) ~> (sim = "READY")

=============================================================================
