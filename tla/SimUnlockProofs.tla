-------------------------- MODULE SimUnlockProofs --------------------------
(***************************************************************************)
(* Proofs about the automatic SIM unlock, for any number of callers, cards *)
(* and PINs.                                                               *)
(***************************************************************************)
EXTENDS SimUnlock, TLAPS

\* Past the lock: everything the script does between flock and its exit.
Inside == Steps \ {"idle", "lock"}

Unattended == ~typed /\ ~swapped

\* A run that is past the lock holds it.
Exclusion == \A c \in Callers : pc[c] \in Inside => lock = c

\* Nobody else changes the counter between its reading and the entry, so the
\* copy is exact and worth at least two attempts.
CopyIsFresh ==
  /\ left[card] >= 1
  /\ \A c \in Callers :
       pc[c] \in {"persist", "submit"} => left[card] >= 2 /\ myleft[c] = left[card]

\* Options that stop the next run before it enters the PIN again.
Stops(conf) == conf.failed \/ (conf.pending # None /\ left[card] < conf.pending)

\* The counter is committed before the entry, and an entry that was refused
\* leaves options behind, staged and committed, that stop the next one.
Recorded ==
  /\ \A c \in Callers : pc[c] = "submit" =>
       uci.pending = left[card] /\ flash.pending = left[card] /\ charged[card] = 0
  /\ charged[card] >= 1 => sim = "PIN" /\ Stops(uci) /\ Stops(flash)
  /\ charged[card] <= 1
  /\ \A k \in Cards \ {card} : charged[k] = 0

\* A card that asks for its PIN is one that has a PIN and attempts left.
Prompted == sim = "PIN" => card \notin OpenCards /\ left[card] >= 1

\* What holds of a router left to itself.
Safe == sim # "PUK" /\ CopyIsFresh /\ Recorded

\* The inductive invariant: the mutual exclusion makes the copies exact, the
\* exact copies make the committed counter exact, and that one stops the
\* next entry after a refused one.
IInv ==
  /\ TypeOK
  /\ Exclusion
  /\ NoEntryAfterReject
  /\ ui # None => typed
  /\ Prompted
  /\ Unattended => Safe

\* The router starts with no run of the script under way.
LEMMA InitIInv == Init => IInv
<1> SUFFICES ASSUME Init PROVE IInv
  OBVIOUS
<1> USE SimAssumption
<1>1. TypeOK
  <2>1. uci \in Config
    BY DEF Init, Config
  <2>2. left \in [Cards -> 0..FullTries] /\ sim \in {"PIN", "READY", "PUK"}
    BY DEF Init, PoweredUp, FullTries
  <2>3. charged \in [Cards -> Nat] /\ card \in Cards
    BY DEF Init
  <2>4. pc \in [Callers -> Steps] /\ rc \in [Callers -> 0..5]
    BY DEF Init, Steps
  <2>5. mypin \in [Callers -> Pins \cup {None}] /\ myiccid \in [Callers -> Cards \cup {None}] /\ myleft \in [Callers -> 0..FullTries]
    BY DEF Init, FullTries
  <2> QED
    BY <2>1, <2>2, <2>3, <2>4, <2>5 DEF Init, TypeOK
<1>2. Exclusion /\ NoEntryAfterReject
  BY DEF Init, Exclusion, Inside, NoEntryAfterReject
<1>3. sim # "PUK" /\ Prompted
  BY DEF Init, Prompted, PoweredUp, FullTries
<1>4. CopyIsFresh
  BY DEF Init, CopyIsFresh, FullTries
<1>5. Recorded
  BY DEF Init, Recorded
<1> QED
  BY <1>1, <1>2, <1>3, <1>4, <1>5 DEF IInv, Safe, Init

\* Setting and deleting the options of network.wwan keeps their types.
LEMMA ConfigUpdates ==
  ASSUME NEW conf \in Config
  PROVE  /\ \A n \in 0..FullTries \cup {None} : [conf EXCEPT !.pending = n] \in Config
         /\ [conf EXCEPT !.failed = TRUE] \in Config
         /\ [conf EXCEPT !.failed = TRUE, !.pending = None] \in Config
         /\ \A p \in Pins, k \in Cards \cup {None} :
              [conf EXCEPT !.pin = p, !.iccid = k, !.failed = FALSE] \in Config
<1>1. \A n \in 0..FullTries \cup {None} : [conf EXCEPT !.pending = n] \in Config
  BY DEF Config
<1>2. [conf EXCEPT !.failed = TRUE] \in Config
  BY DEF Config
<1>3. [conf EXCEPT !.failed = TRUE, !.pending = None] \in Config
  BY DEF Config
<1>4. \A p \in Pins, k \in Cards \cup {None} :
        [conf EXCEPT !.pin = p, !.iccid = k, !.failed = FALSE] \in Config
  BY DEF Config
<1> QED
  BY <1>1, <1>2, <1>3, <1>4

\* Every commit leaves options of the right types, staged and committed.
LEMMA ConfigStep == TypeOK /\ [Next]_vars => uci' \in Config /\ flash' \in Config
<1> SUFFICES ASSUME TypeOK, [Next]_vars PROVE uci' \in Config /\ flash' \in Config
  OBVIOUS
<1>0. /\ uci \in Config /\ flash \in Config
      /\ card \in Cards /\ ui \in Pins \cup {None} /\ uci.iccid \in Cards \cup {None}
      /\ \A c \in Callers : myleft[c] \in 0..FullTries
  BY DEF TypeOK, Config
<1>a. ASSUME NEW n \in 0..FullTries \cup {None}, NEW ok \in BOOLEAN,
             Commit([uci EXCEPT !.pending = n], ok)
      PROVE  uci' \in Config /\ flash' \in Config
  <2>1. [uci EXCEPT !.pending = n] \in Config
    BY <1>0, ConfigUpdates
  <2> QED
    BY <1>0, <1>a, <2>1 DEF Commit
<1>1. ASSUME NEW c \in Callers, CheckSim(c) \/ Confirm(c) PROVE uci' \in Config /\ flash' \in Config
  <2>1. UNCHANGED config \/ \E ok \in BOOLEAN : Commit([uci EXCEPT !.pending = None], ok)
    BY <1>1 DEF CheckSim, Confirm, ReadyExit
  <2> QED
    BY <1>0, <1>a, <2>1 DEF config
<1>2. ASSUME NEW c \in Callers, Persist(c) PROVE uci' \in Config /\ flash' \in Config
  <2>1. \/ UNCHANGED config
        \/ \E ok \in BOOLEAN : Commit([uci EXCEPT !.pending = myleft[c]], ok)
        \/ \E ok \in BOOLEAN : Commit([uci EXCEPT !.failed = TRUE, !.pending = None], ok)
    BY <1>2 DEF Persist, Mark
  <2>2. [uci EXCEPT !.failed = TRUE, !.pending = None] \in Config
    BY <1>0, ConfigUpdates
  <2>3. CASE \E ok \in BOOLEAN : Commit([uci EXCEPT !.failed = TRUE, !.pending = None], ok)
    BY <1>0, <2>2, <2>3 DEF Commit
  <2> QED
    BY <1>0, <1>a, <2>1, <2>3 DEF config
<1>3. ASSUME NEW c \in Callers, Rejected(c) PROVE uci' \in Config /\ flash' \in Config
  BY <1>0, <1>3, ConfigUpdates DEF Rejected, Commit
<1>4. CASE UiSave
  <2>1. PICK k \in Cards \cup {None}, ok \in BOOLEAN :
          Commit([uci EXCEPT !.pin = ui, !.iccid = k, !.failed = FALSE], ok)
    BY <1>0, <1>4 DEF UiSave
  <2> QED
    BY <1>0, <1>4, <2>1, ConfigUpdates DEF UiSave, Commit
<1>5. CASE Reboot
  BY <1>0, <1>5 DEF Reboot
<1>6. CASE UNCHANGED config
  BY <1>0, <1>6 DEF config
<1> QED
  BY <1>1, <1>2, <1>3, <1>4, <1>5, <1>6
     DEF Next, Run, Start, AcquireLock, ReadConfig, CheckBinding, ReadCounter, Submit, Kill,
         IfUp, UiEnter, Swap, Relock, Toggle, Settle, vars

\* The types survive a step; the attempt counter because only a prompting card counts down.
LEMMA TypeStep == TypeOK /\ Prompted /\ [Next]_vars => TypeOK'
<1> SUFFICES ASSUME TypeOK, Prompted, [Next]_vars PROVE TypeOK'
  OBVIOUS
<1>0. uci' \in Config /\ flash' \in Config
  BY ConfigStep
<1>a. uci.pin \in Pins \cup {None} /\ uci.iccid \in Cards \cup {None}
  BY DEF TypeOK, Config
<1> USE SimAssumption, <1>0, <1>a DEF TypeOK, Steps, FullTries
<1>1. ASSUME NEW c \in Callers, Start(c) \/ Kill(c) \/ IfUp(c) PROVE TypeOK'
  BY <1>1 DEF Start, Kill, IfUp, Proceed, Goto, Exit, local, modem, history
<1>2. ASSUME NEW c \in Callers, AcquireLock(c) \/ CheckSim(c) PROVE TypeOK'
  BY <1>2 DEF AcquireLock, CheckSim, ReadyExit, Proceed, Goto, Exit, local, modem, history
<1>3. ASSUME NEW c \in Callers, ReadConfig(c) \/ CheckBinding(c) \/ ReadCounter(c) PROVE TypeOK'
  BY <1>3 DEF ReadConfig, CheckBinding, ReadCounter, Proceed, Goto, Exit, local, modem, history
<1>4. ASSUME NEW c \in Callers, Persist(c) PROVE TypeOK'
  BY <1>4 DEF Persist, Proceed, Goto, Exit, local, modem, history
<1>5. ASSUME NEW c \in Callers, Submit(c) PROVE TypeOK'
  BY <1>5 DEF Submit, Prompted, CardTakes, Refused, Proceed, Goto, local, modem, history
<1>6. ASSUME NEW c \in Callers, Rejected(c) \/ Confirm(c) PROVE TypeOK'
  BY <1>6 DEF Rejected, Confirm, ReadyExit, Goto, Exit, local, modem, history
<1>7. ASSUME NEW p \in UiPins, UiEnter(p) PROVE TypeOK'
  BY <1>7 DEF UiEnter, Prompted, CardTakes, Refused, local, modem, history
<1>8. CASE UiSave
  BY <1>8 DEF UiSave, local, modem, history
<1>9. ASSUME NEW k \in Cards, Swap(k) PROVE TypeOK'
  BY <1>9 DEF Swap, PoweredUp, local, modem, history
<1>10. CASE Relock \/ Toggle \/ Reboot \/ Settle
  <2>1. CASE Relock
    BY <2>1 DEF Relock, PoweredUp, local, modem, history
  <2>2. CASE Toggle \/ Settle
    BY <2>2 DEF Toggle, Settle, local, modem, history
  <2>3. CASE Reboot
    BY <2>3 DEF Reboot, PoweredUp, modem, history
  <2> QED
    BY <1>10, <2>1, <2>2, <2>3
<1>11. CASE UNCHANGED vars
  BY <1>11 DEF vars, local, modem, history
<1> QED
  BY <1>1, <1>2, <1>3, <1>4, <1>5, <1>6, <1>7, <1>8, <1>9, <1>10, <1>11 DEF Next, Run

\* The flock: a run gets past it only when no other run is past it.
LEMMA ExclusionStep == TypeOK /\ Exclusion /\ [Next]_vars => Exclusion'
<1> SUFFICES ASSUME TypeOK, Exclusion, [Next]_vars PROVE Exclusion'
  OBVIOUS
<1> USE SimAssumption DEF TypeOK, Exclusion, Inside, Steps
<1>1. ASSUME NEW c \in Callers, Start(c) \/ Kill(c) PROVE Exclusion'
  BY <1>1 DEF Start, Kill, Proceed, Goto, Exit
<1>2. ASSUME NEW c \in Callers, AcquireLock(c) PROVE Exclusion'
  BY <1>2 DEF AcquireLock, LockFree, Goto, Exit
<1>3. ASSUME NEW c \in Callers, CheckSim(c) \/ Confirm(c) PROVE Exclusion'
  BY <1>3 DEF CheckSim, Confirm, ReadyExit, Proceed, Goto, Exit
<1>4. ASSUME NEW c \in Callers, ReadConfig(c) \/ CheckBinding(c) \/ ReadCounter(c) PROVE Exclusion'
  BY <1>4 DEF ReadConfig, CheckBinding, ReadCounter, Proceed, Goto, Exit
<1>5. ASSUME NEW c \in Callers, Persist(c) \/ Submit(c) \/ Rejected(c) PROVE Exclusion'
  BY <1>5 DEF Persist, Submit, Rejected, Proceed, Goto, Exit
<1>6. CASE Reboot
  BY <1>6 DEF Reboot
<1>7. CASE UNCHANGED <<pc, lock>>
  BY <1>7
<1> QED
  BY <1>1, <1>2, <1>3, <1>4, <1>5, <1>6, <1>7
     DEF Next, Run, IfUp, UiEnter, UiSave, Swap, Relock, Toggle, Settle, vars

\* Only the holder of the lock records a refusal, and it exits when it does.
LEMMA RejectStep ==
  TypeOK /\ Exclusion /\ NoEntryAfterReject /\ [Next]_vars => NoEntryAfterReject'
<1> SUFFICES ASSUME TypeOK, Exclusion, NoEntryAfterReject, [Next]_vars
             PROVE  NoEntryAfterReject'
  OBVIOUS
<1>0. uci \in Config /\ pc \in [Callers -> Steps]
  BY DEF TypeOK
<1> USE SimAssumption, <1>0 DEF NoEntryAfterReject
<1>1. ASSUME NEW c \in Callers, Start(c) \/ Kill(c) \/ AcquireLock(c) PROVE NoEntryAfterReject'
  BY <1>1 DEF Start, Kill, AcquireLock, Proceed, Goto, Exit, config
<1>2. ASSUME NEW c \in Callers, CheckSim(c) \/ Confirm(c) PROVE NoEntryAfterReject'
  BY <1>2 DEF CheckSim, Confirm, ReadyExit, Commit, Proceed, Goto, Exit, config, Config
<1>3. ASSUME NEW c \in Callers, ReadConfig(c) \/ CheckBinding(c) \/ ReadCounter(c)
      PROVE  NoEntryAfterReject'
  BY <1>3 DEF ReadConfig, CheckBinding, ReadCounter, Proceed, Goto, Exit, config
<1>4. ASSUME NEW c \in Callers, Persist(c) \/ Rejected(c) PROVE NoEntryAfterReject'
  <2>1. \A d \in Callers \ {c} : pc[d] \in {"idle", "lock"}
    BY <1>4 DEF Persist, Rejected, Exclusion, Inside, Steps
  <2>2. \A d \in Callers \ {c} : pc'[d] \in {"idle", "lock"}
    BY <1>4, <2>1 DEF Persist, Rejected, Proceed, Goto, Exit
  <2>3. pc'[c] = "idle" \/ (pc'[c] = "submit" /\ uci'.failed = uci.failed)
    <3>1. ASSUME NEW n, uci' = [uci EXCEPT !.pending = n] PROVE uci'.failed = uci.failed
      BY <3>1 DEF Config
    <3>2. CASE Rejected(c)
      BY <3>2 DEF Rejected, Goto, Exit
    <3>3. CASE Persist(c)
      BY <3>1, <3>3 DEF Persist, Commit, Proceed, Goto, Exit
    <3> QED
      BY <1>4, <3>2, <3>3
  <2>4. pc[c] = "persist" \/ pc'[c] = "idle"
    BY <1>4 DEF Persist, Rejected, Goto, Exit
  <2> QED
    BY <2>2, <2>3, <2>4
<1>5. ASSUME NEW c \in Callers, Submit(c) PROVE NoEntryAfterReject'
  BY <1>5 DEF Submit, Proceed, Goto, config
<1>6. CASE UiSave
  BY <1>6 DEF UiSave, Commit, Config
<1>7. CASE Reboot
  BY <1>7 DEF Reboot
<1>8. CASE UNCHANGED <<pc, uci>>
  BY <1>8
<1> QED
  BY <1>1, <1>2, <1>3, <1>4, <1>5, <1>6, <1>7, <1>8
     DEF Next, Run, IfUp, UiEnter, Swap, Relock, Toggle, Settle, vars, config

\* A card asks for its PIN only when it has one and has attempts left.
LEMMA PromptedStep == TypeOK /\ Prompted /\ [Next]_vars => Prompted'
<1> SUFFICES ASSUME TypeOK, Prompted, [Next]_vars PROVE Prompted'
  OBVIOUS
<1> USE DEF TypeOK, Prompted, FullTries
<1>1. ASSUME NEW c \in Callers, Submit(c) PROVE Prompted'
  BY <1>1 DEF Submit, CardTakes
<1>2. ASSUME NEW p \in UiPins, UiEnter(p) PROVE Prompted'
  BY <1>2 DEF UiEnter, CardTakes
<1>3. ASSUME NEW k \in Cards, Swap(k) PROVE Prompted'
  BY <1>3 DEF Swap, PoweredUp
<1>4. CASE Relock \/ Reboot
  BY <1>4 DEF Relock, Reboot, PoweredUp
<1>5. CASE UNCHANGED <<card, sim, left>>
  BY <1>5
<1> QED
  BY <1>1, <1>2, <1>3, <1>4, <1>5
     DEF Next, Run, Start, AcquireLock, CheckSim, ReadConfig, CheckBinding, ReadCounter,
         Persist, Rejected, Confirm, Kill, IfUp, UiSave, Toggle, Settle, vars, modem

\* Steps that touch neither the card nor the options, and bring no run to the
\* steps between the reading of the counter and the entry.
LEMMA QuietStep ==
  ASSUME Safe, UNCHANGED <<config, modem>>,
         \A c \in Callers : pc'[c] \in {"persist", "submit"} => pc'[c] = pc[c] /\ myleft'[c] = myleft[c]
  PROVE  Safe'
BY DEF Safe, CopyIsFresh, Recorded, Stops, config, modem

\* The heart of the argument: a step of an unattended router keeps the counter
\* copies exact and the record of a refused entry in place.
LEMMA UnattendedStep == IInv /\ [Next]_vars /\ Unattended' => Safe'
<1> SUFFICES ASSUME IInv, [Next]_vars, Unattended' PROVE Safe'
  OBVIOUS
<1>0. TypeOK /\ Exclusion /\ NoEntryAfterReject /\ Prompted /\ (ui # None => typed)
  BY DEF IInv
<1>a. Unattended
  <2>1. UNCHANGED history \/ (\E p \in UiPins : UiEnter(p)) \/ (\E k \in Cards : Swap(k))
    BY DEF Next, Run, Start, AcquireLock, CheckSim, ReadConfig, CheckBinding, ReadCounter, Persist,
           Submit, Rejected, Confirm, Kill, IfUp, UiSave, Relock, Toggle, Reboot, Settle, vars
  <2>2. UNCHANGED history
    BY <2>1 DEF UiEnter, Swap, Unattended
  <2> QED
    BY <2>2 DEF history, Unattended
<1>b. Safe
  BY <1>a DEF IInv
<1>c. /\ pc \in [Callers -> Steps] /\ myleft \in [Callers -> 0..FullTries]
      /\ left \in [Cards -> 0..FullTries] /\ charged \in [Cards -> Nat] /\ card \in Cards
      /\ uci \in Config /\ flash \in Config
      /\ uci.pending \in 0..FullTries \cup {None} /\ flash.pending \in 0..FullTries \cup {None}
  BY <1>0 DEF TypeOK, Config
<1>d. ASSUME NEW c \in Callers, pc[c] \in Inside
      PROVE  \A d \in Callers \ {c} : pc[d] \in {"idle", "lock"}
  BY <1>0, <1>c, <1>d DEF Exclusion, Inside, Steps
<1>1. ASSUME NEW c \in Callers,
             Start(c) \/ Kill(c) \/ IfUp(c) \/ AcquireLock(c) \/ ReadConfig(c) \/ CheckBinding(c)
      PROVE  Safe'
  BY <1>1, <1>b, <1>c, QuietStep
     DEF Start, Kill, IfUp, AcquireLock, ReadConfig, CheckBinding, Proceed, Goto, Exit, local
<1>2. ASSUME NEW c \in Callers, CheckSim(c) \/ Confirm(c) PROVE Safe'
  <2>1. \A d \in Callers : pc'[d] \notin {"persist", "submit"}
    BY <1>2, <1>c, <1>d DEF CheckSim, Confirm, ReadyExit, Proceed, Goto, Exit, Inside, Steps
  <2>2. UNCHANGED modem
    BY <1>2 DEF CheckSim, Confirm
  <2>3. UNCHANGED config \/ sim = "READY"
    BY <1>2 DEF CheckSim, Confirm
  <2> QED
    BY <1>b, <2>1, <2>2, <2>3 DEF Safe, CopyIsFresh, Recorded, Stops, config, modem
<1>3. ASSUME NEW c \in Callers, ReadCounter(c) PROVE Safe'
  BY <1>3, <1>b, <1>c, <1>d
     DEF ReadCounter, TooFew, Goto, Exit, Safe, CopyIsFresh, Recorded, Stops, Inside, Steps, config, modem, FullTries
<1>4. ASSUME NEW c \in Callers, Persist(c) PROVE Safe'
  <2>1. /\ pc[c] = "persist" /\ left[card] >= 2 /\ myleft[c] = left[card] /\ ~uci.failed
        /\ \A d \in Callers \ {c} : pc'[d] \in {"idle", "lock"}
    BY <1>0, <1>4, <1>b, <1>c, <1>d
       DEF Persist, Proceed, Goto, Exit, Safe, CopyIsFresh, NoEntryAfterReject, Inside, Steps
  <2>2. charged[card] >= 1 => Refusal(c)
    BY <1>b, <2>1 DEF Safe, Recorded, Stops, Refusal
  <2>3. UNCHANGED <<card, sim, left, charged>>
    BY <1>4 DEF Persist, modem
  <2>4. CASE Refusal(c)
    <3>1. pc'[c] = "idle" /\ uci'.failed /\ (flash' = uci' \/ flash' = flash)
      BY <1>4, <1>c, <2>4 DEF Persist, Commit, Goto, Exit, Config
    <3> QED
      BY <1>b, <1>c, <2>1, <2>3, <3>1 DEF Safe, CopyIsFresh, Recorded, Stops
  <2>5. CASE ~Refusal(c)
    <3>1. charged[card] = 0
      BY <1>c, <2>2, <2>5
    <3>2. \/ pc'[c] = "idle"
          \/ /\ pc'[c] = "submit" /\ myleft'[c] = myleft[c]
             /\ uci'.pending = left[card] /\ flash'.pending = left[card]
      <4>1. [uci EXCEPT !.pending = left[card]].pending = left[card]
        BY <1>c DEF Config
      <4> QED
        BY <1>4, <1>c, <2>1, <2>5, <4>1 DEF Persist, Mark, Commit, Proceed, Goto, Exit, local
    <3> QED
      BY <1>b, <1>c, <2>1, <2>3, <3>1, <3>2 DEF Safe, CopyIsFresh, Recorded, Stops
  <2> QED
    BY <2>4, <2>5
<1>5. ASSUME NEW c \in Callers, Submit(c) PROVE Safe'
  <2>1. /\ pc[c] = "submit" /\ left[card] >= 2
        /\ uci.pending = left[card] /\ flash.pending = left[card] /\ charged[card] = 0
        /\ sim # "PUK" /\ \A k \in Cards \ {card} : charged[k] = 0
    BY <1>5, <1>b DEF Submit, Safe, CopyIsFresh, Recorded
  <2>2. UNCHANGED <<card, uci, flash>> /\ \A d \in Callers : pc'[d] \notin {"persist", "submit"}
    BY <1>5, <1>c, <1>d DEF Submit, Proceed, Goto, config, Inside, Steps
  <2>3. \/ UNCHANGED <<sim, left, charged>>
        \/ /\ left'[card] = FullTries /\ sim' = "READY"
           /\ charged' = [charged EXCEPT ![card] = 0]
        \/ /\ left'[card] = left[card] - 1 /\ sim' = "PIN"
           /\ charged' = [charged EXCEPT ![card] = 1]
    BY <1>5, <1>c, <2>1 DEF Submit, CardTakes, Refused
  <2> QED
    BY SimAssumption, <1>b, <1>c, <2>1, <2>2, <2>3 DEF Safe, CopyIsFresh, Recorded, Stops, FullTries
<1>6. ASSUME NEW c \in Callers, Rejected(c) PROVE Safe'
  <2>1. \A d \in Callers : pc'[d] \notin {"persist", "submit"}
    BY <1>6, <1>c, <1>d DEF Rejected, Goto, Exit, Inside, Steps
  <2>2. UNCHANGED modem /\ uci'.failed /\ (flash' = uci' \/ flash' = flash)
    BY <1>6, <1>c DEF Rejected, Commit, Config
  <2> QED
    BY <1>b, <2>1, <2>2 DEF Safe, CopyIsFresh, Recorded, Stops, modem
<1>7. CASE Relock
  BY <1>7, <1>b, <1>c DEF Relock, PoweredUp, Safe, CopyIsFresh, Recorded, Stops, config, local
<1>9. CASE Reboot
  <2>1. UNCHANGED <<card, left, charged>> /\ uci' = flash /\ flash' = flash
    BY <1>9 DEF Reboot
  <2>2. \A d \in Callers : pc'[d] = "idle"
    BY <1>9 DEF Reboot
  <2>3. sim' # "PUK" /\ (charged[card] >= 1 => sim' = "PIN")
    BY <1>0, <1>9, <1>b, <1>c DEF Reboot, PoweredUp, Prompted, Safe, CopyIsFresh, Recorded, FullTries
  <2> QED
    BY <1>b, <2>1, <2>2, <2>3 DEF Safe, CopyIsFresh, Recorded, Stops
<1>8. CASE Toggle \/ Settle \/ UNCHANGED vars
  BY <1>8, <1>b, QuietStep DEF Toggle, Settle, vars, local
<1> QED
  BY <1>0, <1>a, <1>1, <1>2, <1>3, <1>4, <1>5, <1>6, <1>7, <1>8, <1>9
     DEF Next, Run, UiEnter, UiSave, Swap, Unattended

\* An accepted PIN waiting to be saved was typed by somebody.
LEMMA TypedStep == (ui # None => typed) /\ [Next]_vars => (ui' # None => typed')
<1> SUFFICES ASSUME ui # None => typed, [Next]_vars, ui' # None PROVE typed'
  OBVIOUS
<1>1. ASSUME NEW p \in UiPins, UiEnter(p) PROVE typed'
  BY <1>1 DEF UiEnter
<1>2. CASE ui' = None
  BY <1>2
<1>3. CASE UNCHANGED <<ui, typed>>
  BY <1>3
<1> QED
  BY <1>1, <1>2, <1>3
     DEF Next, Run, Start, AcquireLock, CheckSim, ReadConfig, CheckBinding, ReadCounter, Persist,
         Submit, Rejected, Confirm, Kill, IfUp, UiSave, Swap, Relock, Toggle, Reboot, Settle,
         vars, history

\* Every behaviour of the unlock keeps the inductive invariant.
THEOREM Inductive == Spec => []IInv
<1>1. IInv /\ [Next]_vars => IInv'
  <2> SUFFICES ASSUME IInv, [Next]_vars PROVE IInv'
    OBVIOUS
  <2>1. TypeOK' /\ Exclusion' /\ NoEntryAfterReject' /\ Prompted'
    BY TypeStep, ExclusionStep, RejectStep, PromptedStep DEF IInv
  <2>2. ui' # None => typed'
    BY TypedStep DEF IInv
  <2>3. Unattended' => Safe'
    BY UnattendedStep
  <2> QED
    BY <2>1, <2>2, <2>3 DEF IInv
<1> QED
  BY <1>1, InitIInv, PTL DEF Spec

\* The unlock's state keeps its types: in particular no sequence of entries
\* brings a card's attempt counter below zero.
THEOREM TypeCorrect == Spec => []TypeOK
BY Inductive, PTL DEF IInv

\* Once gl-cellular-sim-unlock has recorded that the card refused the saved
\* PIN, no run of it is on its way to entering that PIN again.
THEOREM NoEntryAfterRejectHolds == Spec => []NoEntryAfterReject
BY Inductive, PTL DEF IInv

\* Automatic entries alone never bring a card to its PUK, with any number of
\* processes running gl-cellular-sim-unlock.
THEOREM UnattendedNeverPukHolds == Spec => []UnattendedNeverPuk
<1>1. IInv => UnattendedNeverPuk
  BY DEF IInv, Safe, Unattended, UnattendedNeverPuk
<1> QED
  BY <1>1, Inductive, PTL

\* Automatic entries cost a card at most one attempt until its counter is full
\* again, whatever is killed, lost or rebooted between submission and record.
THEOREM ChargedOnceHolds == Spec => []ChargedOnce
<1>1. IInv => ChargedOnce
  <2> SUFFICES ASSUME IInv, Unattended, NEW k \in Cards PROVE charged[k] <= 1
    BY DEF Unattended, ChargedOnce
  <2>1. Recorded
    BY DEF IInv, Safe
  <2> QED
    BY <2>1 DEF Recorded
<1> QED
  BY <1>1, Inductive, PTL
============================================================================
