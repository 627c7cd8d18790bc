---------------------------- MODULE MCSimUnlock ----------------------------
(* Small instances of SimUnlock for TLC: two callers; two cards with PINs of *)
(* their own, the second of which asks for none.                             *)
EXTENDS SimUnlock, TLC

CONSTANTS qcm, watchdog, simA, simB, pinA, pinB

RealPinValue == [k \in Cards |-> IF k = simA THEN pinA ELSE pinB]

\* Bounds: a card that asks for no PIN has all its attempts; the user enters
\* PINs or changes cards, not both.
MCInit == Init /\ \A k \in OpenCards : left[k] = FullTries
MCSpec == MCInit /\ [][Next /\ ~(typed' /\ swapped')]_vars
============================================================================
