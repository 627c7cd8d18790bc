----------------------------- MODULE MCProgress -----------------------------
(* What must eventually happen in quectel-CM's QMI transport, in a client of  *)
(* the pcie_mhi driver and in the captive portal, for TLC: the transport      *)
(* stops, blocked calls on a character device end and a client that has       *)
(* logged in is let through.  The components share no state, so a behaviour   *)
(* plays one of them and the others stay in an initial state; as it never     *)
(* changes, one weak fairness condition stands for those of several           *)
(* components.                                                                *)
EXTENDS QmiTransport, MhiUci, Wifidog

VARIABLE playing    \* the component this behaviour plays

MCHome == [a |-> "lan"]
MCPlays == {{[client |-> "a", dest |-> "net", proto |-> p]} : p \in {"http", "tcp"}}

TransportRests == ops = "qmiwwan" /\ TInit
UciRests == kind = "copy" /\ UciInit
HookRests == conns = (CHOOSE p \in MCPlays : TRUE) /\ WInit

PInit ==
  \/ playing = "transport" /\ TInit /\ UciRests /\ HookRests
  \/ playing = "uci" /\ TransportRests /\ UciInit /\ HookRests
  \/ playing = "hook" /\ TransportRests /\ UciRests /\ WInit

pVars == <<playing, tvars, uciVars, wvars>>

OfTransport(A) == playing = "transport" /\ A /\ UNCHANGED <<playing, uciVars, wvars>>
OfUci(A) == playing = "uci" /\ A /\ UNCHANGED <<playing, tvars, wvars>>
OfHook(A) == playing = "hook" /\ A /\ UNCHANGED <<playing, tvars, uciVars>>

PNext == OfTransport(TNext) \/ OfUci(UciNext) \/ OfHook(WNext)

\* The fairness of each component.
PFair ==
  /\ WF_pVars(\/ OfTransport(Main) \/ OfUci(RemoveDrain) \/ OfHook(UpdateIndex \/ UpdateAddress))
  /\ WF_pVars(\/ OfTransport(Reader) \/ OfUci(mhi_uci_remove)
              \/ OfHook(\E c \in conns : wifidog_hook(c)))
  /\ WF_pVars(\/ OfTransport(pthread_cond_timedwait)
              \/ OfUci(mhi_queue_inbound \/ OpenFailed \/ OpenDone))
  /\ WF_pVars(OfUci(mhi_dtr_tiocmset)) /\ WF_pVars(OfUci(ReadWake))
  /\ WF_pVars(OfUci(\E more \in BOOLEAN : mhi_uci_write(more)))

PSpec == PInit /\ [][PNext]_pVars /\ PFair

\* Where the hook is played, a client known for good is let through
\* (FreedAfterLogin of Wifidog).
ClientLetThrough == playing = "hook" => FreedAfterLogin
=============================================================================
