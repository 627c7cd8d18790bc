---------------------------- MODULE MCMhiDevices ----------------------------
(* The network device, the packet formats and the bring-up of the pcie_mhi    *)
(* driver, and the AT requests of quectel-CM, for TLC.  They share no state,  *)
(* so a behaviour plays one of them and the others stay in an initial state.  *)
EXTENDS MhiNetdev, Qmap, MhiInit, AtRequests

VARIABLE playing    \* the component this behaviour plays

Play(p, c, d, m, f, r) ==
  [pkt |-> p, cmd |-> c, data |-> d, mem |-> m, prep |-> f, reset |-> r]

\* Each play spends its budget on one part of the network device.
MCPlays == {Play(3, 1, 0, 0, 0, 0), Play(3, 0, 0, 0, 0, 1), Play(1, 2, 0, 0, 0, 1),
            Play(0, 0, 2, 2, 1, 1), Play(0, 3, 0, 0, 0, 0)}

MCPdps == 1 .. 2
MCAddress == <<10, 0, 0, 91>>

NetRests  == left = Play(0, 3, 0, 0, 0, 0) /\ NInit
QmapRests == job = "link" /\ mode = 1 /\ QInit
InitRests == mbim = TRUE /\ IInit
AtRests   == topic = "reg" /\ asr = FALSE /\ RInit

DevInit ==
  \/ playing = "net"  /\ NInit    /\ QmapRests /\ InitRests /\ AtRests
  \/ playing = "qmap" /\ NetRests /\ QInit     /\ InitRests /\ AtRests
  \/ playing = "init" /\ NetRests /\ QmapRests /\ IInit     /\ AtRests
  \/ playing = "at"   /\ NetRests /\ QmapRests /\ InitRests /\ RInit

DevNext ==
  /\ UNCHANGED playing
  /\ \/ playing = "net"  /\ NNext /\ UNCHANGED <<qvars, ivars, rqvars>>
     \/ playing = "qmap" /\ QNext /\ UNCHANGED <<nvars, ivars, rqvars>>
     \/ playing = "init" /\ INext /\ UNCHANGED <<nvars, qvars, rqvars>>
     \/ playing = "at"   /\ RNext /\ UNCHANGED <<nvars, qvars, ivars>>

DevSpec == DevInit /\ [][DevNext]_<<playing, nvars, qvars, ivars, rqvars>>
=============================================================================
