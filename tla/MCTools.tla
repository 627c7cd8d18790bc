------------------------------ MODULE MCTools -------------------------------
(* The MBIM backend of quectel-CM, the character devices of the pcie_mhi      *)
(* driver and the multi-WAN helper programs for TLC.  They share no state, so *)
(* a behaviour plays one of them and the others stay in an initial state.     *)
EXTENDS Mbim, MhiUci, Mwan3Tools, SockoptWrap

VARIABLE playing    \* the component this behaviour plays

\* Two of the three strings each; the first profile goes through libmbim's proxy to a modem
\* with the extended services.
ByProxy == [apn |-> <<"a", "b", "c">>, user |-> <<"u">>, pd |-> <<>>, auth |-> 1, v2 |-> TRUE, qmux |-> TRUE, libmbim |-> TRUE]
WithSecret == [apn |-> <<>>, user |-> <<"u">>, pd |-> <<"p", "q">>, auth |-> 1, v2 |-> FALSE, qmux |-> FALSE, libmbim |-> FALSE]
Modem(r, a) == [ready |-> "Initialized", reg |-> r, ps |-> "Detached", act |-> a]

MCStarts == {[prof |-> ByProxy, modem |-> Modem("Searching", "Deactivated")],
             [prof |-> ByProxy, modem |-> Modem("Home", "Activated")],
             [prof |-> WithSecret, modem |-> Modem("Home", "Deactivated")]}

MCConfigs == {[addr |-> <<10, 0, 0, 1>>, gw |-> <<10, 0, 0, 2>>, prefix |-> 30, dns |-> <<<<8, 8, 8, 8>>>>],
              [addr |-> <<10, 0, 0, 3>>, gw |-> <<>>, prefix |-> 29, dns |-> <<<<9, 9, 9, 9>>, <<8, 8, 4, 4>>>>]}

Opt(o, val) == [o |-> o, good |-> TRUE, val |-> val, alone |-> TRUE, mask |-> {}]
OptM(o, val, mask) == [o |-> o, good |-> TRUE, val |-> val, alone |-> FALSE, mask |-> mask]
Marks == {Opt("mark", v) : v \in {{}, {1}}}
           \cup {OptM("mark", v, m) : v \in {{}, {2}, {1, 2}}, m \in {{}, {1, 2}, {2}}}
Anys == {Opt("any", v) : v \in SUBSET Bits}
Stats == {OptM("status", {}, {1}), Opt("status", {}), OptM("status", {0}, {1}), Opt("status", {0})}
BadOpts == {[Opt("mark", {1}) EXCEPT !.good = FALSE], Opt("other", {1})}
\* No argument, one, a filter of each kind together, and options that repeat or exclude each other.
MCCalls ==
  {<<>>} \cup {<<a>> : a \in Marks \cup Anys \cup Stats \cup BadOpts}
    \cup {<<a, s>> : a \in Marks \cup Anys \cup Stats, s \in Stats}
    \cup {<<Opt("mark", {1}), a>> : a \in Marks \cup Anys}
    \cup {<<Opt("any", {1}), a>> : a \in Anys}
Items == {[fam |-> f, pfx |-> p] : f \in {"ipv4", "ipv6", "no"}, p \in {-2, -1, 0, 32, 33, 128, 129}}
           \cup {[fam |-> "", pfx |-> -2]}
MCLists == {<<>>} \cup {<<a>> : a \in Items} \cup {<<a, b>> : a, b \in Items}
             \cup {<<a, b, c>> : a, b, c \in {[fam |-> f, pfx |-> -2] : f \in {"ipv4", "ipv6", "no", ""}}}

MbimRests == prof = WithSecret /\ MInit
UciRests == kind = "copy" /\ UciInit
MwanRests == tool = "ct" /\ call = <<>> /\ MWInit
SockRests == env = [family |-> "ipv4", only |-> FALSE] /\ SOInit

ToolsInit ==
  \/ playing = "mbim" /\ MInit     /\ UciRests /\ MwanRests /\ SockRests
  \/ playing = "uci"  /\ MbimRests /\ UciInit  /\ MwanRests /\ SockRests
  \/ playing = "mwan" /\ MbimRests /\ UciRests /\ MWInit    /\ SockRests
  \/ playing = "sock" /\ MbimRests /\ UciRests /\ MwanRests /\ SOInit

\* Bound: a behaviour has a lost or refused message or a change of the modem's, not both.
OneDisturbance == faults' + changes' <= 1

ToolsNext ==
  /\ UNCHANGED playing
  /\ \/ playing = "mbim" /\ MNext   /\ OneDisturbance /\ UNCHANGED <<uciVars, mwvars, sovars>>
     \/ playing = "uci"  /\ UciNext /\ UNCHANGED <<mvars, mwvars, sovars>>
     \/ playing = "mwan" /\ MWNext  /\ UNCHANGED <<mvars, uciVars, sovars>>
     \/ playing = "sock" /\ SONext  /\ UNCHANGED <<mvars, uciVars, mwvars>>

ToolsSpec == ToolsInit /\ [][ToolsNext]_<<playing, mvars, uciVars, mwvars, sovars>>
=============================================================================
