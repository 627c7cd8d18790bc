---------------------------- MODULE MCCmChannels ----------------------------
(* The QMI transport, the QMI set-up and the AT channel of quectel-CM, and    *)
(* the captive portal's hook, for TLC.  They share no state, so a behaviour   *)
(* plays one of them and the others stay in an initial state.                 *)
EXTENDS QmiTransport, QmiSetup, AtChannel, Wifidog

VARIABLE playing    \* the component this behaviour plays

\* What the modem may answer to each type of command; "pre" and "reg" lines
\* may be missing, doubled, or come with another line between them.
MCAnswers ==
  [none |-> {<<"OK">>, <<"ERR">>},
   single |-> {<<"pre", "OK">>, <<"OK">>, <<"ERR">>},
   regq |-> {<<"reg", "OK">>, <<"ERR">>},
   numeric |-> {<<"num", "OK">>, <<"OK">>},
   multi |-> {<<"pre", "dev", "pre", "OK">>, <<"ERR">>}]

MCUrcs == {<<"reg">>, <<"dev">>, <<"sms", "text">>}

\* Streams of at most three lines, with \r\n or \n between them.
MCTexts ==
  {<<1, 1, 0, 0, 2, 0, 3, 3, 3, 0>>, <<0, 0, 1, 0, 0, 2, 2, 2, 2, 0>>,
   <<1, 1, 1, 1, 1, 0, 2, 0>>, <<0, 1, 1, 0, 0, 0, 2, 2, 2, 0>>}

Conn(c, d, p) == [client |-> c, dest |-> d, proto |-> p]
MCHome == [a |-> "lan", g |-> "guest"]
\* The hook changes no entry but the packet's own, so a behaviour has one connection.
MCPlays ==
  {{Conn("a", "net", p)} : p \in {"http", "https", "tcp", "udp", "dns", "icmp"}}
    \cup {{Conn("a", "lan", "http")}, {Conn("a", "free", "https")}, {Conn("g", "lan", "http")}}

TransportRests == ops = "qmiwwan" /\ TInit
SetupRests == in = (CHOOSE r \in Runs \ ProfileRuns : TRUE) /\ SInit
AtRests == part = "read" /\ text = <<1, 1, 1, 1, 1, 0, 2, 0>> /\ AInit
HookRests == conns = {Conn("a", "net", "icmp")} /\ WInit

CmInit ==
  \/ playing = "transport" /\ TInit          /\ SetupRests /\ AtRests /\ HookRests
  \/ playing = "setup"     /\ TransportRests /\ SInit      /\ AtRests /\ HookRests
  \/ playing = "at"        /\ TransportRests /\ SetupRests /\ AInit   /\ HookRests
  \/ playing = "hook"      /\ TransportRests /\ SetupRests /\ AtRests /\ WInit

cmVars == <<playing, tvars, svars, avars, wvars>>

CmNext ==
  /\ UNCHANGED playing
  /\ \/ playing = "transport" /\ TNext /\ UNCHANGED <<svars, avars, wvars>>
     \/ playing = "setup"     /\ SNext /\ UNCHANGED <<tvars, avars, wvars>>
     \/ playing = "at"        /\ ANext /\ UNCHANGED <<tvars, svars, wvars>>
     \/ playing = "hook"      /\ WNext /\ UNCHANGED <<tvars, svars, avars>>

CmSpec == CmInit /\ [][CmNext]_cmVars
=============================================================================
