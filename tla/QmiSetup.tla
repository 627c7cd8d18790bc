------------------------------- MODULE QmiSetup -------------------------------
(***************************************************************************)
(* The set-up that quectel-CM's qmi_main runs before its first dial: the    *)
(* data format and the mux binding (requestSetEthMode), the SIM's status    *)
(* and PIN, the profile of the requested PDN (requestGetProfile,            *)
(* requestSetProfile), the registration, and the request that starts the    *)
(* call.  One action is one QMI request with its answer; the transport is   *)
(* QmiTransport's.  A request is refused with an error code, or its answer  *)
(* is lost, whether or not the modem has acted on it.                       *)
(***************************************************************************)
EXTENDS Integers, Sequences, FiniteSets
LOCAL INSTANCE SequencesExt

CONSTANTS Errs,      \* error codes of the modem; 1 is MALFORMED_MSG, 25 UNSUPPORTED
          FailMax,  \* requests refused or left without an answer
          ResetMax,  \* modem resets after which qmi_main runs again
          PinTries,  \* wrong PINs the card accepts
          ProfMax,   \* profiles the modem can hold
          AnswerLen, \* TLVs in an answer about the registration
          Codes      \* country codes of home networks

VARIABLES
  in,       \* the command line, the card and the modem of this run
  pc,
  apn,      \* profile->apn, which dialling by profile clears
  index,    \* profile->profile_index
  old,      \* profile->old_*
  iptype,   \* profile->iptype
  queue,     \* profile_indexs still to look at
  store,    \* the modem's profiles, by index
  set,      \* result of requestSetProfile
  sim,      \* SIMStatus
  pin,      \* state of the card's PIN
  attempts,
  eth,      \* what requestSetEthMode has achieved
  s_9x07, s_is_cdma, attached,
  sys,      \* the last answer about the registration
  plmn,     \* <<home network, what is logged for it>>
  dial,     \* the request that starts the call
  blind,    \* requestGetProfile failed after it had set an index
  refused,  \* requestSetProfile was refused as malformed
  fails, rounds

profVars == <<apn, index, old, iptype, queue, store, set, blind, refused>>
simVars == <<sim, pin, attempts>>
regVars == <<s_is_cdma, attached, sys, plmn>>
svars == <<in, pc, profVars, simVars, eth, s_9x07, regVars, dial, fails, rounds>>

null == "null"
NoOld == [apn |-> "", user |-> "", pd |-> "", auth |-> 0, iptype |-> 0]
NoDial == [tech |-> 0, apn |-> null, user |-> null, pd |-> null, auth |-> 0, index |-> 0]
NoEth == [raw |-> FALSE, bound |-> {}, pref |-> {}, driver |-> 0, ok |-> FALSE, link |-> null]

\* A run of the shipped set-up: QMAP over PCIe, one USIM without a PIN.
Usual == [apn |-> "a", user |-> null, pd |-> null, auth |-> 0, pdp |-> 1, pin |-> null,
          v4 |-> TRUE, v6 |-> TRUE, byprofile |-> TRUE, x35 |-> FALSE, loopback |-> FALSE,
          qmap |-> TRUE, mux |-> TRUE, wda |-> TRUE, hw |-> "pcie", onlyraw |-> TRUE, grant |-> 11,
          card |-> "present", apps |-> <<"USIM">>, univ |-> FALSE, pin0 |-> "disabled", net |-> "lte"]

\* Runs that differ from it in the network, in the link, in the card, or in the profile.
NetRuns == {[Usual EXCEPT !.net = "any", !.qmap = q, !.onlyraw = q] : q \in BOOLEAN}
LinkRuns == {[Usual EXCEPT !.qmap = q, !.mux = m, !.wda = h # "nowda", !.hw = h, !.onlyraw = r,
                           !.grant = g, !.v4 = f # 6, !.v6 = f # 4, !.loopback = ~q] :
               q, m, r \in BOOLEAN, h \in {"pcie", "ipa", "nowda"}, g \in {1, 20}, f \in {4, 6, 46}}
CardRuns == {[Usual EXCEPT !.card = c, !.apps = a, !.univ = u, !.pin0 = s, !.pin = p] :
               c \in {"present", "absent"}, u \in BOOLEAN, p \in {null, "good", "bad"},
               a \in {<<"USIM">>, <<"USIM", "ISIM">>, <<"CSIM", "USIM">>},
               s \in {"disabled", "notverif", "blocked", "perm"}}
ProfileRuns == {[Usual EXCEPT !.apn = a, !.user = u, !.pd = u, !.auth = IF u = "u" THEN 2 ELSE 0,
                              !.pdp = d, !.v6 = f, !.byprofile = b, !.x35 = d = 0] :
                  a \in {null, "", "a"}, u \in {null, "u"}, d \in {0, 1, 2}, f, b \in BOOLEAN}
Runs == NetRuns \cup LinkRuns \cup CardRuns \cup ProfileRuns

Profile(d, a, t) == [pdp |-> d, apn |-> a, user |-> "", pd |-> "", auth |-> 0, iptype |-> t, name |-> d]
Stores == {<<Profile(1, a, t)>> : a \in {"", "a"}, t \in {0, 3}}
            \cup {<<Profile(2, "ims", 3), Profile(1, "", 0)>>}

SInit ==
  /\ in \in Runs
  /\ store \in IF in \in ProfileRuns THEN Stores ELSE {<<Profile(1, "", 0)>>}
  /\ pc = "version" /\ apn = in.apn /\ index = 0 /\ old = NoOld /\ iptype = 0 /\ queue = <<>>
  /\ set = 0 /\ sim = "ABSENT" /\ pin = in.pin0 /\ attempts = PinTries /\ eth = NoEth
  /\ s_9x07 = TRUE /\ s_is_cdma = FALSE /\ attached = FALSE /\ sys = <<>> /\ plmn = <<0, 0>>
  /\ dial = NoDial /\ blind = FALSE /\ refused = FALSE /\ fails = 0 /\ rounds = 1
-----------------------------------------------------------------------------
(* A request and its answer.                                                 *)

\* <<error, the modem has acted>>: qmi_rsp_check_and_return returns the error
\* of the transport or of the modem.  A timeout, 110, comes after the modem has
\* acted; a request it never saw ends like one it refuses.
Replies == {<<0, TRUE>>} \cup
  IF fails < FailMax THEN {<<e, FALSE>> : e \in Errs} \cup {<<110, TRUE>>} ELSE {}

qmi_rsp_check_and_return(a, good, bad) == pc' = IF a[1] = 0 THEN good ELSE bad

\* One request: its answer counts against the bound unless it is a success.
Request(a) == a \in Replies /\ fails' = fails + (IF a[1] = 0 THEN 0 ELSE 1)
-----------------------------------------------------------------------------
(* The link.                                                                 *)

requestBaseBandVersion ==
  /\ pc = "version"
  /\ \E a \in Replies : Request(a) /\ pc' = "format" /\ eth' = NoEth
  /\ UNCHANGED <<in, profVars, simVars, s_9x07, regVars, dial, rounds>>

\* Which link WdaSetDataFormat asks for: raw IP for QMAP, which has a receive
\* size, else Ethernet.  A modem may only know raw IP.
WdaSetDataFormat == IF in.qmap THEN "raw" ELSE "eth"
LinkOf == IF in.onlyraw THEN "raw" ELSE WdaSetDataFormat

\* With QMAP the format is left alone on IPA and without a WDA client.
SkipFormat == in.qmap /\ (in.hw = "ipa" \/ ~in.wda)

\* The uplink aggregation given to the driver: 11 datagrams or what the modem
\* grants, and only when that is more than one.
ql_set_driver_qmap_setting ==
  LET d == IF in.grant < 11 THEN in.grant ELSE 11 IN IF in.qmap /\ d > 1 THEN d ELSE 0

\* requestSetEthMode up to skip_WdaSetDataFormat.
SetDataFormat ==
  /\ pc = "format"
  /\ \/ /\ SkipFormat /\ pc' = "bind4" /\ eth' = [eth EXCEPT !.raw = TRUE] /\ s_9x07' = TRUE
        /\ UNCHANGED fails
     \/ /\ ~SkipFormat
        /\ \E a \in Replies : /\ Request(a) /\ qmi_rsp_check_and_return(a, "bind4", "loopback")
             /\ eth' = [eth EXCEPT !.raw = IF a[1] = 0 THEN LinkOf = "raw" ELSE in.qmap,
                          !.link = IF a[2] THEN LinkOf ELSE @,
                          !.driver = IF a[1] = 0 THEN ql_set_driver_qmap_setting ELSE @]
             /\ s_9x07' = IF a[1] = 0 THEN LinkOf = "raw" ELSE s_9x07 \/ in.qmap
  /\ UNCHANGED <<in, profVars, simVars, regVars, dial, rounds>>

\* The client of a family is bound to the mux id of the adapter.
WdsSetQMUXBindMuxDataPort(v, next) ==
  IF in.mux THEN \E a \in Replies : Request(a) /\ qmi_rsp_check_and_return(a, next, "loopback")
                   /\ eth' = [eth EXCEPT !.bound = IF a[2] THEN @ \cup {v} ELSE @]
            ELSE pc' = next /\ UNCHANGED <<eth, fails>>

\* The family of a client; for IPv4 the result is not looked at.
WdsSetClientIPFamilyPref(v, next) ==
  \E a \in Replies : /\ Request(a) /\ eth' = [eth EXCEPT !.pref = IF a[2] THEN @ \cup {v} ELSE @]
                     /\ qmi_rsp_check_and_return(a, next, IF v = 4 THEN next ELSE "loopback")

SetFamily4 ==
  /\ \/ pc = "bind4" /\ ~in.v4 /\ pc' = "bind6" /\ UNCHANGED <<eth, fails>>
     \/ pc = "bind4" /\ in.v4 /\ WdsSetQMUXBindMuxDataPort(4, "pref4")
     \/ pc = "pref4" /\ WdsSetClientIPFamilyPref(4, "bind6")
  /\ UNCHANGED <<in, profVars, simVars, s_9x07, regVars, dial, rounds>>

SetFamily6 ==
  /\ \/ pc = "bind6" /\ ~in.v6 /\ pc' = "auto" /\ UNCHANGED <<eth, fails>>
     \/ pc = "bind6" /\ in.v6 /\ WdsSetQMUXBindMuxDataPort(6, "pref6")
     \/ pc = "pref6" /\ WdsSetClientIPFamilyPref(6, "auto")
  /\ UNCHANGED <<in, profVars, simVars, s_9x07, regVars, dial, rounds>>

WdsSetAutoConnect ==
  /\ pc = "auto" /\ pc' = "loopback" /\ eth' = [eth EXCEPT !.ok = TRUE]
  /\ \E a \in Replies : Request(a)
  /\ UNCHANGED <<in, profVars, simVars, s_9x07, regVars, dial, rounds>>

requestSetLoopBackState ==
  /\ pc = "loopback" /\ pc' = "sim" /\ sim' = "ABSENT"
  /\ IF in.loopback THEN \E a \in Replies : Request(a) ELSE UNCHANGED fails
  /\ UNCHANGED <<in, profVars, pin, attempts, eth, s_9x07, regVars, dial, rounds>>
-----------------------------------------------------------------------------
(* The SIM.                                                                  *)

PinOf(app) == IF app = "USIM" THEN pin ELSE "disabled"

\* The application whose PIN is read: the first when it is a USIM, else the last,
\* since the walk looks at the type of the first one every time.
Examined == IF in.apps[1] = "USIM" THEN 1 ELSE Len(in.apps)

PinStatus(p) == CASE p = "notverif" -> "PIN" [] p = "blocked" -> "PUK" [] p = "perm" -> "BAD"
                  [] OTHER -> "READY"

\* requestGetSIMStatus by UIM: the universal PIN replaces the application's.
UimStatus == IF in.card # "present" THEN "ABSENT"
             ELSE PinStatus(IF in.univ THEN pin ELSE PinOf(in.apps[Examined]))

\* By DMS: a card that is not ready asks for its PIN status with a second request.
requestGetPINStatus(a) == IF a[1] = 0 /\ PinStatus(pin) # "READY" THEN PinStatus(pin) ELSE "ABSENT"
DmsReady == in.card = "present" /\ PinStatus(pin) = "READY"

\* qmi_main asks again every second while the modem says UNSUPPORTED.
requestGetSIMStatus ==
  /\ pc = "sim"
  /\ \E a \in Replies :
       /\ Request(a) /\ pc' = CASE a[1] = 25 -> "sim" [] a[1] = 0 /\ ~s_9x07 /\ ~DmsReady /\ in.card = "present" -> "dms"
                                [] OTHER -> "pin"
       /\ sim' = IF a[1] # 0 THEN sim
                 ELSE IF s_9x07 THEN UimStatus ELSE IF DmsReady THEN "READY" ELSE "ABSENT"
  /\ UNCHANGED <<in, profVars, pin, attempts, eth, s_9x07, regVars, dial, rounds>>

requestGetSIMStatusDms ==
  /\ pc = "dms" /\ pc' = "pin"
  /\ \E a \in Replies : Request(a) /\ sim' = requestGetPINStatus(a)
  /\ UNCHANGED <<in, profVars, pin, attempts, eth, s_9x07, regVars, dial, rounds>>

\* The card's side of a PIN: verified, or one try less.
VerifyPin ==
  IF pin # "notverif" THEN UNCHANGED <<pin, attempts>>
  ELSE IF in.pin = "good" THEN pin' = "verified" /\ attempts' = PinTries
  ELSE attempts' = attempts - 1 /\ pin' = IF attempts' = 0 THEN "blocked" ELSE pin

\* requestEnterSimPin: once, and whatever comes of it the set-up goes on.
requestEnterSimPin ==
  /\ pc = "pin" /\ pc' = "profile"
  /\ IF sim = "PIN" /\ in.pin # null
     THEN \E a \in Replies : Request(a) /\ IF a[2] THEN VerifyPin ELSE UNCHANGED <<pin, attempts>>
     ELSE UNCHANGED <<pin, attempts, fails>>
  /\ UNCHANGED <<in, profVars, sim, eth, s_9x07, regVars, dial, rounds>>
-----------------------------------------------------------------------------
(* The profile.                                                              *)

\* The old values are forgotten before the modem is asked for them.
requestGetProfile ==
  /\ pc = "profile"
  /\ IF in.x35 THEN pc' = "reg" /\ UNCHANGED <<old, iptype>>
     ELSE /\ old' = NoOld /\ iptype' = CASE in.v4 /\ in.v6 -> 3 [] ~in.v4 /\ in.v6 -> 2 [] OTHER -> 0
          /\ pc' = IF in.pdp = 0 THEN "set" ELSE "list"
  /\ UNCHANGED <<in, apn, index, queue, store, set, blind, refused, simVars, eth, s_9x07, regVars, dial,
                 fails, rounds>>

\* The list on the wire: the count, then type, index, length of the name and the name.
ProfileList == <<Len(store)>> \o FlattenSeq([i \in 1..Len(store) |->
                 <<0, i, store[i].name>> \o [k \in 1..store[i].name |-> 99]])

\* The indexes the walk over the list collects; k is the byte offset, eight bits.
profile_indexs ==
  LET at[i \in 1..Len(store)] ==
        IF i = 1 THEN 2 ELSE LET k == at[i - 1] + 1 IN (k + 2 + ProfileList[k + 1]) % 256
  IN [i \in 1..Len(store) |-> ProfileList[at[i] + 1]]

WdsGetProfileList ==
  /\ pc = "list"
  /\ \E a \in Replies : /\ Request(a) /\ qmi_rsp_check_and_return(a, "settings", "set")
                        /\ queue' = IF a[1] = 0 THEN profile_indexs ELSE <<>>
                        /\ blind' = (blind \/ (a[1] # 0 /\ index # 0))
  /\ UNCHANGED <<in, apn, index, old, iptype, store, set, refused, simVars, eth, s_9x07, regVars,
                 dial, rounds>>

\* One profile after the other until the PDP context is the requested one; its
\* values become the old ones.  After the last one a new profile is created.
WdsGetProfileSettings ==
  /\ pc = "settings" /\ index' = Head(queue) /\ queue' = Tail(queue)
  /\ \E a \in Replies :
       LET p == store[index'] IN
       /\ Request(a)
       /\ pc' = IF a[1] # 0 \/ p.pdp = in.pdp THEN "set" ELSE IF queue' = <<>> THEN "create" ELSE "settings"
       /\ old' = IF a[1] = 0 /\ p.pdp = in.pdp
                 THEN [apn |-> p.apn, user |-> p.user, pd |-> p.pd, auth |-> p.auth, iptype |-> p.iptype]
                 ELSE old
       /\ blind' = (blind \/ a[1] # 0)
  /\ UNCHANGED <<in, apn, iptype, store, set, refused, simVars, eth, s_9x07, regVars, dial, rounds>>

\* WdsCreateProfileSettingsReqSend, then the list again; a modem without room
\* for another profile refuses.
WdsCreateProfile ==
  /\ pc = "create"
  /\ \E a \in Replies : /\ Request(a) /\ (Len(store) = ProfMax => a[1] # 0)
                        /\ qmi_rsp_check_and_return(a, "list", "set")
                        /\ store' = IF a[2] THEN Append(store, Profile(in.pdp, "", 0)) ELSE store
                        /\ blind' = (blind \/ a[1] # 0)
  /\ UNCHANGED <<in, apn, index, old, iptype, queue, set, refused, simVars, eth, s_9x07, regVars, dial,
                 rounds>>

\* A null value is left out of the request, so the modem keeps its own; the
\* authentication goes with a user and a password only.
WdsModifyProfileSettingsReq(p) ==
  [p EXCEPT !.iptype = iptype, !.apn = IF apn = null THEN @ ELSE apn,
            !.user = IF in.user = null THEN @ ELSE in.user, !.pd = IF in.pd = null THEN @ ELSE in.pd,
            !.auth = IF in.user # null /\ in.pd # null THEN in.auth ELSE @]

Str(s) == IF s = null THEN "" ELSE s

\* Nothing differs from what requestGetProfile has read.
NoNeedToSet == old = [apn |-> Str(apn), user |-> Str(in.user), pd |-> Str(in.pd), auth |-> in.auth,
                      iptype |-> iptype]

\* requestSetProfile: -1 without an index, 0 when nothing differs, 1 when the
\* modem has taken the new values, else the error; -2 when it is not called.
requestSetProfile ==
  /\ pc = "set" /\ pc' = "byprofile"
  /\ \/ {apn, in.user, in.pd} = {null} /\ set' = -2 /\ UNCHANGED <<store, refused, fails>>
     \/ {apn, in.user, in.pd} # {null} /\ index = 0 /\ set' = -1 /\ UNCHANGED <<store, refused, fails>>
     \/ {apn, in.user, in.pd} # {null} /\ index # 0 /\ NoNeedToSet /\ set' = 0
        /\ UNCHANGED <<store, refused, fails>>
     \/ /\ {apn, in.user, in.pd} # {null} /\ index # 0 /\ ~NoNeedToSet
        /\ \E a \in Replies : /\ Request(a) /\ set' = IF a[1] = 0 THEN 1 ELSE a[1]
                              /\ store' = IF a[2] THEN [store EXCEPT ![index] = WdsModifyProfileSettingsReq(@)] ELSE store
                              /\ refused' = (refused \/ a[1] = 1)
  /\ UNCHANGED <<in, apn, index, old, iptype, queue, blind, simVars, eth, s_9x07, regVars, dial, rounds>>

\* QCM_DIAL_BY_PROFILE: the APN is not sent once the profile holds it.
DialByProfile ==
  /\ pc = "byprofile" /\ pc' = "reg"
  /\ apn' = IF set \in {0, 1} /\ index # 0 /\ in.user \in {null, ""} /\ in.byprofile THEN null ELSE apn
  /\ UNCHANGED <<in, index, old, iptype, queue, store, set, blind, refused, simVars, eth, s_9x07, regVars, dial,
                 fails, rounds>>
-----------------------------------------------------------------------------
(* Registration and dial.                                                    *)

\* TLVs of an answer: the service status or the system info of one technology,
\* `on` when it is in service, or attached for packet data.
Lte == [k |-> "LTE", form |-> "info", on |-> TRUE]
Tlvs == [k : {"CDMA", "GSM", "LTE", "NR5G"}, form : {"status", "info"}, on : BOOLEAN]
IsLte(t) == t.on /\ (t.k = "LTE" \/ (t.k = "NR5G" /\ t.form = "status"))
IsCdma(t) == t.on /\ t.k = "CDMA"

\* The walk of requestRegistrationState2 over the TLVs.
SysInfo(t) ==
  FoldLeft(LAMBDA r, x : [lte |-> r.lte \/ IsLte(x), attached |-> r.attached \/ (x.on /\ x.form = "info"),
                          cdma |-> IF IsCdma(x) THEN ~r.lte ELSE IF IsLte(x) THEN FALSE ELSE r.cdma],
           [lte |-> FALSE, cdma |-> FALSE, attached |-> FALSE], t)

\* By SYS_INFO the attach state is cleared before the request is made.
requestRegistrationState2 ==
  /\ pc = "reg" /\ s_9x07
  /\ \E a \in Replies : /\ Request(a)
       /\ \/ a[1] # 0 /\ attached' = FALSE /\ pc' = "dial" /\ UNCHANGED <<s_is_cdma, sys>>
          \/ /\ a[1] = 0 /\ sys' \in IF in.net = "any" THEN SeqOf(Tlvs, AnswerLen) ELSE {<<Lte>>}
             /\ attached' = SysInfo(sys').attached /\ s_is_cdma' = SysInfo(sys').cdma
             /\ pc' = IF s_is_cdma' THEN "home" ELSE "dial"
  /\ UNCHANGED <<in, profVars, simVars, eth, s_9x07, plmn, dial, rounds>>

\* By SERVING_SYSTEM: the radio interface in use decides.
requestRegistrationState ==
  /\ pc = "reg" /\ ~s_9x07
  /\ \E a \in Replies : /\ Request(a)
       /\ \/ a[1] # 0 /\ pc' = "dial" /\ UNCHANGED <<attached, s_is_cdma, sys>>
          \/ /\ a[1] = 0 /\ sys' \in IF in.net = "any" THEN {<<>>} \cup {<<t>> : t \in Tlvs} ELSE {<<Lte>>}
             /\ attached' = \E i \in 1..Len(sys') : sys'[i].on
             /\ s_is_cdma' = \E i \in 1..Len(sys') : IsCdma(sys'[i])
             /\ pc' = IF s_is_cdma' THEN "home" ELSE "dial"
  /\ UNCHANGED <<in, profVars, simVars, eth, s_9x07, plmn, dial, rounds>>

Digit(d) == IF d = 0 THEN 10 ELSE d

\* How CDMA encodes the three digits of a country code (for the check only).
CdmaCode(m) == Digit(m \div 100) * 100 + Digit((m \div 10) % 10) * 10 + Digit(m % 10) - 111

\* A decimal digit of 0 stands for 10, so it borrows from the next one.
quectel_convert_cdma_mcc_2_ascii_mcc(c) ==
  LET b3 == c + 111  d3 == b3 % 10
      b2 == IF d3 = 0 THEN (b3 - 10) \div 10 ELSE b3 \div 10  d2 == b2 % 10
      b1 == IF d2 = 0 THEN (b2 - 10) \div 10 ELSE b2 \div 10  d1 == IF b1 = 10 THEN 0 ELSE b1
  IN IF c = 1023 THEN 3 ELSE IF d1 < 10 THEN d1 * 100 + d2 * 10 + d3 ELSE 0

\* requestGetHomeNetwork for the log of a CDMA registration.
requestGetHomeNetwork ==
  /\ pc = "home" /\ pc' = "dial"
  /\ \E a \in Replies, m \in Codes : /\ Request(a)
       /\ plmn' = IF a[1] = 0 THEN <<m, quectel_convert_cdma_mcc_2_ascii_mcc(CdmaCode(m))>> ELSE plmn
  /\ UNCHANGED <<in, profVars, simVars, eth, s_9x07, s_is_cdma, attached, sys, dial, rounds>>

DialPdpAsIndex ==
  [tech |-> IF s_is_cdma THEN 2 ELSE 1, apn |-> IF s_is_cdma THEN null ELSE apn, user |-> in.user, pd |-> in.pd,
   auth |-> in.auth, index |-> IF s_is_cdma \/ in.x35 THEN 0 ELSE in.pdp]

\* The TLVs of START_NETWORK: CDMA sends neither APN nor profile, but a user.
WdsStartNwInterfaceReq ==
  LET anon == s_is_cdma /\ in.user \in {null, ""} /\ in.pd \in {null, ""}
      user == IF anon THEN "ctnet" ELSE in.user  pd == IF anon THEN "vnet" ELSE in.pd
  IN [tech |-> IF s_is_cdma THEN 2 ELSE 1, apn |-> IF s_is_cdma THEN null ELSE apn,
      user |-> user, pd |-> pd, auth |-> IF anon THEN 2 ELSE IF null \in {user, pd} THEN 0 ELSE in.auth,
      index |-> IF s_is_cdma \/ in.x35 THEN 0 ELSE index]

Dial ==
  /\ pc = "dial" /\ pc' = "done" /\ dial' = WdsStartNwInterfaceReq
  /\ UNCHANGED <<in, profVars, simVars, eth, s_9x07, regVars, fails, rounds>>

\* The modem resets and qmi_main runs again; a PIN must be entered again.
Reset ==
  /\ pc = "done" /\ rounds <= ResetMax /\ rounds' = rounds + 1 /\ pc' = "version"
  /\ pin' = (IF pin = "verified" THEN "notverif" ELSE pin) /\ dial' = NoDial
  /\ attached' = FALSE /\ sys' = <<>> /\ plmn' = <<0, 0>>
  /\ UNCHANGED <<in, profVars, sim, attempts, eth, s_9x07, s_is_cdma, fails>>

Step == \/ requestBaseBandVersion \/ SetDataFormat \/ SetFamily4 \/ SetFamily6 \/ WdsSetAutoConnect
        \/ requestSetLoopBackState \/ requestGetSIMStatus \/ requestGetSIMStatusDms \/ requestEnterSimPin
        \/ requestGetProfile \/ WdsGetProfileList \/ WdsGetProfileSettings \/ WdsCreateProfile
        \/ requestSetProfile \/ DialByProfile \/ requestRegistrationState2 \/ requestRegistrationState
        \/ requestGetHomeNetwork \/ Dial
SNext == Step \/ Reset

\* The set-up is one thread that goes on as long as its requests return.
SSpec == SInit /\ [][SNext]_svars /\ WF_svars(Step)
-----------------------------------------------------------------------------

\* The call is started on the profile of the requested PDN (-n), or on none,
\* unless requestGetProfile failed on the way, with some profile's index set.
DialsRequestedPdn ==
  (pc = "done" /\ dial.index # 0 /\ in.pdp # 0 /\ ~blind) => store[dial.index].pdp = in.pdp

=============================================================================
