---------------------------- MODULE AtRequests -----------------------------
(***************************************************************************)
(* The requests that quectel-CM makes of a modem over AT commands: SIM     *)
(* status, profile, registration, data call and address, each command by   *)
(* command, with the token scanner they read the answers with.  (atc.c,    *)
(* at_tok.c; AtChannel is how a command gets its answer.)                  *)
(*                                                                         *)
(* A field of an answer is what the scanner makes of it: d and x are its   *)
(* value as a decimal and as a hexadecimal number, s is the string; None   *)
(* is no number.  Between two commands the modem's state may change.       *)
(***************************************************************************)
EXTENDS Integers, Sequences, FiniteSets

CONSTANTS
  Pdp,          \* the profile's context
  Pdps,         \* the modem's contexts: 1 .. n
  Apns,         \* access point names, "" for none
  Address,      \* the address of a call, four octets
  ReqMax,       \* bound: requests
  ChangeMax,    \* bound: changes of the modem's state
  FailMax,      \* bound: commands that fail
  PollMax       \* 15: how often a new call is asked for

VARIABLES
  topic,        \* what the behaviour is about
  asr,          \* asr_style_atc
  modem,        \* its state, see RInit
  profile,      \* what is wanted, what was read (old) and the address
  op,           \* "idle", or the command that is sent next
  act, state, bind, polls,   \* locals of the request
  out,          \* what the last request returned
  budget,       \* requests, changes and failures that are left
  was           \* what the modem was like when it answered the commands of the request
rqvars == <<topic, asr, modem, profile, op, act, state, bind, polls, out, budget, was>>

None == -2
Num(n) == [d |-> n, x |-> n, s |-> "n", dash |-> FALSE]
Str(t) == [d |-> None, x |-> None, s |-> t, dash |-> FALSE]
\* A quoted hexadecimal number: as a decimal it ends at its first letter.
Hex(d, n) == [d |-> d, x |-> n, s |-> "h", dash |-> FALSE]
Empty == Str("")

-----------------------------------------------------------------------------
(* at_tok.c. *)

\* at_tok_nextint, at_tok_nexthexint, at_tok_nextbool, at_tok_nextstr.
Converts(f, k) ==
  CASE k = "d" -> f.d # None
    [] k = "x" -> f.x # None
    [] k = "b" -> f.d \in {0, 1}
    [] k = "s" -> TRUE

\* at_tok_hasmore: an empty field at the end is not there.
at_tok_hasmore(fs, i) == i < Len(fs) \/ (i = Len(fs) /\ fs[i] # Empty)

\* A "-" before a comma counts, and is -1 for %d.
Skipped(fs, i) == i < Len(fs) /\ fs[i].dash

\* at_tok_scanf: how many fields were read; fmt is a sequence of conversions.
at_tok_scanf(fs, fmt) ==
  LET Read(i) == at_tok_hasmore(fs, i) /\ (Skipped(fs, i) \/ Converts(fs[i], fmt[i]))
      n == {k \in 0 .. Len(fmt) : \A i \in 1 .. k : Read(i)}
  IN CHOOSE k \in n : \A j \in n : j <= k

\* The number that %d leaves in a variable that held old.  A field that is not
\* a number still leaves 0, and ends the scan.
Scanned(fs, fmt, i, old) ==
  LET n == at_tok_scanf(fs, fmt) IN
  IF i <= n THEN (IF Skipped(fs, i) THEN -1 ELSE fs[i].d)
  ELSE IF i = n + 1 /\ at_tok_hasmore(fs, i) THEN 0 ELSE old

\* at_tok_count.
at_tok_count(fs) == Len(fs) - 1

-----------------------------------------------------------------------------
(* The modem, external. *)

\* The registration domain of an access technology.
Domain(a) ==
  CASE a \in 2 .. 6 -> "CGREG" [] a \in {7, 13} -> "CEREG" [] a \in 10 .. 12 -> "C5GREG"
    [] OTHER -> "none"
Registered(m) == m.rat \in 2 .. 13 /\ m.reg[Domain(m.rat)] \in {1, 5}

NoAddress == <<0, 0, 0, 0>>
NoProfile == [apn |-> "", iptype |-> 1, auth |-> 0]
Clean == [ok |-> TRUE, bound |-> FALSE, active |-> FALSE, addr |-> NoAddress,
          reg |-> FALSE, asked |-> FALSE]

\* What a behaviour is about, and the requests it makes.
Topics == [sim |-> {"sim", "pin"}, profile |-> {"get", "set"}, reg |-> {"reg"},
           call |-> {"setup", "query", "down", "ip"}]
ModemIs(sim, apn, q, h) ==
  modem = [sim |-> sim, rat |-> 7, reg |-> [d \in {"CGREG", "CEREG", "C5GREG"} |-> 2],
           active |-> [p \in Pdps |-> FALSE], bound |-> FALSE, addr |-> NoAddress,
           prof |-> [NoProfile EXCEPT !.apn = apn], qicsgp |-> q, hex |-> h]
ProfileIs(apn, t, auth) ==
  profile = [apn |-> apn, iptype |-> t, auth |-> auth, old |-> NoProfile,
             addr |-> NoAddress, sim |-> "SIM_ABSENT"]

RInit ==
  /\ topic \in DOMAIN Topics /\ asr \in (IF topic = "call" THEN BOOLEAN ELSE {FALSE})
  /\ \/ /\ topic = "sim" /\ ProfileIs("", 1, 0)
        /\ \E sim \in {"READY", "SIM PIN", "PH-NET PIN", "other", "none"} :
             ModemIs(sim, "", TRUE, FALSE)
     \/ /\ topic = "profile"
        /\ \E apn \in Apns, q \in BOOLEAN : ModemIs("READY", apn, q, FALSE)
        /\ \E apn \in Apns \ {""}, t \in 1 .. 3, auth \in 0 .. 1 : ProfileIs(apn, t, auth)
     \/ topic = "reg" /\ ProfileIs("", 1, 0) /\ ModemIs("READY", "", TRUE, FALSE)
     \/ topic = "call" /\ ProfileIs("", 1, 0) /\ \E h \in BOOLEAN : ModemIs("READY", "", TRUE, h)
  /\ op = "idle" /\ act = -1 /\ state = 0 /\ bind = 0 /\ polls = 0
  /\ out = [req |-> "none", err |-> 0, val |-> 0] /\ was = Clean
  /\ budget = [req |-> ReqMax, change |-> ChangeMax, fail |-> FailMax]

\* The lines of AT+QNETDEVCTL? and AT+CGACT?: op, cid, urc_en, state and
\* cid, state.
CtlLines == <<<<Num(IF modem.bound THEN 1 ELSE 0), Num(Pdp), Num(1),
                Num(IF modem.addr # NoAddress THEN 1 ELSE 0)>>>>
CgactLines == [p \in Pdps |-> <<Num(p), Num(IF modem.active[p] THEN 1 ELSE 0)>>]
\* AT+COPS? without a network has one field only.
CopsLine == IF modem.rat = 0 THEN <<Num(0)>>
            ELSE <<Num(0), Num(0), Str("name"), Num(modem.rat)>>
\* The registration: n, stat and, when registered, area, cell and technology.
RegLine(d) ==
  <<Num(2), Num(modem.reg[d])>>
    \o (IF modem.reg[d] \in {1, 5} THEN <<Hex(1, 26), Hex(0, 11), Num(modem.rat)>> ELSE <<>>)

\* The network registers, moves or drops the modem, and takes contexts down;
\* others activate theirs.
Change ==
  /\ budget.change > 0 /\ budget' = [budget EXCEPT !.change = @ - 1]
  /\ \/ topic = "reg" /\ \E r \in {0, 2, 7, 11}, st \in {1, 2, 5} :
          modem' = [modem EXCEPT !.rat = r,
                      !.reg = [d \in DOMAIN @ |-> IF d = Domain(r) THEN st ELSE 0]]
     \/ topic = "call" /\ \E p \in Pdps : modem' = [modem EXCEPT !.active[p] = ~@,
          !.addr = IF p # Pdp THEN @ ELSE NoAddress]
     \/ modem.active[Pdp] /\ modem.bound /\ modem' = [modem EXCEPT !.addr = Address]
  /\ UNCHANGED <<topic, asr, profile, op, act, state, bind, polls, out, was>>

-----------------------------------------------------------------------------
(* Requests. *)

\* The first command of each request.
First(r) ==
  CASE r = "sim" -> "cpin" [] r = "pin" -> "cpin=" [] r = "get" -> "qicsgp?"
    [] r = "set" -> "qicsgp=" [] r = "reg" -> "cops?"
    [] r = "setup" -> (IF asr THEN "cgact?" ELSE "ctl=")
    [] r = "query" -> (IF asr THEN "ctl?" ELSE "status?")
    [] r = "down" -> "ctl=0" [] r = "ip" -> (IF asr THEN "paddr" ELSE "status")

Begin(r) ==
  /\ op = "idle" /\ budget.req > 0
  /\ r = "set" => out.req = "get"
  /\ budget' = [budget EXCEPT !.req = @ - 1]
  /\ op' = First(r) /\ was' = Clean /\ out' = [req |-> r, err |-> 0, val |-> 0]
  /\ act' = -1 /\ state' = 0 /\ bind' = 0 /\ polls' = 0
  /\ UNCHANGED <<topic, asr, modem, profile>>

\* A command fails: with err -1 (a timeout, a closed channel, no line), or with
\* err 0 when the modem answers ERROR.
Fails(err) ==
  /\ budget.fail > 0 /\ budget' = [budget EXCEPT !.fail = @ - 1]
  /\ err \in {-1, 0} /\ was' = [was EXCEPT !.ok = FALSE]
Works(w) == was' = w /\ budget' = budget
\* The request returns err and v.
Returns(err, v) == op' = "idle" /\ out' = [out EXCEPT !.err = err, !.val = v]
GoesOn(next) == op' = next /\ out' = out
Locals == <<act, state, bind, polls>>

\* requestGetSIMStatus starts from this.
NotReady == "SIM_NOT_READY"

\* requestGetSIMStatus; a network lock returns without an answer.
requestGetSIMStatus ==
  /\ op = "cpin"
  /\ \/ /\ modem.sim = "none" /\ Works(was)
        /\ profile' = [profile EXCEPT !.sim = NotReady] /\ Returns(0, 0)
     \/ /\ \E e \in {-1, 0} : Fails(e) /\ Returns(e, 0)
        /\ profile' = [profile EXCEPT !.sim = NotReady]
     \/ /\ modem.sim = "PH-NET PIN" /\ Works(was)
        /\ profile' = profile /\ Returns(3, 0)
     \/ /\ modem.sim \in {"READY", "SIM PIN", "other"} /\ Works(was)
        /\ profile' = [profile EXCEPT !.sim =
             CASE modem.sim = "READY" -> "SIM_READY" [] modem.sim = "SIM PIN" -> "SIM_PIN"
               [] OTHER -> "SIM_ABSENT"]
        /\ Returns(0, 0)
  /\ UNCHANGED <<topic, asr, modem, Locals>>

\* requestEnterSimPin asks for no response and so takes it for an error.
requestEnterSimPin ==
  /\ op = "cpin=" /\ Returns(-1, 0)
  /\ \/ /\ modem.sim = "SIM PIN" /\ Works(was)
        /\ \E s \in {"READY", "SIM PIN"} : modem' = [modem EXCEPT !.sim = s]
     \/ modem.sim # "SIM PIN" /\ Works(was) /\ modem' = modem
  /\ UNCHANGED <<topic, asr, profile, Locals>>

\* The contexts as AT+CGDCONT? lists them; those of others have their own name.
OthersApn == CHOOSE a \in Apns : a # ""
CgdcontLines ==
  [p \in Pdps |-> IF p = Pdp THEN [apn |-> modem.prof.apn, iptype |-> modem.prof.iptype, cid |-> p]
                  ELSE [apn |-> OthersApn, iptype |-> 1, cid |-> p]]
\* The line of the profile's context.
OwnLine(ls) == ls[CHOOSE p \in Pdps : ls[p].cid = Pdp]

\* requestGetProfile: five fields were read where four are expected, so the
\* answer is kept but -1 returned.  A modem that returns no line has the
\* context written blank and is asked again; one without the command is asked
\* for AT+CGDCONT?.
requestGetProfile ==
  /\ op = "qicsgp?"
  /\ \/ /\ modem.qicsgp /\ Works(was) /\ Returns(-1, 0)
        /\ profile' = [profile EXCEPT !.old = modem.prof] /\ modem' = modem
     \/ /\ Fails(-1) /\ modem' = [modem EXCEPT !.prof = [NoProfile EXCEPT !.iptype = profile.iptype]]
        /\ GoesOn("qicsgp?") /\ profile' = profile
     \/ /\ (~modem.qicsgp /\ Works(was)) \/ Fails(0)
        /\ GoesOn("cgdcont?") /\ UNCHANGED <<profile, modem>>
  /\ UNCHANGED <<topic, asr, Locals>>
GetProfileCgdcont ==
  /\ op = "cgdcont?"
  /\ \/ /\ Works(was) /\ Returns(0, 0)
        /\ LET l == OwnLine(CgdcontLines) IN
           profile' = [profile EXCEPT !.old = [apn |-> l.apn, iptype |-> l.iptype, auth |-> 0]]
     \/ \E e \in {-1, 0} : Fails(e) /\ Returns(-1, 0) /\ profile' = [profile EXCEPT !.old = NoProfile]
  /\ UNCHANGED <<topic, asr, modem, Locals>>

Wanted == [apn |-> profile.apn, iptype |-> profile.iptype, auth |-> profile.auth]

\* requestSetProfile writes what differs, and with AT+CGDCONT what the first
\* command did not take; it never reports a failure.
requestSetProfile ==
  /\ op = "qicsgp="
  /\ \/ profile.old = Wanted /\ Works(was) /\ Returns(0, 0) /\ modem' = modem
     \/ /\ profile.old # Wanted /\ modem.qicsgp /\ Works(was) /\ Returns(0, 1)
        /\ modem' = [modem EXCEPT !.prof = Wanted]
     \/ /\ profile.old # Wanted /\ ((~modem.qicsgp /\ Works(was)) \/ \E e \in {-1, 0} : Fails(e))
        /\ GoesOn("cgdcont=") /\ modem' = modem
  /\ UNCHANGED <<topic, asr, profile, Locals>>
SetProfileCgdcont ==
  /\ op = "cgdcont=" /\ Returns(0, 1)
  /\ \/ /\ Works(was)
        /\ modem' = [modem EXCEPT !.prof.apn = profile.apn, !.prof.iptype = profile.iptype]
     \/ \E e \in {-1, 0} : Fails(e) /\ modem' = modem
  /\ UNCHANGED <<topic, asr, profile, Locals>>

-----------------------------------------------------------------------------
(* Registration. *)

requestRegistrationState ==
  /\ op = "cops?"
  /\ \/ /\ Works(was)
        /\ LET n == at_tok_scanf(CopsLine, <<"d", "d", "s", "d">>)
               a == Scanned(CopsLine, <<"d", "d", "s", "d">>, 4, act) IN
           /\ act' = a
           /\ IF n = 4 /\ Domain(a) # "none" THEN GoesOn("reg?") ELSE Returns(0, 0)
     \/ \E e \in {-1, 0} : Fails(e) /\ Returns(-1, 0) /\ act' = act
  /\ UNCHANGED <<topic, asr, modem, profile, state, bind, polls>>

\* The status in the answer, by its number of commas; 0 when it cannot be read.
RegStatus(fs) ==
  LET Read(fmt, n) == IF at_tok_scanf(fs, fmt) = n THEN Scanned(fs, fmt, 2, 0) ELSE 0 IN
  CASE at_tok_count(fs) = 1 -> Read(<<"d", "d">>, 2)
    [] at_tok_count(fs) = 2 -> (IF at_tok_scanf(fs, <<"d", "x", "x">>) = 3 THEN fs[2].x ELSE 0)
    [] at_tok_count(fs) = 3 -> Read(<<"d", "d", "x", "x">>, 4)
    [] at_tok_count(fs) \in 4 .. 7 -> Read(<<"d", "d", "x", "x", "d">>, 5)
    [] OTHER -> 0

RegistrationAnswer ==
  /\ op = "reg?"
  /\ \/ /\ Works([was EXCEPT !.reg = Registered(modem), !.asked = (Domain(act) = Domain(modem.rat))])
        /\ Returns(0, IF RegStatus(RegLine(Domain(act))) \in {1, 5} THEN 1 ELSE 0)
     \/ \E e \in {-1, 0} : Fails(e) /\ Returns(0, 0)
  /\ UNCHANGED <<topic, asr, modem, profile, Locals>>

-----------------------------------------------------------------------------
(* The data call. *)

\* The loops over +CGACT: lines end at the profile's context.
CgactState(ls) ==
  LET own == {i \in DOMAIN ls : Scanned(ls[i], <<"d", "d">>, 1, 0) = Pdp} IN
  IF own = {} THEN 0
  ELSE LET i == CHOOSE i \in own : \A j \in own : i <= j
       IN Scanned(ls[i], <<"d", "d">>, 2, 0)

\* requestSetupDataCall: the context is activated unless it is active.
requestSetupDataCall ==
  /\ op = "cgact?" /\ out.req = "setup"
  /\ \/ /\ Works([was EXCEPT !.active = modem.active[Pdp]])
        /\ state' = CgactState(CgactLines)
        /\ GoesOn(IF state' = 0 THEN "cgact=" ELSE "ctl=")
     \/ \E e \in {-1, 0} : Fails(e) /\ Returns(e, 0) /\ state' = state
  /\ UNCHANGED <<topic, asr, modem, profile, act, bind, polls>>
SetupActivate ==
  /\ op = "cgact="
  /\ \/ /\ Works([was EXCEPT !.active = TRUE]) /\ GoesOn("ctl=")
        /\ modem' = [modem EXCEPT !.active[Pdp] = TRUE]
     \/ \E e \in {-1, 0} : Fails(e) /\ Returns(e, 0) /\ modem' = modem
  /\ UNCHANGED <<topic, asr, profile, Locals>>
\* AT+QNETDEVCTL binds the network device; without asr it also activates.
SetupBind ==
  /\ op = "ctl="
  /\ \/ /\ Works([was EXCEPT !.bound = TRUE])
        /\ modem' = [modem EXCEPT !.bound = TRUE, !.active[Pdp] = @ \/ ~asr,
                                  !.addr = IF modem.active[Pdp] THEN Address ELSE @]
        /\ IF asr THEN Returns(0, 1) ELSE GoesOn("poll")
     \/ \E e \in {-1, 0} : Fails(e) /\ Returns(e, 0) /\ modem' = modem
  /\ UNCHANGED <<topic, asr, profile, Locals>>
\* while (t++ < 15).
MorePolls == polls < PollMax
\* The call is asked for once a second; it is reported even when no poll saw it.
SetupPoll ==
  /\ op = "poll"
  /\ \/ /\ MorePolls /\ modem.addr = NoAddress /\ Works(was)
        /\ polls' = polls + 1 /\ GoesOn("poll")
     \/ /\ ~MorePolls \/ modem.addr # NoAddress
        /\ Works(was) /\ polls' = polls /\ Returns(0, 1)
     \/ Fails(-1) /\ polls' = polls /\ Returns(-1, 0)
  /\ UNCHANGED <<topic, asr, modem, profile, act, state, bind>>

\* requestQueryDataCall, asr style: the last line decides.
requestQueryDataCall ==
  /\ op = "ctl?"
  /\ \/ /\ Works([was EXCEPT !.bound = modem.bound])
        /\ LET l == CtlLines[Len(CtlLines)]  fmt == <<"d", "d", "d", "d">> IN
           /\ bind' = (IF Scanned(l, fmt, 1, 0) = 1 THEN 1 ELSE 0)
           /\ state' = Scanned(l, fmt, 4, 0)
        /\ IF bind' = 0 \/ state' = 0 THEN Returns(0, 0) ELSE GoesOn("cgact?")
     \/ \E e \in {-1, 0} : Fails(e) /\ Returns(0, 0) /\ UNCHANGED <<bind, state>>
  /\ UNCHANGED <<topic, asr, modem, profile, act, polls>>
\* Mutant: a bound device is taken for a call.
BoundIsUp(st) == bind
\* if (bind && state).
CallUp(st) == IF bind # 0 /\ st # 0 THEN 1 ELSE 0
QueryActive ==
  /\ op = "cgact?" /\ out.req = "query"
  /\ \/ /\ Works([was EXCEPT !.active = modem.active[Pdp]])
        /\ state' = CgactState(CgactLines)
        /\ Returns(0, CallUp(state'))
     \/ \E e \in {-1, 0} : Fails(e) /\ Returns(0, 0) /\ state' = state
  /\ UNCHANGED <<topic, asr, modem, profile, act, bind, polls>>

Reversed(a) == [i \in 1 .. 4 |-> a[5 - i]]
\* The address as the modem writes it: dotted, or as a number, last octet first.
Written(a) == IF modem.hex THEN Reversed(a) ELSE a
\* at_netdevstatus.
at_netdevstatus(w) == IF modem.hex THEN Reversed(w) ELSE w

QueryStatus ==
  /\ op = "status?"
  /\ \/ /\ Works([was EXCEPT !.bound = modem.addr # NoAddress, !.active = TRUE])
        /\ Returns(0, IF at_netdevstatus(Written(modem.addr)) # NoAddress THEN 1 ELSE 0)
     \/ \E e \in {-1, 0} : Fails(e) /\ Returns(0, 0)
  /\ UNCHANGED <<topic, asr, modem, profile, Locals>>

\* requestGetIPAddress: no address leaves the old one in the profile.
requestGetIPAddress ==
  /\ op \in {"paddr", "status"}
  /\ \/ /\ Works([was EXCEPT !.addr = modem.addr])
        /\ LET a == IF asr THEN modem.addr ELSE at_netdevstatus(Written(modem.addr)) IN
           /\ profile' = [profile EXCEPT !.addr = IF a # NoAddress THEN a ELSE @]
           /\ Returns(IF a # NoAddress THEN 0 ELSE -1, 0)
     \/ \E e \in {-1, 0} : Fails(e) /\ Returns(-1, 0) /\ profile' = profile
  /\ UNCHANGED <<topic, asr, modem, Locals>>

requestDeactivateDefaultPDP ==
  /\ op = "ctl=0" /\ Returns(0, 0)
  /\ \/ /\ Works(was)
        /\ modem' = [modem EXCEPT !.bound = FALSE, !.addr = NoAddress,
                                  !.active[Pdp] = @ /\ asr]
     \/ \E e \in {-1, 0} : Fails(e) /\ modem' = modem
  /\ UNCHANGED <<topic, asr, profile, Locals>>

RNext ==
  \/ (\E r \in Topics[topic] : Begin(r)) \/ Change
  \/ requestGetSIMStatus \/ requestEnterSimPin
  \/ requestGetProfile \/ GetProfileCgdcont \/ requestSetProfile \/ SetProfileCgdcont
  \/ requestRegistrationState \/ RegistrationAnswer
  \/ requestSetupDataCall \/ SetupActivate \/ SetupBind \/ SetupPoll
  \/ requestQueryDataCall \/ QueryActive \/ QueryStatus
  \/ requestGetIPAddress \/ requestDeactivateDefaultPDP
RSpec == RInit /\ [][RNext]_rqvars

-----------------------------------------------------------------------------
(* Properties. *)

Finished(r) == op = "idle" /\ out.req = r

\* A call is reported as connected exactly when the device was bound and the
\* profile's own context active, each at its command.
QueryIsTrue ==
  Finished("query")
  => /\ out.val = 1 => was.bound /\ was.active
     /\ was.ok /\ was.bound /\ was.active => out.val = 1

=============================================================================
