----------------------------- MODULE AtChannel -----------------------------
(***************************************************************************)
(* The AT channel of quectel-CM: the line reader, the matching of lines to *)
(* the command that waits, the commands with their timeouts, the handshake *)
(* and the closing of the channel.  (atchannel.c; the thread that opens    *)
(* and closes it and the handler of unsolicited lines are atc.c's.)        *)
(*                                                                         *)
(* A line is its kind and the command it belongs to, 0 for unsolicited     *)
(* ones, and its place in that command's answer: "OK" and "ERR" are the    *)
(* final responses, "pre" starts with the prefix a command expects, "num"  *)
(* with a digit, "reg" and "dev" are the lines that report a change of     *)
(* registration or of the data call, "sms" announces a PDU, a "text" line. *)
(***************************************************************************)
EXTENDS Integers, Sequences, FiniteSets, SequencesExt

CONSTANTS
  Answers,      \* of the modem: for each type of command, sequences of line kinds
  Urcs,         \* its unsolicited messages: sequences of line kinds
  CmdMax,       \* bound: commands after the handshake
  UrcMax,       \* bound: unsolicited messages
  TryMax,       \* HANDSHAKE_RETRY_COUNT
  Closings,     \* what may close the channel: "quit", "hangup"
  BufMax,       \* MAX_AT_RESPONSE
  Texts         \* streams for the reader: line numbers, 0 for \r and \n

VARIABLES
  part,         \* "cmd": commands and lines; "read": the reader's buffer
  caller,       \* the command thread: "hand", "handwait", "pause", "idle", "wait", "over"
  cmd, type,    \* number and type of the last command
  tries,        \* of the handshake
  resp,         \* sp_response
  result,       \* what the last command returned
  answer,       \* the answer the modem gave to the last command
  wire,         \* commands the modem has not answered
  lines,        \* lines on their way to the reader
  reader,       \* "run", "sms", "loop" (in readline), "closed" (past the test in
                \* onReaderClosed) or "over"
  closer,       \* atc_read_thread: "run", "close" (s_fd closed) or "over"
  s_fd, closed,   \* s_fd >= 0 and s_readerClosed
  hung,         \* the modem has hung up
  urcs, stats,  \* unsolicited messages, and status lines, that the modem has sent
  events, seen, \* status lines given to the main thread as events, and in answers
  late,         \* an answer may still come for a command that was given up
  text, pos, s_ATBuffer, off, returned  \* the stream, how much is read, what the buffer holds
                            \* and from where, the lines returned
cvars == <<caller, cmd, type, tries, resp, result, wire>>
mvars == <<answer, lines, hung, urcs, stats, events, seen, late>>
rvars == <<reader, closer, s_fd, closed>>
bvars == <<text, pos, s_ATBuffer, off, returned>>
avars == <<part, cvars, mvars, rvars, bvars>>

Line(k, c, i) == [kind |-> k, cmd |-> c, n |-> i]
NoLine == Line("none", 0, 0)
NoResp == [live |-> FALSE, inter |-> <<>>, final |-> NoLine, success |-> FALSE]
\* at_response_new.
at_response_new == [NoResp EXCEPT !.live = TRUE]
Status(l) == l.kind \in {"reg", "dev"}
StatusLines(s) == Len(SelectSeq(s, Status))

AInit ==
  /\ part \in {"cmd", "read"}
  /\ caller = "hand" /\ cmd = 0 /\ type = "none" /\ tries = 0
  /\ resp = NoResp /\ result = [err |-> "none", resp |-> NoResp] /\ wire = <<>>
  /\ answer = <<>> /\ lines = <<>> /\ hung = FALSE
  /\ urcs = 0 /\ stats = 0 /\ events = 0 /\ seen = 0 /\ late = FALSE
  /\ reader = "run" /\ closer = "run" /\ s_fd = TRUE /\ closed = FALSE
  /\ text \in (IF part = "read" THEN Texts ELSE {<<>>})
  /\ pos = 0 /\ s_ATBuffer = <<>> /\ off = 0 /\ returned = <<>>

-----------------------------------------------------------------------------
(* Lines. *)

isFinalResponseSuccess(l) == l.kind = "OK"
isFinalResponseError(l) == l.kind = "ERR"
isSMSUnsolicited(l) == l.kind = "sms"

\* onUnsolicited: changes of registration and of the data call become events.
onUnsolicited(l) == events' = (IF Status(l) THEN events + 1 ELSE events)

\* addIntermediate puts the line at the head of the list.
addIntermediate(l) == [resp EXCEPT !.inter = <<l>> \o @]
\* handleFinalResponse.
handleFinalResponse(l, ok) == [resp EXCEPT !.final = l, !.success = ok]

\* The prefix that a command of the type expects.
Prefix(t) == IF t = "regq" THEN "reg" ELSE "pre"
\* Whether the pending command takes the line into its answer.
Taken(l) ==
  \/ type = "numeric" /\ resp.inter = <<>> /\ l.kind = "num"
  \/ type \in {"single", "regq"} /\ resp.inter = <<>> /\ l.kind = Prefix(type)
  \/ type = "multi" /\ l.kind = Prefix(type)

\* processLine, under the mutex.
processLine(l) ==
  \/ /\ ~resp.live
     /\ onUnsolicited(l) /\ resp' = resp
  \/ /\ resp.live /\ isFinalResponseSuccess(l)
     /\ resp' = handleFinalResponse(l, TRUE) /\ events' = events
  \/ /\ resp.live /\ isFinalResponseError(l)
     /\ resp' = handleFinalResponse(l, FALSE) /\ events' = events
  \/ /\ resp.live /\ l.kind \notin {"OK", "ERR"} /\ Taken(l)
     /\ resp' = addIntermediate(l) /\ events' = events
  \/ /\ resp.live /\ l.kind \notin {"OK", "ERR"} /\ ~Taken(l)
     /\ onUnsolicited(l) /\ resp' = resp

\* readerLoop: a line, or the first of the two of an SMS and then the second,
\* whatever it is.
readerLoop ==
  /\ part = "cmd" /\ reader \in {"run", "sms"} /\ s_fd /\ lines # <<>>
  /\ lines' = Tail(lines)
  /\ \/ /\ reader = "sms"
        /\ reader' = "run" /\ UNCHANGED <<resp, events>>
     \/ /\ reader = "run" /\ isSMSUnsolicited(Head(lines))
        /\ reader' = "sms" /\ UNCHANGED <<resp, events>>
     \/ /\ reader = "run" /\ ~isSMSUnsolicited(Head(lines))
        /\ processLine(Head(lines)) /\ reader' = reader
  /\ UNCHANGED <<part, caller, cmd, type, tries, result, wire, answer, hung, urcs,
                 stats, seen, late, closer, s_fd, closed, bvars>>

\* readline returns NULL: the s_fd is closed or the modem gone.  onReaderClosed
\* tests s_readerClosed before it takes the mutex.
ReaderEof ==
  /\ part = "cmd" /\ reader \in {"run", "sms"} /\ (~s_fd \/ (hung /\ lines = <<>>))
  /\ reader' = (IF closed THEN "over" ELSE "closed")
  /\ UNCHANGED <<part, cvars, mvars, closer, s_fd, closed, bvars>>
onReaderClosed ==
  /\ reader = "closed"
  /\ closed' = TRUE /\ reader' = "over"
  /\ UNCHANGED <<part, cvars, mvars, closer, s_fd, bvars>>

-----------------------------------------------------------------------------
(* readline: the buffer. *)

EolAt(b) == {i \in DOMAIN b : b[i] = 0}
\* The newlines at the start of b, and the end of its first line (findNextEOL).
Leading(b) == IF \A i \in DOMAIN b : b[i] = 0 THEN Len(b)
              ELSE (CHOOSE i \in DOMAIN b : b[i] # 0 /\ \A j \in 1 .. i - 1 : b[j] = 0) - 1
findNextEOL(b) == CHOOSE i \in EolAt(b) : \A j \in EolAt(b) : i <= j

\* A complete line at the start of b, which begins at offset o.
ReturnLine(b, o) ==
  LET e == findNextEOL(b) IN
  /\ returned' = Append(returned, SubSeq(b, 1, e - 1))
  /\ s_ATBuffer' = SubSeq(b, e + 1, Len(b)) /\ off' = o + e /\ reader' = "run"

\* A partial line is moved up to the start of the buffer.
MovedUp(b) == b

\* readline: what the buffer still holds, without its leading newlines.
ReadlineStart ==
  /\ part = "read" /\ reader = "run"
  /\ LET n == Leading(s_ATBuffer)  b == SubSeq(s_ATBuffer, n + 1, Len(s_ATBuffer)) IN
     \/ /\ EolAt(b) # {} /\ ReturnLine(b, off + n)
     \/ /\ EolAt(b) = {} /\ s_ATBuffer' = MovedUp(b) /\ off' = 0
        /\ reader' = "loop" /\ returned' = returned
  /\ UNCHANGED <<part, cvars, mvars, closer, s_fd, closed, text, pos>>

\* The room behind n characters.
Room(n) == BufMax - n
\* readline's loop: a full buffer is thrown away, then more is read.
ReadlineRead(k) ==
  /\ part = "read" /\ reader = "loop"
  /\ LET full == off + Len(s_ATBuffer) = BufMax
         o == IF full THEN 0 ELSE off
         h == IF full THEN <<>> ELSE s_ATBuffer IN
     /\ k \in 1 .. Room(o + Len(h)) /\ pos + k <= Len(text)
     /\ pos' = pos + k
     /\ LET a == h \o SubSeq(text, pos + 1, pos + k)
            n == Leading(a)  b == SubSeq(a, n + 1, Len(a)) IN
        \/ EolAt(b) # {} /\ ReturnLine(b, o + n)
        \/ EolAt(b) = {} /\ s_ATBuffer' = b /\ off' = o + n /\ UNCHANGED <<returned, reader>>
  /\ UNCHANGED <<part, cvars, mvars, closer, s_fd, closed, text>>

-----------------------------------------------------------------------------
(* The thread that polls the channel, and closes it. *)

atc_read_thread ==
  /\ part = "cmd" /\ closer = "run"
  /\ hung \/ "quit" \in Closings
  /\ closer' = "close" /\ s_fd' = FALSE
  /\ UNCHANGED <<part, cvars, mvars, reader, closed, bvars>>
at_close ==
  /\ closer = "close"
  /\ closed' = TRUE /\ closer' = "over"
  /\ UNCHANGED <<part, cvars, mvars, reader, s_fd, bvars>>

-----------------------------------------------------------------------------
(* Commands. *)

\* clearPendingCommand.
clearPendingCommand == NoResp

\* What the last command returned.
Return(err, out) == result' = [err |-> err, resp |-> out]

\* writeline: a closed channel is refused, a modem that is gone fails the write.
writeline ==
  IF ~s_fd \/ closed THEN "closed" ELSE IF hung THEN "generic" ELSE "ok"

\* at_send_command_full_nolock up to its wait; the caller then waits as w, or
\* goes on as e when the command cannot be written.
at_send_command_full(t, w, e) ==
  /\ cmd' = cmd + 1 /\ type' = t /\ answer' = <<>>
  /\ \/ /\ writeline = "ok"
        /\ wire' = Append(wire, [cmd |-> cmd + 1, type |-> t])
        /\ resp' = at_response_new /\ caller' = w /\ Return("none", NoResp)
     \/ /\ writeline # "ok"
        /\ resp' = clearPendingCommand /\ caller' = e /\ Return(writeline, NoResp)
        /\ wire' = wire
  /\ UNCHANGED <<part, lines, hung, urcs, stats, events, seen, late, rvars, bvars>>

Send(t) ==
  /\ part = "cmd" /\ caller = "idle" /\ cmd - tries < CmdMax
  /\ at_send_command_full(t, "wait", "idle") /\ tries' = tries

\* reverseIntermediates.
reverseIntermediates(s) == Reverse(s)

\* at_send_command_singleline and _numeric want an intermediate response.
ValidResponse(out) ==
  type \in {"single", "regq", "numeric"} /\ out.success => out.inter # <<>>

\* The wait ends with the final response, or because the channel has closed:
\* then the response is handed out, but with an error.
Complete ==
  /\ caller = "wait" /\ (resp.final # NoLine \/ closed)
  /\ LET out == [resp EXCEPT !.inter = reverseIntermediates(@)] IN
     IF closed THEN Return("closed", out)
     ELSE IF ValidResponse(out) THEN Return("ok", out) ELSE Return("invalid", NoResp)
  /\ seen' = seen + StatusLines(resp.inter)
  /\ resp' = clearPendingCommand /\ caller' = "idle"
  /\ UNCHANGED <<part, cmd, type, tries, wire, answer, lines, hung, urcs, stats, events,
                 late, rvars, bvars>>

\* 15 s for a command, 1 s for the handshake.  The timer may win against a
\* final response that has just come.
TimerRuns == caller \in {"wait", "handwait"}

TimedOut ==
  /\ caller = "wait" /\ TimerRuns
  /\ Return("timeout", NoResp) /\ late' = TRUE
  /\ resp' = clearPendingCommand /\ caller' = "idle"
  /\ UNCHANGED <<part, cmd, type, tries, wire, answer, lines, hung, urcs, stats, events,
                 seen, rvars, bvars>>

-----------------------------------------------------------------------------
(* The handshake. *)

NextTry == IF tries' < TryMax THEN "hand" ELSE "over"

Handshake ==
  /\ part = "cmd" /\ caller = "hand"
  /\ tries' = tries + 1
  /\ at_send_command_full("none", "handwait", NextTry)
\* Mutant: no pause, the next command follows at once.
NoPause == "idle"
\* A handshake that was answered is followed by a pause.
AfterHandshake == "pause"
HandshakeAnswered ==
  /\ caller = "handwait" /\ (resp.final # NoLine \/ closed)
  /\ resp' = clearPendingCommand
  /\ tries' = tries /\ caller' = (IF closed THEN NextTry ELSE AfterHandshake)
  /\ UNCHANGED <<part, cmd, type, result, wire, mvars, rvars, bvars>>
HandshakeTimedOut ==
  /\ caller = "handwait" /\ TimerRuns
  /\ resp' = clearPendingCommand
  /\ tries' = tries /\ caller' = NextTry
  /\ UNCHANGED <<part, cmd, type, result, wire, mvars, rvars, bvars>>
\* The pause of a second: what comes now is unsolicited, what is still to
\* come is late.
Drained ==
  late' = (wire # <<>> \/ \E i \in DOMAIN lines : lines[i].kind \in {"OK", "ERR"})
EndPause ==
  /\ caller = "pause" /\ caller' = "idle"
  /\ Drained
  /\ UNCHANGED <<part, cmd, type, tries, resp, result, wire, answer, lines, hung, urcs,
                 stats, events, seen, rvars, bvars>>

-----------------------------------------------------------------------------
(* The modem. *)

\* The lines of an answer to command c.
LinesOf(a, c) == [i \in DOMAIN a |-> Line(a[i], c, i)]

Answer(a) ==
  /\ part = "cmd" /\ wire # <<>> /\ ~hung
  /\ a \in Answers[Head(wire).type]
  /\ wire' = Tail(wire)
  /\ lines' = lines \o LinesOf(a, Head(wire).cmd)
  /\ answer' = (IF Head(wire).cmd = cmd THEN a ELSE answer)
  /\ stats' = stats + StatusLines(LinesOf(a, 0))
  /\ UNCHANGED <<part, caller, cmd, type, tries, resp, result, hung, urcs, events, seen,
                 late, rvars, bvars>>
Urc(u) ==
  /\ part = "cmd" /\ urcs < UrcMax /\ ~hung
  /\ urcs' = urcs + 1
  /\ lines' = lines \o LinesOf(u, 0)
  /\ stats' = stats + StatusLines(LinesOf(u, 0))
  /\ UNCHANGED <<part, cvars, answer, hung, events, seen, late, rvars, bvars>>
HangUp ==
  /\ part = "cmd" /\ "hangup" \in Closings /\ ~hung
  /\ hung' = TRUE
  /\ UNCHANGED <<part, cvars, answer, lines, urcs, stats, events, seen, late, rvars, bvars>>

ANext ==
  \/ readerLoop \/ ReaderEof \/ onReaderClosed
  \/ ReadlineStart \/ (\E k \in 1 .. BufMax : ReadlineRead(k))
  \/ atc_read_thread \/ at_close
  \/ (\E t \in DOMAIN Answers : Send(t)) \/ Complete \/ TimedOut
  \/ Handshake \/ HandshakeAnswered \/ HandshakeTimedOut \/ EndPause
  \/ (\E t \in DOMAIN Answers : \E a \in Answers[t] : Answer(a))
  \/ (\E u \in Urcs : Urc(u)) \/ HangUp

\* The command thread runs, and its timed waits end; the modem owes nothing.
CommandThread ==
  Handshake \/ EndPause \/ Complete \/ TimedOut \/ HandshakeAnswered \/ HandshakeTimedOut
ASpec == AInit /\ [][ANext]_avars /\ WF_avars(CommandThread)

-----------------------------------------------------------------------------
(* Properties. *)

\* As long as no command was given up, the final response a command gets is
\* the one the modem gave to it, whatever was still unanswered from the
\* handshake: the pause of at_handshake has drained that.
ResponseIsOwn ==
  result.err = "ok" /\ ~late
  => /\ result.resp.final.cmd = cmd
     /\ result.resp.success = (result.resp.final.kind = "OK")

=============================================================================
