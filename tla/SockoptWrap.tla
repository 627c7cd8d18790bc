---------------------------- MODULE SockoptWrap ----------------------------
(***************************************************************************)
(* libwrap_mwan3_sockopt: the library mwan3track preloads into ping,       *)
(* httping and the like, so that what they send leaves by the interface    *)
(* under test.  It stands between the program's calls and the C library's, *)
(* remembers in a table of its own which descriptors are bound, and shares *)
(* one source address between them.                                        *)
(*                                                                         *)
(* The environment is mwan3track's: DEVICE, SRCIP and FWMARK are set, and  *)
(* FAMILY may be.  The program ends at the first call that fails on a      *)
(* descriptor it had.                                                      *)
(***************************************************************************)
EXTENDS Integers, FiniteSets

CONSTANTS
  Fds,          \* descriptors
  Limit,        \* those below are in is_bound: 1024
  CallMax,      \* bound: calls of the program
  AddressMax     \* bound: changes of the interface's address

VARIABLES
  env,          \* [family: of SRCIP, only: whether FAMILY is set to it]
  have,         \* the address SRCIP is still the interface's
  source,       \* the family of source, "none" before the first socket
  is_bound,     \* of a descriptor
  sock,         \* of a descriptor: the kernel's socket
  alive,        \* the program runs
  sent,         \* the last packet: the socket it was sent by
  left          \* bounds
sovars == <<env, have, source, is_bound, sock, alive, sent, left>>

Families == {"ipv4", "ipv6"}
NoSock == [fam |-> "none", dev |-> FALSE, mark |-> FALSE, addr |-> "none", failed |-> FALSE]

SOInit ==
  /\ env \in [family : Families, only : BOOLEAN] /\ have = TRUE
  /\ source = "none" /\ is_bound = [f \in Fds |-> FALSE] /\ sock = [f \in Fds |-> NoSock]
  /\ alive = TRUE /\ sent = NoSock /\ left = [call |-> CallMax, change |-> AddressMax]

Called == alive /\ left.call > 0 /\ left' = [left EXCEPT !.call = @ - 1]
Open(f) == sock[f].fam # "none"
\* The program ends, and its sockets with it.
Ends == alive' = FALSE /\ sock' = [f \in Fds |-> NoSock]

-----------------------------------------------------------------------------
(* socket. *)

\* The lowest free descriptor.
FreeFd == CHOOSE f \in Fds : ~Open(f) /\ \A g \in Fds : g < f => Open(g)
Full == \A f \in Fds : Open(f)

\* The socket after the two options.
Fitted(dom) == [fam |-> dom, dev |-> TRUE, mark |-> TRUE, addr |-> "none", failed |-> FALSE]
Plain(dom) == [NoSock EXCEPT !.fam = dom]

\* Mutant: FAMILY is not looked at.
AnyFamily(dom) == FALSE
\* A socket of the family FAMILY excludes.
Excluded(dom) == env.only /\ dom \in Families /\ dom # env.family

\* A socket that is not for IP is the C library's; SRCIP is read into the
\* address of the socket's family, which it may not be one of; an option that
\* fails closes the socket again.
socket(dom) ==
  /\ Called /\ ~Full
  /\ \/ Excluded(dom) /\ UNCHANGED <<source, sock>>
     \/ /\ ~Excluded(dom) /\ dom \notin Families
        /\ sock' = [sock EXCEPT ![FreeFd] = Plain(dom)] /\ source' = source
     \/ /\ ~Excluded(dom) /\ dom \in Families /\ source' = dom
        /\ \/ dom = env.family /\ sock' = [sock EXCEPT ![FreeFd] = Fitted(dom)]
           \/ sock' = sock
  /\ UNCHANGED <<env, have, is_bound, alive, sent>>

-----------------------------------------------------------------------------
(* bind, close, setsockopt. *)

\* Whether the kernel binds a socket to SRCIP, given as an address of fam.
Binds(f, fam) == sock[f].fam = fam /\ fam = env.family /\ have /\ sock[f].addr = "none"

\* The program's own bind: the address in it is replaced by SRCIP, and the
\* descriptor counts as bound whatever comes of it.  Other addresses pass.
bind(f) ==
  /\ Called /\ Open(f)
  /\ is_bound' = (IF f < Limit THEN [is_bound EXCEPT ![f] = TRUE] ELSE is_bound)
  /\ sock' = [sock EXCEPT ![f] = IF sock[f].fam \notin Families THEN [@ EXCEPT !.addr = "own"]
                                 ELSE IF Binds(f, sock[f].fam) THEN [@ EXCEPT !.addr = "src"]
                                 ELSE [@ EXCEPT !.failed = TRUE]]
  /\ UNCHANGED <<env, have, source, alive, sent>>

\* The descriptor's entry is cleared, whoever has it next.
Cleared(f) == IF f < Limit THEN [is_bound EXCEPT ![f] = FALSE] ELSE is_bound
close(f) ==
  /\ Called /\ Open(f)
  /\ is_bound' = Cleared(f) /\ sock' = [sock EXCEPT ![f] = NoSock]
  /\ UNCHANGED <<env, have, source, alive, sent>>

\* The options for mark and device do nothing.
Swallowed(f) == sock
setsockopt(f) ==
  /\ Called /\ Open(f) /\ sock' = Swallowed(f)
  /\ UNCHANGED <<env, have, source, is_bound, alive, sent>>

-----------------------------------------------------------------------------
(* connect, send, sendto and sendmsg. *)

\* dobind: what it does to the socket; a bind that fails closes it.
Wanted(f) == source # "none" /\ f < Limit /\ ~is_bound[f]
Sends(f) ==
  /\ Called /\ Open(f)
  /\ \/ ~Wanted(f) /\ sent' = sock[f] /\ UNCHANGED <<is_bound, sock, alive>>
     \/ /\ Wanted(f) /\ Binds(f, source) /\ is_bound' = [is_bound EXCEPT ![f] = TRUE]
        /\ sock' = [sock EXCEPT ![f].addr = "src"] /\ sent' = sock'[f] /\ alive' = alive
     \/ Wanted(f) /\ ~Binds(f, source) /\ Ends /\ UNCHANGED <<is_bound, sent>>
  /\ UNCHANGED <<env, have, source>>

\* The interface loses its address, or gets it back: external.
AddressChange ==
  /\ left.change > 0 /\ left' = [left EXCEPT !.change = @ - 1] /\ have' = ~have
  /\ UNCHANGED <<env, source, is_bound, sock, alive, sent>>

SONext ==
  \/ \E dom \in Families \cup {"unix", "packet"} : socket(dom)
  \/ \E f \in Fds : bind(f) \/ close(f) \/ setsockopt(f) \/ Sends(f)
  \/ AddressChange
SOSpec == SOInit /\ [][SONext]_sovars

-----------------------------------------------------------------------------

\* With FAMILY set, an IP socket is never bound with the other family's
\* address, and so never closed for it while SRCIP is the interface's.
NotClosedForFamily ==
  [][\A f \in Fds : Sends(f) /\ ~alive' /\ have /\ env.only => sock[f].fam \notin Families]_sovars
=============================================================================
