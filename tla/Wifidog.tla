------------------------------ MODULE Wifidog ------------------------------
(***************************************************************************)
(* The captive-portal gate, wifidog-ng.ko: the netfilter hook that lets    *)
(* connections of known clients pass and redirects the web connections of  *)
(* others to the gateway, with the connection table it leaves its marks    *)
(* in, and the proc file that configures it while packets flow.            *)
(*                                                                         *)
(* A connection is its client, its destination and what it carries.        *)
(* Destinations are "lan" and "guest", hosts in the network of that        *)
(* interface, "free", a host in the set wifidog-ng-ip, and "net".          *)
(***************************************************************************)
EXTENDS Integers, FiniteSets

CONSTANTS
  Plays,        \* the sets of connections [client, dest, proto] a behaviour may use
  Home,         \* of a client: the interface it is behind
  Ifaces,       \* interfaces that may be configured
  WriteMax,     \* bound: writes to the proc file
  IfMax,        \* bound: interfaces that come back with another index
  KnownMax,     \* bound: changes of the set of known clients
  LoadMax       \* bound: times the module is loaded

VARIABLES
  wd,           \* struct wifidog_net: enabled, interface, ifindex, net (its address,
                \* mask and broadcast), port, ssl_port
  res,          \* what the module has registered: "dir", "config", "hook"
  writer,       \* the write: "idle", "index" or "addr"
  dev,          \* of an interface: its index, 0 when it is gone, and whether it has an address
  known,        \* clients in the set wifidog-ng-mac
  conns,        \* the connections in use
  ct,           \* of a connection: its entry in the connection table
  verdict,      \* what the hook last said
  left          \* bounds
wvars == <<wd, res, writer, dev, known, conns, ct, verdict, left>>

All == UNION Plays
Clients == {c.client : c \in conns}
NoEntry == [live |-> FALSE, seen |-> FALSE, allowed |-> FALSE, hijacked |-> FALSE,
            nat |-> FALSE, to |-> <<"none", 0>>, opened |-> FALSE]

\* wd_net_init's settings; the rest of the structure is zero.
Fresh == [enabled |-> FALSE, interface |-> "lan", ifindex |-> -1, net |-> "none",
          port |-> 2060, ssl_port |-> 8443]

WInit ==
  /\ wd = Fresh /\ res = {} /\ writer = "idle" /\ known = {} /\ verdict = "none"
  /\ conns \in Plays
  /\ dev = [i \in Ifaces |-> [index |-> IF i = "lan" THEN 1 ELSE 2, addr |-> TRUE]]
  /\ ct = [c \in All |-> NoEntry]
  /\ left = [write |-> WriteMax, iface |-> IfMax, known |-> KnownMax, load |-> LoadMax]

-----------------------------------------------------------------------------
(* Loading and unloading. *)

\* The directory, the file and the hook: a failure takes back the ones before.
Registered(failed) == IF failed = "none" THEN {"dir", "config", "hook"} ELSE {}
wd_net_init(failed) ==
  /\ res = {} /\ left.load > 0 /\ left' = [left EXCEPT !.load = @ - 1]
  /\ wd' = Fresh
  /\ res' = Registered(failed)
  /\ UNCHANGED <<writer, dev, known, conns, ct, verdict>>
\* wd_net_exit: the file, once nobody writes to it, and the directory; then the hook.
ExitProc ==
  /\ "config" \in res /\ writer = "idle" /\ res' = {"hook"}
  /\ UNCHANGED <<wd, writer, dev, known, conns, ct, verdict, left>>
ExitHook ==
  /\ res = {"hook"} /\ res' = {}
  /\ UNCHANGED <<wd, writer, dev, known, conns, ct, verdict, left>>

-----------------------------------------------------------------------------
(* /proc/net/wifidog-ng/config. *)

\* proc_config_write: a key is stored; an interface, or being switched on,
\* asks for the interface's address.
Keys == {[k |-> "enabled", v |-> "1"], [k |-> "enabled", v |-> "0"], [k |-> "ports", v |-> "80"]}
          \cup {[k |-> "interface", v |-> i] : i \in Ifaces}
Updates(e) == e.k = "interface" \/ (e.k = "enabled" /\ e.v = "1")
proc_config_write(e) ==
  /\ "config" \in res /\ writer = "idle"
  /\ left.write > 0 /\ left' = [left EXCEPT !.write = @ - 1]
  /\ wd' = CASE e.k = "enabled" -> [wd EXCEPT !.enabled = (e.v = "1")]
             [] e.k = "interface" -> [wd EXCEPT !.interface = e.v]
             [] e.k = "ports" -> [wd EXCEPT !.port = 80, !.ssl_port = 443]
  /\ writer' = (IF Updates(e) THEN "index" ELSE "idle")
  /\ UNCHANGED <<res, dev, known, conns, ct, verdict>>

\* update_gw_interface: first the index, then, when there is one, the address.
UpdateIndex ==
  /\ writer = "index"
  /\ \/ dev[wd.interface].index = 0 /\ writer' = "idle" /\ wd' = wd
     \/ /\ dev[wd.interface].index # 0 /\ writer' = "addr"
        /\ wd' = [wd EXCEPT !.ifindex = dev[wd.interface].index]
  /\ UNCHANGED <<res, dev, known, conns, ct, verdict, left>>
UpdateAddress ==
  /\ writer = "addr" /\ writer' = "idle"
  /\ wd' = (IF dev[wd.interface].addr THEN [wd EXCEPT !.net = wd.interface] ELSE wd)
  /\ UNCHANGED <<res, dev, known, conns, ct, verdict, left>>

-----------------------------------------------------------------------------
(* The network, external. *)

\* An interface goes, and comes back with an index of its own, its address
\* there or still to come.
IfaceGone(i) ==
  /\ left.iface > 0 /\ left' = [left EXCEPT !.iface = @ - 1]
  /\ dev[i].index # 0 /\ dev' = [dev EXCEPT ![i] = [index |-> 0, addr |-> FALSE]]
  /\ UNCHANGED <<wd, res, writer, known, conns, ct, verdict>>
IfaceBack(i) ==
  /\ dev[i].index = 0
  /\ \E a \in BOOLEAN : dev' = [dev EXCEPT ![i] = [index |-> 3 + left.iface, addr |-> a]]
  /\ UNCHANGED <<wd, res, writer, known, conns, ct, verdict, left>>
\* A client logs in, or its entry times out.
Login(c) ==
  /\ left.known > 0 /\ left' = [left EXCEPT !.known = @ - 1]
  /\ known' = (IF c \in known THEN known \ {c} ELSE known \cup {c})
  /\ UNCHANGED <<wd, res, writer, dev, conns, ct, verdict>>
\* The other side answers: the connection is no longer new.
Reply(c) ==
  /\ ct[c].live /\ ~ct[c].seen /\ ct' = [ct EXCEPT ![c].seen = TRUE]
  /\ UNCHANGED <<wd, res, writer, dev, known, conns, verdict, left>>
\* The entry times out.
Expire(c) ==
  /\ ct[c].live /\ ct' = [ct EXCEPT ![c] = NoEntry]
  /\ UNCHANGED <<wd, res, writer, dev, known, conns, verdict, left>>

-----------------------------------------------------------------------------
(* wifidog_hook. *)

is_allowed_mac(c) == c.client \in known
is_allowed_dest_ip(c) == c.dest = "free"
New(c) == ~ct[c].seen
Arrival(c) == dev[Home[c.client]].index

\* The entry after a packet that passes: address translation, which comes
\* next, has seen it; opened records whether it was admissible as a new one.
Entered(c) == [ct[c] EXCEPT !.live = TRUE, !.nat = TRUE,
                 !.opened = @ \/ (New(c) /\ (is_allowed_mac(c) \/ is_allowed_dest_ip(c)))]
Entry(c, e) == ct' = [ct EXCEPT ![c] = e]
\* A dropped packet leaves no entry behind that was not there before.
Drop == verdict' = "drop" /\ ct' = ct
Allow(c) == verdict' = "accept" /\ Entry(c, [Entered(c) EXCEPT !.allowed = TRUE])

\* Mutant: the entry stays when its client has become known.
HijackKept(c) == Entered(c)
\* A redirected connection of a client that is known by now is killed.
AfterHijack(c) == IF is_allowed_mac(c) THEN NoEntry ELSE Entered(c)
Hijacked(c) == ct[c].hijacked

\* wd_nat_setup_info: to the gateway's own address, at the port for what the
\* client wanted.
PortalPort(c) == IF c.proto = "http" THEN wd.port ELSE wd.ssl_port
wd_nat_setup_info(c) ==
  /\ verdict' = "redirect"
  /\ Entry(c, [Entered(c) EXCEPT !.hijacked = TRUE, !.to = <<wd.net, PortalPort(c)>>])

\* Mutant: any packet of a connection that is not from a known client is let
\* on once an entry is there.
OldPasses(c) == ~wd.enabled \/ Arrival(c) # wd.ifindex \/ c.dest = wd.net \/ ct[c].live
\* Nothing to do: the gate is off or elsewhere, the network is the gate's own,
\* or the connection was let through before.
NotGated(c) == ~wd.enabled \/ Arrival(c) # wd.ifindex \/ c.dest = wd.net \/ ct[c].allowed
\* A new connection of a known client, or to a host that is free to all.
LetThrough(c) == New(c) /\ (is_allowed_dest_ip(c) \/ is_allowed_mac(c))

\* What becomes of the rest goes by the protocol.
ByProtocol(c) ==
  \/ c.proto \in {"dns", "icmp"} /\ Allow(c)
  \/ c.proto \in {"tcp", "udp"} /\ Drop
  \/ c.proto \in {"http", "https"} /\ (~New(c) \/ ct[c].nat) /\ Drop
  \/ c.proto \in {"http", "https"} /\ New(c) /\ ~ct[c].nat /\ wd_nat_setup_info(c)

wifidog_hook(c) ==
  /\ "hook" \in res /\ Arrival(c) # 0
  /\ CASE NotGated(c) -> verdict' = "accept" /\ Entry(c, Entered(c))
       [] ~NotGated(c) /\ Hijacked(c) -> verdict' = "hijacked" /\ Entry(c, AfterHijack(c))
       [] ~NotGated(c) /\ ~Hijacked(c) /\ LetThrough(c) -> Allow(c)
       [] OTHER -> ByProtocol(c)
  /\ UNCHANGED <<wd, res, writer, dev, known, conns, left>>
\* Without the module packets pass unseen.
NoHook(c) ==
  /\ "hook" \notin res /\ Arrival(c) # 0 /\ verdict' = "accept" /\ Entry(c, Entered(c))
  /\ UNCHANGED <<wd, res, writer, dev, known, conns, left>>

WNext ==
  \/ (\E f \in {"none", "dir", "config", "hook"} : wd_net_init(f)) \/ ExitProc \/ ExitHook
  \/ (\E e \in Keys : proc_config_write(e)) \/ UpdateIndex \/ UpdateAddress
  \/ (\E i \in Ifaces : IfaceGone(i) \/ IfaceBack(i))
  \/ (\E c \in Clients : Login(c))
  \/ (\E c \in conns : Reply(c) \/ Expire(c) \/ wifidog_hook(c) \/ NoHook(c))

\* A client repeats what it is not answered, and an update of the address ends.
WSpec == WInit /\ [][WNext]_wvars /\ WF_wvars(UpdateIndex \/ UpdateAddress)
           /\ \A c \in All : WF_wvars(c \in conns /\ wifidog_hook(c))

-----------------------------------------------------------------------------

\* The gate stands before the connection: it is on, it looks at the interface
\* the packets come in by, and the address it holds is that interface's.
Gate(c) == /\ "hook" \in res /\ wd.enabled /\ Arrival(c) = wd.ifindex
           /\ wd.net = Home[c.client] /\ wd.net # c.dest

\* A connection, other than name look-ups and what is neither TCP nor UDP,
\* passes the gate only if it was admissible while it was new: one that began
\* before the gate was switched on is stopped with the others.
GateHolds ==
  [][\A c \in conns : wifidog_hook(c) /\ Gate(c) /\ verdict' = "accept"
        => c.proto \in {"dns", "icmp"} \/ ct'[c].opened]_wvars

\* Once a client is known for good, behind a gate that stays, its redirected
\* connections come to an end.
FreedAfterLogin ==
  \A c \in All : <>[](c \in conns /\ Gate(c) /\ is_allowed_mac(c)) => <>[]~ct[c].hijacked
=============================================================================
