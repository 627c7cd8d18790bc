----------------------------- MODULE Mwan3Tools -----------------------------
(***************************************************************************)
(* The small programs of mwan3-nft: mwan3ct, which flushes entries of the  *)
(* kernel's connection table by their marks while connections come and go, *)
(* and mwan3ipcheck, which names the family of a list of addresses.        *)
(*                                                                         *)
(* A 32-bit word is the set of its bits.  A behaviour is one call of one   *)
(* of the programs, the input picks which.                                 *)
(***************************************************************************)
EXTENDS Integers, Sequences, FiniteSets

CONSTANTS
  Bits,         \* the bits of a mark in play
  StatusBits,   \* the bits of a status in play
  BitLimit,     \* bits a mask of --mark-any may have: 16
  Calls,        \* of argument lists of mwan3ct
  Lists,        \* of argument lists of mwan3ipcheck
  NewMax        \* bound: connections that begin during the call

VARIABLES
  tool,         \* "ct" or "ip"
  call,         \* the arguments
  pos,          \* the next one
  opt,          \* mwan3ct: the options met so far
  family,       \* mwan3ipcheck: common_family
  at,           \* "args", "flush" or "done"
  id,           \* the identifier of the flush under way, in 1 .. max_id
  table,        \* the connection table: a set of entries [mark, status]
  before,       \* those of them that were there at the start
  result,       \* "none", "ok", "fail", or what mwan3ipcheck prints
  born          \* bound
mwvars == <<tool, call, pos, opt, family, at, id, table, before, result, born>>

Entries == [mark : SUBSET Bits, status : SUBSET StatusBits]
NoOpt == [mark |-> FALSE, any |-> FALSE, status |-> FALSE,
          mval |-> {}, mmask |-> {}, sval |-> {}, smask |-> {}]

MWInit ==
  /\ \/ tool = "ct" /\ call \in Calls
     \/ tool = "ip" /\ call \in Lists
  /\ pos = 1 /\ opt = NoOpt /\ family = "none" /\ at = "args" /\ id = 1
  /\ table = Entries /\ before = Entries /\ result = "none" /\ born = 0

Stop(how) == at' = "done" /\ result' = how
GoOn == pos' = pos + 1 /\ UNCHANGED <<at, result>>

-----------------------------------------------------------------------------
(* mwan3ct: the options, [o, good, val, alone, mask]. *)

\* parse_val_mask: a value alone is its own mask.
MaskOf(a) == IF a.alone THEN a.val ELSE a.mask

\* An option that main stores: well formed, and the first of its kind.
OptionTaken(a) ==
  /\ a.good
  /\ \/ a.o = "mark" /\ ~opt.mark
     \/ a.o = "any" /\ ~opt.any /\ a.val # {}
     \/ a.o = "status" /\ ~opt.status
\* The loop of main over its options; --mark and --mark-any share the mask.
ReadOption ==
  /\ tool = "ct" /\ at = "args" /\ pos <= Len(call)
  /\ LET a == call[pos] IN
       \/ /\ OptionTaken(a) /\ GoOn
          /\ opt' = CASE a.o = "mark" -> [opt EXCEPT !.mark = TRUE, !.mval = a.val, !.mmask = MaskOf(a)]
                      [] a.o = "any" -> [opt EXCEPT !.any = TRUE, !.mmask = a.val]
                      [] a.o = "status" -> [opt EXCEPT !.status = TRUE, !.sval = a.val, !.smask = MaskOf(a)]
       \/ ~OptionTaken(a) /\ Stop("fail") /\ UNCHANGED <<pos, opt>>
  /\ UNCHANGED <<tool, call, family, id, table, before, born>>

\* The checks after the loop.
Sensible ==
  /\ ~(opt.mark /\ opt.any) /\ (opt.mark \/ opt.any \/ opt.status)
  /\ (opt.mark => opt.mmask # {} /\ opt.mval \subseteq opt.mmask)
  /\ (opt.status => opt.smask # {} /\ opt.sval \subseteq opt.smask)
\* The handle is opened, which may fail; too wide a mask is refused.
Begin ==
  /\ tool = "ct" /\ at = "args" /\ pos > Len(call)
  /\ \/ Stop("fail")
     \/ /\ Sensible /\ ~(opt.any /\ Cardinality(opt.mmask) > BitLimit)
        /\ at' = "flush" /\ result' = result
  /\ UNCHANGED <<tool, call, pos, opt, family, id, table, before, born>>

-----------------------------------------------------------------------------
(* mwan3ct: the flush. *)

\* id2mask: bit k of the identifier becomes the k-th lowest bit of the mask.
id2mask(i, mask) ==
  {b \in mask : (i \div 2^Cardinality({x \in mask : x < b})) % 2 = 1}
\* Mutant: the last identifier is left out.
LastOut(mask) == IF mask = {} THEN 0 ELSE 2^Cardinality(mask) - 2
\* The largest identifier.
MaxId(mask) == 2^Cardinality(mask) - 1

\* What a query with this value leaves: the kernel removes the entries whose
\* masked bits are exactly the value's.
Remaining(val) ==
  {e \in table : ~(/\ (opt.mark \/ opt.any => e.mark \cap opt.mmask = val)
                   /\ (opt.status => e.status \cap opt.smask = opt.sval))}
\* flush_filtered: one query, which may fail; that nothing matched is no failure.
flush_filtered ==
  /\ tool = "ct" /\ at = "flush" /\ ~opt.any
  /\ \/ table' = Remaining(opt.mval) /\ Stop("ok")
     \/ table' = table /\ Stop("fail")
  /\ UNCHANGED <<tool, call, pos, opt, family, id, before, born>>
\* flush_any_marked: one query for every value within the mask but zero.
flush_any_marked ==
  /\ tool = "ct" /\ at = "flush" /\ opt.any
  /\ \/ /\ table' = Remaining(id2mask(id, opt.mmask))
        /\ IF id >= MaxId(opt.mmask) THEN Stop("ok") /\ id' = id
           ELSE id' = id + 1 /\ UNCHANGED <<at, result>>
     \/ table' = table /\ Stop("fail") /\ id' = id
  /\ UNCHANGED <<tool, call, pos, opt, family, before, born>>

\* A connection begins meanwhile, with any mark: external.
NewConnection ==
  /\ tool = "ct" /\ at = "flush" /\ born < NewMax /\ born' = born + 1
  /\ \E e \in Entries \ table : table' = table \cup {e} /\ before' = before \ {e}
  /\ UNCHANGED <<tool, call, pos, opt, family, at, id, result>>

-----------------------------------------------------------------------------
(* mwan3ipcheck: the items between the commas, [fam, pfx]: the family         *)
(* inet_pton takes the address for, "no" for neither and "" for a blank item; *)
(* the prefix, -2 when there is none, -1 when it is empty, has a leading zero *)
(* or is not a number.                                                        *)

MaxPrefix(fam) == IF fam = "ipv4" THEN 32 ELSE 128
classify(t) ==
  IF t.fam = "no" \/ t.pfx = -1 \/ t.pfx > MaxPrefix(t.fam) THEN "invalid" ELSE t.fam

\* classify_list: blank items are skipped, and the first that is invalid or
\* not of the family of those before it decides.
classify_list ==
  /\ tool = "ip" /\ at = "args"
  /\ IF pos > Len(call)
     THEN Stop(IF family = "none" THEN "invalid" ELSE family) /\ UNCHANGED <<pos, family>>
     ELSE LET t == call[pos]
              f == classify(t) IN
          \/ t.fam = "" /\ GoOn /\ family' = family
          \/ t.fam # "" /\ f = "invalid" /\ Stop("invalid") /\ UNCHANGED <<pos, family>>
          \/ t.fam # "" /\ f # "invalid" /\ family \in {"none", f} /\ GoOn /\ family' = f
          \/ /\ t.fam # "" /\ f # "invalid" /\ family \notin {"none", f}
             /\ Stop("mixed") /\ UNCHANGED <<pos, family>>
  /\ UNCHANGED <<tool, call, opt, id, table, before, born>>

MWNext == ReadOption \/ Begin \/ flush_filtered \/ flush_any_marked \/ NewConnection \/ classify_list
MWSpec == MWInit /\ [][MWNext]_mwvars

-----------------------------------------------------------------------------

\* What the command line asks for, read as its usage says: every filter holds.
Asked(e) ==
  /\ call # <<>>
  /\ \A i \in DOMAIN call : LET a == call[i] IN
       CASE a.o = "mark" -> IF a.alone THEN a.val \subseteq e.mark ELSE e.mark \cap a.mask = a.val
         [] a.o = "any" -> e.mark \cap a.val # {}
         [] a.o = "status" -> IF a.alone THEN a.val \subseteq e.status ELSE e.status \cap a.mask = a.val
         [] OTHER -> FALSE

\* When mwan3ct reports success, no connection that was there at the start and
\* that the arguments ask for is left: the values --mark-any goes through are
\* all there are within the mask, wherever its bits lie.
AllFlushed == result = "ok" => \A e \in before \cap table : ~Asked(e)

=============================================================================
