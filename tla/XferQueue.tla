----------------------------- MODULE XferQueue -----------------------------
(***************************************************************************)
(* What an MHI channel promises its client, whatever rings, doorbells and  *)
(* power states carry it: buffers are taken in order, come back in order,  *)
(* each exactly once; while the channel is open a buffer comes back only   *)
(* after the modem served it; and the channel is closed only when every    *)
(* buffer is back.                                                         *)
(***************************************************************************)
EXTENDS Naturals, Sequences, FiniteSets

CONSTANTS Buf,   \* buffers of the client
          Cap    \* buffers a channel holds at most

VARIABLES xq,       \* buffers in the channel, oldest first
          xserved,  \* how many of them the modem has served
          xmode     \* "closed", "open", "closing"

xvars == <<xq, xserved, xmode>>

XInit == xq = <<>> /\ xserved = 0 /\ xmode = "closed"

XOpen == /\ xmode = "closed" /\ xmode' = "open"
         /\ UNCHANGED <<xq, xserved>>

XSubmit(b) == /\ xmode = "open" /\ Len(xq) < Cap
              /\ \A i \in 1..Len(xq) : xq[i] # b
              /\ xq' = Append(xq, b)
              /\ UNCHANGED <<xserved, xmode>>

XServe == /\ xmode = "open" /\ xserved < Len(xq)
          /\ xserved' = xserved + 1
          /\ UNCHANGED <<xq, xmode>>

XComplete == /\ xmode = "open" /\ xserved > 0
             /\ xq' = Tail(xq) /\ xserved' = xserved - 1
             /\ UNCHANGED xmode

XClosing == /\ xmode = "open" /\ xmode' = "closing"
            /\ xserved' = 0 /\ UNCHANGED xq

XFlush == /\ xmode = "closing" /\ xq # <<>>
          /\ xq' = Tail(xq) /\ UNCHANGED <<xserved, xmode>>

XClosed == /\ xmode = "closing" /\ xq = <<>>
           /\ xmode' = "closed" /\ UNCHANGED <<xq, xserved>>

XNext == \/ XOpen \/ \E b \in Buf : XSubmit(b)
         \/ XServe \/ XComplete \/ XClosing \/ XFlush \/ XClosed

XSpec == XInit /\ [][XNext]_xvars
=============================================================================
