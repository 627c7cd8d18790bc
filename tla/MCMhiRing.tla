----------------------------- MODULE MCMhiRing -----------------------------
(* Instances of MhiRing for TLC.                                           *)
EXTENDS MhiRing, TLC

AllChannels == ChannelKinds
UplinkChannels == {c \in ChannelKinds : c.dir = "UL"}
BufSymmetry == Permutations(Buf)
=============================================================================
