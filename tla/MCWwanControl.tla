--------------------------- MODULE MCWwanControl ---------------------------
(* Small instances of WwanControl: the watchdog and two UI or service       *)
(* processes that are interchangeable.                                      *)
EXTENDS WwanControl, TLC

CONSTANTS wd, p1, p2

Interchangeable == Permutations({p1, p2})
============================================================================
