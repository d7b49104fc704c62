---------------------------- MODULE MC_SdLogger ----------------------------
(* Small instances of SdLogger: two variables that share a log interval or   *)
(* not, three results, one or two edits.                                     *)
EXTENDS SdLogger

CONSTANTS a, b

TwoTogether == [id \in {1, 2} |-> [enabled |-> TRUE, log |-> 1, cols |-> a]]
=============================================================================
