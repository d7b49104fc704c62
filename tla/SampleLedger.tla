---------------------------- MODULE SampleLedger ----------------------------
(***************************************************************************)
(* What the sampling engine promises about its samples, whatever its tasks *)
(* and queues: every sample is accounted for once.  It is pending, or part *)
(* of the one window it was reported in, or lost; what was reported or     *)
(* lost stays so.                                                          *)
(***************************************************************************)
EXTENDS Naturals

VARIABLES
    taken,      \* number of samples taken so far: samples are 1..taken
    pending,    \* samples on their way to a window, or in an open one
    reported,   \* samples in a published window
    lost        \* samples given up

vars == <<taken, pending, reported, lost>>

Init ==
    /\ taken = 0
    /\ pending = {} /\ reported = {} /\ lost = {}

\* A sensor is read; the sample may be lost at once.
Take ==
    /\ taken' = taken + 1
    /\ \/ pending' = pending \cup {taken'} /\ UNCHANGED lost
       \/ lost' = lost \cup {taken'} /\ UNCHANGED pending
    /\ UNCHANGED reported

\* Windows close: pending samples are reported or lost, none is both.
Settle ==
    /\ pending' \subseteq pending
    /\ \E closed \in SUBSET (pending \ pending') :
          /\ reported' = reported \cup closed
          /\ lost' = lost \cup ((pending \ pending') \ closed)
    /\ UNCHANGED taken

Next == Take \/ Settle

Spec == Init /\ [][Next]_vars

\* No sample is forgotten or counted twice.
Accounted ==
    /\ pending \cup reported \cup lost = 1..taken
    /\ pending \cap reported = {} /\ pending \cap lost = {} /\ reported \cap lost = {}
=============================================================================
