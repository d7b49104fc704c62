------------------------ MODULE SampleLedger_proofs ------------------------
(* No sample is forgotten or counted twice: what the refinements of the     *)
(* sampling engine, the SD logger and the MQTT bridge inherit.              *)
EXTENDS SampleLedger, TLAPS

\* The counter is a number and every sample is in exactly one of the three sets.
LedgerInv == taken \in Nat /\ Accounted

LEMMA InitLedger == Init => LedgerInv
BY DEF Init, LedgerInv, Accounted

LEMMA TakeLedger == LedgerInv /\ Take => LedgerInv'
<1> SUFFICES ASSUME LedgerInv, Take PROVE LedgerInv'
  OBVIOUS
<1> USE DEF LedgerInv, Accounted, Take
<1>1. taken' \in Nat /\ 1..taken' = (1..taken) \cup {taken'} /\ taken' \notin 1..taken
  OBVIOUS
<1>2. CASE pending' = pending \cup {taken'} /\ UNCHANGED lost
  BY <1>1, <1>2
<1>3. CASE lost' = lost \cup {taken'} /\ UNCHANGED pending
  BY <1>1, <1>3
<1>4. QED  BY <1>2, <1>3

LEMMA SettleLedger == LedgerInv /\ Settle => LedgerInv'
<1> SUFFICES ASSUME LedgerInv, Settle PROVE LedgerInv'
  OBVIOUS
<1>1. PICK closed \in SUBSET (pending \ pending') :
         /\ reported' = reported \cup closed
         /\ lost' = lost \cup ((pending \ pending') \ closed)
  BY DEF Settle
<1>2. pending' \subseteq pending /\ taken' = taken
  BY DEF Settle
<1>3. QED  BY <1>1, <1>2 DEF LedgerInv, Accounted

\* Every sample taken is pending, reported or lost, and never two of these.
THEOREM NothingForgotten == Spec => []Accounted
<1>1. LedgerInv /\ [Next]_vars => LedgerInv'
  <2> SUFFICES ASSUME LedgerInv, [Next]_vars PROVE LedgerInv'
    OBVIOUS
  <2>1. CASE Take    BY <2>1, TakeLedger
  <2>2. CASE Settle  BY <2>2, SettleLedger
  <2>3. CASE UNCHANGED vars
    BY <2>3 DEF vars, LedgerInv, Accounted
  <2>4. QED  BY <2>1, <2>2, <2>3 DEF Next
<1>2. LedgerInv => Accounted
  BY DEF LedgerInv
<1>3. QED  BY <1>1, <1>2, InitLedger, PTL DEF Spec
=============================================================================
