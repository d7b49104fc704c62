------------------------ MODULE GnssPosition_proofs ------------------------
(* Proofs about GnssPosition: the type of its variables, that LTE comes back  *)
(* after every fix, and that the statistics handed on are those of the fixes  *)
(* of their window, whatever the modem and the network do and for any number  *)
(* of fixes, refused commands and edits.                                      *)
EXTENDS GnssPosition, TLAPS, FiniteSetTheorems, WellFoundedInduction

(* Where a call of acquire_gnss_fix is in its dealings with LTE.  LTE is off for *)
(* it only after it saw the device registered, and until it has tried to switch *)
(* LTE on again; before the modem was initialised nothing is asked of it.       *)
LteFollowsCall ==
    /\ fix_call.pc # "idle" => s_gnss_busy
    /\ fix_call.pc = "suspend" => fix_call.was_registered
    /\ fix_call.result = "ok" => s_last_fix.ready
    /\ ~Running => requests = 0 /\ fix_call.pc = "idle" /\ task = "none"
    /\ Running /\ opstate = "no_rf" =>
          \/ restart_failed
          \/ fix_call.pc \in {"request", "await", "resume"} /\ fix_call.was_registered

IInv == TypeOK /\ LteFollowsCall

FixCall == [pc : {"idle", "suspend", "request", "await", "resume", "done"},
            was_registered : BOOLEAN, result : {"none", "ok", "failed", "timeout"}]

LEMMA Bounds ==
  /\ FixValues \subseteq Int /\ MaxPending \in Nat \ {0} /\ MaxFixes \in Nat /\ MaxRefusals \in Nat
  /\ PositionSettings \subseteq [enabled : BOOLEAN, log : Nat] /\ MaxEdits \in Nat
BY CellularAssumption, PositionAssumption

LEMMA EventFields ==
  /\ NoFix \in Events /\ ~NoFix.ready
  /\ \A e \in Events : /\ e.ready \in BOOLEAN
                       /\ e.ready => e.value \in FixValues
<1>1. NoFix \in Events /\ ~NoFix.ready /\ NoFix.ready \in BOOLEAN
  BY DEF Events, NoFix
<1>2. \A e \in [ready : {TRUE}, value : FixValues] : e.ready \in BOOLEAN /\ e.value \in FixValues
  OBVIOUS
<1> QED BY <1>1, <1>2 DEF Events

LEMMA InitInv == Init => IInv
<1> SUFFICES ASSUME Init PROVE IInv
  OBVIOUS
<1>1. TypeOK
  <2>1. /\ 0 \in 0 .. MaxPending /\ 0 \in 0 .. MaxFixes /\ 0 \in 0 .. MaxRefusals
        /\ 0 \in 0 .. MaxEdits
    BY Bounds
  <2>2. NoCall \in FixCall /\ <<>> \in Seq(FixValues) /\ NoFix \in Events
    BY EventFields DEF NoCall, FixCall
  <2> QED BY <2>1, <2>2 DEF Init, CellularInit, FixCall, TypeOK
<1>2. LteFollowsCall
  BY DEF Init, CellularInit, NoCall, LteFollowsCall, Running
<1> QED BY <1>1, <1>2 DEF IInv

LEMMA RefusedType == IInv /\ (Refused \/ Accepted) => refusals' \in 0 .. MaxRefusals
BY Bounds DEF IInv, TypeOK, Refused, Accepted

(* The modem and the network. *)
LEMMA OutsideKeeps ==
  ASSUME IInv, Cellular,
         NetworkChanges \/ gnss_event_handler \/ cellular_task(settings.enabled)
  PROVE  IInv'
<1>1. CASE NetworkChanges
  BY <1>1 DEF NetworkChanges, Cellular, gnss_vars, IInv, TypeOK, LteFollowsCall, Running
<1>2. CASE gnss_event_handler
  <2> PICK e \in Events : /\ e.ready => fixes < MaxFixes
                          /\ fixes' = IF e.ready THEN fixes + 1 ELSE fixes
                          /\ s_pending_walter_fix' = e
    BY <1>2 DEF gnss_event_handler
  <2>1. requests' \in 0 .. MaxPending /\ fixes' \in 0 .. MaxFixes
    BY <1>2, Bounds DEF gnss_event_handler, IInv, TypeOK
  <2>2. TypeOK'
    BY <1>2, <2>1 DEF gnss_event_handler, Cellular, gnss_vars, IInv, TypeOK
  <2>3. LteFollowsCall'
    BY <1>2 DEF gnss_event_handler, Cellular, gnss_vars, IInv, TypeOK, LteFollowsCall, Running
  <2> QED BY <2>2, <2>3 DEF IInv
<1>3. CASE cellular_task(settings.enabled)
  <2>1. synced' \in BOOLEAN
    BY <1>3 DEF cellular_task, time_sync_set_from_epoch, IInv, TypeOK
  <2> QED BY <1>3, <2>1 DEF cellular_task, modem_vars, Cellular, gnss_vars, IInv, TypeOK,
             LteFollowsCall, Running
<1> QED BY <1>1, <1>2, <1>3

(* The boot, edits, and time. *)
LEMMA AppMainKeeps ==
  ASSUME IInv, app_main
  PROVE  IInv'
<1>1. /\ s_gnss_fix_ready = "NULL" /\ opstate = "minimum"
      /\ opstate' \in {"minimum", "no_rf", "full"}
      /\ s_gnss_fix_ready' \in {"NULL", "empty"}
      /\ s_gnss_fix_ready' = "empty" => opstate' = "full"
      /\ s_pdp_active' \in BOOLEAN
      /\ refusals' \in 0 .. MaxRefusals
  <2>1. Refused \/ Accepted
    BY DEF app_main, cellular_transport_init, start_lte_connect
  <2>2. refusals' \in 0 .. MaxRefusals
    BY <2>1, RefusedType
  <2> QED BY <2>2 DEF app_main, cellular_transport_init, start_lte_connect, IInv, TypeOK
<1>2. UNCHANGED <<attached, requests, fixes, s_registered, s_gnss_busy, s_pending_walter_fix,
                  s_last_fix, synced, fix_call, restart_failed,
                  settings, edits, pos, agg, window_has_data, log_due_in, accepted, record>>
  BY DEF app_main, cellular_transport_init
<1>3. /\ booted' \in BOOLEAN
      /\ task' = IF s_gnss_fix_ready' = "NULL" THEN "none" ELSE "loop"
  BY DEF app_main
<1>4. TypeOK'
  BY <1>1, <1>2, <1>3 DEF IInv, TypeOK
<1>5. LteFollowsCall'
  BY <1>1, <1>2, <1>3 DEF IInv, TypeOK, LteFollowsCall, Running
<1> QED BY <1>4, <1>5 DEF IInv

LEMMA EditAndTickKeep ==
  ASSUME IInv, EditPosition \/ Tick
  PROVE  IInv'
<1>1. CASE EditPosition
  BY <1>1, Bounds DEF EditPosition, cell_vars, modem_vars, IInv, TypeOK, LteFollowsCall, Running
<1>2. CASE Tick
  BY <1>2 DEF Tick, cell_vars, modem_vars, IInv, TypeOK, LteFollowsCall, Running
<1> QED BY <1>1, <1>2

-----------------------------------------------------------------------------
(* The position task *)

LEMMA CallFields ==
  ASSUME TypeOK
  PROVE  /\ fix_call \in FixCall
         /\ accepted \in Seq(FixValues)
         /\ s_last_fix \in Events /\ s_pending_walter_fix \in Events
BY DEF TypeOK, FixCall

LEMMA LoopBeginsKeeps ==
  ASSUME IInv, LoopBegins
  PROVE  IInv'
<1>1. /\ pos' = settings /\ settings \in PositionSettings
      /\ UNCHANGED <<booted, settings, edits>> /\ task = "loop"
  BY DEF LoopBegins, IInv, TypeOK
<1>2. CASE Off(settings)
  <2>1. /\ UNCHANGED <<cell_vars, task>> /\ window_has_data' = FALSE /\ log_due_in' = 0
        /\ accepted' = <<>>
    BY <1>2 DEF LoopBegins
  <2>2. <<>> \in Seq(FixValues)
    OBVIOUS
  <2>3. TypeOK'
    <3>1. /\ accepted' \in Seq(FixValues) /\ window_has_data' \in BOOLEAN /\ log_due_in' \in Nat
          /\ pos' \in PositionSettings
      BY <1>1, <2>1, <2>2
    <3>2. UNCHANGED <<opstate, attached, requests, fixes, refusals, s_registered, s_pdp_active,
                      s_gnss_busy, s_gnss_fix_ready, s_pending_walter_fix, s_last_fix, synced,
                      fix_call, restart_failed, task>>
      BY <2>1 DEF cell_vars, modem_vars
    <3> QED BY <1>1, <3>1, <3>2 DEF IInv, TypeOK
  <2>4. LteFollowsCall'
    BY <1>1, <2>1 DEF cell_vars, modem_vars, IInv, LteFollowsCall, Running
  <2> QED BY <2>3, <2>4 DEF IInv
<1>3. CASE ~Off(settings)
  <2>1. /\ AcquireBegins /\ task' = "acquire"
        /\ UNCHANGED <<window_has_data, log_due_in, accepted>>
    BY <1>3 DEF LoopBegins
  <2>2. fix_call' \in FixCall /\ s_gnss_busy' = TRUE
    BY <2>1 DEF AcquireBegins, FixCall, IInv, TypeOK
  <2>3. TypeOK'
    BY <1>1, <2>1, <2>2 DEF AcquireBegins, modem_vars, IInv, TypeOK, FixCall
  <2>4. LteFollowsCall'
    BY <2>1 DEF AcquireBegins, modem_vars, IInv, LteFollowsCall, Running
  <2> QED BY <2>3, <2>4 DEF IInv
<1> QED BY <1>2, <1>3

(* The steps of acquire_gnss_fix, by the fields of the call that they change. *)
LEMMA SuspendKeeps ==
  ASSUME IInv, SuspendLte, UNCHANGED gnss_vars
  PROVE  IInv'
<1>1. /\ fix_call.pc = "suspend" /\ fix_call' = [fix_call EXCEPT !.pc = "request"]
      /\ opstate' \in {opstate, "no_rf"}
      /\ UNCHANGED <<attached, requests, fixes, s_registered, s_pdp_active, s_gnss_busy,
                     s_gnss_fix_ready, s_pending_walter_fix, s_last_fix, synced, restart_failed>>
  BY DEF SuspendLte
<1>2. refusals' \in 0 .. MaxRefusals
  BY RefusedType DEF SuspendLte
<1>3. /\ fix_call' \in FixCall /\ fix_call'.pc = "request"
      /\ fix_call'.was_registered = fix_call.was_registered /\ fix_call'.result = fix_call.result
  BY <1>1, CallFields DEF FixCall, IInv
<1>4. TypeOK'
  BY <1>1, <1>2, <1>3 DEF gnss_vars, IInv, TypeOK, FixCall
<1>5. LteFollowsCall'
  BY <1>1, <1>3 DEF gnss_vars, IInv, LteFollowsCall, Running
<1> QED BY <1>4, <1>5 DEF IInv

LEMMA RequestKeeps ==
  ASSUME IInv, RequestFix, UNCHANGED gnss_vars
  PROVE  IInv'
<1>1. /\ fix_call.pc = "request" /\ s_gnss_fix_ready' = "empty" /\ Running
      /\ UNCHANGED <<opstate, attached, fixes, s_registered, s_pdp_active, s_gnss_busy,
                     s_pending_walter_fix, s_last_fix, synced, restart_failed>>
  BY DEF RequestFix, IInv, LteFollowsCall
<1>2. refusals' \in 0 .. MaxRefusals /\ requests' \in 0 .. MaxPending
  BY RefusedType, Bounds DEF RequestFix, IInv, TypeOK
<1>3. /\ fix_call' \in FixCall /\ fix_call'.pc \in {"await", "resume"}
      /\ fix_call'.was_registered = fix_call.was_registered
      /\ fix_call'.result = "ok" => fix_call.result = "ok"
  BY CallFields DEF RequestFix, FixCall, IInv
<1>4. TypeOK'
  BY <1>1, <1>2, <1>3 DEF gnss_vars, IInv, TypeOK, FixCall
<1>5. LteFollowsCall'
  BY <1>1, <1>3 DEF gnss_vars, IInv, LteFollowsCall, Running
<1> QED BY <1>4, <1>5 DEF IInv

LEMMA AwaitKeeps ==
  ASSUME IInv, FixSignalled \/ FixTimesOut, UNCHANGED gnss_vars
  PROVE  IInv'
<1>1. /\ fix_call.pc = "await" /\ s_gnss_fix_ready' = "empty" /\ Running
      /\ UNCHANGED <<modem_vars, s_registered, s_pdp_active, s_gnss_busy, s_pending_walter_fix,
                     synced, restart_failed>>
  BY DEF FixSignalled, FixTimesOut, IInv, LteFollowsCall
<1>2. /\ fix_call' \in FixCall /\ fix_call'.pc = "resume"
      /\ fix_call'.was_registered = fix_call.was_registered
      /\ s_last_fix' \in Events
      /\ fix_call'.result = "ok" => s_last_fix'.ready
  BY CallFields DEF FixSignalled, FixTimesOut, FixCall, IInv
<1>3. TypeOK'
  BY <1>1, <1>2 DEF gnss_vars, modem_vars, IInv, TypeOK, FixCall
<1>4. LteFollowsCall'
  BY <1>1, <1>2 DEF gnss_vars, modem_vars, IInv, LteFollowsCall, Running
<1> QED BY <1>3, <1>4 DEF IInv

LEMMA ResumeKeeps ==
  ASSUME IInv, ResumeLte, UNCHANGED gnss_vars
  PROVE  IInv'
<1>1. /\ fix_call.pc = "resume"
      /\ UNCHANGED <<attached, requests, fixes, s_registered, s_pdp_active, s_gnss_busy,
                     s_gnss_fix_ready, s_pending_walter_fix, s_last_fix, synced>>
  BY DEF ResumeLte
<1>2. /\ fix_call' \in FixCall /\ fix_call'.pc = "done"
      /\ fix_call'.result = fix_call.result
  BY CallFields DEF ResumeLte, FixCall, IInv
<1>3. CASE fix_call.was_registered
  <2> PICK on \in BOOLEAN : start_lte_connect(on) /\ restart_failed' = ~on
    BY <1>3 DEF ResumeLte
  <2>1. /\ refusals' \in 0 .. MaxRefusals
        /\ opstate' \in {opstate, "full"} /\ restart_failed' \in BOOLEAN
        /\ opstate' = "no_rf" => restart_failed'
    BY RefusedType DEF start_lte_connect
  <2>2. TypeOK'
    BY <1>1, <1>2, <2>1 DEF gnss_vars, IInv, TypeOK, FixCall
  <2>3. LteFollowsCall'
    BY <1>1, <1>2, <2>1 DEF gnss_vars, IInv, LteFollowsCall, Running
  <2> QED BY <2>2, <2>3 DEF IInv
<1>4. CASE ~fix_call.was_registered
  <2>1. UNCHANGED <<opstate, refusals, restart_failed>>
    BY <1>4 DEF ResumeLte
  <2>2. TypeOK'
    BY <1>1, <1>2, <2>1 DEF gnss_vars, IInv, TypeOK, FixCall
  <2>3. LteFollowsCall'
    BY <1>1, <1>2, <1>4, <2>1 DEF gnss_vars, IInv, LteFollowsCall, Running
  <2> QED BY <2>2, <2>3 DEF IInv
<1> QED BY <1>3, <1>4

LEMMA LoopEndsKeeps ==
  ASSUME IInv, LoopEnds
  PROVE  IInv'
<1> DEFINE ok == fix_call.result = "ok"
           all == IF ok THEN Append(accepted, s_last_fix.value) ELSE accepted
<1>1. /\ fix_call.pc = "done" /\ task = "acquire" /\ task' = "loop"
      /\ fix_call' = NoCall /\ s_gnss_busy' = FALSE
      /\ UNCHANGED <<modem_vars, s_registered, s_pdp_active, s_gnss_fix_ready,
                     s_pending_walter_fix, s_last_fix, restart_failed,
                     booted, settings, edits, pos>>
  BY DEF LoopEnds
<1>2. synced' \in BOOLEAN
  BY DEF LoopEnds, time_sync_set_from_epoch, IInv, TypeOK
<1>3. all \in Seq(FixValues) /\ accepted' \in {all, <<>>}
  <2>1. ok => s_last_fix.value \in FixValues
    BY CallFields, EventFields DEF IInv, LteFollowsCall
  <2>2. all \in Seq(FixValues)
    BY <2>1, CallFields DEF IInv
  <2> QED BY <2>2 DEF LoopEnds
<1>4. window_has_data' \in BOOLEAN /\ log_due_in' \in Nat
  <2>1. pos.log \in Nat /\ log_due_in \in Nat /\ window_has_data \in BOOLEAN
    BY Bounds DEF IInv, TypeOK
  <2> QED BY <2>1 DEF LoopEnds
<1>5. NoCall \in FixCall /\ NoCall.pc = "idle" /\ NoCall.result # "ok"
  BY DEF NoCall, FixCall
<1>6. accepted' \in Seq(FixValues)
  <2>1. <<>> \in Seq(FixValues)
    OBVIOUS
  <2> QED BY <1>3, <2>1, Zenon
<1>7. TypeOK'
  <2>1. UNCHANGED <<opstate, attached, requests, fixes, refusals, s_registered, s_pdp_active>>
    BY <1>1 DEF modem_vars
  <2>2. task' \in {"none", "loop", "acquire"} /\ s_gnss_busy' \in BOOLEAN /\ fix_call' \in FixCall
    BY <1>1, <1>5
  <2>3. TypeOK
    BY DEF IInv
  <2> QED BY <1>1, <1>2, <1>4, <1>6, <2>1, <2>2, <2>3 DEF TypeOK, FixCall
<1>8. LteFollowsCall'
  BY <1>1, <1>5 DEF modem_vars, IInv, LteFollowsCall, Running
<1> QED BY <1>7, <1>8 DEF IInv

LEMMA NextKeeps == IInv /\ [Next]_vars => IInv'
<1> SUFFICES ASSUME IInv, [Next]_vars PROVE IInv'
  OBVIOUS
<1>1. CASE UNCHANGED vars
  BY <1>1 DEF vars, cell_vars, modem_vars, gnss_vars, IInv, TypeOK, LteFollowsCall, Running
<1>2. CASE Acquire
  BY <1>2, SuspendKeeps, RequestKeeps, AwaitKeeps, ResumeKeeps DEF Acquire, AcquireStep
<1> QED BY <1>1, <1>2, AppMainKeeps, EditAndTickKeep, LoopBeginsKeeps, LoopEndsKeeps, OutsideKeeps
        DEF Next

(* Every variable keeps its type. *)
THEOREM TypeCorrect == Spec => []TypeOK
<1>1. IInv => TypeOK
  BY DEF IInv
<1> QED BY <1>1, InitInv, NextKeeps, PTL DEF Spec

(* LTE is off only while a fix is under way or because the modem refused to  *)
(* switch it on again after one, although cellular_task forgets the           *)
(* registration meanwhile.                                                    *)
THEOREM LteComesBack == Spec => []LteOffOnlyForFix
<1>1. IInv => LteOffOnlyForFix
  BY DEF IInv, LteFollowsCall, LteOffOnlyForFix
<1> QED BY <1>1, InitInv, NextKeeps, PTL DEF Spec

-----------------------------------------------------------------------------
(* Welford's method computes the statistics of the samples *)

LEMMA LeastNumber ==
  ASSUME NEW T \in SUBSET Nat, T # {}
  PROVE  \E x \in T : \A y \in T : x <= y
<1>1. PICK x \in T : \A y \in T : ~ (<<y, x>> \in OpToRel(<, Nat))
  BY NatLessThanWellFounded, WFMin
<1>2. \A y \in T : y < x => <<y, x>> \in OpToRel(<, Nat)
  BY DEF OpToRel
<1>3. \A y \in T : ~ (y < x)
  BY <1>1, <1>2, Zenon
<1> QED BY <1>3

(* A list of partial sums of a sequence exists, and two of them agree: the first number at    *)
(* which they would not is not the first.                                                      *)
Sums(n, s, g) == g = [i \in 0..n |-> IF i = 0 THEN 0 ELSE g[i - 1] + s[i]]

Agree(n, s, r) == \A i \in 1..n : s[i] = r[i]

LEMMA SumsExist ==
  ASSUME NEW s \in Seq(Int)
  PROVE  \E g \in [0..Len(s) -> Int] : Sums(Len(s), s, g)
<1> DEFINE Has(n) == \E g \in [0..n -> Int] : Sums(n, s, g)
           T == {n \in 0..Len(s) : ~Has(n)}
<1>1. Has(0)
  <2> DEFINE g == [i \in 0..0 |-> 0]
  <2>1. g \in [0..0 -> Int] /\ g = [i \in 0..0 |-> IF i = 0 THEN 0 ELSE g[i - 1] + s[i]]
    OBVIOUS
  <2> QED BY <2>1 DEF Sums
<1>2. ASSUME NEW n \in Nat, n + 1 \in 0..Len(s), Has(n) PROVE Has(n + 1)
  <2> PICK g \in [0..n -> Int] : Sums(n, s, g)
    BY <1>2
  <2>1. \A i \in 0..n : g[i] = IF i = 0 THEN 0 ELSE g[i - 1] + s[i]
    BY DEF Sums
  <2> DEFINE h == [i \in 0..(n + 1) |-> IF i = n + 1 THEN g[n] + s[n + 1] ELSE g[i]]
  <2>2. n + 1 \in 1..Len(s) /\ s[n + 1] \in Int /\ g[n] \in Int
    BY <1>2
  <2>3. h \in [0..(n + 1) -> Int]
    BY <2>2
  <2>4. \A i \in 0..(n + 1) : h[i] = IF i = 0 THEN 0 ELSE h[i - 1] + s[i]
    <3> TAKE i \in 0..(n + 1)
    <3>1. CASE i = n + 1
      BY <3>1
    <3>2. CASE i \in 0..n
      <4>1. h[i] = g[i] /\ (i # 0 => i - 1 \in 0..n /\ h[i - 1] = g[i - 1])
        BY <3>2
      <4> QED BY <2>1, <3>2, <4>1
    <3> QED BY <3>1, <3>2
  <2>5. Sums(n + 1, s, h)
    BY <2>3, <2>4 DEF Sums
  <2> QED BY <2>3, <2>5
<1> HIDE DEF Has
<1>3. SUFFICES T = {}
  <2>1. Len(s) \in 0..Len(s)
    OBVIOUS
  <2>2. T = {} => Has(Len(s))
    BY <2>1
  <2> QED BY <2>2 DEF Has
<1>4. SUFFICES ASSUME T # {} PROVE FALSE
  OBVIOUS
<1>5. PICK x \in T : \A y \in T : x <= y
  <2>1. T \in SUBSET Nat
    OBVIOUS
  <2> QED BY <1>4, <2>1, LeastNumber
<1>6. x \in 0..Len(s) /\ ~Has(x)
  OBVIOUS
<1>7. x # 0
  BY <1>1, <1>6
<1>8. x - 1 \in Nat /\ x - 1 \in 0..Len(s) /\ x - 1 < x /\ (x - 1) + 1 = x
  BY <1>6, <1>7
<1>9. Has(x - 1)
  BY <1>5, <1>8
<1>10. Has((x - 1) + 1)
  BY <1>2, <1>6, <1>8, <1>9
<1> QED BY <1>6, <1>8, <1>10

LEMMA SumsAgree ==
  ASSUME NEW m \in Nat, NEW n \in Nat, m <= n, NEW s, NEW r, NEW g, NEW h,
         Sums(m, s, g), Sums(n, r, h), Agree(m, s, r)
  PROVE  g[m] = h[m]
<1> DEFINE T == {i \in 0..m : g[i] # h[i]}
<1>1. /\ \A i \in 0..m : g[i] = IF i = 0 THEN 0 ELSE g[i - 1] + s[i]
      /\ \A i \in 0..m : h[i] = IF i = 0 THEN 0 ELSE h[i - 1] + r[i]
  <2>1. \A i \in 0..m : i \in 0..n
    OBVIOUS
  <2>2. \A i \in 0..m : g[i] = IF i = 0 THEN 0 ELSE g[i - 1] + s[i]
    BY DEF Sums
  <2>3. \A i \in 0..n : h[i] = IF i = 0 THEN 0 ELSE h[i - 1] + r[i]
    BY DEF Sums
  <2> QED BY <2>1, <2>2, <2>3
<1>2. SUFFICES ASSUME T # {} PROVE FALSE
  OBVIOUS
<1>3. PICK x \in T : \A y \in T : x <= y
  <2>1. T \in SUBSET Nat
    OBVIOUS
  <2> QED BY <1>2, <2>1, LeastNumber
<1>4. x \in 0..m /\ g[x] # h[x]
  OBVIOUS
<1>5. x # 0
  BY <1>1, <1>4
<1>6. x - 1 \in 0..m /\ x - 1 < x /\ x \in 1..m
  BY <1>4, <1>5
<1>7. g[x - 1] = h[x - 1]
  BY <1>3, <1>6
<1>8. g[x] = g[x - 1] + s[x] /\ h[x] = h[x - 1] + r[x] /\ s[x] = r[x]
  BY <1>1, <1>4, <1>5, <1>6 DEF Agree
<1> QED BY <1>4, <1>7, <1>8

LEMMA SumOfIs ==
  ASSUME NEW s \in Seq(Int)
  PROVE  \E g \in [0..Len(s) -> Int] : Sums(Len(s), s, g) /\ SumOf(s) = g[Len(s)]
<1> DEFINE sum == CHOOSE g : Sums(Len(s), s, g)
<1>1. PICK f \in [0..Len(s) -> Int] : Sums(Len(s), s, f)
  BY SumsExist
<1>2. Sums(Len(s), s, sum)
  BY <1>1, Zenon
<1>3. SumOf(s) = sum[Len(s)]
  BY Zenon DEF SumOf, Sums
<1> HIDE DEF sum
<1>4. sum[Len(s)] = f[Len(s)]
  <2>1. Len(s) \in Nat /\ Len(s) <= Len(s)
    OBVIOUS
  <2>2. Agree(Len(s), s, s)
    BY DEF Agree
  <2> QED BY <1>1, <1>2, <2>1, <2>2, SumsAgree
<1> QED BY <1>1, <1>3, <1>4

LEMMA SumOfType ==
  ASSUME NEW s \in Seq(Int)
  PROVE  SumOf(s) \in Int
<1>1. PICK g \in [0..Len(s) -> Int] : SumOf(s) = g[Len(s)]
  BY SumOfIs
<1>2. Len(s) \in 0..Len(s)
  OBVIOUS
<1> QED BY <1>1, <1>2

LEMMA SumOfEmpty == SumOf(<<>>) = 0
<1>1. <<>> \in Seq(Int) /\ Len(<<>>) = 0
  OBVIOUS
<1>2. PICK g \in [0..0 -> Int] : Sums(0, <<>>, g) /\ SumOf(<<>>) = g[0]
  BY <1>1, SumOfIs
<1> QED BY <1>2 DEF Sums

LEMMA SumOfAppend ==
  ASSUME NEW s \in Seq(Int), NEW x \in Int
  PROVE  SumOf(Append(s, x)) = SumOf(s) + x
<1> DEFINE r == Append(s, x)
           n == Len(s)
<1>1. r \in Seq(Int) /\ n \in Nat /\ Len(r) = n + 1 /\ r[n + 1] = x /\ \A i \in 1..n : s[i] = r[i]
  OBVIOUS
<1> HIDE DEF r
<1>2. PICK g \in [0..n -> Int] : Sums(n, s, g) /\ SumOf(s) = g[n]
  BY SumOfIs
<1>3. PICK h \in [0..(n + 1) -> Int] : Sums(n + 1, r, h) /\ SumOf(r) = h[n + 1]
  BY <1>1, SumOfIs
<1>4. g[n] = h[n]
  <2> DEFINE k == n + 1
  <2>1. n \in Nat /\ k \in Nat /\ n <= k
    BY <1>1
  <2>2. Sums(n, s, g) /\ Sums(k, r, h) /\ Agree(n, s, r)
    BY <1>1, <1>2, <1>3 DEF Agree
  <2> HIDE DEF k, n
  <2>3. \A s1, r1, g1, h1 : Sums(n, s1, g1) /\ Sums(k, r1, h1) /\ Agree(n, s1, r1) => g1[n] = h1[n]
    BY <2>1, SumsAgree
  <2> QED BY <2>2, <2>3
<1>5. \A i \in 0..(n + 1) : h[i] = IF i = 0 THEN 0 ELSE h[i - 1] + r[i]
  BY <1>3 DEF Sums
<1>6. h[n + 1] = h[n] + r[n + 1]
  <2>1. n + 1 \in 0..(n + 1) /\ n + 1 # 0 /\ (n + 1) - 1 = n
    BY <1>1
  <2>2. h[n + 1] = h[(n + 1) - 1] + r[n + 1]
    BY <1>5, <2>1
  <2> QED BY <2>1, <2>2
<1>7. SumOf(r) = SumOf(s) + x
  BY <1>1, <1>2, <1>3, <1>4, <1>6
<1> QED BY <1>7 DEF r

LEMMA ListsAreSequences ==
  ASSUME NEW n \in Nat, NEW f \in [1..n -> Int]
  PROVE  f \in Seq(Int)
OBVIOUS

LEMMA SquaresAppend ==
  ASSUME NEW s \in Seq(Int), NEW x \in Int
  PROVE  /\ SumOfSquares(s) \in Int
         /\ SumOfSquares(Append(s, x)) = SumOfSquares(s) + x * x
<1> DEFINE Sq(r) == [i \in 1..Len(r) |-> r[i] * r[i]]
<1>1. \A r \in Seq(Int) : Sq(r) \in Seq(Int)
  <2> TAKE r \in Seq(Int)
  <2>1. \A i \in 1..Len(r) : r[i] * r[i] \in Int
    <3> TAKE i \in 1..Len(r)
    <3>1. r[i] \in Int
      OBVIOUS
    <3> QED BY <3>1
  <2>2. Len(r) \in Nat
    OBVIOUS
  <2> HIDE DEF Sq
  <2> DEFINE f == Sq(r)
  <2>3. f \in [1..Len(r) -> Int]
    BY <2>1 DEF Sq
  <2> HIDE DEF f
  <2>4. f \in Seq(Int)
    BY <2>2, <2>3, ListsAreSequences
  <2> QED BY <2>4 DEF f
<1>2. Sq(Append(s, x)) = Append(Sq(s), x * x)
  <2> DEFINE n == Len(s)
             r == Append(s, x)
             y == x * x
             p == Sq(s)
             q == Sq(r)
  <2>1. n \in Nat /\ r \in Seq(Int) /\ Len(r) = n + 1 /\ r[n + 1] = x /\ \A i \in 1..n : r[i] = s[i]
    OBVIOUS
  <2>2. /\ p \in Seq(Int) /\ Len(p) = n /\ \A i \in 1..n : p[i] = s[i] * s[i]
    BY <1>1, <2>1
  <2>3. /\ q \in Seq(Int) /\ Len(q) = n + 1
        /\ q[n + 1] = y /\ \A i \in 1..n : q[i] = p[i]
    <3> HIDE DEF r
    <3>1. q \in Seq(Int)
      BY <1>1, <2>1
    <3>2. Len(q) = n + 1
      BY <2>1
    <3>3. \A i \in 1..(n + 1) : q[i] = r[i] * r[i]
      BY <2>1
    <3>4. n + 1 \in 1..(n + 1) /\ \A i \in 1..n : i \in 1..(n + 1)
      BY <2>1
    <3>5. q[n + 1] = y
      BY <2>1, <3>3, <3>4
    <3>6. \A i \in 1..n : q[i] = p[i]
      BY <2>1, <2>2, <3>3, <3>4
    <3> QED BY <3>1, <3>2, <3>5, <3>6
  <2>4. y \in Int
    OBVIOUS
  <2> HIDE DEF p, q, y, n
  <2>5. q = Append(p, y)
    BY <2>1, <2>2, <2>3, <2>4
  <2> QED BY <2>5 DEF p, q, y
<1>3. SumOfSquares(s) = SumOf(Sq(s)) /\ SumOfSquares(Append(s, x)) = SumOf(Sq(Append(s, x)))
  BY DEF SumOfSquares
<1>4. x * x \in Int
  OBVIOUS
<1> HIDE DEF Sq
<1> QED BY <1>1, <1>2, <1>3, <1>4, SumOfType, SumOfAppend

LEMMA SquaresEmpty == SumOfSquares(<<>>) = 0
<1>1. [i \in 1..Len(<<>>) |-> <<>>[i] * <<>>[i]] = <<>>
  OBVIOUS
<1> QED BY <1>1, SumOfEmpty DEF SumOfSquares

(* The accumulator a holds the statistics of the samples s.  m2 is the sum of the squares less *)
(* the square of the mean as often as there are samples.                                       *)
Accumulates(a, s) ==
    /\ a.count = Len(s) /\ a.has_data = (s # <<>>)
    /\ a.mean \in Int /\ a.m2 \in Int
    /\ a.mean * Len(s) = SumOf(s)
    /\ a.m2 = SumOfSquares(s) - Len(s) * (a.mean * a.mean)
    /\ s # <<>> => /\ a.min \in ToSet(s) /\ \A x \in ToSet(s) : a.min <= x
                   /\ a.max \in ToSet(s) /\ \A x \in ToSet(s) : a.max >= x
                   /\ a.last_raw = Last(s)

LEMMA ResetAccumulates == Accumulates(aggregator_reset, <<>>)
<1>1. Len(<<>>) = 0
  OBVIOUS
<1>2. /\ aggregator_reset.count = 0 /\ aggregator_reset.has_data = FALSE
      /\ aggregator_reset.mean = 0 /\ aggregator_reset.m2 = 0
  BY DEF aggregator_reset
<1>3. /\ 0 * 0 = SumOf(<<>>) /\ 0 \in Int
      /\ 0 = SumOfSquares(<<>>) - 0 * (0 * 0)
  BY SumOfEmpty, SquaresEmpty
<1> QED BY <1>1, <1>2, <1>3 DEF Accumulates

LEMMA MinIs ==
  ASSUME NEW T \in SUBSET Int, NEW x \in T, \A y \in T : x <= y
  PROVE  x = Min(T)
<1>1. Min(T) \in T /\ \A y \in T : Min(T) <= y
  BY DEF Min
<1>2. x <= Min(T) /\ Min(T) <= x /\ x \in Int /\ Min(T) \in Int
  BY <1>1
<1> QED BY <1>2

LEMMA MaxIs ==
  ASSUME NEW T \in SUBSET Int, NEW x \in T, \A y \in T : x >= y
  PROVE  x = Max(T)
<1>1. Max(T) \in T /\ \A y \in T : Max(T) >= y
  BY DEF Max
<1>2. x >= Max(T) /\ Max(T) >= x /\ x \in Int /\ Max(T) \in Int
  BY <1>1
<1> QED BY <1>2

LEMMA VarianceIdentity ==
  ASSUME NEW n \in Int, NEW m \in Int, NEW q \in Int
  PROVE  n * (n - 1) * (q - n * (m * m)) = (n - 1) * (n * q - (m * n) * (m * n))
OBVIOUS

LEMMA AccumulatesGives ==
  ASSUME NEW s \in Seq(Int), NEW a, Accumulates(a, s)
  PROVE  StatisticsOf(a, s)
<1> DEFINE n == Len(s)
           m == a.mean
           q == SumOfSquares(s)
<1>1. /\ a.count = n /\ m \in Int /\ m * n = SumOf(s)
      /\ a.m2 = q - n * (m * m)
  BY DEF Accumulates
<1>2. n \in Nat /\ q \in Int
  BY SquaresAppend, 0 \in Int
<1>3. n > 0 => a.min = Min(ToSet(s)) /\ a.max = Max(ToSet(s)) /\ a.last_raw = Last(s)
  <2> SUFFICES ASSUME n > 0 PROVE a.min = Min(ToSet(s)) /\ a.max = Max(ToSet(s)) /\ a.last_raw = Last(s)
    OBVIOUS
  <2>1. s # <<>>
    OBVIOUS
  <2>2. ToSet(s) \in SUBSET Int
    BY DEF ToSet
  <2> QED BY <2>1, <2>2, MinIs, MaxIs DEF Accumulates
<1> HIDE DEF n, m, q
<1>4. /\ n < 2 => aggregator_variance(a)[1] = 0
      /\ ~(n < 2) => aggregator_variance(a)[1] = a.m2 /\ aggregator_variance(a)[2] = n - 1
  BY <1>1 DEF aggregator_variance
<1>5. ~(n < 2) => n * (n - 1) * aggregator_variance(a)[1]
                    = aggregator_variance(a)[2] * (n * q - SumOf(s) * SumOf(s))
  BY <1>1, <1>2, <1>4, VarianceIdentity
<1>6. n > 0 => m * n = SumOf(s)
  BY <1>1
<1> QED BY <1>1, <1>3, <1>4, <1>5, <1>6 DEF StatisticsOf, n, m, q

LEMMA Quotient ==
  ASSUME NEW c \in Nat \ {0}, NEW d \in Int
  PROVE  (c * d) \div c = d
OBVIOUS

LEMMA MeanIdentity ==
  ASSUME NEW n \in Int, NEW m \in Int, NEW x \in Int, NEW t \in Int,
         m * n + x = (n + 1) * t
  PROVE  x - m = (n + 1) * (t - m)
OBVIOUS

LEMMA WelfordIdentity ==
  ASSUME NEW n \in Int, NEW m \in Int, NEW d \in Int, NEW x \in Int, NEW t \in Int,
         d = t - m, x - m = (n + 1) * d
  PROVE  (x - m) * (x - t) = x * x + n * (m * m) - (n + 1) * (t * t)
<1>1. x = m + (n + 1) * d /\ t = m + d
  OBVIOUS
<1>2. (x - m) * (x - t) = ((n + 1) * d) * (n * d)
  BY <1>1
<1>3. ((n + 1) * d) * (n * d) = n * (n + 1) * (d * d)
  OBVIOUS
<1>4. (m + (n+1)*d) * (m + (n+1)*d) - (n+1)*((m+d)*(m+d)) = n*(n+1)*(d*d) - n*(m*m)
  OBVIOUS
<1>5. x * x - (n + 1) * (t * t) = n*(n+1)*(d*d) - n*(m*m)
  BY <1>1, <1>4
<1>6. n*(n+1)*(d*d) \in Int /\ n*(m*m) \in Int /\ x*x \in Int /\ (n+1)*(t*t) \in Int
      /\ (x - m) * (x - t) \in Int
  OBVIOUS
<1> QED BY <1>2, <1>3, <1>5, <1>6

(* Another sample, when the count divides the new sum: what Welford's step computes is the new *)
(* mean and the new sum of squared distances.                                                  *)
LEMMA AddAccumulates ==
  ASSUME NEW s \in Seq(Int), NEW a, Accumulates(a, s), NEW x \in Int,
         NEW t \in Int, SumOf(s) + x = (Len(s) + 1) * t
  PROVE  Accumulates(aggregator_add_sample(a, x), Append(s, x))
<1> DEFINE n == Len(s)
           m == a.mean
           q == SumOfSquares(s)
           r == Append(s, x)
           new == aggregator_add_sample(a, x)
<1>1. /\ a.count = n /\ m \in Int /\ m * n = SumOf(s) /\ a.has_data = (s # <<>>)
      /\ a.m2 = q - n * (m * m) /\ a.m2 \in Int
  BY DEF Accumulates
<1>2. n \in Nat /\ q \in Int
  BY SquaresAppend, 0 \in Int
<1>3. /\ r \in Seq(Int) /\ Len(r) = n + 1 /\ r # <<>> /\ Last(r) = x
      /\ ToSet(r) = ToSet(s) \cup {x} /\ ToSet(s) \in SUBSET Int
  <2>1. r \in Seq(Int) /\ Len(r) = n + 1 /\ r # <<>> /\ r[n + 1] = x /\ \A i \in 1..n : r[i] = s[i]
    OBVIOUS
  <2>2. DOMAIN r = 1..(n + 1) /\ DOMAIN s = 1..n /\ \A i \in 1..n : s[i] \in Int
    OBVIOUS
  <2>3. Last(r) = x /\ ToSet(s) \in SUBSET Int
    BY <2>1, <2>2 DEF Last, ToSet
  <2> HIDE DEF r
  <2>4. ToSet(r) = ToSet(s) \cup {x}
    <3>1. 1..(n + 1) = 1..n \cup {n + 1}
      BY <1>2
    <3> QED BY <2>1, <2>2, <3>1 DEF ToSet
  <2> QED BY <2>1, <2>3, <2>4
<1>4. SumOf(r) = SumOf(s) + x /\ SumOfSquares(r) = q + x * x
  BY SumOfAppend, SquaresAppend
<1>5. s # <<>> => /\ a.min \in ToSet(s) /\ \A y \in ToSet(s) : a.min <= y
                  /\ a.max \in ToSet(s) /\ \A y \in ToSet(s) : a.max >= y
  BY DEF Accumulates
<1>6. s = <<>> => ToSet(s) = {}
  BY DEF ToSet
<1> HIDE DEF n, m, q, r
<1>7. x - m = (n + 1) * (t - m) /\ (x - m) \div (n + 1) = t - m
  <2>1. m * n + x = (n + 1) * t
    BY <1>1 DEF n
  <2>2. x - m = (n + 1) * (t - m)
    BY <1>1, <1>2, <2>1, MeanIdentity
  <2>3. n + 1 \in Nat \ {0} /\ t - m \in Int
    BY <1>1, <1>2
  <2> QED BY <2>2, <2>3, Quotient
<1>8. /\ new.count = n + 1 /\ new.mean = t /\ new.has_data = TRUE /\ new.last_raw = x
      /\ new.m2 = a.m2 + (x - m) * (x - t)
      /\ new.min = IF a.has_data /\ a.min < x THEN a.min ELSE x
      /\ new.max = IF a.has_data /\ a.max > x THEN a.max ELSE x
  <2>1. m + (t - m) = t
    BY <1>1
  <2> QED BY <1>1, <1>7, <2>1 DEF aggregator_add_sample, m
<1> HIDE DEF new
<1>9. new.mean * (n + 1) = SumOf(r)
  <2>1. t * (n + 1) = (n + 1) * t
    BY <1>2
  <2> QED BY <1>4, <1>8, <2>1 DEF n
<1>10. new.m2 \in Int /\ new.m2 = SumOfSquares(r) - (n + 1) * (new.mean * new.mean)
  <2>1. (x - m) * (x - t) = x * x + n * (m * m) - (n + 1) * (t * t)
    BY <1>1, <1>2, <1>7, WelfordIdentity
  <2> DEFINE w == (x - m) * (x - t)
             xx == x * x
             nmm == n * (m * m)
             ntt == (n + 1) * (t * t)
  <2>2. w \in Int /\ xx \in Int /\ nmm \in Int /\ ntt \in Int
    BY <1>1, <1>2
  <2>3. a.m2 = q - nmm /\ w = xx + nmm - ntt /\ new.m2 = a.m2 + w /\ SumOfSquares(r) = q + xx
    BY <1>1, <1>4, <1>8, <2>1
  <2>4. (n + 1) * (new.mean * new.mean) = ntt
    BY <1>8
  <2> HIDE DEF w, xx, nmm, ntt
  <2> QED BY <1>2, <2>2, <2>3, <2>4
<1>11. /\ new.min \in ToSet(r) /\ \A y \in ToSet(r) : new.min <= y
       /\ new.max \in ToSet(r) /\ \A y \in ToSet(r) : new.max >= y
  <2>1. CASE s = <<>>
    <3>1. new.min = x /\ new.max = x
      BY <1>1, <1>8, <2>1, Zenon
    <3>2. ToSet(r) = {x}
      BY <1>3, <1>6, <2>1
    <3> QED BY <3>1, <3>2
  <2>2. CASE s # <<>>
    <3>1. /\ new.min = IF a.min < x THEN a.min ELSE x
          /\ new.max = IF a.max > x THEN a.max ELSE x
      BY <1>1, <1>8, <2>2, Zenon
    <3>2. a.min \in Int /\ a.max \in Int
      BY <1>3, <1>5, <2>2
    <3>3. \A y \in ToSet(s) : y \in Int
      BY <1>3
    <3>4. new.min \in {a.min, x} /\ new.min <= a.min /\ new.min <= x
      BY <3>1, <3>2
    <3>5. new.max \in {a.max, x} /\ new.max >= a.max /\ new.max >= x
      BY <3>1, <3>2
    <3>6. \A y \in ToSet(s) : new.min <= y /\ new.max >= y
      BY <1>5, <2>2, <3>2, <3>3, <3>4, <3>5
    <3> QED BY <1>3, <1>5, <2>2, <3>4, <3>5, <3>6
  <2> QED BY <2>1, <2>2
<1>12. t \in Int
  OBVIOUS
<1>13. Accumulates(new, r)
  BY <1>3, <1>8, <1>9, <1>10, <1>11, <1>12 DEF Accumulates
<1> QED BY <1>13 DEF new, r

-----------------------------------------------------------------------------
(* The window of the position task *)

(* The fixes between the modem and the window: the one the semaphore announces and the one   *)
(* that acquire_gnss_fix returns.                                                             *)
OnTheWay ==
    (IF s_gnss_fix_ready = "given" /\ s_pending_walter_fix.ready THEN 1 ELSE 0)
    + (IF fix_call.result = "ok" THEN 1 ELSE 0)

(* The window never holds more fixes than the modem found, which is what keeps the quotients *)
(* exact; and a call has its result only after the modem was asked.                           *)
FixesCounted ==
    /\ fix_call.pc \in {"suspend", "request", "await"} => fix_call.result # "ok"
    /\ Len(accepted) + OnTheWay <= fixes

WindowInv ==
    /\ Accumulates(agg, accepted)
    /\ window_has_data = (accepted # <<>>)
    /\ \A k \in 1 .. MaxFixes : \E t \in Int : SumOf(accepted) = k * t
    /\ record.samples \in Seq(Int) /\ Accumulates(record.stats, record.samples)

LEMMA WindowInit == Init => WindowInv /\ FixesCounted
<1> SUFFICES ASSUME Init PROVE WindowInv /\ FixesCounted
  OBVIOUS
<1>1. /\ agg = aggregator_reset /\ window_has_data = FALSE /\ accepted = <<>> /\ record = NoRecord
      /\ fixes = 0 /\ s_gnss_fix_ready = "NULL" /\ fix_call = NoCall
  BY DEF Init, CellularInit
<1>2. NoRecord.stats = aggregator_reset /\ NoRecord.samples = <<>> /\ <<>> \in Seq(Int)
  BY DEF NoRecord
<1>3. \A k \in 1 .. MaxFixes : 0 \in Int /\ SumOf(<<>>) = k * 0
  BY SumOfEmpty
<1>4. WindowInv
  BY <1>1, <1>2, <1>3, ResetAccumulates DEF WindowInv
<1>5. FixesCounted
  BY <1>1 DEF FixesCounted, OnTheWay, NoCall
<1> QED BY <1>4, <1>5

LEMMA WindowUnchanged ==
  ASSUME WindowInv, UNCHANGED <<agg, window_has_data, accepted, record>>
  PROVE  WindowInv'
BY DEF WindowInv

LEMMA CountTypes ==
  ASSUME IInv
  PROVE  Len(accepted) \in Nat /\ fixes \in 0 .. MaxFixes /\ MaxFixes \in Nat
BY Bounds DEF IInv, TypeOK

(* An edit, the time, the boot, the modem, the network and the steps of acquire_gnss_fix. *)
LEMMA CountKept ==
  ASSUME IInv, FixesCounted,
         app_main \/ EditPosition \/ Tick \/ Acquire
            \/ ((cellular_task(settings.enabled) \/ NetworkChanges \/ gnss_event_handler)
                /\ Cellular)
  PROVE  FixesCounted'
<1>1. CASE app_main
  <2>1. /\ s_gnss_fix_ready = "NULL" /\ s_gnss_fix_ready' # "given"
        /\ UNCHANGED <<fixes, fix_call, accepted>>
    BY <1>1 DEF app_main, cellular_transport_init
  <2> QED BY <2>1, CountTypes DEF FixesCounted, OnTheWay
<1>2. CASE EditPosition \/ Tick
  BY <1>2 DEF EditPosition, Tick, cell_vars, modem_vars, FixesCounted, OnTheWay
<1>3. CASE Acquire
  <2>1. accepted' = accepted
    BY <1>3 DEF Acquire, gnss_vars
  <2>2. CASE SuspendLte
    <3>1. /\ fix_call.pc = "suspend" /\ fix_call'.result = fix_call.result
          /\ UNCHANGED <<fixes, s_gnss_fix_ready, s_pending_walter_fix>>
      BY <2>2, CallFields DEF SuspendLte, FixCall, IInv
    <3> QED BY <2>1, <3>1 DEF FixesCounted, OnTheWay
  <2>3. CASE RequestFix
    <3>1. /\ fix_call.pc = "request" /\ s_gnss_fix_ready' = "empty" /\ UNCHANGED fixes
          /\ fix_call'.result = fix_call.result \/ fix_call'.result # "ok"
      BY <2>3, CallFields DEF RequestFix, FixCall, IInv
    <3> QED BY <2>1, <3>1, CountTypes DEF FixesCounted, OnTheWay
  <2>4. CASE FixSignalled
    <3>1. /\ fix_call.pc = "await" /\ s_gnss_fix_ready = "given" /\ s_gnss_fix_ready' = "empty"
          /\ UNCHANGED fixes /\ fix_call'.pc = "resume"
          /\ fix_call'.result = "ok" => s_pending_walter_fix.ready
      BY <2>4, CallFields DEF FixSignalled, modem_vars, FixCall, IInv
    <3> QED BY <2>1, <3>1, CountTypes DEF FixesCounted, OnTheWay
  <2>5. CASE FixTimesOut
    <3>1. /\ fix_call'.pc = "resume" /\ fix_call'.result # "ok"
          /\ UNCHANGED <<fixes, s_gnss_fix_ready, s_pending_walter_fix>>
      BY <2>5, CallFields DEF FixTimesOut, modem_vars, FixCall, IInv
    <3> QED BY <2>1, <3>1, CountTypes DEF FixesCounted, OnTheWay
  <2>6. CASE ResumeLte
    <3>1. /\ fix_call'.pc = "done" /\ fix_call'.result = fix_call.result
          /\ UNCHANGED <<fixes, s_gnss_fix_ready, s_pending_walter_fix>>
      BY <2>6, CallFields DEF ResumeLte, FixCall, IInv
    <3> QED BY <2>1, <3>1 DEF FixesCounted, OnTheWay
  <2> QED BY <1>3, <2>2, <2>3, <2>4, <2>5, <2>6 DEF Acquire, AcquireStep
<1>4. CASE (cellular_task(settings.enabled) \/ NetworkChanges) /\ Cellular
  BY <1>4 DEF cellular_task, NetworkChanges, modem_vars, Cellular, gnss_vars, FixesCounted, OnTheWay
<1>5. CASE gnss_event_handler /\ Cellular
  <2> PICK e \in Events : /\ fixes' = IF e.ready THEN fixes + 1 ELSE fixes
                          /\ s_pending_walter_fix' = e
    BY <1>5 DEF gnss_event_handler
  <2>1. UNCHANGED <<fix_call, accepted>>
    BY <1>5 DEF gnss_event_handler, Cellular, gnss_vars
  <2>2. CASE e.ready
    BY <2>1, <2>2, CountTypes DEF FixesCounted, OnTheWay
  <2>3. CASE ~e.ready
    BY <2>1, <2>3, CountTypes DEF FixesCounted, OnTheWay
  <2> QED BY <2>2, <2>3
<1> QED BY <1>1, <1>2, <1>3, <1>4, <1>5

LEMMA LoopBeginsWindow ==
  ASSUME IInv, WindowInv, FixesCounted, LoopBegins
  PROVE  WindowInv' /\ FixesCounted'
<1>1. record' = NoRecord /\ NoRecord.stats = aggregator_reset /\ NoRecord.samples = <<>>
  BY DEF LoopBegins, NoRecord
<1>2. <<>> \in Seq(Int) /\ Len(<<>>) = 0
  OBVIOUS
<1>3. CASE Off(settings)
  <2>1. /\ agg' = aggregator_reset /\ window_has_data' = FALSE /\ accepted' = <<>>
        /\ UNCHANGED <<fixes, s_gnss_fix_ready, s_pending_walter_fix, fix_call>>
    BY <1>3 DEF LoopBegins, cell_vars, modem_vars
  <2>2. \A k \in 1 .. MaxFixes : 0 \in Int /\ SumOf(<<>>) = k * 0
    BY SumOfEmpty
  <2>3. WindowInv'
    BY <1>1, <1>2, <2>1, <2>2, ResetAccumulates DEF WindowInv
  <2>4. FixesCounted'
    BY <1>2, <2>1, CountTypes DEF FixesCounted, OnTheWay
  <2> QED BY <2>3, <2>4
<1>4. CASE ~Off(settings)
  <2>1. /\ AcquireBegins /\ UNCHANGED <<agg, window_has_data, accepted>>
    BY <1>4 DEF LoopBegins
  <2>2. WindowInv'
    BY <1>1, <1>2, <2>1, ResetAccumulates DEF WindowInv
  <2>3. /\ fix_call'.result = "none"
        /\ UNCHANGED <<fixes, s_gnss_fix_ready, s_pending_walter_fix>>
    BY <2>1 DEF AcquireBegins, modem_vars
  <2>4. FixesCounted'
    BY <2>1, <2>3, CountTypes DEF FixesCounted, OnTheWay
  <2> QED BY <2>2, <2>4
<1> QED BY <1>3, <1>4

LEMMA AcceptedInts ==
  ASSUME TypeOK
  PROVE  accepted \in Seq(Int)
<1>1. accepted \in Seq(FixValues) /\ Len(accepted) \in Nat
  BY CallFields
<1>2. accepted \in [1 .. Len(accepted) -> FixValues]
  BY <1>1
<1>3. accepted \in [1 .. Len(accepted) -> Int]
  BY <1>2, Bounds
<1> QED BY <1>1, <1>3, ListsAreSequences

(* A fix that joins the window: every count up to MaxFixes still divides the sum of the fixes, *)
(* so the step's quotient is exact.                                                            *)
LEMMA FixJoins ==
  ASSUME IInv, WindowInv, FixesCounted, fix_call.result = "ok"
  PROVE  LET x == s_last_fix.value IN
         /\ Append(accepted, x) \in Seq(Int)
         /\ \A k \in 1 .. MaxFixes : \E t \in Int : SumOf(Append(accepted, x)) = k * t
         /\ Accumulates(aggregator_add_sample(agg, x), Append(accepted, x))
<1> DEFINE x == s_last_fix.value
           r == Append(accepted, x)
<1>1. x \in FixValues /\ x \in Int /\ accepted \in Seq(Int)
  <2>1. x \in FixValues
    BY CallFields, EventFields DEF IInv, LteFollowsCall
  <2> QED BY <2>1, Bounds, AcceptedInts DEF IInv
<1>2. r \in Seq(Int) /\ SumOf(r) = SumOf(accepted) + x /\ SumOf(accepted) \in Int
  BY <1>1, SumOfAppend, SumOfType
<1> HIDE DEF r, x
<1>3. ASSUME NEW k \in 1 .. MaxFixes
      PROVE  \E t \in Int : SumOf(r) = k * t
  <2>1. PICK q \in Int : SumOf(accepted) = k * q
    BY DEF WindowInv
  <2>2. k * (x \div k) = x
    BY <1>1, ExactQuotients
  <2>3. k \in Nat \ {0} /\ x \div k \in Int
    BY <1>1, CountTypes
  <2> DEFINE y == x \div k
  <2>4. y \in Int /\ k * q + k * y = k * (q + y)
    BY <2>3
  <2>5. SumOf(r) = k * (q + y) /\ q + y \in Int
    BY <1>2, <2>1, <2>2, <2>4
  <2> QED BY <2>5
<1>4. Len(accepted) + 1 \in 1 .. MaxFixes
  BY CountTypes DEF FixesCounted, OnTheWay
<1>5. PICK t \in Int : SumOf(accepted) + x = (Len(accepted) + 1) * t
  BY <1>2, <1>3, <1>4
<1>6. Accumulates(aggregator_add_sample(agg, x), r)
  BY <1>1, <1>5, AddAccumulates DEF WindowInv, r
<1> QED BY <1>2, <1>3, <1>6 DEF r, x

LEMMA LoopEndsWindow ==
  ASSUME IInv, WindowInv, FixesCounted, LoopEnds
  PROVE  WindowInv' /\ FixesCounted'
<1> DEFINE ok == fix_call.result = "ok"
           new == IF ok THEN aggregator_add_sample(agg, s_last_fix.value) ELSE agg
           all == IF ok THEN Append(accepted, s_last_fix.value) ELSE accepted
           has == window_has_data \/ ok
<1>1. \/ /\ record' = [stats |-> new, samples |-> all]
         /\ agg' = aggregator_reset /\ window_has_data' = FALSE /\ accepted' = <<>>
      \/ /\ agg' = new /\ window_has_data' = has /\ accepted' = all
         /\ UNCHANGED record
  BY Zenon DEF LoopEnds
<1>2. /\ fix_call' = NoCall
      /\ UNCHANGED <<fixes, s_gnss_fix_ready, s_pending_walter_fix>>
  BY DEF LoopEnds, modem_vars
<1>3. accepted \in Seq(Int)
  BY AcceptedInts DEF IInv
<1>4. /\ all \in Seq(Int)
      /\ \A k \in 1 .. MaxFixes : \E t \in Int : SumOf(all) = k * t
      /\ Accumulates(new, all)
  <2>1. CASE ok
    BY <2>1, FixJoins
  <2>2. CASE ~ok
    BY <1>3, <2>2 DEF WindowInv
  <2> QED BY <2>1, <2>2
<1>5. has = (all # <<>>)
  <2>1. Append(accepted, s_last_fix.value) # <<>>
    BY <1>3
  <2> QED BY <2>1 DEF WindowInv
<1> DEFINE given == IF s_gnss_fix_ready = "given" /\ s_pending_walter_fix.ready THEN 1 ELSE 0
<1>6. Len(all) + given <= fixes /\ given \in Nat
  <2> DEFINE one == IF ok THEN 1 ELSE 0
  <2>1. Len(accepted) + (given + one) <= fixes
    BY Zenon DEF FixesCounted, OnTheWay
  <2>2. given \in Nat /\ one \in Nat
    OBVIOUS
  <2>3. Len(all) = Len(accepted) + one
    <3>1. Len(Append(accepted, s_last_fix.value)) = Len(accepted) + 1 /\ Len(accepted) \in Nat
      BY <1>3
    <3> QED BY <3>1
  <2> HIDE DEF given, one, all
  <2> QED BY <2>1, <2>2, <2>3, CountTypes
<1> HIDE DEF new, all, has
<1>7. /\ <<>> \in Seq(Int) /\ Len(<<>>) = 0
      /\ \A k \in 1 .. MaxFixes : 0 \in Int /\ SumOf(<<>>) = k * 0
  BY SumOfEmpty
<1>8. WindowInv'
  <2>1. CASE /\ record' = [stats |-> new, samples |-> all]
             /\ agg' = aggregator_reset /\ window_has_data' = FALSE /\ accepted' = <<>>
    BY <1>4, <1>7, <2>1, ResetAccumulates DEF WindowInv
  <2>2. CASE /\ agg' = new /\ window_has_data' = has /\ accepted' = all
             /\ UNCHANGED record
    BY <1>4, <1>5, <2>2 DEF WindowInv
  <2> QED BY <1>1, <2>1, <2>2
<1>9. FixesCounted'
  <2>1. Len(accepted') <= Len(all) /\ Len(accepted') \in Nat /\ Len(all) \in Nat
    BY <1>1, <1>4, <1>7
  <2>2. NoCall.pc = "idle" /\ NoCall.result # "ok"
    BY DEF NoCall
  <2>3. OnTheWay' = given
    BY <1>2, <2>2 DEF OnTheWay
  <2> HIDE DEF given
  <2> QED BY <1>2, <1>6, <2>1, <2>2, <2>3, CountTypes DEF FixesCounted
<1> QED BY <1>8, <1>9

Inv == IInv /\ WindowInv /\ FixesCounted

LEMMA WindowStep == Inv /\ [Next]_vars => Inv'
<1> SUFFICES ASSUME Inv, [Next]_vars PROVE WindowInv' /\ FixesCounted'
  BY NextKeeps DEF Inv
<1> USE DEF Inv
<1>1. CASE UNCHANGED vars
  BY <1>1, WindowUnchanged
     DEF vars, cell_vars, modem_vars, gnss_vars, FixesCounted, OnTheWay
<1>2. CASE app_main \/ EditPosition \/ Tick \/ Acquire
  BY <1>2, WindowUnchanged, CountKept DEF app_main, EditPosition, Tick, Acquire, gnss_vars
<1>3. CASE (cellular_task(settings.enabled) \/ NetworkChanges \/ gnss_event_handler) /\ Cellular
  BY <1>3, WindowUnchanged, CountKept DEF Cellular, gnss_vars
<1>4. CASE LoopBegins
  BY <1>4, LoopBeginsWindow
<1>5. CASE LoopEnds
  BY <1>5, LoopEndsWindow
<1> QED BY <1>1, <1>2, <1>3, <1>4, <1>5 DEF Next

(* The statistics that are handed on, and those of the open window, are exactly those of the  *)
(* fixes accepted since the window was opened: none is left out, counted twice or kept from   *)
(* before the last record or from before reporting was switched off, however fixes, timeouts, *)
(* late answers and edits follow each other.                                                   *)
THEOREM RecordsAreExact == Spec => []RecordIsItsWindow
<1>1. Init => Inv
  BY InitInv, WindowInit DEF Inv
<1>2. Inv => RecordIsItsWindow
  <2> SUFFICES ASSUME Inv PROVE RecordIsItsWindow
    OBVIOUS
  <2>1. accepted \in Seq(Int)
    BY AcceptedInts DEF Inv, IInv
  <2> QED BY <2>1, AccumulatesGives DEF Inv, WindowInv, RecordIsItsWindow
<1> QED BY <1>1, <1>2, WindowStep, PTL DEF Spec
=============================================================================
