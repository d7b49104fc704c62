-------------------------- MODULE CellularTransport --------------------------
(***************************************************************************)
(* The cellular modem (components/cellular_transport): registration with   *)
(* the network, polled by a task of its own, and GNSS fixes, for which the *)
(* caller switches LTE off and on again because both use the one radio.    *)
(* The modem answers a fix request later, through an event handler that    *)
(* runs in the modem library's task.                                       *)
(***************************************************************************)
EXTENDS Integers, FiniteSets, Sequences

CONSTANTS
    FixValues,      \* measured positions (one coordinate stands for all four)
    MaxPending,     \* bound of the model on the requests the modem keeps unanswered
    MaxFixes,       \* bound of the model on the fixes the modem finds
    MaxRefusals     \* bound of the model on the commands the modem refuses

ASSUME CellularAssumption ==
    FixValues \subseteq Int /\ MaxPending \in Nat \ {0} /\ MaxFixes \in Nat /\ MaxRefusals \in Nat

NoFix == [ready |-> FALSE, value |-> 0]

\* What a GNSS event carries: a fix or none.
Events == {NoFix} \cup [ready : {TRUE}, value : FixValues]

VARIABLES
    opstate,                \* external: the modem's operational state
    attached,               \* external: registered with the network
    requests,               \* external: fix requests the modem has not answered
    fixes, refusals,        \* counters for the bounds
    s_registered,           \* registration, as cellular_task last saw it
    s_pdp_active,
    s_gnss_busy,
    s_gnss_fix_ready,       \* the semaphore: "NULL", "empty" or "given"
    s_pending_walter_fix,   \* what the last event carried
    s_last_fix,
    synced,                 \* the system clock was set: time_sync_is_synced
    fix_call,               \* acquire_gnss_fix: [pc, was_registered, result]
    restart_failed          \* history: the last try to switch LTE on again failed

modem_vars == <<opstate, attached, requests, fixes, refusals>>
cell_vars == <<modem_vars, s_registered, s_pdp_active, s_gnss_busy, s_gnss_fix_ready,
               s_pending_walter_fix, s_last_fix, synced, fix_call, restart_failed>>

NoCall == [pc |-> "idle", was_registered |-> FALSE, result |-> "none"]

CellularInit ==
    /\ opstate = "minimum" /\ attached = FALSE /\ requests = 0 /\ fixes = 0 /\ refusals = 0
    /\ s_registered = FALSE /\ s_pdp_active = FALSE
    /\ s_gnss_busy = FALSE /\ s_gnss_fix_ready = "NULL"
    /\ s_pending_walter_fix = NoFix /\ s_last_fix = NoFix
    /\ synced = FALSE /\ fix_call = NoCall /\ restart_failed = FALSE

-----------------------------------------------------------------------------
(* The modem (external) *)

\* A command may be refused.
Refused == refusals < MaxRefusals /\ refusals' = refusals + 1
Accepted == UNCHANGED refusals

\* Registration comes and goes while the radio serves LTE, and goes with it.
NetworkChanges ==
    /\ attached' = ~attached
    /\ attached' => opstate = "full"
    /\ UNCHANGED <<opstate, requests, fixes, refusals, s_registered, s_pdp_active, s_gnss_busy,
                   s_gnss_fix_ready, s_pending_walter_fix, s_last_fix, synced, fix_call,
                   restart_failed>>

\* gnss_event_handler: a request is answered, maybe long after its caller gave up.
gnss_event_handler ==
    /\ requests > 0
    /\ requests' = requests - 1
    /\ \E e \in Events :
          /\ e.ready => fixes < MaxFixes
          /\ fixes' = IF e.ready THEN fixes + 1 ELSE fixes
          /\ s_pending_walter_fix' = e
    /\ s_gnss_fix_ready' = "given"
    /\ UNCHANGED <<opstate, attached, refusals, s_registered, s_pdp_active, s_gnss_busy,
                   s_last_fix, synced, fix_call, restart_failed>>

\* start_lte_connect: setOpState(FULL), then the network selection mode.
start_lte_connect(on) ==
    \/ Refused /\ on = FALSE /\ UNCHANGED opstate
    \/ Refused /\ on = FALSE /\ opstate' = "full"
    \/ Accepted /\ on = TRUE /\ opstate' = "full"

-----------------------------------------------------------------------------
(* cellular_transport_init: one command after the other; the first that is  *)
(* refused ends it, and then neither task nor semaphore exist               *)

cellular_transport_init ==
    /\ opstate = "minimum" /\ s_gnss_fix_ready = "NULL"
    /\ \/ /\ Refused                                   \* begin or setOpState(NO_RF)
          /\ UNCHANGED <<opstate, s_pdp_active, s_gnss_fix_ready>>
       \/ /\ Refused                                   \* definePDPContext
          /\ opstate' = "no_rf"
          /\ UNCHANGED <<s_pdp_active, s_gnss_fix_ready>>
       \/ /\ s_pdp_active' = TRUE
          /\ \/ Refused /\ opstate' \in {"no_rf", "full"} /\ UNCHANGED s_gnss_fix_ready
             \/ start_lte_connect(TRUE) /\ s_gnss_fix_ready' = "empty"
    /\ UNCHANGED <<attached, requests, fixes, s_registered, s_gnss_busy, s_pending_walter_fix,
                   s_last_fix, synced, fix_call, restart_failed>>

Running == s_gnss_fix_ready # "NULL"

\* time_sync_set_from_epoch: a time before the threshold is ignored, so the
\* clock is set for good or left alone.
time_sync_set_from_epoch == synced' \in {synced, TRUE}

\* cellular_task: every 5 s the registration is looked up, and the network's
\* clock is taken when nothing else will ever set the time.
cellular_task(position_enabled) ==
    /\ Running
    /\ s_registered' = attached
    /\ IF attached /\ ~synced /\ ~position_enabled
       THEN time_sync_set_from_epoch
       ELSE UNCHANGED synced
    /\ UNCHANGED <<modem_vars, s_pdp_active, s_gnss_busy, s_gnss_fix_ready, s_pending_walter_fix,
                   s_last_fix, fix_call, restart_failed>>

-----------------------------------------------------------------------------
(* cellular_transport_acquire_gnss_fix, called by the position task alone *)

AcquireBegins ==
    /\ Running
    /\ fix_call.pc = "idle"
    /\ s_gnss_busy' = TRUE
    /\ fix_call' = [pc |-> IF s_registered THEN "suspend" ELSE "request",
                    was_registered |-> s_registered, result |-> "none"]
    /\ UNCHANGED <<modem_vars, s_registered, s_pdp_active, s_gnss_fix_ready, s_pending_walter_fix,
                   s_last_fix, synced, restart_failed>>

\* setOpState(NO_RF), whose result is not looked at, and up to 10 s for the
\* modem to leave the network.
SuspendLte ==
    /\ fix_call.pc = "suspend"
    /\ \/ Accepted /\ opstate' = "no_rf"
       \/ Refused /\ UNCHANGED opstate
    /\ fix_call' = [fix_call EXCEPT !.pc = "request"]
    /\ UNCHANGED <<attached, requests, fixes, s_registered, s_pdp_active, s_gnss_busy,
                   s_gnss_fix_ready, s_pending_walter_fix, s_last_fix, synced, restart_failed>>

\* A signal nobody waited for is drained, then the fix is requested.
RequestFix ==
    /\ fix_call.pc = "request"
    /\ s_gnss_fix_ready' = "empty"
    /\ \/ /\ Accepted
          /\ requests' = IF requests < MaxPending THEN requests + 1 ELSE requests
          /\ fix_call' = [fix_call EXCEPT !.pc = "await"]
       \/ /\ Refused
          /\ fix_call' = [fix_call EXCEPT !.pc = "resume", !.result = "failed"]
          /\ UNCHANGED requests
    /\ UNCHANGED <<opstate, attached, fixes, s_registered, s_pdp_active, s_gnss_busy,
                   s_pending_walter_fix, s_last_fix, synced, restart_failed>>

\* Mutant of FixSignalled: an event without a fix is taken for one.
EventTakenForFix ==
    /\ fix_call.pc = "await" /\ s_gnss_fix_ready = "given"
    /\ s_gnss_fix_ready' = "empty"
    /\ s_last_fix' = s_pending_walter_fix
    /\ fix_call' = [fix_call EXCEPT !.pc = "resume", !.result = "ok"]
    /\ UNCHANGED <<modem_vars, s_registered, s_pdp_active, s_gnss_busy, s_pending_walter_fix,
                   synced, restart_failed>>

FixSignalled ==
    /\ fix_call.pc = "await" /\ s_gnss_fix_ready = "given"
    /\ s_gnss_fix_ready' = "empty"
    /\ IF s_pending_walter_fix.ready
       THEN /\ s_last_fix' = s_pending_walter_fix
            /\ fix_call' = [fix_call EXCEPT !.pc = "resume", !.result = "ok"]
       ELSE /\ fix_call' = [fix_call EXCEPT !.pc = "resume", !.result = "failed"]
            /\ UNCHANGED s_last_fix
    /\ UNCHANGED <<modem_vars, s_registered, s_pdp_active, s_gnss_busy, s_pending_walter_fix,
                   synced, restart_failed>>

FixTimesOut ==
    /\ fix_call.pc = "await" /\ s_gnss_fix_ready = "empty"
    /\ fix_call' = [fix_call EXCEPT !.pc = "resume", !.result = "timeout"]
    /\ UNCHANGED <<modem_vars, s_registered, s_pdp_active, s_gnss_busy, s_gnss_fix_ready,
                   s_pending_walter_fix, s_last_fix, synced, restart_failed>>

\* Mutant of ResumeLte: the registration is looked up again, after it has gone.
ResumeIfRegistered ==
    /\ fix_call.pc = "resume"
    /\ IF s_registered
       THEN \E on \in BOOLEAN : start_lte_connect(on) /\ restart_failed' = ~on
       ELSE UNCHANGED <<opstate, refusals, restart_failed>>
    /\ fix_call' = [fix_call EXCEPT !.pc = "done"]
    /\ UNCHANGED <<attached, requests, fixes, s_registered, s_pdp_active, s_gnss_busy,
                   s_gnss_fix_ready, s_pending_walter_fix, s_last_fix, synced>>

\* LTE is switched on again if it was in use, with no look at the result.
ResumeLte ==
    /\ fix_call.pc = "resume"
    /\ IF fix_call.was_registered
       THEN \E on \in BOOLEAN : start_lte_connect(on) /\ restart_failed' = ~on
       ELSE UNCHANGED <<opstate, refusals, restart_failed>>
    /\ fix_call' = [fix_call EXCEPT !.pc = "done"]
    /\ UNCHANGED <<attached, requests, fixes, s_registered, s_pdp_active, s_gnss_busy,
                   s_gnss_fix_ready, s_pending_walter_fix, s_last_fix, synced>>

AcquireStep == SuspendLte \/ RequestFix \/ FixSignalled \/ FixTimesOut \/ ResumeLte
=============================================================================
