---------------------------- MODULE GnssPosition ----------------------------
(***************************************************************************)
(* Position reporting (components/gnss_position) on top of the cellular    *)
(* modem: a task asks for a fix every sample interval, feeds it into the   *)
(* running statistics of a window and hands the window's record to the SD  *)
(* writer and the MQTT bridge when its log interval has passed.  Position  *)
(* settings are edited at any time.  The four coordinates of a fix go      *)
(* through the same calls; one stands for them.                            *)
(***************************************************************************)
EXTENDS CellularTransport, Aggregator

CONSTANTS
    PositionSettings,   \* [enabled, log]: reporting, and the log interval in ticks
    MaxEdits            \* bound of the model on edits of the settings

ASSUME PositionAssumption ==
    /\ PositionSettings \subseteq [enabled : BOOLEAN, log : Nat]
    /\ MaxEdits \in Nat

\* The integers that stand for doubles: every count of fixes divides them, so that the
\* quotients of the running statistics are exact.
ASSUME ExactQuotients ==
    \A v \in FixValues, n \in 1 .. MaxFixes : n * (v \div n) = v

VARIABLES
    booted,             \* app_main has started the cellular components, or tried
    settings,           \* config_store's position settings
    edits,              \* edits so far
    pos,                \* gnss_position_task: the settings of this turn of its loop
    task,               \* gnss_position_task: where it is
    agg,                \* the accumulators of the window
    window_has_data,
    log_due_in,         \* time until next_log_us
    accepted,           \* history: the fixes since the last record or switching off
    record              \* the record the last turn handed on: [stats, samples]

gnss_vars == <<booted, settings, edits, pos, task, agg, window_has_data, log_due_in,
               accepted, record>>
vars == <<cell_vars, gnss_vars>>

NoRecord == [stats |-> aggregator_reset, samples |-> <<>>]

Init ==
    /\ CellularInit
    /\ booted = FALSE
    /\ settings \in PositionSettings /\ edits = 0
    /\ pos = settings /\ task = "none"
    /\ agg = aggregator_reset /\ window_has_data = FALSE /\ log_due_in = 0
    /\ accepted = <<>> /\ record = NoRecord

-----------------------------------------------------------------------------
\* app_main: the position task exists only if the modem could be initialised.
app_main ==
    /\ ~booted /\ booted' = TRUE
    /\ cellular_transport_init
    /\ task' = IF s_gnss_fix_ready' = "NULL" THEN "none" ELSE "loop"
    /\ UNCHANGED <<settings, edits, pos, agg, window_has_data, log_due_in, accepted, record>>

EditPosition ==
    /\ edits < MaxEdits /\ edits' = edits + 1
    /\ settings' \in PositionSettings
    /\ UNCHANGED <<cell_vars, booted, pos, task, agg, window_has_data, log_due_in, accepted, record>>

Tick ==
    /\ log_due_in > 0 /\ log_due_in' = log_due_in - 1
    /\ UNCHANGED <<cell_vars, booted, settings, edits, pos, task, agg, window_has_data,
                   accepted, record>>

Off(s) == ~s.enabled \/ s.log = 0

\* The top of the loop: the settings are read; with reporting off the window
\* is dropped.
LoopBegins ==
    /\ task = "loop"
    /\ pos' = settings
    /\ IF Off(settings)
       THEN /\ agg' = aggregator_reset /\ window_has_data' = FALSE /\ log_due_in' = 0
            /\ accepted' = <<>>
            /\ UNCHANGED <<cell_vars, task>>
       ELSE /\ AcquireBegins
            /\ task' = "acquire"
            /\ UNCHANGED <<agg, window_has_data, log_due_in, accepted>>
    /\ record' = NoRecord
    /\ UNCHANGED <<booted, settings, edits>>

Acquire ==
    /\ task = "acquire"
    /\ AcquireStep
    /\ UNCHANGED gnss_vars

\* The acquisition returns and the rest of the turn follows: a fix sets the
\* clock and joins the window, and a window whose interval has passed is
\* handed on, whether or not this turn had a fix.
LoopEnds ==
    LET ok  == fix_call.result = "ok"
        new == IF ok THEN aggregator_add_sample(agg, s_last_fix.value) ELSE agg
        all == IF ok THEN Append(accepted, s_last_fix.value) ELSE accepted
        has == window_has_data \/ ok
        due == IF ok /\ ~window_has_data THEN pos.log ELSE log_due_in
    IN  /\ task = "acquire" /\ fix_call.pc = "done"
        /\ task' = "loop"
        /\ fix_call' = NoCall
        /\ s_gnss_busy' = FALSE
        /\ IF ok THEN time_sync_set_from_epoch ELSE UNCHANGED synced
        /\ IF has /\ due = 0
           THEN /\ record' = [stats |-> new, samples |-> all]
                /\ agg' = aggregator_reset /\ window_has_data' = FALSE /\ log_due_in' = 0
                /\ accepted' = <<>>
           ELSE /\ agg' = new /\ window_has_data' = has /\ log_due_in' = due
                /\ accepted' = all
                /\ UNCHANGED record
        /\ UNCHANGED <<modem_vars, s_registered, s_pdp_active, s_gnss_fix_ready,
                       s_pending_walter_fix, s_last_fix, restart_failed,
                       booted, settings, edits, pos>>

Cellular == UNCHANGED gnss_vars

Next ==
    \/ app_main \/ EditPosition \/ Tick
    \/ LoopBegins \/ Acquire \/ LoopEnds
    \/ cellular_task(settings.enabled) /\ Cellular
    \/ NetworkChanges /\ Cellular
    \/ gnss_event_handler /\ Cellular

Spec == Init /\ [][Next]_vars

-----------------------------------------------------------------------------
(* Properties *)

\* Every variable has its type.
TypeOK ==
    /\ opstate \in {"minimum", "no_rf", "full"} /\ attached \in BOOLEAN
    /\ requests \in 0 .. MaxPending /\ fixes \in 0 .. MaxFixes /\ refusals \in 0 .. MaxRefusals
    /\ s_registered \in BOOLEAN /\ s_pdp_active \in BOOLEAN /\ s_gnss_busy \in BOOLEAN
    /\ s_gnss_fix_ready \in {"NULL", "empty", "given"}
    /\ s_pending_walter_fix \in Events /\ s_last_fix \in Events
    /\ synced \in BOOLEAN /\ restart_failed \in BOOLEAN
    /\ fix_call \in [pc : {"idle", "suspend", "request", "await", "resume", "done"},
                     was_registered : BOOLEAN, result : {"none", "ok", "failed", "timeout"}]
    /\ booted \in BOOLEAN /\ settings \in PositionSettings /\ pos \in PositionSettings
    /\ edits \in 0 .. MaxEdits /\ task \in {"none", "loop", "acquire"}
    /\ window_has_data \in BOOLEAN /\ log_due_in \in Nat
    /\ accepted \in Seq(FixValues)

\* acquire_gnss_fix and cellular_task, which meanwhile sees the registration go:
\* LTE is off only while a fix is under way, which mqtt_client_bridge is told
\* through cellular_transport_gnss_busy, or because the modem refused to
\* switch it on again after one.
LteOffOnlyForFix ==
    Running /\ opstate = "no_rf" => s_gnss_busy \/ restart_failed

\* gnss_position_task and aggregator.c: the statistics handed on are those of
\* exactly the fixes accepted since the window was opened, of all of them and of
\* none from before the last record, or from before a turn of the task that found
\* reporting switched off (off and on again between two turns goes unseen).
RecordIsItsWindow ==
    /\ StatisticsOf(record.stats, record.samples)
    /\ StatisticsOf(agg, accepted)
    /\ window_has_data = (accepted # <<>>)
=============================================================================
