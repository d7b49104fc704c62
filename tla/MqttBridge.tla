----------------------------- MODULE MqttBridge -----------------------------
(***************************************************************************)
(* The MQTT bridge (components/mqtt_client/mqtt_client_bridge.c) with its  *)
(* two backends.  mqtt_publish_task takes one result at a time off its     *)
(* sink queue, or times out; it follows the configuration, keeps a session *)
(* or opens one per batch window, and publishes the result or the buffered *)
(* ones, then the newest position and battery report.                      *)
(*                                                                         *)
(* The clients are external.  "wifi": esp-mqtt connects by itself once     *)
(* started, reports CONNECTED and DISCONNECTED from its own task and goes  *)
(* on reconnecting.  "cellular": the modem answers one attempt, its events *)
(* reach the handler in order but possibly late, mqttDisconnect ends an    *)
(* attempt or a session, and mqttConfig fails unless the modem is idle.    *)
(*                                                                         *)
(* A tick is the 500 ms the task waits for a result; intervals are         *)
(* countdowns in ticks.  A result is its serial number.                    *)
(***************************************************************************)
EXTENDS Integers, Sequences, FiniteSets, Functions

CONSTANTS
    Transport,      \* the backend mqttc_init selected, "wifi" or "cellular"
    Settings,       \* the MQTT settings a user saves
    NoHost,         \* the empty host name
    QueueLen,       \* length of the sink queue (16 in the code)
    MaxBatchItems,  \* MAX_BATCH_ITEMS (256 in the code)
    Backoff,        \* RECONNECT_BACKOFF_US in ticks (30 in the code)
    ConnectTimeout, \* ticks be_connect waits for the modem (20 in the code)
    ConnectTicks,   \* ticks a client left alone takes to connect
    MaxGeneration,  \* bound of the model on configuration edits
    MaxSamples,     \* bound of the model on results
    MaxReports,     \* bound of the model on position and battery reports
    MaxFaults       \* bound of the model on lost sessions, refused or failed
                    \* attempts, delayed events and GNSS windows

ASSUME BridgeAssumption ==
    /\ Transport \in {"wifi", "cellular"}
    /\ \A s \in Settings : s.enabled \in BOOLEAN /\ s.batch_enabled \in BOOLEAN
                           /\ s.flat_telemetry \in BOOLEAN /\ s.batch_interval \in Nat
    /\ QueueLen \in Nat /\ MaxBatchItems \in Nat \ {0}
    /\ Backoff \in Nat /\ ConnectTicks \in Nat
    /\ ConnectTimeout \in 0..Backoff
    /\ MaxGeneration \in Nat /\ MaxSamples \in Nat /\ MaxReports \in Nat /\ MaxFaults \in Nat

Unset == [enabled |-> FALSE, batch_enabled |-> FALSE, flat_telemetry |-> FALSE,
          batch_interval |-> 0, host |-> NoHost]
NoEpoch  == -1      \* UINT32_MAX: no generation seen yet
NoSample == 0
Idle == [state |-> "idle", cfg |-> Unset, age |-> 0]
Kinds == {"position", "battery"}

VARIABLES
    generation, mqtt_cfg,       \* config_store's generation and MQTT settings
    queue,                      \* the sink queue
    pc,                         \* where mqtt_publish_task is
    hand,                       \* the result it received, or NoSample
    polled, last_generation,    \* the generation read in this iteration; the one acted on
    s_current_settings,
    s_backend_connected,
    s_batch_buffer,
    retry_in, batch_in,         \* s_next_reconnect_attempt_us, s_next_batch_transmit_us
    s_pending,                  \* s_pending_position, s_pending_battery, 0 if not valid
    link,                       \* the client: [state, cfg, age]
    s_connected,                \* the backend's flag
    s_mqtt_connect_done,        \* cellular: the binary semaphore
    events,                     \* cellular: events on their way to mqtt_event_handler
    timed_out,                  \* 500 ms passed since the task began to wait
    waited,                     \* ticks be_connect has waited in this iteration
    gnss_busy,                  \* cellular_transport_gnss_busy
    faults,                     \* number of faults so far
    serial, published, lost,    \* history: results produced, accepted by the client, given up
    reports, sent               \* history: last report of a kind, reports accepted

configVars == <<generation, mqtt_cfg>>
taskVars   == <<hand, polled, last_generation, s_current_settings>>
timeVars   == <<retry_in, batch_in>>
ledgerVars == <<serial, published, lost>>
reportVars == <<s_pending, reports, sent>>
linkVars   == <<link, s_connected, s_mqtt_connect_done, events>>
clockVars  == <<timed_out, waited>>
envVars    == <<clockVars, gnss_busy, faults>>
vars == <<configVars, queue, pc, taskVars, s_backend_connected, s_batch_buffer, timeVars,
          reportVars, linkVars, envVars, ledgerVars>>

loopVars == <<queue, pc, taskVars, s_backend_connected, s_batch_buffer>>

-----------------------------------------------------------------------------
(* The environment: the portal, the producers, time, the broker *)

SetMqttSettings ==
    /\ generation < MaxGeneration
    /\ generation' = generation + 1
    /\ mqtt_cfg' \in Settings
    /\ UNCHANGED <<loopVars, timeVars, reportVars, linkVars, envVars, ledgerVars>>

\* publish_result of the sampling engine: a full queue loses the result.
ProduceSample ==
    /\ serial < MaxSamples
    /\ serial' = serial + 1
    /\ IF Len(queue) < QueueLen
       THEN queue' = Append(queue, serial') /\ UNCHANGED lost
       ELSE lost' = lost \cup {serial'} /\ UNCHANGED queue
    /\ UNCHANGED <<configVars, pc, taskVars, s_backend_connected, s_batch_buffer, timeVars,
                   reportVars, linkVars, envVars, published>>

\* mqttc_publish_position, mqttc_publish_battery: only the newest is kept.  There
\* are positions on cellular only.
QueueReport(kind) ==
    /\ kind = "position" => Transport = "cellular"
    /\ reports[kind] < MaxReports
    /\ reports' = [reports EXCEPT ![kind] = @ + 1]
    /\ s_pending' = [s_pending EXCEPT ![kind] = reports'[kind]]
    /\ UNCHANGED <<configVars, loopVars, timeVars, sent, linkVars, envVars, ledgerVars>>

Fault == faults < MaxFaults /\ faults' = faults + 1

\* Time passes while the task waits for a result, or be_connect for the modem.  The
\* answer to an attempt is not put off for ever, and the delay of an event is a fault.
Tick ==
    /\ ~(link.state = "connecting" /\ link.age = ConnectTicks)
    /\ IF events # <<>> THEN Fault ELSE UNCHANGED faults
    /\ \/ /\ pc = "receive" /\ ~timed_out
          /\ timed_out' = TRUE
          /\ UNCHANGED waited
       \/ /\ pc = "linked" /\ Transport = "cellular"
          /\ waited < ConnectTimeout /\ ~s_mqtt_connect_done
          /\ waited' = waited + 1
          /\ UNCHANGED timed_out
    /\ link' = [link EXCEPT !.age = IF link.state = "connecting" THEN @ + 1 ELSE @]
    /\ retry_in' = IF retry_in > 0 THEN retry_in - 1 ELSE 0
    /\ batch_in' = IF batch_in > 0 THEN batch_in - 1 ELSE 0
    /\ UNCHANGED <<configVars, loopVars, reportVars, s_connected, s_mqtt_connect_done, events,
                   gnss_busy, ledgerVars>>

\* The broker accepts: MQTT_EVENT_CONNECTED, or an event of the modem.
Connected ==
    /\ link.state = "connecting" /\ link.age = ConnectTicks
    /\ link' = [link EXCEPT !.state = "up"]
    /\ IF Transport = "wifi"
       THEN s_connected' = TRUE /\ UNCHANGED events
       ELSE events' = Append(events, "connected") /\ UNCHANGED s_connected
    /\ UNCHANGED <<configVars, loopVars, timeVars, reportVars, s_mqtt_connect_done, envVars, ledgerVars>>

\* The broker refuses an attempt, or a session is lost: esp-mqtt tries again, the modem does not.
Disconnected ==
    /\ \/ link.state = "connecting" /\ link.age = ConnectTicks
       \/ link.state = "up"
    /\ Fault
    /\ IF Transport = "wifi"
       THEN /\ link' = [link EXCEPT !.state = "connecting", !.age = 0]
            /\ s_connected' = FALSE
            /\ UNCHANGED events
       ELSE /\ link' = Idle
            /\ events' = Append(events, IF link.state = "up" THEN "disconnected" ELSE "refused")
            /\ UNCHANGED s_connected
    /\ UNCHANGED <<configVars, loopVars, timeVars, reportVars, s_mqtt_connect_done,
                   clockVars, gnss_busy, ledgerVars>>

\* mqtt_event_handler of backend_walter_mqtt.cpp
Deliver ==
    /\ events # <<>>
    /\ events' = Tail(events)
    /\ s_connected' = (Head(events) = "connected")
    /\ s_mqtt_connect_done' = (s_mqtt_connect_done \/ Head(events) # "disconnected")
    /\ UNCHANGED <<configVars, loopVars, timeVars, reportVars, link, envVars, ledgerVars>>

\* cellular_transport acquires a GNSS fix, on the cellular modem only.
GnssBegins ==
    /\ Transport = "cellular" /\ ~gnss_busy
    /\ Fault
    /\ gnss_busy' = TRUE
    /\ UNCHANGED <<configVars, loopVars, timeVars, reportVars, linkVars, clockVars, ledgerVars>>

GnssEnds ==
    /\ gnss_busy
    /\ gnss_busy' = FALSE
    /\ UNCHANGED <<configVars, loopVars, timeVars, reportVars, linkVars, clockVars, faults, ledgerVars>>

-----------------------------------------------------------------------------
(* The backends *)

\* mqttDisconnect: the modem reports the end of a session.
EndSession ==
    /\ link' = Idle
    /\ events' = IF link.state = "up" THEN Append(events, "disconnected") ELSE events

\* Mutant of Disconnect, and of Deinit: only the flag of the backend is reset.
DisconnectFlagOnly == s_connected' = FALSE /\ UNCHANGED <<s_mqtt_connect_done, link, events>>

\* be_disconnect.  A stopped esp-mqtt client is destroyed by the next be_init or be_deinit.
Disconnect ==
    /\ s_connected' = FALSE
    /\ UNCHANGED s_mqtt_connect_done
    /\ IF Transport = "wifi" THEN link' = Idle /\ UNCHANGED events ELSE EndSession

\* The bridge's disconnect when connected, and be_deinit.
Deinit ==
    /\ s_connected' = FALSE
    /\ UNCHANGED s_mqtt_connect_done
    /\ IF Transport = "wifi" THEN link' = Idle /\ UNCHANGED events
       ELSE IF s_backend_connected \/ s_connected THEN EndSession
       ELSE UNCHANGED <<link, events>>

\* be_init and the first part of be_connect: the attempt starts.
StartAttempt ==
    /\ Transport = "cellular" => link.state = "idle"
    /\ link' = [state |-> "connecting", cfg |-> s_current_settings, age |-> 0]
    /\ s_connected' = FALSE
    /\ s_mqtt_connect_done' = FALSE
    /\ UNCHANGED <<events, faults>>

\* be_init or be_connect fails.  Over WiFi the old client is gone; on cellular
\* mqttConfig fails and nothing has changed, or mqttConnect does.
FailAttempt ==
    /\ IF Transport = "cellular" /\ link.state # "idle" THEN UNCHANGED faults ELSE Fault
    /\ \/ /\ Transport = "wifi"
          /\ link' = Idle /\ s_connected' = FALSE
          /\ UNCHANGED s_mqtt_connect_done
       \/ /\ Transport = "cellular"
          /\ UNCHANGED <<link, s_connected, s_mqtt_connect_done>>
       \/ /\ Transport = "cellular" /\ link.state = "idle"
          /\ s_connected' = FALSE /\ s_mqtt_connect_done' = FALSE
          /\ UNCHANGED link
    /\ UNCHANGED events

-----------------------------------------------------------------------------
(* mqtt_publish_task: the configuration *)

Goto(next) == pc' = next

\* xQueueReceive: a result, or 500 ms without one.
Receive ==
    /\ pc = "receive"
    /\ \/ queue # <<>> /\ hand' = Head(queue) /\ queue' = Tail(queue)
       \/ queue = <<>> /\ timed_out /\ hand' = NoSample /\ UNCHANGED queue
    /\ timed_out' = FALSE /\ waited' = 0
    /\ Goto("poll")
    /\ UNCHANGED <<configVars, polled, last_generation, s_current_settings, s_backend_connected,
                   s_batch_buffer, timeVars, reportVars, linkVars, gnss_busy, faults, ledgerVars>>

\* config_store_get_generation
Poll ==
    /\ pc = "poll"
    /\ polled' = generation
    /\ Goto(IF generation = last_generation THEN "link" ELSE "apply")
    /\ UNCHANGED <<configVars, queue, hand, last_generation, s_current_settings, s_backend_connected,
                   s_batch_buffer, timeVars, reportVars, linkVars, envVars, ledgerVars>>

\* Mutant of ApplySettings: a client that has not connected yet is not ended.
ApplySettingsNoDeinit(cur) ==
    IF cur = s_current_settings
    THEN UNCHANGED <<s_current_settings, s_backend_connected, linkVars, retry_in>>
    ELSE /\ IF s_backend_connected THEN Disconnect ELSE UNCHANGED linkVars
         /\ s_backend_connected' = FALSE
         /\ s_current_settings' = cur
         /\ retry_in' = IF cur.enabled /\ ~cur.batch_enabled /\ cur.host # NoHost THEN 0 ELSE retry_in

\* apply_settings_if_changed: the client of the old settings goes.
ApplySettings(cur) ==
    IF cur = s_current_settings
    THEN UNCHANGED <<s_current_settings, s_backend_connected, linkVars, retry_in>>
    ELSE /\ Deinit
         /\ s_backend_connected' = FALSE
         /\ s_current_settings' = cur
         /\ retry_in' = IF cur.enabled /\ ~cur.batch_enabled /\ cur.host # NoHost THEN 0 ELSE retry_in

\* The settings are read and applied; a new batch schedule starts at once.
Apply ==
    /\ pc = "apply"
    /\ ApplySettings(mqtt_cfg)
    /\ batch_in' = IF mqtt_cfg.batch_enabled
                      /\ (~s_current_settings.batch_enabled
                          \/ mqtt_cfg.batch_interval # s_current_settings.batch_interval)
                   THEN 0 ELSE batch_in
    /\ last_generation' = polled
    /\ Goto("link")
    /\ UNCHANGED <<configVars, queue, hand, polled, s_batch_buffer, reportVars, envVars, ledgerVars>>

-----------------------------------------------------------------------------
(* mqtt_publish_task: the session *)

\* Mutant of AfterAttempt: the immediate mode does not back off.
AfterAttemptNoBackoff(up) ==
    /\ s_backend_connected' = up
    /\ UNCHANGED retry_in
    /\ Goto(IF ~s_current_settings.batch_enabled THEN "publish" ELSE IF up THEN "transmit" ELSE "receive")

\* Where the loop goes once it knows whether it is connected.  The back-off of the
\* immediate mode counts from before the attempt.
AfterAttempt(up) ==
    /\ s_backend_connected' = up
    /\ IF s_current_settings.batch_enabled
       THEN Goto(IF up THEN "transmit" ELSE "receive") /\ UNCHANGED retry_in
       ELSE Goto("publish") /\ retry_in' = IF up THEN retry_in ELSE Backoff - waited

Attempt ==
    \/ /\ StartAttempt
       /\ s_backend_connected' = FALSE
       /\ Goto("linked")
       /\ UNCHANGED retry_in
    \/ FailAttempt /\ AfterAttempt(FALSE)

\* The immediate mode's part of the loop up to be_connect.
LinkImmediate ==
    /\ pc = "link" /\ ~s_current_settings.batch_enabled
    /\ IF /\ s_current_settings.enabled /\ ~s_connected /\ s_current_settings.host # NoHost
          /\ retry_in = 0 /\ ~gnss_busy
       THEN Attempt
       ELSE /\ s_backend_connected' = s_connected
            /\ Goto("publish")
            /\ UNCHANGED <<linkVars, faults, retry_in>>
    /\ UNCHANGED <<configVars, queue, taskVars, s_batch_buffer, batch_in, reportVars,
                   clockVars, gnss_busy, ledgerVars>>

\* Mutant of Buffered: the bound is off by one.
BufferedOneMore(sample) ==
    IF sample = NoSample
    THEN UNCHANGED <<s_batch_buffer, lost>>
    ELSE IF Len(s_batch_buffer) <= MaxBatchItems
         THEN s_batch_buffer' = Append(s_batch_buffer, sample) /\ UNCHANGED lost
         ELSE lost' = lost \cup {sample} /\ UNCHANGED s_batch_buffer

\* The result joins the buffer; a full buffer loses it.
Buffered(sample) ==
    IF sample = NoSample
    THEN UNCHANGED <<s_batch_buffer, lost>>
    ELSE IF Len(s_batch_buffer) < MaxBatchItems
         THEN s_batch_buffer' = Append(s_batch_buffer, sample) /\ UNCHANGED lost
         ELSE lost' = lost \cup {sample} /\ UNCHANGED s_batch_buffer

\* The batch mode's: buffer the result; in a window, connect.
LinkBatch ==
    /\ pc = "link" /\ s_current_settings.batch_enabled
    /\ Buffered(hand)
    /\ hand' = NoSample
    /\ IF s_current_settings.enabled /\ batch_in = 0 /\ ~gnss_busy
       THEN IF s_connected
            THEN AfterAttempt(TRUE) /\ UNCHANGED <<linkVars, faults>>
            ELSE Attempt
       ELSE /\ s_backend_connected' = s_connected
            /\ Goto("receive")
            /\ UNCHANGED <<linkVars, faults, retry_in>>
    /\ UNCHANGED <<configVars, queue, polled, last_generation, s_current_settings, batch_in,
                   reportVars, clockVars, gnss_busy, serial, published>>

\* The end of be_connect: over WiFi at once, on cellular when the modem has answered.
Linked ==
    /\ pc = "linked" /\ (Transport = "cellular" => s_mqtt_connect_done)
    /\ AfterAttempt(s_connected)
    /\ s_mqtt_connect_done' = FALSE
    /\ UNCHANGED <<configVars, queue, taskVars, s_batch_buffer, batch_in, reportVars,
                   link, s_connected, events, envVars, ledgerVars>>

\* Or it has not in time: mqttDisconnect.
ConnectTimesOut ==
    /\ pc = "linked" /\ Transport = "cellular" /\ waited = ConnectTimeout /\ ~s_mqtt_connect_done
    /\ EndSession
    /\ AfterAttempt(FALSE)
    /\ UNCHANGED <<configVars, queue, taskVars, s_batch_buffer, batch_in, reportVars,
                   s_connected, s_mqtt_connect_done, envVars, ledgerVars>>

-----------------------------------------------------------------------------
(* mqtt_publish_task: publishing.  be_publish fails if the backend is not     *)
(* connected and may fail if it is; its result is only logged.                *)

Accepted(samples) == IF s_connected /\ link.state = "up" THEN SUBSET samples ELSE {{}}

Publish ==
    /\ pc = "publish"
    /\ \E ok \in Accepted(IF s_backend_connected THEN {hand} \ {NoSample} ELSE {}) :
          /\ published' = published \cup ok
          /\ lost' = lost \cup (({hand} \ {NoSample}) \ ok)
    /\ hand' = NoSample
    /\ Goto("position")
    /\ UNCHANGED <<configVars, queue, polled, last_generation, s_current_settings, s_backend_connected,
                   s_batch_buffer, timeVars, reportVars, linkVars, envVars, serial>>

\* Mutant of Transmit: the buffer is kept when a publish failed.
TransmitKeepingFailed ==
    /\ pc = "transmit"
    /\ LET all == Range(s_batch_buffer) IN
       \E ok \in Accepted(all) :
          /\ s_current_settings.flat_telemetry => ok \in {{}, all}
          /\ published' = published \cup ok
          /\ s_batch_buffer' = IF ok = all THEN <<>> ELSE s_batch_buffer
    /\ Goto("position")
    /\ UNCHANGED <<configVars, queue, taskVars, s_backend_connected, timeVars, reportVars, linkVars,
                   envVars, serial, lost>>

\* The whole buffer, one publish for all of it in the flat format; it is emptied either way.
Transmit ==
    /\ pc = "transmit"
    /\ LET all == Range(s_batch_buffer) IN
       \E ok \in Accepted(all) :
          /\ s_current_settings.flat_telemetry => ok \in {{}, all}
          /\ published' = published \cup ok
          /\ lost' = lost \cup (all \ ok)
    /\ s_batch_buffer' = <<>>
    /\ Goto("position")
    /\ UNCHANGED <<configVars, queue, taskVars, s_backend_connected, timeVars, reportVars, linkVars,
                   envVars, serial>>

\* Mutant of TakeReport: the valid flag is not cleared.
TakeReportKeepingValid(kind) ==
    /\ \E ok \in Accepted(IF s_backend_connected THEN {s_pending[kind]} \ {0} ELSE {}) :
          sent' = IF ok = {} THEN sent ELSE [sent EXCEPT ![kind] = Append(@, s_pending[kind])]
    /\ UNCHANGED s_pending

\* The pending report is taken under its mutex and published outside it; what its
\* producer stores in between is pending as if it came later, so this is one step.
TakeReport(kind) ==
    IF s_backend_connected
    THEN /\ s_pending' = [s_pending EXCEPT ![kind] = 0]
         /\ \E ok \in Accepted({s_pending[kind]} \ {0}) :
               sent' = IF ok = {} THEN sent ELSE [sent EXCEPT ![kind] = Append(@, s_pending[kind])]
    ELSE UNCHANGED <<s_pending, sent>>

PublishPosition ==
    /\ pc = "position"
    /\ TakeReport("position")
    /\ Goto("battery")
    /\ UNCHANGED <<configVars, queue, taskVars, s_backend_connected, s_batch_buffer, timeVars, reports,
                   linkVars, envVars, ledgerVars>>

PublishBattery ==
    /\ pc = "battery"
    /\ TakeReport("battery")
    /\ Goto(IF s_current_settings.batch_enabled THEN "close" ELSE "receive")
    /\ UNCHANGED <<configVars, queue, taskVars, s_backend_connected, s_batch_buffer, timeVars, reports,
                   linkVars, envVars, ledgerVars>>

\* The end of a batch window.  The next one counts from before be_connect.
Close ==
    /\ pc = "close"
    /\ Disconnect
    /\ s_backend_connected' = FALSE
    /\ batch_in' = IF s_current_settings.batch_interval > waited
                   THEN s_current_settings.batch_interval - waited ELSE 0
    /\ Goto("receive")
    /\ UNCHANGED <<configVars, queue, taskVars, s_batch_buffer, retry_in, reportVars, envVars, ledgerVars>>

-----------------------------------------------------------------------------
Init ==
    /\ generation = 0 /\ mqtt_cfg \in Settings
    /\ queue = <<>>
    /\ pc = "receive" /\ hand = NoSample /\ polled = NoEpoch /\ last_generation = NoEpoch
    /\ s_current_settings = Unset /\ s_backend_connected = FALSE
    /\ s_batch_buffer = <<>>
    /\ retry_in = 0 /\ batch_in = 0
    /\ s_pending = [kind \in Kinds |-> 0]
    /\ link = Idle /\ s_connected = FALSE /\ s_mqtt_connect_done = FALSE /\ events = <<>>
    /\ timed_out = FALSE /\ waited = 0 /\ gnss_busy = FALSE /\ faults = 0
    /\ serial = 0 /\ published = {} /\ lost = {}
    /\ reports = [kind \in Kinds |-> 0] /\ sent = [kind \in Kinds |-> <<>>]

Task ==
    Receive \/ Poll \/ Apply \/ LinkImmediate \/ LinkBatch \/ Linked \/ ConnectTimesOut
    \/ Publish \/ Transmit \/ PublishPosition \/ PublishBattery \/ Close

Produce == ProduceSample \/ \E kind \in Kinds : QueueReport(kind)

Broker == Connected \/ Disconnected \/ Deliver

Next == Task \/ Produce \/ SetMqttSettings \/ Tick \/ Broker \/ GnssBegins \/ GnssEnds

Spec == Init /\ [][Next]_vars

\* The task runs and time passes; an attempt left alone is answered and the answer
\* delivered; a GNSS fix ends.
LiveSpec ==
    /\ Spec
    /\ WF_vars(Task) /\ WF_vars(Tick)
    /\ WF_vars(Connected) /\ WF_vars(Deliver) /\ WF_vars(GnssEnds)

-----------------------------------------------------------------------------
(* Properties *)

\* Every variable has its type; the buffer stays within MAX_BATCH_ITEMS.
TypeOK ==
    /\ generation \in Nat /\ mqtt_cfg \in Settings
    /\ queue \in Seq(Nat) /\ Len(queue) <= QueueLen
    /\ pc \in {"receive", "poll", "apply", "link", "linked", "publish", "transmit",
               "position", "battery", "close"}
    /\ hand \in Nat
    /\ polled \in Nat \cup {NoEpoch} /\ last_generation \in Nat \cup {NoEpoch}
    /\ s_current_settings \in Settings \cup {Unset} /\ s_backend_connected \in BOOLEAN
    /\ s_batch_buffer \in Seq(Nat) /\ Len(s_batch_buffer) <= MaxBatchItems
    /\ retry_in \in Nat /\ batch_in \in Nat
    /\ s_pending \in [Kinds -> Nat]
    /\ link \in [state : {"idle", "connecting", "up"}, cfg : Settings \cup {Unset}, age : Nat]
    /\ s_connected \in BOOLEAN /\ s_mqtt_connect_done \in BOOLEAN
    /\ events \in Seq({"connected", "refused", "disconnected"})
    /\ timed_out \in BOOLEAN /\ waited \in 0..ConnectTimeout /\ gnss_busy \in BOOLEAN /\ faults \in Nat
    /\ serial \in Nat /\ published \subseteq Nat /\ lost \subseteq Nat
    /\ reports \in [Kinds -> Nat] /\ sent \in [Kinds -> Seq(Nat)]

\* Every result handed to the bridge is waiting, was accepted by the client in one
\* publish, or is lost, whatever the sessions and settings do: no result is
\* published twice and none is both published and given up.
Ledger == INSTANCE SampleLedger
            WITH taken <- serial, reported <- published,
                 pending <- Range(queue) \cup ({hand} \ {NoSample}) \cup Range(s_batch_buffer)
LedgerSpec == Ledger!Spec

\* Over WiFi: a client that is connecting or connected belongs to the settings in
\* effect, which enable MQTT: an attempt begun under older settings neither comes up
\* later nor carries a result to the old broker, and disabling MQTT ends it
\* (apply_settings_if_changed, mqtt_client_bridge.c:71).
ClientMatchesSettings ==
    link.state # "idle" => s_current_settings.enabled /\ link.cfg = s_current_settings

\* Position and battery reports reach the broker at most once and newest last
\* (mqtt_client_bridge.h:42, "Only the most recent pending record is kept").
ReportsInOrder ==
    \A kind \in Kinds : \A i, j \in 1..Len(sent[kind]) : i < j => sent[kind][i] < sent[kind][j]

\* In immediate mode the session comes back after every loss, failed start and
\* GNSS window, although each attempt destroys the client of the one before.
LinkRestored ==
    LET wanted == s_current_settings.enabled /\ ~s_current_settings.batch_enabled
    IN  []<>(s_connected \/ ~wanted)

\* A buffered result does not stay buffered: a window opens, connects and empties
\* the buffer (DEVELOPER_GUIDE.md:712: "the task connects, drains the buffer [...],
\* disconnects").
BatchesSent ==
    LET on == s_current_settings.enabled /\ s_current_settings.batch_enabled
    IN  (on /\ s_batch_buffer # <<>>) ~> (s_batch_buffer = <<>> \/ ~on)

=============================================================================
