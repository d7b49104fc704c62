# TLA+ models of the Open Renewable Lab data logger

The repository is the firmware of a solar-powered data logger (ESP32-S3 with a
cellular modem): it reads sensors on two buses, aggregates them, writes the
results to an SD card and publishes them over MQTT, and is set up through a web
portal. This directory holds specifications of its core, the TLC instances that
check them, and proofs checked by TLAPS.

| file | what it is |
|---|---|
| `ConfigStore.tla`, `MC_ConfigStore.tla` | the configuration: RAM, NVS, generation, the tasks that poll it |
| `ConfigStore_proofs.tla` | proofs about `ConfigStore`, for every value of its constants |
| `SampleLedger.tla`, `SampleLedger_proofs.tla` | what each stage of the data path promises about a result; its proof |
| `SamplingEngine.tla`, `MC_SamplingEngine.tla` | schedulers, sample queue, aggregation, sink queues |
| `SamplingEngine_proofs.tla` | proofs about `SamplingEngine` |
| `SdLogger.tla`, `MC_SdLogger.tla` | the SD card writer task |
| `SdLogger_proofs.tla` | proofs about `SdLogger` |
| `MqttBridge.tla`, `MC_MqttBridge.tla` | the MQTT publish task and its two backends |
| `MqttBridge_proofs.tla` | proofs about `MqttBridge` |
| `Sdi12Bus.tla`, `I2cBus.tla` | the two sensor buses, with the sensors and chips on them and their drivers |
| `SensorBuses.tla`, `MC_SensorBuses.tla` | both buses with all their users: schedulers, battery monitor, portal |
| `SensorBuses_proofs.tla` | proofs about `SensorBuses` |
| `Aggregator.tla` | running statistics and what they are statistics of |
| `CellularTransport.tla` | the modem's start-up, registration and GNSS fixes |
| `GnssPosition.tla`, `MC_GnssPosition.tla` | the position task, with the modem and the aggregator |
| `GnssPosition_proofs.tla` | proofs about `GnssPosition`, and about `Aggregator`'s arithmetic |
| `Network.tla` | the hotspot's policy, the WiFi modes, the station's link |
| `AuthSessions.tla` | the portal's login sessions |
| `PortalAccess.tla`, `MC_PortalAccess.tla` | both together |
| `PortalAccess_proofs.tla` | proofs about `PortalAccess` |
| `*.cfg` | one TLC run each |
| `PROJECT.json` | index: components, runs, mutants, source map, findings, hazards, theorems |

## 1. Inventory of the system

All paths are below `src/components/`.

**config_store** (`config_store/config_store.c`). State: `s_config` (at most 32
variables, settings groups, a generation counter), `s_next_var_id`, a mutex, one
JSON blob in NVS. Operations: load at boot, add/update/delete a variable, one
setter per settings group, replace all (import), factory reset (NVS only),
getters. Everybody else learns of a change by polling the generation. Hard: saves
that fail after RAM has changed, restarts between save and answer, an id space
that must stay unique across imports, pollers that read generation and
configuration in two critical sections. Correct when: ids are unique and not
recycled, no edit is missed, a restart brings back what was acknowledged.

**sampling_engine** (`sampling_engine/sampling_engine.c`, `aggregator.c`). State: a
schedule per bus task, `s_sample_queue` (32), `s_agg_table` (32 windows), up to
`MAX_RESULT_SINKS` sink queues. Tasks: `bus_scheduler_task` twice (SDI-12, I2C)
and `aggregation_task`. Hard: three tasks notice a configuration edit at three
different moments; full queues; a driver that hangs; a consumer that never drains.
Correct when: a sample ends in exactly one window of its own variable, in order, or
is lost as a whole; windows survive unrelated edits and close on time.

**sd_logger** (`sd_logger/sd_logger.c`). State: result queue (32), position queue
(4), up to 8 interval groups with a pending row each, files on the card. One task.
Hard: pending rows across configuration edits, missing sensors, failing files and
resets; the file name must change whenever the header does. Correct when: each
result is in at most one row, rows fit their header and stand in order, an
incomplete row is eventually written.

**mqtt_client** (`mqtt_client/mqtt_client_bridge.c`, `backend_esp_mqtt.c`,
`backend_walter_mqtt.cpp`). State: the settings in effect, batch buffer (256),
back-off and batch schedules, newest pending position and battery report; the
backend's connected flag and semaphore. One task, event handlers of the client
libraries, producers in other tasks. Hard: asynchronous connections, a modem that
answers late, GNSS windows that take the modem away, edits while an attempt is in
progress. Correct when: a result is published at most once, no client outlives its
settings, sessions come back, batches are sent.

**cellular_transport, gnss_position, time_sync** (`cellular_transport/`,
`gnss_position/`, `time_sync/`). State: `s_registered`, `s_gnss_busy`, a semaphore with
the last event, the last fix; the position task's settings and window; the clock.
Tasks: `cellular_task` polls the registration every 5 s, the position task acquires
fixes, the modem library calls `gnss_event_handler`. Hard: late events, a restart of
LTE that is refused, the registration that goes during a fix. Correct when: the modem
returns to LTE after every fix, and a record is made of the fixes of its window.

**net_manager, ap_policy** (`net_manager/`). State: the policy's state, a grace flag, a
count of clients, whether WiFi is started, whether the station is connected, two
timers. Hard: the timer task's callbacks and the event task's handlers change the policy
and the radio without a lock. Correct when: the hotspot is on while it is needed and
off afterwards, and the station finds back to its network.

**web_portal** (`web_portal/`). One HTTP server task; handlers call config_store, the
bus scans and one-shot readings; four login sessions with sliding expiry (`auth.c`);
import, export, factory reset and a 500 ms delayed reboot (`api_settings.c`). Correct
when: what it confirms is true, every request is answered, and a session ends for a
reason only.

**sdi12_bus, i2c_bus, onboard_i2c_bus, i2c_sensors**. A mutex per bus, held for one
command or transaction; the I2C bus also has a table of device handles. A reading is
several of these, so readings of two tasks interleave; a time-out on I2C resets the bus
under the mutex. Correct when: a value belongs to the command it was asked with, no
transaction runs on a handle of a deleted bus, every caller gets an answer.

**battery_monitor** reads the charger on the I2C bus and hands the voltage to the
bridge. **device_id, board_pins, stub_sensor** are constants and pure functions;
**main** is the boot order.

Data flows one way: drivers -> schedulers -> sample queue -> aggregation -> sink
queues -> SD writer and MQTT task. Nobody waits for the stage behind: a full queue
loses the new item. Control flows through config_store's generation, which every
task polls on its own.

## 2. Plan

1. *Written*: `ConfigStore`; the data path `SamplingEngine`, `SdLogger`, `MqttBridge`
   with the one abstract specification it shares, `SampleLedger`; the buses and their
   users, `Sdi12Bus` and `I2cBus` composed in `SensorBuses`; the modem and the position
   task, `CellularTransport` and `Aggregator` composed in `GnssPosition`; the ways to the
   portal, `Network` and `AuthSessions` composed in `PortalAccess`.
2. *Proved*: see section 5.
3. Every invariant and every action property of the passing runs has its theorem. What is
   left to the runs is liveness.
4. A composition still possible: `CellularTransport` with `MqttBridge`, which today takes
   the GNSS window as an input. Both are checked against the same interface,
   `cellular_transport_gnss_busy`: `LteOffOnlyForFix` is what the bridge relies on.

## 3. Modules and code

### ConfigStore

One action per mutator, because each holds `s_mutex` from the change in RAM to the
end of `nvs_save_blob`; the portal's server is one task, so mutators do not overlap
either. `\E ok` in `Commit` is the outcome of the save. A failed save leaves the old
blob (`nvs_set_str` failed) or the new one (only `nvs_commit` failed); RAM keeps the
change. The settings groups are abstract; the portal's secrets (password hash,
WiFi and MQTT passwords, SIM PIN) are groups of their own because `export_handler`
blanks them and `import_handler` restores them from RAM. `Import` takes a file this device has
exported; one made by hand or by another device, which the handler does not tell apart, is
left to `SamplingEngine`. It bumps the *file's* generation, as `config_store_replace_all` does, and recomputes the next id.
`FactoryReset` changes NVS only. `Crash` stands for power loss, panic and the delayed
`esp_restart`; `Boot` is `config_store_init`, with a blob that is missing, readable,
or there but not readable this once. A poller's `PollGeneration` and `PollFetch` are
two steps, in the order all four polling tasks have them.

`acked`, `usedIds` and `restored` are history. `acked` is what the return codes allow a
restart to find: the last configuration reported saved and those whose save was
reported failed since.

### SamplingEngine

`SchedPoll`, `SchedScan` and `SchedRead` are the three critical points of
`bus_scheduler_task`: read the generation, fetch the variables and compute what is due,
read one sensor and queue the sample. `AggWake` takes a message or times out *and then*
reads the generation, as `aggregation_task` does; `AggRun` rebuilds the table if need
be, folds the sample, publishes and reopens the windows that are due. A window keeps
its samples rather than sums, so that properties can speak of them. `Closing` are
the windows a turn publishes, `ById` their order in `s_agg_table`. `WindowsInOrder` speaks
of places: `WindowOf(id, p)` is the variable's window in the p-th result, or its open
window after the last one; it says that the sample numbers rise within each and from each to
the next, and on to what still waits in the queue. The
configuration is an input here: `EditConfig` for the mutators that raise the generation
by one, `RestoreFile` for `config_store_replace_all`, which replaces all variables and sets
the generation to that of the file plus one, whoever exported it. The file's number may
bring back one the tasks have acted on (section 6); `past`, a history of the generations
there were, tells these runs apart (`NumbersTellApart`).
A definition is a bus, enabled or not, two intervals and a *kind*, which stands for
everything that makes two readings incomparable (sensor, unit, calibration).

### SdLogger

The loop of `sd_writer_task` step by step (`pc`): take a result, in the long format
write it, in a wide format poll the generation, flush all groups and regroup, find
the group, flush its row if the variable reports again, store the value, flush a
complete row, then check the timeouts and drain the positions. A file is identified by
what its name is made of: interval, column signature, day. `Restart` loses RAM and keeps
the card. A file that cannot be opened is a disjunct of `FlushRow`. A variable's
name, unit and aggregates are one abstract value; `SignatureLen` says how many of them
fit the 2048-byte signature buffer. `mixed` is a history: the files there were when the
wide format changed.

### MqttBridge

The loop of `mqtt_publish_task` step by step. The two clients are external and modelled
from how the backends drive them: esp-mqtt connects by itself, reports from its own
task and reconnects; the modem answers an attempt once, its events arrive in order
but possibly late, `mqttDisconnect` ends an attempt or a session, `mqttConfig` fails
unless the modem is idle. The semaphore, the drain before `mqttConnect`, the ten
second wait and the disconnect after it are modelled. A tick is the 500 ms the task
waits for a result; the rest of an iteration takes no time. Delays of events count
as faults. A pending report is taken under its mutex and published outside it in one step
(`TakeReport`): what its producer stores in between touches nothing the publishing reads,
and is as if it came after. Not modelled: a device built without a transport, topics and payloads,
certificates.

### Sdi12Bus, I2cBus, SensorBuses

`sdi12_measure_and_read` is `SendMeasure`, `MeasureAnswered`, `WaitOver`, `SendReadData`,
`DataAnswered`; the mutex is taken by the two sends and given back by the two answers, as
in `sdi12_send_command`, and is free during the wait. A command's break reaches every
sensor and may abort what it measures. What a sensor holds is modelled by the set of
calls it is good for (`fresh`): those whose `aM!` came no later than the measurement.
A wait is none, full, or cut short by `SDI12_MAX_MEASURE_WAIT_S`.

An I2C transaction is `CheckBus` (`s_initialized`, read without the mutex), `LockBus`
(mutex and `get_or_add_device`) and `Transfer`, which is answered, not acknowledged, or
timed out with `reset_bus_locked`. A bus is a number, a device handle the bus it was
added to. Each driver is the list of its transactions and delays; the charger's driver
has `ensure_measurement_system_enabled` and its flag, shared by all tasks. The result a
chip holds is modelled by the call that triggered it; the charger may lose its power, and
with it its measurement system, at any moment (`ChargerLosesPower`). `SensorBuses` adds the callers.
The portal's server is one task: while it previews or scans it does nothing else.
The I2C bus may be missing from the boot on (`register_bus_driver`); then variables come
from the stub, while battery monitor and scan find the bus off.

### CellularTransport, Aggregator, GnssPosition

`acquire_gnss_fix` is `AcquireBegins`, `SuspendLte`, `RequestFix`, `FixSignalled` or
`FixTimesOut`, `ResumeLte`; between any two of them `cellular_task`, the network and the
modem's events take their turn. Any command may be refused. An event may come after the
wait for it is over. `s_gnss_busy` is cleared with the end of the turn, a moment later than in
the code. `LoopBegins` and `LoopEnds` are the two halves of a turn of
`gnss_position_task` around the fix; the window's accumulators are those of
`Aggregator`, over integers chosen so that Welford's divisions have no remainder
(`ExactQuotients`); the reference sums are recursive functions over the samples.

### Network, AuthSessions, PortalAccess

Callbacks of esp_timer run in the timer task, WiFi events in the event task.
`set_state` ends where it calls back; `apply_wifi_mode` goes on in `ModeDecided`
and the calls of the driver, each a step of its own, in the order the tasks
made them. The driver, the stations on the hotspot, the site's network and DHCP are
external. Assumed of the driver: it serves one call after the other and reports each
station that goes, also those it drops when the hotspot ends. `EditTransport` is the
portal's change of the transport; the radio's mode follows at the next change of the
policy's state, the station's network only at the restart: `sta_configured` says whether the
driver has one, which it has after a boot with WiFi, and otherwise perhaps from an earlier
boot, as the code leaves the driver's own storage on. Without one `esp_wifi_connect` does
nothing; any other error of it on an idle station that has a network is assumed not to
occur. No station associates in the moment between the start of the hotspot and the
registration of the policy's handlers. A session's time is what is left of it; every request
takes one unit. `since` is a history, kept apart from the table: how long each owner has made no
request. In `login_handler` the password was right; a wrong one changes nothing.

### SampleLedger

Every item taken is pending, reported or lost; it is in one of the three, reported
items stay reported, lost ones stay lost. `LedgerSpec` in each of the three modules is
this specification under that module's mapping of *pending*: for example queue, hand
and pending rows of the SD writer.

## 4. Runs

All runs finish. `SensorBuses` checks for deadlock. In the others deadlock is not
checked, because the bounds on time, edits, samples and moves let every instance come to
a stop that the device does not have.

| run | bounds | what it shows |
|---|---|---|
| `ConfigStore` | 2 default variables of at most 3, ids to 5, 2 edits, 2 failed saves, 1 poller | `UniqueIds`, `IdsNotRecycled`, `NoMissedEdit`, `AckedSurvivesRestart` and, with fair pollers, `PollersConverge` |
| `ConfigStore_missed` | the same | violated: `NoMissedMutation`, by an import |
| `SamplingEngine` | 2 ids, 3 definitions, 2 edits or restored files, 2 samples, queues of 1 | `WindowsInOrder`, `LedgerSpec`, `FreshSampleFolded`, `RebuildKeepsWindows`, `LabelsAreCurrent` |
| `SamplingEngine_live` | 3 variables on 2 buses, no edit, a sink of 1 | `WindowsClose`, `BusesAreIndependent` |
| `SdLogger_rows` | 2 variables, one interval, simple and TOA5, 2 edits, 3 results | `PendingConsistent`, `ColumnsAligned`, `FilesInOrder`, `LedgerSpec` |
| `SdLogger_groups` | 2 intervals for 1 group, long and wide, positions, 3 results | `LedgerSpec` where results fall outside the groups, `RowsFlushed` |
| `MqttBridge_wifi` | 5 settings, 1 edit, 3 results, 2 reports, 2 faults, buffer of 2 | `ClientMatchesSettings`, `ReportsInOrder`, `LedgerSpec`, `LinkRestored` |
| `MqttBridge_modem` | the same over cellular, 1 result, 2 faults | `LinkRestored`, `BatchesSent` |
| `MqttBridge_livelock` | batch over WiFi, a broker that takes 2 ticks | violated: `BatchesSent` |
| `SensorBuses` | 5 stations, 1 SDI-12 sensor on 2 addresses, 5 chips with one driver each, 2 samples an average, 2 polls, room for 1 handle, 1 reset, losses of the charger's power | `FreshReading`, `HandlesOfLiveBus`, `OwnResultOnly`, `PortalAnswers` |
| `GnssPosition` | 3 fixes, 2 values, 2 refused commands, 1 unanswered request, 3 settings, 1 edit | `LteOffOnlyForFix`, `RecordIsItsWindow` |
| `PortalAccess` | 2 stations, a table of 2 sessions, 3 logins, time-out 2, 4 moves of people and network, 1 refused mode change | `HotspotFollowsPolicy`, `StaStatusConverges`, `SessionsEndForAReason` |

Why the bounds are enough. Ids interact in pairs, and with two default variables a
count and a largest id differ after one deletion. Two generations are what it takes to
miss one. Queues of length one are full as soon as two items meet. Two variables make
a row incomplete, and two edits make a group list stale twice. Time runs as far as
one whole interval and its grace period need. Two faults let one recovery be disturbed
by another. On a bus the tasks interact through one sensor or chip and through the
mutex; the five stations put each driver under two tasks, the charger under three, and
the handle table, with room for one device, under two chips. One reset, which may fail,
changes the bus under the callers that wait. A file restored after one edit
repeats a generation or brings a new one. Three fixes make a window of
two and one after it, or a late event between two requests. Two stations on the hotspot
tell the last from another. A table of two sessions is full with a third login.
Where a bound hides a case this is said below.

Each property has a *mutant*, an operator placed before the definition it replaces and
commented as such: a plausible bug (a bound off by one, a flag not cleared, a check
dropped) under which TLC finds the property violated. `PROJECT.json` lists them.

Fairness. `ConfigStore`: each poller's two steps, since every turn of the tasks is
bounded by a `vTaskDelay` or a queue timeout. `SamplingEngine_live`: time, the
aggregation task, and the scheduler of a bus that answers; none for consumers or for
the other bus. `SdLogger_groups`: time and the writer task; none for producers.
`MqttBridge`: time, the publish task, and that an attempt left alone is answered, an
event delivered, a GNSS fix ended (the fix has a timeout of its own); none for
producers, edits or faults, which are bounded. `SensorBuses`: strong fairness for a task
in a call, because a FreeRTOS mutex goes to whoever waits for it and every task that
uses it again first lets go of the processor; sensors and chips end what they started;
nothing makes a scheduler or the portal begin a reading. `PortalAccess`: timer
callbacks, the event task and the driver's answers; strong for the reconnect timer,
whose callback may find the other timer's callback running; nothing is asked of people or
of the network. `GnssPosition` has safety properties only and states no fairness.

## 5. What is proved

`ConfigStore_proofs` proves, for every set of definitions, groups, values and pollers
and every bound, from `StoreAssumption` only:

- `TypeCorrect`: `Spec => []TypeOK`;
- `IdsAreUnique`: `Spec => []UniqueIds`;
- `AckedConfigSurvives`: `Spec => AckedSurvivesRestart`;
- `NoEditIsMissed`: `Spec => []NoMissedEdit`;
- `IdsStayRetired`: `Spec => IdsNotRecycled`.

`UniqueIds` is not inductive: RAM is replaced by the blob at boot and by the backup at
an import. The invariant `IInv` therefore also says that the ids in the blob and in
the backup are distinct, and `StoredInAcked`, that what is stored is among what the
callers were told (the defaults standing for an absent blob). Each mutator is reduced to
one lemma, `CommitKeepsIInv`: an edit whose new record has distinct ids below the new next
id preserves `IInv`, whether the save succeeds or not. The lemmas before it say what
appending, updating and removing an entry do to type, length and ids.
`AckedConfigSurvives` follows from `StoredInAcked` before the boot. `NoMissedEdit` needs
`PollInv`: as long as no backup has been restored no poller has seen or read a
generation above the store's. That is why reading the generation *before* the
configuration is safe. `IdsStayRetired` rests on `UsedIdsInv`: as long as none has been
restored, every id ever given is below the next one.

`SampleLedger_proofs` proves `NothingForgotten`: in the ledger each item taken is
pending, reported or lost, and never two of these. The three components below are each
proved to implement the ledger, and each proof module instantiates this theorem, so that it
holds of them without another induction (`NoSampleForgotten`, `NoValueForgotten`,
`NoResultForgotten`).

`SamplingEngine_proofs`, for any variables, buses, definitions, sinks, queue lengths, edits
and samples, from `EngineAssumption`:

- `TypeCorrect`: `Spec => []TypeOK`;
- `SamplesStayInOrder`: `Spec => []WindowsInOrder`;
- `SamplesAccounted`: `Spec => LedgerSpec`, and from it `NoSampleForgotten`;
- `EditsKeepWindows`: `Spec => RebuildKeepsWindows`;
- `FirstSampleCounts`: `Spec => FreshSampleFolded`;
- `LabelsFollowEdits`: `Spec => LabelsAreCurrent`.

`Inv` has four parts. `Types`; `OrderInv`, which adds to `WindowsInOrder` that every sample
in memory has a number given out before and that no number is held by two variables
(without it a sample could turn up in the window of another one); `LostInv`, that a lost
sample is nowhere else; `LabelInv`, that a table built for the current generation has
exactly the enabled variables, with their definitions, as long as no generation has been
repeated, and that what the aggregation has seen is a generation there has been. After a
file that repeats one the code breaks what `FreshSampleFolded` and `LabelsAreCurrent` say, so
both exempt the turns that come after it. One lemma says what a turn of `aggregation_task` does to a variable's windows:
they move one place back, and the open one begins anew or goes on. `ByIdIs` proves that
a finite set of ids has its elements in increasing order, by counting those not above
each.

`SdLogger_proofs`, for any variables, formats, intervals, capacities, edits, results and
resets, from `LoggerAssumption`:

- `TypeCorrect`: `Spec => []TypeOK`;
- `RowsStartWithAValue`: `Spec => []PendingConsistent`;
- `RowsInOrder`: `Spec => []FilesInOrder`;
- `RowsAccounted`: `Spec => LedgerSpec`, and from it `NoValueForgotten`;
- `ColumnsStayAligned`: `Spec => []ColumnsAligned`.

The order in the files rests on a chain: what is in a file is older than what its
variables have pending (`Behind`), that is older than the result in hand, and that than the
queue (`Older`, `WaitsInOrder`). A value is stored only in an empty place (`PlaceFree`)
and no two groups share a variable or a value (`GroupsApart`), so no pending value is
overwritten. `ColumnsAligned` compares a row's columns with the header's when both fit the
signature buffer, and its format when the file is not `mixed`; without either condition it
is false (section 6). Of `LoggerAssumption`, that ids and intervals are
finite is true of any configuration, and that `InitialVars` is a function on some ids says
no more than that it is a table.

`MqttBridge_proofs`, for both transports, any settings, lengths, faults and reports:

- `TypeCorrect`: `Spec => []TypeOK`, with the bound of the batch buffer;
- `ResultsAccounted`: `Spec => LedgerSpec`, and from it `NoResultForgotten`;
- `ReportsStayInOrder`: `Spec => []ReportsInOrder`;
- `WifiClientIsCurrent`: `Spec => []ClientMatchesSettings`, *if* `Transport = "wifi"`.

A result is in the batch buffer, in the hand or in the queue, in this order of age
(`WaitingInOrder`), and the hand is empty outside the steps that deal with it
(`HandInPlace`): so none is published or buffered twice. `ReportsInv` puts a bound
between what was sent of a kind, what waits, and the last report. The hypothesis of
`WifiClientIsCurrent` is not for the prover's sake: over the modem the property is false,
because an attempt left open by the late answer of the one before outlives an edit
(section 6), and no run of the modem claims it. TLC finds this if `MqttBridge_modem` is
asked for `ClientMatchesSettings`.

`SensorBuses_proofs` proves, for any number of sensors and chips, any drivers and
stations and every bound, from the assumptions of the three modules:

- `TypeCorrect`: `Spec => []TypeOK`;
- `ReadingsAreFresh`: `Spec => []FreshReading`;
- `HandlesAreLive`: `Spec => []HandlesOfLiveBus`;
- `ReadingsAreOwn`: `Spec => OwnResultOnly`, *if* `OneCharger`: at most one chip is an
  LTC4015.

`FreshReading` speaks of readings that have ended. What holds on the way is
`MeasuredForMe`: a sensor whose `aM!` a call has answered measures for that call, or has
data for it, or was aborted, whatever others sent since. It needs `WireIsMine` (whoever
has a command on the wire holds the mutex, so no second command falls between a command
and its answer) and `HeardBySensor`. For the handles, a reset must not happen while
somebody else is in a transfer (`BusIsMine`), and a plan must never run empty in the
middle of a call (`PlansComplete`). A step on one bus leaves the other alone, so each
bus has its own invariant, `SdiIInv` and `I2cIInv`, and one lemma per action.

`OwnResultOnly` adds `ReadingsInv`: a driver's list of transactions is in a fixed order
(`WellOrdered`), and as long as no other trigger met the reading on the chip, the chip is
converting for it, or holds its result from the delay to the fetch (`HoldsFor`). The
charger's driver keeps one flag for the chip's measurement system, whatever the address:
the flag tells the truth (`ChargerOn`) of one charger, as long as that has not lost its
power. `battery_monitor.c:12` says the chip
has a fixed address, which is why there is one.

`GnssPosition_proofs` proves, for any number of fixes, refusals and edits:

- `TypeCorrect`: `Spec => []TypeOK`;
- `LteComesBack`: `Spec => []LteOffOnlyForFix`;
- `RecordsAreExact`: `Spec => []RecordIsItsWindow`.

The strengthening for the first two is `LteFollowsCall`: LTE is off only while a call that
saw the device registered stands between `SuspendLte` and `ResumeLte`, and such a call has
set `s_gnss_busy`. It is `was_registered`, remembered in the call, that makes it inductive:
`s_registered` itself goes while the fix lasts.

`RecordsAreExact` is about Welford's method as well as about the task. `Accumulates` says
that `mean` times the count is the sum of the samples and `m2` the sum of their squares
less the square of the mean, once for each; `AddAccumulates`, that
`aggregator_add_sample` keeps it whenever the count divides the new sum; `AccumulatesGives`,
that the mean, the extremes and the variance are then those of the samples. The sums are
recursive functions; that they exist and grow by the sample appended (`SumOfAppend`) is
shown by the least index at which they would not. `FixJoins` shows that the count
divides the sum: by `ExactQuotients`, every count up to `MaxFixes` divides every fix, and
by `FixesCounted` the window, the semaphore and the call together hold no more fixes than
the modem found. `ExactQuotients` can be met for every `MaxFixes`, by the multiples of a
common multiple of the numbers up to it; it stands for division without rounding.

`PortalAccess_proofs`, for any number of sessions, stations, logins, moves and refused
changes of mode:

- `TypeCorrect`: `Spec => []TypeOK`;
- `HotspotIsRight`: `Spec => []HotspotFollowsPolicy`;
- `LoginsLast`: `Spec => SessionsEndForAReason`.

That the count of clients is a natural number is not a matter of types: it is lowered when
the event task comes to an event, after the station has gone. `Balanced` says that
the events in the queue lead from the policy's count to the number of stations on
the hotspot without ever falling below none. For the hotspot, the calls of the two tasks
before the driver are at most one each (`CallsInv`); `PairInv` and `StartInv` say what two of
them in a row leave of the mode, and `ModesInv` that, without a refused call, the last one
agrees with the policy's state or a task is still about to change it. For the sessions
idleness is counted twice, by the table in what is left of a slot's time and by the history
`since`, and the invariant is that the two agree: `Linked` says that a slot in use whose
time is not over has the time-out less what its owner has been idle. So the slot with the
least time left is that of the one idle for the longest.

The whole data path is covered this way: every invariant and every action property of the
passing runs is a theorem. Only model-checked is liveness, which is out of the
prover's reach (it rests on fairness and so on ENABLED): `PollersConverge`, `WindowsClose`,
`BusesAreIndependent`, `RowsFlushed`, `LinkRestored`, `BatchesSent`, `PortalAnswers` and
`StaStatusConverges`.

## 6. Where code and documentation differ

Shown by runs:

- *An import can go unnoticed* (`ConfigStore_missed`). The generation after an import is
  the file's plus one. If the file was downloaded just before the last edit, this is the
  generation the tasks have already acted on. The aggregation then keeps its table: the
  samples of a variable new in the file are thrown away, and results keep the labels of
  before (`sampling_engine.c:247`); a
  scheduler keeps its schedule, and a variable new in the file is not sampled.
  `FreshSampleFolded`, `LabelsAreCurrent` and `BusesAreIndependent` exempt this. The answer to an import asks for a reboot (`api_settings.c:461`), which ends it.
- *No batch over a slow WiFi broker* (`MqttBridge_livelock`). In batch mode each turn of
  the loop calls `init` again, which destroys the esp-mqtt client that is still
  connecting. The immediate mode has a back-off of 15 s and is not affected.

Seen in the source and not given a run. Data path and settings:

- a redefined variable keeps its id and so the samples accumulated under its old
  definition: a window may mix quantities (`sampling_engine.c:203`);
- the name of a wide file depends on the columns, not on simple or TOA5, so after a
  switch the day's file has rows of both (`sd_logger.c:208`; `USER_MANUAL.md:555`);
  `ColumnsAligned` exempts the files there are at the switch;
- the event of a modem attempt that timed out ends the wait of the next one, and the
  attempt then left open outlives an edit of the settings (`backend_walter_mqtt.cpp:195`);
- the settings handlers and the update and delete handlers answer ok whatever the
  save returned (`api_settings.c:96`, `api_variables.c:108`, `:129`);
- a mutator in the 500 ms between a factory reset and its reboot saves the old record
  again (`api_settings.c:495`);
- the generation is bumped although the save fails (`config_store.c:485`;
  `config_store.h:32` says "on every successful mutation");
- a blob that cannot be read once, even for want of memory, is overwritten with the
  defaults (`config_store.c:510`);
- the defaults hold three variables (`config_store.h:14` says zero);
- a column signature longer than its buffer is cut, so a change behind the cut keeps
  the file name (`sd_logger.c:193`); `ColumnsAligned` speaks of columns that fit;
- RECORD numbers restart with each edit and boot while the day's file goes on
  (`sd_logger.c:72`), and a result lost to a full queue is not in the logger's drop
  count (`sd_logger.h:46`);
- a full batch buffer drops the newest sample (`mqtt_client_bridge.c:454`; the comment at
  `:26` says the oldest);
- in immediate mode the main loop connects, not `apply_settings_if_changed`
  (`DEVELOPER_GUIDE.md:706`).

Buses:

- the HDC1080, LPS22HB and ADS111x drivers trigger and read in two transactions with the
  mutex free in between; a preview of another channel meanwhile makes the scheduler read
  the preview's value. `i2c_bus.h` and `DEVELOPER_GUIDE.md` say tasks share the bus
  safely, which is so for a transaction. `OwnResultOnly` excuses this, and says that but
  for a result nobody fetched and a charger without power nothing else mixes readings up;
- a charger that loses its power while the processor runs reads as unmeasured until the
  reboot: its flag stays set (`ltc4015.c:93` says so);
- the LPS22HB's ready bit of a result nobody fetched ends the next poll too early;
- the drivers of HDC1080 and LPS22HB call `i2c_bus`; nobody calls `onboard_i2c_bus` after
  its init, although `app_main.c:112` says readings are routed to it;
- another task's command during the wait can abort an SDI-12 measurement; that reading
  then fails, or has no value;
- an I2C bus that cannot be created anew stays off until the reboot (`i2c_bus.c:122`), and
  one that is missing at boot is replaced by the stub, whose values are logged like any;
- `sdi12_scan_addresses` takes any response for the address it asked (`sdi12_bus.c:305`).

Modem and position:

- `cellular_transport.cpp:224` says `cellular_task` keeps retrying the registration; it
  polls only. If `setOpState(FULL)` is refused after a fix LTE stays off: at the next fix
  `s_registered` is false, so `start_lte_connect` is not called again;
- `s_registered` is up to 5 s old when a fix begins;
- a GNSS event of a request that timed out answers the next one (`:242` drains only what
  is there at that moment), so a fix may be a minute old and sets the clock to its time;
- if any command of `cellular_transport_init` is refused there is no task, no fix and no
  other try until the reboot.

Network and sessions:

- a refused change of the WiFi mode is logged and not tried again: policy and radio differ
  until the next change of state (`net_manager.c:81`); `HotspotFollowsPolicy` is claimed
  for runs without one;
- the hotspot goes off under a client that associates as the grace timer expires, before
  its event is handled; `USER_MANUAL.md:669` says it stays on for as long as a device is
  connected. It is switched on again when the event is handled;
- a transport changed to WiFi brings the station up at the next change of the policy's
  state, but its network is set only at boot (`net_manager.c:166`): `esp_wifi_connect` then
  fails without an event, its error is ignored (`:109`, `:118`) and nothing tries again, or the
  driver connects to the network of an earlier boot. The portal and `USER_MANUAL.md:656` ask
  for a reboot; `StaStatusConverges` is claimed of a station that has a network;
- the hotspot is started (`net_manager.c:177`) before the policy's handlers are there
  (`ap_policy.c:65`): a station that associates in between is not counted;
- `s_sta_connected` is cleared by the loss of the link only, not by that of the address;
- the cookie's `Max-Age` of 30 minutes counts from the login, the server's from the last
  request (`auth.c:159`, `:122`; `USER_MANUAL.md:627`);
- a wrong password holds up the one server task for a second (`auth.c:145`), and a new
  password ends no session.

## 7. Not modelled

Code without callers: `onboard_i2c_bus` after its init, `sdi12_change_address`,
`net_manager_force_ap_on`. Code without state of its own that another component depends
on: request parsing, JSON text, CSV cells, topics and payloads, conversion formulas of
the chips, the bits of an SDI-12 character, the captive DNS server, read-only queries,
board constants, the device id, the stub sensor's values and the portal page. SNTP runs
inside the system's library and sets the clock without a call this code sees;
`SdLogger` takes the day of a time stamp as an input, so that a jump of the clock is
covered. That the SDI-12 bus may be missing at boot, and the exits for want of
memory, are left out. The wrap of the 16-bit variable id after 65535 additions lies
beyond `MaxId`. Doubles are integers in `Aggregator`: rounding is not modelled.
