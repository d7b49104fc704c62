----------------------------- MODULE SensorBuses -----------------------------
(***************************************************************************)
(* Who uses the sensor buses: the scheduler task of each bus (sampling_    *)
(* engine.c), the battery monitor task, and the portal's one server task,  *)
(* which previews a variable on either bus or scans one (api_variables.c,  *)
(* api_bus.c) and answers one request at a time.                           *)
(***************************************************************************)
EXTENDS Sdi12Bus, I2cBus

CONSTANT Stations   \* configurations: [sdi : variables <<addr, index>>,
                    \*   i2c : addresses read for a variable, battery : BOOLEAN]

ASSUME StationAssumption ==
    /\ SdiTasks = {"sdi12_sched", "httpd"}
    /\ I2cTasks = {"i2c_sched", "httpd", "battery_mon"}
    /\ \A s \in Stations :
          /\ s.sdi \subseteq SdiAddr \X Nat
          /\ s.i2c \subseteq I2cAddr
          /\ s.battery => \E a \in I2cAddr : Driver[a] = "ltc4015"

VARIABLES
    station,        \* the configured variables
    bus_driver      \* sampling_engine's driver for BUS_TYPE_I2C

vars == <<sdi_vars, i2c_vars, station, bus_driver>>

\* app_main registers the stub sensor when the bus could not be created.
register_bus_driver ==
    bus_driver = IF i2c_initialized THEN "i2c_variable_read" ELSE "stub_sensor_read"

Init == SdiInit /\ I2cInit /\ station \in Stations /\ register_bus_driver

\* The configured variables that are read from the bus, and not from the stub.
I2cVariables == IF bus_driver = "i2c_variable_read" THEN station.i2c ELSE {}

PortalIdle == sdi_call["httpd"] = SdiIdle /\ i2c_call["httpd"].phase = "idle"

-----------------------------------------------------------------------------
\* bus_scheduler_task: the variables of a bus are read one after the other.
ScheduledRead ==
    \/ \E v \in station.sdi : SdiRead("sdi12_sched", v[1], v[2]) /\ UNCHANGED i2c_vars
    \/ \E a \in I2cVariables : I2cRead("i2c_sched", a) /\ UNCHANGED sdi_vars

\* battery_monitor_task reads the battery voltage from the charger.
BatteryRead ==
    /\ station.battery
    /\ \E a \in I2cAddr : Driver[a] = "ltc4015" /\ I2cRead("battery_mon", a)
    /\ UNCHANGED sdi_vars

\* preview_handler, through sampling_engine_read_once: one reading of a
\* configured variable.
preview ==
    /\ PortalIdle
    /\ \/ \E v \in station.sdi : SdiRead("httpd", v[1], v[2]) /\ UNCHANGED i2c_vars
       \/ \E a \in I2cVariables : I2cRead("httpd", a) /\ UNCHANGED sdi_vars

\* sdi12_scan_handler and i2c_scan_handler
scan ==
    /\ PortalIdle
    /\ \/ SdiScan("httpd") /\ UNCHANGED i2c_vars
       \/ I2cScan("httpd") /\ UNCHANGED sdi_vars

SdiTaskStep(t) == SdiStep(t) /\ UNCHANGED i2c_vars
I2cTaskStep(t) == I2cStep(t) /\ UNCHANGED sdi_vars
SensorStep(a) == SensorCompletes(a) /\ UNCHANGED i2c_vars
ChipStep(a) == ChipConverts(a) /\ UNCHANGED sdi_vars
PowerLoss(a) == ChargerLosesPower(a) /\ UNCHANGED sdi_vars

Fixed == UNCHANGED <<station, bus_driver>>

Next ==
    /\ \/ ScheduledRead \/ BatteryRead \/ preview \/ scan
       \/ \E t \in SdiTasks : SdiTaskStep(t)
       \/ \E t \in I2cTasks : I2cTaskStep(t)
       \/ \E a \in SdiPresent : SensorStep(a)
       \/ \E a \in I2cAddr : ChipStep(a) \/ PowerLoss(a)
    /\ Fixed

\* Every task in a call goes on: a mutex that is given back goes to whoever
\* waits for it, as every task lets go of the processor between two readings.
\* Sensors and chips end what they have started.
Spec ==
    /\ Init /\ [][Next]_vars
    /\ \A t \in SdiTasks : SF_vars(SdiTaskStep(t) /\ Fixed)
    /\ \A t \in I2cTasks : SF_vars(I2cTaskStep(t) /\ Fixed)
    /\ \A a \in SdiPresent : WF_vars(SensorStep(a) /\ Fixed)
    /\ \A a \in I2cAddr : WF_vars(ChipStep(a) /\ Fixed)

-----------------------------------------------------------------------------
(* Properties *)

\* Every variable has its type.
TypeOK ==
    /\ SdiTypeOK /\ I2cTypeOK /\ station \in Stations
    /\ bus_driver \in {"i2c_variable_read", "stub_sensor_read"}

\* sdi12_measure_and_read, with the mutex free between aM! and aD0!: a value
\* it returns was measured after the call's own aM!, whatever commands other
\* tasks put on the wire in between, and never left over from an older reading.
FreshReading ==
    \A t \in SdiTasks : sdi_last[t].result = "value" => sdi_last[t].fresh

\* reset_bus_locked deletes the bus while other tasks are between two
\* transactions: no transaction runs on a handle, and no handle stays cached,
\* that does not belong to the present bus; while I2C is on there is a bus.
HandlesOfLiveBus ==
    /\ i2c_initialized => s_bus # NULL
    /\ \A a \in I2cAddr : s_devices[a] \in {NULL, s_bus}
    /\ \A t \in I2cTasks : i2c_call[t].phase = "wire" =>
          /\ i2c_mutex = t
          /\ i2c_call[t].handle = s_bus /\ s_bus # NULL

\* A charger whose measurement system may be off when it is read: its driver does
\* not take it to be on, or it has been without power since.
UnmeasuredCharger(a) == Driver[a] = "ltc4015" /\ (~s_meas_sys_checked \/ chip[a].lost)

\* The drivers: a reading is the result of its own trigger, unless another
\* reading used the same chip in between or an uncollected result was left in
\* it.  These are the only ways to a foreign result; a preview can take them, as
\* trigger and result are two transactions (ads111x.c:57).  A reading of the charger
\* is that of a register nothing measures for only as long as its driver does not
\* take the measurement system to be on, although two schedulers and the portal
\* share that flag; or once the charger has been without power since boot, which
\* nobody notices (ltc4015.c:93-99).
OwnResultOnly ==
    [][\A t \in I2cTasks :
          i2c_call[t].phase = "wire" /\ i2c_call'[t].result = "value"
          => \/ i2c_call[t].pure /\ OwnResult(i2c_call[t].addr, t)
             \/ t \in i2c_tainted
             \/ UnmeasuredCharger(i2c_call[t].addr)]_vars

\* i2c_bus.c and sdi12_bus.c give their mutex back on every path, errors and
\* failed resets included, and no wait is without end: the portal answers every
\* preview and scan, and can serve the next request.
PortalAnswers == ~PortalIdle ~> PortalIdle
=============================================================================
