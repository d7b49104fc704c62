------------------------------- MODULE I2cBus -------------------------------
(***************************************************************************)
(* The external I2C bus (components/i2c_bus) and the drivers of the chips  *)
(* on it (components/i2c_sensors).  A mutex is held for one transaction; a *)
(* transaction that times out resets the whole bus under that mutex, which *)
(* removes every device handle and deletes the bus they belong to.  A      *)
(* reading is made of several transactions, with the mutex free between    *)
(* them, so the readings of two tasks interleave on a chip.                *)
(*                                                                         *)
(* A bus is the number of times it was created, a device handle the bus it *)
(* was added to.  A trigger selects what the chip measures (channel, gain, *)
(* register pointer), so the result a chip holds is modelled by the call   *)
(* that triggered it.                                                      *)
(***************************************************************************)
EXTENDS Integers, Sequences, FiniteSets

CONSTANTS
    I2cTasks,           \* tasks that call the drivers
    MaxI2cAddr,         \* the last of the bus addresses, which a scan probes in order
    Driver,             \* the driver used for each address
    MAX_CACHED_DEVICES, \* 16 in the code
    SAMPLES_PER_AVERAGE,\* ADS111X_SAMPLES_PER_AVERAGE, 10 in the code
    MAX_POLLS,          \* LPS22HB_POLL_TIMEOUT_MS / LPS22HB_POLL_INTERVAL_MS, 20 in the code
    MaxBuses            \* bound of the model on the buses created

Drivers == {"ads111x", "hdc1080", "lps22hb", "ltc4015", "generic"}

ASSUME I2cAssumption ==
    /\ MaxI2cAddr \in Nat \ {0}
    /\ Driver \in [1 .. MaxI2cAddr -> Drivers]
    /\ MAX_CACHED_DEVICES \in Nat \ {0} /\ SAMPLES_PER_AVERAGE \in Nat \ {0}
    /\ MAX_POLLS \in Nat \ {0} /\ MaxBuses \in Nat \ {0}
    /\ {"none", "past"} \cap I2cTasks = {}

I2cAddr == 1 .. MaxI2cAddr

NULL == 0

VARIABLES
    i2c_mutex,          \* s_mutex: its holder, or "none"
    i2c_initialized,    \* s_initialized
    s_bus,              \* the master bus, or NULL
    s_devices,          \* the handle cached for each address, or NULL
    s_meas_sys_checked, \* ltc4015.c: the measurement system was seen on
    i2c_call,           \* per task: [phase, addr, plan, polls, handle, pure, result]
    i2c_tainted,        \* history: tasks whose reading met a result it did not ask for
    buses,              \* number of buses created so far
    chip                \* external, per address: [by, from, ready, on, lost], the call it
                        \* is converting for, the one its result is of, two of its bits,
                        \* and, a history, whether it has been without power since boot

bus_vars == <<i2c_mutex, i2c_initialized, s_bus, s_devices, buses>>
i2c_vars == <<bus_vars, s_meas_sys_checked, i2c_call, i2c_tainted, chip>>

\* Between two calls: what the last one returned.
Returned(result) == [phase |-> "idle", addr |-> NULL, plan |-> <<>>, polls |-> 0,
                     handle |-> NULL, pure |-> TRUE, result |-> result]

\* i2c_bus_init: the bus is there unless it could not be created at boot.
I2cInit ==
    /\ i2c_mutex = "none"
    /\ i2c_initialized \in BOOLEAN
    /\ s_bus = IF i2c_initialized THEN 1 ELSE NULL
    /\ buses = 1
    /\ s_devices = [a \in I2cAddr |-> NULL]
    /\ s_meas_sys_checked = FALSE
    /\ i2c_call = [t \in I2cTasks |-> Returned("none")]
    /\ i2c_tainted = {}
    /\ chip = [a \in I2cAddr |-> [by |-> "none", from |-> "none", ready |-> FALSE, on |-> FALSE,
                                  lost |-> FALSE]]

-----------------------------------------------------------------------------
(* What each driver does, as the list of its steps: "delay" leaves the bus  *)
(* alone, every other step is one transaction                               *)

\* One sample of the converter is a trigger, a delay and a read; a reading is
\* the average of several.
ads111x_read_channel ==
    [i \in 1 .. 3 * SAMPLES_PER_AVERAGE |->
        CASE i % 3 = 1 -> "trigger" [] i % 3 = 2 -> "delay" [] i % 3 = 0 -> "fetch"]

hdc1080_trigger_and_read == <<"trigger", "delay", "fetch">>

lps22hb_trigger_and_read == <<"trigger", "delay", "poll", "fetch">>

\* The configuration is read first unless the measurement system was seen on.
ltc4015_read_channel == IF s_meas_sys_checked THEN <<"fetch">> ELSE <<"config", "fetch">>

generic_read_register16 == <<"fetch">>

i2c_sensor_read(a) ==
    CASE Driver[a] = "ads111x" -> ads111x_read_channel
      [] Driver[a] = "hdc1080" -> hdc1080_trigger_and_read
      [] Driver[a] = "lps22hb" -> lps22hb_trigger_and_read
      [] Driver[a] = "ltc4015" -> ltc4015_read_channel
      [] Driver[a] = "generic" -> generic_read_register16

Op(t) == Head(i2c_call[t].plan)

-----------------------------------------------------------------------------
(* The chips (external) *)

\* The readings of chip a that wait for the result of their trigger.
Collecting(a) ==
    {u \in I2cTasks : i2c_call[u].addr = a /\ i2c_call[u].plan # <<>>
                      /\ Op(u) \in {"delay", "poll", "fetch"}}

ChipConverts(a) ==
    /\ chip[a].by # "none"
    /\ chip' = [chip EXCEPT ![a].by = "none", ![a].from = chip[a].by, ![a].ready = TRUE]
    /\ UNCHANGED <<bus_vars, s_meas_sys_checked, i2c_call, i2c_tainted>>

\* The charger loses its input and its battery while the processor runs on USB; its
\* configuration starts over (ltc4015.c:93).
ChargerLosesPower(a) ==
    /\ Driver[a] = "ltc4015" /\ chip[a].on
    /\ chip' = [chip EXCEPT ![a].on = FALSE, ![a].lost = TRUE]
    /\ UNCHANGED <<bus_vars, s_meas_sys_checked, i2c_call, i2c_tainted>>

\* The call of t is over: nothing in the chips is for it any more.
Past(c, t) == [c EXCEPT !.by = IF @ = t THEN "past" ELSE @, !.from = IF @ = t THEN "past" ELSE @]

\* What chip a answers is the result of the trigger of t; the registers of the
\* charger are live when its measurement system is on.
OwnResult(a, t) ==
    CASE Driver[a] \in {"ads111x", "hdc1080", "lps22hb"} -> chip[a].from = t
      [] Driver[a] = "ltc4015" -> chip[a].on
      [] Driver[a] = "generic" -> TRUE

-----------------------------------------------------------------------------
(* The ends of a transaction: what the driver does with it *)

I2cFinish(t, result) ==
    /\ i2c_call' = [i2c_call EXCEPT ![t] = Returned(result)]
    /\ chip' = [b \in I2cAddr |-> Past(chip[b], t)]

Proceed(t, plan, pure) ==
    i2c_call' = [i2c_call EXCEPT ![t].phase = "call", ![t].plan = plan,
                                 ![t].handle = NULL, ![t].pure = pure]

\* An error ends the reading, except that the charger is read even when its
\* measurement system could not be looked at or switched on.
TransactionFailed(t) ==
    IF Op(t) \in {"config", "enable"}
    THEN Proceed(t, <<"fetch">>, i2c_call[t].pure) /\ UNCHANGED chip
    ELSE I2cFinish(t, "error")

\* A conversion of what was selected starts, and the results other readings of
\* this chip wait for are gone.  The pressure sensor goes on saying ready for
\* an earlier result that nobody collected.
Trigger(t, a) ==
    /\ chip' = [chip EXCEPT ![a].by = t]
    /\ i2c_tainted' = i2c_tainted \cup (Collecting(a) \ {t})
                          \cup (IF Driver[a] = "lps22hb" /\ chip[a].ready THEN {t} ELSE {})
    /\ Proceed(t, Tail(i2c_call[t].plan), i2c_call[t].pure)
    /\ UNCHANGED s_meas_sys_checked

\* Mutant of Poll: no limit.
PollForEver(t, a) ==
    /\ IF chip[a].ready
       THEN Proceed(t, Tail(i2c_call[t].plan), i2c_call[t].pure)
       ELSE i2c_call' = [i2c_call EXCEPT ![t].phase = "call", ![t].handle = NULL,
                                         ![t].polls = @ + 1, ![t].plan = <<"delay">> \o @]
    /\ UNCHANGED <<chip, i2c_tainted, s_meas_sys_checked>>

\* The status register of the pressure sensor is read until it says ready.
Poll(t, a) ==
    /\ IF chip[a].ready
       THEN Proceed(t, Tail(i2c_call[t].plan), i2c_call[t].pure) /\ UNCHANGED chip
       ELSE IF i2c_call[t].polls + 1 >= MAX_POLLS
       THEN I2cFinish(t, "error")
       ELSE /\ i2c_call' = [i2c_call EXCEPT ![t].phase = "call", ![t].handle = NULL,
                                            ![t].polls = @ + 1, ![t].plan = <<"delay">> \o @]
            /\ UNCHANGED chip
    /\ UNCHANGED <<i2c_tainted, s_meas_sys_checked>>

\* The result is read; the humidity sensor does not answer while it converts.
Fetch(t, a) ==
    LET rest == Tail(i2c_call[t].plan)
        read == [chip EXCEPT ![a].ready = FALSE]
    IN  /\ Driver[a] = "hdc1080" => chip[a].by = "none"
        /\ IF rest = <<>>
           THEN /\ i2c_call' = [i2c_call EXCEPT ![t] = Returned("value")]
                /\ chip' = [b \in I2cAddr |-> Past(read[b], t)]
           ELSE /\ Proceed(t, rest, i2c_call[t].pure /\ OwnResult(a, t))
                /\ chip' = read
        /\ UNCHANGED <<i2c_tainted, s_meas_sys_checked>>

\* Mutant of ensure_measurement_system_enabled: the flag is set on the first try.
FlagSetOnTry(t, a) ==
    /\ s_meas_sys_checked' = TRUE
    /\ IF Op(t) = "enable" \/ chip[a].on
       THEN Proceed(t, Tail(i2c_call[t].plan), i2c_call[t].pure)
       ELSE Proceed(t, <<"enable", "fetch">>, i2c_call[t].pure)
    /\ chip' = [chip EXCEPT ![a].on = @ \/ Op(t) = "enable"]
    /\ UNCHANGED i2c_tainted

\* ensure_measurement_system_enabled: the flag is set once the bit is known to be
\* on, and stays when the charger loses its power.
ensure_measurement_system_enabled(t, a) ==
    /\ IF Op(t) = "enable" \/ chip[a].on
       THEN /\ s_meas_sys_checked' = TRUE
            /\ Proceed(t, Tail(i2c_call[t].plan), i2c_call[t].pure)
       ELSE /\ Proceed(t, <<"enable", "fetch">>, i2c_call[t].pure)
            /\ UNCHANGED s_meas_sys_checked
    /\ chip' = [chip EXCEPT ![a].on = @ \/ Op(t) = "enable"]
    /\ UNCHANGED i2c_tainted

\* The transaction went through.
Answered(t, a) ==
    \/ Op(t) = "trigger" /\ Trigger(t, a)
    \/ Op(t) = "poll" /\ Poll(t, a)
    \/ Op(t) = "fetch" /\ Fetch(t, a)
    \/ Op(t) \in {"config", "enable"} /\ ensure_measurement_system_enabled(t, a)

-----------------------------------------------------------------------------
(* i2c_bus_write, i2c_bus_write_read and i2c_bus_read: one transaction *)

\* The bus is looked at before the mutex is taken.
CheckBus(t) ==
    /\ i2c_call[t].phase = "call" /\ Op(t) # "delay"
    /\ IF i2c_initialized
       THEN /\ i2c_call' = [i2c_call EXCEPT ![t].phase = "lock"]
            /\ UNCHANGED chip
       ELSE TransactionFailed(t)
    /\ UNCHANGED <<bus_vars, s_meas_sys_checked, i2c_tainted>>

CachedDevices == {a \in I2cAddr : s_devices[a] # NULL}

\* get_or_add_device: a handle is added when none is cached; there may be no
\* room, the bus may be gone, or the driver may refuse.
get_or_add_device(t, a) ==
    \/ /\ a \in CachedDevices
       /\ i2c_mutex' = t
       /\ i2c_call' = [i2c_call EXCEPT ![t].phase = "wire", ![t].handle = s_devices[a]]
       /\ UNCHANGED <<s_devices, chip>>
    \/ /\ a \notin CachedDevices /\ s_bus # NULL
       /\ Cardinality(CachedDevices) < MAX_CACHED_DEVICES
       /\ i2c_mutex' = t
       /\ s_devices' = [s_devices EXCEPT ![a] = s_bus]
       /\ i2c_call' = [i2c_call EXCEPT ![t].phase = "wire", ![t].handle = s_bus]
       /\ UNCHANGED chip
    \/ /\ a \notin CachedDevices
       /\ TransactionFailed(t)
       /\ UNCHANGED <<i2c_mutex, s_devices>>

LockBus(t) ==
    /\ i2c_call[t].phase = "lock" /\ i2c_mutex = "none"
    /\ get_or_add_device(t, i2c_call[t].addr)
    /\ UNCHANGED <<i2c_initialized, s_bus, buses, s_meas_sys_checked, i2c_tainted>>

\* Mutant of reset_bus_locked: the handles stay in the cache.
HandlesKept ==
    /\ buses < MaxBuses
    /\ UNCHANGED s_devices
    /\ \E created \in BOOLEAN :
          /\ s_bus' = IF created THEN buses + 1 ELSE NULL
          /\ i2c_initialized' = (i2c_initialized /\ created)
          /\ buses' = buses + 1

\* reset_bus_locked: every handle and the bus are deleted and the bus is
\* created anew; if that fails I2C stays off until the next reboot.
reset_bus_locked ==
    /\ buses < MaxBuses
    /\ s_devices' = [a \in I2cAddr |-> NULL]
    /\ \E created \in BOOLEAN :
          /\ s_bus' = IF created THEN buses + 1 ELSE NULL
          /\ i2c_initialized' = (i2c_initialized /\ created)
          /\ buses' = buses + 1

\* The transfer under the mutex: answered, not acknowledged, or timed out.
Transfer(t) ==
    /\ i2c_call[t].phase = "wire"
    /\ i2c_mutex' = "none"
    /\ \/ /\ Answered(t, i2c_call[t].addr)
          /\ UNCHANGED <<i2c_initialized, s_bus, s_devices, buses>>
       \/ /\ TransactionFailed(t)
          /\ UNCHANGED <<i2c_initialized, s_bus, s_devices, buses, s_meas_sys_checked, i2c_tainted>>
       \/ /\ reset_bus_locked
          /\ TransactionFailed(t)
          /\ UNCHANGED <<s_meas_sys_checked, i2c_tainted>>

\* The delay between trigger and result is longer than a conversion; the
\* pressure sensor is polled instead.
DelayOver(t) ==
    LET a == i2c_call[t].addr
    IN  /\ i2c_call[t].phase = "call" /\ Op(t) = "delay"
        /\ Driver[a] = "lps22hb" \/ chip[a].by # t
        /\ i2c_call' = [i2c_call EXCEPT ![t].plan = Tail(@)]
        /\ UNCHANGED <<bus_vars, s_meas_sys_checked, i2c_tainted, chip>>

\* i2c_variable_read
I2cRead(t, a) ==
    /\ i2c_call[t].phase = "idle"
    /\ i2c_call' = [i2c_call EXCEPT ![t] = [Returned("none") EXCEPT !.phase = "call", !.addr = a,
                                                                    !.plan = i2c_sensor_read(a)]]
    /\ i2c_tainted' = i2c_tainted \ {t}
    /\ UNCHANGED <<bus_vars, s_meas_sys_checked, chip>>

-----------------------------------------------------------------------------
(* i2c_bus_scan: the mutex is held from the first address to the last *)

I2cScan(t) ==
    /\ i2c_call[t].phase = "idle"
    /\ i2c_initialized
    /\ i2c_call' = [i2c_call EXCEPT ![t] = [Returned("none") EXCEPT !.phase = "scan lock"]]
    /\ UNCHANGED <<bus_vars, s_meas_sys_checked, i2c_tainted, chip>>

LockForScan(t) ==
    /\ i2c_call[t].phase = "scan lock" /\ i2c_mutex = "none"
    /\ i2c_mutex' = t
    /\ i2c_call' = [i2c_call EXCEPT ![t].phase = "probe", ![t].addr = 1]
    /\ UNCHANGED <<i2c_initialized, s_bus, s_devices, buses, s_meas_sys_checked, i2c_tainted, chip>>

\* One address is probed; a probe that times out resets the bus, and the scan
\* ends early when the bus is off.
Probe(t) ==
    LET next == i2c_call[t].addr + 1
        done == next \notin I2cAddr \/ ~i2c_initialized
    IN  /\ i2c_call[t].phase = "probe"
        /\ \/ UNCHANGED <<i2c_initialized, s_bus, s_devices, buses>>
           \/ i2c_initialized /\ reset_bus_locked
        /\ i2c_mutex' = IF done THEN "none" ELSE t
        /\ i2c_call' = [i2c_call EXCEPT ![t] = IF done THEN Returned("none") ELSE [@ EXCEPT !.addr = next]]
        /\ UNCHANGED <<s_meas_sys_checked, i2c_tainted, chip>>

I2cStep(t) ==
    \/ CheckBus(t) \/ LockBus(t) \/ Transfer(t) \/ DelayOver(t)
    \/ LockForScan(t) \/ Probe(t)

-----------------------------------------------------------------------------
Phases == {"idle", "call", "lock", "wire", "scan lock", "probe"}
Operations == {"trigger", "delay", "poll", "fetch", "config", "enable"}

I2cTypeOK ==
    /\ i2c_mutex \in I2cTasks \cup {"none"}
    /\ i2c_initialized \in BOOLEAN /\ s_meas_sys_checked \in BOOLEAN
    /\ s_bus \in 0 .. MaxBuses /\ buses \in 1 .. MaxBuses
    /\ s_devices \in [I2cAddr -> 0 .. MaxBuses]
    /\ i2c_call \in [I2cTasks -> [phase : Phases, addr : I2cAddr \cup {NULL}, plan : Seq(Operations),
                                  polls : 0 .. MAX_POLLS, handle : 0 .. MaxBuses, pure : BOOLEAN,
                                  result : {"none", "value", "error"}]]
    /\ i2c_tainted \subseteq I2cTasks
    /\ chip \in [I2cAddr -> [by : I2cTasks \cup {"none", "past"}, from : I2cTasks \cup {"none", "past"},
                             ready : BOOLEAN, on : BOOLEAN, lost : BOOLEAN]]
=============================================================================
