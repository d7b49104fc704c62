------------------------------ MODULE Sdi12Bus ------------------------------
(***************************************************************************)
(* The SDI-12 bus (components/sdi12_bus): one half-duplex wire with        *)
(* sensors on it, a mutex held for one command and its response, and a     *)
(* reading made of two commands: aM! and, after the wait the sensor asked  *)
(* for, aD0!.  The mutex is free during the wait, so the commands of two   *)
(* tasks interleave on the wire.                                           *)
(*                                                                         *)
(* A measured value is modelled by what a reader cares about: which value  *)
(* of the response it is, and which of the calls under way sent their aM!  *)
(* no later than its measurement started.                                  *)
(***************************************************************************)
EXTENDS Integers

CONSTANTS
    SdiTasks,       \* tasks that call the driver
    MaxSdiAddr,     \* the last of the bus addresses, which a scan probes in order
    SdiPresent,     \* addresses with a sensor
    SdiValues       \* number of values a sensor returns in aD0!

ASSUME Sdi12Assumption ==
    /\ MaxSdiAddr \in Nat \ {0}
    /\ SdiPresent \subseteq 1 .. MaxSdiAddr
    /\ SdiValues \in Nat \ {0}
    /\ "none" \notin SdiTasks

SdiAddr == 1 .. MaxSdiAddr

VARIABLES
    sdi_mutex,      \* s_bus_mutex: its holder, or "none"
    sdi_call,       \* per task: [pc, addr, index, heard, wait], the call it is in
    sdi_last,       \* history, per task: [result, fresh] of its last reading
    sensor          \* external, per sensor: [starter, asked, data, fresh]

sdi_vars == <<sdi_mutex, sdi_call, sdi_last, sensor>>

SdiIdle == [pc |-> "idle", addr |-> 0, index |-> 0, heard |-> FALSE, wait |-> "none"]
NoReading == [result |-> "none", fresh |-> FALSE]
Failed == [NoReading EXCEPT !.result = "error"]

\* How long the sensor asks to wait: not at all, a while, or longer than
\* SDI12_MAX_MEASURE_WAIT_S, which the reader cuts short.
Waits == {"none", "full", "capped"}

SdiInit ==
    /\ sdi_mutex = "none"
    /\ sdi_call = [t \in SdiTasks |-> SdiIdle]
    /\ sdi_last = [t \in SdiTasks |-> NoReading]
    /\ sensor = [a \in SdiPresent |-> [starter |-> "none", asked |-> {}, data |-> FALSE, fresh |-> {}]]

-----------------------------------------------------------------------------
(* The wire and the sensors on it (external) *)

Measuring(a) == sensor[a].starter # "none"

\* The calls that wait for the data of sensor a: their aM! was answered.
WaitingFor(a) == {u \in SdiTasks : sdi_call[u].addr = a /\ sdi_call[u].pc \in {"wait", "read"}}

\* aM! drops the data of the last measurement and starts a new one, which is
\* good for the call of t and for every call that already waits.
Started(a, t) == [starter |-> t, asked |-> WaitingFor(a) \cup {t}, data |-> FALSE, fresh |-> {}]

\* A break in the middle of a measurement may abort it: its data never come.
Aborted(s) == [s EXCEPT !.starter = "none", !.asked = {}]

SensorCompletes(a) ==
    /\ Measuring(a)
    /\ sensor' = [sensor EXCEPT ![a] =
                    [starter |-> "none", asked |-> {}, data |-> TRUE, fresh |-> @.asked]]
    /\ UNCHANGED <<sdi_mutex, sdi_call, sdi_last>>

\* A command of t to address a: the break reaches every sensor, and the
\* addressed one may or may not make out the command.
OnTheWire(t, a, measure, heard) ==
    \E hit \in SUBSET {b \in SdiPresent : Measuring(b)} :
        sensor' = [b \in SdiPresent |->
           IF b = a /\ measure /\ heard THEN Started(a, t)
           ELSE IF b \in hit THEN Aborted(sensor[b]) ELSE sensor[b]]

-----------------------------------------------------------------------------
(* sdi12_send_command: the mutex is taken, the command sent; the mutex is   *)
(* given back when the response has come or its time is over               *)

Send(t, a, measure, next) ==
    /\ sdi_mutex = "none"
    /\ sdi_mutex' = t
    /\ \E heard \in BOOLEAN :
          /\ heard => a \in SdiPresent
          /\ OnTheWire(t, a, measure, heard)
          /\ sdi_call' = [sdi_call EXCEPT ![t].pc = next, ![t].heard = heard]
    /\ UNCHANGED sdi_last

Finish(t, r) ==
    /\ sdi_call' = [sdi_call EXCEPT ![t] = SdiIdle]
    /\ sdi_last' = [sdi_last EXCEPT ![t] = r]

-----------------------------------------------------------------------------
(* sdi12_measure_and_read *)

\* sdi12_variable_read: a scheduler or the portal asks for one value of a
\* sensor.  (No data in the sensor count as new for a call that only begins.)
SdiRead(t, a, i) ==
    /\ sdi_call[t] = SdiIdle
    /\ sdi_call' = [sdi_call EXCEPT ![t] = [SdiIdle EXCEPT !.pc = "measure", !.addr = a, !.index = i]]
    /\ sdi_last' = [sdi_last EXCEPT ![t] = NoReading]
    /\ sensor' = [b \in SdiPresent |-> [sensor[b] EXCEPT !.asked = @ \ {t}, !.fresh = @ \ {t}]]
    /\ UNCHANGED sdi_mutex

\* sdi12_measure
SendMeasure(t) ==
    /\ sdi_call[t].pc = "measure"
    /\ Send(t, sdi_call[t].addr, TRUE, "measured")

\* Mutant of MeasureAnswered: an aM! that was not answered is not noticed.
MeasureNotChecked(t) ==
    /\ sdi_call[t].pc = "measured"
    /\ sdi_mutex' = "none"
    /\ sdi_call' = [sdi_call EXCEPT ![t].pc = "read"]
    /\ UNCHANGED <<sdi_last, sensor>>

\* No response, or none that makes sense, ends the call; otherwise the sensor
\* says how long the measurement takes.
MeasureAnswered(t) ==
    /\ sdi_call[t].pc = "measured"
    /\ sdi_mutex' = "none"
    /\ \/ Finish(t, Failed)
       \/ /\ sdi_call[t].heard
          /\ \E w \in Waits :
                /\ w = "none" => sensor[sdi_call[t].addr].data
                /\ sdi_call' = [sdi_call EXCEPT ![t].wait = w,
                                                ![t].pc = IF w = "none" THEN "read" ELSE "wait"]
          /\ UNCHANGED sdi_last
    /\ UNCHANGED sensor

\* Mutant of WaitOver: the service request is waited for, not the time.
WaitForServiceRequest(t) ==
    /\ sdi_call[t].pc = "wait"
    /\ sensor[sdi_call[t].addr].data
    /\ sdi_call' = [sdi_call EXCEPT ![t].pc = "read"]
    /\ UNCHANGED <<sdi_mutex, sdi_last, sensor>>

\* A sensor keeps to the time it gave: unless the wait was cut short, the
\* measurement this call started has ended.
WaitOver(t) ==
    /\ sdi_call[t].pc = "wait"
    /\ sdi_call[t].wait = "capped" \/ sensor[sdi_call[t].addr].starter # t
    /\ sdi_call' = [sdi_call EXCEPT ![t].pc = "read"]
    /\ UNCHANGED <<sdi_mutex, sdi_last, sensor>>

\* sdi12_read_data
SendReadData(t) ==
    /\ sdi_call[t].pc = "read"
    /\ Send(t, sdi_call[t].addr, FALSE, "data")

\* The sensor sends the values of its last measurement, or its address alone
\* when it has none; the value asked for may not be among them.
DataAnswered(t) ==
    LET a == sdi_call[t].addr
        i == sdi_call[t].index
    IN  /\ sdi_call[t].pc = "data"
        /\ sdi_mutex' = "none"
        /\ \/ Finish(t, Failed)
           \/ /\ sdi_call[t].heard
              /\ IF sensor[a].data /\ i < SdiValues
                 THEN Finish(t, [result |-> "value", fresh |-> t \in sensor[a].fresh])
                 ELSE Finish(t, [NoReading EXCEPT !.result = "not found"])
        /\ UNCHANGED sensor

-----------------------------------------------------------------------------
(* sdi12_scan_addresses: every address is asked to acknowledge in turn *)

SdiScan(t) ==
    /\ sdi_call[t] = SdiIdle
    /\ sdi_call' = [sdi_call EXCEPT ![t] = [SdiIdle EXCEPT !.pc = "probe", !.addr = 1]]
    /\ UNCHANGED <<sdi_mutex, sdi_last, sensor>>

SendProbe(t) ==
    /\ sdi_call[t].pc = "probe"
    /\ Send(t, sdi_call[t].addr, FALSE, "probed")

ProbeAnswered(t) ==
    LET next == sdi_call[t].addr + 1
    IN  /\ sdi_call[t].pc = "probed"
        /\ sdi_mutex' = "none"
        /\ sdi_call' = [sdi_call EXCEPT ![t] =
              IF next \in SdiAddr THEN [SdiIdle EXCEPT !.pc = "probe", !.addr = next] ELSE SdiIdle]
        /\ UNCHANGED <<sdi_last, sensor>>

\* What the tasks do once they are in a call; who calls what is for the module
\* that composes the buses with the tasks.
SdiStep(t) ==
    \/ SendMeasure(t) \/ MeasureAnswered(t) \/ WaitOver(t)
    \/ SendReadData(t) \/ DataAnswered(t)
    \/ SendProbe(t) \/ ProbeAnswered(t)

SdiTypeOK ==
    /\ sdi_mutex \in SdiTasks \cup {"none"}
    /\ sdi_call \in [SdiTasks -> [pc : {"idle", "measure", "measured", "wait", "read", "data",
                                        "probe", "probed"},
                                  addr : SdiAddr \cup {0}, index : Nat, heard : BOOLEAN, wait : Waits]]
    /\ sdi_last \in [SdiTasks -> [result : {"none", "value", "error", "not found"},
                                  fresh : BOOLEAN]]
    /\ sensor \in [SdiPresent -> [starter : SdiTasks \cup {"none"}, asked : SUBSET SdiTasks,
                                  data : BOOLEAN, fresh : SUBSET SdiTasks]]
=============================================================================
