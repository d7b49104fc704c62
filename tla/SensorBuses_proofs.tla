------------------------- MODULE SensorBuses_proofs -------------------------
(* Proofs about SensorBuses, for any number of sensors and chips, any station *)
(* and every bound.                                                           *)
EXTENDS SensorBuses, TLAPS

-----------------------------------------------------------------------------
(* The SDI-12 bus *)

(* Whoever has a command on the wire holds the mutex. *)
WireIsMine ==
    \A t \in SdiTasks : sdi_call[t].pc \in {"measured", "data", "probed"} => sdi_mutex = t

(* Only a sensor that exists makes out a command. *)
HeardBySensor ==
    \A t \in SdiTasks : sdi_call[t].heard => sdi_call[t].addr \in SdiPresent

(* A call whose aM! was answered is one of those the sensor measures for or has *)
(* measured for.                                                                *)
Started12(t) ==
    \/ sdi_call[t].pc \in {"wait", "read", "data"}
    \/ sdi_call[t].pc = "measured" /\ sdi_call[t].heard

MeasuredForMe ==
    \A t \in SdiTasks, a \in SdiPresent :
        sdi_call[t].addr = a /\ Started12(t) =>
            /\ sensor[a].starter # "none" => t \in sensor[a].asked
            /\ sensor[a].data => t \in sensor[a].fresh

SdiIInv == SdiTypeOK /\ WireIsMine /\ HeardBySensor /\ MeasuredForMe /\ FreshReading

SdiCall == [pc : {"idle", "measure", "measured", "wait", "read", "data", "probe", "probed"},
            addr : SdiAddr \cup {0}, index : Nat, heard : BOOLEAN, wait : Waits]

SensorState == [starter : SdiTasks \cup {"none"}, asked : SUBSET SdiTasks,
                data : BOOLEAN, fresh : SUBSET SdiTasks]

LEMMA SdiTypes ==
  ASSUME SdiTypeOK
  PROVE  /\ sdi_call \in [SdiTasks -> SdiCall]
         /\ \A t \in SdiTasks : /\ sdi_call[t] \in SdiCall
                                /\ sdi_call[t].addr \in SdiAddr \cup {0}
                                /\ sdi_call[t].index \in Nat
                                /\ sdi_call[t].heard \in BOOLEAN
         /\ sensor \in [SdiPresent -> SensorState]
         /\ \A a \in SdiPresent : /\ sensor[a] \in SensorState
                                  /\ sensor[a].asked \subseteq SdiTasks
                                  /\ sensor[a].fresh \subseteq SdiTasks
                                  /\ sensor[a].data \in BOOLEAN
BY DEF SdiTypeOK, SdiCall, SensorState

LEMMA SdiIdleType == SdiIdle \in SdiCall
BY DEF SdiIdle, SdiCall, Waits

LEMMA SdiInitInv == SdiInit => SdiIInv
<1> SUFFICES ASSUME SdiInit PROVE SdiIInv
  OBVIOUS
<1>1. SdiTypeOK
  BY SdiIdleType DEF SdiInit, SdiTypeOK, SdiCall, NoReading
<1>2. WireIsMine /\ HeardBySensor /\ MeasuredForMe /\ FreshReading
  BY DEF SdiInit, WireIsMine, HeardBySensor, MeasuredForMe, Started12, FreshReading,
         SdiIdle, NoReading
<1> QED BY <1>1, <1>2 DEF SdiIInv

(* What a command does to the sensors keeps what they measured for others. *)
LEMMA OnTheWireKeeps ==
  ASSUME SdiIInv, sdi_mutex = "none",
         NEW t \in SdiTasks, NEW a \in SdiAddr \cup {0}, NEW measure \in BOOLEAN, NEW heard \in BOOLEAN,
         heard => a \in SdiPresent, OnTheWire(t, a, measure, heard)
  PROVE  /\ sensor' \in [SdiPresent -> SensorState]
         /\ \A u \in SdiTasks, b \in SdiPresent :
               sdi_call[u].addr = b /\ sdi_call[u].pc \in {"wait", "read"} =>
                   /\ sensor'[b].starter # "none" => u \in sensor'[b].asked
                   /\ sensor'[b].data => u \in sensor'[b].fresh
         /\ heard /\ measure =>
                /\ t \in sensor'[a].asked
                /\ ~sensor'[a].data
<1> PICK hit \in SUBSET {b \in SdiPresent : Measuring(b)} :
       sensor' = [b \in SdiPresent |->
             IF b = a /\ measure /\ heard THEN Started(a, t)
             ELSE IF b \in hit THEN Aborted(sensor[b]) ELSE sensor[b]]
  BY DEF OnTheWire
<1>1. \A b \in SdiPresent : Aborted(sensor[b]) \in SensorState
  BY SdiTypes DEF SdiIInv, Aborted, SensorState
<1>2. Started(a, t) \in SensorState
  BY DEF Started, WaitingFor, SensorState
<1>3. sensor' \in [SdiPresent -> SensorState]
  BY <1>1, <1>2, SdiTypes DEF SdiIInv
<1>5. ASSUME NEW u \in SdiTasks, NEW b \in SdiPresent,
             sdi_call[u].addr = b, sdi_call[u].pc \in {"wait", "read"}
      PROVE  /\ sensor'[b].starter # "none" => u \in sensor'[b].asked
             /\ sensor'[b].data => u \in sensor'[b].fresh
  <2>1. /\ sensor[b].starter # "none" => u \in sensor[b].asked
        /\ sensor[b].data => u \in sensor[b].fresh
    BY <1>5 DEF SdiIInv, MeasuredForMe, Started12
  <2>2. CASE b = a /\ measure /\ heard
    BY <1>5, <2>2 DEF Started, WaitingFor
  <2>3. CASE ~(b = a /\ measure /\ heard) /\ b \in hit
    BY <2>1, <2>3, SdiTypes DEF Aborted, SdiIInv, SensorState
  <2>4. CASE ~(b = a /\ measure /\ heard) /\ b \notin hit
    BY <2>1, <2>4
  <2> QED BY <2>2, <2>3, <2>4
<1>6. heard /\ measure => t \in sensor'[a].asked /\ ~sensor'[a].data
  BY DEF Started
<1> QED BY <1>3, <1>5, <1>6

LEMMA SendKeeps ==
  ASSUME SdiIInv, NEW t \in SdiTasks, NEW measure \in BOOLEAN,
         NEW next \in {"measured", "data", "probed"},
         next = "measured" => measure,
         next = "data" => sdi_call[t].pc = "read",
         Send(t, sdi_call[t].addr, measure, next)
  PROVE  SdiIInv'
<1> DEFINE a == sdi_call[t].addr
<1> PICK heard \in BOOLEAN :
       /\ heard => a \in SdiPresent
       /\ OnTheWire(t, a, measure, heard)
       /\ sdi_call' = [sdi_call EXCEPT ![t].pc = next, ![t].heard = heard]
  BY DEF Send
<1>1. sdi_mutex = "none" /\ sdi_mutex' = t /\ sdi_last' = sdi_last
  BY DEF Send
<1>2. /\ sdi_call' \in [SdiTasks -> SdiCall]
      /\ sdi_call'[t].pc = next /\ sdi_call'[t].heard = heard /\ sdi_call'[t].addr = a
      /\ \A u \in SdiTasks \ {t} : sdi_call'[u] = sdi_call[u]
  <2> DEFINE c == [sdi_call[t] EXCEPT !.pc = next, !.heard = heard]
  <2>1. c \in SdiCall /\ c.pc = next /\ c.heard = heard /\ c.addr = a
    BY SdiTypes DEF SdiIInv, SdiCall
  <2>2. sdi_call' = [sdi_call EXCEPT ![t] = c]
    BY SdiTypes DEF SdiIInv
  <2>3. sdi_call \in [SdiTasks -> SdiCall]
    BY SdiTypes DEF SdiIInv
  <2> HIDE DEF c, a
  <2> QED BY <2>1, <2>2, <2>3
<1>3. a \in SdiAddr \cup {0}
  BY SdiTypes DEF SdiIInv
<1> HIDE DEF a
<1>4. /\ sensor' \in [SdiPresent -> SensorState]
      /\ \A u \in SdiTasks, b \in SdiPresent :
            sdi_call[u].addr = b /\ sdi_call[u].pc \in {"wait", "read"} =>
                /\ sensor'[b].starter # "none" => u \in sensor'[b].asked
                /\ sensor'[b].data => u \in sensor'[b].fresh
      /\ heard /\ measure =>
             /\ t \in sensor'[a].asked
             /\ ~sensor'[a].data
  BY <1>1, <1>3, OnTheWireKeeps
<1>5. SdiTypeOK'
  BY <1>1, <1>2, <1>4 DEF SdiIInv, SdiTypeOK, SdiCall, SensorState
<1>6. WireIsMine'
  <2>1. \A u \in SdiTasks : sdi_call[u].pc \notin {"measured", "data", "probed"}
    BY <1>1, Sdi12Assumption DEF SdiIInv, WireIsMine
  <2> QED BY <1>1, <1>2, <2>1 DEF WireIsMine
<1>7. HeardBySensor'
  BY <1>2 DEF SdiIInv, HeardBySensor
<1>8. MeasuredForMe'
  <2> SUFFICES ASSUME NEW u \in SdiTasks, NEW b \in SdiPresent,
                      sdi_call'[u].addr = b, Started12(u)'
               PROVE  /\ sensor'[b].starter # "none" => u \in sensor'[b].asked
                      /\ sensor'[b].data => u \in sensor'[b].fresh
    BY DEF MeasuredForMe
  <2>1. CASE u # t
    <3>1. sdi_call[u].pc \notin {"measured", "data"}
      BY <1>1, Sdi12Assumption DEF SdiIInv, WireIsMine
    <3>2. sdi_call[u].addr = b /\ sdi_call[u].pc \in {"wait", "read"}
      BY <1>2, <2>1, <3>1 DEF Started12
    <3> QED BY <1>4, <3>2
  <2>2. CASE u = t /\ next = "measured"
    BY <1>2, <1>4, <2>2 DEF Started12
  <2>3. CASE u = t /\ next = "data"
    BY <1>2, <1>4, <2>3 DEF a
  <2>4. CASE u = t /\ next = "probed"
    BY <1>2, <2>4 DEF Started12
  <2> QED BY <2>1, <2>2, <2>3, <2>4
<1>9. FreshReading'
  BY <1>1 DEF SdiIInv, FreshReading
<1> QED BY <1>5, <1>6, <1>7, <1>8, <1>9 DEF SdiIInv

(* The steps of a call that leave the sensors alone, from the task's new state. *)
LEMMA CallStepKeeps ==
  ASSUME SdiIInv, NEW t \in SdiTasks, NEW c \in SdiCall,
         sdi_call' = [sdi_call EXCEPT ![t] = c],
         c.pc \notin {"measured", "data", "probed"},
         c.heard => c.addr \in SdiPresent,
         c.pc \in {"wait", "read"} => Started12(t) /\ c.addr = sdi_call[t].addr,
         \/ sdi_mutex = t /\ sdi_mutex' = "none"
         \/ sdi_mutex' = sdi_mutex,
         UNCHANGED sensor
  PROVE  /\ sdi_call' \in [SdiTasks -> SdiCall]
         /\ sdi_mutex' \in SdiTasks \cup {"none"}
         /\ WireIsMine' /\ HeardBySensor' /\ MeasuredForMe'
<1>1. /\ sdi_call' \in [SdiTasks -> SdiCall]
      /\ sdi_call'[t] = c
      /\ \A u \in SdiTasks \ {t} : sdi_call'[u] = sdi_call[u]
  BY SdiTypes DEF SdiIInv
<1>2. sdi_mutex' \in SdiTasks \cup {"none"}
  BY DEF SdiIInv, SdiTypeOK
<1>3. WireIsMine'
  BY <1>1 DEF SdiIInv, WireIsMine
<1>4. HeardBySensor'
  BY <1>1 DEF SdiIInv, HeardBySensor
<1>5. MeasuredForMe'
  BY <1>1 DEF SdiIInv, MeasuredForMe, Started12
<1> QED BY <1>1, <1>2, <1>3, <1>4, <1>5

LEMMA FinishKeeps ==
  ASSUME SdiIInv, NEW t \in SdiTasks, sdi_mutex = t, sdi_mutex' = "none",
         NEW r \in [result : {"none", "value", "error", "not found"}, fresh : BOOLEAN],
         r.result = "value" => r.fresh,
         Finish(t, r), UNCHANGED sensor
  PROVE  SdiIInv'
<1>1. /\ SdiIdle \in SdiCall /\ SdiIdle.pc = "idle" /\ ~SdiIdle.heard
      /\ sdi_call' = [sdi_call EXCEPT ![t] = SdiIdle]
  BY SdiIdleType DEF Finish, SdiIdle
<1>2. /\ sdi_call' \in [SdiTasks -> SdiCall]
      /\ sdi_mutex' \in SdiTasks \cup {"none"}
      /\ WireIsMine' /\ HeardBySensor' /\ MeasuredForMe'
  BY <1>1, CallStepKeeps
<1>3. SdiTypeOK'
  BY <1>2 DEF Finish, SdiIInv, SdiTypeOK, SdiCall
<1>4. FreshReading'
  BY DEF Finish, SdiIInv, SdiTypeOK, FreshReading
<1> QED BY <1>2, <1>3, <1>4 DEF SdiIInv

LEMMA MeasureAnsweredKeeps ==
  ASSUME SdiIInv, NEW t \in SdiTasks, MeasureAnswered(t)
  PROVE  SdiIInv'
<1>1. /\ sdi_call[t].pc = "measured" /\ sdi_mutex = t
      /\ sdi_mutex' = "none" /\ UNCHANGED sensor
  BY DEF MeasureAnswered, SdiIInv, WireIsMine
<1>2. CASE Finish(t, Failed)
  BY <1>1, <1>2, FinishKeeps DEF Failed, NoReading
<1>3. ASSUME UNCHANGED sdi_last, sdi_call[t].heard, NEW w \in Waits,
             sdi_call' = [sdi_call EXCEPT ![t].wait = w,
                                          ![t].pc = IF w = "none" THEN "read" ELSE "wait"]
      PROVE  SdiIInv'
  <2> DEFINE c == [sdi_call[t] EXCEPT !.wait = w, !.pc = IF w = "none" THEN "read" ELSE "wait"]
  <2>1. /\ c \in SdiCall /\ c.pc \in {"read", "wait"}
        /\ c.addr = sdi_call[t].addr /\ c.heard = sdi_call[t].heard
        /\ sdi_call' = [sdi_call EXCEPT ![t] = c]
    BY <1>3, SdiTypes DEF SdiIInv, SdiCall
  <2>2. Started12(t) /\ c.addr \in SdiPresent
    BY <1>1, <1>3, <2>1 DEF Started12, SdiIInv, HeardBySensor
  <2> HIDE DEF c
  <2>3. WireIsMine' /\ HeardBySensor' /\ MeasuredForMe' /\ sdi_call' \in [SdiTasks -> SdiCall]
    BY <1>1, <2>1, <2>2, CallStepKeeps
  <2> QED BY <1>1, <1>3, <2>3 DEF SdiIInv, SdiTypeOK, SdiCall, FreshReading
<1> QED BY <1>2, <1>3 DEF MeasureAnswered

LEMMA DataAnsweredKeeps ==
  ASSUME SdiIInv, NEW t \in SdiTasks, DataAnswered(t)
  PROVE  SdiIInv'
<1> DEFINE a == sdi_call[t].addr
<1>1. /\ sdi_call[t].pc = "data" /\ sdi_mutex = t
      /\ sdi_mutex' = "none" /\ UNCHANGED sensor
  BY DEF DataAnswered, SdiIInv, WireIsMine
<1>2. CASE Finish(t, Failed)
  BY <1>1, <1>2, FinishKeeps DEF Failed, NoReading
<1>3. CASE /\ sdi_call[t].heard
           /\ Finish(t, [result |-> "value", fresh |-> t \in sensor[a].fresh])
           /\ sensor[a].data
  <2>1. t \in sensor[a].fresh
    BY <1>1, <1>3 DEF SdiIInv, HeardBySensor, MeasuredForMe, Started12
  <2> QED BY <1>1, <1>3, <2>1, FinishKeeps
<1>4. CASE Finish(t, [NoReading EXCEPT !.result = "not found"])
  BY <1>1, <1>4, FinishKeeps DEF NoReading
<1> QED BY <1>2, <1>3, <1>4 DEF DataAnswered

LEMMA WaitOverKeeps ==
  ASSUME SdiIInv, NEW t \in SdiTasks, WaitOver(t)
  PROVE  SdiIInv'
<1> DEFINE c == [sdi_call[t] EXCEPT !.pc = "read"]
<1>1. /\ c \in SdiCall /\ c.pc = "read" /\ c.addr = sdi_call[t].addr /\ c.heard = sdi_call[t].heard
      /\ sdi_call' = [sdi_call EXCEPT ![t] = c]
  BY SdiTypes DEF WaitOver, SdiIInv, SdiCall
<1>2. Started12(t) /\ UNCHANGED <<sdi_mutex, sdi_last, sensor>>
  BY DEF WaitOver, Started12
<1>3. c.heard => c.addr \in SdiPresent
  BY <1>1 DEF SdiIInv, HeardBySensor
<1> HIDE DEF c
<1>4. WireIsMine' /\ HeardBySensor' /\ MeasuredForMe' /\ sdi_call' \in [SdiTasks -> SdiCall]
  BY <1>1, <1>2, <1>3, CallStepKeeps
<1> QED BY <1>2, <1>4 DEF SdiIInv, SdiTypeOK, SdiCall, FreshReading

LEMMA ProbeAnsweredKeeps ==
  ASSUME SdiIInv, NEW t \in SdiTasks, ProbeAnswered(t)
  PROVE  SdiIInv'
<1> DEFINE next == sdi_call[t].addr + 1
           c == IF next \in SdiAddr THEN [SdiIdle EXCEPT !.pc = "probe", !.addr = next] ELSE SdiIdle
<1>1. /\ c \in SdiCall /\ c.pc \in {"probe", "idle"} /\ ~c.heard
      /\ sdi_call' = [sdi_call EXCEPT ![t] = c]
  BY DEF ProbeAnswered, SdiIdle, SdiCall, Waits
<1>2. /\ sdi_mutex = t /\ sdi_mutex' = "none"
      /\ UNCHANGED <<sdi_last, sensor>>
  BY DEF ProbeAnswered, SdiIInv, WireIsMine
<1> HIDE DEF c
<1>3. WireIsMine' /\ HeardBySensor' /\ MeasuredForMe' /\ sdi_call' \in [SdiTasks -> SdiCall]
  BY <1>1, <1>2, CallStepKeeps
<1> QED BY <1>2, <1>3 DEF SdiIInv, SdiTypeOK, SdiCall, FreshReading

LEMMA SdiScanKeeps ==
  ASSUME SdiIInv, NEW t \in SdiTasks, SdiScan(t)
  PROVE  SdiIInv'
<1> DEFINE c == [SdiIdle EXCEPT !.pc = "probe", !.addr = 1]
<1>0. 1 \in SdiAddr
  BY Sdi12Assumption DEF SdiAddr
<1>1. /\ c \in SdiCall /\ c.pc = "probe" /\ ~c.heard
      /\ sdi_call' = [sdi_call EXCEPT ![t] = c]
  BY <1>0 DEF SdiScan, SdiIdle, SdiCall, Waits
<1>2. UNCHANGED <<sdi_mutex, sdi_last, sensor>>
  BY DEF SdiScan
<1> HIDE DEF c
<1>3. WireIsMine' /\ HeardBySensor' /\ MeasuredForMe' /\ sdi_call' \in [SdiTasks -> SdiCall]
  BY <1>1, <1>2, CallStepKeeps
<1> QED BY <1>2, <1>3 DEF SdiIInv, SdiTypeOK, SdiCall, FreshReading

(* A call that begins is not one of those any measurement was made for. *)
LEMMA SdiReadKeeps ==
  ASSUME SdiIInv, NEW t \in SdiTasks, NEW a \in SdiAddr, NEW i \in Nat, SdiRead(t, a, i)
  PROVE  SdiIInv'
<1> DEFINE c == [SdiIdle EXCEPT !.pc = "measure", !.addr = a, !.index = i]
<1>1. /\ c \in SdiCall /\ c.pc = "measure" /\ ~c.heard
      /\ sdi_call' = [sdi_call EXCEPT ![t] = c]
  BY DEF SdiRead, SdiIdle, SdiCall, Waits
<1> HIDE DEF c
<1>2. /\ sdi_call' \in [SdiTasks -> SdiCall]
      /\ sdi_call'[t] = c
      /\ \A u \in SdiTasks \ {t} : sdi_call'[u] = sdi_call[u]
  BY <1>1, SdiTypes DEF SdiIInv
<1>3. sensor' = [b \in SdiPresent |-> [sensor[b] EXCEPT !.asked = @ \ {t}, !.fresh = @ \ {t}]]
  BY DEF SdiRead
<1>4. \A b \in SdiPresent :
         /\ sensor'[b] \in SensorState
         /\ sensor'[b].starter = sensor[b].starter /\ sensor'[b].data = sensor[b].data
         /\ sensor'[b].asked = sensor[b].asked \ {t} /\ sensor'[b].fresh = sensor[b].fresh \ {t}
  BY <1>3, SdiTypes DEF SdiIInv, SensorState
<1>5. SdiTypeOK'
  <2>1. sensor' \in [SdiPresent -> SensorState]
    BY <1>3, <1>4
  <2> QED BY <1>2, <2>1 DEF SdiRead, NoReading, SdiIInv, SdiTypeOK, SdiCall, SensorState
<1>6. WireIsMine' /\ HeardBySensor'
  BY <1>1, <1>2 DEF SdiRead, SdiIInv, WireIsMine, HeardBySensor
<1>7. MeasuredForMe'
  BY <1>1, <1>2, <1>4 DEF SdiIInv, MeasuredForMe, Started12
<1>8. FreshReading'
  BY DEF SdiRead, NoReading, SdiIInv, SdiTypeOK, FreshReading
<1> QED BY <1>5, <1>6, <1>7, <1>8 DEF SdiIInv

LEMMA SensorCompletesKeeps ==
  ASSUME SdiIInv, NEW a \in SdiPresent, SensorCompletes(a)
  PROVE  SdiIInv'
<1>1. /\ sensor[a].starter # "none"
      /\ UNCHANGED <<sdi_mutex, sdi_call, sdi_last>>
      /\ sensor' = [sensor EXCEPT ![a] =
                      [starter |-> "none", asked |-> {}, data |-> TRUE, fresh |-> @.asked]]
  BY DEF SensorCompletes, Measuring
<1>2. /\ sensor' \in [SdiPresent -> SensorState]
      /\ sensor'[a].starter = "none" /\ sensor'[a].fresh = sensor[a].asked
      /\ \A b \in SdiPresent \ {a} : sensor'[b] = sensor[b]
  BY <1>1, SdiTypes DEF SdiIInv, SensorState
<1>3. SdiTypeOK'
  BY <1>1, <1>2 DEF SdiIInv, SdiTypeOK, SensorState
<1>4. MeasuredForMe'
  BY <1>1, <1>2 DEF SdiIInv, MeasuredForMe, Started12
<1> QED BY <1>1, <1>3, <1>4 DEF SdiIInv, WireIsMine, HeardBySensor, FreshReading

LEMMA SdiStepKeeps ==
  ASSUME SdiIInv, NEW t \in SdiTasks, SdiStep(t)
  PROVE  SdiIInv'
<1>1. CASE SendMeasure(t)
  BY <1>1, SendKeeps DEF SendMeasure
<1>2. CASE SendReadData(t)
  BY <1>2, SendKeeps DEF SendReadData
<1>3. CASE SendProbe(t)
  BY <1>3, SendKeeps DEF SendProbe
<1> QED BY <1>1, <1>2, <1>3, MeasureAnsweredKeeps, WaitOverKeeps, DataAnsweredKeeps,
           ProbeAnsweredKeeps DEF SdiStep

LEMMA SdiStutterKeeps == SdiIInv /\ UNCHANGED sdi_vars => SdiIInv'
BY DEF SdiIInv, sdi_vars, SdiTypeOK, WireIsMine, HeardBySensor, MeasuredForMe, Started12, FreshReading

-----------------------------------------------------------------------------
(* The I2C bus *)

(* The mutex is held by the one who transfers or probes. *)
BusIsMine ==
    \A t \in I2cTasks : i2c_call[t].phase \in {"wire", "probe"} => i2c_mutex = t

(* A list of steps that ends by fetching the result. *)
EndsInFetch(plan) == plan # <<>> /\ plan[Len(plan)] = "fetch"

PlansComplete ==
    \A t \in I2cTasks : i2c_call[t].phase \in {"call", "lock", "wire"} => EndsInFetch(i2c_call[t].plan)

I2cIInv == I2cTypeOK /\ BusIsMine /\ PlansComplete /\ HandlesOfLiveBus

I2cCall == [phase : Phases, addr : I2cAddr \cup {NULL}, plan : Seq(Operations),
            polls : 0 .. MAX_POLLS, handle : 0 .. MaxBuses, pure : BOOLEAN,
            result : {"none", "value", "error"}]

ChipState == [by : I2cTasks \cup {"none", "past"}, from : I2cTasks \cup {"none", "past"},
              ready : BOOLEAN, on : BOOLEAN, lost : BOOLEAN]

LEMMA I2cTypes ==
  ASSUME I2cTypeOK
  PROVE  /\ i2c_call \in [I2cTasks -> I2cCall]
         /\ chip \in [I2cAddr -> ChipState]
         /\ \A t \in I2cTasks : /\ i2c_call[t] \in I2cCall
                                /\ i2c_call[t].addr \in I2cAddr \cup {NULL}
                                /\ i2c_call[t].plan \in Seq(Operations)
                                /\ i2c_call[t].polls \in 0 .. MAX_POLLS
                                /\ i2c_call[t].pure \in BOOLEAN
BY DEF I2cTypeOK, I2cCall, ChipState

LEMMA ReturnedType ==
  ASSUME NEW result \in {"none", "value", "error"}
  PROVE  /\ Returned(result) \in I2cCall
         /\ Returned(result).phase = "idle" /\ Returned(result).result = result
<1>1. <<>> \in Seq(Operations) /\ 0 \in 0 .. MAX_POLLS /\ 0 \in 0 .. MaxBuses
  BY I2cAssumption
<1> QED BY <1>1 DEF Returned, I2cCall, Phases, NULL

LEMMA PlansType ==
  ASSUME NEW a \in I2cAddr
  PROVE  i2c_sensor_read(a) \in Seq(Operations) /\ EndsInFetch(i2c_sensor_read(a))
<1>1. ads111x_read_channel \in Seq(Operations) /\ EndsInFetch(ads111x_read_channel)
  <2> DEFINE n == 3 * SAMPLES_PER_AVERAGE
             op(i) == CASE i % 3 = 1 -> "trigger" [] i % 3 = 2 -> "delay" [] i % 3 = 0 -> "fetch"
  <2>1. n \in Nat \ {0} /\ n % 3 = 0
    BY I2cAssumption
  <2>2. \A i \in 1 .. n : op(i) \in Operations
    BY <2>1 DEF Operations
  <2>3. op(n) = "fetch"
    BY <2>1
  <2>4. ads111x_read_channel = [i \in 1 .. n |-> op(i)]
    BY DEF ads111x_read_channel
  <2> HIDE DEF op, n
  <2> QED BY <2>1, <2>2, <2>3, <2>4 DEF EndsInFetch
<1>2. hdc1080_trigger_and_read \in Seq(Operations) /\ EndsInFetch(hdc1080_trigger_and_read)
  BY DEF hdc1080_trigger_and_read, EndsInFetch, Operations
<1>3. lps22hb_trigger_and_read \in Seq(Operations) /\ EndsInFetch(lps22hb_trigger_and_read)
  BY DEF lps22hb_trigger_and_read, EndsInFetch, Operations
<1>4. ltc4015_read_channel \in Seq(Operations) /\ EndsInFetch(ltc4015_read_channel)
  <2>1. <<"fetch">> \in Seq(Operations) /\ EndsInFetch(<<"fetch">>)
    BY DEF EndsInFetch, Operations
  <2>2. <<"config", "fetch">> \in Seq(Operations) /\ EndsInFetch(<<"config", "fetch">>)
    BY DEF EndsInFetch, Operations
  <2> QED BY <2>1, <2>2 DEF ltc4015_read_channel
<1>5. generic_read_register16 \in Seq(Operations) /\ EndsInFetch(generic_read_register16)
  BY DEF generic_read_register16, EndsInFetch, Operations
<1>6. Driver[a] \in Drivers
  BY I2cAssumption DEF I2cAddr
<1> QED BY <1>1, <1>2, <1>3, <1>4, <1>5, <1>6 DEF i2c_sensor_read, Drivers

LEMMA TailComplete ==
  ASSUME NEW plan \in Seq(Operations), EndsInFetch(plan), Head(plan) # "fetch" \/ Tail(plan) # <<>>
  PROVE  Tail(plan) \in Seq(Operations) /\ EndsInFetch(Tail(plan))
<1>1. Len(plan) \in Nat \ {0} /\ plan[Len(plan)] = "fetch"
  BY DEF EndsInFetch
<1>2. /\ Tail(plan) \in Seq(Operations) /\ Len(Tail(plan)) = Len(plan) - 1
      /\ \A i \in 1 .. Len(plan) - 1 : Tail(plan)[i] = plan[i + 1]
  BY <1>1
<1>3. Len(plan) # 1
  <2>1. CASE Head(plan) # "fetch"
    BY <1>1, <2>1
  <2>2. CASE Tail(plan) # <<>>
    BY <1>1, <1>2, <2>2
  <2> QED BY <2>1, <2>2
<1>4. Len(plan) - 1 \in 1 .. Len(plan) - 1
  BY <1>1, <1>3
<1>5. Tail(plan)[Len(Tail(plan))] = "fetch"
  BY <1>1, <1>2, <1>4
<1>6. Tail(plan) # <<>>
  <2>1. Len(Tail(plan)) # 0
    BY <1>1, <1>2, <1>3
  <2>2. Len(<<>>) = 0
    OBVIOUS
  <2> QED BY <2>1, <2>2, Zenon
<1> QED BY <1>2, <1>5, <1>6 DEF EndsInFetch

LEMMA DelayComplete ==
  ASSUME NEW plan \in Seq(Operations), EndsInFetch(plan)
  PROVE  <<"delay">> \o plan \in Seq(Operations) /\ EndsInFetch(<<"delay">> \o plan)
BY DEF EndsInFetch, Operations

LEMMA PastType ==
  ASSUME NEW c \in ChipState, NEW t \in I2cTasks
  PROVE  Past(c, t) \in ChipState
BY DEF Past, ChipState

LEMMA I2cInitInv == I2cInit => I2cIInv
<1> SUFFICES ASSUME I2cInit PROVE I2cIInv
  OBVIOUS
<1>1. I2cTypeOK
  <2>0. 0 \in 0 .. MaxBuses /\ 1 \in 0 .. MaxBuses /\ 1 \in 1 .. MaxBuses
    BY I2cAssumption
  <2>1. /\ i2c_mutex \in I2cTasks \cup {"none"}
        /\ i2c_initialized \in BOOLEAN /\ s_meas_sys_checked \in BOOLEAN
        /\ s_bus \in 0 .. MaxBuses /\ buses \in 1 .. MaxBuses
        /\ s_devices \in [I2cAddr -> 0 .. MaxBuses]
        /\ i2c_tainted \subseteq I2cTasks
    BY <2>0 DEF I2cInit, NULL
  <2>2. i2c_call \in [I2cTasks -> I2cCall]
    BY ReturnedType DEF I2cInit
  <2>3. chip \in [I2cAddr -> ChipState]
    BY DEF I2cInit, ChipState
  <2> QED BY <2>1, <2>2, <2>3 DEF I2cTypeOK, I2cCall, ChipState
<1>2. BusIsMine /\ PlansComplete /\ HandlesOfLiveBus
  BY ReturnedType DEF I2cInit, BusIsMine, PlansComplete, HandlesOfLiveBus, NULL
<1> QED BY <1>1, <1>2 DEF I2cIInv

(* What a step may do to the call of t, and to the rest of the drivers' state. *)
CallGoes(t) ==
    \E c \in I2cCall : /\ i2c_call' = [i2c_call EXCEPT ![t] = c]
                       /\ c.phase # "wire"
                       /\ c.phase = "probe" => i2c_mutex' = t
                       /\ c.phase \in {"call", "lock"} => EndsInFetch(c.plan)

Outcome(t) ==
    /\ CallGoes(t)
    /\ chip' \in [I2cAddr -> ChipState]
    /\ i2c_tainted' \subseteq I2cTasks
    /\ s_meas_sys_checked' \in BOOLEAN

LEMMA ProceedGoes ==
  ASSUME I2cIInv, NEW t \in I2cTasks, NEW plan \in Seq(Operations), EndsInFetch(plan),
         NEW pure \in BOOLEAN, Proceed(t, plan, pure)
  PROVE  CallGoes(t)
<1> DEFINE c == [i2c_call[t] EXCEPT !.phase = "call", !.plan = plan, !.handle = NULL, !.pure = pure]
<1>1. 0 \in 0 .. MaxBuses
  BY I2cAssumption
<1>2. c \in I2cCall /\ c.phase = "call" /\ c.plan = plan
  BY <1>1, I2cTypes DEF I2cIInv, I2cCall, Phases, NULL
<1>3. i2c_call' = [i2c_call EXCEPT ![t] = c]
  BY I2cTypes DEF Proceed, I2cIInv
<1> QED BY <1>2, <1>3 DEF CallGoes

LEMMA FinishGoes ==
  ASSUME I2cIInv, NEW t \in I2cTasks, NEW result \in {"none", "value", "error"},
         I2cFinish(t, result)
  PROVE  CallGoes(t) /\ chip' \in [I2cAddr -> ChipState]
<1>1. CallGoes(t)
  BY ReturnedType DEF I2cFinish, CallGoes
<1>2. chip' \in [I2cAddr -> ChipState]
  BY I2cTypes, PastType DEF I2cFinish, I2cIInv
<1> QED BY <1>1, <1>2

LEMMA FailureGoes ==
  ASSUME I2cIInv, NEW t \in I2cTasks, TransactionFailed(t)
  PROVE  CallGoes(t) /\ chip' \in [I2cAddr -> ChipState]
<1>1. <<"fetch">> \in Seq(Operations) /\ EndsInFetch(<<"fetch">>)
  BY DEF EndsInFetch, Operations
<1>2. CASE Op(t) \in {"config", "enable"}
  <2>1. Proceed(t, <<"fetch">>, i2c_call[t].pure) /\ UNCHANGED chip
    BY <1>2 DEF TransactionFailed
  <2> QED BY <1>1, <2>1, ProceedGoes, I2cTypes DEF I2cIInv
<1>3. CASE Op(t) \notin {"config", "enable"}
  BY <1>3, FinishGoes DEF TransactionFailed
<1> QED BY <1>2, <1>3

(* The step that follows a trigger, a poll or a look at the configuration. *)
LEMMA NextStep ==
  ASSUME I2cIInv, NEW t \in I2cTasks, i2c_call[t].phase \in {"call", "wire"}, Op(t) # "fetch"
  PROVE  Tail(i2c_call[t].plan) \in Seq(Operations) /\ EndsInFetch(Tail(i2c_call[t].plan))
<1>1. i2c_call[t].plan \in Seq(Operations) /\ EndsInFetch(i2c_call[t].plan)
  BY I2cTypes DEF I2cIInv, PlansComplete
<1> QED BY <1>1, TailComplete DEF Op

LEMMA AnsweredGoes ==
  ASSUME I2cIInv, NEW t \in I2cTasks, i2c_call[t].phase = "wire",
         Answered(t, i2c_call[t].addr)
  PROVE  Outcome(t)
<1> DEFINE a == i2c_call[t].addr
           plan == i2c_call[t].plan
<1>1. /\ plan \in Seq(Operations) /\ EndsInFetch(plan) /\ i2c_call[t].pure \in BOOLEAN
      /\ i2c_tainted \subseteq I2cTasks /\ s_meas_sys_checked \in BOOLEAN
      /\ chip \in [I2cAddr -> ChipState]
  BY I2cTypes DEF I2cIInv, PlansComplete, I2cTypeOK
<1>2. CASE Op(t) = "trigger" /\ Trigger(t, a)
  <2>1. CallGoes(t)
    BY <1>1, <1>2, NextStep, ProceedGoes DEF Trigger
  <2>2. chip' \in [I2cAddr -> ChipState]
    <3>1. \A b \in I2cAddr : [chip[b] EXCEPT !.by = t] \in ChipState
      BY <1>1 DEF ChipState
    <3> QED BY <1>1, <1>2, <3>1 DEF Trigger
  <2>3. Collecting(a) \subseteq I2cTasks
    BY DEF Collecting
  <2>4. i2c_tainted' \subseteq I2cTasks /\ s_meas_sys_checked' \in BOOLEAN
    BY <1>1, <1>2, <2>3 DEF Trigger
  <2> QED BY <2>1, <2>2, <2>4 DEF Outcome
<1>3. CASE Op(t) = "poll" /\ Poll(t, a)
  <2>1. i2c_tainted' \subseteq I2cTasks /\ s_meas_sys_checked' \in BOOLEAN
    BY <1>1, <1>3 DEF Poll
  <2>2. CASE Proceed(t, Tail(plan), i2c_call[t].pure) /\ UNCHANGED chip
    BY <1>1, <1>3, <2>1, <2>2, NextStep, ProceedGoes DEF Outcome
  <2>3. CASE I2cFinish(t, "error")
    BY <2>1, <2>3, FinishGoes DEF Outcome
  <2>4. ASSUME ~(i2c_call[t].polls + 1 >= MAX_POLLS), UNCHANGED chip,
               i2c_call' = [i2c_call EXCEPT ![t].phase = "call", ![t].handle = NULL,
                                            ![t].polls = @ + 1, ![t].plan = <<"delay">> \o @]
        PROVE  Outcome(t)
    <3> DEFINE c == [i2c_call[t] EXCEPT !.phase = "call", !.handle = NULL,
                                        !.polls = @ + 1, !.plan = <<"delay">> \o @]
    <3>1. /\ <<"delay">> \o plan \in Seq(Operations) /\ EndsInFetch(<<"delay">> \o plan)
          /\ i2c_call[t].polls + 1 \in 0 .. MAX_POLLS /\ 0 \in 0 .. MaxBuses
      BY <1>1, <2>4, DelayComplete, I2cTypes, I2cAssumption DEF I2cIInv
    <3>2. c \in I2cCall /\ c.phase = "call" /\ EndsInFetch(c.plan)
      BY <3>1, I2cTypes DEF I2cIInv, I2cCall, Phases, NULL
    <3>3. i2c_call' = [i2c_call EXCEPT ![t] = c]
      BY <2>4, I2cTypes DEF I2cIInv
    <3> QED BY <1>1, <2>1, <2>4, <3>2, <3>3 DEF Outcome, CallGoes
  <2> QED BY <1>3, <2>2, <2>3, <2>4 DEF Poll
<1>4. CASE Op(t) = "fetch" /\ Fetch(t, a)
  <2> DEFINE read == [chip EXCEPT ![a].ready = FALSE]
  <2>1. i2c_tainted' \subseteq I2cTasks /\ s_meas_sys_checked' \in BOOLEAN
    BY <1>1, <1>4 DEF Fetch
  <2>2. read \in [I2cAddr -> ChipState]
    BY <1>1 DEF ChipState
  <2>3. CASE Tail(plan) = <<>>
    <3>1. /\ i2c_call' = [i2c_call EXCEPT ![t] = Returned("value")]
          /\ chip' = [b \in I2cAddr |-> Past(read[b], t)]
      BY <1>4, <2>3 DEF Fetch
    <3> HIDE DEF read
    <3>2. chip' \in [I2cAddr -> ChipState]
      BY <2>2, <3>1, PastType
    <3> QED BY <2>1, <3>1, <3>2, ReturnedType DEF Outcome, CallGoes
  <2>4. CASE Tail(plan) # <<>>
    <3>1. /\ Proceed(t, Tail(plan), i2c_call[t].pure /\ OwnResult(a, t))
          /\ chip' = read
      BY <1>4, <2>4 DEF Fetch
    <3>2. Tail(plan) \in Seq(Operations) /\ EndsInFetch(Tail(plan))
      BY <1>1, <2>4, TailComplete
    <3>3. (i2c_call[t].pure /\ OwnResult(a, t)) \in BOOLEAN
      OBVIOUS
    <3>4. CallGoes(t)
      BY <3>1, <3>2, <3>3, ProceedGoes
    <3> QED BY <2>1, <2>2, <3>1, <3>4 DEF Outcome
  <2> QED BY <2>3, <2>4
<1>5. CASE Op(t) \in {"config", "enable"} /\ ensure_measurement_system_enabled(t, a)
  <2>1. <<"enable", "fetch">> \in Seq(Operations) /\ EndsInFetch(<<"enable", "fetch">>)
    BY DEF EndsInFetch, Operations
  <2>2. CallGoes(t)
    BY <1>1, <1>5, <2>1, NextStep, ProceedGoes DEF ensure_measurement_system_enabled
  <2>3. chip' \in [I2cAddr -> ChipState]
    <3>1. \A b \in I2cAddr, on \in BOOLEAN : [chip[b] EXCEPT !.on = on] \in ChipState
      BY <1>1 DEF ChipState
    <3>2. \A b \in I2cAddr : (chip[b].on \/ Op(t) = "enable") \in BOOLEAN
      OBVIOUS
    <3>3. chip' = [chip EXCEPT ![a].on = @ \/ Op(t) = "enable"]
      BY <1>5 DEF ensure_measurement_system_enabled
    <3> QED BY <1>1, <3>1, <3>2, <3>3
  <2>4. i2c_tainted' \subseteq I2cTasks /\ s_meas_sys_checked' \in BOOLEAN
    BY <1>1, <1>5 DEF ensure_measurement_system_enabled
  <2> QED BY <2>2, <2>3, <2>4 DEF Outcome
<1> QED BY <1>2, <1>3, <1>4, <1>5 DEF Answered

LEMMA OneMoreBus ==
  ASSUME NEW m \in Nat, NEW b \in 1 .. m, b < m
  PROVE  /\ 0 \in 0 .. m /\ b + 1 \in 1 .. m /\ b + 1 \in 0 .. m
         /\ b + 1 # 0
OBVIOUS

(* A step of t that leaves the bus alone or resets it keeps the invariant. *)
LEMMA CallStep ==
  ASSUME I2cIInv, NEW t \in I2cTasks, Outcome(t),
         \/ i2c_mutex' = i2c_mutex
         \/ i2c_mutex = t /\ i2c_mutex' = "none"
         \/ i2c_mutex = "none" /\ i2c_mutex' = t,
         \/ UNCHANGED <<i2c_initialized, s_bus, s_devices, buses>>
         \/ i2c_mutex = t /\ reset_bus_locked
  PROVE  I2cIInv'
<1> PICK c \in I2cCall : /\ i2c_call' = [i2c_call EXCEPT ![t] = c]
                         /\ c.phase # "wire"
                         /\ c.phase = "probe" => i2c_mutex' = t
                         /\ c.phase \in {"call", "lock"} => EndsInFetch(c.plan)
  BY DEF Outcome, CallGoes
<1>1. /\ i2c_call' \in [I2cTasks -> I2cCall]
      /\ i2c_call'[t] = c
      /\ \A u \in I2cTasks \ {t} : i2c_call'[u] = i2c_call[u]
  BY I2cTypes DEF I2cIInv
<1>2. /\ i2c_mutex' \in I2cTasks \cup {"none"}
      /\ chip' \in [I2cAddr -> ChipState]
      /\ i2c_tainted' \subseteq I2cTasks /\ s_meas_sys_checked' \in BOOLEAN
  BY DEF Outcome, I2cIInv, I2cTypeOK
<1>3. BusIsMine'
  BY <1>1, I2cAssumption DEF I2cIInv, BusIsMine
<1>4. PlansComplete'
  BY <1>1 DEF I2cIInv, PlansComplete
<1>5. CASE UNCHANGED <<i2c_initialized, s_bus, s_devices, buses>>
  <2>1. I2cTypeOK'
    BY <1>1, <1>2, <1>5 DEF I2cIInv, I2cTypeOK, I2cCall, ChipState
  <2>2. HandlesOfLiveBus'
    BY <1>1, <1>3, <1>5 DEF I2cIInv, HandlesOfLiveBus, BusIsMine
  <2> QED BY <1>3, <1>4, <2>1, <2>2 DEF I2cIInv
<1>6. CASE i2c_mutex = t /\ reset_bus_locked
  <2>1. /\ buses \in 1 .. MaxBuses /\ buses < MaxBuses /\ MaxBuses \in Nat
        /\ s_devices' = [a \in I2cAddr |-> NULL]
        /\ i2c_initialized \in BOOLEAN
    BY <1>6, I2cAssumption DEF reset_bus_locked, I2cIInv, I2cTypeOK
  <2> PICK created \in BOOLEAN :
          /\ s_bus' = IF created THEN buses + 1 ELSE NULL
          /\ i2c_initialized' = (i2c_initialized /\ created)
          /\ buses' = buses + 1
    BY <1>6 DEF reset_bus_locked
  <2>0. /\ 0 \in 0 .. MaxBuses /\ buses + 1 \in 1 .. MaxBuses /\ buses + 1 \in 0 .. MaxBuses
        /\ buses + 1 # 0
    BY <2>1, OneMoreBus
  <2>2. /\ buses' \in 1 .. MaxBuses /\ s_bus' \in 0 .. MaxBuses
        /\ created => s_bus' # NULL
    BY <2>0 DEF NULL
  <2>3. s_devices' \in [I2cAddr -> 0 .. MaxBuses]
    BY <2>0, <2>1 DEF NULL
  <2>4. i2c_initialized' \in BOOLEAN /\ (i2c_initialized' => created)
    BY <2>1, Zenon
  <2>5. I2cTypeOK'
    BY <1>1, <1>2, <2>2, <2>3, <2>4 DEF I2cTypeOK, I2cCall, ChipState
  <2>6. \A u \in I2cTasks : i2c_call'[u].phase # "wire"
    BY <1>1, <1>6 DEF I2cIInv, BusIsMine
  <2>7. HandlesOfLiveBus'
    BY <2>1, <2>2, <2>4, <2>6 DEF HandlesOfLiveBus
  <2> QED BY <1>3, <1>4, <2>5, <2>7 DEF I2cIInv
<1> QED BY <1>5, <1>6

LEMMA I2cUntouched ==
  ASSUME I2cIInv
  PROVE  /\ i2c_tainted \subseteq I2cTasks /\ s_meas_sys_checked \in BOOLEAN
         /\ chip \in [I2cAddr -> ChipState]
BY DEF I2cIInv, I2cTypeOK, ChipState

LEMMA TransferKeeps ==
  ASSUME I2cIInv, NEW t \in I2cTasks, Transfer(t)
  PROVE  I2cIInv'
<1>1. i2c_call[t].phase = "wire" /\ i2c_mutex = t /\ i2c_mutex' = "none"
  BY DEF Transfer, I2cIInv, BusIsMine
<1>2. CASE /\ Answered(t, i2c_call[t].addr)
           /\ UNCHANGED <<i2c_initialized, s_bus, s_devices, buses>>
  BY <1>1, <1>2, AnsweredGoes, CallStep
<1>3. CASE /\ TransactionFailed(t)
           /\ UNCHANGED <<i2c_initialized, s_bus, s_devices, buses, s_meas_sys_checked, i2c_tainted>>
  <2>1. Outcome(t)
    BY <1>3, FailureGoes, I2cUntouched DEF Outcome
  <2> QED BY <1>1, <1>3, <2>1, CallStep
<1>4. CASE /\ reset_bus_locked
           /\ TransactionFailed(t)
           /\ UNCHANGED <<s_meas_sys_checked, i2c_tainted>>
  <2>1. Outcome(t)
    BY <1>4, FailureGoes, I2cUntouched DEF Outcome
  <2> QED BY <1>1, <1>4, <2>1, CallStep
<1> QED BY <1>2, <1>3, <1>4 DEF Transfer

LEMMA CheckBusKeeps ==
  ASSUME I2cIInv, NEW t \in I2cTasks, CheckBus(t)
  PROVE  I2cIInv'
<1>1. /\ UNCHANGED <<i2c_mutex, i2c_initialized, s_bus, s_devices, buses>>
      /\ UNCHANGED <<s_meas_sys_checked, i2c_tainted>>
  BY DEF CheckBus, bus_vars
<1>2. CASE i2c_initialized
  <2> DEFINE c == [i2c_call[t] EXCEPT !.phase = "lock"]
  <2>1. c \in I2cCall /\ c.phase = "lock" /\ EndsInFetch(c.plan)
    BY I2cTypes DEF CheckBus, I2cIInv, PlansComplete, I2cCall, Phases
  <2>2. i2c_call' = [i2c_call EXCEPT ![t] = c] /\ UNCHANGED chip
    BY <1>2, I2cTypes DEF CheckBus, I2cIInv
  <2>3. Outcome(t)
    BY <1>1, <2>1, <2>2, I2cUntouched DEF Outcome, CallGoes
  <2> QED BY <1>1, <2>3, CallStep
<1>3. CASE ~i2c_initialized
  <2>1. Outcome(t)
    BY <1>1, <1>3, FailureGoes, I2cUntouched DEF CheckBus, Outcome
  <2> QED BY <1>1, <2>1, CallStep
<1> QED BY <1>2, <1>3

LEMMA DelayOverKeeps ==
  ASSUME I2cIInv, NEW t \in I2cTasks, DelayOver(t)
  PROVE  I2cIInv'
<1> DEFINE c == [i2c_call[t] EXCEPT !.plan = Tail(@)]
<1>1. /\ UNCHANGED <<i2c_mutex, i2c_initialized, s_bus, s_devices, buses>>
      /\ UNCHANGED <<s_meas_sys_checked, i2c_tainted, chip>>
      /\ i2c_call[t].phase = "call" /\ Op(t) = "delay"
  BY DEF DelayOver, bus_vars
<1>2. Tail(i2c_call[t].plan) \in Seq(Operations) /\ EndsInFetch(Tail(i2c_call[t].plan))
  BY <1>1, NextStep
<1>3. c \in I2cCall /\ c.phase = "call" /\ EndsInFetch(c.plan)
  BY <1>1, <1>2, I2cTypes DEF I2cIInv, I2cCall
<1>4. i2c_call' = [i2c_call EXCEPT ![t] = c]
  BY I2cTypes DEF DelayOver, I2cIInv
<1>5. Outcome(t)
  BY <1>1, <1>3, <1>4, I2cUntouched DEF Outcome, CallGoes
<1> QED BY <1>1, <1>5, CallStep

LEMMA LockBusKeeps ==
  ASSUME I2cIInv, NEW t \in I2cTasks, LockBus(t)
  PROVE  I2cIInv'
<1> DEFINE a == i2c_call[t].addr
<1>1. /\ i2c_call[t].phase = "lock" /\ i2c_mutex = "none"
      /\ UNCHANGED <<i2c_initialized, s_bus, buses, s_meas_sys_checked, i2c_tainted>>
  BY DEF LockBus
<1>2. \A u \in I2cTasks : i2c_call[u].phase \notin {"wire", "probe"}
  BY <1>1, I2cAssumption DEF I2cIInv, BusIsMine
<1>3. ASSUME NEW handle \in 0 .. MaxBuses, i2c_mutex' = t, UNCHANGED chip,
             i2c_call' = [i2c_call EXCEPT ![t].phase = "wire", ![t].handle = handle],
             handle = s_bus, s_bus # NULL,
             s_devices' = s_devices \/ s_devices' = [s_devices EXCEPT ![a] = s_bus]
      PROVE  I2cIInv'
  <2>1. /\ i2c_call' \in [I2cTasks -> I2cCall]
        /\ i2c_call'[t].phase = "wire" /\ i2c_call'[t].handle = handle
        /\ i2c_call'[t].plan = i2c_call[t].plan
        /\ \A u \in I2cTasks \ {t} : i2c_call'[u] = i2c_call[u]
    <3> DEFINE c == [i2c_call[t] EXCEPT !.phase = "wire", !.handle = handle]
    <3>1. /\ c \in I2cCall
          /\ c.phase = "wire" /\ c.handle = handle /\ c.plan = i2c_call[t].plan
      BY I2cTypes DEF I2cIInv, I2cCall, Phases
    <3>2. i2c_call' = [i2c_call EXCEPT ![t] = c]
      BY <1>3, I2cTypes DEF I2cIInv
    <3> HIDE DEF c
    <3> QED BY <3>1, <3>2, I2cTypes DEF I2cIInv
  <2>2. s_devices' \in [I2cAddr -> 0 .. MaxBuses]
    BY <1>3 DEF I2cIInv, I2cTypeOK
  <2>3. I2cTypeOK'
    BY <1>1, <1>3, <2>1, <2>2 DEF I2cIInv, I2cTypeOK, I2cCall
  <2>4. BusIsMine' /\ PlansComplete'
    BY <1>1, <1>2, <1>3, <2>1 DEF I2cIInv, BusIsMine, PlansComplete
  <2>5. \A b \in I2cAddr : s_devices'[b] \in {NULL, s_bus'}
    BY <1>1, <1>3 DEF I2cIInv, I2cTypeOK, HandlesOfLiveBus
  <2>6. HandlesOfLiveBus'
    BY <1>1, <1>2, <1>3, <2>1, <2>5 DEF I2cIInv, HandlesOfLiveBus
  <2> QED BY <2>3, <2>4, <2>6 DEF I2cIInv
<1>4. CASE /\ a \in CachedDevices
           /\ i2c_mutex' = t
           /\ i2c_call' = [i2c_call EXCEPT ![t].phase = "wire", ![t].handle = s_devices[a]]
           /\ UNCHANGED <<s_devices, chip>>
  <2>1. s_devices[a] = s_bus /\ s_bus # NULL /\ s_devices[a] \in 0 .. MaxBuses
    BY <1>4 DEF CachedDevices, I2cIInv, HandlesOfLiveBus, I2cTypeOK
  <2> QED BY <1>3, <1>4, <2>1
<1>5. CASE /\ s_bus # NULL
           /\ i2c_mutex' = t
           /\ s_devices' = [s_devices EXCEPT ![a] = s_bus]
           /\ i2c_call' = [i2c_call EXCEPT ![t].phase = "wire", ![t].handle = s_bus]
           /\ UNCHANGED chip
  <2>1. s_bus \in 0 .. MaxBuses
    BY DEF I2cIInv, I2cTypeOK
  <2> QED BY <1>3, <1>5, <2>1
<1>6. CASE TransactionFailed(t) /\ UNCHANGED <<i2c_mutex, s_devices>>
  <2>1. Outcome(t)
    BY <1>1, <1>6, FailureGoes, I2cUntouched DEF Outcome
  <2> QED BY <1>1, <1>6, <2>1, CallStep
<1> QED BY <1>4, <1>5, <1>6 DEF LockBus, get_or_add_device

LEMMA I2cReadKeeps ==
  ASSUME I2cIInv, NEW t \in I2cTasks, NEW a \in I2cAddr, I2cRead(t, a)
  PROVE  I2cIInv'
<1> DEFINE plan == i2c_sensor_read(a)
           c == [Returned("none") EXCEPT !.phase = "call", !.addr = a, !.plan = plan]
<1>1. plan \in Seq(Operations) /\ EndsInFetch(plan)
  BY PlansType
<1> HIDE DEF plan
<1>2. c \in I2cCall /\ c.phase = "call" /\ EndsInFetch(c.plan)
  BY <1>1, ReturnedType DEF I2cCall, Phases
<1>3. /\ i2c_call' = [i2c_call EXCEPT ![t] = c]
      /\ i2c_tainted' = i2c_tainted \ {t}
      /\ UNCHANGED <<i2c_mutex, i2c_initialized, s_bus, s_devices, buses, s_meas_sys_checked, chip>>
  BY DEF I2cRead, bus_vars, plan
<1>4. Outcome(t)
  BY <1>2, <1>3, I2cUntouched DEF Outcome, CallGoes
<1> QED BY <1>3, <1>4, CallStep

LEMMA I2cScanKeeps ==
  ASSUME I2cIInv, NEW t \in I2cTasks, I2cScan(t)
  PROVE  I2cIInv'
<1> DEFINE c == [Returned("none") EXCEPT !.phase = "scan lock"]
<1>1. c \in I2cCall /\ c.phase = "scan lock"
  BY ReturnedType DEF I2cCall, Phases
<1>2. /\ i2c_call' = [i2c_call EXCEPT ![t] = c]
      /\ UNCHANGED <<i2c_mutex, i2c_initialized, s_bus, s_devices, buses>>
      /\ UNCHANGED <<s_meas_sys_checked, i2c_tainted, chip>>
  BY DEF I2cScan, bus_vars
<1>3. Outcome(t)
  BY <1>1, <1>2, I2cUntouched DEF Outcome, CallGoes
<1> QED BY <1>2, <1>3, CallStep

LEMMA ChipConvertsKeeps ==
  ASSUME I2cIInv, NEW a \in I2cAddr, ChipConverts(a)
  PROVE  I2cIInv'
<1>1. chip' \in [I2cAddr -> ChipState]
  <2>1. chip[a] \in ChipState /\ chip \in [I2cAddr -> ChipState]
    BY I2cTypes DEF I2cIInv
  <2>2. [chip[a] EXCEPT !.by = "none", !.from = chip[a].by, !.ready = TRUE] \in ChipState
    BY <2>1 DEF ChipState
  <2>3. chip' = [chip EXCEPT ![a] =
                   [chip[a] EXCEPT !.by = "none", !.from = chip[a].by, !.ready = TRUE]]
    BY <2>1 DEF ChipConverts
  <2> QED BY <2>1, <2>2, <2>3
<1> QED BY <1>1 DEF ChipConverts, bus_vars, I2cIInv, I2cTypeOK, ChipState, BusIsMine, PlansComplete,
          HandlesOfLiveBus

LEMMA ChargerLosesPowerKeeps ==
  ASSUME I2cIInv, NEW a \in I2cAddr, ChargerLosesPower(a)
  PROVE  I2cIInv'
<1>1. chip' \in [I2cAddr -> ChipState]
  BY I2cTypes DEF I2cIInv, ChipState, ChargerLosesPower
<1> QED BY <1>1 DEF ChargerLosesPower, bus_vars, I2cIInv, I2cTypeOK, ChipState, BusIsMine,
          PlansComplete, HandlesOfLiveBus

LEMMA LockForScanKeeps ==
  ASSUME I2cIInv, NEW t \in I2cTasks, LockForScan(t)
  PROVE  I2cIInv'
<1> DEFINE c == [i2c_call[t] EXCEPT !.phase = "probe", !.addr = 1]
<1>1. 1 \in I2cAddr
  BY I2cAssumption DEF I2cAddr
<1>2. c \in I2cCall /\ c.phase = "probe"
  BY <1>1, I2cTypes DEF I2cIInv, I2cCall, Phases
<1>3. /\ i2c_call' = [i2c_call EXCEPT ![t] = c]
      /\ i2c_mutex = "none" /\ i2c_mutex' = t
      /\ UNCHANGED <<i2c_initialized, s_bus, s_devices, buses, s_meas_sys_checked, i2c_tainted, chip>>
  BY I2cTypes DEF LockForScan, I2cIInv
<1> HIDE DEF c
<1>4. Outcome(t)
  BY <1>2, <1>3, I2cUntouched DEF Outcome, CallGoes
<1> QED BY <1>3, <1>4, CallStep

LEMMA ProbeKeeps ==
  ASSUME I2cIInv, NEW t \in I2cTasks, Probe(t)
  PROVE  I2cIInv'
<1> DEFINE next == i2c_call[t].addr + 1
           done == next \notin I2cAddr \/ ~i2c_initialized
           c == IF done THEN Returned("none") ELSE [i2c_call[t] EXCEPT !.addr = next]
<1>1. /\ i2c_call[t].phase = "probe" /\ i2c_mutex = t
      /\ i2c_mutex' = IF done THEN "none" ELSE t
      /\ i2c_call' = [i2c_call EXCEPT ![t] = c]
      /\ UNCHANGED <<s_meas_sys_checked, i2c_tainted, chip>>
      /\ \/ UNCHANGED <<i2c_initialized, s_bus, s_devices, buses>>
         \/ reset_bus_locked
  BY I2cTypes DEF Probe, I2cIInv, BusIsMine
<1>2. c \in I2cCall /\ (IF done THEN c.phase = "idle" ELSE c.phase = "probe")
  <2>1. CASE done
    BY <2>1, ReturnedType
  <2>2. CASE ~done
    <3>1. i2c_call[t] \in I2cCall /\ next \in I2cAddr \cup {NULL} /\ c = [i2c_call[t] EXCEPT !.addr = next]
      BY <2>2, I2cTypes DEF I2cIInv
    <3> HIDE DEF next
    <3> QED BY <1>1, <2>2, <3>1 DEF I2cCall
  <2> QED BY <2>1, <2>2
<1> HIDE DEF done, c
<1>3. Outcome(t)
  BY <1>1, <1>2, I2cUntouched DEF Outcome, CallGoes
<1> QED BY <1>1, <1>3, CallStep

LEMMA I2cStepKeeps ==
  ASSUME I2cIInv, NEW t \in I2cTasks, I2cStep(t)
  PROVE  I2cIInv'
BY CheckBusKeeps, LockBusKeeps, TransferKeeps, DelayOverKeeps, LockForScanKeeps, ProbeKeeps
   DEF I2cStep

LEMMA I2cStutterKeeps == I2cIInv /\ UNCHANGED i2c_vars => I2cIInv'
BY DEF I2cIInv, i2c_vars, bus_vars, I2cTypeOK, BusIsMine, PlansComplete, HandlesOfLiveBus

-----------------------------------------------------------------------------
(* The tasks on both buses *)

IInv ==
    /\ SdiIInv /\ I2cIInv
    /\ station \in Stations /\ bus_driver \in {"i2c_variable_read", "stub_sensor_read"}

LEMMA InitInv == Init => IInv
BY SdiInitInv, I2cInitInv DEF Init, IInv, register_bus_driver

LEMMA NextKeeps == IInv /\ [Next]_vars => IInv'
<1> SUFFICES ASSUME IInv, [Next]_vars PROVE IInv'
  OBVIOUS
<1>1. CASE UNCHANGED vars
  BY <1>1, SdiStutterKeeps, I2cStutterKeeps DEF IInv, vars
<1>2. ASSUME Fixed, SdiIInv', I2cIInv' PROVE IInv'
  BY <1>2 DEF IInv, Fixed
<1>3. /\ "sdi12_sched" \in SdiTasks /\ "httpd" \in SdiTasks
      /\ "i2c_sched" \in I2cTasks /\ "httpd" \in I2cTasks /\ "battery_mon" \in I2cTasks
      /\ \A v \in station.sdi : v[1] \in SdiAddr /\ v[2] \in Nat
      /\ \A a \in I2cVariables : a \in I2cAddr
  BY StationAssumption DEF IInv, I2cVariables
<1>4. SdiIInv /\ I2cIInv
  BY DEF IInv
<1>5. CASE Next
  <2>0. Fixed
    BY <1>5 DEF Next
  <2>1. CASE ScheduledRead
    BY <1>2, <1>3, <1>4, <2>0, <2>1, SdiReadKeeps, I2cReadKeeps, SdiStutterKeeps, I2cStutterKeeps
       DEF ScheduledRead
  <2>2. CASE BatteryRead
    BY <1>2, <1>3, <1>4, <2>0, <2>2, I2cReadKeeps, SdiStutterKeeps DEF BatteryRead
  <2>3. CASE preview
    BY <1>2, <1>3, <1>4, <2>0, <2>3, SdiReadKeeps, I2cReadKeeps, SdiStutterKeeps, I2cStutterKeeps
       DEF preview
  <2>4. CASE scan
    BY <1>2, <1>3, <1>4, <2>0, <2>4, SdiScanKeeps, I2cScanKeeps, SdiStutterKeeps, I2cStutterKeeps
       DEF scan
  <2>5. CASE \E t \in SdiTasks : SdiTaskStep(t)
    BY <1>2, <1>4, <2>0, <2>5, SdiStepKeeps, I2cStutterKeeps DEF SdiTaskStep
  <2>6. CASE \E t \in I2cTasks : I2cTaskStep(t)
    BY <1>2, <1>4, <2>0, <2>6, I2cStepKeeps, SdiStutterKeeps DEF I2cTaskStep
  <2>7. CASE \E a \in SdiPresent : SensorStep(a)
    BY <1>2, <1>4, <2>0, <2>7, SensorCompletesKeeps, I2cStutterKeeps DEF SensorStep
  <2>8. CASE \E a \in I2cAddr : ChipStep(a) \/ PowerLoss(a)
    BY <1>2, <1>4, <2>0, <2>8, ChipConvertsKeeps, ChargerLosesPowerKeeps, SdiStutterKeeps
       DEF ChipStep, PowerLoss
  <2> QED BY <1>5, <2>1, <2>2, <2>3, <2>4, <2>5, <2>6, <2>7, <2>8 DEF Next
<1> QED BY <1>1, <1>5

(* Every variable keeps its type. *)
THEOREM TypeCorrect == Spec => []TypeOK
<1>1. IInv => TypeOK
  BY DEF IInv, SdiIInv, I2cIInv, TypeOK
<1> QED BY <1>1, InitInv, NextKeeps, PTL DEF Spec

(* A value that sdi12_measure_and_read returns was measured after the call's *)
(* own aM!, for any number of tasks whose commands fall in between.           *)
THEOREM ReadingsAreFresh == Spec => []FreshReading
<1>1. IInv => FreshReading
  BY DEF IInv, SdiIInv
<1> QED BY <1>1, InitInv, NextKeeps, PTL DEF Spec

(* No transaction runs on a handle of a bus that reset_bus_locked has deleted, *)
(* for any number of tasks, devices and resets.                                *)
THEOREM HandlesAreLive == Spec => []HandlesOfLiveBus
<1>1. IInv => HandlesOfLiveBus
  BY DEF IInv, I2cIInv
<1> QED BY <1>1, InitInv, NextKeeps, PTL DEF Spec

-----------------------------------------------------------------------------
(***************************************************************************)
(* Readings of the I2C chips.  A reading that met no other one on its chip *)
(* and has triggered a conversion finds that chip converting for it, or    *)
(* holding its result; the plan says which of the two it may rely on.      *)
(***************************************************************************)

Triggered == {"ads111x", "hdc1080", "lps22hb"}

InCall(t) == i2c_call[t].phase \in {"call", "lock", "wire"}

(* The steps a driver's list is made of. *)
StepsOf(d) ==
    CASE d \in {"ads111x", "hdc1080"} -> {"trigger", "delay", "fetch"}
      [] d = "lps22hb" -> {"trigger", "delay", "poll", "fetch"}
      [] d = "ltc4015" -> {"config", "enable", "fetch"}
      [] d = "generic" -> {"fetch"}

(* A trigger is followed by its delay, the delay of the pressure sensor by a    *)
(* poll, and only the drivers that trigger fetch more than once.                *)
WellOrdered(d, plan) ==
    /\ \A i \in 1 .. Len(plan) : plan[i] \in StepsOf(d)
    /\ \A i \in 1 .. Len(plan) - 1 :
          /\ plan[i] = "trigger" => plan[i + 1] = "delay"
          /\ d = "lps22hb" /\ plan[i] = "delay" => plan[i + 1] = "poll"
          /\ plan[i] = "fetch" => d \in Triggered

(* What chip c holds for the reading of t when its next step is op. *)
HoldsFor(d, c, t, op) ==
    op \in {"delay", "poll", "fetch"} =>
       \/ c.by = t /\ op # "fetch" /\ (d = "lps22hb" => ~c.ready)
       \/ c.by = "none" /\ c.from = t

Untouched(t) ==
    /\ i2c_call[t].pure
    /\ Driver[i2c_call[t].addr] \in Triggered =>
          HoldsFor(Driver[i2c_call[t].addr], chip[i2c_call[t].addr], t, Op(t))

ReadingInv(t) ==
    InCall(t) => /\ i2c_call[t].addr \in I2cAddr
                 /\ i2c_call[t].result = "none"
                 /\ WellOrdered(Driver[i2c_call[t].addr], i2c_call[t].plan)
                 /\ t \in i2c_tainted \/ Untouched(t)

\* The charger was switched on, or would be had it kept its power.
SwitchedOn(c) == c.on \/ c.lost

(* The flag of the charger's driver tells the truth, as long as there is power. *)
ChargerOn ==
    s_meas_sys_checked => \A a \in I2cAddr : Driver[a] = "ltc4015" => SwitchedOn(chip[a])

ReadingsInv == ChargerOn /\ \A t \in I2cTasks : ReadingInv(t)

(* battery_monitor.c:12: "LTC4015 has no address-select pins - fixed per its    *)
(* datasheet".  The driver keeps one flag for whatever address it is given.     *)
OneCharger ==
    \A a, b \in I2cAddr : Driver[a] = "ltc4015" /\ Driver[b] = "ltc4015" => a = b

LEMMA TailOrdered ==
  ASSUME NEW d, NEW plan \in Seq(Operations), WellOrdered(d, plan), EndsInFetch(plan)
  PROVE  /\ WellOrdered(d, Tail(plan))
         /\ Head(plan) \in StepsOf(d)
         /\ Tail(plan) # <<>> =>
               /\ Head(plan) = "trigger" => Head(Tail(plan)) = "delay"
               /\ d = "lps22hb" /\ Head(plan) = "delay" => Head(Tail(plan)) = "poll"
               /\ Head(plan) = "fetch" => d \in Triggered
<1>1. Len(plan) \in Nat \ {0} /\ Head(plan) = plan[1]
  BY DEF EndsInFetch
<1>2. /\ Tail(plan) \in Seq(Operations) /\ Len(Tail(plan)) = Len(plan) - 1
      /\ \A i \in 1 .. Len(plan) - 1 : Tail(plan)[i] = plan[i + 1]
  BY <1>1
<1>3. WellOrdered(d, Tail(plan))
  <2>1. \A i \in 1 .. Len(plan) - 1 : i + 1 \in 1 .. Len(plan)
    BY <1>1
  <2>2. \A i \in 1 .. Len(plan) - 2 : /\ i \in 1 .. Len(plan) - 1 /\ i + 1 \in 1 .. Len(plan) - 1
                                      /\ Tail(plan)[i] = plan[i + 1] /\ Tail(plan)[i + 1] = plan[(i + 1) + 1]
    BY <1>1, <1>2
  <2>3. \A i \in 1 .. Len(Tail(plan)) : Tail(plan)[i] \in StepsOf(d)
    BY <1>2, <2>1 DEF WellOrdered
  <2>4. Len(Tail(plan)) - 1 = Len(plan) - 2
    BY <1>1, <1>2
  <2>5. \A i \in 1 .. Len(Tail(plan)) - 1 :
          /\ Tail(plan)[i] = "trigger" => Tail(plan)[i + 1] = "delay"
          /\ d = "lps22hb" /\ Tail(plan)[i] = "delay" => Tail(plan)[i + 1] = "poll"
          /\ Tail(plan)[i] = "fetch" => d \in Triggered
    <3> SUFFICES ASSUME NEW i \in 1 .. Len(plan) - 2
                 PROVE  /\ Tail(plan)[i] = "trigger" => Tail(plan)[i + 1] = "delay"
                        /\ d = "lps22hb" /\ Tail(plan)[i] = "delay" => Tail(plan)[i + 1] = "poll"
                        /\ Tail(plan)[i] = "fetch" => d \in Triggered
      BY <2>4
    <3>1. /\ i + 1 \in 1 .. Len(plan) - 1
          /\ Tail(plan)[i] = plan[i + 1] /\ Tail(plan)[i + 1] = plan[(i + 1) + 1]
      BY <2>2
    <3> DEFINE j == i + 1
    <3>2. j \in 1 .. Len(plan) - 1 /\ Tail(plan)[i] = plan[j] /\ Tail(plan)[i + 1] = plan[j + 1]
      BY <3>1
    <3> HIDE DEF j
    <3> QED BY <3>2 DEF WellOrdered
  <2> QED BY <2>3, <2>5 DEF WellOrdered
<1>4. Head(plan) \in StepsOf(d)
  BY <1>1 DEF WellOrdered
<1>5. ASSUME Tail(plan) # <<>>
      PROVE  /\ Head(plan) = "trigger" => Head(Tail(plan)) = "delay"
             /\ d = "lps22hb" /\ Head(plan) = "delay" => Head(Tail(plan)) = "poll"
             /\ Head(plan) = "fetch" => d \in Triggered
  <2>1. Len(Tail(plan)) # 0
    BY <1>2, <1>5
  <2>2. 1 \in 1 .. Len(plan) - 1
    BY <1>1, <1>2, <2>1
  <2>3. Head(Tail(plan)) = plan[1 + 1]
    BY <1>2, <2>2
  <2> QED BY <1>1, <2>2, <2>3 DEF WellOrdered
<1> QED BY <1>3, <1>4, <1>5

LEMMA FetchOrdered == ASSUME NEW d \in Drivers PROVE WellOrdered(d, <<"fetch">>)
BY DEF WellOrdered, StepsOf, Drivers

LEMMA DelayOrdered ==
  ASSUME NEW plan \in Seq(Operations), WellOrdered("lps22hb", plan), EndsInFetch(plan), Head(plan) = "poll"
  PROVE  WellOrdered("lps22hb", <<"delay">> \o plan) /\ Head(<<"delay">> \o plan) = "delay"
<1> DEFINE p == <<"delay">> \o plan
<1>1. /\ Len(plan) \in Nat \ {0} /\ plan[1] = "poll"
  BY DEF EndsInFetch
<1>2. /\ Len(p) = Len(plan) + 1 /\ p[1] = "delay" /\ Head(p) = "delay"
      /\ \A i \in 2 .. Len(plan) + 1 : p[i] = plan[i - 1]
  BY <1>1
<1> HIDE DEF p
<1>3. ASSUME NEW i \in 1 .. Len(p) PROVE p[i] \in StepsOf("lps22hb")
  <2>1. CASE i = 1
    BY <1>2, <2>1 DEF StepsOf
  <2>2. CASE i # 1
    <3>1. i \in 2 .. Len(plan) + 1 /\ i - 1 \in 1 .. Len(plan)
      BY <1>1, <1>2, <2>2
    <3> QED BY <1>2, <3>1 DEF WellOrdered
  <2> QED BY <2>1, <2>2
<1>4. ASSUME NEW i \in 1 .. Len(p) - 1
      PROVE  /\ p[i] = "trigger" => p[i + 1] = "delay"
             /\ p[i] = "delay" => p[i + 1] = "poll"
  <2>1. CASE i = 1
    BY <1>1, <1>2, <2>1
  <2>2. CASE i # 1
    <3>1. /\ i \in 2 .. Len(plan) + 1 /\ i + 1 \in 2 .. Len(plan) + 1
          /\ i - 1 \in 1 .. Len(plan) - 1 /\ (i + 1) - 1 = (i - 1) + 1
      BY <1>1, <1>2, <2>2
    <3> DEFINE j == i - 1
    <3>2. j \in 1 .. Len(plan) - 1 /\ p[i] = plan[j] /\ p[i + 1] = plan[j + 1]
      BY <1>2, <3>1
    <3> HIDE DEF j
    <3> QED BY <3>2 DEF WellOrdered
  <2> QED BY <2>1, <2>2
<1>5. "lps22hb" \in Triggered
  BY DEF Triggered
<1> QED BY <1>2, <1>3, <1>4, <1>5 DEF WellOrdered, p

\* A driver that triggers begins with it.
LEMMA PlansOrdered ==
  ASSUME NEW a \in I2cAddr
  PROVE  /\ WellOrdered(Driver[a], i2c_sensor_read(a))
         /\ Driver[a] \in Triggered => Head(i2c_sensor_read(a)) = "trigger"
<1>1. WellOrdered("ads111x", ads111x_read_channel) /\ Head(ads111x_read_channel) = "trigger"
  <2> DEFINE n == 3 * SAMPLES_PER_AVERAGE
             p == ads111x_read_channel
             op(i) == CASE i % 3 = 1 -> "trigger" [] i % 3 = 2 -> "delay" [] i % 3 = 0 -> "fetch"
  <2>1. n \in Nat \ {0}
    BY I2cAssumption
  <2>2. p = [i \in 1 .. n |-> op(i)]
    BY DEF ads111x_read_channel
  <2>3. \A i \in Nat : /\ op(i) \in {"trigger", "delay", "fetch"}
                       /\ op(i) = "trigger" => op(i + 1) = "delay"
    OBVIOUS
  <2>4. op(1) = "trigger"
    OBVIOUS
  <2> HIDE DEF op, n, p
  <2>5. Len(p) = n /\ p # <<>> /\ \A i \in 1 .. n : p[i] = op(i)
    BY <2>1, <2>2
  <2>6. Head(p) = "trigger"
    <3>1. p \in Seq({"trigger", "delay", "fetch"})
      BY <2>1, <2>2, <2>3
    <3> QED BY <2>1, <2>4, <2>5, <3>1
  <2>7. \A i \in 1 .. n : p[i] \in {"trigger", "delay", "fetch"}
    BY <2>1, <2>3, <2>5
  <2>8. \A i \in 1 .. n - 1 : p[i] = "trigger" => p[i + 1] = "delay"
    BY <2>1, <2>3, <2>5
  <2> QED BY <2>5, <2>6, <2>7, <2>8 DEF WellOrdered, StepsOf, Triggered, p
<1>2. WellOrdered("hdc1080", hdc1080_trigger_and_read) /\ Head(hdc1080_trigger_and_read) = "trigger"
  BY DEF hdc1080_trigger_and_read, WellOrdered, StepsOf, Triggered
<1>3. WellOrdered("lps22hb", lps22hb_trigger_and_read) /\ Head(lps22hb_trigger_and_read) = "trigger"
  BY DEF lps22hb_trigger_and_read, WellOrdered, StepsOf, Triggered
<1>4. WellOrdered("ltc4015", ltc4015_read_channel)
  <2>1. WellOrdered("ltc4015", <<"fetch">>)
    BY FetchOrdered DEF Drivers
  <2>2. WellOrdered("ltc4015", <<"config", "fetch">>)
    BY DEF WellOrdered, StepsOf, Triggered
  <2> QED BY <2>1, <2>2 DEF ltc4015_read_channel
<1>5. WellOrdered("generic", generic_read_register16)
  BY FetchOrdered DEF Drivers, generic_read_register16
<1>6. Driver[a] \in Drivers
  BY I2cAssumption DEF I2cAddr
<1> QED BY <1>1, <1>2, <1>3, <1>4, <1>5, <1>6 DEF i2c_sensor_read, Drivers, Triggered

(* What a step of t may do to the rest: the other calls stay as they are, and a *)
(* chip goes on serving the reading of u, or u has met another one.              *)
Serves(c, d, u) ==
    /\ c.by = u => d.by = u
    /\ c.by = "none" => d.by = "none"
    /\ c.from = u => d.from = u
    /\ d.ready => c.ready

StepOf(t) ==
    /\ \A u \in I2cTasks \ {t} : /\ i2c_call'[u] = i2c_call[u]
                                 /\ u \in i2c_tainted => u \in i2c_tainted'
    /\ \A u \in I2cTasks \ {t}, b \in I2cAddr :
          Serves(chip[b], chip'[b], u) \/ (u \in Collecting(b) => u \in i2c_tainted')
    /\ \A b \in I2cAddr : SwitchedOn(chip[b]) => SwitchedOn(chip'[b])

LEMMA OthersGoOn ==
  ASSUME I2cIInv, NEW t \in I2cTasks, StepOf(t), NEW u \in I2cTasks \ {t}, ReadingInv(u)
  PROVE  ReadingInv(u)'
<1> DEFINE a == i2c_call[u].addr
<1>1. i2c_call'[u] = i2c_call[u]
  BY DEF StepOf
<1> SUFFICES ASSUME InCall(u)
             PROVE  u \in i2c_tainted' \/ Untouched(u)'
  BY <1>1 DEF ReadingInv, InCall
<1>2. a \in I2cAddr /\ (u \in i2c_tainted \/ Untouched(u)) /\ i2c_call[u].plan # <<>>
  BY DEF ReadingInv, I2cIInv, PlansComplete, InCall, EndsInFetch
<1>3. CASE u \in i2c_tainted
  BY <1>3 DEF StepOf
<1>4. CASE u \in Collecting(a) /\ u \in i2c_tainted'
  BY <1>4
<1>5. CASE Untouched(u) /\ u \notin Collecting(a)
  <2>1. Op(u) \notin {"delay", "poll", "fetch"}
    BY <1>2, <1>5 DEF Collecting
  <2>2. Op(u)' = Op(u)
    BY <1>1 DEF Op
  <2> QED BY <1>1, <1>5, <2>1, <2>2 DEF Untouched, HoldsFor
<1>6. CASE Untouched(u) /\ Serves(chip[a], chip'[a], u)
  <2>1. ASSUME NEW d, NEW op, HoldsFor(d, chip[a], u, op)
        PROVE  HoldsFor(d, chip'[a], u, op)
    BY <1>6, <2>1 DEF HoldsFor, Serves
  <2>2. Op(u)' = Op(u)
    BY <1>1 DEF Op
  <2> QED BY <1>1, <1>6, <2>1, <2>2 DEF Untouched
<1> QED BY <1>2, <1>3, <1>4, <1>5, <1>6 DEF StepOf

\* Nothing of a chip that matters to another reading goes with the end of a call.
LEMMA PastServes ==
  ASSUME NEW c \in ChipState, NEW t \in I2cTasks, NEW u \in I2cTasks \ {t}
  PROVE  Serves(c, Past(c, t), u)
BY I2cAssumption DEF Serves, Past, ChipState

LEMMA PastIsOn ==
  ASSUME NEW c \in ChipState, NEW t \in I2cTasks
  PROVE  Past(c, t).on = c.on /\ Past(c, t).lost = c.lost
BY DEF Past, ChipState

LEMMA SameServes == \A c, u : Serves(c, c, u)
BY DEF Serves

LEMMA ProceedCall ==
  ASSUME I2cIInv, NEW t \in I2cTasks, NEW plan, NEW pure, Proceed(t, plan, pure)
  PROVE  /\ i2c_call'[t].phase = "call" /\ i2c_call'[t].addr = i2c_call[t].addr
         /\ i2c_call'[t].plan = plan /\ i2c_call'[t].pure = pure
         /\ i2c_call'[t].result = i2c_call[t].result
         /\ \A u \in I2cTasks \ {t} : i2c_call'[u] = i2c_call[u]
<1>1. i2c_call \in [I2cTasks -> I2cCall] /\ i2c_call[t] \in I2cCall
  BY I2cTypes DEF I2cIInv
<1> QED BY <1>1 DEF Proceed, I2cCall

LEMMA FinishCall ==
  ASSUME I2cIInv, NEW t \in I2cTasks, NEW result \in {"none", "value", "error"}, I2cFinish(t, result)
  PROVE  /\ i2c_call'[t].phase = "idle" /\ i2c_call'[t].result = result
         /\ \A u \in I2cTasks \ {t} : i2c_call'[u] = i2c_call[u]
         /\ \A b \in I2cAddr : SwitchedOn(chip[b]) => SwitchedOn(chip'[b])
         /\ \A u \in I2cTasks \ {t}, b \in I2cAddr : Serves(chip[b], chip'[b], u)
<1>1. i2c_call \in [I2cTasks -> I2cCall] /\ chip \in [I2cAddr -> ChipState]
  BY I2cTypes DEF I2cIInv
<1>2. Returned(result).phase = "idle" /\ Returned(result).result = result
  BY ReturnedType
<1>3. \A b \in I2cAddr : chip'[b] = Past(chip[b], t)
  BY DEF I2cFinish
<1>4. i2c_call' = [i2c_call EXCEPT ![t] = Returned(result)]
  BY DEF I2cFinish
<1>5. i2c_call'[t] = Returned(result) /\ \A u \in I2cTasks \ {t} : i2c_call'[u] = i2c_call[u]
  BY <1>1, <1>4
<1>6. \A b \in I2cAddr : SwitchedOn(chip[b]) => SwitchedOn(chip'[b])
  BY <1>1, <1>3, PastIsOn DEF SwitchedOn
<1>7. \A u \in I2cTasks \ {t}, b \in I2cAddr : Serves(chip[b], chip'[b], u)
  BY <1>1, <1>3, PastServes
<1> QED BY <1>2, <1>5, <1>6, <1>7

\* An error: the other readings go on, and so does that of the charger.
LEMMA FailureReading ==
  ASSUME I2cIInv, NEW t \in I2cTasks, InCall(t), ReadingInv(t), TransactionFailed(t),
         UNCHANGED i2c_tainted
  PROVE  StepOf(t) /\ ReadingInv(t)' /\ i2c_call'[t].result # "value"
<1> DEFINE a == i2c_call[t].addr
<1>1. CASE Op(t) \in {"config", "enable"}
  <2>1. Proceed(t, <<"fetch">>, i2c_call[t].pure) /\ UNCHANGED chip
    BY <1>1 DEF TransactionFailed
  <2>2. /\ i2c_call'[t].phase = "call" /\ i2c_call'[t].addr = a
        /\ i2c_call'[t].plan = <<"fetch">> /\ i2c_call'[t].pure = i2c_call[t].pure
        /\ i2c_call'[t].result = i2c_call[t].result
        /\ \A u \in I2cTasks \ {t} : i2c_call'[u] = i2c_call[u]
    BY <2>1, ProceedCall
  <2>3. a \in I2cAddr /\ Driver[a] \in Drivers
    BY I2cAssumption DEF ReadingInv, I2cAddr
  <2>4. Driver[a] \notin Triggered
    <3>1. Op(t) \in StepsOf(Driver[a])
      BY TailOrdered, I2cTypes DEF ReadingInv, Op, I2cIInv, PlansComplete, InCall
    <3> QED BY <1>1, <3>1 DEF StepsOf, Triggered
  <2>5. WellOrdered(Driver[a], <<"fetch">>)
    BY <2>3, FetchOrdered
  <2>6. ReadingInv(t)'
    BY <2>2, <2>3, <2>4, <2>5 DEF ReadingInv, Untouched, InCall
  <2> QED BY <2>1, <2>2, <2>6, SameServes DEF StepOf, ReadingInv, InCall
<1>2. CASE I2cFinish(t, "error")
  BY <1>2, FinishCall DEF StepOf, ReadingInv, InCall
<1> QED BY <1>1, <1>2 DEF TransactionFailed

\* What a transaction that went through leaves of the reading.
LEMMA AnsweredReading ==
  ASSUME OneCharger, I2cIInv, ChargerOn, NEW t \in I2cTasks, i2c_call[t].phase = "wire", ReadingInv(t),
         Answered(t, i2c_call[t].addr)
  PROVE  /\ StepOf(t) /\ ReadingInv(t)' /\ ChargerOn'
         /\ i2c_call'[t].result = "value" =>
               \/ i2c_call[t].pure /\ OwnResult(i2c_call[t].addr, t)
               \/ t \in i2c_tainted
               \/ UnmeasuredCharger(i2c_call[t].addr)
<1> DEFINE a == i2c_call[t].addr
           plan == i2c_call[t].plan
           d == Driver[a]
           Goal == /\ StepOf(t) /\ ReadingInv(t)' /\ ChargerOn'
                   /\ i2c_call'[t].result = "value" =>
                         \/ i2c_call[t].pure /\ OwnResult(a, t)
                         \/ t \in i2c_tainted
                         \/ UnmeasuredCharger(a)
<1>1. /\ a \in I2cAddr /\ d \in Drivers /\ i2c_call[t].result = "none"
      /\ WellOrdered(d, plan) /\ (t \in i2c_tainted \/ Untouched(t))
  BY I2cAssumption DEF ReadingInv, InCall, I2cAddr
<1>2. /\ plan \in Seq(Operations) /\ EndsInFetch(plan)
      /\ chip \in [I2cAddr -> ChipState] /\ i2c_call \in [I2cTasks -> I2cCall]
      /\ i2c_tainted \subseteq I2cTasks
  BY I2cTypes DEF I2cIInv, PlansComplete, I2cTypeOK
<1>3. /\ WellOrdered(d, Tail(plan)) /\ Op(t) \in StepsOf(d)
      /\ Tail(plan) # <<>> =>
            /\ Op(t) = "trigger" => Head(Tail(plan)) = "delay"
            /\ Op(t) = "fetch" => d \in Triggered
  BY <1>1, <1>2, TailOrdered DEF Op
<1>4. Op(t) # "fetch" => Tail(plan) # <<>>
  BY <1>2, NextStep DEF EndsInFetch
<1>5. ASSUME NEW pure, Proceed(t, Tail(plan), pure),
             t \in i2c_tainted' \/ (pure /\ (d \in Triggered => HoldsFor(d, chip'[a], t, Head(Tail(plan)))))
      PROVE  ReadingInv(t)' /\ i2c_call'[t].result # "value"
  <2>1. /\ i2c_call'[t].phase = "call" /\ i2c_call'[t].addr = a
        /\ i2c_call'[t].plan = Tail(plan) /\ i2c_call'[t].pure = pure
        /\ i2c_call'[t].result = i2c_call[t].result
    BY <1>5, ProceedCall
  <2> QED BY <1>1, <1>3, <1>5, <2>1 DEF ReadingInv, Untouched, Op
<1>6. CASE Op(t) = "trigger" /\ Trigger(t, a)
  <2>1. /\ chip' = [chip EXCEPT ![a].by = t]
        /\ i2c_tainted' = i2c_tainted \cup (Collecting(a) \ {t})
                            \cup (IF d = "lps22hb" /\ chip[a].ready THEN {t} ELSE {})
        /\ Proceed(t, Tail(plan), i2c_call[t].pure)
        /\ UNCHANGED s_meas_sys_checked
    BY <1>6 DEF Trigger
  <2>2. /\ chip'[a].by = t /\ chip'[a].ready = chip[a].ready /\ chip'[a].on = chip[a].on
        /\ chip'[a].lost = chip[a].lost
        /\ \A b \in I2cAddr \ {a} : chip'[b] = chip[b]
    BY <1>1, <1>2, <2>1 DEF ChipState
  <2>3. StepOf(t)
    <3>1. \A u \in I2cTasks \ {t} : i2c_call'[u] = i2c_call[u]
      BY <2>1, ProceedCall
    <3>2. \A u \in I2cTasks \ {t}, b \in I2cAddr :
             Serves(chip[b], chip'[b], u) \/ (u \in Collecting(b) => u \in i2c_tainted')
      BY <2>1, <2>2, SameServes
    <3> QED BY <2>1, <2>2, <3>1, <3>2 DEF StepOf, SwitchedOn
  <2>4. t \in i2c_tainted' \/ (i2c_call[t].pure /\ HoldsFor(d, chip'[a], t, "delay"))
    BY <1>1, <2>1, <2>2 DEF Untouched, HoldsFor
  <2>5. Head(Tail(plan)) = "delay"
    BY <1>3, <1>4, <1>6
  <2>6. ReadingInv(t)' /\ i2c_call'[t].result # "value"
    BY <1>5, <2>1, <2>4, <2>5
  <2>7. ChargerOn'
    BY <2>1, <2>2 DEF ChargerOn, SwitchedOn
  <2> QED BY <2>3, <2>6, <2>7
<1>7. CASE Op(t) = "poll" /\ Poll(t, a)
  <2>1. d = "lps22hb" /\ "lps22hb" \in Triggered
    BY <1>1, <1>3, <1>7 DEF StepsOf, Triggered, Drivers
  <2>2. UNCHANGED <<i2c_tainted, s_meas_sys_checked>>
    BY <1>7 DEF Poll
  <2>3. CASE chip[a].ready /\ Proceed(t, Tail(plan), i2c_call[t].pure) /\ UNCHANGED chip
    <3>1. t \in i2c_tainted \/ (i2c_call[t].pure /\ chip[a].by = "none" /\ chip[a].from = t)
      BY <1>1, <1>7, <2>1, <2>3 DEF Untouched, HoldsFor
    <3>2. t \in i2c_tainted' \/ (i2c_call[t].pure /\ HoldsFor(d, chip'[a], t, Head(Tail(plan))))
      BY <2>2, <2>3, <3>1 DEF HoldsFor
    <3>3. ReadingInv(t)' /\ i2c_call'[t].result # "value"
      BY <1>5, <2>3, <3>2
    <3>4. StepOf(t)
      BY <2>2, <2>3, ProceedCall, SameServes DEF StepOf
    <3> QED BY <2>2, <2>3, <3>3, <3>4 DEF ChargerOn
  <2>4. CASE I2cFinish(t, "error")
    <3>1. /\ i2c_call'[t].phase = "idle" /\ i2c_call'[t].result = "error"
          /\ \A u \in I2cTasks \ {t} : i2c_call'[u] = i2c_call[u]
          /\ \A b \in I2cAddr : SwitchedOn(chip[b]) => SwitchedOn(chip'[b])
          /\ \A u \in I2cTasks \ {t}, b \in I2cAddr : Serves(chip[b], chip'[b], u)
      BY <2>4, FinishCall
    <3> QED BY <2>2, <3>1 DEF StepOf, ReadingInv, InCall, ChargerOn
  <2>5. CASE /\ i2c_call' = [i2c_call EXCEPT ![t].phase = "call", ![t].handle = NULL,
                                             ![t].polls = @ + 1, ![t].plan = <<"delay">> \o @]
             /\ UNCHANGED chip
    <3>1. /\ i2c_call'[t].phase = "call" /\ i2c_call'[t].addr = a
          /\ i2c_call'[t].plan = <<"delay">> \o plan /\ i2c_call'[t].pure = i2c_call[t].pure
          /\ i2c_call'[t].result = i2c_call[t].result
          /\ \A u \in I2cTasks \ {t} : i2c_call'[u] = i2c_call[u]
      <4>1. i2c_call[t] \in I2cCall
        BY <1>2
      <4> QED BY <1>2, <2>5, <4>1 DEF I2cCall
    <3>2. WellOrdered(d, <<"delay">> \o plan) /\ Head(<<"delay">> \o plan) = "delay"
      BY <1>1, <1>2, <1>7, <2>1, DelayOrdered DEF Op
    <3>3. t \in i2c_tainted \/ (i2c_call[t].pure /\ HoldsFor(d, chip[a], t, "delay"))
      BY <1>1, <1>7, <2>1 DEF Untouched, HoldsFor
    <3>4. ReadingInv(t)'
      BY <1>1, <2>2, <2>5, <3>1, <3>2, <3>3 DEF ReadingInv, Untouched, Op
    <3>5. StepOf(t)
      BY <2>2, <2>5, <3>1, SameServes DEF StepOf
    <3> QED BY <1>1, <2>2, <2>5, <3>1, <3>4, <3>5 DEF ChargerOn
  <2> QED BY <1>7, <2>3, <2>4, <2>5 DEF Poll
<1>8. CASE Op(t) = "fetch" /\ Fetch(t, a)
  <2> DEFINE read == [chip EXCEPT ![a].ready = FALSE]
  <2>1. UNCHANGED <<i2c_tainted, s_meas_sys_checked>>
    BY <1>8 DEF Fetch
  <2>2. /\ read \in [I2cAddr -> ChipState]
        /\ \A b \in I2cAddr : /\ read[b].on = chip[b].on /\ read[b].lost = chip[b].lost
                              /\ read[b].by = chip[b].by /\ read[b].from = chip[b].from
                              /\ (read[b].ready => chip[b].ready)
    BY <1>1, <1>2 DEF ChipState
  <2>3. t \in i2c_tainted \/ (i2c_call[t].pure /\ (d \in Triggered => chip[a].by = "none" /\ chip[a].from = t))
    BY <1>1, <1>8 DEF Untouched, HoldsFor
  <2>4. t \in i2c_tainted \/ OwnResult(a, t) \/ UnmeasuredCharger(a)
    BY <1>1, <2>3 DEF OwnResult, Triggered, Drivers, ChargerOn, SwitchedOn, UnmeasuredCharger
  <2>5. CASE Tail(plan) = <<>>
    <3>1. /\ i2c_call' = [i2c_call EXCEPT ![t] = Returned("value")]
          /\ chip' = [b \in I2cAddr |-> Past(read[b], t)]
      BY <1>8, <2>5 DEF Fetch
    <3>2. i2c_call'[t].phase = "idle" /\ \A u \in I2cTasks \ {t} : i2c_call'[u] = i2c_call[u]
      BY <1>2, <3>1, ReturnedType
    <3> HIDE DEF read
    <3>3. /\ \A u \in I2cTasks \ {t}, b \in I2cAddr : Serves(chip[b], chip'[b], u)
          /\ \A b \in I2cAddr : chip'[b].on = chip[b].on /\ chip'[b].lost = chip[b].lost
      BY <2>2, <3>1, PastServes, PastIsOn DEF Serves
    <3>4. StepOf(t) /\ ReadingInv(t)'
      BY <2>1, <3>2, <3>3 DEF StepOf, ReadingInv, InCall, SwitchedOn
    <3>5. ChargerOn'
      BY <2>1, <3>4 DEF ChargerOn, StepOf
    <3>6. \/ i2c_call[t].pure /\ OwnResult(a, t)
          \/ t \in i2c_tainted
          \/ UnmeasuredCharger(a)
      BY <2>3, <2>4
    <3> QED BY <3>4, <3>5, <3>6
  <2>6. CASE Tail(plan) # <<>>
    <3>1. /\ Proceed(t, Tail(plan), i2c_call[t].pure /\ OwnResult(a, t))
          /\ chip' = read
      BY <1>8, <2>6 DEF Fetch
    <3>2. d \in Triggered
      BY <1>3, <1>8, <2>6
    <3> HIDE DEF read
    <3>3. t \in i2c_tainted' \/ ((i2c_call[t].pure /\ OwnResult(a, t)) /\ HoldsFor(d, chip'[a], t, Head(Tail(plan))))
      BY <1>1, <2>1, <2>2, <2>3, <3>1, <3>2 DEF HoldsFor, OwnResult, Triggered
    <3>4. ReadingInv(t)' /\ i2c_call'[t].result # "value"
      BY <1>5, <3>1, <3>3
    <3>5. StepOf(t)
      BY <2>1, <2>2, <3>1, ProceedCall DEF StepOf, Serves, SwitchedOn
    <3> QED BY <2>1, <2>2, <3>1, <3>4, <3>5 DEF ChargerOn, SwitchedOn
  <2> QED BY <2>5, <2>6
<1>9. CASE Op(t) \in {"config", "enable"} /\ ensure_measurement_system_enabled(t, a)
  <2>1. d = "ltc4015" /\ d \notin Triggered
    BY <1>1, <1>3, <1>9 DEF StepsOf, Triggered, Drivers
  <2>2. /\ chip' = [chip EXCEPT ![a].on = @ \/ Op(t) = "enable"]
        /\ UNCHANGED i2c_tainted
    BY <1>9 DEF ensure_measurement_system_enabled
  <2>3. \A b \in I2cAddr : /\ chip'[b].by = chip[b].by /\ chip'[b].from = chip[b].from
                           /\ chip'[b].ready = chip[b].ready
                           /\ SwitchedOn(chip[b]) => SwitchedOn(chip'[b])
    BY <1>1, <1>2, <2>2 DEF ChipState, SwitchedOn
  <2>4. (Op(t) = "enable" \/ chip[a].on) => chip'[a].on
    BY <1>1, <1>2, <2>2 DEF ChipState
  <2>5. i2c_call[t].pure \/ t \in i2c_tainted
    BY <1>1 DEF Untouched
  <2>6. CASE /\ Op(t) = "enable" \/ chip[a].on
             /\ s_meas_sys_checked' = TRUE
             /\ Proceed(t, Tail(plan), i2c_call[t].pure)
    <3>1. ReadingInv(t)' /\ i2c_call'[t].result # "value"
      BY <1>5, <2>1, <2>2, <2>5, <2>6
    <3>2. StepOf(t)
      BY <2>2, <2>3, <2>6, ProceedCall DEF StepOf, Serves
    <3>3. ChargerOn'
      BY <1>1, <2>1, <2>4, <2>6 DEF ChargerOn, OneCharger, SwitchedOn
    <3> QED BY <3>1, <3>2, <3>3
  <2>7. CASE /\ UNCHANGED s_meas_sys_checked
             /\ Proceed(t, <<"enable", "fetch">>, i2c_call[t].pure)
    <3>1. WellOrdered("ltc4015", <<"enable", "fetch">>)
      BY DEF WellOrdered, StepsOf, Triggered
    <3>2. /\ i2c_call'[t].phase = "call" /\ i2c_call'[t].addr = a
          /\ i2c_call'[t].plan = <<"enable", "fetch">> /\ i2c_call'[t].pure = i2c_call[t].pure
          /\ i2c_call'[t].result = i2c_call[t].result
          /\ \A u \in I2cTasks \ {t} : i2c_call'[u] = i2c_call[u]
      BY <2>7, ProceedCall
    <3>3. ReadingInv(t)'
      BY <1>1, <2>1, <2>2, <2>5, <3>1, <3>2 DEF ReadingInv, Untouched
    <3>4. StepOf(t)
      BY <2>2, <2>3, <3>2 DEF StepOf, Serves
    <3>5. ChargerOn'
      BY <2>3, <2>7 DEF ChargerOn
    <3> QED BY <1>1, <3>2, <3>3, <3>4, <3>5
  <2> QED BY <1>9, <2>6, <2>7 DEF ensure_measurement_system_enabled
<1> QED BY <1>6, <1>7, <1>8, <1>9 DEF Answered

\* Every transfer.
LEMMA TransferReading ==
  ASSUME OneCharger, I2cIInv, ChargerOn, NEW t \in I2cTasks, ReadingInv(t), Transfer(t)
  PROVE  /\ StepOf(t) /\ ReadingInv(t)' /\ ChargerOn'
         /\ i2c_call'[t].result = "value" =>
               \/ i2c_call[t].pure /\ OwnResult(i2c_call[t].addr, t)
               \/ t \in i2c_tainted
               \/ UnmeasuredCharger(i2c_call[t].addr)
<1>1. i2c_call[t].phase = "wire" /\ InCall(t)
  BY DEF Transfer, InCall
<1>2. CASE Answered(t, i2c_call[t].addr)
  BY <1>1, <1>2, AnsweredReading
<1>3. CASE TransactionFailed(t) /\ UNCHANGED <<s_meas_sys_checked, i2c_tainted>>
  <2>1. StepOf(t) /\ ReadingInv(t)' /\ i2c_call'[t].result # "value"
    BY <1>1, <1>3, FailureReading
  <2> QED BY <1>3, <2>1 DEF StepOf, ChargerOn
<1> QED BY <1>2, <1>3 DEF Transfer

\* The steps of a call that are no transfer.
LEMMA CallReading ==
  ASSUME I2cIInv, NEW t \in I2cTasks, ReadingInv(t),
         CheckBus(t) \/ LockBus(t) \/ DelayOver(t) \/ LockForScan(t) \/ Probe(t)
  PROVE  StepOf(t) /\ ReadingInv(t)' /\ UNCHANGED s_meas_sys_checked
<1>1. /\ i2c_call \in [I2cTasks -> I2cCall] /\ i2c_call[t] \in I2cCall
      /\ UNCHANGED <<s_meas_sys_checked, i2c_tainted>>
  BY I2cTypes DEF I2cIInv, CheckBus, LockBus, DelayOver, LockForScan, Probe, bus_vars
<1>2. ASSUME UNCHANGED chip, NEW c, i2c_call' = [i2c_call EXCEPT ![t] = c],
             c.phase \in {"call", "lock", "wire"}, InCall(t),
             c.addr = i2c_call[t].addr, c.plan = i2c_call[t].plan,
             c.pure = i2c_call[t].pure, c.result = i2c_call[t].result
      PROVE  StepOf(t) /\ ReadingInv(t)'
  <2>1. i2c_call'[t] = c /\ \A u \in I2cTasks \ {t} : i2c_call'[u] = i2c_call[u]
    BY <1>1, <1>2
  <2>2. StepOf(t)
    BY <1>1, <1>2, <2>1, SameServes DEF StepOf
  <2>3. ReadingInv(t)'
    BY <1>1, <1>2, <2>1 DEF ReadingInv, InCall, Untouched, Op
  <2> QED BY <2>2, <2>3
<1>3. CASE TransactionFailed(t) /\ InCall(t)
  BY <1>1, <1>3, FailureReading
<1>4. CASE CheckBus(t)
  <2>1. InCall(t)
    BY <1>4 DEF CheckBus, InCall
  <2>2. CASE i2c_call' = [i2c_call EXCEPT ![t].phase = "lock"] /\ UNCHANGED chip
    <3> DEFINE c == [i2c_call[t] EXCEPT !.phase = "lock"]
    <3>1. /\ c.phase = "lock" /\ c.addr = i2c_call[t].addr /\ c.plan = i2c_call[t].plan
          /\ c.pure = i2c_call[t].pure /\ c.result = i2c_call[t].result
      BY <1>1 DEF I2cCall
    <3>2. i2c_call' = [i2c_call EXCEPT ![t] = c]
      BY <1>1, <2>2
    <3> HIDE DEF c
    <3> QED BY <1>1, <1>2, <2>1, <2>2, <3>1, <3>2
  <2> QED BY <1>1, <1>3, <1>4, <2>1, <2>2 DEF CheckBus
<1>5. CASE LockBus(t)
  <2>1. InCall(t)
    BY <1>5 DEF LockBus, InCall
  <2>2. ASSUME NEW handle,
               i2c_call' = [i2c_call EXCEPT ![t].phase = "wire", ![t].handle = handle],
               UNCHANGED chip
        PROVE  StepOf(t) /\ ReadingInv(t)'
    <3> DEFINE c == [i2c_call[t] EXCEPT !.phase = "wire", !.handle = handle]
    <3>1. /\ c.phase = "wire" /\ c.addr = i2c_call[t].addr /\ c.plan = i2c_call[t].plan
          /\ c.pure = i2c_call[t].pure /\ c.result = i2c_call[t].result
      BY <1>1 DEF I2cCall
    <3>2. i2c_call' = [i2c_call EXCEPT ![t] = c]
      BY <1>1, <2>2
    <3> HIDE DEF c
    <3> QED BY <1>2, <2>1, <2>2, <3>1, <3>2
  <2> QED BY <1>1, <1>3, <1>5, <2>1, <2>2 DEF LockBus, get_or_add_device
<1>6. CASE DelayOver(t)
  <2> DEFINE a == i2c_call[t].addr
             d == Driver[a]
             plan == i2c_call[t].plan
             c == [i2c_call[t] EXCEPT !.plan = Tail(plan)]
  <2>1. /\ i2c_call[t].phase = "call" /\ InCall(t) /\ Op(t) = "delay"
        /\ d = "lps22hb" \/ chip[a].by # t
        /\ UNCHANGED chip
    BY <1>6 DEF DelayOver, InCall
  <2>2. /\ a \in I2cAddr /\ d \in Drivers /\ i2c_call[t].result = "none"
        /\ WellOrdered(d, plan) /\ (t \in i2c_tainted \/ Untouched(t))
    BY <2>1, I2cAssumption DEF ReadingInv, I2cAddr
  <2>3. plan \in Seq(Operations) /\ EndsInFetch(plan)
    BY <2>1, I2cTypes DEF I2cIInv, PlansComplete
  <2>4. Tail(plan) # <<>>
    BY <2>1, NextStep DEF EndsInFetch
  <2>5. WellOrdered(d, Tail(plan)) /\ (d = "lps22hb" => Head(Tail(plan)) = "poll")
    BY <2>1, <2>2, <2>3, <2>4, TailOrdered DEF Op
  <2>6. t \in i2c_tainted \/ (i2c_call[t].pure /\ (d \in Triggered => HoldsFor(d, chip[a], t, Head(Tail(plan)))))
    BY <2>1, <2>2, <2>5 DEF Untouched, HoldsFor
  <2>7. c.phase = "call" /\ c.addr = a /\ c.plan = Tail(plan) /\ c.pure = i2c_call[t].pure /\ c.result = "none"
    BY <1>1, <2>1, <2>2 DEF I2cCall
  <2>8. i2c_call' = [i2c_call EXCEPT ![t] = c]
    BY <1>1, <1>6 DEF DelayOver
  <2> HIDE DEF c
  <2>9. i2c_call'[t] = c /\ \A u \in I2cTasks \ {t} : i2c_call'[u] = i2c_call[u]
    BY <1>1, <2>8
  <2>10. StepOf(t)
    BY <1>1, <2>1, <2>9, SameServes DEF StepOf
  <2>11. ReadingInv(t)'
    BY <1>1, <2>1, <2>2, <2>5, <2>6, <2>7, <2>9 DEF ReadingInv, Untouched, Op
  <2> QED BY <1>1, <2>10, <2>11
<1>7. CASE LockForScan(t) \/ Probe(t)
  <2>1. UNCHANGED chip
    BY <1>7 DEF LockForScan, Probe
  <2>2. \A u \in I2cTasks \ {t} : i2c_call'[u] = i2c_call[u]
    BY <1>1, <1>7 DEF LockForScan, Probe
  <2>3. ~InCall(t)'
    <3>1. CASE LockForScan(t)
      BY <1>1, <3>1 DEF LockForScan, InCall, I2cCall
    <3>2. CASE Probe(t)
      <4>1. i2c_call[t].phase = "probe"
        BY <3>2 DEF Probe
      <4>2. \/ i2c_call' = [i2c_call EXCEPT ![t] = Returned("none")]
            \/ i2c_call' = [i2c_call EXCEPT ![t] = [@ EXCEPT !.addr = i2c_call[t].addr + 1]]
        BY <3>2 DEF Probe
      <4>3. i2c_call'[t].phase \in {"idle", "probe"}
        BY <1>1, <4>1, <4>2, ReturnedType DEF I2cCall
      <4> QED BY <4>3 DEF InCall
    <3> QED BY <1>7, <3>1, <3>2
  <2> QED BY <1>1, <2>1, <2>2, <2>3, SameServes DEF StepOf, ReadingInv
<1> QED BY <1>4, <1>5, <1>6, <1>7, <1>1

\* A call begins.
LEMMA BeginReading ==
  ASSUME I2cIInv, NEW t \in I2cTasks, (\E a \in I2cAddr : I2cRead(t, a)) \/ I2cScan(t)
  PROVE  StepOf(t) /\ ReadingInv(t)' /\ UNCHANGED s_meas_sys_checked
<1>1. /\ i2c_call \in [I2cTasks -> I2cCall]
      /\ UNCHANGED <<s_meas_sys_checked, chip>>
      /\ i2c_tainted' = i2c_tainted \ {t} \/ UNCHANGED i2c_tainted
  BY I2cTypes DEF I2cIInv, I2cRead, I2cScan
<1>2. ASSUME NEW c, i2c_call' = [i2c_call EXCEPT ![t] = c]
      PROVE  StepOf(t) /\ i2c_call'[t] = c
  BY <1>1, <1>2, SameServes DEF StepOf
<1>3. ASSUME NEW a \in I2cAddr, I2cRead(t, a)
      PROVE  StepOf(t) /\ ReadingInv(t)'
  <2> DEFINE plan == i2c_sensor_read(a)
             c == [Returned("none") EXCEPT !.phase = "call", !.addr = a, !.plan = plan]
  <2>1. WellOrdered(Driver[a], plan) /\ (Driver[a] \in Triggered => Head(plan) = "trigger")
    BY PlansOrdered
  <2>2. i2c_call' = [i2c_call EXCEPT ![t] = c]
    BY <1>3 DEF I2cRead
  <2> HIDE DEF plan
  <2>3. c.phase = "call" /\ c.addr = a /\ c.plan = plan /\ c.pure /\ c.result = "none"
    BY DEF Returned
  <2> HIDE DEF c
  <2>4. StepOf(t) /\ i2c_call'[t] = c
    BY <1>2, <2>2
  <2>5. ReadingInv(t)'
    BY <2>1, <2>3, <2>4 DEF ReadingInv, Untouched, HoldsFor, Op
  <2> QED BY <2>4, <2>5
<1>4. CASE I2cScan(t)
  <2> DEFINE c == [Returned("none") EXCEPT !.phase = "scan lock"]
  <2>1. i2c_call' = [i2c_call EXCEPT ![t] = c] /\ c.phase = "scan lock"
    BY <1>4 DEF I2cScan, Returned
  <2> HIDE DEF c
  <2>2. StepOf(t) /\ i2c_call'[t].phase = "scan lock"
    BY <1>2, <2>1
  <2> QED BY <1>1, <2>2 DEF ReadingInv, InCall
<1> QED BY <1>1, <1>3, <1>4

LEMMA ConvertsReading ==
  ASSUME I2cIInv, ReadingsInv, NEW a \in I2cAddr, ChipConverts(a)
  PROVE  ReadingsInv'
<1>1. /\ chip \in [I2cAddr -> ChipState] /\ chip[a] \in ChipState /\ chip[a].by # "none"
      /\ UNCHANGED <<i2c_call, i2c_tainted, s_meas_sys_checked>>
  BY I2cTypes DEF I2cIInv, ChipConverts
<1>2. chip' = [chip EXCEPT ![a] = [chip[a] EXCEPT !.by = "none", !.from = chip[a].by, !.ready = TRUE]]
  BY <1>1 DEF ChipConverts
<1>3. /\ chip'[a].by = "none" /\ chip'[a].from = chip[a].by /\ chip'[a].on = chip[a].on
      /\ chip'[a].lost = chip[a].lost
      /\ \A b \in I2cAddr \ {a} : chip'[b] = chip[b]
  BY <1>1, <1>2 DEF ChipState
<1>4. ChargerOn'
  BY <1>1, <1>3 DEF ReadingsInv, ChargerOn, SwitchedOn
<1>5. ASSUME NEW u \in I2cTasks PROVE ReadingInv(u)'
  <2>1. ReadingInv(u) /\ UNCHANGED <<i2c_call, i2c_tainted>>
    BY <1>1 DEF ReadingsInv
  <2>2. ASSUME i2c_call[u].addr \in I2cAddr, Untouched(u)
        PROVE  Untouched(u)'
    <3>1. ASSUME NEW d, NEW op, NEW b \in I2cAddr, HoldsFor(d, chip[b], u, op)
          PROVE  HoldsFor(d, chip'[b], u, op)
      <4>1. CASE b = a
        BY <1>1, <1>3, <3>1, <4>1 DEF HoldsFor
      <4>2. CASE b # a
        BY <1>3, <3>1, <4>2
      <4> QED BY <4>1, <4>2
    <3>2. Op(u)' = Op(u)
      BY <2>1 DEF Op
    <3> QED BY <2>1, <2>2, <3>1, <3>2 DEF Untouched
  <2> QED BY <2>1, <2>2 DEF ReadingInv, InCall
<1> QED BY <1>4, <1>5 DEF ReadingsInv

\* Nothing but the measurement system goes with the power of the charger.
LEMMA PowerLossReading ==
  ASSUME I2cIInv, ReadingsInv, NEW a \in I2cAddr, ChargerLosesPower(a)
  PROVE  ReadingsInv'
<1>1. /\ chip \in [I2cAddr -> ChipState]
      /\ UNCHANGED <<i2c_call, i2c_tainted, s_meas_sys_checked>>
      /\ chip' = [chip EXCEPT ![a].on = FALSE, ![a].lost = TRUE]
  BY I2cTypes DEF I2cIInv, ChargerLosesPower
<1>2. \A b \in I2cAddr : /\ chip'[b].by = chip[b].by /\ chip'[b].from = chip[b].from
                         /\ chip'[b].ready = chip[b].ready
                         /\ SwitchedOn(chip[b]) => SwitchedOn(chip'[b])
  BY <1>1 DEF ChipState, SwitchedOn
<1>3. ChargerOn'
  BY <1>1, <1>2 DEF ReadingsInv, ChargerOn
<1>4. ASSUME NEW u \in I2cTasks PROVE ReadingInv(u)'
  BY <1>1, <1>2 DEF ReadingsInv, ReadingInv, InCall, Untouched, HoldsFor, Op
<1> QED BY <1>3, <1>4 DEF ReadingsInv

\* The property, of one step.
OwnResultStep ==
    \A t \in I2cTasks :
       i2c_call[t].phase = "wire" /\ i2c_call'[t].result = "value"
       => \/ i2c_call[t].pure /\ OwnResult(i2c_call[t].addr, t)
          \/ t \in i2c_tainted
          \/ UnmeasuredCharger(i2c_call[t].addr)

LEMMA ReadingsStep ==
  ASSUME OneCharger, IInv, ReadingsInv, [Next]_vars
  PROVE  ReadingsInv' /\ OwnResultStep
<1>1. I2cIInv /\ ChargerOn /\ \A u \in I2cTasks : ReadingInv(u)
  BY DEF IInv, ReadingsInv
<1>2. ASSUME UNCHANGED i2c_vars PROVE ReadingsInv' /\ OwnResultStep
  <2>1. UNCHANGED <<i2c_call, i2c_tainted, s_meas_sys_checked, chip>>
    BY <1>2 DEF i2c_vars
  <2>2. ReadingsInv'
    BY <2>1 DEF ReadingsInv, ChargerOn, ReadingInv, InCall, Untouched, Op
  <2>3. OwnResultStep
    BY <1>1, <2>1 DEF OwnResultStep, ReadingInv, InCall
  <2> QED BY <2>2, <2>3
<1>3. ASSUME NEW t \in I2cTasks, StepOf(t), ReadingInv(t)', ChargerOn',
             i2c_call[t].phase = "wire" /\ i2c_call'[t].result = "value" =>
               \/ i2c_call[t].pure /\ OwnResult(i2c_call[t].addr, t)
               \/ t \in i2c_tainted
               \/ UnmeasuredCharger(i2c_call[t].addr)
      PROVE  ReadingsInv' /\ OwnResultStep
  <2>1. ReadingsInv'
    BY <1>1, <1>3, OthersGoOn DEF ReadingsInv
  <2>2. ASSUME NEW u \in I2cTasks, u # t, i2c_call[u].phase = "wire" PROVE i2c_call'[u].result = "none"
    BY <1>1, <1>3, <2>2 DEF StepOf, ReadingInv, InCall
  <2>3. OwnResultStep
    BY <1>3, <2>2 DEF OwnResultStep
  <2> QED BY <2>1, <2>3
<1>4. ASSUME NEW t \in I2cTasks, I2cStep(t) PROVE ReadingsInv' /\ OwnResultStep
  <2>1. CASE Transfer(t)
    BY <1>1, <1>3, <2>1, TransferReading
  <2>2. CASE CheckBus(t) \/ LockBus(t) \/ DelayOver(t) \/ LockForScan(t) \/ Probe(t)
    <3>1. StepOf(t) /\ ReadingInv(t)' /\ UNCHANGED s_meas_sys_checked
      BY <1>1, <2>2, CallReading
    <3>2. i2c_call[t].phase # "wire"
      BY <2>2 DEF CheckBus, LockBus, DelayOver, LockForScan, Probe
    <3>3. ChargerOn'
      BY <1>1, <3>1 DEF ChargerOn, StepOf
    <3> QED BY <1>3, <3>1, <3>2, <3>3
  <2> QED BY <1>4, <2>1, <2>2 DEF I2cStep
<1>5. ASSUME NEW t \in I2cTasks, (\E a \in I2cAddr : I2cRead(t, a)) \/ I2cScan(t)
      PROVE  ReadingsInv' /\ OwnResultStep
  <2>1. StepOf(t) /\ ReadingInv(t)' /\ UNCHANGED s_meas_sys_checked
    BY <1>1, <1>5, BeginReading
  <2>2. i2c_call[t].phase # "wire"
    BY <1>5 DEF I2cRead, I2cScan
  <2>3. ChargerOn'
    BY <1>1, <2>1 DEF ChargerOn, StepOf
  <2> QED BY <1>3, <2>1, <2>2, <2>3
<1>6. ASSUME NEW a \in I2cAddr, ChipConverts(a) PROVE ReadingsInv' /\ OwnResultStep
  <2>1. ReadingsInv'
    BY <1>1, <1>6, ConvertsReading
  <2>2. OwnResultStep
    BY <1>1, <1>6 DEF ChipConverts, OwnResultStep, ReadingInv, InCall
  <2> QED BY <2>1, <2>2
<1>9. ASSUME NEW a \in I2cAddr, ChargerLosesPower(a) PROVE ReadingsInv' /\ OwnResultStep
  <2>1. ReadingsInv'
    BY <1>1, <1>9, PowerLossReading
  <2>2. OwnResultStep
    BY <1>1, <1>9 DEF ChargerLosesPower, OwnResultStep, ReadingInv, InCall
  <2> QED BY <2>1, <2>2
<1>7. /\ "i2c_sched" \in I2cTasks /\ "httpd" \in I2cTasks /\ "battery_mon" \in I2cTasks
      /\ \A a \in I2cVariables : a \in I2cAddr
  BY StationAssumption DEF IInv, I2cVariables
<1>8. \/ UNCHANGED i2c_vars
      \/ \E t \in I2cTasks : I2cStep(t) \/ (\E a \in I2cAddr : I2cRead(t, a)) \/ I2cScan(t)
      \/ \E a \in I2cAddr : ChipConverts(a) \/ ChargerLosesPower(a)
  BY <1>7 DEF Next, vars, ScheduledRead, BatteryRead, preview, scan, SdiTaskStep, I2cTaskStep, SensorStep,
              ChipStep, PowerLoss
<1> QED BY <1>2, <1>4, <1>5, <1>6, <1>8, <1>9

(* A driver returns the result of its own trigger, or its reading met another   *)
(* one on the chip, for any number of tasks, chips and samples: with one charger *)
(* on the bus, a reading it gives with its measurement system off is one whose   *)
(* driver does not take it to be on, or has lost its power since boot.           *)
THEOREM ReadingsAreOwn ==
  ASSUME OneCharger
  PROVE  Spec => OwnResultOnly
<1>1. Init => ReadingsInv
  BY ReturnedType DEF Init, I2cInit, ReadingsInv, ChargerOn, ReadingInv, InCall
<1>2. IInv /\ ReadingsInv /\ [Next]_vars => ReadingsInv'
  BY ReadingsStep
<1>3. IInv /\ ReadingsInv /\ [Next]_vars => [OwnResultStep]_vars
  BY ReadingsStep
<1> QED BY <1>1, <1>2, <1>3, InitInv, NextKeeps, PTL DEF Spec, OwnResultOnly, OwnResultStep
=============================================================================
