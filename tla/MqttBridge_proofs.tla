------------------------- MODULE MqttBridge_proofs -------------------------
(* Proofs about MqttBridge, for both transports, any settings, any length of  *)
(* the queue and the buffer, and any number of faults: the type of its        *)
(* variables, the ledger of the results, the order of the reports, and, over  *)
(* WiFi, that no client outlives the settings it was made for.                *)
EXTENDS MqttBridge, TLAPS

LEMMA Bounds ==
  /\ Transport \in {"wifi", "cellular"}
  /\ QueueLen \in Nat /\ MaxBatchItems \in Nat \ {0}
  /\ Backoff \in Nat /\ ConnectTicks \in Nat /\ ConnectTimeout \in Nat /\ ConnectTimeout <= Backoff
BY BridgeAssumption

LEMMA SettingFields ==
  \A s \in Settings \cup {Unset} :
     /\ s.enabled \in BOOLEAN /\ s.batch_enabled \in BOOLEAN /\ s.flat_telemetry \in BOOLEAN
     /\ s.batch_interval \in Nat
<1>1. \A s \in Settings :
        /\ s.enabled \in BOOLEAN /\ s.batch_enabled \in BOOLEAN /\ s.flat_telemetry \in BOOLEAN
        /\ s.batch_interval \in Nat
  BY BridgeAssumption
<1>2. /\ Unset.enabled \in BOOLEAN /\ Unset.batch_enabled \in BOOLEAN
      /\ Unset.flat_telemetry \in BOOLEAN /\ Unset.batch_interval \in Nat
  BY DEF Unset
<1> QED BY <1>1, <1>2

-----------------------------------------------------------------------------
(* Types.  TypeOK is taken apart along the groups of variables that the       *)
(* actions leave alone, so that a step has to account for what it changes.    *)

Links == [state : {"idle", "connecting", "up"}, cfg : Settings \cup {Unset}, age : Nat]
EventTypes == {"connected", "refused", "disconnected"}
Places == {"receive", "poll", "apply", "link", "linked", "publish", "transmit",
           "position", "battery", "close"}

ConfigType == generation \in Nat /\ mqtt_cfg \in Settings
QueueType  == queue \in Seq(Nat) /\ Len(queue) <= QueueLen
PcType     == pc \in Places
TaskType   == /\ hand \in Nat
              /\ polled \in Nat \cup {NoEpoch} /\ last_generation \in Nat \cup {NoEpoch}
              /\ s_current_settings \in Settings \cup {Unset}
BackType   == s_backend_connected \in BOOLEAN
BufferType == s_batch_buffer \in Seq(Nat) /\ Len(s_batch_buffer) <= MaxBatchItems
TimeType   == retry_in \in Nat /\ batch_in \in Nat
ReportType == s_pending \in [Kinds -> Nat] /\ reports \in [Kinds -> Nat] /\ sent \in [Kinds -> Seq(Nat)]
LinkType   == link \in Links
FlagType   == s_connected \in BOOLEAN /\ s_mqtt_connect_done \in BOOLEAN
EventType  == events \in Seq(EventTypes)
ClockType  == timed_out \in BOOLEAN /\ waited \in 0..ConnectTimeout
GnssType   == gnss_busy \in BOOLEAN
FaultType  == faults \in Nat
LedgerType == serial \in Nat /\ published \subseteq Nat /\ lost \subseteq Nat

LEMMA TypeParts ==
  TypeOK <=> /\ ConfigType /\ QueueType /\ PcType /\ TaskType /\ BackType /\ BufferType /\ TimeType
             /\ ReportType /\ LinkType /\ FlagType /\ EventType /\ ClockType /\ GnssType /\ FaultType
             /\ LedgerType
BY Zenon DEF TypeOK, ConfigType, QueueType, PcType, TaskType, BackType, BufferType, TimeType, ReportType,
       LinkType, FlagType, EventType, ClockType, GnssType, FaultType, LedgerType, Links, EventTypes,
       Places

LEMMA TypePartsAfter ==
  TypeOK' <=> /\ ConfigType' /\ QueueType' /\ PcType' /\ TaskType' /\ BackType' /\ BufferType'
              /\ TimeType' /\ ReportType' /\ LinkType' /\ FlagType' /\ EventType' /\ ClockType'
              /\ GnssType' /\ FaultType' /\ LedgerType'
BY Zenon DEF TypeOK, ConfigType, QueueType, PcType, TaskType, BackType, BufferType, TimeType, ReportType,
       LinkType, FlagType, EventType, ClockType, GnssType, FaultType, LedgerType, Links, EventTypes,
       Places

LEMMA TypeStays ==
  ASSUME TypeOK
  PROVE  /\ UNCHANGED configVars => ConfigType'
         /\ UNCHANGED queue => QueueType'
         /\ UNCHANGED pc => PcType'
         /\ UNCHANGED taskVars => TaskType'
         /\ UNCHANGED s_backend_connected => BackType'
         /\ UNCHANGED s_batch_buffer => BufferType'
         /\ UNCHANGED timeVars => TimeType'
         /\ UNCHANGED reportVars => ReportType'
         /\ UNCHANGED link => LinkType'
         /\ UNCHANGED <<s_connected, s_mqtt_connect_done>> => FlagType'
         /\ UNCHANGED events => EventType'
         /\ UNCHANGED clockVars => ClockType'
         /\ UNCHANGED gnss_busy => GnssType'
         /\ UNCHANGED faults => FaultType'
         /\ UNCHANGED ledgerVars => LedgerType'
<1>1. UNCHANGED configVars => ConfigType'
  BY TypeParts DEF configVars, ConfigType
<1>2. UNCHANGED queue => QueueType'
  BY TypeParts DEF QueueType
<1>3. UNCHANGED pc => PcType'
  BY TypeParts DEF PcType
<1>4. UNCHANGED taskVars => TaskType'
  BY TypeParts DEF taskVars, TaskType
<1>5. UNCHANGED s_backend_connected => BackType'
  BY TypeParts DEF BackType
<1>6. UNCHANGED s_batch_buffer => BufferType'
  BY TypeParts DEF BufferType
<1>7. UNCHANGED timeVars => TimeType'
  BY TypeParts DEF timeVars, TimeType
<1>8. UNCHANGED reportVars => ReportType'
  BY TypeParts DEF reportVars, ReportType
<1>9. UNCHANGED link => LinkType'
  BY TypeParts DEF LinkType
<1>10. UNCHANGED <<s_connected, s_mqtt_connect_done>> => FlagType'
  BY TypeParts DEF FlagType
<1>11. UNCHANGED events => EventType'
  BY TypeParts DEF EventType
<1>12. UNCHANGED clockVars => ClockType'
  BY TypeParts DEF clockVars, ClockType
<1>13. UNCHANGED gnss_busy => GnssType'
  BY TypeParts DEF GnssType
<1>14. UNCHANGED faults => FaultType'
  BY TypeParts DEF FaultType
<1>15. UNCHANGED ledgerVars => LedgerType'
  BY TypeParts DEF ledgerVars, LedgerType
<1> QED BY <1>1, <1>2, <1>3, <1>4, <1>5, <1>6, <1>7, <1>8, <1>9, <1>10, <1>11, <1>12, <1>13, <1>14,
          <1>15

LEMMA InitType == Init => TypeOK
<1> SUFFICES ASSUME Init PROVE TypeOK
  OBVIOUS
<1>1. ConfigType /\ PcType /\ BackType /\ TimeType /\ FlagType /\ GnssType /\ FaultType
  BY DEF Init, ConfigType, PcType, Places, BackType, TimeType, FlagType, GnssType, FaultType
<1>2. QueueType /\ BufferType /\ EventType
  BY Bounds DEF Init, QueueType, BufferType, EventType
<1>3. TaskType
  BY DEF Init, TaskType, NoSample
<1>4. ReportType
  BY DEF Init, ReportType
<1>5. LinkType
  BY DEF Init, LinkType, Links, Idle
<1>6. ClockType
  <2>1. timed_out \in BOOLEAN
    BY DEF Init
  <2>2. waited \in 0..ConnectTimeout
    BY Bounds DEF Init
  <2> QED BY <2>1, <2>2 DEF ClockType
<1>7. LedgerType
  BY DEF Init, LedgerType
<1> QED BY <1>1, <1>2, <1>3, <1>4, <1>5, <1>6, <1>7, TypeParts

LEMMA LinkFields ==
  /\ Idle \in Links
  /\ \A l \in Links : /\ [l EXCEPT !.state = "up"] \in Links
                      /\ [l EXCEPT !.state = "connecting", !.age = 0] \in Links
                      /\ \A n \in Nat : [l EXCEPT !.age = n] \in Links
                      /\ l.age \in Nat
  /\ \A s \in Settings \cup {Unset} : [state |-> "connecting", cfg |-> s, age |-> 0] \in Links
BY DEF Links, Idle

LEMMA EventAppended ==
  ASSUME EventType, NEW e \in EventTypes
  PROVE  Append(events, e) \in Seq(EventTypes)
BY DEF EventType

(* The environment keeps the types. *)
LEMMA ProduceType ==
  ASSUME TypeOK, ProduceSample PROVE TypeOK'
<1> USE TypeParts
<1>1. serial' = serial + 1 /\ serial' \in Nat
  BY DEF ProduceSample, LedgerType
<1>2. QueueType'
  <2>1. CASE Len(queue) < QueueLen
    <3>1. queue' = Append(queue, serial')
      BY <2>1 DEF ProduceSample
    <3>2. Append(queue, serial') \in Seq(Nat) /\ Len(Append(queue, serial')) = Len(queue) + 1
      BY <1>1 DEF QueueType
    <3> QED BY <2>1, <3>1, <3>2, Bounds DEF QueueType
  <2>2. CASE ~(Len(queue) < QueueLen)
    BY <2>2, TypeStays DEF ProduceSample
  <2> QED BY <2>1, <2>2
<1>3. LedgerType'
  BY <1>1 DEF ProduceSample, LedgerType
<1> QED BY <1>2, <1>3, TypeStays, TypePartsAfter
        DEF ProduceSample, timeVars, reportVars, linkVars, envVars

LEMMA QueueReportType ==
  ASSUME TypeOK, NEW kind \in Kinds, QueueReport(kind) PROVE TypeOK'
<1> USE TypeParts
<1>1. reports' \in [Kinds -> Nat] /\ reports'[kind] \in Nat
  BY DEF QueueReport, ReportType
<1>2. ReportType'
  BY <1>1 DEF QueueReport, ReportType
<1> QED BY <1>2, TypeStays, TypePartsAfter DEF QueueReport, loopVars, linkVars, envVars

LEMMA TickType ==
  ASSUME TypeOK, Tick PROVE TypeOK'
<1> USE TypeParts
<1>1. LinkType'
  <2>1. link' = [link EXCEPT !.age = IF link.state = "connecting" THEN @ + 1 ELSE @]
    BY DEF Tick
  <2>2. link.age \in Nat
    BY LinkFields DEF LinkType
  <2>3. PICK n \in Nat : link' = [link EXCEPT !.age = n]
    BY <2>1, <2>2
  <2> QED BY <2>3, LinkFields DEF LinkType
<1>2. FaultType'
  BY DEF Tick, Fault, FaultType
<1>3. ClockType'
  <2>1. timed_out' \in BOOLEAN
    BY DEF Tick, ClockType
  <2>2. waited' \in 0..ConnectTimeout
    BY Bounds DEF Tick, ClockType
  <2> QED BY <2>1, <2>2 DEF ClockType
<1>4. TimeType'
  BY DEF Tick, TimeType
<1> QED BY <1>1, <1>2, <1>3, <1>4, TypeStays, TypePartsAfter DEF Tick, loopVars, reportVars

LEMMA BrokerType ==
  ASSUME TypeOK, Broker PROVE TypeOK'
<1> USE TypeParts
<1>1. CASE Connected
  <2>1. LinkType'
    BY <1>1, LinkFields DEF Connected, LinkType
  <2>2. EventType' /\ FlagType'
    BY <1>1, EventAppended DEF Connected, EventType, EventTypes, FlagType
  <2> QED BY <1>1, <2>1, <2>2, TypeStays, TypePartsAfter
          DEF Connected, loopVars, timeVars, reportVars, envVars
<1>2. CASE Disconnected
  <2>1. LinkType'
    BY <1>2, LinkFields DEF Disconnected, LinkType
  <2>2. EventType' /\ FlagType'
    BY <1>2, EventAppended DEF Disconnected, EventType, EventTypes, FlagType
  <2>3. FaultType'
    BY <1>2 DEF Disconnected, Fault, FaultType
  <2> QED BY <1>2, <2>1, <2>2, <2>3, TypeStays, TypePartsAfter
          DEF Disconnected, loopVars, timeVars, reportVars
<1>3. CASE Deliver
  <2>1. EventType' /\ FlagType'
    BY <1>3 DEF Deliver, EventType, FlagType
  <2> QED BY <1>3, <2>1, TypeStays, TypePartsAfter
          DEF Deliver, loopVars, timeVars, reportVars, envVars
<1> QED BY <1>1, <1>2, <1>3 DEF Broker

LEMMA OtherType ==
  ASSUME TypeOK, SetMqttSettings \/ GnssBegins \/ GnssEnds PROVE TypeOK'
<1> USE TypeParts
<1>1. CASE SetMqttSettings
  <2>1. ConfigType'
    BY <1>1 DEF SetMqttSettings, ConfigType
  <2> QED BY <1>1, <2>1, TypeStays, TypePartsAfter
          DEF SetMqttSettings, loopVars, linkVars, envVars
<1>2. CASE GnssBegins \/ GnssEnds
  <2>1. GnssType'
    BY <1>2 DEF GnssBegins, GnssEnds, GnssType
  <2>2. FaultType'
    BY <1>2 DEF GnssBegins, GnssEnds, Fault, FaultType
  <2> QED BY <1>2, <2>1, <2>2, TypeStays, TypePartsAfter DEF GnssBegins, GnssEnds, loopVars, linkVars
<1> QED BY <1>1, <1>2

(* The backends.  An event is appended, the link and the flags change. *)
LEMMA DeinitType ==
  ASSUME TypeOK, Deinit \/ Disconnect
  PROVE  LinkType' /\ FlagType' /\ EventType'
<1> USE TypeParts
<1>1. EndSession => LinkType' /\ EventType'
  BY LinkFields, EventAppended DEF EndSession, LinkType, EventType, EventTypes
<1>2. FlagType'
  BY DEF Deinit, Disconnect, FlagType
<1>3. link' = Idle /\ UNCHANGED events => LinkType' /\ EventType'
  BY LinkFields DEF LinkType, EventType
<1>4. UNCHANGED <<link, events>> => LinkType' /\ EventType'
  BY TypeStays
<1> QED BY <1>1, <1>2, <1>3, <1>4 DEF Deinit, Disconnect

LEMMA AttemptType ==
  ASSUME TypeOK, Attempt
  PROVE  /\ LinkType' /\ FlagType' /\ EventType' /\ FaultType'
         /\ PcType' /\ BackType' /\ retry_in' \in Nat
<1> USE TypeParts
<1>1. CASE StartAttempt /\ s_backend_connected' = FALSE /\ Goto("linked") /\ UNCHANGED retry_in
  <2>1. LinkType'
    BY <1>1, LinkFields DEF StartAttempt, LinkType, TaskType
  <2>2. FlagType' /\ BackType'
    BY <1>1 DEF StartAttempt, FlagType, BackType
  <2>3. EventType' /\ FaultType'
    BY <1>1, TypeStays DEF StartAttempt
  <2>4. PcType' /\ retry_in' \in Nat
    BY <1>1 DEF Goto, PcType, Places, TimeType
  <2> QED BY <2>1, <2>2, <2>3, <2>4
<1>2. CASE FailAttempt /\ AfterAttempt(FALSE)
  <2>1. LinkType'
    BY <1>2, LinkFields DEF FailAttempt, LinkType
  <2>2. FlagType'
    BY <1>2 DEF FailAttempt, FlagType
  <2>3. EventType'
    BY <1>2, TypeStays DEF FailAttempt
  <2>4. FaultType'
    BY <1>2 DEF FailAttempt, Fault, FaultType
  <2>5. PcType' /\ BackType'
    BY <1>2 DEF AfterAttempt, Goto, PcType, Places, BackType
  <2>6. retry_in' \in Nat
    BY <1>2, Bounds DEF AfterAttempt, TimeType, ClockType
  <2> QED BY <2>1, <2>2, <2>3, <2>4, <2>5, <2>6
<1> QED BY <1>1, <1>2 DEF Attempt

LEMMA AfterAttemptType ==
  ASSUME TypeOK, NEW up \in BOOLEAN, AfterAttempt(up)
  PROVE  PcType' /\ BackType' /\ retry_in' \in Nat
<1> USE TypeParts
<1>1. PcType'
  BY DEF AfterAttempt, Goto, PcType, Places
<1>2. BackType'
  BY DEF AfterAttempt, BackType
<1>3. retry_in' \in Nat
  BY Bounds DEF AfterAttempt, TimeType, ClockType
<1> QED BY <1>1, <1>2, <1>3

(* The task. *)
LEMMA ReceiveType == ASSUME TypeOK, Receive PROVE TypeOK'
<1> USE TypeParts
<1>1. QueueType' /\ hand' \in Nat
  <2>1. CASE queue # <<>> /\ hand' = Head(queue) /\ queue' = Tail(queue)
    <3>1. /\ Head(queue) \in Nat /\ Tail(queue) \in Seq(Nat)
          /\ Len(Tail(queue)) = Len(queue) - 1 /\ Len(queue) \in Nat
      BY <2>1 DEF QueueType
    <3> QED BY <2>1, <3>1, Bounds DEF QueueType
  <2>2. CASE hand' = NoSample /\ UNCHANGED queue
    BY <2>2, TypeStays DEF NoSample
  <2> QED BY <2>1, <2>2 DEF Receive
<1>2. TaskType'
  BY <1>1 DEF Receive, TaskType
<1>3. PcType'
  BY DEF Receive, Goto, PcType, Places
<1>4. ClockType'
  <2>1. timed_out' \in BOOLEAN
    BY DEF Receive
  <2>2. waited' \in 0..ConnectTimeout
    BY Bounds DEF Receive
  <2> QED BY <2>1, <2>2 DEF ClockType
<1> QED BY <1>1, <1>2, <1>3, <1>4, TypeStays, TypePartsAfter DEF Receive, linkVars

LEMMA PollType == ASSUME TypeOK, Poll PROVE TypeOK'
<1> USE TypeParts
<1>1. PcType'
  BY DEF Poll, Goto, PcType, Places
<1>2. TaskType'
  BY DEF Poll, TaskType, ConfigType
<1> QED BY <1>1, <1>2, TypeStays, TypePartsAfter DEF Poll, linkVars, envVars

LEMMA ApplyType == ASSUME TypeOK, Apply PROVE TypeOK'
<1> USE TypeParts
<1>1. PcType'
  BY DEF Apply, Goto, PcType, Places
<1>2. CASE mqtt_cfg = s_current_settings
  <2>1. UNCHANGED <<s_current_settings, s_backend_connected, linkVars, retry_in>>
    BY <1>2 DEF Apply, ApplySettings
  <2>2. TaskType'
    BY <2>1 DEF Apply, TaskType
  <2>3. TimeType'
    BY <2>1 DEF Apply, TimeType
  <2> QED BY <1>1, <2>1, <2>2, <2>3, TypeStays, TypePartsAfter DEF Apply, linkVars, envVars
<1>3. CASE mqtt_cfg # s_current_settings
  <2>1. /\ Deinit /\ s_backend_connected' = FALSE /\ s_current_settings' = mqtt_cfg
        /\ retry_in' = 0 \/ retry_in' = retry_in
    BY <1>3 DEF Apply, ApplySettings
  <2>2. TaskType'
    BY <2>1 DEF Apply, TaskType, ConfigType
  <2>3. TimeType'
    BY <2>1 DEF Apply, TimeType
  <2>4. LinkType' /\ FlagType' /\ EventType'
    BY <2>1, DeinitType
  <2>5. BackType'
    BY <2>1 DEF BackType
  <2> QED BY <1>1, <2>2, <2>3, <2>4, <2>5, TypeStays, TypePartsAfter DEF Apply, envVars
<1> QED BY <1>2, <1>3

LEMMA LinkImmediateType == ASSUME TypeOK, LinkImmediate PROVE TypeOK'
<1> USE TypeParts
<1>1. CASE Attempt
  <2>1. TimeType'
    BY <1>1, AttemptType DEF LinkImmediate, TimeType
  <2> QED BY <1>1, <2>1, AttemptType, TypeStays, TypePartsAfter DEF LinkImmediate
<1>2. CASE s_backend_connected' = s_connected /\ Goto("publish") /\ UNCHANGED <<linkVars, faults, retry_in>>
  <2>1. PcType' /\ BackType'
    BY <1>2 DEF Goto, PcType, Places, BackType, FlagType
  <2> QED BY <1>2, <2>1, TypeStays, TypePartsAfter DEF LinkImmediate, linkVars, timeVars
<1> QED BY <1>1, <1>2 DEF LinkImmediate

LEMMA BufferedType ==
  ASSUME TypeOK, Buffered(hand)
  PROVE  BufferType' /\ lost' \subseteq Nat
<1> USE TypeParts
<1>1. hand \in Nat /\ lost \subseteq Nat
  BY DEF TaskType, LedgerType
<1>2. CASE hand # NoSample /\ Len(s_batch_buffer) < MaxBatchItems
  <2>1. s_batch_buffer' = Append(s_batch_buffer, hand) /\ lost' = lost
    BY <1>2 DEF Buffered
  <2>2. /\ Append(s_batch_buffer, hand) \in Seq(Nat)
        /\ Len(Append(s_batch_buffer, hand)) = Len(s_batch_buffer) + 1
    BY <1>1 DEF BufferType
  <2> QED BY <1>1, <1>2, <2>1, <2>2, Bounds DEF BufferType
<1>3. CASE hand = NoSample \/ ~(Len(s_batch_buffer) < MaxBatchItems)
  BY <1>1, <1>3, TypeStays DEF Buffered
<1> QED BY <1>2, <1>3

LEMMA LinkBatchType == ASSUME TypeOK, LinkBatch PROVE TypeOK'
<1> USE TypeParts
<1>1. BufferType' /\ LedgerType'
  BY BufferedType DEF LinkBatch, LedgerType
<1>2. TaskType'
  BY DEF LinkBatch, TaskType, NoSample
<1>3. CASE Attempt
  <2>1. TimeType'
    BY <1>3, AttemptType DEF LinkBatch, TimeType
  <2> QED BY <1>1, <1>2, <1>3, <2>1, AttemptType, TypeStays, TypePartsAfter DEF LinkBatch
<1>4. CASE AfterAttempt(TRUE) /\ UNCHANGED <<linkVars, faults>>
  <2>1. TimeType'
    BY <1>4, AfterAttemptType DEF LinkBatch, TimeType
  <2> QED BY <1>1, <1>2, <1>4, <2>1, AfterAttemptType, TypeStays, TypePartsAfter
          DEF LinkBatch, linkVars
<1>5. CASE s_backend_connected' = s_connected /\ Goto("receive") /\ UNCHANGED <<linkVars, faults, retry_in>>
  <2>1. PcType' /\ BackType'
    BY <1>5 DEF Goto, PcType, Places, BackType, FlagType
  <2> QED BY <1>1, <1>2, <1>5, <2>1, TypeStays, TypePartsAfter DEF LinkBatch, linkVars, timeVars
<1> QED BY <1>3, <1>4, <1>5 DEF LinkBatch

LEMMA LinkedType == ASSUME TypeOK, Linked \/ ConnectTimesOut PROVE TypeOK'
<1> USE TypeParts
<1>1. CASE Linked
  <2>1. PcType' /\ BackType' /\ TimeType'
    BY <1>1, AfterAttemptType DEF Linked, FlagType, TimeType
  <2>2. FlagType'
    BY <1>1 DEF Linked, FlagType
  <2> QED BY <1>1, <2>1, <2>2, TypeStays, TypePartsAfter DEF Linked, envVars
<1>2. CASE ConnectTimesOut
  <2>1. PcType' /\ BackType' /\ TimeType'
    BY <1>2, AfterAttemptType DEF ConnectTimesOut, TimeType
  <2>2. LinkType' /\ EventType'
    BY <1>2, LinkFields, EventAppended DEF ConnectTimesOut, EndSession, LinkType, EventType, EventTypes
  <2> QED BY <1>2, <2>1, <2>2, TypeStays, TypePartsAfter DEF ConnectTimesOut, envVars
<1> QED BY <1>1, <1>2

LEMMA AcceptedType ==
  ASSUME NEW samples, NEW ok \in Accepted(samples)
  PROVE  ok \subseteq samples
BY DEF Accepted

LEMMA PublishType == ASSUME TypeOK, Publish PROVE TypeOK'
<1> USE TypeParts
<1>1. PICK ok \in Accepted(IF s_backend_connected THEN {hand} \ {NoSample} ELSE {}) :
         /\ published' = published \cup ok
         /\ lost' = lost \cup (({hand} \ {NoSample}) \ ok)
  BY DEF Publish
<1>2. ok \subseteq {hand} /\ hand \in Nat
  BY AcceptedType DEF TaskType
<1>3. LedgerType'
  BY <1>1, <1>2 DEF Publish, LedgerType
<1>4. TaskType'
  BY DEF Publish, TaskType, NoSample
<1>5. PcType'
  BY DEF Publish, Goto, PcType, Places
<1> QED BY <1>3, <1>4, <1>5, TypeStays, TypePartsAfter DEF Publish, linkVars, envVars

LEMMA TransmitType == ASSUME TypeOK, Transmit PROVE TypeOK'
<1> USE TypeParts
<1>1. PICK ok \in Accepted(Range(s_batch_buffer)) :
         /\ published' = published \cup ok
         /\ lost' = lost \cup (Range(s_batch_buffer) \ ok)
  BY DEF Transmit
<1>2. Range(s_batch_buffer) \subseteq Nat
  BY DEF Range, BufferType
<1>3. LedgerType'
  BY <1>1, <1>2, AcceptedType DEF Transmit, LedgerType
<1>4. BufferType'
  BY Bounds DEF Transmit, BufferType
<1>5. PcType'
  BY DEF Transmit, Goto, PcType, Places
<1> QED BY <1>3, <1>4, <1>5, TypeStays, TypePartsAfter DEF Transmit, linkVars, envVars

LEMMA TakeReportType ==
  ASSUME TypeOK, NEW kind \in Kinds, TakeReport(kind), UNCHANGED reports
  PROVE  ReportType'
<1> USE TypeParts
<1>1. CASE s_backend_connected
  <2>1. PICK ok \in Accepted({s_pending[kind]} \ {0}) :
           sent' = IF ok = {} THEN sent ELSE [sent EXCEPT ![kind] = Append(@, s_pending[kind])]
    BY <1>1 DEF TakeReport
  <2>2. s_pending[kind] \in Nat /\ sent[kind] \in Seq(Nat)
    BY DEF ReportType
  <2>3. Append(sent[kind], s_pending[kind]) \in Seq(Nat)
    BY <2>2
  <2>4. sent' \in [Kinds -> Seq(Nat)]
    BY <2>1, <2>3 DEF ReportType
  <2>5. s_pending' \in [Kinds -> Nat]
    <3>1. s_pending \in [Kinds -> Nat]
      BY DEF ReportType
    <3>2. s_pending' = [s_pending EXCEPT ![kind] = 0]
      BY <1>1 DEF TakeReport
    <3> QED BY <3>1, <3>2
  <2> QED BY <2>4, <2>5 DEF ReportType
<1>2. CASE ~s_backend_connected
  BY <1>2 DEF TakeReport, ReportType
<1> QED BY <1>1, <1>2

LEMMA ReportsType == ASSUME TypeOK, PublishPosition \/ PublishBattery PROVE TypeOK'
<1> USE TypeParts
<1>1. ReportType'
  BY TakeReportType DEF PublishPosition, PublishBattery, Kinds
<1>2. PcType'
  BY DEF PublishPosition, PublishBattery, Goto, PcType, Places
<1> QED BY <1>1, <1>2, TypeStays, TypePartsAfter DEF PublishPosition, PublishBattery, linkVars, envVars

LEMMA CloseType == ASSUME TypeOK, Close PROVE TypeOK'
<1> USE TypeParts
<1>1. LinkType' /\ FlagType' /\ EventType'
  BY DeinitType DEF Close
<1>2. batch_in' \in Nat
  <2>1. s_current_settings.batch_interval \in Nat /\ waited \in Nat
    BY SettingFields, Bounds DEF TaskType, ClockType
  <2> QED BY <2>1 DEF Close
<1>3. TimeType' /\ BackType'
  BY <1>2 DEF Close, TimeType, BackType
<1>4. PcType'
  BY DEF Close, Goto, PcType, Places
<1> QED BY <1>1, <1>3, <1>4, TypeStays, TypePartsAfter DEF Close, envVars

LEMMA TypeStep == TypeOK /\ [Next]_vars => TypeOK'
<1> SUFFICES ASSUME TypeOK, [Next]_vars PROVE TypeOK'
  OBVIOUS
<1>1. CASE Task
  BY <1>1, ReceiveType, PollType, ApplyType, LinkImmediateType, LinkBatchType, LinkedType,
     PublishType, TransmitType, ReportsType, CloseType DEF Task
<1>2. CASE Produce
  BY <1>2, ProduceType, QueueReportType DEF Produce
<1>3. CASE Tick
  BY <1>3, TickType
<1>4. CASE Broker
  BY <1>4, BrokerType
<1>5. CASE SetMqttSettings \/ GnssBegins \/ GnssEnds
  BY <1>5, OtherType
<1>6. CASE UNCHANGED vars
  BY <1>6, TypeStays, TypePartsAfter DEF vars, linkVars, envVars
<1> QED BY <1>1, <1>2, <1>3, <1>4, <1>5, <1>6 DEF Next

\* Every variable of the bridge and its client keeps its type, and the queue and the
\* batch buffer their bounds, for any settings, faults and reports.
THEOREM TypeCorrect == Spec => []TypeOK
BY InitType, TypeStep, PTL DEF Spec

-----------------------------------------------------------------------------
(* The ledger.  A result is a serial number: what waits is older the nearer   *)
(* it is to the client, so a result is in one place only; and the task has no *)
(* result in hand when it receives the next one.                              *)

WaitingInOrder ==
    /\ hand <= serial
    /\ \A i \in 1..Len(queue) :
          /\ 0 < queue[i] /\ queue[i] <= serial /\ hand < queue[i]
          /\ \A j \in 1..Len(queue) : i < j => queue[i] < queue[j]
    /\ \A k \in 1..Len(s_batch_buffer) :
          /\ 0 < s_batch_buffer[k] /\ s_batch_buffer[k] <= serial
          /\ hand # NoSample => s_batch_buffer[k] < hand
          /\ \A i \in 1..Len(queue) : s_batch_buffer[k] < queue[i]

HandInPlace ==
    hand # NoSample =>
        \/ pc \in {"poll", "apply", "link", "publish"}
        \/ pc = "linked" /\ ~s_current_settings.batch_enabled

LedgerInv == WaitingInOrder /\ HandInPlace

Waiting == Range(queue) \cup ({hand} \ {NoSample}) \cup Range(s_batch_buffer)

LEMMA InitLedger == Init => LedgerInv /\ Ledger!Init
<1> SUFFICES ASSUME Init PROVE LedgerInv /\ Ledger!Init
  OBVIOUS
<1>1. /\ queue = <<>> /\ s_batch_buffer = <<>> /\ hand = NoSample /\ serial = 0
      /\ published = {} /\ lost = {}
  BY DEF Init
<1>2. LedgerInv
  BY <1>1 DEF LedgerInv, WaitingInOrder, HandInPlace, NoSample
<1>3. Range(<<>>) = {}
  BY DEF Range
<1> QED BY <1>1, <1>2, <1>3 DEF Ledger!Init

(* A step that leaves what waits alone is a stutter of the ledger. *)
LEMMA LedgerStutters ==
  ASSUME UNCHANGED <<queue, hand, s_batch_buffer, serial, published, lost>>
  PROVE  /\ WaitingInOrder => WaitingInOrder'
         /\ UNCHANGED Ledger!vars
BY DEF WaitingInOrder, Ledger!vars

(* A step that takes results from where they wait settles them. *)
LEMMA Settles ==
  ASSUME Waiting' \subseteq Waiting, serial' = serial,
         NEW closed, closed \subseteq Waiting \ Waiting',
         published' = published \cup closed, lost' = lost \cup ((Waiting \ Waiting') \ closed)
  PROVE  Ledger!Next
BY DEF Ledger!Next, Ledger!Settle, Waiting

LEMMA ProduceLedger ==
  ASSUME TypeOK, LedgerInv, ProduceSample
  PROVE  LedgerInv' /\ Ledger!Next
<1> USE TypeParts
<1>1. /\ serial' = serial + 1 /\ UNCHANGED <<hand, s_batch_buffer, published, pc, s_current_settings>>
      /\ serial \in Nat /\ hand \in Nat /\ queue \in Seq(Nat) /\ s_batch_buffer \in Seq(Nat)
  BY DEF ProduceSample, taskVars, LedgerType, TaskType, QueueType, BufferType
<1>2. HandInPlace'
  BY <1>1 DEF LedgerInv, HandInPlace
<1>3. CASE queue' = Append(queue, serial') /\ UNCHANGED lost
  <2>1. /\ Len(queue') = Len(queue) + 1 /\ Len(queue) \in Nat
        /\ \A i \in 1..Len(queue') : queue'[i] = IF i <= Len(queue) THEN queue[i] ELSE serial'
    BY <1>1, <1>3
  <2>2. \A i \in 1..Len(queue) : queue[i] \in Nat /\ queue[i] < serial'
    BY <1>1 DEF LedgerInv, WaitingInOrder
  <2>3. \A k \in 1..Len(s_batch_buffer) : s_batch_buffer[k] \in Nat /\ s_batch_buffer[k] < serial'
    BY <1>1 DEF LedgerInv, WaitingInOrder
  <2>4. WaitingInOrder'
    <3>1. hand' <= serial'
      BY <1>1 DEF LedgerInv, WaitingInOrder
    <3>2. ASSUME NEW i \in 1..Len(queue')
          PROVE  /\ 0 < queue'[i] /\ queue'[i] <= serial' /\ hand' < queue'[i]
                 /\ \A j \in 1..Len(queue') : i < j => queue'[i] < queue'[j]
      <4>1. CASE i <= Len(queue)
        <5>1. /\ i \in 1..Len(queue) /\ queue'[i] = queue[i] /\ queue[i] \in Nat
              /\ 0 < queue[i] /\ queue[i] < serial' /\ hand < queue[i]
          BY <1>1, <2>1, <2>2, <4>1 DEF LedgerInv, WaitingInOrder
        <5>2. ASSUME NEW j \in 1..Len(queue'), i < j PROVE queue'[i] < queue'[j]
          <6>1. CASE j <= Len(queue)
            BY <2>1, <5>1, <5>2, <6>1 DEF LedgerInv, WaitingInOrder
          <6>2. CASE ~(j <= Len(queue))
            BY <2>1, <5>1, <6>2
          <6> QED BY <6>1, <6>2
        <5> QED BY <1>1, <5>1, <5>2
      <4>2. CASE i = Len(queue')
        <5>1. queue'[i] = serial'
          BY <2>1, <4>2
        <5>2. hand < serial' /\ 0 < serial'
          BY <1>1 DEF LedgerInv, WaitingInOrder
        <5>3. \A j \in 1..Len(queue') : ~(i < j)
          BY <2>1, <4>2
        <5> QED BY <1>1, <5>1, <5>2, <5>3
      <4> QED BY <2>1, <4>1, <4>2
    <3>3. ASSUME NEW k \in 1..Len(s_batch_buffer)
          PROVE  /\ 0 < s_batch_buffer[k] /\ s_batch_buffer[k] <= serial'
                 /\ hand' # NoSample => s_batch_buffer[k] < hand'
                 /\ \A i \in 1..Len(queue') : s_batch_buffer[k] < queue'[i]
      <4>1. /\ 0 < s_batch_buffer[k] /\ s_batch_buffer[k] <= serial'
            /\ hand' # NoSample => s_batch_buffer[k] < hand'
        BY <1>1, <2>3 DEF LedgerInv, WaitingInOrder
      <4>2. ASSUME NEW i \in 1..Len(queue') PROVE s_batch_buffer[k] < queue'[i]
        <5>1. CASE i <= Len(queue)
          BY <2>1, <5>1 DEF LedgerInv, WaitingInOrder
        <5>2. CASE ~(i <= Len(queue))
          BY <2>1, <2>3, <5>2
        <5> QED BY <5>1, <5>2
      <4> QED BY <4>1, <4>2
    <3> QED BY <1>1, <3>1, <3>2, <3>3 DEF WaitingInOrder
  <2>5. Range(queue') = Range(queue) \cup {serial'}
    <3>1. DOMAIN queue = 1..Len(queue) /\ DOMAIN queue' = 1..Len(queue')
      BY <1>1, <1>3
    <3>2. Range(queue') \subseteq Range(queue) \cup {serial'}
      BY <2>1, <3>1 DEF Range
    <3>3. Range(queue) \subseteq Range(queue')
      BY <2>1, <3>1 DEF Range
    <3>4. serial' \in Range(queue')
      <4>1. Len(queue') \in 1..Len(queue') /\ queue'[Len(queue')] = serial'
        BY <2>1
      <4> QED BY <3>1, <4>1 DEF Range
    <3> QED BY <3>2, <3>3, <3>4
  <2> QED BY <1>1, <1>2, <1>3, <2>4, <2>5 DEF LedgerInv, Ledger!Next, Ledger!Take
<1>4. CASE lost' = lost \cup {serial'} /\ UNCHANGED queue
  <2>1. WaitingInOrder'
    BY <1>1, <1>4 DEF LedgerInv, WaitingInOrder
  <2> QED BY <1>1, <1>2, <1>4, <2>1 DEF LedgerInv, Ledger!Next, Ledger!Take
<1> QED BY <1>3, <1>4 DEF ProduceSample

LEMMA ReceiveLedger ==
  ASSUME TypeOK, LedgerInv, Receive
  PROVE  LedgerInv' /\ UNCHANGED Ledger!vars
<1> USE TypeParts
<1>1. /\ UNCHANGED <<s_batch_buffer, serial, published, lost, s_current_settings>>
      /\ hand = NoSample /\ pc' = "poll"
      /\ queue \in Seq(Nat) /\ s_batch_buffer \in Seq(Nat) /\ serial \in Nat
  BY DEF Receive, Goto, ledgerVars, LedgerInv, HandInPlace, QueueType, BufferType, LedgerType
<1>2. HandInPlace'
  BY <1>1 DEF HandInPlace
<1>3. CASE queue # <<>> /\ hand' = Head(queue) /\ queue' = Tail(queue)
  <2>1. /\ Len(queue) \in Nat \ {0} /\ Len(queue') = Len(queue) - 1
        /\ \A i \in 1..Len(queue') : queue'[i] = queue[i + 1] /\ i + 1 \in 1..Len(queue)
        /\ hand' = queue[1] /\ 1 \in 1..Len(queue)
    BY <1>1, <1>3
  <2>2. hand' <= serial' /\ hand' \in Nat \ {0}
    BY <1>1, <2>1 DEF LedgerInv, WaitingInOrder
  <2>3. ASSUME NEW i \in 1..Len(queue')
        PROVE  /\ 0 < queue'[i] /\ queue'[i] <= serial' /\ hand' < queue'[i]
               /\ \A j \in 1..Len(queue') : i < j => queue'[i] < queue'[j]
    <3>1. /\ queue'[i] = queue[i + 1] /\ i + 1 \in 1..Len(queue) /\ 1 < i + 1
      BY <2>1
    <3>2. 0 < queue'[i] /\ queue'[i] <= serial' /\ hand' < queue'[i]
      BY <1>1, <2>1, <3>1 DEF LedgerInv, WaitingInOrder
    <3>3. ASSUME NEW j \in 1..Len(queue'), i < j PROVE queue'[i] < queue'[j]
      <4>1. queue'[j] = queue[j + 1] /\ j + 1 \in 1..Len(queue) /\ i + 1 < j + 1
        BY <2>1, <3>3
      <4> QED BY <3>1, <4>1 DEF LedgerInv, WaitingInOrder
    <3> QED BY <3>2, <3>3
  <2>4. ASSUME NEW k \in 1..Len(s_batch_buffer)
        PROVE  /\ 0 < s_batch_buffer[k] /\ s_batch_buffer[k] <= serial'
               /\ s_batch_buffer[k] < hand'
               /\ \A i \in 1..Len(queue') : s_batch_buffer[k] < queue'[i]
    BY <1>1, <2>1 DEF LedgerInv, WaitingInOrder
  <2>5. WaitingInOrder'
    BY <1>1, <2>2, <2>3, <2>4 DEF WaitingInOrder
  <2>6. Range(queue) = {hand'} \cup Range(queue')
    <3>1. DOMAIN queue = 1..Len(queue) /\ DOMAIN queue' = 1..Len(queue')
      BY <1>1, <1>3
    <3>2. {hand'} \cup Range(queue') \subseteq Range(queue)
      BY <2>1, <3>1 DEF Range
    <3>3. ASSUME NEW i \in 1..Len(queue) PROVE queue[i] \in {hand'} \cup Range(queue')
      <4>1. CASE i = 1
        BY <2>1, <4>1
      <4>2. CASE i # 1
        <5>1. i - 1 \in 1..Len(queue') /\ queue'[i - 1] = queue[i]
          BY <2>1, <4>2
        <5> QED BY <3>1, <5>1 DEF Range
      <4> QED BY <4>1, <4>2
    <3>4. Range(queue) \subseteq {hand'} \cup Range(queue')
      BY <3>1, <3>3 DEF Range
    <3> QED BY <3>2, <3>4
  <2>7. UNCHANGED Waiting
    BY <1>1, <2>2, <2>6 DEF Waiting, NoSample
  <2> QED BY <1>1, <1>2, <2>5, <2>7 DEF LedgerInv, Ledger!vars, Waiting
<1>4. CASE hand' = NoSample /\ UNCHANGED queue
  BY <1>1, <1>2, <1>4, LedgerStutters DEF LedgerInv
<1> QED BY <1>3, <1>4 DEF Receive

(* The result in hand joins the buffer or is lost. *)
LEMMA LinkBatchLedger ==
  ASSUME TypeOK, LedgerInv, LinkBatch
  PROVE  LedgerInv' /\ Ledger!Next
<1> USE TypeParts
<1>1. /\ UNCHANGED <<queue, serial, published>> /\ hand' = NoSample /\ Buffered(hand)
      /\ queue \in Seq(Nat) /\ s_batch_buffer \in Seq(Nat) /\ serial \in Nat /\ hand \in Nat
  BY DEF LinkBatch, QueueType, BufferType, LedgerType, TaskType
<1>2. HandInPlace'
  BY <1>1 DEF HandInPlace
<1>3. CASE hand = NoSample
  <2>1. UNCHANGED <<queue, hand, s_batch_buffer, serial, published, lost>>
    BY <1>1, <1>3 DEF Buffered
  <2>2. WaitingInOrder'
    BY <2>1, LedgerStutters DEF LedgerInv
  <2>3. UNCHANGED Waiting
    BY <2>1 DEF Waiting
  <2>4. /\ Waiting' \subseteq Waiting /\ {} \subseteq Waiting \ Waiting'
        /\ published' = published \cup {} /\ lost' = lost \cup ((Waiting \ Waiting') \ {})
    BY <2>1, <2>3
  <2> QED BY <1>1, <1>2, <2>2, <2>4, Settles DEF LedgerInv
<1>4. CASE hand # NoSample /\ s_batch_buffer' = Append(s_batch_buffer, hand) /\ UNCHANGED lost
  <2>1. /\ Len(s_batch_buffer) \in Nat /\ Len(s_batch_buffer') = Len(s_batch_buffer) + 1
        /\ \A k \in 1..Len(s_batch_buffer') :
              s_batch_buffer'[k] = IF k <= Len(s_batch_buffer) THEN s_batch_buffer[k] ELSE hand
        /\ DOMAIN s_batch_buffer = 1..Len(s_batch_buffer)
        /\ DOMAIN s_batch_buffer' = 1..Len(s_batch_buffer')
    BY <1>1, <1>4
  <2>2. hand' <= serial' /\ \A i \in 1..Len(queue) : 0 < queue[i] /\ hand' < queue[i]
    BY <1>1 DEF LedgerInv, WaitingInOrder, NoSample
  <2>3. ASSUME NEW k \in 1..Len(s_batch_buffer')
        PROVE  /\ 0 < s_batch_buffer'[k] /\ s_batch_buffer'[k] <= serial'
               /\ \A i \in 1..Len(queue) : s_batch_buffer'[k] < queue[i]
    <3>1. CASE k <= Len(s_batch_buffer)
      BY <1>1, <2>1, <3>1 DEF LedgerInv, WaitingInOrder
    <3>2. CASE ~(k <= Len(s_batch_buffer))
      BY <1>1, <1>4, <2>1, <3>2 DEF LedgerInv, WaitingInOrder, NoSample
    <3> QED BY <3>1, <3>2
  <2>4. WaitingInOrder'
    BY <1>1, <2>2, <2>3 DEF LedgerInv, WaitingInOrder
  <2>5. Range(s_batch_buffer') = Range(s_batch_buffer) \cup {hand}
    <3>1. Range(s_batch_buffer') \subseteq Range(s_batch_buffer) \cup {hand}
      BY <2>1 DEF Range
    <3>2. Range(s_batch_buffer) \subseteq Range(s_batch_buffer')
      BY <2>1 DEF Range
    <3>3. hand \in Range(s_batch_buffer')
      <4>1. Len(s_batch_buffer') \in 1..Len(s_batch_buffer') /\ s_batch_buffer'[Len(s_batch_buffer')] = hand
        BY <2>1
      <4> QED BY <2>1, <4>1 DEF Range
    <3> QED BY <3>1, <3>2, <3>3
  <2>6. UNCHANGED Waiting
    BY <1>1, <1>4, <2>5 DEF Waiting
  <2>7. /\ Waiting' \subseteq Waiting /\ {} \subseteq Waiting \ Waiting'
        /\ published' = published \cup {} /\ lost' = lost \cup ((Waiting \ Waiting') \ {})
    BY <1>1, <1>4, <2>6
  <2> QED BY <1>1, <1>2, <2>4, <2>7, Settles DEF LedgerInv
<1>5. CASE hand # NoSample /\ UNCHANGED s_batch_buffer /\ lost' = lost \cup {hand}
  <2>1. WaitingInOrder'
    BY <1>1, <1>5 DEF LedgerInv, WaitingInOrder, NoSample
  <2>2. hand \notin Range(queue) /\ hand \notin Range(s_batch_buffer)
    <3>1. DOMAIN queue = 1..Len(queue) /\ DOMAIN s_batch_buffer = 1..Len(s_batch_buffer)
      BY <1>1
    <3>2. \A i \in 1..Len(queue) : queue[i] \in Nat /\ queue[i] # hand
      BY <1>1 DEF LedgerInv, WaitingInOrder
    <3>3. \A k \in 1..Len(s_batch_buffer) : s_batch_buffer[k] # hand
      BY <1>1, <1>5 DEF LedgerInv, WaitingInOrder
    <3> QED BY <3>1, <3>2, <3>3 DEF Range
  <2>3. Waiting' = Waiting \ {hand} /\ hand \in Waiting
    BY <1>1, <1>5, <2>2 DEF Waiting
  <2>4. Waiting \ Waiting' = {hand} /\ Waiting' \subseteq Waiting
    BY <2>3
  <2>5. /\ {} \subseteq Waiting \ Waiting' /\ published' = published \cup {}
        /\ lost' = lost \cup ((Waiting \ Waiting') \ {})
    BY <1>1, <1>5, <2>4
  <2> QED BY <1>1, <1>2, <2>1, <2>4, <2>5, Settles DEF LedgerInv
<1> QED BY <1>1, <1>3, <1>4, <1>5 DEF Buffered

(* The result in hand is accepted or lost; so is what is in the buffer. *)
LEMMA PublishLedger ==
  ASSUME TypeOK, LedgerInv, Publish
  PROVE  LedgerInv' /\ Ledger!Next
<1> USE TypeParts
<1>1. /\ UNCHANGED <<queue, s_batch_buffer, serial>> /\ hand' = NoSample
      /\ queue \in Seq(Nat) /\ s_batch_buffer \in Seq(Nat) /\ serial \in Nat /\ hand \in Nat
  BY DEF Publish, QueueType, BufferType, LedgerType, TaskType
<1>2. PICK ok \in Accepted(IF s_backend_connected THEN {hand} \ {NoSample} ELSE {}) :
         /\ published' = published \cup ok
         /\ lost' = lost \cup (({hand} \ {NoSample}) \ ok)
  BY DEF Publish
<1>3. ok \subseteq {hand} \ {NoSample}
  BY AcceptedType
<1>4. WaitingInOrder'
  BY <1>1 DEF LedgerInv, WaitingInOrder, NoSample
<1>5. HandInPlace'
  BY <1>1 DEF HandInPlace
<1>6. Range(queue) \cap ({hand} \ {NoSample}) = {} /\ Range(s_batch_buffer) \cap ({hand} \ {NoSample}) = {}
  <2>1. DOMAIN queue = 1..Len(queue) /\ DOMAIN s_batch_buffer = 1..Len(s_batch_buffer)
    BY <1>1
  <2>2. \A i \in 1..Len(queue) : queue[i] \in Nat /\ queue[i] # hand
    BY <1>1 DEF LedgerInv, WaitingInOrder
  <2>3. \A k \in 1..Len(s_batch_buffer) : hand # NoSample => s_batch_buffer[k] # hand
    BY <1>1 DEF LedgerInv, WaitingInOrder
  <2> QED BY <2>1, <2>2, <2>3 DEF Range
<1>7. Waiting' \subseteq Waiting /\ Waiting \ Waiting' = {hand} \ {NoSample}
  BY <1>1, <1>6 DEF Waiting
<1> QED BY <1>1, <1>2, <1>3, <1>4, <1>5, <1>7, Settles DEF LedgerInv

LEMMA TransmitLedger ==
  ASSUME TypeOK, LedgerInv, Transmit
  PROVE  LedgerInv' /\ Ledger!Next
<1> USE TypeParts
<1>1. /\ UNCHANGED <<queue, hand, serial, s_current_settings>> /\ s_batch_buffer' = <<>>
      /\ hand = NoSample
      /\ queue \in Seq(Nat) /\ s_batch_buffer \in Seq(Nat) /\ serial \in Nat
  BY DEF Transmit, taskVars, QueueType, BufferType, LedgerType, LedgerInv, HandInPlace
<1>2. PICK ok \in Accepted(Range(s_batch_buffer)) :
         /\ published' = published \cup ok
         /\ lost' = lost \cup (Range(s_batch_buffer) \ ok)
  BY DEF Transmit
<1>3. ok \subseteq Range(s_batch_buffer)
  BY AcceptedType
<1>4. WaitingInOrder'
  BY <1>1 DEF LedgerInv, WaitingInOrder
<1>5. HandInPlace'
  BY <1>1 DEF HandInPlace
<1>6. Range(queue) \cap Range(s_batch_buffer) = {}
  <2>1. DOMAIN queue = 1..Len(queue) /\ DOMAIN s_batch_buffer = 1..Len(s_batch_buffer)
    BY <1>1
  <2>2. \A k \in 1..Len(s_batch_buffer), i \in 1..Len(queue) : s_batch_buffer[k] # queue[i]
    <3> SUFFICES ASSUME NEW k \in 1..Len(s_batch_buffer), NEW i \in 1..Len(queue)
                 PROVE  s_batch_buffer[k] # queue[i]
      OBVIOUS
    <3>1. s_batch_buffer[k] \in Nat /\ queue[i] \in Nat /\ s_batch_buffer[k] < queue[i]
      BY <1>1 DEF LedgerInv, WaitingInOrder
    <3> QED BY <3>1
  <2> QED BY <2>1, <2>2 DEF Range
<1>7. Waiting' \subseteq Waiting /\ Waiting \ Waiting' = Range(s_batch_buffer)
  <2>1. Range(s_batch_buffer') = {}
    BY <1>1 DEF Range
  <2> QED BY <1>1, <1>6, <2>1 DEF Waiting
<1> QED BY <1>1, <1>2, <1>3, <1>4, <1>5, <1>7, Settles DEF LedgerInv

(* The other steps move no result, and a result stays in hand only where the   *)
(* loop still has to deal with it.                                             *)
LEMMA OtherLedger ==
  ASSUME TypeOK, LedgerInv,
         \/ Poll \/ Apply \/ LinkImmediate \/ Linked \/ ConnectTimesOut
         \/ PublishPosition \/ PublishBattery \/ Close
         \/ SetMqttSettings \/ \E kind \in Kinds : QueueReport(kind)
         \/ Tick \/ Broker \/ GnssBegins \/ GnssEnds \/ UNCHANGED vars
  PROVE  LedgerInv' /\ UNCHANGED Ledger!vars
<1>1. UNCHANGED <<queue, hand, s_batch_buffer, serial, published, lost>>
  BY DEF Poll, Apply, LinkImmediate, Linked, ConnectTimesOut, PublishPosition, PublishBattery, Close,
         SetMqttSettings, QueueReport, Tick, Broker, Connected, Disconnected, Deliver, GnssBegins,
         GnssEnds, loopVars, taskVars, ledgerVars, vars
<1>2. HandInPlace'
  <2>1. CASE Poll
    BY <2>1 DEF LedgerInv, HandInPlace, Poll, Goto
  <2>2. CASE Apply
    BY <2>2 DEF LedgerInv, HandInPlace, Apply, Goto
  <2>3. CASE LinkImmediate
    <3>1. pc' \in {"linked", "publish"} /\ ~s_current_settings'.batch_enabled
      BY <2>3 DEF LinkImmediate, Attempt, AfterAttempt, Goto, taskVars
    <3> QED BY <3>1 DEF HandInPlace
  <2>4. CASE Linked \/ ConnectTimesOut
    <3>1. s_current_settings' = s_current_settings /\ pc = "linked"
      BY <2>4 DEF Linked, ConnectTimesOut, taskVars
    <3>2. ~s_current_settings.batch_enabled => pc' = "publish"
      BY <2>4 DEF Linked, ConnectTimesOut, AfterAttempt, Goto
    <3> QED BY <1>1, <3>1, <3>2 DEF LedgerInv, HandInPlace
  <2>5. CASE PublishPosition \/ PublishBattery \/ Close
    BY <1>1, <2>5 DEF LedgerInv, HandInPlace, PublishPosition, PublishBattery, Close
  <2>6. CASE \/ SetMqttSettings \/ \E kind \in Kinds : QueueReport(kind)
             \/ Tick \/ Broker \/ GnssBegins \/ GnssEnds \/ UNCHANGED vars
    <3>1. UNCHANGED <<pc, s_current_settings>>
      BY <2>6 DEF SetMqttSettings, QueueReport, Tick, Broker, Connected, Disconnected, Deliver,
                  GnssBegins, GnssEnds, loopVars, taskVars, vars
    <3> QED BY <1>1, <3>1 DEF LedgerInv, HandInPlace
  <2> QED BY <2>1, <2>2, <2>3, <2>4, <2>5, <2>6
<1> QED BY <1>1, <1>2, LedgerStutters DEF LedgerInv

LEMMA LedgerStep ==
  TypeOK /\ LedgerInv /\ [Next]_vars => LedgerInv' /\ [Ledger!Next]_(Ledger!vars)
<1> SUFFICES ASSUME TypeOK, LedgerInv, [Next]_vars
             PROVE  LedgerInv' /\ [Ledger!Next]_(Ledger!vars)
  OBVIOUS
<1>1. CASE Receive
  BY <1>1, ReceiveLedger
<1>2. CASE LinkBatch \/ Publish \/ Transmit \/ ProduceSample
  BY <1>2, LinkBatchLedger, PublishLedger, TransmitLedger, ProduceLedger
<1>3. CASE \/ Poll \/ Apply \/ LinkImmediate \/ Linked \/ ConnectTimesOut
           \/ PublishPosition \/ PublishBattery \/ Close
           \/ SetMqttSettings \/ \E kind \in Kinds : QueueReport(kind)
           \/ Tick \/ Broker \/ GnssBegins \/ GnssEnds \/ UNCHANGED vars
  BY <1>3, OtherLedger
<1> QED BY <1>1, <1>2, <1>3 DEF Next, Task, Produce

\* The bridge implements the ledger: a result it was given is waiting, was accepted by
\* the client in one publish, or is lost, whatever sessions, settings and faults there are.
THEOREM ResultsAccounted == Spec => LedgerSpec
BY InitType, TypeStep, InitLedger, LedgerStep, PTL DEF Spec, LedgerSpec, Ledger!Spec

Accounts == INSTANCE SampleLedger_proofs
              WITH taken <- serial, reported <- published,
                   pending <- Range(queue) \cup ({hand} \ {NoSample}) \cup Range(s_batch_buffer)

\* What the ledger promises holds of the bridge: every result it was given waits in its queue,
\* its hand or its buffer, or was accepted by the client, or is lost, and never two of these.
THEOREM NoResultForgotten == Spec => []Ledger!Accounted
<1>1. Accounts!Spec => []Accounts!Accounted
  BY Accounts!NothingForgotten
<1>2. LedgerSpec <=> Accounts!Spec
  BY DEF LedgerSpec, Ledger!Spec, Ledger!Init, Ledger!Next, Ledger!Take, Ledger!Settle, Ledger!vars,
         Accounts!Spec, Accounts!Init, Accounts!Next, Accounts!Take, Accounts!Settle, Accounts!vars
<1>3. Accounts!Accounted <=> Ledger!Accounted
  BY DEF Accounts!Accounted, Ledger!Accounted
<1> QED BY <1>1, <1>2, <1>3, ResultsAccounted, PTL

-----------------------------------------------------------------------------
(* The reports.  What waits of a kind is newer than all that was sent of it,  *)
(* and nothing is newer than the last report.                                 *)

Increasing(s) == \A i, j \in 1..Len(s) : i < j => s[i] < s[j]

ReportsInv ==
    \A kind \in Kinds :
        /\ s_pending[kind] <= reports[kind]
        /\ \A i \in 1..Len(sent[kind]) :
              /\ sent[kind][i] <= reports[kind]
              /\ s_pending[kind] # 0 => sent[kind][i] < s_pending[kind]
        /\ Increasing(sent[kind])

LEMMA InitReports == Init => ReportsInv
BY DEF Init, ReportsInv, Increasing

LEMMA QueueReportKeepsOrder ==
  ASSUME TypeOK, ReportsInv, NEW kind \in Kinds, QueueReport(kind)
  PROVE  ReportsInv'
<1> USE TypeParts
<1>1. /\ reports \in [Kinds -> Nat] /\ s_pending \in [Kinds -> Nat] /\ sent \in [Kinds -> Seq(Nat)]
      /\ reports' = [reports EXCEPT ![kind] = @ + 1] /\ UNCHANGED sent
      /\ s_pending' = [s_pending EXCEPT ![kind] = reports'[kind]]
  BY DEF QueueReport, ReportType
<1>2. ASSUME NEW k \in Kinds, k # kind
      PROVE  s_pending'[k] = s_pending[k] /\ reports'[k] = reports[k] /\ sent'[k] = sent[k]
  BY <1>1, <1>2
<1>3. reports'[kind] = reports[kind] + 1 /\ s_pending'[kind] = reports[kind] + 1
  BY <1>1
<1>4. \A i \in 1..Len(sent[kind]) : sent[kind][i] \in Nat /\ sent[kind][i] <= reports[kind]
  BY <1>1 DEF ReportsInv
<1>5. ASSUME NEW k \in Kinds
      PROVE  /\ s_pending'[k] <= reports'[k]
             /\ \A i \in 1..Len(sent'[k]) :
                   /\ sent'[k][i] <= reports'[k]
                   /\ s_pending'[k] # 0 => sent'[k][i] < s_pending'[k]
             /\ Increasing(sent'[k])
  <2>1. CASE k = kind
    <3>1. sent'[k] = sent[kind] /\ Increasing(sent[kind]) /\ reports[kind] \in Nat
      BY <1>1, <2>1 DEF ReportsInv
    <3> QED BY <1>3, <1>4, <2>1, <3>1
  <2>2. CASE k # kind
    BY <1>2, <2>2 DEF ReportsInv
  <2> QED BY <2>1, <2>2
<1> QED BY <1>5 DEF ReportsInv

LEMMA IncreasingAppend ==
  ASSUME NEW s \in Seq(Nat), NEW n \in Nat, Increasing(s), \A i \in 1..Len(s) : s[i] < n
  PROVE  /\ Increasing(Append(s, n))
         /\ \A i \in 1..Len(Append(s, n)) : Append(s, n)[i] <= n
<1> DEFINE t == Append(s, n)
<1>1. /\ Len(t) = Len(s) + 1 /\ Len(s) \in Nat
      /\ \A i \in 1..Len(t) : t[i] = IF i <= Len(s) THEN s[i] ELSE n
      /\ \A i \in 1..Len(s) : s[i] \in Nat
  OBVIOUS
<1> HIDE DEF t
<1>2. ASSUME NEW i \in 1..Len(t), NEW j \in 1..Len(t), i < j PROVE t[i] < t[j]
  <2>1. i \in 1..Len(s) /\ t[i] = s[i]
    BY <1>1, <1>2
  <2>2. CASE j <= Len(s)
    <3>1. j \in 1..Len(s) /\ t[j] = s[j]
      BY <1>1, <2>2
    <3> QED BY <1>2, <2>1, <3>1 DEF Increasing
  <2>3. CASE ~(j <= Len(s))
    <3>1. t[j] = n
      BY <1>1, <2>3
    <3>2. s[i] < n
      BY <2>1
    <3> QED BY <2>1, <3>1, <3>2
  <2> QED BY <2>2, <2>3
<1>3. \A i \in 1..Len(t) : t[i] <= n
  BY <1>1
<1> QED BY <1>2, <1>3 DEF t, Increasing

LEMMA TakeReportKeepsOrder ==
  ASSUME TypeOK, ReportsInv, NEW kind \in Kinds, TakeReport(kind), UNCHANGED reports
  PROVE  ReportsInv'
<1> USE TypeParts
<1>1. /\ reports \in [Kinds -> Nat] /\ s_pending \in [Kinds -> Nat] /\ sent \in [Kinds -> Seq(Nat)]
  BY DEF ReportType
<1>2. CASE ~s_backend_connected
  BY <1>2 DEF TakeReport, ReportsInv
<1>3. CASE s_backend_connected
  <2>1. s_pending' = [s_pending EXCEPT ![kind] = 0]
    BY <1>3 DEF TakeReport
  <2>2. PICK ok \in Accepted({s_pending[kind]} \ {0}) :
           sent' = IF ok = {} THEN sent ELSE [sent EXCEPT ![kind] = Append(@, s_pending[kind])]
    BY <1>3 DEF TakeReport
  <2>3. /\ s_pending'[kind] = 0
        /\ \A k \in Kinds : k # kind => s_pending'[k] = s_pending[k] /\ sent'[k] = sent[k]
    BY <1>1, <2>1, <2>2
  <2>4. /\ \A i \in 1..Len(sent'[kind]) : sent'[kind][i] <= reports[kind]
        /\ Increasing(sent'[kind])
    <3>1. CASE ok = {}
      BY <2>2, <3>1 DEF ReportsInv
    <3>2. CASE ok # {}
      <4>1. s_pending[kind] # 0
        BY <3>2, AcceptedType
      <4>2. /\ sent'[kind] = Append(sent[kind], s_pending[kind])
            /\ sent[kind] \in Seq(Nat) /\ s_pending[kind] \in Nat /\ reports[kind] \in Nat
        BY <1>1, <2>2, <3>2
      <4>3. /\ Increasing(sent[kind]) /\ s_pending[kind] <= reports[kind]
            /\ \A i \in 1..Len(sent[kind]) : sent[kind][i] < s_pending[kind]
        BY <4>1 DEF ReportsInv
      <4>4. /\ Increasing(sent'[kind])
            /\ \A i \in 1..Len(sent'[kind]) : sent'[kind][i] <= s_pending[kind]
        BY <4>2, <4>3, IncreasingAppend
      <4>5. sent'[kind] \in Seq(Nat)
        BY <4>2
      <4>6. \A i \in 1..Len(sent'[kind]) : sent'[kind][i] \in Nat
        BY <4>5
      <4> QED BY <4>2, <4>3, <4>4, <4>6
    <3> QED BY <3>1, <3>2
  <2>5. ASSUME NEW k \in Kinds
        PROVE  /\ s_pending'[k] <= reports'[k]
               /\ \A i \in 1..Len(sent'[k]) :
                     /\ sent'[k][i] <= reports'[k]
                     /\ s_pending'[k] # 0 => sent'[k][i] < s_pending'[k]
               /\ Increasing(sent'[k])
    <3>1. CASE k = kind
      <4>1. 0 <= reports[kind]
        BY <1>1
      <4> QED BY <2>3, <2>4, <3>1, <4>1
    <3>2. CASE k # kind
      BY <2>3, <3>2 DEF ReportsInv
    <3> QED BY <3>1, <3>2
  <2> QED BY <2>5 DEF ReportsInv
<1> QED BY <1>2, <1>3

LEMMA ReportsStep == TypeOK /\ ReportsInv /\ [Next]_vars => ReportsInv'
<1> SUFFICES ASSUME TypeOK, ReportsInv, [Next]_vars PROVE ReportsInv'
  OBVIOUS
<1>1. ASSUME NEW kind \in Kinds, QueueReport(kind) PROVE ReportsInv'
  BY <1>1, QueueReportKeepsOrder
<1>2. CASE PublishPosition \/ PublishBattery
  <2>1. \E kind \in Kinds : TakeReport(kind)
    BY <1>2 DEF PublishPosition, PublishBattery, Kinds
  <2>2. UNCHANGED reports
    BY <1>2 DEF PublishPosition, PublishBattery
  <2> QED BY <2>1, <2>2, TakeReportKeepsOrder
<1>3. CASE UNCHANGED reportVars
  BY <1>3 DEF reportVars, ReportsInv
<1>4. ASSUME \/ Receive \/ Poll \/ Apply \/ LinkImmediate \/ LinkBatch \/ Linked \/ ConnectTimesOut
             \/ Publish \/ Transmit \/ Close \/ ProduceSample
             \/ SetMqttSettings \/ Tick \/ Broker \/ GnssBegins \/ GnssEnds \/ UNCHANGED vars
      PROVE  UNCHANGED reportVars
  BY <1>4 DEF Receive, Poll, Apply, LinkImmediate, LinkBatch, Linked, ConnectTimesOut, Publish,
              Transmit, Close, ProduceSample, SetMqttSettings, Tick, Broker, Connected, Disconnected,
              Deliver, GnssBegins, GnssEnds, vars
<1> QED BY <1>1, <1>2, <1>3, <1>4 DEF Next, Task, Produce

\* Position and battery reports reach the broker at most once and newest last, though
\* they are overwritten, taken and published in different tasks and sessions.
THEOREM ReportsStayInOrder == Spec => []ReportsInOrder
<1>1. ReportsInv => ReportsInOrder
  BY DEF ReportsInv, Increasing, ReportsInOrder
<1> QED BY <1>1, InitType, TypeStep, InitReports, ReportsStep, PTL DEF Spec

-----------------------------------------------------------------------------
(* The client of esp-mqtt.  On cellular the late event of an attempt that      *)
(* timed out makes the property false.                                        *)

LEMMA InitClient == Init => ClientMatchesSettings
BY DEF Init, ClientMatchesSettings, Idle

LEMMA ClientStep ==
  ASSUME Transport = "wifi", TypeOK, ClientMatchesSettings, [Next]_vars
  PROVE  ClientMatchesSettings'
<1> USE TypeParts
<1>1. CASE Tick
  <2>1. link' = [link EXCEPT !.age = IF link.state = "connecting" THEN @ + 1 ELSE @]
        /\ UNCHANGED s_current_settings
    BY <1>1 DEF Tick, loopVars, taskVars
  <2>2. link'.state = link.state /\ link'.cfg = link.cfg
    BY <2>1 DEF LinkType, Links
  <2> QED BY <2>1, <2>2 DEF ClientMatchesSettings
<1>2. CASE Connected \/ Disconnected
  <2>1. link.state # "idle" /\ UNCHANGED s_current_settings
    BY <1>2 DEF Connected, Disconnected, loopVars, taskVars
  <2>2. link'.cfg = link.cfg
    BY <1>2 DEF Connected, Disconnected, LinkType, Links
  <2> QED BY <2>1, <2>2 DEF ClientMatchesSettings
<1>3. ASSUME Attempt, s_current_settings.enabled, UNCHANGED s_current_settings
      PROVE  ClientMatchesSettings'
  <2>1. StartAttempt => link'.cfg = s_current_settings
    BY DEF StartAttempt
  <2>2. FailAttempt => link' = Idle
    <3>1. Transport # "cellular"
      OBVIOUS
    <3> QED BY <3>1 DEF FailAttempt
  <2>3. StartAttempt \/ FailAttempt
    BY <1>3 DEF Attempt
  <2> QED BY <1>3, <2>1, <2>2, <2>3 DEF ClientMatchesSettings, Idle
<1>4. CASE LinkImmediate \/ LinkBatch
  <2>1. UNCHANGED s_current_settings
    BY <1>4 DEF LinkImmediate, LinkBatch, taskVars
  <2>2. (Attempt /\ s_current_settings.enabled) \/ UNCHANGED link
    BY <1>4 DEF LinkImmediate, LinkBatch, linkVars
  <2> QED BY <1>3, <2>1, <2>2 DEF ClientMatchesSettings
<1>5. CASE Apply
  <2>1. UNCHANGED <<s_current_settings, link>> \/ Deinit
    BY <1>5 DEF Apply, ApplySettings, linkVars
  <2>2. Deinit => link' = Idle
    BY DEF Deinit
  <2> QED BY <2>1, <2>2 DEF ClientMatchesSettings, Idle
<1>6. CASE Close
  BY <1>6 DEF Close, Disconnect, ClientMatchesSettings, Idle
<1>7. CASE UNCHANGED <<link, s_current_settings>>
  BY <1>7 DEF ClientMatchesSettings
<1>8. ASSUME \/ Receive \/ Poll \/ Linked \/ ConnectTimesOut \/ Publish \/ Transmit
             \/ PublishPosition \/ PublishBattery \/ Produce
             \/ SetMqttSettings \/ Deliver \/ GnssBegins \/ GnssEnds \/ UNCHANGED vars
      PROVE  UNCHANGED <<link, s_current_settings>>
  BY <1>8 DEF Receive, Poll, Linked, ConnectTimesOut, Publish, Transmit, PublishPosition,
              PublishBattery, Produce, ProduceSample, QueueReport, SetMqttSettings, Deliver, GnssBegins,
              GnssEnds, vars, loopVars, taskVars, linkVars
<1> QED BY <1>1, <1>2, <1>4, <1>5, <1>6, <1>7, <1>8 DEF Next, Task, Broker

\* Over WiFi a client that is connecting or connected belongs to the settings in effect,
\* which enable MQTT, through every edit, loss of the session and failed attempt.
THEOREM WifiClientIsCurrent ==
  ASSUME Transport = "wifi"
  PROVE  Spec => []ClientMatchesSettings
<1>1. TypeOK /\ ClientMatchesSettings /\ [Next]_vars => ClientMatchesSettings'
  BY ClientStep
<1> QED BY <1>1, InitType, TypeStep, InitClient, PTL DEF Spec
=============================================================================
