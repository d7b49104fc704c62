--------------------------- MODULE SamplingEngine ---------------------------
(***************************************************************************)
(* The sampling pipeline (components/sampling_engine/sampling_engine.c):   *)
(* one scheduler task per bus reads the sensors that are due and queues    *)
(* the samples; the aggregation task folds them into one window per        *)
(* variable and, when the window's log interval has passed, publishes it   *)
(* to every sink queue without ever waiting.  Configuration edits arrive   *)
(* between any two steps; each task notices them through the generation.   *)
(*                                                                         *)
(* Ids are handed out in increasing order and deletions keep the order, so *)
(* the variable list is a function from ids and is scanned by increasing   *)
(* id.  A window holds its samples themselves instead of the running       *)
(* statistics the code folds them into.                                    *)
(***************************************************************************)
EXTENDS Integers, Sequences, FiniteSets, SequencesExt, FiniteSetsExt

CONSTANTS
    Ids,            \* variable ids
    Buses,          \* bus_type_t: sdi12 and i2c
    Defs,           \* definitions: [bus, enabled, sample (interval), log (interval), kind]
    Responsive,     \* buses whose driver always returns from a read
    Sinks,          \* registered result queues: sd, mqtt, ...
    QueueSize,      \* length of s_sample_queue (32 in the code)
    SinkSize,       \* length of a sink queue (16 or 32 in the code)
    InitialVars,    \* the variables configured at boot
    Files,          \* configuration files that can be restored: [generation, vars]
    MaxTime,        \* bound of the model on time, in scheduler ticks
    MaxEdits,       \* bound of the model on configuration edits and restored files
    MaxSamples      \* bound of the model on the samples taken

ASSUME EngineAssumption ==
    /\ Ids \subseteq Nat \ {0} /\ IsFiniteSet(Ids)
    /\ Responsive \subseteq Buses
    /\ Defs \subseteq [bus : Buses, enabled : BOOLEAN, sample : Nat, log : Nat, kind : STRING]
    /\ QueueSize \in Nat \ {0} /\ SinkSize \in Nat \ {0}
    /\ \E S \in SUBSET Ids : InitialVars \in [S -> Defs]
    /\ \A f \in Files : f.generation \in Nat /\ \E S \in SUBSET Ids : f.vars \in [S -> Defs]
    /\ MaxTime \in Nat /\ MaxEdits \in Nat /\ MaxSamples \in Nat

NoEpoch == -1                       \* UINT32_MAX: no generation seen yet
NoSample == [id |-> 0, n |-> 0]

VARIABLES
    now,            \* esp_timer_get_time, in ticks
    generation,     \* config_store's generation
    vars_cfg,       \* config_store's variables: a function from ids to definitions
    sched,          \* per bus: [pc, polled, seen, vars, scanAt, due, todo]
    s_sample_queue,
    agg,            \* aggregation task: [pc, polled, seen, msg]
    s_agg_table,    \* open windows: id -> [def, acc, due]
    s_sinks,        \* per sink: the queued results, as positions in published
    past,           \* history: the generations before the current one, in order
    published,      \* history: the published results, in order
    taken,          \* history: number of samples read
    lost            \* history: the samples that reached no window

vars == <<now, generation, vars_cfg, sched, s_sample_queue, agg, s_agg_table,
          s_sinks, past, published, taken, lost>>

config == <<generation, vars_cfg, past>>

-----------------------------------------------------------------------------
(* The environment: time, and the configuration edited through the portal *)

Tick ==
    /\ now < MaxTime
    /\ now' = now + 1
    /\ UNCHANGED <<config, sched, s_sample_queue, agg, s_agg_table,
                   s_sinks, published, taken, lost>>

\* The generation becomes g, of this edit or of this file.
NewGeneration(g) ==
    /\ Len(past) < MaxEdits
    /\ generation' = g
    /\ past' = Append(past, generation)

\* A mutator of config_store other than config_store_replace_all: a variable
\* added or redefined, one deleted, or settings that leave the variables alone.
\* The id added may be one deleted before: a restored file moves s_next_var_id back.
EditConfig ==
    /\ NewGeneration(generation + 1)
    /\ \/ \E id \in Ids, d \in Defs :
             vars_cfg' = [i \in DOMAIN vars_cfg \cup {id} |-> IF i = id THEN d ELSE vars_cfg[i]]
       \/ \E id \in DOMAIN vars_cfg :
             vars_cfg' = [i \in DOMAIN vars_cfg \ {id} |-> vars_cfg[i]]
       \/ UNCHANGED vars_cfg
    /\ UNCHANGED <<now, sched, s_sample_queue, agg, s_agg_table, s_sinks, published, taken, lost>>

\* config_store_replace_all, from import_handler: the variables of the file, exported
\* by this device or by another one, replace all those there are, and the
\* generation is the file's plus one, whatever it was before.
RestoreFile ==
    /\ \E f \in Files : NewGeneration(f.generation + 1) /\ vars_cfg' = f.vars
    /\ UNCHANGED <<now, sched, s_sample_queue, agg, s_agg_table, s_sinks, published, taken, lost>>

-----------------------------------------------------------------------------
(* bus_scheduler_task *)

\* config_store_get_generation, at the start of a turn.
SchedPoll(b) ==
    /\ sched[b].pc = "sleep"
    /\ sched' = [sched EXCEPT ![b].pc = "polled", ![b].polled = generation]
    /\ UNCHANGED <<now, config, s_sample_queue, agg, s_agg_table,
                   s_sinks, published, taken, lost>>

\* The schedule of bus b built from scratch: every variable of the bus is due.
Rebuilt(b) == [id \in {i \in DOMAIN vars_cfg : vars_cfg[i].bus = b} |-> now]

\* Mutant of Due: the search for the schedule entry stops at the first one.
DueFirstEntry(b, due) ==
    {id \in DOMAIN vars_cfg \cap DOMAIN due :
        /\ vars_cfg[id].bus = b /\ vars_cfg[id].enabled /\ due[id] <= now
        /\ id = Min(DOMAIN due)}

\* The variables of the scan that are enabled, scheduled and due.
Due(b, due) ==
    {id \in DOMAIN vars_cfg \cap DOMAIN due :
        vars_cfg[id].bus = b /\ vars_cfg[id].enabled /\ due[id] <= now}

\* A scan that began at scanAt has the variables todo left; when none is left the
\* task sleeps, and its copies of the generation and variables are gone.
Scanning(seen, variables, scanAt, due, todo) ==
    IF todo = {}
    THEN [pc |-> "sleep", polled |-> NoEpoch, seen |-> seen, vars |-> <<>>, scanAt |-> 0,
          due |-> due, todo |-> {}]
    ELSE [pc |-> "scan", polled |-> NoEpoch, seen |-> seen, vars |-> variables, scanAt |-> scanAt,
          due |-> due, todo |-> todo]

\* config_store_get_variables and the start of the scan.
SchedScan(b) ==
    /\ sched[b].pc = "polled"
    /\ LET due == IF sched[b].polled # sched[b].seen THEN Rebuilt(b) ELSE sched[b].due
       IN  sched' = [sched EXCEPT ![b] =
                        Scanning(sched[b].polled, vars_cfg, now, due, Due(b, due))]
    /\ UNCHANGED <<now, config, s_sample_queue, agg, s_agg_table,
                   s_sinks, published, taken, lost>>

\* One due variable of the scan: its next due time is set first, then the bus
\* driver is called; there may be no driver, or the read may fail.
SchedRead(b) ==
    /\ sched[b].pc = "scan"
    /\ LET id  == Min(sched[b].todo)
           def == sched[b].vars[id]
           due == [sched[b].due EXCEPT ![id] = sched[b].scanAt + def.sample]
       IN  /\ sched' = [sched EXCEPT ![b] = Scanning(@.seen, @.vars, @.scanAt, due, @.todo \ {id})]
           /\ \/ UNCHANGED <<s_sample_queue, taken, lost>>      \* no driver or read error
              \/ /\ taken < MaxSamples
                 /\ taken' = taken + 1
                 /\ IF Len(s_sample_queue) < QueueSize
                    THEN /\ s_sample_queue' =
                              Append(s_sample_queue, [id |-> id, n |-> taken', def |-> def])
                         /\ UNCHANGED lost
                    ELSE /\ lost' = lost \cup {taken'}
                         /\ UNCHANGED s_sample_queue
    /\ UNCHANGED <<now, config, agg, s_agg_table, s_sinks, published>>

-----------------------------------------------------------------------------
(* aggregation_task *)

\* Mutant of AggWake: the message is looked at but not taken off the queue.
AggWakePeek ==
    /\ agg.pc = "wait"
    /\ agg' = [agg EXCEPT !.pc = "woken", !.polled = generation,
                          !.msg = IF s_sample_queue = <<>> THEN NoSample ELSE Head(s_sample_queue)]
    /\ UNCHANGED <<now, config, sched, s_sample_queue, s_agg_table, s_sinks,
                   published, taken, lost>>

\* A sample arrives, or the wait for one times out; then the generation is read.
AggWake ==
    /\ agg.pc = "wait"
    /\ IF s_sample_queue = <<>>
       THEN /\ agg' = [agg EXCEPT !.pc = "woken", !.polled = generation, !.msg = NoSample]
            /\ UNCHANGED s_sample_queue
       ELSE /\ agg' = [agg EXCEPT !.pc = "woken", !.polled = generation,
                                  !.msg = Head(s_sample_queue)]
            /\ s_sample_queue' = Tail(s_sample_queue)
    /\ UNCHANGED <<now, config, sched, s_agg_table, s_sinks, published, taken, lost>>

\* Mutant of RebuiltTable: every window starts over.
RebuiltFresh ==
    [id \in {i \in DOMAIN vars_cfg : vars_cfg[i].enabled} |->
        [def |-> vars_cfg[id], acc |-> <<>>, due |-> now + vars_cfg[id].log]]

\* Mutant of RebuiltTable: a surviving entry keeps its old name and mask too.
RebuiltOldLabels ==
    [id \in {i \in DOMAIN vars_cfg : vars_cfg[i].enabled} |->
        IF id \in DOMAIN s_agg_table THEN s_agg_table[id]
        ELSE [def |-> vars_cfg[id], acc |-> <<>>, due |-> now + vars_cfg[id].log]]

\* rebuild_agg_table: the enabled variables; an open window survives under its id.
RebuiltTable ==
    [id \in {i \in DOMAIN vars_cfg : vars_cfg[i].enabled} |->
        IF id \in DOMAIN s_agg_table
        THEN [s_agg_table[id] EXCEPT !.def = vars_cfg[id]]
        ELSE [def |-> vars_cfg[id], acc |-> <<>>, due |-> now + vars_cfg[id].log]]

\* Mutant of CurrentTable: the generation is compared on a timeout only.
TableAfterTimeout ==
    IF agg.polled # agg.seen /\ agg.msg = NoSample THEN RebuiltTable ELSE s_agg_table

CurrentTable == IF agg.polled # agg.seen THEN RebuiltTable ELSE s_agg_table

\* find_agg_entry and aggregator_add_sample.
Folded(table, msg) ==
    IF msg.id \in DOMAIN table THEN [table EXCEPT ![msg.id].acc = Append(@, msg)] ELSE table

\* The entries that are due and have data, by increasing id.
Closing(table) == {id \in DOMAIN table : table[id].due <= now /\ table[id].acc # <<>>}
ById(S) ==
    CHOOSE s \in [1..Cardinality(S) -> S] : \A i, j \in 1..Cardinality(S) : i < j => s[i] < s[j]

Results(table) ==
    LET ids == ById(Closing(table))
    IN  [k \in 1..Cardinality(Closing(table)) |->
            [id |-> ids[k], def |-> table[ids[k]].def, acc |-> table[ids[k]].acc]]

\* Mutant of Reopened: the accumulator is not reset.
ReopenedKeepingData(table) ==
    [id \in DOMAIN table |->
        IF table[id].due <= now THEN [table[id] EXCEPT !.due = now + table[id].def.log] ELSE table[id]]

\* Every due entry starts a new window, with or without data.
Reopened(table) ==
    [id \in DOMAIN table |->
        IF table[id].due <= now
        THEN [table[id] EXCEPT !.acc = <<>>, !.due = now + table[id].def.log] ELSE table[id]]

\* Mutant of Publish: the room in a sink is not checked.
PublishUnbounded(results) ==
    /\ published' = published \o results
    /\ s_sinks' = [k \in Sinks |-> s_sinks[k] \o [i \in 1..Len(results) |-> Len(published) + i]]

\* Mutant of Publish: the aggregator waits for room in every sink.
PublishWaiting(results) ==
    /\ \A k \in Sinks : Len(s_sinks[k]) + Len(results) <= SinkSize
    /\ PublishUnbounded(results)

\* publish_result: a copy to every sink; a sink that is full loses it.
Publish(results) ==
    /\ published' = published \o results
    /\ s_sinks' = [k \in Sinks |->
          LET q == s_sinks[k] \o [i \in 1..Len(results) |-> Len(published) + i]
          IN  SubSeq(q, 1, IF Len(q) < SinkSize THEN Len(q) ELSE SinkSize)]

Serials(s) == {s[i].n : i \in 1..Len(s)}
InTable(table) == UNION {Serials(table[id].acc) : id \in DOMAIN table}

AggRun ==
    /\ agg.pc = "woken"
    /\ LET folded == Folded(CurrentTable, agg.msg)
       IN  /\ s_agg_table' = Reopened(folded)
           /\ Publish(Results(folded))
           /\ lost' = lost \cup ((InTable(s_agg_table) \cup ({agg.msg.n} \ {0})) \ InTable(folded))
    /\ agg' = [agg EXCEPT !.pc = "wait", !.polled = NoEpoch, !.seen = agg.polled, !.msg = NoSample]
    /\ UNCHANGED <<now, config, sched, s_sample_queue, taken>>

-----------------------------------------------------------------------------
\* A consumer (sd_writer_task, mqtt_publish_task) takes a result.
Drain(k) ==
    /\ s_sinks[k] # <<>>
    /\ s_sinks' = [s_sinks EXCEPT ![k] = Tail(@)]
    /\ UNCHANGED <<now, config, sched, s_sample_queue, agg, s_agg_table,
                   published, taken, lost>>

Init ==
    /\ now = 0 /\ generation = 0 /\ past = <<>>
    /\ vars_cfg = InitialVars
    /\ sched = [b \in Buses |-> [pc |-> "sleep", polled |-> NoEpoch, seen |-> NoEpoch,
                                 vars |-> <<>>, scanAt |-> 0, due |-> <<>>, todo |-> {}]]
    /\ s_sample_queue = <<>>
    /\ agg = [pc |-> "wait", polled |-> NoEpoch, seen |-> NoEpoch, msg |-> NoSample]
    /\ s_agg_table = <<>>
    /\ s_sinks = [k \in Sinks |-> <<>>]
    /\ published = <<>> /\ taken = 0 /\ lost = {}

Sched(b) == SchedPoll(b) \/ SchedScan(b) \/ SchedRead(b)
Aggregation == AggWake \/ AggRun

Next ==
    \/ Tick \/ EditConfig \/ RestoreFile
    \/ \E b \in Buses : Sched(b)
    \/ Aggregation
    \/ \E k \in Sinks : Drain(k)

Spec == Init /\ [][Next]_vars

\* Time passes, the aggregation task and the schedulers of responsive buses run
\* for ever; no consumer is obliged to drain its queue, no other bus to answer.
LiveSpec ==
    /\ Spec
    /\ WF_vars(Tick) /\ WF_vars(Aggregation)
    /\ \A b \in Responsive : WF_vars(Sched(b))

-----------------------------------------------------------------------------
(* Properties *)

Sample == [id : Ids, n : Nat, def : Defs]
Window == [def : Defs, acc : Seq(Sample), due : Nat]

\* Every variable has its type; the queues stay within their lengths.
TypeOK ==
    /\ now \in 0..MaxTime /\ generation \in Nat /\ past \in Seq(Nat)
    /\ DOMAIN vars_cfg \subseteq Ids /\ \A id \in DOMAIN vars_cfg : vars_cfg[id] \in Defs
    /\ \A b \in Buses : /\ sched[b].pc \in {"sleep", "polled", "scan"}
                        /\ sched[b].pc = "scan" <=> sched[b].todo # {}
                        /\ sched[b].todo \subseteq DOMAIN sched[b].vars
    /\ s_sample_queue \in Seq(Sample) /\ Len(s_sample_queue) <= QueueSize
    /\ agg.pc \in {"wait", "woken"} /\ agg.msg \in Sample \cup {NoSample}
    /\ DOMAIN s_agg_table \subseteq Ids
    /\ \A id \in DOMAIN s_agg_table : s_agg_table[id] \in Window
    /\ \A k \in Sinks : Len(s_sinks[k]) <= SinkSize
    /\ taken \in 0..MaxSamples /\ lost \subseteq 1..taken

\* The samples of the ledger: on their way or in an open window, and published.
Pending == Serials(s_sample_queue) \cup ({agg.msg.n} \ {0}) \cup InTable(s_agg_table)
Reported == UNION {Serials(published[i].acc) : i \in 1..Len(published)}

Ledger == INSTANCE SampleLedger WITH pending <- Pending, reported <- Reported

\* The pipeline implements the ledger: every sample is pending, in exactly one
\* published window, or lost, and never leaves a published window.
LedgerSpec == Ledger!Spec

\* What a result, or after the last one the open window, has of a variable.
WindowOf(id, p) ==
    IF p <= Len(published) THEN IF published[p].id = id THEN published[p].acc ELSE <<>>
    ELSE IF id \in DOMAIN s_agg_table THEN s_agg_table[id].acc ELSE <<>>

Increasing(s) == \A i, j \in 1..Len(s) : i < j => s[i].n < s[j].n
Before(s, t) == \A i \in 1..Len(s), j \in 1..Len(t) : s[i].n < t[j].n
Waiting == {agg.msg} \cup {s_sample_queue[i] : i \in 1..Len(s_sample_queue)}

\* The samples of a variable reach its windows in the order they were taken,
\* each at most once, and no other variable's sample among them.
WindowsInOrder ==
    /\ Increasing(s_sample_queue) /\ Before(<<agg.msg>>, s_sample_queue)
    /\ \A id \in Ids, p \in 1..(Len(published) + 1) :
          LET acc == WindowOf(id, p)
          IN  /\ Increasing(acc) /\ \A i \in 1..Len(acc) : acc[i].id = id
              /\ \A q \in (p + 1)..(Len(published) + 1) : Before(acc, WindowOf(id, q))
              /\ \A s \in Waiting : s.id = id => Before(acc, <<s>>)

Enabled(id) == id \in DOMAIN vars_cfg /\ vars_cfg[id].enabled

AggTurn == agg.pc = "woken" /\ agg'.pc = "wait"

\* No generation number has stood for two configurations since boot.  The mutators
\* never repeat one; a restored file may bring back one that a task has acted on.
NumbersTellApart ==
    LET all == Append(past, generation)
    IN  \A i, j \in 1..Len(all) : i # j => all[i] # all[j]

\* The aggregator's turn acts on the configuration there is: no edit came since it
\* read the generation, and the generation says so.
Informed == AggTurn /\ agg.polled = generation /\ NumbersTellApart

\* The first sample of a variable just added or enabled is not thrown away for
\* want of a table entry, although scheduler and aggregator learn of the edit
\* at different times: the aggregator polls after it has taken the message.  Not so
\* once a restored file has repeated a generation (config_store.c:606): the table
\* is then not rebuilt and the sample is lost.
FreshSampleFolded ==
    [][Informed /\ Enabled(agg.msg.id) => agg.msg.n \notin lost']_vars

\* An edit never costs a variable that stays enabled the samples of its open
\* window ("preserve in-flight accumulation across unrelated config edits").
RebuildKeepsWindows ==
    [][\A id \in DOMAIN s_agg_table : Enabled(id) => Serials(s_agg_table[id].acc) \cap lost' = {}]_vars

\* Unless an edit came between the poll and the turn, or a restored file has
\* repeated a generation, what is published is labelled with the current
\* definition of an enabled variable: no result of a variable whose deletion, by
\* hand or by a restored file, the task has seen.
LabelsAreCurrent ==
    [][Informed =>
          \A i \in (Len(published) + 1)..Len(published') :
              Enabled(published'[i].id) /\ published'[i].def = vars_cfg[published'[i].id]]_vars

\* A window with data whose due time has passed is closed, even if no sink is ever
\* drained and no bus answers.
WindowsClose ==
    \A id \in Ids :
        LET overdue == /\ id \in DOMAIN s_agg_table /\ s_agg_table[id].acc # <<>>
                       /\ s_agg_table[id].due <= now
        IN  overdue ~> ~overdue

\* Once editing stops, and no generation was repeated, every enabled variable of
\* a bus that answers is sampled up to the end, whatever the other bus does.
BusesAreIndependent ==
    \A b \in Responsive, id \in Ids :
        (Len(past) = MaxEdits /\ NumbersTellApart /\ Enabled(id) /\ vars_cfg[id].bus = b)
           ~> (id \in DOMAIN sched[b].due /\ sched[b].due[id] > MaxTime)

=============================================================================
