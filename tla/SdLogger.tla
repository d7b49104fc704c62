------------------------------ MODULE SdLogger ------------------------------
(***************************************************************************)
(* The SD card writer (components/sd_logger/sd_logger.c).  sd_writer_task  *)
(* takes one result at a time off its sink queue.  In the LONG format each *)
(* result is a row of its own; in the wide formats the results of the      *)
(* variables that share a log interval are assembled into one pending row  *)
(* per group, which is flushed when it is complete, when a member reports  *)
(* again, when the configuration changes or when it is too old.            *)
(*                                                                         *)
(* A result is its serial number, its variable and the day of its time     *)
(* stamp; a variable's columns (name, unit, aggregates) are one value.     *)
(***************************************************************************)
EXTENDS Integers, Sequences, FiniteSets, SequencesExt, FiniteSetsExt

CONSTANTS
    Ids,            \* variable ids
    Columns,        \* what a variable's columns are: name, unit and aggregate mask
    Intervals,      \* log intervals in use
    Formats,        \* values of log_format in use, of "long", "simple", "toa5"
    Days,           \* days of time stamps (unsynchronised results all fall on 1970-01-01)
    QueueLen,       \* RESULT_QUEUE_LEN (32 in the code)
    PositionLen,    \* POSITION_QUEUE_LEN (4 in the code)
    MaxGroups,      \* MAX_INTERVAL_GROUPS (8 in the code)
    SignatureLen,   \* how many members' columns fit the 2048 byte signature
    Grace,          \* GROUP_TIMEOUT_GRACE_MS
    InitialVars,    \* the variables configured at boot
    MaxTime,        \* bound of the model on time
    MaxGeneration,  \* bound of the model on configuration edits
    MaxResults      \* bound of the model on the results and positions produced

Definition == [enabled : BOOLEAN, log : Intervals, cols : Columns]
Result == [n : Nat, id : Ids, day : Days]

ASSUME LoggerAssumption ==
    /\ Ids \subseteq Nat /\ IsFiniteSet(Ids)                \* uint16_t
    /\ Intervals \subseteq Nat \ {0} /\ IsFiniteSet(Intervals)
    /\ \E S \in SUBSET Ids : InitialVars \in [S -> Definition]
    /\ Formats \subseteq {"long", "simple", "toa5"} /\ Formats # {}
    /\ QueueLen \in Nat /\ PositionLen \in Nat
    /\ MaxGroups \in Nat \ {0} /\ SignatureLen \in Nat
    /\ Grace \in Nat
    /\ MaxTime \in Nat /\ MaxGeneration \in Nat /\ MaxResults \in Nat

NoEpoch  == -1      \* UINT32_MAX: no generation seen yet
NoRow    == -1      \* pending_row_started_us = 0: no pending row
NoResult == [n |-> 0]

VARIABLES
    now,                    \* esp_timer_get_time
    generation,             \* config_store's generation
    vars_cfg,               \* config_store's variables: a function from ids
    log_format,             \* config_store's sd settings
    mixed,                  \* history: the files there were when the wide format changed
    s_queue,                \* results from the sampling engine
    s_position_queue,       \* position rows from the GNSS task
    pc,                     \* where sd_writer_task is
    hand,                   \* the result being handled, or NoResult
    polled,                 \* the generation read in rebuild_groups_if_needed
    s_groups_generation,
    s_groups,               \* log interval -> [cols, vals, started]
    files,                  \* the wide files: [log, sig, day] -> [fmt, cols, rows]
    serial,                 \* history: number of results and positions produced
    written,                \* history: those that are in a file
    dropped                 \* history: those that are in none and never will be

queueVars  == <<s_queue, s_position_queue, serial>>
configVars == <<generation, vars_cfg, log_format, mixed>>
groupVars  == <<s_groups, s_groups_generation, polled>>
cardVars   == <<files, written, dropped>>
vars == <<now, configVars, queueVars, pc, hand, groupVars, cardVars>>

-----------------------------------------------------------------------------
(* The environment: time, portal edits, the producers of rows *)

Tick ==
    /\ now < MaxTime
    /\ now' = now + 1
    /\ UNCHANGED <<configVars, queueVars, pc, hand, groupVars, cardVars>>

\* write_group_header and write_group_data_row branch on toa5; all else is simple.
WideFormat == IF log_format = "toa5" THEN "toa5" ELSE "simple"

\* A variable is added, redefined or deleted, or the format is changed.
EditConfig ==
    /\ generation < MaxGeneration
    /\ generation' = generation + 1
    /\ \/ /\ \/ \E id \in Ids, d \in Definition :
                   vars_cfg' = [i \in DOMAIN vars_cfg \cup {id} |-> IF i = id THEN d ELSE vars_cfg[i]]
             \/ \E id \in DOMAIN vars_cfg :
                   vars_cfg' = [i \in DOMAIN vars_cfg \ {id} |-> vars_cfg[i]]
          /\ UNCHANGED <<log_format, mixed>>
       \/ /\ log_format' \in Formats
          /\ mixed' = IF WideFormat' = WideFormat THEN mixed ELSE mixed \cup DOMAIN files
          /\ UNCHANGED vars_cfg
    /\ UNCHANGED <<now, queueVars, pc, hand, groupVars, cardVars>>

\* publish_result of the sampling engine: a full queue loses the result.
PublishResult(id, day) ==
    /\ serial < MaxResults
    /\ serial' = serial + 1
    /\ IF Len(s_queue) < QueueLen
       THEN /\ s_queue' = Append(s_queue, [n |-> serial', id |-> id, day |-> day])
            /\ UNCHANGED dropped
       ELSE /\ dropped' = dropped \cup {serial'}
            /\ UNCHANGED s_queue
    /\ UNCHANGED <<now, configVars, s_position_queue, pc, hand, groupVars, files, written>>

\* sd_logger_log_position
LogPosition ==
    /\ serial < MaxResults
    /\ serial' = serial + 1
    /\ IF Len(s_position_queue) < PositionLen
       THEN /\ s_position_queue' = Append(s_position_queue, serial')
            /\ UNCHANGED dropped
       ELSE /\ dropped' = dropped \cup {serial'}
            /\ UNCHANGED s_position_queue
    /\ UNCHANGED <<now, configVars, s_queue, pc, hand, groupVars, files, written>>

-----------------------------------------------------------------------------
(* Rows and files *)

\* write_result_row, write_position_row: the row is appended or dropped.
WriteRow(n) ==
    /\ \/ /\ written' = written \cup {n}
          /\ UNCHANGED dropped
       \/ /\ dropped' = dropped \cup {n}
          /\ UNCHANGED written
    /\ UNCHANGED files

\* The members of a group in the order of their columns.
Members(g) == SetToSortSeq(DOMAIN g.cols, LAMBDA i, j : i < j)
Header(g) == [k \in 1..Cardinality(DOMAIN g.cols) |-> g.cols[Members(g)[k]]]

\* Mutant of Signature: the members that have a value instead of all of them.
SignatureOfValues(g) == [k \in 1..Cardinality(DOMAIN g.vals) |->
                            g.cols[SetToSortSeq(DOMAIN g.vals, LAMBDA i, j : i < j)[k]]]

\* build_column_signature: truncated when the buffer is full.
Signature(g) == SubSeq(Header(g), 1, Min({Len(Header(g)), SignatureLen}))

\* build_group_path, on the time stamp of the first member that has a value.  The
\* format is no part of the name.
Path(l, g) == [log |-> l, sig |-> Signature(g), day |-> g.vals[Min(DOMAIN g.vals)].day]

\* The format decides on the columns before those of the members: time stamp,
\* time_synced and record number, or time stamp and record number (toa5).
Row(g) == [fmt |-> WideFormat, cols |-> Header(g), cells |-> [id \in DOMAIN g.vals |-> g.vals[id].n]]

\* Appending a row: a new file gets the header of the moment.
Appended(path, row) ==
    IF path \in DOMAIN files
    THEN [files EXCEPT ![path].rows = Append(@, row)]
    ELSE [p \in DOMAIN files \cup {path} |->
             IF p = path THEN [fmt |-> row.fmt, cols |-> row.cols, rows |-> <<row>>] ELSE files[p]]

CellsOf(g) == {g.vals[id].n : id \in DOMAIN g.vals}

\* Mutant of FlushRow: a flushed row leaves the start time behind.
FlushRowKeepingStart(l, g) ==
    /\ g.vals # <<>>
    /\ files' = Appended(Path(l, g), Row(g))
    /\ s_groups' = [s_groups EXCEPT ![l] = [g EXCEPT !.vals = <<>>]]
    /\ written' = written \cup CellsOf(g)
    /\ UNCHANGED dropped

\* Mutant of FlushRow: the members keep their values when the file cannot be opened.
FlushRowKeepingValues(l, g) ==
    /\ g.vals # <<>>
    /\ \/ /\ files' = Appended(Path(l, g), Row(g))
          /\ written' = written \cup CellsOf(g)
          /\ UNCHANGED dropped
       \/ /\ dropped' = dropped \cup CellsOf(g)
          /\ UNCHANGED <<files, written>>
    /\ s_groups' = [s_groups EXCEPT ![l] = [g EXCEPT !.started = NoRow]]

\* flush_group_row(g): the row goes to its file unless that cannot be opened;
\* the members are emptied either way.
FlushRow(l, g) ==
    LET emptied == [g EXCEPT !.vals = <<>>, !.started = NoRow] IN
    \/ /\ g.vals # <<>>
       /\ files' = Appended(Path(l, g), Row(g))
       /\ s_groups' = [s_groups EXCEPT ![l] = emptied]
       /\ written' = written \cup CellsOf(g)
       /\ UNCHANGED dropped
    \/ /\ g.vals # <<>>                                    \* fopen fails
       /\ dropped' = dropped \cup CellsOf(g)
       /\ s_groups' = [s_groups EXCEPT ![l] = emptied]
       /\ UNCHANGED <<files, written>>
    \/ /\ g.vals = <<>>                                    \* any_value is false
       /\ s_groups' = [s_groups EXCEPT ![l] = emptied]
       /\ UNCHANGED cardVars

-----------------------------------------------------------------------------
(* sd_writer_task *)

\* Mutant of Receive: timeouts are looked at after a result only.
ReceiveAgain ==
    /\ pc = "receive" /\ s_queue # <<>>
    /\ hand' = Head(s_queue)
    /\ s_queue' = Tail(s_queue)
    /\ pc' = IF log_format = "long" THEN "long" ELSE "wide"
    /\ UNCHANGED <<now, configVars, s_position_queue, serial, groupVars, cardVars>>

\* Mutant of Receive: the latest result is taken first.
ReceiveLatest ==
    /\ pc = "receive"
    /\ IF s_queue = <<>>
       THEN /\ pc' = "timeouts"
            /\ UNCHANGED <<s_queue, hand>>
       ELSE /\ hand' = Last(s_queue)
            /\ s_queue' = Front(s_queue)
            /\ pc' = IF log_format = "long" THEN "long" ELSE "wide"
    /\ UNCHANGED <<now, configVars, s_position_queue, serial, groupVars, cardVars>>

\* A result arrives and the format is read, or the wait times out.
Receive ==
    /\ pc = "receive"
    /\ IF s_queue = <<>>
       THEN /\ pc' = "timeouts"
            /\ UNCHANGED <<s_queue, hand>>
       ELSE /\ hand' = Head(s_queue)
            /\ s_queue' = Tail(s_queue)
            /\ pc' = IF log_format = "long" THEN "long" ELSE "wide"
    /\ UNCHANGED <<now, configVars, s_position_queue, serial, groupVars, cardVars>>

WriteLong ==
    /\ pc = "long"
    /\ WriteRow(hand.n)
    /\ hand' = NoResult
    /\ pc' = "timeouts"
    /\ UNCHANGED <<now, configVars, queueVars, groupVars>>

\* rebuild_groups_if_needed: config_store_get_generation
PollGeneration ==
    /\ pc = "wide"
    /\ polled' = generation
    /\ pc' = IF generation = s_groups_generation THEN "handle" ELSE "flush_all"
    /\ UNCHANGED <<now, configVars, queueVars, hand, s_groups, s_groups_generation, cardVars>>

Pending == {l \in DOMAIN s_groups : s_groups[l].started # NoRow}

\* flush_all_groups, one group at a time.
FlushAll ==
    /\ pc = "flush_all"
    /\ \E l \in Pending : FlushRow(l, s_groups[l])
    /\ UNCHANGED <<now, configVars, queueVars, pc, hand, s_groups_generation, polled>>

\* The enabled variables that use log interval l.
Sharing(l) == {id \in DOMAIN vars_cfg : vars_cfg[id].enabled /\ vars_cfg[id].log = l}

\* Mutant of Grouped: one group too many.
GroupedOneMore ==
    LET used == {l \in Intervals : Sharing(l) # {}}
    IN  {l \in used : Cardinality({k \in used : Min(Sharing(k)) < Min(Sharing(l))}) <= MaxGroups}

\* The first MAX_INTERVAL_GROUPS log intervals, by order of first use.
Grouped ==
    LET used == {l \in Intervals : Sharing(l) # {}}
    IN  {l \in used : Cardinality({k \in used : Min(Sharing(k)) < Min(Sharing(l))}) < MaxGroups}

\* Mutant of Rebuild: the pending rows are not flushed first.
RebuildOverRows ==
    /\ pc = "flush_all"
    /\ s_groups' = [l \in Grouped |-> [cols |-> [id \in Sharing(l) |-> vars_cfg[id].cols],
                                       vals |-> <<>>, started |-> NoRow]]
    /\ s_groups_generation' = polled
    /\ pc' = "handle"
    /\ UNCHANGED <<now, configVars, queueVars, hand, polled, cardVars>>

\* The rest of rebuild_groups_if_needed: config_store_get_variables and new groups.
Rebuild ==
    /\ pc = "flush_all" /\ Pending = {}
    /\ s_groups' = [l \in Grouped |-> [cols |-> [id \in Sharing(l) |-> vars_cfg[id].cols],
                                       vals |-> <<>>, started |-> NoRow]]
    /\ s_groups_generation' = polled
    /\ pc' = "handle"
    /\ UNCHANGED <<now, configVars, queueVars, hand, polled, cardVars>>

\* The rest of handle_wide_result, up to the flush of a row that is started over.
Find ==
    /\ pc = "handle"
    /\ \/ /\ \A l \in DOMAIN s_groups : hand.id \notin DOMAIN s_groups[l].cols
          /\ dropped' = dropped \cup {hand.n}
          /\ hand' = NoResult
          /\ pc' = "timeouts"
          /\ UNCHANGED <<s_groups, files, written>>
       \/ \E l \in DOMAIN s_groups :
             /\ hand.id \in DOMAIN s_groups[l].cols
             /\ IF hand.id \in DOMAIN s_groups[l].vals
                THEN FlushRow(l, s_groups[l])
                ELSE UNCHANGED <<s_groups, cardVars>>
             /\ pc' = "store"
             /\ UNCHANGED hand
    /\ UNCHANGED <<now, configVars, queueVars, s_groups_generation, polled>>

\* The value is filed; a complete row is flushed at once.
Filed(g) ==
    [g EXCEPT !.vals = [id \in DOMAIN @ \cup {hand.id} |-> IF id = hand.id THEN hand ELSE @[id]],
              !.started = IF @ = NoRow THEN now ELSE @]

Store ==
    /\ pc = "store"
    /\ \E l \in DOMAIN s_groups :
          /\ hand.id \in DOMAIN s_groups[l].cols
          /\ LET g == Filed(s_groups[l])
             IN  IF DOMAIN g.vals = DOMAIN g.cols
                 THEN FlushRow(l, g)
                 ELSE /\ s_groups' = [s_groups EXCEPT ![l] = g]
                      /\ UNCHANGED cardVars
    /\ hand' = NoResult
    /\ pc' = "timeouts"
    /\ UNCHANGED <<now, configVars, queueVars, s_groups_generation, polled>>

TimedOut == {l \in Pending : now - s_groups[l].started > l + Grace}

\* check_group_timeouts, one group at a time.
CheckTimeouts ==
    /\ pc = "timeouts"
    /\ \/ /\ \E l \in TimedOut : FlushRow(l, s_groups[l])
          /\ UNCHANGED pc
       \/ /\ TimedOut = {}
          /\ pc' = "positions"
          /\ UNCHANGED <<s_groups, cardVars>>
    /\ UNCHANGED <<now, configVars, queueVars, hand, s_groups_generation, polled>>

\* The position rows that wait, one at a time.
DrainPositions ==
    /\ pc = "positions"
    /\ IF s_position_queue = <<>>
       THEN /\ pc' = "receive"
            /\ UNCHANGED <<s_position_queue, cardVars>>
       ELSE /\ WriteRow(Head(s_position_queue))
            /\ s_position_queue' = Tail(s_position_queue)
            /\ UNCHANGED pc
    /\ UNCHANGED <<now, configVars, s_queue, serial, hand, groupVars>>

\* A reset between two steps: RAM is lost, configuration and card stay.
Queued == {s_queue[i].n : i \in 1..Len(s_queue)} \cup {s_position_queue[i] : i \in 1..Len(s_position_queue)}
InHand == {hand.n} \ {0}
Assembled == UNION {CellsOf(s_groups[l]) : l \in DOMAIN s_groups}

Restart ==
    /\ dropped' = dropped \cup Queued \cup InHand \cup Assembled
    /\ s_queue' = <<>> /\ s_position_queue' = <<>> /\ hand' = NoResult
    /\ s_groups' = <<>> /\ s_groups_generation' = NoEpoch /\ polled' = NoEpoch
    /\ pc' = "receive"
    /\ UNCHANGED <<now, configVars, serial, files, written>>

-----------------------------------------------------------------------------
Init ==
    /\ now = 0
    /\ generation = 0 /\ vars_cfg = InitialVars /\ log_format \in Formats /\ mixed = {}
    /\ s_queue = <<>> /\ s_position_queue = <<>> /\ serial = 0
    /\ pc = "receive" /\ hand = NoResult
    /\ s_groups = <<>> /\ s_groups_generation = NoEpoch /\ polled = NoEpoch
    /\ files = <<>> /\ written = {} /\ dropped = {}

Writer ==
    Receive \/ WriteLong \/ PollGeneration \/ FlushAll \/ Rebuild \/ Find \/ Store
    \/ CheckTimeouts \/ DrainPositions

Produce == (\E id \in Ids, day \in Days : PublishResult(id, day)) \/ LogPosition

Next == Tick \/ EditConfig \/ Produce \/ Writer \/ Restart

Spec == Init /\ [][Next]_vars

\* The writer task and time go on; no producer ever has to deliver again.
LiveSpec == Spec /\ WF_vars(Writer) /\ WF_vars(Tick)

-----------------------------------------------------------------------------
(* Properties *)

\* Every variable has its type; the queues stay within their lengths.
TypeOK ==
    /\ now \in 0..MaxTime /\ generation \in 0..MaxGeneration /\ serial \in 0..MaxResults
    /\ log_format \in Formats
    /\ DOMAIN vars_cfg \subseteq Ids /\ \A id \in DOMAIN vars_cfg : vars_cfg[id] \in Definition
    /\ s_queue \in Seq(Result) /\ Len(s_queue) <= QueueLen
    /\ s_position_queue \in Seq(Nat) /\ Len(s_position_queue) <= PositionLen
    /\ pc \in {"receive", "long", "wide", "flush_all", "handle", "store", "timeouts", "positions"}
    /\ hand \in Result \cup {NoResult}
    /\ hand = NoResult <=> pc \in {"receive", "timeouts", "positions"}
    /\ DOMAIN s_groups \subseteq Intervals /\ Cardinality(DOMAIN s_groups) <= MaxGroups
    /\ \A l \in DOMAIN s_groups :
          LET g == s_groups[l] IN
          /\ DOMAIN g.cols \subseteq Ids /\ DOMAIN g.vals \subseteq DOMAIN g.cols
          /\ \A id \in DOMAIN g.vals : g.vals[id] \in Result /\ g.vals[id].id = id
          /\ g.started \in 0..now \cup {NoRow}
    /\ written \subseteq 1..serial /\ dropped \subseteq 1..serial

\* Every result and position handed to the logger is waiting, in exactly one
\* row of a file, or dropped, and a row once written stays: through format
\* changes, regroupings, failed writes and resets.
Ledger == INSTANCE SampleLedger
            WITH taken <- serial, pending <- Queued \cup InHand \cup Assembled,
                 reported <- written, lost <- dropped
LedgerSpec == Ledger!Spec

\* A group has a row start time exactly when a member has a value, so that the
\* timeout sees every row and no row starts with another's time; and a complete
\* row never waits.
PendingConsistent ==
    \A l \in DOMAIN s_groups :
        /\ s_groups[l].started = NoRow <=> s_groups[l].vals = <<>>
        /\ DOMAIN s_groups[l].vals # DOMAIN s_groups[l].cols

\* A row has the columns of its file's header whatever variables are edited and
\* whenever the device is reset (USER_MANUAL.md:555: "the hash changes
\* automatically if you edit which variables/aggregates feed that interval group,
\* so an older file's columns never get silently misaligned by a later edit"), and
\* the header's format too, unless the wide format was changed while the file was
\* there (sd_logger.c:208: the name stays the same).  Only columns that fit the
\* signature's buffer are told apart (sd_logger.c:193).
Fits(cols) == Len(cols) <= SignatureLen

ColumnsAligned ==
    \A p \in DOMAIN files : \A i \in 1..Len(files[p].rows) :
        LET row == files[p].rows[i]
        IN  /\ Fits(row.cols) /\ Fits(files[p].cols) => row.cols = files[p].cols
            /\ p \notin mixed => row.fmt = files[p].fmt

\* In a file the results of one variable stand in the order they were produced.
FilesInOrder ==
    \A p \in DOMAIN files :
        \A i, j \in 1..Len(files[p].rows) :
            i < j => \A id \in DOMAIN files[p].rows[i].cells \cap DOMAIN files[p].rows[j].cells :
                        files[p].rows[i].cells[id] < files[p].rows[j].cells[id]

\* A row older than its log interval and the grace period is flushed even if no
\* sensor of the group ever reports again.
RowsFlushed == \A l \in Intervals : l \in TimedOut ~> l \notin TimedOut

=============================================================================
