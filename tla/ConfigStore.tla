----------------------------- MODULE ConfigStore -----------------------------
(***************************************************************************)
(* The device configuration (components/config_store/config_store.c): one  *)
(* record in RAM behind a mutex, one JSON blob in NVS, and a generation    *)
(* counter that every other task polls to learn that it must reload.       *)
(*                                                                         *)
(* Every mutator takes s_mutex, changes s_config, bumps the generation,    *)
(* writes the whole record to NVS and releases the mutex, so it is one     *)
(* action here; \E ok stands for the outcome of nvs_save_blob.  The        *)
(* portal's HTTP server is a single task, so mutators never overlap.  The  *)
(* pollers are other tasks: they read the generation and fetch the         *)
(* configuration in two separate critical sections.                        *)
(***************************************************************************)
EXTENDS Integers, Sequences, FiniteSets

CONSTANTS
    Defs,           \* what a variable measures and how (variable_config_t minus its id)
    Groups,         \* the settings groups: mqtt, net, position, battery, sd, portal password
    Values,         \* the contents a settings group can have
    DefaultDef,     \* the definition of a factory-default variable
    DefaultValue,   \* the compiled-in default of every settings group
    SecretGroups,   \* the groups an export blanks: the portal password hash, and the
                    \* passwords and PIN, which count as groups of their own here
    Blank,          \* the content of a blanked group
    Pollers,        \* tasks that poll the generation: sdi12_sched, i2c_sched, aggregation, ...
    DefaultVars,    \* number of factory-default variables (3 in the code)
    MaxVariables,   \* MAX_VARIABLES (32 in the code)
    MaxGeneration,  \* bound of the model on the generation counter
    MaxUnsaved,     \* bound of the model on failed saves since the last that succeeded
    MaxId           \* bound of the model on s_next_var_id: UINT16_MAX is never passed

ASSUME StoreAssumption ==
    /\ DefaultDef \in Defs
    /\ DefaultValue \in Values /\ Blank \in Values
    /\ SecretGroups \subseteq Groups
    /\ MaxVariables \in Nat \ {0}
    /\ DefaultVars \in 0..MaxVariables
    /\ MaxGeneration \in Nat /\ MaxUnsaved \in Nat
    /\ MaxId \in Nat /\ MaxId > DefaultVars

NoBlob  == [blob |-> "absent"]
NoEpoch == -1                       \* UINT32_MAX: "no generation seen yet"

VARIABLES
    up,         \* the firmware is running (config_store_init has returned)
    s_config,   \* the configuration in RAM
    s_next_var_id,
    nvs,        \* the stored blob, or NoBlob
    seen,       \* seen[p]: the generation poller p believes it has applied
    view,       \* view[p]: the configuration poller p works with
    polled,     \* polled[p]: generation just read and not yet acted on, or NoEpoch
    backup,     \* the last configuration file downloaded from the portal, or NoBlob
    acked,      \* history: what a restart may bring back according to the store's
                \*          return codes: the last configuration reported saved or
                \*          found at boot, and those whose save was reported failed since
    usedIds,    \* history: the variable ids in use at any time since boot
    restored    \* history: a backup has been restored since boot

storeVars == <<s_config, s_next_var_id>>
pollVars  == <<seen, view, polled>>
histVars  == <<acked, usedIds, restored>>
vars == <<up, storeVars, nvs, pollVars, backup, histVars>>

Variable == [id : Nat, def : Defs]
Content(c) == [vars |-> c.vars, settings |-> c.settings]
Contents == [vars : Seq(Variable), settings : [Groups -> Values]]
Config == [vars : Seq(Variable), settings : [Groups -> Values], generation : Nat]

Ids(c) == {c.vars[i].id : i \in 1..Len(c.vars)}

-----------------------------------------------------------------------------
(* config_set_defaults *)
Defaults ==
    [vars       |-> [i \in 1..DefaultVars |-> [id |-> i, def |-> DefaultDef]],
     settings   |-> [g \in Groups |-> DefaultValue],
     generation |-> 0]

\* Mutant of IsNextId: the next id follows the number of variables, not the ids.
NextIdByCount(n, c) == n = Len(c.vars) + 1

\* The scan over the loaded variables that leaves s_next_var_id one above the
\* largest id (config_store_init and config_store_replace_all).
IsNextId(n, c) ==
    /\ n >= 1
    /\ \A i \in 1..Len(c.vars) : c.vars[i].id < n
    /\ n = 1 \/ \E i \in 1..Len(c.vars) : c.vars[i].id = n - 1

\* Mutant of Save: the error of nvs_commit is not passed on.
SaveUnchecked(c, ok) ==
    /\ nvs' \in IF ok THEN {c} ELSE {nvs, c}
    /\ acked' = {c}

\* save_locked and nvs_save_blob: the blob is replaced as a whole or not at
\* all.  A failure of nvs_set_str leaves the old blob; nvs_commit can fail after
\* nvs_set_str has stored the new one.
Save(c, ok) ==
    /\ ok \/ Cardinality(acked) <= MaxUnsaved
    /\ nvs' \in IF ok THEN {c} ELSE {nvs, c}
    /\ acked' = IF ok THEN {c} ELSE acked \cup {c}

Bump(c) == [c EXCEPT !.generation = @ + 1]

\* What every mutator does once its precondition holds: change the record in
\* RAM, bump the generation, save.  RAM keeps the change when the save fails.
Commit(c) ==
    /\ s_config' = c
    /\ \E ok \in BOOLEAN : Save(c, ok)
    /\ UNCHANGED <<up, pollVars, backup>>

Mutate(c) ==
    /\ s_config.generation < MaxGeneration
    /\ Commit(Bump(c))
    /\ UNCHANGED restored

-----------------------------------------------------------------------------
(* The mutators *)

\* Mutant of AddVariable: a new variable gets the lowest free id.
AddVariableLowestId(d) ==
    /\ up /\ Len(s_config.vars) < MaxVariables /\ s_next_var_id < MaxId
    /\ LET id == CHOOSE n \in 1..MaxId : n \notin Ids(s_config) /\ 1..(n - 1) \subseteq Ids(s_config)
       IN  /\ Mutate([s_config EXCEPT !.vars = Append(@, [id |-> id, def |-> d])])
           /\ usedIds' = usedIds \cup {id}
    /\ s_next_var_id' = s_next_var_id + 1

\* A full table refuses the variable.
AddVariable(d) ==
    /\ up /\ Len(s_config.vars) < MaxVariables /\ s_next_var_id < MaxId
    /\ Mutate([s_config EXCEPT !.vars = Append(@, [id |-> s_next_var_id, def |-> d])])
    /\ s_next_var_id' = s_next_var_id + 1
    /\ usedIds' = usedIds \cup {s_next_var_id}

\* The first variable with the id, if there is one.
IsFirst(i, id) ==
    /\ i \in 1..Len(s_config.vars) /\ s_config.vars[i].id = id
    /\ \A j \in 1..(i - 1) : s_config.vars[j].id # id

UpdateVariable(id, d) ==
    /\ up
    /\ \E i \in 1..Len(s_config.vars) :
          /\ IsFirst(i, id)
          /\ Mutate([s_config EXCEPT !.vars[i].def = d])
    /\ UNCHANGED <<s_next_var_id, usedIds>>

\* The entries behind the deleted one move down by one place.
DeleteVariable(id) ==
    /\ up
    /\ \E i \in 1..Len(s_config.vars) :
          /\ IsFirst(i, id)
          /\ Mutate([s_config EXCEPT !.vars =
                       [j \in 1..(Len(@) - 1) |-> IF j < i THEN @[j] ELSE @[j + 1]]])
    /\ UNCHANGED <<s_next_var_id, usedIds>>

\* Mutant of SetSettings: the generation is not bumped.
SetSettingsNoBump(g, v) ==
    /\ up /\ s_config.generation < MaxGeneration
    /\ Commit([s_config EXCEPT !.settings[g] = v])
    /\ UNCHANGED <<s_next_var_id, usedIds, restored>>

\* config_store_set_{mqtt,net,position,battery,sd}_settings and
\* config_store_set_portal_password
SetSettings(g, v) ==
    /\ up
    /\ Mutate([s_config EXCEPT !.settings[g] = v])
    /\ UNCHANGED <<s_next_var_id, usedIds>>

\* Mutant of Redacted: secrets are left out of the file instead of blanked.
RedactedByOmission(c) ==
    [c EXCEPT !.settings = [g \in Groups \ SecretGroups |-> @[g]]]

\* export_handler: secrets are blanked; the file carries the generation along
\* with the content.
Redacted(c) == [c EXCEPT !.settings = [g \in Groups |-> IF g \in SecretGroups THEN Blank ELSE @[g]]]

Export ==
    /\ up
    /\ backup' = Redacted(s_config)
    /\ UNCHANGED <<up, storeVars, nvs, pollVars, histVars>>

\* import_handler and config_store_replace_all: blank secrets are taken from
\* the running configuration; the generation that is bumped is the file's.  The file
\* is one this device has exported; what other files do to the tasks that poll is
\* SamplingEngine's RestoreFile.
Imported(b) ==
    [b EXCEPT !.settings = [g \in Groups |-> IF g \in SecretGroups /\ @[g] = Blank
                                             THEN s_config.settings[g] ELSE @[g]]]

Import ==
    /\ up /\ backup # NoBlob
    /\ backup.generation < MaxGeneration
    /\ Commit(Bump(Imported(backup)))
    /\ \E n \in 1..MaxId : IsNextId(n, s_config') /\ s_next_var_id' = n
    /\ usedIds' = usedIds \cup Ids(s_config')
    /\ restored' = TRUE

\* factory_reset_handler and config_store_factory_reset: NVS only, RAM untouched.
\* After a confirmed reset a reboot brings back the defaults, unless a mutator
\* saves RAM again before the reboot.
FactoryReset ==
    /\ up
    /\ \/ /\ nvs' = NoBlob
          /\ acked' = {Defaults}
       \/ /\ Cardinality(acked) <= MaxUnsaved
          /\ nvs' \in {nvs, NoBlob}
          /\ acked' = acked \cup {Defaults}
    /\ UNCHANGED <<up, storeVars, pollVars, backup, usedIds, restored>>

-----------------------------------------------------------------------------
(* Restart *)

\* The tasks start over with nothing seen.
PollersStart ==
    /\ seen' = [p \in Pollers |-> NoEpoch]
    /\ view' = [p \in Pollers |-> NoBlob]
    /\ polled' = [p \in Pollers |-> NoEpoch]

\* Power loss, a watchdog panic, or the esp_restart of reboot_timer_cb: RAM is lost.
Crash ==
    /\ up
    /\ up' = FALSE
    /\ s_config' = Defaults /\ s_next_var_id' = DefaultVars + 1
    /\ usedIds' = 1..DefaultVars /\ restored' = FALSE
    /\ PollersStart
    /\ UNCHANGED <<nvs, backup, acked>>

\* config_store_init: a blob that is there and can be read is used as it is;
\* otherwise the defaults are applied and saved.  readable is FALSE when
\* nvs_load_blob fails although a blob is stored (nvs_open, malloc, nvs_get_str).
Boot(readable) ==
    /\ ~up
    /\ up' = TRUE
    /\ PollersStart
    /\ \/ /\ nvs # NoBlob /\ readable
          /\ s_config' = nvs
          /\ UNCHANGED nvs
       \/ /\ nvs = NoBlob \/ ~readable
          /\ s_config' = Defaults
          /\ nvs' \in {nvs, Defaults}
    /\ \E n \in 1..MaxId : IsNextId(n, s_config') /\ s_next_var_id' = n
    /\ usedIds' = Ids(s_config')
    /\ restored' = FALSE
    /\ acked' = {s_config', nvs'} \ {NoBlob}
    /\ UNCHANGED backup

-----------------------------------------------------------------------------
(* The pollers: bus_scheduler_task, aggregation_task, sd_writer_task and     *)
(* mqtt_publish_task read the generation first and the configuration second. *)

PollGeneration(p) ==
    /\ up /\ polled[p] = NoEpoch
    /\ polled' = [polled EXCEPT ![p] = s_config.generation]
    /\ UNCHANGED <<up, storeVars, nvs, seen, view, backup, histVars>>

\* Mutant of PollFetch: a poller that has a configuration reloads its variables only.
PollFetchVarsOnly(p) ==
    /\ up /\ polled[p] # NoEpoch
    /\ IF polled[p] # seen[p]
       THEN /\ view' = [view EXCEPT ![p] =
                          IF @ = NoBlob THEN Content(s_config)
                                        ELSE [@ EXCEPT !.vars = s_config.vars]]
            /\ seen' = [seen EXCEPT ![p] = polled[p]]
       ELSE UNCHANGED <<view, seen>>
    /\ polled' = [polled EXCEPT ![p] = NoEpoch]
    /\ UNCHANGED <<up, storeVars, nvs, backup, histVars>>

PollFetch(p) ==
    /\ up /\ polled[p] # NoEpoch
    /\ IF polled[p] # seen[p]
       THEN /\ view' = [view EXCEPT ![p] = Content(s_config)]
            /\ seen' = [seen EXCEPT ![p] = polled[p]]
       ELSE UNCHANGED <<view, seen>>
    /\ polled' = [polled EXCEPT ![p] = NoEpoch]
    /\ UNCHANGED <<up, storeVars, nvs, backup, histVars>>

-----------------------------------------------------------------------------
Init ==
    /\ up = FALSE
    /\ s_config = Defaults
    /\ s_next_var_id = DefaultVars + 1
    /\ nvs = NoBlob
    /\ seen = [p \in Pollers |-> NoEpoch]
    /\ view = [p \in Pollers |-> NoBlob]
    /\ polled = [p \in Pollers |-> NoEpoch]
    /\ backup = NoBlob
    /\ acked = {Defaults}
    /\ usedIds = 1..DefaultVars
    /\ restored = FALSE

Edit ==
    \/ \E d \in Defs : AddVariable(d)
    \/ \E id \in 1..MaxId, d \in Defs : UpdateVariable(id, d)
    \/ \E id \in 1..MaxId : DeleteVariable(id)
    \/ \E g \in Groups, v \in Values : SetSettings(g, v)

Poll == \E p \in Pollers : PollGeneration(p) \/ PollFetch(p)

Next ==
    \/ Edit \/ FactoryReset \/ Export \/ Import
    \/ Crash \/ (\E readable \in BOOLEAN : Boot(readable))
    \/ Poll

Spec == Init /\ [][Next]_vars

\* The pollers loop for ever (vTaskDelay or a queue timeout bounds every turn).
LiveSpec == Spec /\ \A p \in Pollers : WF_vars(PollGeneration(p)) /\ WF_vars(PollFetch(p))

-----------------------------------------------------------------------------
(* Properties *)

\* Every variable has its type, for the record in RAM, the blob and the pollers.
TypeOK ==
    /\ up \in BOOLEAN
    /\ s_config \in Config
    /\ s_next_var_id \in Nat
    /\ nvs \in Config \cup {NoBlob}
    /\ seen \in [Pollers -> Int]
    /\ polled \in [Pollers -> Int]
    /\ view \in [Pollers -> Contents \cup {NoBlob}]
    /\ backup \in Config \cup {NoBlob}
    /\ acked \subseteq Config
    /\ usedIds \subseteq Nat
    /\ restored \in BOOLEAN

DistinctIds(c) == \A i, j \in 1..Len(c.vars) : i # j => c.vars[i].id # c.vars[j].id

\* No two variables share an id and the next id is above them all, through
\* adds, deletes, failed saves, restarts and restored backups: the lookups by
\* id in config_store, sampling_engine and sd_logger stop at the first match.
UniqueIds ==
    /\ DistinctIds(s_config)
    /\ \A i \in 1..Len(s_config.vars) : s_config.vars[i].id < s_next_var_id

\* While the device runs and no backup is restored, an id that some variable has
\* had is never given to another one, even after its owner was deleted or its
\* save failed: sampling_engine.c keeps the running accumulation of an id across
\* a rebuild.
IdsNotRecycled ==
    [][up /\ up' /\ ~restored' => (Ids(s_config') \ Ids(s_config)) \cap usedIds = {}]_vars

UpToDate(p) == up /\ seen[p] = s_config.generation => view[p] = Content(s_config)

\* A poller that has seen the current generation works with the current
\* configuration, as long as no backup is restored.
NoMissedEdit == ~restored => \A p \in Pollers : UpToDate(p)

\* The same of every mutation (config_store.h:32: "Bumped on every successful
\* mutation. Other tasks poll this to detect that they need to reload their view
\* of the config").
NoMissedMutation == \A p \in Pollers : UpToDate(p)

\* A restart brings back the last configuration config_store reported saved, or
\* one whose save it reported failed since, whatever power losses, failed commits
\* and factory resets happened in between; the defaults if the blob cannot be read.
AckedSurvivesRestart == [][~up /\ up' => s_config' \in acked \/ (nvs # NoBlob /\ s_config' = Defaults)]_vars

\* Once editing stops, every poller ends up with the current configuration.
PollersConverge ==
    \A p \in Pollers :
        LET settled == up /\ ~restored /\ s_config.generation = MaxGeneration
        IN  settled ~> (~settled \/ view[p] = Content(s_config))

=============================================================================
