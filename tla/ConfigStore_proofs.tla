------------------------- MODULE ConfigStore_proofs -------------------------
(* Proofs about ConfigStore, for every set of definitions, groups, values and *)
(* pollers and every bound.                                                   *)
EXTENDS ConfigStore, TLAPS

(* No configuration is mistaken for the absence of a blob. *)
LEMMA NoBlobIsNoConfig == NoBlob \notin Config
<1>1. DOMAIN NoBlob = {"blob"}
  BY DEF NoBlob
<1>2. \A c \in Config : DOMAIN c = {"vars", "settings", "generation"}
  BY DEF Config
<1> QED BY <1>1, <1>2

LEMMA DefaultsType == Defaults \in Config
<1>1. DefaultVars \in Nat /\ DefaultDef \in Defs /\ DefaultValue \in Values
  BY StoreAssumption
<1>2. [i \in 1..DefaultVars |-> [id |-> i, def |-> DefaultDef]] \in Seq(Variable)
  <2>1. \A i \in 1..DefaultVars : [id |-> i, def |-> DefaultDef] \in Variable
    BY <1>1 DEF Variable
  <2> QED BY <1>1, <2>1
<1> QED BY <1>1, <1>2 DEF Defaults, Config

-----------------------------------------------------------------------------
(* The edits of the variable list keep its type and change its ids as expected *)

LEMMA IdsAreNats ==
  ASSUME NEW c \in Config
  PROVE  /\ Len(c.vars) \in Nat
         /\ \A i \in 1..Len(c.vars) : c.vars[i].id \in Nat
         /\ Ids(c) \subseteq Nat
<1>1. c.vars \in Seq(Variable)
  BY DEF Config
<1>2. \A i \in 1..Len(c.vars) : c.vars[i] \in Variable
  BY <1>1
<1>3. \A i \in 1..Len(c.vars) : c.vars[i].id \in Nat
  BY <1>2 DEF Variable
<1> QED BY <1>1, <1>3 DEF Ids

LEMMA WithVars ==
  ASSUME NEW c \in Config, NEW t \in Seq(Variable)
  PROVE  /\ [c EXCEPT !.vars = t] \in Config
         /\ [c EXCEPT !.vars = t].vars = t
         /\ [c EXCEPT !.vars = t].generation = c.generation
BY DEF Config

LEMMA AddKeeps ==
  ASSUME NEW c \in Config, NEW v \in Variable
  PROVE  LET w == [c EXCEPT !.vars = Append(@, v)]
         IN  /\ w \in Config
             /\ w.generation = c.generation
             /\ Len(w.vars) = Len(c.vars) + 1
             /\ \A i \in 1..Len(w.vars) : w.vars[i] = IF i <= Len(c.vars) THEN c.vars[i] ELSE v
<1> DEFINE t == Append(c.vars, v)
<1>1. c.vars \in Seq(Variable)
  BY DEF Config
<1>2. /\ t \in Seq(Variable)
      /\ Len(t) = Len(c.vars) + 1
      /\ \A i \in 1..Len(t) : t[i] = IF i <= Len(c.vars) THEN c.vars[i] ELSE v
  BY <1>1
<1> HIDE DEF t
<1>3. /\ [c EXCEPT !.vars = t] \in Config
      /\ [c EXCEPT !.vars = t].vars = t
      /\ [c EXCEPT !.vars = t].generation = c.generation
  BY <1>2, WithVars
<1> QED BY <1>2, <1>3 DEF t

LEMMA UpdateKeeps ==
  ASSUME NEW c \in Config, NEW i \in 1..Len(c.vars), NEW d \in Defs
  PROVE  LET w == [c EXCEPT !.vars[i].def = d]
         IN  /\ w \in Config
             /\ w.generation = c.generation
             /\ Len(w.vars) = Len(c.vars)
             /\ \A j \in 1..Len(w.vars) : w.vars[j].id = c.vars[j].id
<1> DEFINE t == [c.vars EXCEPT ![i].def = d]
<1>1. c.vars \in Seq(Variable)
  BY DEF Config
<1>2. c.vars[i] \in Variable
  BY <1>1
<1>3. [c.vars[i] EXCEPT !.def = d] \in Variable /\ [c.vars[i] EXCEPT !.def = d].id = c.vars[i].id
  BY <1>2 DEF Variable
<1>4. t \in Seq(Variable) /\ Len(t) = Len(c.vars)
  BY <1>1, <1>3
<1>5. \A j \in 1..Len(t) : t[j].id = c.vars[j].id
  BY <1>1, <1>3, <1>4
<1> HIDE DEF t
<1>6. /\ [c EXCEPT !.vars = t] \in Config
      /\ [c EXCEPT !.vars = t].vars = t
      /\ [c EXCEPT !.vars = t].generation = c.generation
  BY <1>4, WithVars
<1> QED BY <1>4, <1>5, <1>6 DEF t

LEMMA DeleteKeeps ==
  ASSUME NEW c \in Config, NEW i \in 1..Len(c.vars)
  PROVE  LET w == [c EXCEPT !.vars =
                     [j \in 1..(Len(@) - 1) |-> IF j < i THEN @[j] ELSE @[j + 1]]]
         IN  /\ w \in Config
             /\ w.generation = c.generation
             /\ Len(w.vars) = Len(c.vars) - 1
             /\ \A j \in 1..Len(w.vars) :
                   w.vars[j] = c.vars[IF j < i THEN j ELSE j + 1]
<1> DEFINE t == [j \in 1..(Len(c.vars) - 1) |-> IF j < i THEN c.vars[j] ELSE c.vars[j + 1]]
<1>1. c.vars \in Seq(Variable) /\ Len(c.vars) \in Nat
  BY DEF Config
<1>2. \A j \in 1..(Len(c.vars) - 1) : t[j] \in Variable
  BY <1>1
<1>3. t \in Seq(Variable) /\ Len(t) = Len(c.vars) - 1
  BY <1>1, <1>2
<1>4. \A j \in 1..Len(t) : t[j] = c.vars[IF j < i THEN j ELSE j + 1]
  BY <1>1, <1>3
<1> HIDE DEF t
<1>5. /\ [c EXCEPT !.vars = t] \in Config
      /\ [c EXCEPT !.vars = t].vars = t
      /\ [c EXCEPT !.vars = t].generation = c.generation
  BY <1>3, WithVars
<1> QED BY <1>3, <1>4, <1>5 DEF t

LEMMA BumpKeeps ==
  ASSUME NEW c \in Config
  PROVE  /\ Bump(c) \in Config
         /\ Bump(c).vars = c.vars
         /\ Bump(c).generation = c.generation + 1
BY DEF Bump, Config

LEMMA SettingsKeep ==
  ASSUME NEW c \in Config, NEW f \in [Groups -> Values]
  PROVE  /\ [c EXCEPT !.settings = f] \in Config
         /\ [c EXCEPT !.settings = f].vars = c.vars
         /\ [c EXCEPT !.settings = f].generation = c.generation
BY DEF Config

LEMMA ContentType == ASSUME NEW c \in Config PROVE Content(c) \in Contents
BY DEF Config, Contents, Content

LEMMA RedactedKeeps ==
  ASSUME NEW c \in Config
  PROVE  Redacted(c) \in Config /\ Redacted(c).vars = c.vars
<1>1. [g \in Groups |-> IF g \in SecretGroups THEN Blank ELSE c.settings[g]] \in [Groups -> Values]
  BY StoreAssumption DEF Config
<1> QED BY <1>1, SettingsKeep DEF Redacted

LEMMA ImportedKeeps ==
  ASSUME NEW b \in Config, s_config \in Config
  PROVE  Imported(b) \in Config /\ Imported(b).vars = b.vars
                                /\ Imported(b).generation = b.generation
<1>1. [g \in Groups |-> IF g \in SecretGroups /\ b.settings[g] = Blank
                        THEN s_config.settings[g] ELSE b.settings[g]] \in [Groups -> Values]
  BY DEF Config
<1> QED BY <1>1, SettingsKeep DEF Imported

-----------------------------------------------------------------------------
(* The inductive invariant: the type, distinct ids not only in RAM but in     *)
(* everything RAM can be replaced with (blob, backup), and the stored state   *)
(* always among the configurations the callers were told a restart may find.  *)
StoredInAcked ==
    /\ nvs = NoBlob => Defaults \in acked
    /\ nvs # NoBlob => nvs \in acked

IInv ==
    /\ TypeOK
    /\ UniqueIds
    /\ nvs # NoBlob => DistinctIds(nvs)
    /\ backup # NoBlob => DistinctIds(backup)
    /\ StoredInAcked

LEMMA DefaultsDistinct == DistinctIds(Defaults) /\ Len(Defaults.vars) = DefaultVars
                          /\ \A i \in 1..DefaultVars : Defaults.vars[i].id = i
<1>1. Len(Defaults.vars) = DefaultVars
  BY StoreAssumption DEF Defaults
<1>2. \A i \in 1..DefaultVars : Defaults.vars[i].id = i
  BY DEF Defaults
<1> QED BY <1>1, <1>2 DEF DistinctIds

LEMMA InitIInv == Init => IInv
<1> SUFFICES ASSUME Init PROVE IInv
  OBVIOUS
<1>1. TypeOK
  <2>1. seen \in [Pollers -> Int] /\ polled \in [Pollers -> Int]
    BY DEF Init, NoEpoch
  <2>2. view \in [Pollers -> Contents \cup {NoBlob}]
    BY DEF Init
  <2>3. s_config \in Config /\ acked \subseteq Config
    BY DefaultsType DEF Init
  <2>4. s_next_var_id \in Nat /\ usedIds \subseteq Nat
    BY StoreAssumption DEF Init
  <2>5. nvs = NoBlob /\ backup = NoBlob /\ up = FALSE /\ restored = FALSE
    BY DEF Init
  <2> QED BY <2>1, <2>2, <2>3, <2>4, <2>5 DEF TypeOK
<1>2. UniqueIds
  BY StoreAssumption, DefaultsDistinct DEF Init, UniqueIds
<1>3. StoredInAcked
  BY DEF Init, StoredInAcked
<1> QED BY <1>1, <1>2, <1>3 DEF IInv, Init

(* What a committed edit of a well-formed record leaves behind. *)
LEMMA CommitStep ==
  ASSUME IInv, NEW c \in Config, DistinctIds(c), Commit(c)
  PROVE  /\ s_config' = c
         /\ UNCHANGED <<up, pollVars, backup>>
         /\ nvs' \in Config \cup {NoBlob}
         /\ nvs' # NoBlob => DistinctIds(nvs')
         /\ acked' \subseteq Config
         /\ StoredInAcked'
<1> PICK ok \in BOOLEAN : Save(c, ok)
  BY DEF Commit
<1>1. s_config' = c /\ UNCHANGED <<up, pollVars, backup>>
  BY DEF Commit
<1>2. nvs' = c \/ (nvs' = nvs /\ ~ok)
  BY DEF Save
<1>3. acked' = IF ok THEN {c} ELSE acked \cup {c}
  BY DEF Save
<1>4. c # NoBlob
  BY NoBlobIsNoConfig
<1>5. StoredInAcked'
  BY <1>2, <1>3, <1>4 DEF StoredInAcked, IInv
<1>6. nvs' \in Config \cup {NoBlob} /\ (nvs' # NoBlob => DistinctIds(nvs'))
  BY <1>2 DEF IInv, TypeOK
<1>7. acked' \subseteq Config
  BY <1>3 DEF IInv, TypeOK
<1> QED BY <1>1, <1>5, <1>6, <1>7

(* An edit step preserves the invariant once its new record and next id are   *)
(* known to be well-formed.                                                   *)
LEMMA CommitKeepsIInv ==
  ASSUME IInv, NEW c \in Config, DistinctIds(c), Commit(c),
         s_next_var_id' \in Nat, usedIds' \subseteq Nat, restored' \in BOOLEAN,
         \A i \in 1..Len(c.vars) : c.vars[i].id < s_next_var_id'
  PROVE  IInv'
<1>1. /\ s_config' = c
      /\ UNCHANGED <<up, pollVars, backup>>
      /\ nvs' \in Config \cup {NoBlob}
      /\ nvs' # NoBlob => DistinctIds(nvs')
      /\ acked' \subseteq Config
      /\ StoredInAcked'
  BY CommitStep
<1>2. TypeOK'
  BY <1>1 DEF IInv, TypeOK, pollVars
<1>3. UniqueIds'
  BY <1>1 DEF UniqueIds
<1>4. (backup # NoBlob => DistinctIds(backup))'
  BY <1>1 DEF IInv
<1> QED BY <1>1, <1>2, <1>3, <1>4 DEF IInv

-----------------------------------------------------------------------------
(* Every action preserves the invariant *)

LEMMA MutateCommits ==
  ASSUME IInv, NEW c \in Config, c.generation = s_config.generation, Mutate(c)
  PROVE  Commit(Bump(c)) /\ Bump(c) \in Config /\ Bump(c).vars = c.vars /\ restored' \in BOOLEAN
BY BumpKeeps DEF Mutate, IInv, TypeOK

LEMMA AddKeepsIInv ==
  ASSUME IInv, NEW d \in Defs, AddVariable(d)
  PROVE  IInv'
<1> DEFINE v == [id |-> s_next_var_id, def |-> d]
           w == [s_config EXCEPT !.vars = Append(@, v)]
<1>1. s_config \in Config /\ s_next_var_id \in Nat /\ v \in Variable /\ v.id = s_next_var_id
  BY DEF IInv, TypeOK, Variable
<1> HIDE DEF v
<1>2. /\ w \in Config
      /\ w.generation = s_config.generation
      /\ Len(w.vars) = Len(s_config.vars) + 1
      /\ \A i \in 1..Len(w.vars) :
            w.vars[i] = IF i <= Len(s_config.vars) THEN s_config.vars[i] ELSE v
  BY <1>1, AddKeeps
<1> HIDE DEF w
<1>9. /\ Mutate([s_config EXCEPT !.vars = Append(@, [id |-> s_next_var_id, def |-> d])])
      /\ s_next_var_id' = s_next_var_id + 1
      /\ usedIds' = usedIds \cup {s_next_var_id}
  BY DEF AddVariable
<1>3. Mutate(w)
  BY <1>9 DEF w, v
<1>4. Commit(Bump(w)) /\ Bump(w) \in Config /\ Bump(w).vars = w.vars /\ restored' \in BOOLEAN
  BY <1>2, <1>3, MutateCommits
<1>5. Len(s_config.vars) \in Nat
  BY <1>1 DEF Config
<1>6. DistinctIds(w) /\ \A i \in 1..Len(w.vars) : w.vars[i].id < s_next_var_id'
  <2>0. \A i \in 1..Len(s_config.vars) : s_config.vars[i].id < s_next_var_id
                                        /\ s_config.vars[i].id \in Nat
    BY <1>1, IdsAreNats DEF IInv, UniqueIds
  <2>1. \A i \in 1..Len(w.vars) : \/ i <= Len(s_config.vars) /\ w.vars[i] = s_config.vars[i]
                                  \/ i = Len(s_config.vars) + 1 /\ w.vars[i].id = s_next_var_id
    BY <1>1, <1>2, <1>5
  <2>2. DistinctIds(w)
    <3> SUFFICES ASSUME NEW i \in 1..Len(w.vars), NEW j \in 1..Len(w.vars), i < j
                 PROVE  w.vars[i].id # w.vars[j].id
      BY <1>2, <1>5 DEF DistinctIds
    <3>1. i <= Len(s_config.vars) /\ i \in 1..Len(s_config.vars) /\ w.vars[i] = s_config.vars[i]
      BY <1>2, <1>5
    <3>2. CASE j <= Len(s_config.vars)
      <4>1. j \in 1..Len(s_config.vars) /\ w.vars[j] = s_config.vars[j]
        BY <3>2, <1>2, <1>5
      <4> QED BY <3>1, <4>1 DEF IInv, UniqueIds, DistinctIds
    <3>3. CASE j > Len(s_config.vars)
      <4>1. w.vars[j].id = s_next_var_id
        BY <3>3, <2>1, <1>2, <1>5
      <4> QED BY <3>1, <4>1, <2>0, <1>1
    <3> QED BY <3>2, <3>3, <1>2, <1>5
  <2>3. \A i \in 1..Len(w.vars) : w.vars[i].id < s_next_var_id + 1
    <3> SUFFICES ASSUME NEW i \in 1..Len(w.vars)
                 PROVE  w.vars[i].id < s_next_var_id + 1
      OBVIOUS
    <3>1. CASE i <= Len(s_config.vars) /\ w.vars[i] = s_config.vars[i]
      <4>1. i \in 1..Len(s_config.vars)
        BY <3>1, <1>5
      <4> QED BY <3>1, <4>1, <2>0, <1>1
    <3>2. CASE w.vars[i].id = s_next_var_id
      BY <3>2, <1>1
    <3> QED BY <3>1, <3>2, <2>1
  <2> QED BY <2>2, <2>3, <1>9
<1>7. s_next_var_id' \in Nat /\ usedIds' \subseteq Nat
  BY <1>9, <1>1 DEF IInv, TypeOK
<1>8. DistinctIds(Bump(w)) /\ \A i \in 1..Len(Bump(w).vars) : Bump(w).vars[i].id < s_next_var_id'
  BY <1>4, <1>6 DEF DistinctIds
<1> QED BY <1>4, <1>7, <1>8, CommitKeepsIInv

LEMMA UpdateKeepsIInv ==
  ASSUME IInv, NEW id, NEW d \in Defs, UpdateVariable(id, d)
  PROVE  IInv'
<1>2. ASSUME NEW i \in 1..Len(s_config.vars),
             Mutate([s_config EXCEPT !.vars[i].def = d]),
             UNCHANGED <<s_next_var_id, usedIds>>
      PROVE  IInv'
  <2> DEFINE w == [s_config EXCEPT !.vars[i].def = d]
  <2>1. s_config \in Config
    BY DEF IInv, TypeOK
  <2>2. /\ w \in Config
        /\ w.generation = s_config.generation
        /\ Len(w.vars) = Len(s_config.vars)
        /\ \A j \in 1..Len(w.vars) : w.vars[j].id = s_config.vars[j].id
    BY <2>1, UpdateKeeps
  <2>3. Mutate(w)
    BY <1>2
  <2> HIDE DEF w
  <2>4. Commit(Bump(w)) /\ Bump(w) \in Config /\ Bump(w).vars = w.vars /\ restored' \in BOOLEAN
    BY <2>2, <2>3, MutateCommits
  <2>5. DistinctIds(Bump(w)) /\ \A j \in 1..Len(Bump(w).vars) : Bump(w).vars[j].id < s_next_var_id'
    <3>1. DistinctIds(s_config) /\ \A j \in 1..Len(s_config.vars) : s_config.vars[j].id < s_next_var_id
      BY DEF IInv, UniqueIds
    <3>2. s_next_var_id' = s_next_var_id
      BY <1>2
    <3>3. DistinctIds(w)
      BY <2>2, <3>1 DEF DistinctIds
    <3>4. \A j \in 1..Len(w.vars) : w.vars[j].id < s_next_var_id'
      BY <2>2, <3>1, <3>2
    <3> QED BY <2>4, <3>3, <3>4 DEF DistinctIds
  <2>6. s_next_var_id' \in Nat /\ usedIds' \subseteq Nat
    BY <1>2 DEF IInv, TypeOK
  <2> QED BY <2>4, <2>5, <2>6, CommitKeepsIInv
<1> QED BY <1>2 DEF UpdateVariable

LEMMA DeleteKeepsIInv ==
  ASSUME IInv, NEW id, DeleteVariable(id)
  PROVE  IInv'
<1>2. ASSUME NEW i \in 1..Len(s_config.vars),
             Mutate([s_config EXCEPT !.vars =
                       [j \in 1..(Len(@) - 1) |-> IF j < i THEN @[j] ELSE @[j + 1]]]),
             UNCHANGED <<s_next_var_id, usedIds>>
      PROVE  IInv'
  <2> DEFINE w == [s_config EXCEPT !.vars =
                     [j \in 1..(Len(@) - 1) |-> IF j < i THEN @[j] ELSE @[j + 1]]]
  <2>1. s_config \in Config
    BY DEF IInv, TypeOK
  <2>2. /\ w \in Config
        /\ w.generation = s_config.generation
        /\ Len(w.vars) = Len(s_config.vars) - 1
        /\ \A j \in 1..Len(w.vars) : w.vars[j] = s_config.vars[IF j < i THEN j ELSE j + 1]
    BY <2>1, DeleteKeeps
  <2>3. Mutate(w)
    BY <1>2
  <2> HIDE DEF w
  <2>4. Commit(Bump(w)) /\ Bump(w) \in Config /\ Bump(w).vars = w.vars /\ restored' \in BOOLEAN
    BY <2>2, <2>3, MutateCommits
  <2>5. Len(s_config.vars) \in Nat
    BY <2>1 DEF Config
  <2>6. \A j \in 1..Len(w.vars) : (IF j < i THEN j ELSE j + 1) \in 1..Len(s_config.vars)
    BY <2>2, <2>5
  <2>7. DistinctIds(w) /\ \A j \in 1..Len(w.vars) : w.vars[j].id < s_next_var_id'
    <3>1. \A j, k \in 1..Len(w.vars) : j # k =>
             (IF j < i THEN j ELSE j + 1) # (IF k < i THEN k ELSE k + 1)
      BY <2>2, <2>5
    <3>2. DistinctIds(w)
      <4> SUFFICES ASSUME NEW j \in 1..Len(w.vars), NEW k \in 1..Len(w.vars), j # k
                   PROVE  w.vars[j].id # w.vars[k].id
        BY DEF DistinctIds
      <4> DEFINE a == IF j < i THEN j ELSE j + 1
                 b == IF k < i THEN k ELSE k + 1
      <4>1. a \in 1..Len(s_config.vars) /\ b \in 1..Len(s_config.vars) /\ a # b
        BY <2>6, <3>1
      <4>2. w.vars[j] = s_config.vars[a] /\ w.vars[k] = s_config.vars[b]
        BY <2>2
      <4> HIDE DEF a, b
      <4>3. s_config.vars[a].id # s_config.vars[b].id
        BY <4>1 DEF IInv, UniqueIds, DistinctIds
      <4> QED BY <4>2, <4>3
    <3>3. \A j \in 1..Len(w.vars) : w.vars[j].id < s_next_var_id
      BY <2>2, <2>6, Zenon DEF IInv, UniqueIds
    <3> QED BY <1>2, <3>2, <3>3
  <2>8. DistinctIds(Bump(w)) /\ \A j \in 1..Len(Bump(w).vars) : Bump(w).vars[j].id < s_next_var_id'
    BY <2>4, <2>7 DEF DistinctIds
  <2>9. s_next_var_id' \in Nat /\ usedIds' \subseteq Nat
    BY <1>2 DEF IInv, TypeOK
  <2> QED BY <2>4, <2>8, <2>9, CommitKeepsIInv
<1> QED BY <1>2 DEF DeleteVariable

LEMMA SetSettingsKeepsIInv ==
  ASSUME IInv, NEW g \in Groups, NEW v \in Values, SetSettings(g, v)
  PROVE  IInv'
<1> DEFINE w == [s_config EXCEPT !.settings[g] = v]
<1>1. s_config \in Config
  BY DEF IInv, TypeOK
<1>2. [s_config.settings EXCEPT ![g] = v] \in [Groups -> Values]
  BY <1>1 DEF Config
<1>3. w \in Config /\ w.vars = s_config.vars /\ w.generation = s_config.generation
  BY <1>1, <1>2, SettingsKeep
<1>4. Mutate(w) /\ UNCHANGED <<s_next_var_id, usedIds>>
  BY DEF SetSettings
<1> HIDE DEF w
<1>5. Commit(Bump(w)) /\ Bump(w) \in Config /\ Bump(w).vars = w.vars /\ restored' \in BOOLEAN
  BY <1>3, <1>4, MutateCommits
<1>6. DistinctIds(Bump(w)) /\ \A j \in 1..Len(Bump(w).vars) : Bump(w).vars[j].id < s_next_var_id'
  BY <1>3, <1>4, <1>5 DEF IInv, UniqueIds, DistinctIds
<1>7. s_next_var_id' \in Nat /\ usedIds' \subseteq Nat
  BY <1>4 DEF IInv, TypeOK
<1> QED BY <1>5, <1>6, <1>7, CommitKeepsIInv

LEMMA ExportKeepsIInv == ASSUME IInv, Export PROVE IInv'
<1>1. s_config \in Config
  BY DEF IInv, TypeOK
<1>2. backup' \in Config /\ DistinctIds(backup')
  BY <1>1, RedactedKeeps DEF Export, IInv, UniqueIds, DistinctIds
<1>3. UNCHANGED <<up, storeVars, nvs, pollVars, histVars>>
  BY DEF Export
<1> QED BY <1>2, <1>3 DEF IInv, TypeOK, UniqueIds, StoredInAcked, storeVars, pollVars, histVars

LEMMA ImportKeepsIInv == ASSUME IInv, Import PROVE IInv'
<1> DEFINE c == Bump(Imported(backup))
<1>1. s_config \in Config /\ backup \in Config /\ DistinctIds(backup)
  BY DEF IInv, TypeOK, Import
<1>2. c \in Config /\ c.vars = backup.vars
  BY <1>1, ImportedKeeps, BumpKeeps
<1>3. Commit(c) /\ restored' \in BOOLEAN
  BY DEF Import
<1> HIDE DEF c
<1>4. s_config' = c
  BY <1>3 DEF Commit
<1>5. PICK n \in 1..MaxId : IsNextId(n, s_config') /\ s_next_var_id' = n
  BY DEF Import
<1>6. s_next_var_id' \in Nat /\ \A i \in 1..Len(c.vars) : c.vars[i].id < s_next_var_id'
  BY <1>4, <1>5, StoreAssumption DEF IsNextId
<1>7. usedIds' \subseteq Nat
  <2>1. usedIds' = usedIds \cup Ids(c)
    BY <1>4 DEF Import
  <2>2. Ids(c) \subseteq Nat
    BY <1>2, IdsAreNats
  <2> QED BY <2>1, <2>2 DEF IInv, TypeOK
<1>8. DistinctIds(c)
  BY <1>1, <1>2 DEF DistinctIds
<1> QED BY <1>2, <1>3, <1>6, <1>7, <1>8, CommitKeepsIInv

LEMMA FactoryResetKeepsIInv == ASSUME IInv, FactoryReset PROVE IInv'
<1>1. UNCHANGED <<up, s_config, s_next_var_id, pollVars, backup, usedIds, restored>>
  BY DEF FactoryReset, storeVars
<1>2. CASE nvs' = NoBlob /\ acked' = {Defaults}
  <2>1. TypeOK'
    BY <1>1, <1>2, DefaultsType DEF IInv, TypeOK, pollVars
  <2> QED BY <1>1, <1>2, <2>1 DEF IInv, UniqueIds, StoredInAcked
<1>3. CASE nvs' \in {nvs, NoBlob} /\ acked' = acked \cup {Defaults}
  <2>1. TypeOK'
    BY <1>1, <1>3, DefaultsType DEF IInv, TypeOK, pollVars
  <2>2. StoredInAcked'
    BY <1>3 DEF IInv, StoredInAcked
  <2> QED BY <1>1, <1>3, <2>1, <2>2 DEF IInv, UniqueIds
<1> QED BY <1>2, <1>3 DEF FactoryReset

LEMMA CrashKeepsIInv == ASSUME IInv, Crash PROVE IInv'
<1>1. TypeOK'
  <2>1. seen' \in [Pollers -> Int] /\ polled' \in [Pollers -> Int]
        /\ view' \in [Pollers -> Contents \cup {NoBlob}]
    BY DEF Crash, PollersStart, NoEpoch
  <2>2. s_config' \in Config /\ s_next_var_id' \in Nat /\ usedIds' \subseteq Nat
    BY DefaultsType, StoreAssumption DEF Crash
  <2> QED BY <2>1, <2>2 DEF Crash, IInv, TypeOK
<1>2. UniqueIds'
  BY StoreAssumption, DefaultsDistinct DEF Crash, UniqueIds
<1> QED BY <1>1, <1>2 DEF Crash, IInv, StoredInAcked

LEMMA BootKeepsIInv == ASSUME IInv, NEW readable \in BOOLEAN, Boot(readable) PROVE IInv'
<1>1. /\ s_config' \in Config /\ DistinctIds(s_config')
      /\ nvs' \in {nvs, Defaults}
      /\ nvs' = NoBlob => s_config' = Defaults
  <2>1. CASE nvs # NoBlob /\ s_config' = nvs /\ nvs' = nvs
    BY <2>1 DEF IInv, TypeOK
  <2>2. CASE s_config' = Defaults /\ nvs' \in {nvs, Defaults}
    BY <2>2, DefaultsType, DefaultsDistinct
  <2> QED BY <2>1, <2>2 DEF Boot
<1>2. PICK n \in 1..MaxId : IsNextId(n, s_config') /\ s_next_var_id' = n
  BY DEF Boot
<1>3. s_next_var_id' \in Nat /\ \A i \in 1..Len(s_config'.vars) : s_config'.vars[i].id < s_next_var_id'
  BY <1>2, StoreAssumption DEF IsNextId
<1>4. usedIds' \subseteq Nat
  BY <1>1, IdsAreNats DEF Boot
<1>5. seen' \in [Pollers -> Int] /\ polled' \in [Pollers -> Int]
      /\ view' \in [Pollers -> Contents \cup {NoBlob}]
  BY DEF Boot, PollersStart, NoEpoch
<1>6. up' = TRUE /\ restored' = FALSE /\ backup' = backup
      /\ acked' = {s_config', nvs'} \ {NoBlob}
  BY DEF Boot
<1>7. TypeOK'
  BY <1>1, <1>3, <1>4, <1>5, <1>6, DefaultsType DEF IInv, TypeOK
<1>8. UniqueIds'
  BY <1>1, <1>3 DEF UniqueIds
<1>9. (nvs # NoBlob => DistinctIds(nvs))' /\ (backup # NoBlob => DistinctIds(backup))'
  BY <1>1, <1>6, DefaultsDistinct DEF IInv
<1>10. StoredInAcked'
  BY <1>1, <1>6, DefaultsType, NoBlobIsNoConfig DEF StoredInAcked
<1> QED BY <1>7, <1>8, <1>9, <1>10 DEF IInv

LEMMA PollKeepsIInv == ASSUME IInv, NEW p \in Pollers, PollGeneration(p) \/ PollFetch(p)
                       PROVE  IInv'
<1>1. UNCHANGED <<up, storeVars, nvs, backup, histVars>>
  BY DEF PollGeneration, PollFetch
<1>2. s_config \in Config /\ s_config.generation \in Int
  BY DEF IInv, TypeOK, Config
<1>3. /\ seen' \in [Pollers -> Int] /\ polled' \in [Pollers -> Int]
      /\ view' \in [Pollers -> Contents \cup {NoBlob}]
  <2>0. seen \in [Pollers -> Int] /\ polled \in [Pollers -> Int]
        /\ view \in [Pollers -> Contents \cup {NoBlob}]
    BY DEF IInv, TypeOK
  <2>1. CASE PollGeneration(p)
    BY <2>0, <2>1, <1>2 DEF PollGeneration
  <2>2. CASE PollFetch(p)
    <3>1. Content(s_config) \in Contents /\ polled[p] \in Int /\ NoEpoch \in Int
      BY <1>2, <2>0, ContentType DEF NoEpoch
    <3> QED BY <2>0, <2>2, <3>1 DEF PollFetch
  <2> QED BY <2>1, <2>2
<1> QED BY <1>1, <1>3 DEF IInv, TypeOK, UniqueIds, StoredInAcked, storeVars, histVars

LEMMA NextIInv == IInv /\ [Next]_vars => IInv'
<1> SUFFICES ASSUME IInv, [Next]_vars PROVE IInv'
  OBVIOUS
<1>1. ASSUME NEW d \in Defs, AddVariable(d) PROVE IInv'
  BY <1>1, AddKeepsIInv
<1>2. ASSUME NEW id \in 1..MaxId, NEW d \in Defs, UpdateVariable(id, d) PROVE IInv'
  BY <1>2, UpdateKeepsIInv
<1>3. ASSUME NEW id \in 1..MaxId, DeleteVariable(id) PROVE IInv'
  BY <1>3, DeleteKeepsIInv
<1>4. ASSUME NEW g \in Groups, NEW v \in Values, SetSettings(g, v) PROVE IInv'
  BY <1>4, SetSettingsKeepsIInv
<1>5. CASE FactoryReset
  BY <1>5, FactoryResetKeepsIInv
<1>6. CASE Crash
  BY <1>6, CrashKeepsIInv
<1>7. ASSUME NEW readable \in BOOLEAN, Boot(readable) PROVE IInv'
  BY <1>7, BootKeepsIInv
<1>8. ASSUME NEW p \in Pollers, PollGeneration(p) \/ PollFetch(p) PROVE IInv'
  BY <1>8, PollKeepsIInv
<1>9. CASE Export
  BY <1>9, ExportKeepsIInv
<1>10. CASE Import
  BY <1>10, ImportKeepsIInv
<1>11. CASE UNCHANGED vars
  BY <1>11 DEF vars, storeVars, pollVars, histVars, IInv, TypeOK, UniqueIds, StoredInAcked
<1> QED
  BY <1>1, <1>2, <1>3, <1>4, <1>5, <1>6, <1>7, <1>8, <1>9, <1>10, <1>11
  DEF Next, Edit, Poll

-----------------------------------------------------------------------------
(* Type correctness of the store, its blob and its pollers. *)
THEOREM TypeCorrect == Spec => []TypeOK
<1>1. IInv => TypeOK
  BY DEF IInv
<1> QED BY InitIInv, NextIInv, <1>1, PTL DEF Spec

(* Variable ids stay distinct and below the next id whatever sequence of adds, *)
(* deletes, failed saves, restarts, resets and restored backups happens.       *)
THEOREM IdsAreUnique == Spec => []UniqueIds
<1>1. IInv => UniqueIds
  BY DEF IInv
<1> QED BY InitIInv, NextIInv, <1>1, PTL DEF Spec

(* A restart never brings back a configuration that no caller of config_store *)
(* was told of: the last acknowledged one, one reported failed since, or the   *)
(* defaults when the blob cannot be read.                                      *)
THEOREM AckedConfigSurvives == Spec => AckedSurvivesRestart
<1>1. IInv /\ [Next]_vars =>
        (~up /\ up' => s_config' \in acked \/ (nvs # NoBlob /\ s_config' = Defaults))
  <2> SUFFICES ASSUME IInv, [Next]_vars, ~up, up'
               PROVE  s_config' \in acked \/ (nvs # NoBlob /\ s_config' = Defaults)
    OBVIOUS
  <2>1. PICK readable \in BOOLEAN : Boot(readable)
    BY DEF Next, Edit, Poll, vars, AddVariable, UpdateVariable, DeleteVariable,
           SetSettings, FactoryReset, Crash, PollGeneration, PollFetch, Export, Import
  <2>2. \/ nvs # NoBlob /\ s_config' = nvs
        \/ s_config' = Defaults
    BY <2>1 DEF Boot
  <2> QED BY <2>2 DEF IInv, StoredInAcked
<1>2. IInv /\ [Next]_vars =>
        [~up /\ up' => s_config' \in acked \/ (nvs # NoBlob /\ s_config' = Defaults)]_vars
  BY <1>1
<1> QED BY InitIInv, NextIInv, <1>2, PTL DEF Spec, AckedSurvivesRestart

-----------------------------------------------------------------------------
(* The pollers.  NoMissedEdit needs that no poller is ahead of the store.     *)
PollInv ==
    up /\ ~restored => \A p \in Pollers :
        /\ seen[p] <= s_config.generation
        /\ polled[p] <= s_config.generation
        /\ seen[p] = s_config.generation => view[p] = Content(s_config)

LEMMA EditGeneration ==
  ASSUME IInv, Edit
  PROVE  /\ up /\ up' /\ UNCHANGED <<pollVars, restored>>
         /\ s_config'.generation = s_config.generation + 1
<1> DEFINE Goal == /\ up /\ up' /\ UNCHANGED <<pollVars, restored>>
                   /\ s_config'.generation = s_config.generation + 1
<1>0. s_config \in Config
  BY DEF IInv, TypeOK
<1>1. ASSUME up, NEW c \in Config, c.generation = s_config.generation, Mutate(c)
      PROVE  Goal
  <2>1. s_config' = Bump(c) /\ UNCHANGED <<up, pollVars, restored>>
    BY <1>1 DEF Mutate, Commit
  <2> QED BY <1>1, <2>1, BumpKeeps
<1>3. ASSUME NEW d \in Defs, AddVariable(d) PROVE Goal
  <2> DEFINE w == [s_config EXCEPT !.vars = Append(@, [id |-> s_next_var_id, def |-> d])]
  <2>1. [id |-> s_next_var_id, def |-> d] \in Variable
    BY DEF Variable, IInv, TypeOK
  <2>2. w \in Config /\ w.generation = s_config.generation
    BY <2>1, <1>0, AddKeeps
  <2>3. up /\ Mutate(w)
    BY <1>3 DEF AddVariable
  <2> HIDE DEF w
  <2> QED BY <2>2, <2>3, <1>1
<1>4. ASSUME NEW id \in 1..MaxId, NEW d \in Defs, UpdateVariable(id, d) PROVE Goal
  <2>1. ASSUME NEW i \in 1..Len(s_config.vars),
               Mutate([s_config EXCEPT !.vars[i].def = d])
        PROVE  Goal
    <3> DEFINE w == [s_config EXCEPT !.vars[i].def = d]
    <3>1. w \in Config /\ w.generation = s_config.generation
      BY <1>0, UpdateKeeps
    <3>2. up /\ Mutate(w)
      BY <1>4, <2>1 DEF UpdateVariable
    <3> HIDE DEF w
    <3> QED BY <3>1, <3>2, <1>1
  <2> QED BY <1>4, <2>1 DEF UpdateVariable
<1>5. ASSUME NEW id \in 1..MaxId, DeleteVariable(id) PROVE Goal
  <2>1. ASSUME NEW i \in 1..Len(s_config.vars),
               Mutate([s_config EXCEPT !.vars =
                         [j \in 1..(Len(@) - 1) |-> IF j < i THEN @[j] ELSE @[j + 1]]])
        PROVE  Goal
    <3> DEFINE w == [s_config EXCEPT !.vars =
                       [j \in 1..(Len(@) - 1) |-> IF j < i THEN @[j] ELSE @[j + 1]]]
    <3>1. w \in Config /\ w.generation = s_config.generation
      BY <1>0, DeleteKeeps
    <3>2. up /\ Mutate(w)
      BY <1>5, <2>1 DEF DeleteVariable
    <3> HIDE DEF w
    <3> QED BY <3>1, <3>2, <1>1
  <2> QED BY <1>5, <2>1 DEF DeleteVariable
<1>6. ASSUME NEW g \in Groups, NEW v \in Values, SetSettings(g, v) PROVE Goal
  <2> DEFINE w == [s_config EXCEPT !.settings[g] = v]
  <2>1. [s_config.settings EXCEPT ![g] = v] \in [Groups -> Values]
    BY <1>0 DEF Config
  <2>2. w \in Config /\ w.generation = s_config.generation
    BY <2>1, <1>0, SettingsKeep
  <2>3. up /\ Mutate(w)
    BY <1>6 DEF SetSettings
  <2> HIDE DEF w
  <2> QED BY <2>2, <2>3, <1>1
<1> QED BY <1>3, <1>4, <1>5, <1>6 DEF Edit

LEMMA NextPollInv == IInv /\ PollInv /\ [Next]_vars => PollInv'
<1> SUFFICES ASSUME IInv, PollInv, [Next]_vars PROVE PollInv'
  OBVIOUS
<1>0. s_config \in Config /\ s_config.generation \in Nat
  BY DEF IInv, TypeOK, Config
<1>1. CASE Edit
  <2>1. /\ up /\ UNCHANGED <<pollVars, restored>>
        /\ s_config'.generation = s_config.generation + 1
    BY <1>1, EditGeneration
  <2>2. seen \in [Pollers -> Int] /\ polled \in [Pollers -> Int]
    BY DEF IInv, TypeOK
  <2> QED BY <1>0, <2>1, <2>2 DEF PollInv, pollVars
<1>2. CASE FactoryReset \/ Export \/ UNCHANGED vars
  BY <1>2 DEF PollInv, FactoryReset, Export, vars, storeVars, pollVars, histVars
<1>3. CASE Crash \/ Import
  BY <1>3 DEF PollInv, Crash, Import
<1>4. ASSUME NEW readable \in BOOLEAN, Boot(readable) PROVE PollInv'
  <2>1. s_config' \in Config
    BY <1>4, DefaultsType DEF Boot, IInv, TypeOK
  <2>2. s_config'.generation \in Nat
    BY <2>1 DEF Config
  <2>3. \A p \in Pollers : seen'[p] = -1 /\ polled'[p] = -1
    BY <1>4 DEF Boot, PollersStart, NoEpoch
  <2> QED BY <2>2, <2>3 DEF PollInv
<1>5. ASSUME NEW p \in Pollers, PollGeneration(p) PROVE PollInv'
  <2>1. /\ up /\ UNCHANGED <<up, s_config, seen, view, restored>>
        /\ polled' = [polled EXCEPT ![p] = s_config.generation]
    BY <1>5 DEF PollGeneration, storeVars, histVars
  <2>2. polled \in [Pollers -> Int]
    BY DEF IInv, TypeOK
  <2> QED BY <1>0, <2>1, <2>2 DEF PollInv
<1>6. ASSUME NEW p \in Pollers, PollFetch(p) PROVE PollInv'
  <2>1. /\ up /\ UNCHANGED <<up, s_config, restored>>
        /\ polled' = [polled EXCEPT ![p] = NoEpoch]
        /\ \/ /\ view' = [view EXCEPT ![p] = Content(s_config)]
              /\ seen' = [seen EXCEPT ![p] = polled[p]]
           \/ UNCHANGED <<view, seen>>
    BY <1>6 DEF PollFetch, storeVars, histVars
  <2>2. /\ polled \in [Pollers -> Int] /\ seen \in [Pollers -> Int]
        /\ view \in [Pollers -> Contents \cup {NoBlob}]
    BY DEF IInv, TypeOK
  <2> SUFFICES ASSUME ~restored
      PROVE  PollInv'
    BY <2>1 DEF PollInv
  <2>3. \A q \in Pollers : polled'[q] <= s_config.generation
    BY <1>0, <2>1, <2>2 DEF PollInv, NoEpoch
  <2>4. \A q \in Pollers : /\ seen'[q] <= s_config.generation
                           /\ seen'[q] = s_config.generation => view'[q] = Content(s_config)
    <3>1. CASE UNCHANGED <<view, seen>>
      BY <2>1, <3>1 DEF PollInv
    <3>2. CASE /\ view' = [view EXCEPT ![p] = Content(s_config)]
               /\ seen' = [seen EXCEPT ![p] = polled[p]]
      BY <2>1, <2>2, <3>2 DEF PollInv
    <3> QED BY <2>1, <3>1, <3>2
  <2> QED BY <2>1, <2>3, <2>4 DEF PollInv
<1> QED BY <1>1, <1>2, <1>3, <1>4, <1>5, <1>6 DEF Next, Poll

(* With the generation read before the configuration, no poller that believes  *)
(* it is up to date works with an old configuration, as long as no backup is   *)
(* restored: an import may set the generation back.                            *)
THEOREM NoEditIsMissed == Spec => []NoMissedEdit
<1>1. Init => IInv /\ PollInv
  BY InitIInv DEF Init, PollInv
<1>2. IInv /\ PollInv /\ [Next]_vars => IInv' /\ PollInv'
  BY NextIInv, NextPollInv
<1>3. PollInv => NoMissedEdit
  BY DEF PollInv, NoMissedEdit, UpToDate
<1> QED BY <1>1, <1>2, <1>3, PTL DEF Spec

-----------------------------------------------------------------------------
(* Ids are not recycled: every id in use since boot is below the next one.    *)
UsedIdsInv == ~restored => \A n \in usedIds : n < s_next_var_id

\* An edit adds the next id, or no id at all.
LEMMA EditIds ==
  ASSUME IInv, Edit
  PROVE  \/ /\ Ids(s_config') \subseteq Ids(s_config)
            /\ UNCHANGED <<s_next_var_id, usedIds>>
         \/ /\ Ids(s_config') \subseteq Ids(s_config) \cup {s_next_var_id}
            /\ s_next_var_id' = s_next_var_id + 1
            /\ usedIds' = usedIds \cup {s_next_var_id}
<1> DEFINE Same  == /\ Ids(s_config') \subseteq Ids(s_config)
                    /\ UNCHANGED <<s_next_var_id, usedIds>>
           Added == /\ Ids(s_config') \subseteq Ids(s_config) \cup {s_next_var_id}
                    /\ s_next_var_id' = s_next_var_id + 1
                    /\ usedIds' = usedIds \cup {s_next_var_id}
<1>0. s_config \in Config
  BY DEF IInv, TypeOK
<1>1. ASSUME NEW c \in Config, Mutate(c)
      PROVE  s_config'.vars = c.vars
  BY <1>1, BumpKeeps DEF Mutate, Commit
<1>2. ASSUME NEW d \in Defs, AddVariable(d) PROVE Added
  <2> DEFINE v == [id |-> s_next_var_id, def |-> d]
             w == [s_config EXCEPT !.vars = Append(@, v)]
  <2>1. v \in Variable /\ v.id = s_next_var_id
    BY DEF Variable, IInv, TypeOK
  <2>2. /\ Mutate([s_config EXCEPT !.vars = Append(@, [id |-> s_next_var_id, def |-> d])])
        /\ s_next_var_id' = s_next_var_id + 1
        /\ usedIds' = usedIds \cup {s_next_var_id}
    BY <1>2 DEF AddVariable
  <2>3. Mutate(w)
    BY <2>2
  <2> HIDE DEF v
  <2>4. /\ w \in Config
        /\ Len(w.vars) = Len(s_config.vars) + 1
        /\ \A i \in 1..Len(w.vars) :
              w.vars[i] = IF i <= Len(s_config.vars) THEN s_config.vars[i] ELSE v
    BY <2>1, <1>0, AddKeeps
  <2> HIDE DEF w
  <2>5. s_config'.vars = w.vars
    BY <2>3, <2>4, <1>1
  <2>6. Len(s_config.vars) \in Nat
    BY <1>0 DEF Config
  <2>7. ASSUME NEW i \in 1..Len(w.vars) PROVE w.vars[i].id \in Ids(s_config) \cup {s_next_var_id}
    <3>1. CASE i <= Len(s_config.vars)
      BY <2>4, <2>6, <3>1 DEF Ids
    <3>2. CASE ~(i <= Len(s_config.vars))
      BY <2>1, <2>4, <3>2
    <3> QED BY <3>1, <3>2
  <2> QED BY <2>2, <2>5, <2>7 DEF Ids
<1>3. ASSUME NEW id, NEW d \in Defs, UpdateVariable(id, d) PROVE Same
  <2>1. ASSUME NEW i \in 1..Len(s_config.vars),
               Mutate([s_config EXCEPT !.vars[i].def = d])
        PROVE  Ids(s_config') \subseteq Ids(s_config)
    <3> DEFINE w == [s_config EXCEPT !.vars[i].def = d]
    <3>1. /\ w \in Config
          /\ Len(w.vars) = Len(s_config.vars)
          /\ \A j \in 1..Len(w.vars) : w.vars[j].id = s_config.vars[j].id
      BY <1>0, UpdateKeeps
    <3>2. Mutate(w)
      BY <2>1
    <3> HIDE DEF w
    <3>3. s_config'.vars = w.vars
      BY <3>1, <3>2, <1>1
    <3> QED BY <3>1, <3>3 DEF Ids
  <2> QED BY <1>3, <2>1 DEF UpdateVariable
<1>4. ASSUME NEW id, DeleteVariable(id) PROVE Same
  <2>1. ASSUME NEW i \in 1..Len(s_config.vars),
               Mutate([s_config EXCEPT !.vars =
                         [j \in 1..(Len(@) - 1) |-> IF j < i THEN @[j] ELSE @[j + 1]]])
        PROVE  Ids(s_config') \subseteq Ids(s_config)
    <3> DEFINE w == [s_config EXCEPT !.vars =
                       [j \in 1..(Len(@) - 1) |-> IF j < i THEN @[j] ELSE @[j + 1]]]
    <3>1. /\ w \in Config
          /\ Len(w.vars) = Len(s_config.vars) - 1
          /\ \A j \in 1..Len(w.vars) : w.vars[j] = s_config.vars[IF j < i THEN j ELSE j + 1]
      BY <1>0, DeleteKeeps
    <3>2. Mutate(w)
      BY <2>1
    <3> HIDE DEF w
    <3>3. s_config'.vars = w.vars
      BY <3>1, <3>2, <1>1
    <3>4. Len(s_config.vars) \in Nat
      BY <1>0 DEF Config
    <3>5. ASSUME NEW j \in 1..Len(w.vars) PROVE w.vars[j].id \in Ids(s_config)
      <4>1. PICK k \in 1..Len(s_config.vars) : w.vars[j] = s_config.vars[k]
        <5>1. (IF j < i THEN j ELSE j + 1) \in 1..Len(s_config.vars)
          BY <3>1, <3>4
        <5> QED BY <3>1, <5>1
      <4> QED BY <4>1 DEF Ids
    <3> QED BY <3>3, <3>5 DEF Ids
  <2> QED BY <1>4, <2>1 DEF DeleteVariable
<1>5. ASSUME NEW g \in Groups, NEW v \in Values, SetSettings(g, v) PROVE Same
  <2> DEFINE w == [s_config EXCEPT !.settings[g] = v]
  <2>1. [s_config.settings EXCEPT ![g] = v] \in [Groups -> Values]
    BY <1>0 DEF Config
  <2>2. w \in Config /\ w.vars = s_config.vars
    BY <2>1, <1>0, SettingsKeep
  <2>3. Mutate(w) /\ UNCHANGED <<s_next_var_id, usedIds>>
    BY <1>5 DEF SetSettings
  <2> HIDE DEF w
  <2>4. s_config'.vars = w.vars
    BY <2>2, <2>3, <1>1
  <2> QED BY <2>2, <2>3, <2>4 DEF Ids
<1> QED BY <1>2, <1>3, <1>4, <1>5 DEF Edit

\* What a step that is neither an import nor a restart does to the ids.
LEMMA StepIds ==
  ASSUME IInv, UsedIdsInv, [Next]_vars
  PROVE  /\ UsedIdsInv'
         /\ up /\ up' /\ ~restored' => (Ids(s_config') \ Ids(s_config)) \cap usedIds = {}
<1> DEFINE Goal == /\ UsedIdsInv'
                   /\ up /\ up' /\ ~restored' => (Ids(s_config') \ Ids(s_config)) \cap usedIds = {}
<1>0. s_next_var_id \in Nat /\ usedIds \subseteq Nat
  BY DEF IInv, TypeOK
<1>1. CASE Edit
  <2>1. restored' = restored
    BY <1>1, EditGeneration
  <2>2. CASE Ids(s_config') \subseteq Ids(s_config) /\ UNCHANGED <<s_next_var_id, usedIds>>
    BY <2>1, <2>2 DEF UsedIdsInv
  <2>3. CASE /\ Ids(s_config') \subseteq Ids(s_config) \cup {s_next_var_id}
             /\ s_next_var_id' = s_next_var_id + 1
             /\ usedIds' = usedIds \cup {s_next_var_id}
    <3>1. UsedIdsInv'
      BY <1>0, <2>1, <2>3 DEF UsedIdsInv
    <3>2. ~restored => s_next_var_id \notin usedIds
      BY <1>0 DEF UsedIdsInv
    <3> QED BY <2>1, <2>3, <3>1, <3>2
  <2> QED BY <1>1, <2>2, <2>3, EditIds
<1>2. CASE FactoryReset \/ Export \/ UNCHANGED vars \/ (\E p \in Pollers : PollGeneration(p) \/ PollFetch(p))
  <2>1. UNCHANGED <<s_config, s_next_var_id, usedIds, restored>>
    BY <1>2 DEF FactoryReset, Export, vars, storeVars, histVars, PollGeneration, PollFetch
  <2> QED BY <2>1 DEF UsedIdsInv
<1>3. CASE Import
  BY <1>3 DEF Import, UsedIdsInv
<1>4. CASE Crash
  <2>1. up' = FALSE /\ s_next_var_id' = DefaultVars + 1 /\ usedIds' = 1..DefaultVars
    BY <1>4 DEF Crash
  <2> QED BY <2>1, StoreAssumption DEF UsedIdsInv
<1>5. ASSUME NEW readable \in BOOLEAN, Boot(readable) PROVE Goal
  <2>1. ~up /\ usedIds' = Ids(s_config')
    BY <1>5 DEF Boot
  <2>2. \A i \in 1..Len(s_config'.vars) : s_config'.vars[i].id < s_next_var_id'
    BY <1>5 DEF Boot, IsNextId
  <2> QED BY <2>1, <2>2 DEF UsedIdsInv, Ids
<1> QED BY <1>1, <1>2, <1>3, <1>4, <1>5 DEF Next, Poll

(* An id that a variable has had is given to no other one while the device     *)
(* runs: the engine keeps the accumulation of an id across a rebuild.          *)
THEOREM IdsStayRetired == Spec => IdsNotRecycled
<1>1. Init => UsedIdsInv
  BY StoreAssumption DEF Init, UsedIdsInv
<1>2. IInv /\ UsedIdsInv /\ [Next]_vars =>
        [up /\ up' /\ ~restored' => (Ids(s_config') \ Ids(s_config)) \cap usedIds = {}]_vars
  BY StepIds
<1>3. IInv /\ UsedIdsInv /\ [Next]_vars => UsedIdsInv'
  BY StepIds
<1> QED BY InitIInv, NextIInv, <1>1, <1>2, <1>3, PTL DEF Spec, IdsNotRecycled
=============================================================================
