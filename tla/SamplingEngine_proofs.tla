----------------------- MODULE SamplingEngine_proofs -----------------------
(* Proofs about SamplingEngine, for any variables, buses, definitions, sinks, *)
(* lengths of the queues, edits and samples.                                  *)
EXTENDS SamplingEngine, TLAPS, FiniteSetTheorems, WellFoundedInduction

\* config only groups variables.
USE DEF config

LEMMA LeastNumber ==
  ASSUME NEW T \in SUBSET Nat, T # {}
  PROVE  Min(T) \in T /\ \A y \in T : Min(T) <= y
<1>1. PICK x \in T : \A y \in T : ~ (<<y, x>> \in OpToRel(<, Nat))
  BY NatLessThanWellFounded, WFMin
<1>2. \A y \in T : y < x => <<y, x>> \in OpToRel(<, Nat)
  BY DEF OpToRel
<1>3. \A y \in T : ~ (y < x)
  BY <1>1, <1>2, Zenon
<1>4. \A y \in T : x <= y
  BY <1>3
<1> QED BY <1>4 DEF Min

(* A finite set of numbers has its elements by increasing number: the place of each is the   *)
(* number of those that are not above it.                                                    *)
LEMMA ByIdIs ==
  ASSUME NEW S \in SUBSET Nat, IsFiniteSet(S)
  PROVE  LET n == Cardinality(S)
             s == ById(S)
         IN  /\ n \in Nat /\ s \in [1..n -> S]
             /\ \A i, j \in 1..n : i < j => s[i] < s[j]
             /\ \A x \in S : \E i \in 1..n : s[i] = x
<1> DEFINE n == Cardinality(S)
           UpTo(x) == {y \in S : y <= x}
           r == [x \in S |-> Cardinality(UpTo(x))]
<1>1. n \in Nat /\ IsFiniteSet(1..n) /\ Cardinality(1..n) = n
  BY FS_CardinalityType, FS_Interval
<1>2. ASSUME NEW x \in S
      PROVE  IsFiniteSet(UpTo(x)) /\ Cardinality(UpTo(x)) \in 1..n
  <2>1. IsFiniteSet(UpTo(x)) /\ Cardinality(UpTo(x)) <= n /\ Cardinality(UpTo(x)) \in Nat
    BY FS_Subset, FS_CardinalityType
  <2>2. x \in UpTo(x)
    OBVIOUS
  <2>3. Cardinality(UpTo(x)) # 0
    BY <2>1, <2>2, FS_EmptySet
  <2> QED BY <1>1, <2>1, <2>3
<1>3. ASSUME NEW x \in S, NEW y \in S, x < y PROVE r[x] < r[y]
  <2>1. UpTo(x) \in SUBSET UpTo(y) /\ y \in UpTo(y) /\ y \notin UpTo(x)
    <3>1. \A z \in S : z \in Nat
      OBVIOUS
    <3>2. \A z \in S : z <= x => z <= y
      BY <1>3, <3>1
    <3>3. y <= y /\ ~(y <= x)
      BY <1>3, <3>1
    <3> QED BY <3>2, <3>3
  <2>2. Cardinality(UpTo(x)) <= Cardinality(UpTo(y)) /\ Cardinality(UpTo(x)) # Cardinality(UpTo(y))
    BY <1>2, <2>1, FS_Subset
  <2>3. Cardinality(UpTo(x)) \in Nat /\ Cardinality(UpTo(y)) \in Nat
    BY <1>2
  <2> QED BY <2>2, <2>3
<1>4. r \in [S -> 1..n]
  BY <1>2
<1> HIDE DEF r
<1>5. r \in Injection(S, 1..n)
  <2>1. \A x, y \in S : r[x] = r[y] => x = y
    <3> SUFFICES ASSUME NEW x \in S, NEW y \in S, r[x] = r[y] PROVE x = y
      OBVIOUS
    <3>1. r[x] \in Nat /\ r[y] \in Nat
      BY <1>4
    <3> QED BY <1>3, <3>1
  <2> QED BY <1>4, <2>1 DEF Injection, IsInjective
<1>6. r \in Surjection(S, 1..n)
  BY <1>1, <1>5, FS_Injection
<1>7. \A i \in 1..n : \E x \in S : r[x] = i
  BY <1>6 DEF Surjection
<1> DEFINE s0 == [i \in 1..n |-> CHOOSE x \in S : r[x] = i]
<1>8. \A i \in 1..n : s0[i] \in S /\ r[s0[i]] = i
  BY <1>7
<1>9. s0 \in [1..n -> S]
  BY <1>8
<1> HIDE DEF s0
<1>10. \A i, j \in 1..n : i < j => s0[i] < s0[j]
  <2> SUFFICES ASSUME NEW i \in 1..n, NEW j \in 1..n, i < j PROVE s0[i] < s0[j]
    OBVIOUS
  <2>1. s0[i] \in Nat /\ s0[j] \in Nat /\ r[s0[i]] = i /\ r[s0[j]] = j
    BY <1>8
  <2>2. ~(s0[j] < s0[i]) /\ s0[j] # s0[i]
    BY <1>1, <1>3, <1>8, <2>1
  <2> QED BY <2>1, <2>2
<1> DEFINE s == ById(S)
<1>11. s \in [1..n -> S] /\ \A i, j \in 1..n : i < j => s[i] < s[j]
  BY <1>9, <1>10 DEF ById
<1> HIDE DEF s
<1>12. s \in Injection(1..n, S)
  <2>1. \A i, j \in 1..n : s[i] = s[j] => i = j
    <3> SUFFICES ASSUME NEW i \in 1..n, NEW j \in 1..n, s[i] = s[j] PROVE i = j
      OBVIOUS
    <3>1. s[i] \in Nat
      BY <1>11
    <3>2. ~(s[i] < s[j]) /\ ~(s[j] < s[i])
      BY <3>1
    <3>3. ~(i < j) /\ ~(j < i)
      BY <1>11, <3>2
    <3> QED BY <1>1, <3>3
  <2> QED BY <1>11, <2>1 DEF Injection, IsInjective
<1>13. s \in Surjection(1..n, S)
  BY <1>1, <1>12, FS_Injection
<1>14. \A x \in S : \E i \in 1..n : s[i] = x
  BY <1>13 DEF Surjection
<1> QED BY <1>1, <1>11, <1>14 DEF s

-----------------------------------------------------------------------------
(* The types *)

VarMap == UNION {[D -> Defs] : D \in SUBSET Ids}
DueMap == UNION {[D -> Nat] : D \in SUBSET Ids}
Tables == UNION {[D -> Window] : D \in SUBSET Ids}
Result == [id : Ids, def : Defs, acc : Seq(Sample)]
Turn == [pc : {"sleep", "polled", "scan"}, polled : Int, seen : Int, vars : VarMap, scanAt : Nat,
         due : DueMap, todo : SUBSET Ids]

CfgType == now \in 0..MaxTime /\ generation \in Nat /\ past \in Seq(Nat) /\ vars_cfg \in VarMap
SchedType ==
    /\ sched \in [Buses -> Turn]
    /\ \A b \in Buses : /\ sched[b].pc = "scan" <=> sched[b].todo # {}
                        /\ sched[b].todo \subseteq DOMAIN sched[b].vars
QueueType == s_sample_queue \in Seq(Sample) /\ Len(s_sample_queue) <= QueueSize
AggType == agg \in [pc : {"wait", "woken"}, polled : Int, seen : Int, msg : Sample \cup {NoSample}]
TableType == s_agg_table \in Tables
SinksType == s_sinks \in [Sinks -> Seq(Nat)] /\ \A k \in Sinks : Len(s_sinks[k]) <= SinkSize
ReportType == published \in Seq(Result)
TakenType == taken \in 0..MaxSamples

Types == CfgType /\ SchedType /\ QueueType /\ AggType /\ TableType /\ SinksType /\ ReportType /\ TakenType

LEMMA Maps ==
  /\ \A f \in VarMap : DOMAIN f \in SUBSET Ids /\ \A i \in DOMAIN f : f[i] \in Defs
  /\ \A f \in DueMap : DOMAIN f \in SUBSET Ids /\ \A i \in DOMAIN f : f[i] \in Nat
  /\ \A f \in Tables : DOMAIN f \in SUBSET Ids /\ f \in [DOMAIN f -> Window]
  /\ \A D \in SUBSET Ids : /\ [D -> Defs] \subseteq VarMap /\ [D -> Nat] \subseteq DueMap
                           /\ [D -> Window] \subseteq Tables
BY DEF VarMap, DueMap, Tables

LEMMA Empty == <<>> \in VarMap /\ <<>> \in DueMap /\ <<>> \in Tables
<1>1. {} \in SUBSET Ids /\ \A S : <<>> \in [{} -> S]
  OBVIOUS
<1> QED BY <1>1, Maps

LEMMA DefIs ==
  ASSUME NEW d \in Defs
  PROVE  d.bus \in Buses /\ d.enabled \in BOOLEAN /\ d.sample \in Nat /\ d.log \in Nat
BY EngineAssumption

LEMMA TypeParts == Types /\ lost \subseteq 1..taken => TypeOK
<1> SUFFICES ASSUME Types, lost \subseteq 1..taken PROVE TypeOK
  OBVIOUS
<1>1. DOMAIN vars_cfg \subseteq Ids /\ \A id \in DOMAIN vars_cfg : vars_cfg[id] \in Defs
  BY Maps DEF Types, CfgType
<1>2. DOMAIN s_agg_table \subseteq Ids /\ \A id \in DOMAIN s_agg_table : s_agg_table[id] \in Window
  BY Maps DEF Types, TableType
<1>3. agg.pc \in {"wait", "woken"} /\ agg.msg \in Sample \cup {NoSample}
  BY DEF Types, AggType
<1>4. \A b \in Buses : /\ sched[b].pc \in {"sleep", "polled", "scan"}
                       /\ sched[b].pc = "scan" <=> sched[b].todo # {}
                       /\ sched[b].todo \subseteq DOMAIN sched[b].vars
  BY DEF Types, SchedType, Turn
<1> QED
  BY <1>1, <1>2, <1>3, <1>4, Zenon
     DEF Types, CfgType, QueueType, SinksType, TakenType, TypeOK

LEMMA InitTypes == Init => Types
<1> SUFFICES ASSUME Init PROVE Types
  OBVIOUS
<1> USE EngineAssumption
<1>1. CfgType
  <2>1. InitialVars \in VarMap
    BY DEF VarMap
  <2> QED BY <2>1 DEF Init, CfgType
<1>2. SchedType
  <2> DEFINE first == [pc |-> "sleep", polled |-> NoEpoch, seen |-> NoEpoch,
                       vars |-> <<>>, scanAt |-> 0, due |-> <<>>, todo |-> {}]
  <2>1. first \in Turn
    BY Empty DEF Turn, NoEpoch
  <2>2. first.pc = "sleep" /\ first.todo = {}
    OBVIOUS
  <2> HIDE DEF first
  <2>3. sched = [b \in Buses |-> first]
    BY DEF Init, first
  <2> QED BY <2>1, <2>2, <2>3 DEF SchedType
<1>3. QueueType
  BY DEF Init, QueueType
<1>4. AggType
  BY DEF Init, AggType, NoEpoch
<1>5. TableType
  BY Empty DEF Init, TableType
<1>6. SinksType
  BY DEF Init, SinksType
<1>7. ReportType /\ TakenType
  BY DEF Init, ReportType, TakenType
<1> QED BY <1>1, <1>2, <1>3, <1>4, <1>5, <1>6, <1>7 DEF Types

(* The schedulers *)

LEMMA TurnIs ==
  ASSUME NEW u \in Turn
  PROVE  /\ u.pc \in {"sleep", "polled", "scan"} /\ u.polled \in Int /\ u.seen \in Int
         /\ u.vars \in VarMap /\ u.scanAt \in Nat /\ u.due \in DueMap /\ u.todo \in SUBSET Ids
BY DEF Turn

LEMMA ScanningIs ==
  ASSUME NEW seen \in Int, NEW variables \in VarMap, NEW scanAt \in Nat,
         NEW due \in DueMap, NEW todo \in SUBSET Ids, todo \subseteq DOMAIN variables
  PROVE  LET u == Scanning(seen, variables, scanAt, due, todo)
         IN  /\ u \in Turn /\ (u.pc = "scan" <=> u.todo # {}) /\ u.todo \subseteq DOMAIN u.vars
<1> DEFINE u == Scanning(seen, variables, scanAt, due, todo)
<1>1. CASE todo = {}
  <2>1. u = [pc |-> "sleep", polled |-> NoEpoch, seen |-> seen, vars |-> <<>>, scanAt |-> 0,
             due |-> due, todo |-> {}]
    BY <1>1 DEF Scanning
  <2> HIDE DEF u
  <2>2. u \in Turn
    BY <2>1, Empty DEF Turn, NoEpoch
  <2> QED BY <2>1, <2>2 DEF u
<1>2. CASE todo # {}
  <2>1. u = [pc |-> "scan", polled |-> NoEpoch, seen |-> seen, vars |-> variables, scanAt |-> scanAt,
             due |-> due, todo |-> todo]
    BY <1>2 DEF Scanning
  <2> HIDE DEF u
  <2>2. u \in Turn
    BY <2>1 DEF Turn, NoEpoch
  <2> QED BY <1>2, <2>1, <2>2 DEF u
<1> QED BY <1>1, <1>2

LEMMA PollTypes ==
  ASSUME SchedType, CfgType, NEW b \in Buses, SchedPoll(b)
  PROVE  SchedType'
<1> DEFINE u == [sched[b] EXCEPT !.pc = "polled", !.polled = generation]
<1>1. sched[b] \in Turn /\ sched[b].pc = "sleep" /\ generation \in Int
  BY DEF SchedType, SchedPoll, CfgType
<1>2. u \in Turn /\ u.pc = "polled" /\ u.todo = sched[b].todo /\ u.vars = sched[b].vars
  BY <1>1 DEF Turn
<1>3. sched' = [sched EXCEPT ![b] = u]
  BY DEF SchedPoll
<1>4. sched[b].todo = {}
  BY <1>1 DEF SchedType
<1> HIDE DEF u
<1>5. \A c \in Buses : sched'[c] = IF c = b THEN u ELSE sched[c]
  BY <1>3 DEF SchedType
<1> QED BY <1>2, <1>3, <1>4, <1>5 DEF SchedType

LEMMA ScanTypes ==
  ASSUME SchedType, CfgType, NEW b \in Buses, SchedScan(b)
  PROVE  SchedType'
<1> DEFINE due == IF sched[b].polled # sched[b].seen THEN Rebuilt(b) ELSE sched[b].due
           u == Scanning(sched[b].polled, vars_cfg, now, due, Due(b, due))
<1>1. sched[b] \in Turn /\ now \in Nat /\ vars_cfg \in VarMap /\ DOMAIN vars_cfg \in SUBSET Ids
  BY Maps, EngineAssumption DEF SchedType, CfgType
<1>2. Rebuilt(b) \in DueMap
  <2> DEFINE D == {i \in DOMAIN vars_cfg : vars_cfg[i].bus = b}
  <2>1. D \in SUBSET Ids /\ Rebuilt(b) \in [D -> Nat]
    BY <1>1 DEF Rebuilt
  <2> HIDE DEF D
  <2> QED BY <2>1, Maps
<1>3. due \in DueMap
  BY <1>1, <1>2, TurnIs
<1>4. Due(b, due) \in SUBSET Ids /\ Due(b, due) \subseteq DOMAIN vars_cfg
  BY <1>1 DEF Due
<1>5. sched' = [sched EXCEPT ![b] = u]
  BY Zenon DEF SchedScan
<1> HIDE DEF due
<1>6. u \in Turn /\ (u.pc = "scan" <=> u.todo # {}) /\ u.todo \subseteq DOMAIN u.vars
  BY <1>1, <1>3, <1>4, ScanningIs, TurnIs
<1> HIDE DEF u
<1>7. \A c \in Buses : sched'[c] = IF c = b THEN u ELSE sched[c]
  BY <1>5 DEF SchedType
<1> QED BY <1>5, <1>6, <1>7 DEF SchedType

LEMMA ReadIs ==
  ASSUME SchedType, NEW b \in Buses, sched[b].pc = "scan"
  PROVE  LET id == Min(sched[b].todo)
         IN  id \in sched[b].todo /\ id \in Ids /\ sched[b].vars[id] \in Defs
<1>1. sched[b] \in Turn /\ sched[b].todo # {} /\ sched[b].todo \subseteq DOMAIN sched[b].vars
  BY DEF SchedType
<1>2. sched[b].todo \in SUBSET Ids /\ sched[b].todo \in SUBSET Nat /\ sched[b].vars \in VarMap
  BY <1>1, TurnIs, EngineAssumption
<1>3. Min(sched[b].todo) \in sched[b].todo
  BY <1>1, <1>2, LeastNumber
<1> QED BY <1>1, <1>2, <1>3, Maps

LEMMA ReadTypes ==
  ASSUME SchedType, NEW b \in Buses, SchedRead(b)
  PROVE  SchedType'
<1> DEFINE id == Min(sched[b].todo)
           def == sched[b].vars[id]
           due == [sched[b].due EXCEPT ![id] = sched[b].scanAt + def.sample]
           u == Scanning(sched[b].seen, sched[b].vars, sched[b].scanAt, due, sched[b].todo \ {id})
<1>1. sched[b] \in Turn /\ sched[b].pc = "scan" /\ sched[b].todo \subseteq DOMAIN sched[b].vars
  BY DEF SchedType, SchedRead
<1>2. id \in Ids /\ def \in Defs
  BY <1>1, ReadIs
<1>3. sched[b].scanAt + def.sample \in Nat
  BY <1>1, <1>2, TurnIs, DefIs
<1>4. sched' = [sched EXCEPT ![b] = u]
  BY DEF SchedRead
<1> HIDE DEF id, def
<1>5. due \in DueMap
  <2>1. sched[b].due \in DueMap
    BY <1>1, TurnIs
  <2>2. PICK D \in SUBSET Ids : sched[b].due \in [D -> Nat]
    BY <2>1 DEF DueMap
  <2>3. due \in [D -> Nat]
    BY <1>3, <2>2
  <2> HIDE DEF due
  <2> QED BY <2>3, Maps
<1> HIDE DEF due
<1>6. u \in Turn /\ (u.pc = "scan" <=> u.todo # {}) /\ u.todo \subseteq DOMAIN u.vars
  <2>1. /\ sched[b].seen \in Int /\ sched[b].vars \in VarMap /\ sched[b].scanAt \in Nat
        /\ sched[b].todo \ {id} \in SUBSET Ids /\ sched[b].todo \ {id} \subseteq DOMAIN sched[b].vars
    BY <1>1, TurnIs
  <2> QED BY <1>5, <2>1, ScanningIs
<1> HIDE DEF u
<1>7. \A c \in Buses : sched'[c] = IF c = b THEN u ELSE sched[c]
  BY <1>4 DEF SchedType
<1> QED BY <1>4, <1>6, <1>7 DEF SchedType

-----------------------------------------------------------------------------
(* The operators of the aggregation task *)

LEMMA TableIs ==
  ASSUME NEW t \in Tables
  PROVE  /\ DOMAIN t \in SUBSET Ids
         /\ \A id \in DOMAIN t : /\ t[id] \in Window
                                 /\ t[id].def \in Defs /\ t[id].acc \in Seq(Sample) /\ t[id].due \in Nat
<1>1. DOMAIN t \in SUBSET Ids /\ \A id \in DOMAIN t : t[id] \in Window
  BY Maps
<1> QED BY <1>1 DEF Window

(* The table a turn of the aggregation task works on: windows that were open stay open. *)
LEMMA CurrentIs ==
  ASSUME CfgType, TableType
  PROVE  /\ CurrentTable \in Tables
         /\ \A id \in DOMAIN CurrentTable :
               CurrentTable[id].acc = IF id \in DOMAIN s_agg_table THEN s_agg_table[id].acc ELSE <<>>
         /\ \A id \in DOMAIN s_agg_table : Enabled(id) => id \in DOMAIN CurrentTable
         /\ agg.polled # agg.seen =>
               /\ \A id : id \in DOMAIN CurrentTable <=> Enabled(id)
               /\ \A id \in DOMAIN CurrentTable : CurrentTable[id].def = vars_cfg[id]
<1> DEFINE D == {i \in DOMAIN vars_cfg : vars_cfg[i].enabled}
<1>1. s_agg_table \in Tables /\ vars_cfg \in VarMap /\ now \in Nat
  BY EngineAssumption DEF CfgType, TableType
<1>2. D \in SUBSET Ids /\ D \subseteq DOMAIN vars_cfg /\ \A id : id \in D <=> Enabled(id)
  BY <1>1, Maps DEF Enabled
<1>3. ASSUME NEW id \in D
      PROVE  /\ RebuiltTable[id] \in Window /\ RebuiltTable[id].def = vars_cfg[id]
             /\ RebuiltTable[id].acc = IF id \in DOMAIN s_agg_table THEN s_agg_table[id].acc ELSE <<>>
  <2>1. vars_cfg[id] \in Defs
    BY <1>1, <1>2, Maps
  <2>2. vars_cfg[id].log \in Nat
    BY <2>1, DefIs
  <2>3. CASE id \in DOMAIN s_agg_table
    <3>1. s_agg_table[id] \in Window
      BY <1>1, <2>3, TableIs
    <3>2. RebuiltTable[id] = [s_agg_table[id] EXCEPT !.def = vars_cfg[id]]
      BY <2>3 DEF RebuiltTable
    <3> QED BY <2>1, <2>3, <3>1, <3>2 DEF Window
  <2>4. CASE id \notin DOMAIN s_agg_table
    <3>1. RebuiltTable[id] = [def |-> vars_cfg[id], acc |-> <<>>, due |-> now + vars_cfg[id].log]
      BY <2>4 DEF RebuiltTable
    <3> QED BY <1>1, <2>1, <2>2, <2>4, <3>1 DEF Window
  <2> QED BY <2>3, <2>4
<1>4. DOMAIN RebuiltTable = D /\ RebuiltTable = [id \in D |-> RebuiltTable[id]]
  BY DEF RebuiltTable
<1> HIDE DEF D
<1>5. RebuiltTable \in [D -> Window]
  BY <1>3, <1>4
<1>6. RebuiltTable \in Tables
  BY <1>2, <1>5, Maps
<1>7. CASE agg.polled # agg.seen
  <2>1. CurrentTable = RebuiltTable
    BY <1>7 DEF CurrentTable
  <2> QED BY <1>2, <1>3, <1>4, <1>6, <2>1
<1>8. CASE agg.polled = agg.seen
  <2>1. CurrentTable = s_agg_table
    BY <1>8 DEF CurrentTable
  <2> QED BY <1>1, <1>8, <2>1
<1> QED BY <1>7, <1>8

LEMMA SampleIs ==
  ASSUME NEW m \in Sample
  PROVE  m.id \in Ids /\ m.n \in Nat /\ m.id # 0 /\ m # NoSample
BY EngineAssumption DEF Sample, NoSample

LEMMA NoSampleIs == NoSample.id = 0 /\ NoSample.n = 0 /\ NoSample.id \notin Ids
BY EngineAssumption DEF NoSample

LEMMA FoldedIs ==
  ASSUME NEW t \in Tables, NEW m \in Sample \cup {NoSample}
  PROVE  LET f == Folded(t, m)
         IN  /\ f \in Tables /\ DOMAIN f = DOMAIN t
             /\ \A id \in DOMAIN t :
                   /\ f[id].def = t[id].def /\ f[id].due = t[id].due
                   /\ f[id].acc = IF id = m.id THEN Append(t[id].acc, m) ELSE t[id].acc
             /\ m.id \in DOMAIN t => m \in Sample
<1> DEFINE f == Folded(t, m)
<1>1. DOMAIN t \in SUBSET Ids
  BY TableIs
<1>2. CASE m.id \in DOMAIN t
  <2>1. m \in Sample
    BY <1>1, <1>2, NoSampleIs
  <2>2. t[m.id] \in Window /\ t[m.id].acc \in Seq(Sample)
    BY <1>2, TableIs
  <2> DEFINE w == [t[m.id] EXCEPT !.acc = Append(@, m)]
  <2>3. Append(t[m.id].acc, m) \in Seq(Sample)
    BY <2>1, <2>2
  <2>4. w \in Window /\ w.def = t[m.id].def /\ w.due = t[m.id].due /\ w.acc = Append(t[m.id].acc, m)
    BY <2>2, <2>3 DEF Window
  <2>5. f = [t EXCEPT ![m.id] = w]
    BY <1>2 DEF Folded
  <2>6. t \in [DOMAIN t -> Window]
    BY Maps
  <2> HIDE DEF w, f
  <2>7. f \in [DOMAIN t -> Window]
    BY <2>4, <2>5, <2>6
  <2>8. f \in Tables
    BY <1>1, <2>7, Maps
  <2> QED BY <2>1, <2>4, <2>5, <2>6, <2>7, <2>8 DEF f
<1>3. CASE m.id \notin DOMAIN t
  BY <1>3 DEF Folded
<1> QED BY <1>2, <1>3

LEMMA ReopenedIs ==
  ASSUME NEW t \in Tables, now \in Nat
  PROVE  LET r == Reopened(t)
         IN  /\ r \in Tables /\ DOMAIN r = DOMAIN t
             /\ \A id \in DOMAIN t :
                   /\ r[id].def = t[id].def
                   /\ r[id].acc = IF t[id].due <= now THEN <<>> ELSE t[id].acc
<1> DEFINE r == Reopened(t)
<1>1. DOMAIN t \in SUBSET Ids
  BY TableIs
<1>2. ASSUME NEW id \in DOMAIN t
      PROVE  /\ r[id] \in Window /\ r[id].def = t[id].def
             /\ r[id].acc = IF t[id].due <= now THEN <<>> ELSE t[id].acc
  <2>1. t[id] \in Window /\ t[id].def \in Defs
    BY TableIs
  <2>2. CASE t[id].due <= now
    <3> DEFINE due == now + t[id].def.log
    <3>1. r[id] = [t[id] EXCEPT !.acc = <<>>, !.due = due]
      BY <2>2 DEF Reopened
    <3>2. due \in Nat
      BY <2>1, DefIs
    <3> HIDE DEF r, due
    <3>3. r[id] \in Window /\ r[id].def = t[id].def /\ r[id].acc = <<>>
      <4>1. <<>> \in Seq(Sample)
        OBVIOUS
      <4> QED BY <2>1, <3>1, <3>2, <4>1 DEF Window
    <3> QED BY <2>2, <3>3
  <2>3. CASE ~(t[id].due <= now)
    <3>1. r[id] = t[id]
      BY <2>3 DEF Reopened
    <3> HIDE DEF r
    <3> QED BY <2>1, <2>3, <3>1
  <2> QED BY <2>2, <2>3
<1>3. DOMAIN r = DOMAIN t /\ r = [id \in DOMAIN t |-> r[id]]
  BY DEF Reopened
<1> HIDE DEF r
<1>4. r \in [DOMAIN t -> Window]
  BY <1>2, <1>3
<1>5. r \in Tables
  BY <1>1, <1>4, Maps
<1> QED BY <1>2, <1>3, <1>5 DEF r

(* One result per window that closes, and no other. *)
LEMMA ResultsIs ==
  ASSUME NEW t \in Tables
  PROVE  LET rs == Results(t)
         IN  /\ rs \in Seq(Result)
             /\ \A k \in 1..Len(rs) :
                   /\ rs[k].id \in Closing(t)
                   /\ rs[k].def = t[rs[k].id].def /\ rs[k].acc = t[rs[k].id].acc
             /\ \A k, l \in 1..Len(rs) : k < l => rs[k].id < rs[l].id
             /\ \A id \in Closing(t) : \E k \in 1..Len(rs) : rs[k].id = id
<1> DEFINE rs == Results(t)
           C == Closing(t)
           n == Cardinality(C)
           s == ById(C)
<1>1. DOMAIN t \in SUBSET Ids /\ C \subseteq DOMAIN t
  BY TableIs DEF Closing
<1>2. C \in SUBSET Nat /\ IsFiniteSet(C)
  BY <1>1, EngineAssumption, FS_Subset
<1>3. /\ n \in Nat /\ s \in [1..n -> C]
      /\ \A i, j \in 1..n : i < j => s[i] < s[j]
      /\ \A x \in C : \E i \in 1..n : s[i] = x
  BY <1>2, ByIdIs
<1>4. rs = [k \in 1..n |-> [id |-> s[k], def |-> t[s[k]].def, acc |-> t[s[k]].acc]]
  BY DEF Results
<1> HIDE DEF rs, C, n, s
<1>5. \A k \in 1..n : [id |-> s[k], def |-> t[s[k]].def, acc |-> t[s[k]].acc] \in Result
  <2> SUFFICES ASSUME NEW k \in 1..n
               PROVE  [id |-> s[k], def |-> t[s[k]].def, acc |-> t[s[k]].acc] \in Result
    OBVIOUS
  <2>1. s[k] \in DOMAIN t /\ s[k] \in Ids
    BY <1>1, <1>3
  <2>2. t[s[k]].def \in Defs /\ t[s[k]].acc \in Seq(Sample)
    BY <2>1, TableIs
  <2> QED BY <2>1, <2>2 DEF Result
<1>6. rs \in Seq(Result) /\ Len(rs) = n
  BY <1>3, <1>4, <1>5
<1>7. \A k \in 1..n : rs[k].id = s[k] /\ rs[k].def = t[s[k]].def /\ rs[k].acc = t[s[k]].acc
  BY <1>4
<1>8. \A k \in 1..n : s[k] \in C
  BY <1>3
<1> QED BY <1>3, <1>6, <1>7, <1>8 DEF C, rs

-----------------------------------------------------------------------------
(* Type correctness *)

LEMMA EditTypes ==
  ASSUME CfgType, EditConfig
  PROVE  CfgType'
<1>1. generation' \in Nat /\ past' \in Seq(Nat) /\ now' = now
  BY DEF EditConfig, NewGeneration, CfgType
<1>2. vars_cfg \in VarMap /\ DOMAIN vars_cfg \in SUBSET Ids
  BY Maps DEF CfgType
<1>3. vars_cfg' \in VarMap
  <2>1. CASE UNCHANGED vars_cfg
    BY <1>2, <2>1
  <2>2. ASSUME NEW id \in Ids, NEW d \in Defs,
               vars_cfg' = [i \in DOMAIN vars_cfg \cup {id} |-> IF i = id THEN d ELSE vars_cfg[i]]
        PROVE  vars_cfg' \in VarMap
    <3> DEFINE D == DOMAIN vars_cfg \cup {id}
    <3>1. D \in SUBSET Ids /\ vars_cfg' \in [D -> Defs]
      BY <1>2, <2>2, Maps
    <3> HIDE DEF D
    <3> QED BY <3>1, Maps
  <2>3. ASSUME NEW id \in DOMAIN vars_cfg,
               vars_cfg' = [i \in DOMAIN vars_cfg \ {id} |-> vars_cfg[i]]
        PROVE  vars_cfg' \in VarMap
    <3> DEFINE D == DOMAIN vars_cfg \ {id}
    <3>1. D \in SUBSET Ids /\ vars_cfg' \in [D -> Defs]
      BY <1>2, <2>3, Maps
    <3> HIDE DEF D
    <3> QED BY <3>1, Maps
  <2> QED BY <2>1, <2>2, <2>3 DEF EditConfig
<1> QED BY <1>1, <1>3 DEF CfgType

LEMMA RestoreTypes ==
  ASSUME CfgType, RestoreFile
  PROVE  CfgType'
<1>1. PICK f \in Files : NewGeneration(f.generation + 1) /\ vars_cfg' = f.vars
  BY DEF RestoreFile
<1>2. f.generation \in Nat /\ f.vars \in VarMap
  BY EngineAssumption DEF VarMap
<1>3. generation' \in Nat /\ past' \in Seq(Nat)
  BY <1>1, <1>2 DEF NewGeneration, CfgType
<1> QED BY <1>1, <1>2, <1>3 DEF RestoreFile, CfgType

(* What a read does to the queue and to the count of the samples. *)
LEMMA ReadQueues ==
  ASSUME Types, NEW b \in Buses, SchedRead(b)
  PROVE  \/ UNCHANGED <<s_sample_queue, taken, lost>>
         \/ /\ taken' = taken + 1 /\ taken' \in 0..MaxSamples
            /\ \/ \E s \in Sample : /\ s.n = taken'
                                    /\ Len(s_sample_queue) < QueueSize
                                    /\ s_sample_queue' = Append(s_sample_queue, s) /\ UNCHANGED lost
               \/ lost' = lost \cup {taken'} /\ UNCHANGED s_sample_queue
<1> DEFINE id == Min(sched[b].todo)
           def == sched[b].vars[id]
           s == [id |-> id, n |-> taken', def |-> def]
<1>1. id \in Ids /\ def \in Defs
  BY ReadIs DEF SchedRead, Types
<1>2. taken \in Nat /\ MaxSamples \in Nat
  BY EngineAssumption DEF Types, TakenType
<1>3. \/ UNCHANGED <<s_sample_queue, taken, lost>>
      \/ /\ taken < MaxSamples /\ taken' = taken + 1
         /\ \/ Len(s_sample_queue) < QueueSize /\ s_sample_queue' = Append(s_sample_queue, s)
               /\ UNCHANGED lost
            \/ lost' = lost \cup {taken'} /\ UNCHANGED s_sample_queue
  BY DEF SchedRead
<1> HIDE DEF id, def
<1>4. taken' = taken + 1 => s \in Sample /\ s.n = taken'
  BY <1>1, <1>2 DEF Sample
<1>5. taken < MaxSamples /\ taken' = taken + 1 => taken' \in 0..MaxSamples
  BY <1>2
<1> HIDE DEF s
<1> QED BY <1>3, <1>4, <1>5

LEMMA ReadQueueTypes ==
  ASSUME Types, NEW b \in Buses, SchedRead(b)
  PROVE  QueueType' /\ TakenType'
<1>1. s_sample_queue \in Seq(Sample) /\ Len(s_sample_queue) <= QueueSize /\ taken \in 0..MaxSamples
      /\ QueueSize \in Nat
  BY EngineAssumption DEF Types, QueueType, TakenType
<1>2. CASE UNCHANGED <<s_sample_queue, taken, lost>>
  BY <1>1, <1>2 DEF QueueType, TakenType
<1>3. ASSUME taken' \in 0..MaxSamples, NEW s \in Sample, Len(s_sample_queue) < QueueSize,
             s_sample_queue' = Append(s_sample_queue, s)
      PROVE  QueueType' /\ TakenType'
  BY <1>1, <1>3 DEF QueueType, TakenType
<1>4. ASSUME taken' \in 0..MaxSamples, UNCHANGED s_sample_queue
      PROVE  QueueType' /\ TakenType'
  BY <1>1, <1>4 DEF QueueType, TakenType
<1> QED BY <1>2, <1>3, <1>4, ReadQueues

LEMMA WakeTypes ==
  ASSUME QueueType, AggType, CfgType, AggWake
  PROVE  QueueType' /\ AggType'
<1>1. s_sample_queue \in Seq(Sample) /\ Len(s_sample_queue) <= QueueSize /\ QueueSize \in Nat
      /\ generation \in Int
  BY EngineAssumption DEF QueueType, CfgType
<1>2. CASE s_sample_queue = <<>>
  <2>1. UNCHANGED s_sample_queue
        /\ agg' = [agg EXCEPT !.pc = "woken", !.polled = generation, !.msg = NoSample]
    BY <1>2 DEF AggWake
  <2>2. agg' \in [pc : {"wait", "woken"}, polled : Int, seen : Int, msg : Sample \cup {NoSample}]
    BY <1>1, <2>1 DEF AggType
  <2> QED BY <1>1, <2>1, <2>2 DEF QueueType, AggType
<1>3. CASE s_sample_queue # <<>>
  <2>1. /\ s_sample_queue' = Tail(s_sample_queue)
        /\ agg' = [agg EXCEPT !.pc = "woken", !.polled = generation, !.msg = Head(s_sample_queue)]
    BY <1>3 DEF AggWake
  <2>2. Head(s_sample_queue) \in Sample
    BY <1>1, <1>3
  <2>3. agg' \in [pc : {"wait", "woken"}, polled : Int, seen : Int, msg : Sample \cup {NoSample}]
    BY <1>1, <2>1, <2>2 DEF AggType
  <2>4. s_sample_queue' \in Seq(Sample) /\ Len(s_sample_queue') <= QueueSize
    BY <1>1, <1>3, <2>1
  <2> QED BY <2>3, <2>4 DEF QueueType, AggType
<1> QED BY <1>2, <1>3

LEMMA AggIs ==
  ASSUME AggType
  PROVE  /\ agg.pc \in {"wait", "woken"} /\ agg.polled \in Int /\ agg.seen \in Int
         /\ agg.msg \in Sample \cup {NoSample}
BY DEF AggType

LEMMA RunTypes ==
  ASSUME Types, AggRun
  PROVE  AggType' /\ TableType' /\ SinksType' /\ ReportType'
<1> DEFINE folded == Folded(CurrentTable, agg.msg)
           results == Results(folded)
<1>1. now \in Nat /\ CurrentTable \in Tables
  BY CurrentIs, EngineAssumption DEF Types, CfgType
<1>2. agg.msg \in Sample \cup {NoSample} /\ agg.polled \in Int
  BY AggIs DEF Types
<1>3. folded \in Tables
  BY <1>1, <1>2, FoldedIs
<1>4. s_agg_table' = Reopened(folded) /\ Publish(results)
  BY DEF AggRun
<1> HIDE DEF folded
<1>5. results \in Seq(Result)
  BY <1>3, ResultsIs
<1> HIDE DEF results
<1>6. TableType'
  BY <1>1, <1>3, <1>4, ReopenedIs DEF TableType
<1>7. published \in Seq(Result) /\ s_sinks \in [Sinks -> Seq(Nat)] /\ SinkSize \in Nat
  BY EngineAssumption DEF Types, ReportType, SinksType
<1>8. ReportType'
  BY <1>4, <1>5, <1>7 DEF Publish, ReportType
<1>9. AggType'
  <2>1. agg' = [agg EXCEPT !.pc = "wait", !.polled = NoEpoch, !.seen = agg.polled, !.msg = NoSample]
    BY DEF AggRun
  <2>2. agg \in [pc : {"wait", "woken"}, polled : Int, seen : Int, msg : Sample \cup {NoSample}]
    BY DEF Types, AggType
  <2>3. agg' \in [pc : {"wait", "woken"}, polled : Int, seen : Int, msg : Sample \cup {NoSample}]
    <3>1. NoEpoch \in Int /\ NoSample \in Sample \cup {NoSample}
      BY DEF NoEpoch
    <3> QED BY <1>2, <2>1, <2>2, <3>1
  <2> QED BY <2>3 DEF AggType
<1>10. SinksType'
  <2> DEFINE new == [i \in 1..Len(results) |-> Len(published) + i]
             q(k) == s_sinks[k] \o new
             n(k) == IF Len(q(k)) < SinkSize THEN Len(q(k)) ELSE SinkSize
  <2>1. new \in Seq(Nat)
    <3>1. Len(results) \in Nat /\ Len(published) \in Nat
      BY <1>5, <1>7
    <3>2. \A i \in 1..Len(results) : Len(published) + i \in Nat
      BY <3>1
    <3> QED BY <3>1, <3>2
  <2>2. s_sinks' = [k \in Sinks |-> SubSeq(q(k), 1, n(k))]
    BY <1>4 DEF Publish
  <2> HIDE DEF new
  <2>3. ASSUME NEW k \in Sinks
        PROVE  SubSeq(q(k), 1, n(k)) \in Seq(Nat) /\ Len(SubSeq(q(k), 1, n(k))) <= SinkSize
    <3>1. q(k) \in Seq(Nat)
      BY <1>7, <2>1
    <3> HIDE DEF q
    <3>2. n(k) \in 0..Len(q(k)) /\ n(k) <= SinkSize
      BY <1>7, <3>1
    <3> HIDE DEF n
    <3>3. 1..n(k) \subseteq 1..Len(q(k)) /\ n(k) \in Nat
      BY <3>1, <3>2
    <3> QED BY <3>1, <3>2, <3>3
  <2> HIDE DEF q, n
  <2> QED BY <2>2, <2>3 DEF SinksType
<1> QED BY <1>6, <1>8, <1>9, <1>10

LEMMA DrainTypes ==
  ASSUME SinksType, NEW k \in Sinks, Drain(k)
  PROVE  SinksType'
<1>1. /\ s_sinks \in [Sinks -> Seq(Nat)] /\ s_sinks[k] \in Seq(Nat) /\ s_sinks[k] # <<>>
      /\ s_sinks' = [s_sinks EXCEPT ![k] = Tail(s_sinks[k])]
      /\ Len(s_sinks[k]) <= SinkSize /\ SinkSize \in Nat
  BY EngineAssumption DEF SinksType, Drain
<1>2. Tail(s_sinks[k]) \in Seq(Nat) /\ Len(Tail(s_sinks[k])) <= SinkSize
  BY <1>1
<1>3. \A l \in Sinks : s_sinks'[l] = IF l = k THEN Tail(s_sinks[k]) ELSE s_sinks[l]
  BY <1>1
<1>4. s_sinks' \in [Sinks -> Seq(Nat)]
  BY <1>1, <1>2
<1> QED BY <1>2, <1>3, <1>4 DEF SinksType

LEMMA TypesStep == Types /\ [Next]_vars => Types'
<1> SUFFICES ASSUME Types, [Next]_vars PROVE Types'
  OBVIOUS
<1> USE DEF Types
<1>1. CASE Tick
  <2>1. CfgType'
    BY <1>1, EngineAssumption DEF Tick, CfgType
  <2> QED BY <1>1, <2>1
      DEF Tick, SchedType, QueueType, AggType, TableType, SinksType, ReportType, TakenType
<1>2. CASE EditConfig
  <2>1. CfgType'
    BY <1>2, EditTypes
  <2> QED BY <1>2, <2>1
      DEF EditConfig, SchedType, QueueType, AggType, TableType, SinksType, ReportType, TakenType
<1>8. CASE RestoreFile
  <2>1. CfgType'
    BY <1>8, RestoreTypes
  <2> QED BY <1>8, <2>1
      DEF RestoreFile, SchedType, QueueType, AggType, TableType, SinksType, ReportType, TakenType
<1>3. ASSUME NEW b \in Buses, Sched(b) PROVE Types'
  <2>1. CASE SchedPoll(b)
    BY <2>1, PollTypes
       DEF SchedPoll, CfgType, QueueType, AggType, TableType, SinksType, ReportType, TakenType
  <2>2. CASE SchedScan(b)
    BY <2>2, ScanTypes
       DEF SchedScan, CfgType, QueueType, AggType, TableType, SinksType, ReportType, TakenType
  <2>3. CASE SchedRead(b)
    <3>1. SchedType' /\ QueueType' /\ TakenType'
      BY <2>3, ReadTypes, ReadQueueTypes
    <3> QED BY <2>3, <3>1 DEF SchedRead, CfgType, AggType, TableType, SinksType, ReportType
  <2> QED BY <1>3, <2>1, <2>2, <2>3 DEF Sched
<1>4. CASE AggWake
  BY <1>4, WakeTypes DEF AggWake, CfgType, SchedType, TableType, SinksType, ReportType, TakenType
<1>5. CASE AggRun
  BY <1>5, RunTypes DEF AggRun, CfgType, SchedType, QueueType, TakenType
<1>6. ASSUME NEW k \in Sinks, Drain(k) PROVE Types'
  BY <1>6, DrainTypes
     DEF Drain, CfgType, SchedType, QueueType, AggType, TableType, ReportType, TakenType
<1>7. CASE UNCHANGED vars
  BY <1>7 DEF vars, CfgType, SchedType, QueueType, AggType, TableType, SinksType, ReportType, TakenType
<1> QED BY <1>1, <1>2, <1>3, <1>4, <1>5, <1>6, <1>7, <1>8 DEF Next, Aggregation

-----------------------------------------------------------------------------
(* The order of the samples *)

Samples(s) == {s[i] : i \in 1..Len(s)}
Windows == 1..(Len(published) + 1)

\* Where a sample is while it is in the engine's memory or in a result.
Held == Waiting \cup UNION {Samples(WindowOf(id, p)) : id \in Ids, p \in Windows}

\* A number is given once, to a sample of one variable.
Numbered == \A s \in Held : s = NoSample \/ (s \in Sample /\ s.n \in 1..taken)
OneVariable == \A s, t \in Held : s.n = t.n => s.id = t.id

\* The parts of WindowsInOrder.
QueueInOrder ==
    /\ \A i, j \in 1..Len(s_sample_queue) : i < j => s_sample_queue[i].n < s_sample_queue[j].n
    /\ \A j \in 1..Len(s_sample_queue) : agg.msg.n < s_sample_queue[j].n
EachInOrder ==
    \A id \in Ids, p \in Windows :
        /\ \A i, j \in 1..Len(WindowOf(id, p)) : i < j => WindowOf(id, p)[i].n < WindowOf(id, p)[j].n
        /\ \A i \in 1..Len(WindowOf(id, p)) : WindowOf(id, p)[i].id = id
LaterIsLater ==
    \A id \in Ids, p, q \in Windows :
        p < q => \A i \in 1..Len(WindowOf(id, p)), j \in 1..Len(WindowOf(id, q)) :
                     WindowOf(id, p)[i].n < WindowOf(id, q)[j].n
WaitingIsLater ==
    \A id \in Ids, p \in Windows, s \in Waiting :
        s.id = id => \A i \in 1..Len(WindowOf(id, p)) : WindowOf(id, p)[i].n < s.n

OrderInv == QueueInOrder /\ EachInOrder /\ LaterIsLater /\ WaitingIsLater /\ Numbered /\ OneVariable

LEMMA OrderParts ==
  ASSUME Types, OrderInv
  PROVE  WindowsInOrder
<1> USE DEF OrderInv
<1>1. Increasing(s_sample_queue) /\ Before(<<agg.msg>>, s_sample_queue)
  <2>1. <<agg.msg>>[1] = agg.msg /\ \A i \in 1..Len(<<agg.msg>>) : i = 1
    OBVIOUS
  <2> QED BY <2>1 DEF QueueInOrder, Increasing, Before
<1>2. ASSUME NEW id \in Ids, NEW p \in 1..(Len(published) + 1)
      PROVE  LET acc == WindowOf(id, p)
             IN  /\ Increasing(acc) /\ \A i \in 1..Len(acc) : acc[i].id = id
                 /\ \A q \in (p + 1)..(Len(published) + 1) : Before(acc, WindowOf(id, q))
                 /\ \A s \in Waiting : s.id = id => Before(acc, <<s>>)
  <2>1. Increasing(WindowOf(id, p)) /\ \A i \in 1..Len(WindowOf(id, p)) : WindowOf(id, p)[i].id = id
    BY DEF EachInOrder, Windows, Increasing
  <2>2. ASSUME NEW q \in (p + 1)..(Len(published) + 1)
        PROVE  Before(WindowOf(id, p), WindowOf(id, q))
    <3>1. Len(published) \in Nat
      BY DEF Types, ReportType
    <3>2. p \in Windows /\ q \in Windows /\ p < q
      BY <3>1 DEF Windows
    <3> QED BY <3>2 DEF LaterIsLater, Before
  <2>3. ASSUME NEW s \in Waiting, s.id = id PROVE Before(WindowOf(id, p), <<s>>)
    <3>1. <<s>>[1] = s /\ \A i \in 1..Len(<<s>>) : i = 1
      OBVIOUS
    <3>2. \A i \in 1..Len(WindowOf(id, p)) : WindowOf(id, p)[i].n < s.n
      BY <2>3 DEF WaitingIsLater, Windows
    <3> QED BY <3>1, <3>2 DEF Before
  <2> QED BY <2>1, <2>2, <2>3
<1> QED BY <1>1, <1>2 DEF WindowsInOrder

LEMMA WindowIs ==
  ASSUME Types, NEW id \in Ids, NEW p \in Windows
  PROVE  WindowOf(id, p) \in Seq(Sample)
<1>1. published \in Seq(Result) /\ s_agg_table \in Tables /\ p \in Nat \ {0}
  BY DEF Types, ReportType, TableType, Windows
<1>2. CASE p <= Len(published)
  <2>1. published[p] \in Result
    BY <1>1, <1>2
  <2>2. published[p].acc \in Seq(Sample)
    BY <2>1 DEF Result
  <2> QED BY <1>2, <2>2 DEF WindowOf
<1>3. CASE ~(p <= Len(published))
  BY <1>1, <1>3, TableIs DEF WindowOf
<1> QED BY <1>2, <1>3

LEMMA HeldIs ==
  /\ \A s \in Waiting : s \in Held
  /\ \A id \in Ids, p \in Windows : \A i \in 1..Len(WindowOf(id, p)) : WindowOf(id, p)[i] \in Held
  /\ \A s \in Held :
        \/ s \in Waiting
        \/ \E id \in Ids, p \in Windows : \E i \in 1..Len(WindowOf(id, p)) : s = WindowOf(id, p)[i]
<1>1. ASSUME NEW id \in Ids, NEW p \in Windows, NEW i \in 1..Len(WindowOf(id, p))
      PROVE  WindowOf(id, p)[i] \in Held
  <2>1. WindowOf(id, p)[i] \in Samples(WindowOf(id, p))
    BY DEF Samples
  <2> QED BY <2>1 DEF Held
<1>2. ASSUME NEW s \in Held, s \notin Waiting
      PROVE  \E id \in Ids, p \in Windows : \E i \in 1..Len(WindowOf(id, p)) : s = WindowOf(id, p)[i]
  <2>1. PICK id \in Ids, p \in Windows : s \in Samples(WindowOf(id, p))
    BY <1>2 DEF Held
  <2>2. PICK i \in 1..Len(WindowOf(id, p)) : s = WindowOf(id, p)[i]
    BY <2>1 DEF Samples
  <2> QED BY <2>2
<1> QED BY <1>1, <1>2 DEF Held

(* No step puts anything into the engine but a sample just taken. *)
LEMMA HeldNumbers ==
  ASSUME Numbered, OneVariable, Types, taken' \in Nat,
         \/ Held' \subseteq Held \cup {NoSample} /\ taken' >= taken
         \/ \E s \in Sample : Held' \subseteq Held \cup {s} /\ s.n = taken' /\ taken' = taken + 1
  PROVE  Numbered' /\ OneVariable'
<1>1. taken \in Nat
  BY EngineAssumption DEF Types, TakenType
<1>2. CASE Held' \subseteq Held \cup {NoSample} /\ taken' >= taken
  <2>1. \A s \in Held' : s = NoSample \/ (s \in Sample /\ s.n \in 1..taken)
    BY <1>2 DEF Numbered
  <2>2. \A n \in 1..taken : n \in 1..taken' /\ n # 0
    BY <1>1, <1>2
  <2>3. Numbered'
    BY <2>1, <2>2 DEF Numbered
  <2>4. ASSUME NEW s \in Held', NEW t \in Held', s.n = t.n PROVE s.id = t.id
    <3>1. CASE s = NoSample \/ t = NoSample
      BY <2>1, <2>2, <2>4, <3>1, NoSampleIs
    <3>2. CASE s # NoSample /\ t # NoSample
      BY <1>2, <2>4, <3>2 DEF OneVariable
    <3> QED BY <3>1, <3>2
  <2> QED BY <2>3, <2>4 DEF OneVariable
<1>3. ASSUME NEW s \in Sample, Held' \subseteq Held \cup {s}, s.n = taken', taken' = taken + 1
      PROVE  Numbered' /\ OneVariable'
  <2>1. \A t \in Held : t = NoSample \/ (t \in Sample /\ t.n \in 1..taken)
    BY DEF Numbered
  <2>2. /\ \A n \in 1..taken : n \in 1..taken' /\ n # taken'
        /\ taken' \in 1..taken' /\ taken' # 0
    BY <1>1, <1>3
  <2>3. Numbered'
    BY <1>3, <2>1, <2>2 DEF Numbered
  <2>4. \A t \in Held : t.n # s.n
    BY <1>3, <2>1, <2>2, NoSampleIs
  <2>5. ASSUME NEW t \in Held', NEW u \in Held', t.n = u.n PROVE t.id = u.id
    <3>1. CASE t = s \/ u = s
      BY <1>3, <2>4, <2>5, <3>1
    <3>2. CASE t # s /\ u # s
      BY <1>3, <2>5, <3>2 DEF OneVariable
    <3> QED BY <3>1, <3>2
  <2> QED BY <2>3, <2>5 DEF OneVariable
<1> QED BY <1>2, <1>3

(* Steps that leave the windows alone. *)
LEMMA WindowsUnchanged ==
  ASSUME UNCHANGED <<published, s_agg_table>>
  PROVE  /\ UNCHANGED Windows /\ \A id, p : WindowOf(id, p)' = WindowOf(id, p)
         /\ EachInOrder => EachInOrder'
         /\ LaterIsLater => LaterIsLater'
         /\ \A S : Waiting' \subseteq Waiting \cup S => Held' \subseteq Held \cup S
<1>1. UNCHANGED Windows /\ \A id, p : WindowOf(id, p)' = WindowOf(id, p)
  BY DEF Windows, WindowOf
<1>2. EachInOrder => EachInOrder'
  BY <1>1 DEF EachInOrder
<1>3. LaterIsLater => LaterIsLater'
  BY <1>1 DEF LaterIsLater
<1>4. ASSUME NEW S, Waiting' \subseteq Waiting \cup S PROVE Held' \subseteq Held \cup S
  BY <1>1, <1>4 DEF Held
<1> QED BY <1>1, <1>2, <1>3, <1>4

LEMMA WaitingNumbers ==
  ASSUME Types, OrderInv, NEW s \in Waiting
  PROVE  s = NoSample \/ (s \in Sample /\ s.n \in 1..taken)
BY HeldIs DEF OrderInv, Numbered

LEMMA WindowNumbers ==
  ASSUME Types, OrderInv, NEW id \in Ids, NEW p \in Windows, NEW i \in 1..Len(WindowOf(id, p))
  PROVE  WindowOf(id, p)[i] \in Sample /\ WindowOf(id, p)[i].n \in 1..taken
<1> DEFINE s == WindowOf(id, p)[i]
<1>1. s \in Sample
  BY WindowIs
<1>2. s \in Held
  BY HeldIs
<1>3. s # NoSample
  BY <1>1, SampleIs
<1> QED BY <1>1, <1>2, <1>3 DEF OrderInv, Numbered

LEMMA QueueNumbers ==
  ASSUME Types, OrderInv, NEW i \in 1..Len(s_sample_queue)
  PROVE  s_sample_queue[i] \in Sample /\ s_sample_queue[i].n \in 1..taken
<1>1. s_sample_queue[i] \in Sample
  BY DEF Types, QueueType
<1>2. s_sample_queue[i] # NoSample
  BY <1>1, SampleIs
<1>3. s_sample_queue[i] \in Waiting
  BY DEF Waiting
<1> QED BY <1>1, <1>2, <1>3, WaitingNumbers

LEMMA MessageNumber ==
  ASSUME Types, OrderInv
  PROVE  /\ agg.msg.n \in 0..taken /\ (agg.msg.n = 0 => agg.msg = NoSample)
         /\ agg.msg = NoSample \/ agg.msg \in Sample
<1>1. agg.msg \in Waiting /\ taken \in Nat
  BY EngineAssumption DEF Waiting, Types, TakenType
<1>2. agg.msg = NoSample \/ (agg.msg \in Sample /\ agg.msg.n \in 1..taken)
  BY <1>1, WaitingNumbers
<1> QED BY <1>1, <1>2, NoSampleIs

LEMMA InitOrder == Init => OrderInv
<1> SUFFICES ASSUME Init PROVE OrderInv
  OBVIOUS
<1>1. Waiting = {NoSample}
  BY DEF Init, Waiting
<1>2. Windows = {1} /\ \A id \in Ids, p \in Windows : WindowOf(id, p) = <<>>
  BY DEF Init, Windows, WindowOf
<1>3. Held = {NoSample}
  BY <1>1, <1>2 DEF Held, Samples
<1>4. QueueInOrder
  BY DEF Init, QueueInOrder
<1>5. EachInOrder /\ LaterIsLater /\ WaitingIsLater
  BY <1>2 DEF EachInOrder, LaterIsLater, WaitingIsLater
<1>6. Numbered /\ OneVariable
  BY <1>3 DEF Numbered, OneVariable
<1> QED BY <1>4, <1>5, <1>6 DEF OrderInv

LEMMA SameOrder ==
  ASSUME OrderInv, UNCHANGED <<published, s_agg_table, s_sample_queue, agg, taken>>
  PROVE  OrderInv'
<1>1. UNCHANGED Windows /\ \A id, p : WindowOf(id, p)' = WindowOf(id, p)
  BY WindowsUnchanged
<1>2. UNCHANGED Waiting
  BY DEF Waiting
<1>3. UNCHANGED Held
  BY <1>1, <1>2 DEF Held
<1>4. QueueInOrder'
  BY DEF OrderInv, QueueInOrder
<1>5. EachInOrder' /\ LaterIsLater'
  BY WindowsUnchanged DEF OrderInv
<1>6. WaitingIsLater'
  BY <1>1, <1>2 DEF OrderInv, WaitingIsLater
<1>7. Numbered' /\ OneVariable'
  BY <1>3 DEF OrderInv, Numbered, OneVariable
<1> QED BY <1>4, <1>5, <1>6, <1>7 DEF OrderInv

(* What waits stays later than the windows if only NoSample or a new sample joins it. *)
LEMMA StillLater ==
  ASSUME Types, OrderInv, UNCHANGED <<published, s_agg_table>>,
         NEW s \in Sample \cup {NoSample}, Waiting' \subseteq Waiting \cup {s}, s = NoSample \/ s.n > taken
  PROVE  WaitingIsLater'
<1>1. UNCHANGED Windows /\ \A id, p : WindowOf(id, p)' = WindowOf(id, p)
  BY WindowsUnchanged
<1>2. ASSUME NEW id \in Ids, NEW p \in Windows, NEW t \in Waiting \cup {s}, t.id = id,
             NEW i \in 1..Len(WindowOf(id, p))
      PROVE  WindowOf(id, p)[i].n < t.n
  <2>1. CASE t \in Waiting
    BY <1>2, <2>1 DEF OrderInv, WaitingIsLater
  <2>2. CASE t = s
    <3>1. s # NoSample
      BY <1>2, <2>2, NoSampleIs
    <3>2. s \in Sample /\ s.n > taken /\ s.n \in Nat
      BY <3>1, SampleIs
    <3>3. WindowOf(id, p)[i].n \in 1..taken /\ taken \in Nat
      BY WindowNumbers, EngineAssumption DEF Types, TakenType
    <3> QED BY <2>2, <3>2, <3>3
  <2> QED BY <1>2, <2>1, <2>2
<1> QED BY <1>1, <1>2 DEF WaitingIsLater

LEMMA ReadOrder ==
  ASSUME Types, OrderInv, NEW b \in Buses, SchedRead(b)
  PROVE  OrderInv'
<1>1. UNCHANGED <<published, s_agg_table, agg>>
  BY DEF SchedRead
<1>2. taken \in Nat /\ s_sample_queue \in Seq(Sample)
  BY EngineAssumption DEF Types, TakenType, QueueType
<1>3. CASE UNCHANGED s_sample_queue /\ taken' \in Nat /\ taken' >= taken
  <2>1. Waiting' \subseteq Waiting \cup {NoSample}
    BY <1>1, <1>3 DEF Waiting
  <2>2. Held' \subseteq Held \cup {NoSample}
    BY <1>1, <2>1, WindowsUnchanged
  <2>3. QueueInOrder'
    BY <1>1, <1>3 DEF OrderInv, QueueInOrder
  <2>4. WaitingIsLater'
    BY <1>1, <2>1, StillLater
  <2>5. Numbered' /\ OneVariable'
    BY <1>3, <2>2, HeldNumbers DEF OrderInv
  <2> QED BY <1>1, <2>3, <2>4, <2>5, WindowsUnchanged DEF OrderInv
<1>4. ASSUME NEW s \in Sample, s.n = taken', taken' = taken + 1,
             s_sample_queue' = Append(s_sample_queue, s)
      PROVE  OrderInv'
  <2>1. /\ Len(s_sample_queue) \in Nat /\ Len(s_sample_queue') = Len(s_sample_queue) + 1
        /\ \A i \in 1..Len(s_sample_queue') :
              s_sample_queue'[i] = IF i <= Len(s_sample_queue) THEN s_sample_queue[i] ELSE s
    BY <1>2, <1>4
  <2>2. Waiting' \subseteq Waiting \cup {s}
    BY <1>1, <2>1 DEF Waiting
  <2>3. Held' \subseteq Held \cup {s}
    BY <1>1, <2>2, WindowsUnchanged
  <2>4. QueueInOrder'
    <3>1. ASSUME NEW i \in 1..Len(s_sample_queue) PROVE s_sample_queue[i].n \in Nat /\ s_sample_queue[i].n < s.n
      BY <1>2, <1>4, QueueNumbers
    <3>2. agg.msg.n < s.n
      BY <1>2, <1>4, MessageNumber
    <3>3. ASSUME NEW i \in 1..Len(s_sample_queue'), NEW j \in 1..Len(s_sample_queue'), i < j
          PROVE  s_sample_queue'[i].n < s_sample_queue'[j].n
      <4>1. i \in 1..Len(s_sample_queue) /\ s_sample_queue'[i] = s_sample_queue[i]
        BY <2>1, <3>3
      <4>2. CASE j <= Len(s_sample_queue)
        BY <2>1, <3>3, <4>1, <4>2 DEF OrderInv, QueueInOrder
      <4>3. CASE ~(j <= Len(s_sample_queue))
        BY <2>1, <3>1, <4>1, <4>3
      <4> QED BY <4>2, <4>3
    <3>4. ASSUME NEW j \in 1..Len(s_sample_queue') PROVE agg.msg.n < s_sample_queue'[j].n
      <4>1. CASE j <= Len(s_sample_queue)
        BY <2>1, <4>1 DEF OrderInv, QueueInOrder
      <4>2. CASE ~(j <= Len(s_sample_queue))
        BY <2>1, <3>2, <4>2
      <4> QED BY <4>1, <4>2
    <3> QED BY <1>1, <3>3, <3>4 DEF QueueInOrder
  <2>5. WaitingIsLater'
    BY <1>1, <1>2, <1>4, <2>2, StillLater
  <2>6. Numbered' /\ OneVariable'
    BY <1>2, <1>4, <2>3, HeldNumbers DEF OrderInv
  <2> QED BY <1>1, <2>4, <2>5, <2>6, WindowsUnchanged DEF OrderInv
<1> QED BY <1>2, <1>3, <1>4, ReadQueues

LEMMA WakeOrder ==
  ASSUME Types, OrderInv, AggWake
  PROVE  OrderInv'
<1>1. UNCHANGED <<published, s_agg_table, taken>>
  BY DEF AggWake
<1>2. taken \in Nat /\ s_sample_queue \in Seq(Sample)
  BY EngineAssumption DEF Types, TakenType, QueueType
<1>3. /\ s_sample_queue = <<>> => UNCHANGED s_sample_queue /\ agg'.msg = NoSample
      /\ s_sample_queue # <<>> =>
            s_sample_queue' = Tail(s_sample_queue) /\ agg'.msg = Head(s_sample_queue)
  BY DEF AggWake, Types, AggType
<1>4. Waiting' \subseteq Waiting \cup {NoSample} /\ QueueInOrder'
  <2>1. CASE s_sample_queue = <<>>
    BY <1>3, <2>1 DEF Waiting, QueueInOrder
  <2>2. CASE s_sample_queue # <<>>
    <3>1. /\ Len(s_sample_queue) \in Nat \ {0} /\ Len(s_sample_queue') = Len(s_sample_queue) - 1
          /\ \A i \in 1..Len(s_sample_queue') :
                s_sample_queue'[i] = s_sample_queue[i + 1] /\ i + 1 \in 1..Len(s_sample_queue)
          /\ agg'.msg = s_sample_queue[1] /\ 1 \in 1..Len(s_sample_queue)
      BY <1>2, <1>3, <2>2
    <3>2. Waiting' \subseteq Waiting
      BY <3>1 DEF Waiting
    <3>3. ASSUME NEW i \in 1..Len(s_sample_queue'), NEW j \in 1..Len(s_sample_queue'), i < j
          PROVE  s_sample_queue'[i].n < s_sample_queue'[j].n
      <4>1. i + 1 < j + 1
        BY <3>1, <3>3
      <4> QED BY <3>1, <4>1 DEF OrderInv, QueueInOrder
    <3>4. ASSUME NEW j \in 1..Len(s_sample_queue') PROVE agg'.msg.n < s_sample_queue'[j].n
      <4>1. 1 < j + 1
        BY <3>1
      <4> QED BY <3>1, <4>1 DEF OrderInv, QueueInOrder
    <3> QED BY <3>2, <3>3, <3>4 DEF QueueInOrder
  <2> QED BY <2>1, <2>2
<1>5. Held' \subseteq Held \cup {NoSample}
  BY <1>1, <1>4, WindowsUnchanged
<1>6. WaitingIsLater'
  BY <1>1, <1>4, StillLater
<1>7. Numbered' /\ OneVariable'
  BY <1>1, <1>2, <1>5, HeldNumbers DEF OrderInv
<1> QED BY <1>1, <1>4, <1>6, <1>7, WindowsUnchanged DEF OrderInv

(* A turn of the aggregation task: the windows open in it, with the sample of the message. *)
Turned == Folded(CurrentTable, agg.msg)
OpenWindow(id) == WindowOf(id, Len(published) + 1)

LEMMA TurnedIs ==
  ASSUME Types
  PROVE  /\ Turned \in Tables /\ DOMAIN Turned = DOMAIN CurrentTable /\ DOMAIN Turned \in SUBSET Ids
         /\ \A id \in DOMAIN Turned :
               /\ Turned[id].acc = IF id = agg.msg.id THEN Append(OpenWindow(id), agg.msg) ELSE OpenWindow(id)
               /\ Turned[id].def = CurrentTable[id].def
         /\ agg.msg.id \in DOMAIN Turned => agg.msg \in Sample
<1>1. /\ CurrentTable \in Tables
      /\ \A id \in DOMAIN CurrentTable :
            CurrentTable[id].acc = IF id \in DOMAIN s_agg_table THEN s_agg_table[id].acc ELSE <<>>
  BY CurrentIs DEF Types
<1>2. agg.msg \in Sample \cup {NoSample}
  BY AggIs DEF Types
<1>3. Len(published) \in Nat
  BY DEF Types, ReportType
<1>4. \A id : OpenWindow(id) = IF id \in DOMAIN s_agg_table THEN s_agg_table[id].acc ELSE <<>>
  <2>1. ~(Len(published) + 1 <= Len(published))
    BY <1>3
  <2> QED BY <2>1 DEF OpenWindow, WindowOf
<1>5. /\ Turned \in Tables /\ DOMAIN Turned = DOMAIN CurrentTable
      /\ \A id \in DOMAIN CurrentTable :
            /\ Turned[id].acc = IF id = agg.msg.id THEN Append(CurrentTable[id].acc, agg.msg)
                                ELSE CurrentTable[id].acc
            /\ Turned[id].def = CurrentTable[id].def
      /\ agg.msg.id \in DOMAIN Turned => agg.msg \in Sample
  BY <1>1, <1>2, FoldedIs DEF Turned
<1>6. \A id \in DOMAIN CurrentTable : CurrentTable[id].acc = OpenWindow(id)
  BY <1>1, <1>4
<1>7. DOMAIN Turned \in SUBSET Ids
  BY <1>5, TableIs
<1> QED BY <1>5, <1>6, <1>7

LEMMA TurnedWindows ==
  ASSUME Types, OrderInv, NEW id \in DOMAIN Turned
  PROVE  LET acc == Turned[id].acc
         IN  /\ acc \in Seq(Sample)
             /\ \A i \in 1..Len(acc) :
                   /\ acc[i] \in Held /\ acc[i].id = id
                   /\ \A j \in 1..Len(acc) : i < j => acc[i].n < acc[j].n
                   /\ \A p \in 1..Len(published) :
                         \A j \in 1..Len(WindowOf(id, p)) : WindowOf(id, p)[j].n < acc[i].n
                   /\ \A k \in 1..Len(s_sample_queue) :
                         s_sample_queue[k].id = id => acc[i].n < s_sample_queue[k].n
<1> DEFINE acc == Turned[id].acc
           open == OpenWindow(id)
<1>1. id \in Ids /\ acc = IF id = agg.msg.id THEN Append(open, agg.msg) ELSE open
  BY TurnedIs
<1>2. Len(published) \in Nat /\ Len(published) + 1 \in Windows /\ \A p \in 1..Len(published) : p \in Windows /\ p < Len(published) + 1
  BY DEF Types, ReportType, Windows
<1>3. open \in Seq(Sample)
  BY <1>1, <1>2, WindowIs DEF OpenWindow
<1>4. agg.msg \in Waiting /\ \A k \in 1..Len(s_sample_queue) : s_sample_queue[k] \in Waiting
  BY DEF Waiting
<1>5. ASSUME NEW i \in 1..Len(open)
      PROVE  /\ open[i] \in Held /\ open[i].id = id
             /\ \A j \in 1..Len(open) : i < j => open[i].n < open[j].n
             /\ \A p \in 1..Len(published) :
                   \A j \in 1..Len(WindowOf(id, p)) : WindowOf(id, p)[j].n < open[i].n
             /\ \A t \in Waiting : t.id = id => open[i].n < t.n
  <2>1. open[i] \in Held
    BY <1>1, <1>2, HeldIs DEF OpenWindow
  <2>2. open[i].id = id /\ \A j \in 1..Len(open) : i < j => open[i].n < open[j].n
    BY <1>1, <1>2 DEF OrderInv, EachInOrder, OpenWindow
  <2>3. \A p \in 1..Len(published) :
           \A j \in 1..Len(WindowOf(id, p)) : WindowOf(id, p)[j].n < open[i].n
    BY <1>1, <1>2 DEF OrderInv, LaterIsLater, OpenWindow
  <2>4. \A t \in Waiting : t.id = id => open[i].n < t.n
    BY <1>1, <1>2 DEF OrderInv, WaitingIsLater, OpenWindow
  <2> QED BY <2>1, <2>2, <2>3, <2>4
<1> HIDE DEF open, acc
<1>6. CASE id # agg.msg.id
  <2>1. acc = open
    BY <1>1, <1>6
  <2> QED BY <1>3, <1>4, <1>5, <2>1 DEF acc
<1>7. CASE id = agg.msg.id
  <2>1. agg.msg \in Sample /\ acc = Append(open, agg.msg)
    BY <1>1, <1>7, TurnedIs
  <2>2. /\ acc \in Seq(Sample) /\ Len(acc) = Len(open) + 1 /\ Len(open) \in Nat
        /\ \A i \in 1..Len(acc) : acc[i] = IF i <= Len(open) THEN open[i] ELSE agg.msg
    BY <1>3, <2>1
  <2>3. ASSUME NEW i \in 1..Len(acc)
        PROVE  /\ acc[i] \in Held /\ acc[i].id = id
               /\ \A j \in 1..Len(acc) : i < j => acc[i].n < acc[j].n
               /\ \A p \in 1..Len(published) :
                     \A j \in 1..Len(WindowOf(id, p)) : WindowOf(id, p)[j].n < acc[i].n
               /\ \A k \in 1..Len(s_sample_queue) :
                     s_sample_queue[k].id = id => acc[i].n < s_sample_queue[k].n
    <3>1. CASE i <= Len(open)
      <4>1. i \in 1..Len(open) /\ acc[i] = open[i]
        BY <2>2, <3>1
      <4>2. ASSUME NEW j \in 1..Len(acc), i < j PROVE open[i].n < acc[j].n
        <5>1. CASE j <= Len(open)
          BY <1>5, <2>2, <4>1, <4>2, <5>1
        <5>2. CASE ~(j <= Len(open))
          BY <1>4, <1>5, <1>7, <2>2, <4>1, <5>2
        <5> QED BY <5>1, <5>2
      <4> QED BY <1>4, <1>5, <4>1, <4>2
    <3>2. CASE ~(i <= Len(open))
      <4>1. acc[i] = agg.msg /\ agg.msg \in Held /\ \A j \in 1..Len(acc) : ~(i < j)
        BY <1>4, <2>2, <3>2, HeldIs
      <4>2. \A p \in 1..Len(published) :
               \A j \in 1..Len(WindowOf(id, p)) : WindowOf(id, p)[j].n < agg.msg.n
        BY <1>1, <1>2, <1>4, <1>7 DEF OrderInv, WaitingIsLater
      <4>3. \A k \in 1..Len(s_sample_queue) : agg.msg.n < s_sample_queue[k].n
        BY DEF OrderInv, QueueInOrder
      <4> QED BY <1>7, <4>1, <4>2, <4>3
    <3> QED BY <3>1, <3>2
  <2> QED BY <2>2, <2>3 DEF acc
<1> QED BY <1>6, <1>7

(* After the turn, what was published is as it was; of the windows after it, the new results *)
(* and the one now open, only one has the variable's samples.                                 *)
LEMMA RunWindows ==
  ASSUME Types, AggRun, NEW id \in Ids
  PROVE  /\ Len(published) \in Nat /\ Len(published') \in Nat /\ Len(published) <= Len(published')
         /\ \A p \in 1..Len(published) : WindowOf(id, p)' = WindowOf(id, p)
         /\ \A p \in (Len(published) + 1)..(Len(published') + 1) :
               /\ \/ WindowOf(id, p)' = <<>>
                  \/ id \in DOMAIN Turned /\ WindowOf(id, p)' = Turned[id].acc
               /\ \A q \in (Len(published) + 1)..(Len(published') + 1) :
                     p < q => WindowOf(id, p)' = <<>> \/ WindowOf(id, q)' = <<>>
<1> DEFINE rs == Results(Turned)
           L == Len(published)
<1>1. now \in Nat /\ published \in Seq(Result) /\ Turned \in Tables
  BY TurnedIs, EngineAssumption DEF Types, CfgType, ReportType
<1>2. s_agg_table' = Reopened(Turned) /\ published' = published \o rs
  BY DEF AggRun, Publish, Turned
<1>3. /\ rs \in Seq(Result)
      /\ \A k \in 1..Len(rs) : rs[k].id \in Closing(Turned) /\ rs[k].acc = Turned[rs[k].id].acc
      /\ \A k, l \in 1..Len(rs) : k < l => rs[k].id < rs[l].id
  BY <1>1, ResultsIs
<1> HIDE DEF rs
<1>4. /\ Len(published') = L + Len(rs) /\ L \in Nat /\ Len(rs) \in Nat
      /\ \A p \in 1..L : published'[p] = published[p]
      /\ \A k \in 1..Len(rs) : published'[L + k] = rs[k]
  BY <1>1, <1>2, <1>3
<1>5. \A p \in 1..L : WindowOf(id, p)' = WindowOf(id, p)
  BY <1>4 DEF WindowOf
<1>6. /\ DOMAIN s_agg_table' = DOMAIN Turned
      /\ \A i \in DOMAIN Turned :
            s_agg_table'[i].acc = IF Turned[i].due <= now THEN <<>> ELSE Turned[i].acc
  BY <1>1, <1>2, ReopenedIs
<1>7. \A i \in Closing(Turned) : i \in Ids /\ i \in Nat /\ i \in DOMAIN Turned /\ Turned[i].due <= now
  BY TurnedIs, EngineAssumption DEF Closing
<1>8. ASSUME NEW k \in 1..Len(rs), NEW p \in Nat, p = L + k
      PROVE  /\ WindowOf(id, p)' = IF rs[k].id = id THEN Turned[id].acc ELSE <<>>
             /\ rs[k].id = id => id \in DOMAIN Turned
  <2>1. p <= Len(published') /\ published'[p] = rs[k] /\ rs[k].acc = Turned[rs[k].id].acc
    BY <1>3, <1>4, <1>8
  <2>2. WindowOf(id, p)' = IF rs[k].id = id THEN Turned[id].acc ELSE <<>>
    BY <2>1 DEF WindowOf
  <2> QED BY <1>3, <1>7, <2>2
<1>9. ASSUME NEW p \in Nat, p = Len(published') + 1
      PROVE  WindowOf(id, p)' = IF id \in DOMAIN Turned THEN s_agg_table'[id].acc ELSE <<>>
  <2>1. ~(p <= Len(published'))
    BY <1>4, <1>9
  <2> QED BY <1>6, <2>1 DEF WindowOf
<1>10. ASSUME NEW p \in (L + 1)..(Len(published') + 1)
       PROVE  \/ WindowOf(id, p)' = <<>>
              \/ id \in DOMAIN Turned /\ WindowOf(id, p)' = Turned[id].acc
  <2>1. CASE p = Len(published') + 1
    BY <1>6, <1>9, <2>1
  <2>2. CASE p # Len(published') + 1
    <3>1. p - L \in 1..Len(rs) /\ p = L + (p - L) /\ p \in Nat
      BY <1>4, <2>2
    <3> QED BY <1>8, <3>1
  <2> QED BY <2>1, <2>2
<1>11. ASSUME NEW p \in (L + 1)..(Len(published') + 1), NEW q \in (L + 1)..(Len(published') + 1), p < q
       PROVE  WindowOf(id, p)' = <<>> \/ WindowOf(id, q)' = <<>>
  <2> DEFINE k == p - L
  <2>1. k \in 1..Len(rs) /\ p = L + k /\ p \in Nat /\ q \in Nat
    BY <1>4, <1>11
  <2>2. WindowOf(id, p)' = (IF rs[k].id = id THEN Turned[id].acc ELSE <<>>)
    BY <1>8, <2>1
  <2>3. CASE rs[k].id = id /\ q = Len(published') + 1
    <3>1. id \in Closing(Turned)
      BY <1>3, <2>1, <2>3
    <3> QED BY <1>6, <1>7, <1>9, <2>3, <3>1
  <2>4. CASE rs[k].id = id /\ q # Len(published') + 1
    <3> DEFINE l == q - L
    <3>1. l \in 1..Len(rs) /\ q = L + l /\ k < l
      BY <1>4, <1>11, <2>4
    <3>2. rs[k].id < rs[l].id /\ rs[k].id \in Nat /\ rs[l].id \in Nat
      BY <1>3, <1>7, <2>1, <3>1
    <3>3. WindowOf(id, q)' = (IF rs[l].id = id THEN Turned[id].acc ELSE <<>>)
      BY <1>8, <2>1, <3>1
    <3> HIDE DEF l, k
    <3>4. rs[l].id # id
      BY <2>4, <3>2
    <3> QED BY <3>1, <3>3, <3>4
  <2> HIDE DEF k
  <2> QED BY <2>2, <2>3, <2>4
<1> QED BY <1>4, <1>5, <1>10, <1>11

LEMMA RunWaiting ==
  ASSUME Types, AggRun
  PROVE  /\ UNCHANGED <<s_sample_queue, taken>> /\ agg'.msg = NoSample
         /\ Waiting' = {NoSample} \cup {s_sample_queue[i] : i \in 1..Len(s_sample_queue)}
         /\ Waiting' \subseteq Waiting \cup {NoSample}
<1>1. UNCHANGED <<s_sample_queue, taken>> /\ agg'.msg = NoSample
  BY DEF AggRun, Types, AggType
<1>2. Waiting' = {NoSample} \cup {s_sample_queue[i] : i \in 1..Len(s_sample_queue)}
  BY <1>1 DEF Waiting
<1> QED BY <1>1, <1>2 DEF Waiting

LEMMA RunHeld ==
  ASSUME Types, OrderInv, AggRun
  PROVE  Held' \subseteq Held \cup {NoSample}
<1>1. Waiting' \subseteq Held \cup {NoSample}
  BY RunWaiting, HeldIs
<1>2. ASSUME NEW id \in Ids, NEW p \in Windows'
      PROVE  Samples(WindowOf(id, p))' \subseteq Held
  <2>1. /\ Len(published) \in Nat /\ Len(published') \in Nat /\ Len(published) <= Len(published')
        /\ p \in 1..Len(published) \/ p \in (Len(published) + 1)..(Len(published') + 1)
    BY <1>2, RunWindows DEF Windows
  <2>2. CASE p \in 1..Len(published)
    <3>1. p \in Windows /\ WindowOf(id, p)' = WindowOf(id, p)
      BY <2>1, <2>2, RunWindows DEF Windows
    <3> QED BY <3>1, HeldIs DEF Samples
  <2>3. CASE p \in (Len(published) + 1)..(Len(published') + 1)
    <3>1. \/ WindowOf(id, p)' = <<>>
          \/ id \in DOMAIN Turned /\ WindowOf(id, p)' = Turned[id].acc
      BY <2>3, RunWindows
    <3>2. id \in DOMAIN Turned => \A i \in 1..Len(Turned[id].acc) : Turned[id].acc[i] \in Held
      BY TurnedWindows
    <3>3. CASE WindowOf(id, p)' = <<>>
      BY <3>3 DEF Samples
    <3>4. CASE id \in DOMAIN Turned /\ WindowOf(id, p)' = Turned[id].acc
      BY <3>2, <3>4 DEF Samples
    <3> QED BY <3>1, <3>3, <3>4
  <2> QED BY <2>1, <2>2, <2>3
<1> QED BY <1>1, <1>2 DEF Held

LEMMA RunOrder ==
  ASSUME Types, OrderInv, AggRun
  PROVE  OrderInv'
<1>1. /\ UNCHANGED <<s_sample_queue, taken>> /\ agg'.msg = NoSample
      /\ Waiting' = {NoSample} \cup {s_sample_queue[i] : i \in 1..Len(s_sample_queue)}
  BY RunWaiting
<1>2. QueueInOrder'
  <2>1. ASSUME NEW j \in 1..Len(s_sample_queue) PROVE NoSample.n < s_sample_queue[j].n
    BY QueueNumbers, NoSampleIs
  <2> QED BY <1>1, <2>1 DEF OrderInv, QueueInOrder
<1>3. ASSUME NEW id \in Ids, NEW p \in Windows'
      PROVE  \/ p \in 1..Len(published) /\ p \in Windows /\ WindowOf(id, p)' = WindowOf(id, p)
             \/ /\ p \in (Len(published) + 1)..(Len(published') + 1)
                /\ \/ WindowOf(id, p)' = <<>>
                   \/ id \in DOMAIN Turned /\ WindowOf(id, p)' = Turned[id].acc
  <2>1. /\ Len(published) \in Nat /\ Len(published') \in Nat /\ Len(published) <= Len(published')
        /\ p \in 1..Len(published) \/ p \in (Len(published) + 1)..(Len(published') + 1)
    BY <1>3, RunWindows DEF Windows
  <2>2. CASE p \in 1..Len(published)
    <3>1. p \in Windows /\ WindowOf(id, p)' = WindowOf(id, p)
      BY <2>1, <2>2, RunWindows DEF Windows
    <3> QED BY <2>2, <3>1
  <2>3. CASE p \in (Len(published) + 1)..(Len(published') + 1)
    BY <2>3, RunWindows
  <2> QED BY <2>1, <2>2, <2>3
<1>4. EachInOrder'
  <2>1. ASSUME NEW id \in Ids, NEW p \in Windows'
        PROVE  /\ \A i, j \in 1..Len(WindowOf(id, p)') :
                     i < j => WindowOf(id, p)'[i].n < WindowOf(id, p)'[j].n
               /\ \A i \in 1..Len(WindowOf(id, p)') : WindowOf(id, p)'[i].id = id
    <3>1. CASE p \in Windows /\ WindowOf(id, p)' = WindowOf(id, p)
      BY <3>1 DEF OrderInv, EachInOrder
    <3>2. CASE WindowOf(id, p)' = <<>>
      BY <3>2
    <3>3. CASE id \in DOMAIN Turned /\ WindowOf(id, p)' = Turned[id].acc
      BY <3>3, TurnedWindows
    <3> QED BY <1>3, <3>1, <3>2, <3>3
  <2> QED BY <2>1 DEF EachInOrder
<1>5. LaterIsLater'
  <2>1. ASSUME NEW id \in Ids, NEW p \in Windows', NEW q \in Windows', p < q,
               NEW i \in 1..Len(WindowOf(id, p)'), NEW j \in 1..Len(WindowOf(id, q)')
        PROVE  WindowOf(id, p)'[i].n < WindowOf(id, q)'[j].n
    <3>1. Len(published) \in Nat /\ Len(published') \in Nat
      BY RunWindows
    <3>2. WindowOf(id, p)' # <<>> /\ WindowOf(id, q)' # <<>>
      BY <2>1
    <3>3. CASE q \in 1..Len(published)
      <4>1. p \in 1..Len(published)
        BY <2>1, <3>1, <3>3 DEF Windows
      <4>2. /\ p \in Windows /\ WindowOf(id, p)' = WindowOf(id, p)
            /\ q \in Windows /\ WindowOf(id, q)' = WindowOf(id, q)
        BY <3>1, <3>3, <4>1, RunWindows DEF Windows
      <4> QED BY <2>1, <4>2 DEF OrderInv, LaterIsLater
    <3>4. CASE p \in 1..Len(published) /\ ~(q \in 1..Len(published))
      <4>1. id \in DOMAIN Turned /\ WindowOf(id, q)' = Turned[id].acc
        BY <1>3, <3>2, <3>4
      <4>2. WindowOf(id, p)' = WindowOf(id, p)
        BY <3>4, RunWindows
      <4> QED BY <2>1, <3>4, <4>1, <4>2, TurnedWindows
    <3>5. CASE ~(p \in 1..Len(published)) /\ ~(q \in 1..Len(published))
      <4>1. /\ p \in (Len(published) + 1)..(Len(published') + 1)
            /\ q \in (Len(published) + 1)..(Len(published') + 1)
        BY <1>3, <3>5
      <4> QED BY <2>1, <3>2, <4>1, RunWindows
    <3> QED BY <3>3, <3>4, <3>5
  <2> QED BY <2>1 DEF LaterIsLater
<1>6. WaitingIsLater'
  <2>1. ASSUME NEW id \in Ids, NEW p \in Windows', NEW s \in Waiting', s.id = id,
               NEW i \in 1..Len(WindowOf(id, p)')
        PROVE  WindowOf(id, p)'[i].n < s.n
    <3>1. s # NoSample
      BY <2>1, NoSampleIs
    <3>2. PICK k \in 1..Len(s_sample_queue) : s = s_sample_queue[k]
      BY <1>1, <3>1
    <3>3. s \in Waiting
      BY <3>2 DEF Waiting
    <3>4. WindowOf(id, p)' # <<>>
      BY <2>1
    <3>5. CASE p \in Windows /\ WindowOf(id, p)' = WindowOf(id, p)
      BY <2>1, <3>3, <3>5 DEF OrderInv, WaitingIsLater
    <3>6. CASE id \in DOMAIN Turned /\ WindowOf(id, p)' = Turned[id].acc
      BY <2>1, <3>2, <3>6, TurnedWindows
    <3> QED BY <1>3, <3>4, <3>5, <3>6
  <2> QED BY <2>1 DEF WaitingIsLater
<1>7. Numbered' /\ OneVariable'
  <2>1. taken \in Nat /\ taken' = taken
    BY <1>1, EngineAssumption DEF Types, TakenType
  <2>2. Held' \subseteq Held \cup {NoSample} /\ taken' >= taken /\ taken' \in Nat
    BY <2>1, RunHeld
  <2> QED BY <2>2, HeldNumbers DEF OrderInv
<1> QED BY <1>2, <1>4, <1>5, <1>6, <1>7 DEF OrderInv

LEMMA OrderStep == Types /\ OrderInv /\ [Next]_vars => OrderInv'
<1> SUFFICES ASSUME Types, OrderInv, [Next]_vars PROVE OrderInv'
  OBVIOUS
<1>1. CASE AggRun
  BY <1>1, RunOrder
<1>2. CASE AggWake
  BY <1>2, WakeOrder
<1>3. ASSUME NEW b \in Buses, SchedRead(b) PROVE OrderInv'
  BY <1>3, ReadOrder
<1>4. CASE \/ Tick \/ EditConfig \/ RestoreFile \/ UNCHANGED vars
           \/ \E b \in Buses : SchedPoll(b) \/ SchedScan(b)
           \/ \E k \in Sinks : Drain(k)
  BY <1>4, SameOrder DEF Tick, EditConfig, RestoreFile, vars, SchedPoll, SchedScan, Drain
<1> QED BY <1>1, <1>2, <1>3, <1>4 DEF Next, Aggregation, Sched

-----------------------------------------------------------------------------
(* The ledger *)

LEMMA SerialsOf == \A s, n : n \in Serials(s) <=> \E i \in 1..Len(s) : n = s[i].n
BY DEF Serials

LEMMA TableSerials == \A t, n : n \in InTable(t) <=> \E id \in DOMAIN t : n \in Serials(t[id].acc)
BY DEF InTable

(* What is pending or reported is a number of a sample that is held. *)
LEMMA OpenIs ==
  ASSUME Types, NEW id \in DOMAIN s_agg_table
  PROVE  /\ id \in Ids /\ Len(published) + 1 \in Windows
         /\ s_agg_table[id].acc = WindowOf(id, Len(published) + 1)
<1>1. Len(published) \in Nat /\ ~(Len(published) + 1 <= Len(published))
  BY DEF Types, ReportType
<1>2. id \in Ids
  BY TableIs DEF Types, TableType
<1> QED BY <1>1, <1>2 DEF WindowOf, Windows

LEMMA PendingNumbers ==
  ASSUME Types, OrderInv
  PROVE  Pending \subseteq 1..taken
<1>1. Serials(s_sample_queue) \subseteq 1..taken
  BY QueueNumbers DEF Serials
<1>2. {agg.msg.n} \ {0} \subseteq 1..taken
  <2>1. taken \in Nat
    BY EngineAssumption DEF Types, TakenType
  <2> QED BY <2>1, MessageNumber
<1>3. InTable(s_agg_table) \subseteq 1..taken
  BY OpenIs, WindowNumbers, TableSerials, SerialsOf
<1> QED BY <1>1, <1>2, <1>3 DEF Pending

LostInv ==
    /\ lost \subseteq 1..taken /\ lost \cap Pending = {}
    /\ agg.pc = "wait" => agg.msg = NoSample

LEMMA InitLedger == Init => LostInv /\ Ledger!Init
<1> SUFFICES ASSUME Init PROVE LostInv /\ Ledger!Init
  OBVIOUS
<1>1. /\ s_sample_queue = <<>> /\ agg.msg = NoSample /\ s_agg_table = <<>> /\ published = <<>>
      /\ taken = 0 /\ lost = {}
  BY DEF Init
<1>2. Pending = {} /\ Reported = {}
  BY <1>1, NoSampleIs DEF Pending, Reported, InTable, Serials
<1> QED BY <1>1, <1>2 DEF LostInv, Ledger!Init

LEMMA LedgerStutters ==
  ASSUME LostInv, UNCHANGED <<s_sample_queue, agg, s_agg_table, published, taken, lost>>
  PROVE  LostInv' /\ UNCHANGED Ledger!vars
<1>1. UNCHANGED Pending /\ UNCHANGED Reported
  BY DEF Pending, Reported
<1> QED BY <1>1 DEF LostInv, Ledger!vars

LEMMA ReadLedger ==
  ASSUME Types, OrderInv, LostInv, NEW b \in Buses, SchedRead(b)
  PROVE  LostInv' /\ [Ledger!Next]_(Ledger!vars)
<1>1. UNCHANGED <<published, s_agg_table, agg>> /\ taken \in Nat /\ s_sample_queue \in Seq(Sample)
  BY EngineAssumption DEF SchedRead, Types, TakenType, QueueType
<1>2. UNCHANGED Reported
  BY <1>1 DEF Reported
<1>3. Pending \subseteq 1..taken /\ lost \subseteq 1..taken /\ lost \cap Pending = {}
  BY PendingNumbers DEF LostInv
<1>4. CASE UNCHANGED <<s_sample_queue, taken, lost>>
  BY <1>1, <1>4, LedgerStutters
<1>5. taken' = taken + 1 => 1..taken' = (1..taken) \cup {taken'} /\ taken' \notin 1..taken
  BY <1>1
<1>6. ASSUME NEW s \in Sample, s.n = taken', taken' = taken + 1,
             s_sample_queue' = Append(s_sample_queue, s), UNCHANGED lost
      PROVE  LostInv' /\ Ledger!Next
  <2>1. /\ Len(s_sample_queue) \in Nat /\ Len(s_sample_queue') = Len(s_sample_queue) + 1
        /\ \A i \in 1..Len(s_sample_queue') :
              s_sample_queue'[i] = IF i <= Len(s_sample_queue) THEN s_sample_queue[i] ELSE s
    BY <1>1, <1>6
  <2>2. \A n \in Serials(s_sample_queue') : n \in Serials(s_sample_queue) \/ n = taken'
    <3>1. ASSUME NEW i \in 1..Len(s_sample_queue')
          PROVE  s_sample_queue'[i].n \in Serials(s_sample_queue) \/ s_sample_queue'[i].n = taken'
      <4>1. CASE i <= Len(s_sample_queue)
        BY <2>1, <4>1, SerialsOf
      <4>2. CASE ~(i <= Len(s_sample_queue))
        BY <1>6, <2>1, <4>2
      <4> QED BY <4>1, <4>2
    <3> QED BY <3>1, SerialsOf
  <2>3. \A n \in Serials(s_sample_queue) : n \in Serials(s_sample_queue')
    BY <2>1, SerialsOf
  <2>4. taken' \in Serials(s_sample_queue')
    <3>1. Len(s_sample_queue') \in 1..Len(s_sample_queue') /\ s_sample_queue'[Len(s_sample_queue')] = s
      BY <2>1
    <3> QED BY <1>6, <3>1, SerialsOf
  <2>5. Pending' = Pending \cup {taken'}
    BY <1>1, <2>2, <2>3, <2>4 DEF Pending
  <2>6. LostInv'
    BY <1>1, <1>3, <1>5, <1>6, <2>5 DEF LostInv
  <2> QED BY <1>2, <1>6, <2>5, <2>6 DEF Ledger!Next, Ledger!Take
<1>7. ASSUME taken' = taken + 1, lost' = lost \cup {taken'}, UNCHANGED s_sample_queue
      PROVE  LostInv' /\ Ledger!Next
  <2>1. UNCHANGED Pending
    BY <1>1, <1>7 DEF Pending
  <2>2. LostInv'
    BY <1>1, <1>3, <1>5, <1>7, <2>1 DEF LostInv
  <2> QED BY <1>2, <1>7, <2>1, <2>2 DEF Ledger!Next, Ledger!Take
<1> QED BY <1>4, <1>6, <1>7, ReadQueues

LEMMA WakeLedger ==
  ASSUME Types, OrderInv, LostInv, AggWake
  PROVE  LostInv' /\ UNCHANGED Ledger!vars
<1>1. /\ UNCHANGED <<published, s_agg_table, taken, lost>> /\ s_sample_queue \in Seq(Sample)
      /\ agg.msg = NoSample /\ agg'.pc = "woken"
  BY DEF AggWake, Types, QueueType, AggType, LostInv
<1>2. CASE s_sample_queue = <<>>
  <2>1. UNCHANGED s_sample_queue /\ agg'.msg = agg.msg
    BY <1>1, <1>2 DEF AggWake, Types, AggType
  <2>2. UNCHANGED Pending /\ UNCHANGED Reported
    BY <1>1, <2>1 DEF Pending, Reported
  <2> QED BY <1>1, <2>2 DEF LostInv, Ledger!vars
<1>3. CASE s_sample_queue # <<>>
  <2>1. s_sample_queue' = Tail(s_sample_queue) /\ agg'.msg = Head(s_sample_queue)
    BY <1>3 DEF AggWake, Types, AggType
  <2>2. /\ Len(s_sample_queue) \in Nat \ {0} /\ Len(s_sample_queue') = Len(s_sample_queue) - 1
        /\ \A i \in 1..Len(s_sample_queue') :
              s_sample_queue'[i] = s_sample_queue[i + 1] /\ i + 1 \in 1..Len(s_sample_queue)
        /\ agg'.msg = s_sample_queue[1] /\ 1 \in 1..Len(s_sample_queue)
    BY <1>1, <1>3, <2>1
  <2>3. agg'.msg.n # 0
    BY <2>2, QueueNumbers
  <2>4. Serials(s_sample_queue) = Serials(s_sample_queue') \cup {agg'.msg.n}
    <3>1. ASSUME NEW i \in 1..Len(s_sample_queue)
          PROVE  s_sample_queue[i].n \in Serials(s_sample_queue') \cup {agg'.msg.n}
      <4>1. CASE i = 1
        BY <2>2, <4>1
      <4>2. CASE i # 1
        <5>1. i - 1 \in 1..Len(s_sample_queue') /\ s_sample_queue'[i - 1] = s_sample_queue[i]
          BY <2>2, <4>2
        <5> QED BY <5>1, SerialsOf
      <4> QED BY <4>1, <4>2
    <3>2. ASSUME NEW i \in 1..Len(s_sample_queue')
          PROVE  s_sample_queue'[i].n \in Serials(s_sample_queue)
      BY <2>2, SerialsOf
    <3>3. agg'.msg.n \in Serials(s_sample_queue)
      BY <2>2, SerialsOf
    <3> QED BY <3>1, <3>2, <3>3, SerialsOf
  <2>5. UNCHANGED Pending /\ UNCHANGED Reported
    BY <1>1, <2>3, <2>4, NoSampleIs DEF Pending, Reported
  <2> QED BY <1>1, <2>5 DEF LostInv, Ledger!vars
<1> QED BY <1>2, <1>3

(* What the windows of a turn hold was open or is the message, and the windows that close in *)
(* it share no sample with those that stay.                                                  *)
Arrived == InTable(s_agg_table) \cup ({agg.msg.n} \ {0})
Closed == UNION {Serials(Turned[id].acc) : id \in Closing(Turned)}

LEMMA TurnedSerials ==
  ASSUME Types, OrderInv
  PROVE  /\ InTable(Turned) \subseteq Arrived
         /\ \A id \in DOMAIN Turned : Serials(OpenWindow(id)) \subseteq Serials(Turned[id].acc)
         /\ agg.msg.id \in DOMAIN Turned => agg.msg.n \in InTable(Turned)
         /\ \A id \in DOMAIN s_agg_table : OpenWindow(id) = s_agg_table[id].acc
<1>1. Len(published) \in Nat /\ ~(Len(published) + 1 <= Len(published)) /\ Len(published) + 1 \in Windows
  BY DEF Types, ReportType, Windows
<1>2. \A id : OpenWindow(id) = IF id \in DOMAIN s_agg_table THEN s_agg_table[id].acc ELSE <<>>
  BY <1>1 DEF OpenWindow, WindowOf
<1>3. ASSUME NEW id \in DOMAIN Turned
      PROVE  /\ Serials(Turned[id].acc) \subseteq Arrived
             /\ Serials(OpenWindow(id)) \subseteq Serials(Turned[id].acc)
             /\ id = agg.msg.id => agg.msg.n \in Serials(Turned[id].acc)
  <2>1. id \in Ids /\ OpenWindow(id) \in Seq(Sample)
    BY <1>1, TurnedIs, WindowIs DEF OpenWindow
  <2>2. Serials(OpenWindow(id)) \subseteq Arrived
    <3>1. CASE id \in DOMAIN s_agg_table
      BY <1>2, <3>1 DEF Arrived, InTable
    <3>2. CASE id \notin DOMAIN s_agg_table
      BY <1>2, <3>2 DEF Serials
    <3> QED BY <3>1, <3>2
  <2>3. CASE id # agg.msg.id
    <3>1. Turned[id].acc = OpenWindow(id)
      BY <2>3, TurnedIs
    <3> QED BY <2>2, <2>3, <3>1
  <2>4. CASE id = agg.msg.id
    <3>1. Turned[id].acc = Append(OpenWindow(id), agg.msg) /\ agg.msg \in Sample
      BY <2>4, TurnedIs
    <3> DEFINE acc == Turned[id].acc
               open == OpenWindow(id)
    <3>2. /\ Len(open) \in Nat /\ Len(acc) = Len(open) + 1
          /\ \A i \in 1..Len(open) : i \in 1..Len(acc) /\ acc[i] = open[i]
          /\ acc[Len(acc)] = agg.msg /\ Len(acc) \in 1..Len(acc)
          /\ \A i \in 1..Len(acc) : i \in 1..Len(open) \/ i = Len(acc)
      BY <2>1, <3>1
    <3> HIDE DEF acc, open
    <3>3. agg.msg.n # 0
      <4>1. agg.msg # NoSample
        BY <3>1, SampleIs
      <4> QED BY <4>1, MessageNumber
    <3>4. Serials(open) \subseteq Serials(acc) /\ agg.msg.n \in Serials(acc)
      BY <3>2, SerialsOf
    <3>5. Serials(acc) \subseteq Serials(open) \cup {agg.msg.n}
      BY <3>2, SerialsOf
    <3> QED BY <2>2, <3>3, <3>4, <3>5 DEF acc, open, Arrived
  <2> QED BY <2>3, <2>4
<1>4. InTable(Turned) \subseteq Arrived
  BY <1>3, TableSerials
<1>5. agg.msg.id \in DOMAIN Turned => agg.msg.n \in InTable(Turned)
  BY <1>3, TableSerials
<1> QED BY <1>2, <1>3, <1>4, <1>5

LEMMA ClosedAndOpen ==
  ASSUME Types, OrderInv, AggRun
  PROVE  /\ InTable(Turned) = InTable(s_agg_table') \cup Closed
         /\ InTable(s_agg_table') \cap Closed = {}
<1>1. now \in Nat /\ Turned \in Tables /\ s_agg_table' = Reopened(Turned)
  BY TurnedIs, EngineAssumption DEF Types, CfgType, AggRun, Turned
<1>2. /\ DOMAIN s_agg_table' = DOMAIN Turned
      /\ \A id \in DOMAIN Turned :
            s_agg_table'[id].acc = IF Turned[id].due <= now THEN <<>> ELSE Turned[id].acc
  BY <1>1, ReopenedIs
<1>3. \A id \in DOMAIN Turned :
         s_agg_table'[id].acc = IF id \in Closing(Turned) THEN <<>> ELSE Turned[id].acc
  BY <1>2 DEF Closing
<1>4. Serials(<<>>) = {}
  BY DEF Serials
<1>5. Closing(Turned) \subseteq DOMAIN Turned
  BY DEF Closing
<1>6. \A n : n \in InTable(s_agg_table') <=>
                \E id \in DOMAIN Turned : id \notin Closing(Turned) /\ n \in Serials(Turned[id].acc)
  BY <1>2, <1>3, <1>4, TableSerials
<1>7. \A n : n \in Closed <=> \E id \in Closing(Turned) : n \in Serials(Turned[id].acc)
  BY DEF Closed
<1>8. InTable(Turned) = InTable(s_agg_table') \cup Closed
  <2>1. \A n : n \in InTable(Turned) <=> n \in InTable(s_agg_table') \/ n \in Closed
    BY <1>5, <1>6, <1>7, TableSerials
  <2> QED BY <2>1
<1>9. ASSUME NEW n, n \in InTable(s_agg_table'), n \in Closed PROVE FALSE
  <2>1. PICK k \in DOMAIN Turned : k \notin Closing(Turned) /\ n \in Serials(Turned[k].acc)
    BY <1>6, <1>9
  <2>2. PICK l \in DOMAIN Turned : l \in Closing(Turned) /\ n \in Serials(Turned[l].acc)
    BY <1>5, <1>7, <1>9
  <2>3. PICK i \in 1..Len(Turned[k].acc) : n = Turned[k].acc[i].n
    BY <2>1, SerialsOf
  <2>4. PICK j \in 1..Len(Turned[l].acc) : n = Turned[l].acc[j].n
    BY <2>2, SerialsOf
  <2>5. Turned[k].acc[i] \in Held /\ Turned[k].acc[i].id = k
    BY TurnedWindows
  <2>6. Turned[l].acc[j] \in Held /\ Turned[l].acc[j].id = l
    BY TurnedWindows
  <2>7. k = l
    BY <2>3, <2>4, <2>5, <2>6 DEF OrderInv, OneVariable
  <2> QED BY <2>1, <2>2, <2>7
<1> QED BY <1>8, <1>9

LEMMA QueuedApart ==
  ASSUME Types, OrderInv
  PROVE  Serials(s_sample_queue) \cap Arrived = {}
<1> SUFFICES ASSUME NEW j \in 1..Len(s_sample_queue), s_sample_queue[j].n \in Arrived PROVE FALSE
  BY SerialsOf
<1>1. s_sample_queue[j].n \in Nat /\ s_sample_queue[j] \in Waiting
  <2>1. s_sample_queue[j].n \in 1..taken
    BY QueueNumbers
  <2> QED BY <2>1 DEF Waiting
<1>2. CASE s_sample_queue[j].n = agg.msg.n
  <2>1. agg.msg.n < s_sample_queue[j].n
    BY DEF OrderInv, QueueInOrder
  <2> QED BY <1>1, <1>2, <2>1
<1>3. CASE s_sample_queue[j].n \in InTable(s_agg_table)
  <2>1. PICK id \in DOMAIN s_agg_table : s_sample_queue[j].n \in Serials(s_agg_table[id].acc)
    BY <1>3, TableSerials
  <2> DEFINE w == WindowOf(id, Len(published) + 1)
  <2>2. w = s_agg_table[id].acc /\ id \in Ids /\ Len(published) + 1 \in Windows
    BY OpenIs
  <2>3. PICK i \in 1..Len(w) : s_sample_queue[j].n = w[i].n
    BY <2>1, <2>2, SerialsOf
  <2>4. w[i] \in Held /\ s_sample_queue[j] \in Held /\ w[i].id = id
    BY <1>1, <2>2, HeldIs DEF OrderInv, EachInOrder
  <2>5. s_sample_queue[j].id = id
    BY <2>3, <2>4 DEF OrderInv, OneVariable
  <2>6. w[i].n < s_sample_queue[j].n
    BY <1>1, <2>2, <2>5 DEF OrderInv, WaitingIsLater
  <2> HIDE DEF w
  <2> QED BY <1>1, <2>3, <2>6
<1> QED BY <1>2, <1>3 DEF Arrived

LEMMA RunReported ==
  ASSUME Types, AggRun
  PROVE  Reported' = Reported \cup Closed
<1> DEFINE rs == Results(Turned)
           L == Len(published)
<1>1. published \in Seq(Result) /\ Turned \in Tables /\ published' = published \o rs
  BY TurnedIs DEF Types, ReportType, AggRun, Publish, Turned
<1>2. /\ rs \in Seq(Result)
      /\ \A k \in 1..Len(rs) : rs[k].id \in Closing(Turned) /\ rs[k].acc = Turned[rs[k].id].acc
      /\ \A id \in Closing(Turned) : \E k \in 1..Len(rs) : rs[k].id = id
  BY <1>1, ResultsIs
<1> HIDE DEF rs
<1>3. /\ Len(published') = L + Len(rs) /\ L \in Nat /\ Len(rs) \in Nat
      /\ \A p \in 1..L : published'[p] = published[p]
      /\ \A k \in 1..Len(rs) : published'[L + k] = rs[k]
  BY <1>1, <1>2
<1>4. ASSUME NEW p \in 1..Len(published')
      PROVE  Serials(published'[p].acc) \subseteq Reported \cup Closed
  <2>1. CASE p <= L
    BY <1>3, <2>1 DEF Reported
  <2>2. CASE ~(p <= L)
    <3>1. p - L \in 1..Len(rs) /\ L + (p - L) = p
      BY <1>3, <2>2
    <3>2. published'[p] = rs[p - L]
      BY <1>3, <3>1
    <3>3. rs[p - L].id \in Closing(Turned) /\ published'[p].acc = Turned[rs[p - L].id].acc
      BY <1>2, <3>1, <3>2
    <3> QED BY <3>3 DEF Closed
  <2> QED BY <2>1, <2>2
<1>5. ASSUME NEW p \in 1..L PROVE Serials(published[p].acc) \subseteq Reported'
  <2>1. p \in 1..Len(published') /\ published'[p] = published[p]
    BY <1>3
  <2> QED BY <2>1 DEF Reported
<1>6. ASSUME NEW id \in Closing(Turned) PROVE Serials(Turned[id].acc) \subseteq Reported'
  <2>1. PICK k \in 1..Len(rs) : rs[k].id = id
    BY <1>2
  <2>2. L + k \in 1..Len(published') /\ published'[L + k].acc = Turned[id].acc
    BY <1>2, <1>3, <2>1
  <2> QED BY <2>2 DEF Reported
<1>7. Reported' \subseteq Reported \cup Closed
  BY <1>4 DEF Reported
<1>8. Reported \subseteq Reported'
  BY <1>5 DEF Reported
<1>9. Closed \subseteq Reported'
  BY <1>6 DEF Closed
<1> QED BY <1>7, <1>8, <1>9

LEMMA RunLedger ==
  ASSUME Types, OrderInv, LostInv, AggRun
  PROVE  LostInv' /\ Ledger!Next
<1>1. /\ UNCHANGED <<s_sample_queue, taken>> /\ agg'.msg = NoSample
      /\ lost' = lost \cup (Arrived \ InTable(Turned))
  BY RunWaiting DEF AggRun, Arrived, Turned
<1>2. Pending = Serials(s_sample_queue) \cup Arrived
  BY DEF Pending, Arrived
<1>3. Pending' = Serials(s_sample_queue) \cup InTable(s_agg_table')
  BY <1>1, NoSampleIs DEF Pending
<1>4. /\ InTable(Turned) = InTable(s_agg_table') \cup Closed
      /\ InTable(s_agg_table') \cap Closed = {}
      /\ InTable(Turned) \subseteq Arrived
      /\ Serials(s_sample_queue) \cap Arrived = {}
  BY ClosedAndOpen, TurnedSerials, QueuedApart
<1>5. Pending' \subseteq Pending /\ Closed \in SUBSET (Pending \ Pending')
  BY <1>2, <1>3, <1>4
<1>6. lost' = lost \cup ((Pending \ Pending') \ Closed)
  BY <1>1, <1>2, <1>3, <1>4
<1>7. Reported' = Reported \cup Closed
  BY RunReported
<1>8. LostInv'
  <2>1. Pending \subseteq 1..taken /\ lost \subseteq 1..taken /\ lost \cap Pending = {}
    BY PendingNumbers DEF LostInv
  <2> QED BY <1>1, <1>5, <1>6, <2>1 DEF LostInv
<1>9. Ledger!Settle
  BY <1>1, <1>5, <1>6, <1>7 DEF Ledger!Settle
<1> QED BY <1>8, <1>9 DEF Ledger!Next

LEMMA LedgerStep ==
  Types /\ OrderInv /\ LostInv /\ [Next]_vars => LostInv' /\ [Ledger!Next]_(Ledger!vars)
<1> SUFFICES ASSUME Types, OrderInv, LostInv, [Next]_vars
             PROVE  LostInv' /\ [Ledger!Next]_(Ledger!vars)
  OBVIOUS
<1>1. CASE AggRun
  BY <1>1, RunLedger
<1>2. CASE AggWake
  BY <1>2, WakeLedger
<1>3. ASSUME NEW b \in Buses, SchedRead(b) PROVE LostInv' /\ [Ledger!Next]_(Ledger!vars)
  BY <1>3, ReadLedger
<1>4. CASE \/ Tick \/ EditConfig \/ RestoreFile \/ UNCHANGED vars
           \/ \E b \in Buses : SchedPoll(b) \/ SchedScan(b)
           \/ \E k \in Sinks : Drain(k)
  <2>1. UNCHANGED <<s_sample_queue, agg, s_agg_table, published, taken, lost>>
    BY <1>4 DEF Tick, EditConfig, RestoreFile, vars, SchedPoll, SchedScan, Drain
  <2> QED BY <2>1, LedgerStutters
<1> QED BY <1>1, <1>2, <1>3, <1>4 DEF Next, Aggregation, Sched

-----------------------------------------------------------------------------
(* The labels: as long as no generation number has come back, a table built   *)
(* for the current generation has the enabled variables of the configuration, *)
(* with their definitions; the generations that the task knows of are ones    *)
(* there have been, so that a new number is not one of them.                  *)

EnabledIds == {id \in DOMAIN vars_cfg : vars_cfg[id].enabled}
Labelled(table) ==
    /\ DOMAIN table = EnabledIds
    /\ \A id \in EnabledIds : table[id].def = vars_cfg[id]

Numbers == {NoEpoch, generation} \cup {past[i] : i \in 1..Len(past)}

LabelInv ==
    /\ agg.seen \in Numbers /\ agg.polled \in Numbers
    /\ NumbersTellApart /\ agg.seen = generation => Labelled(s_agg_table)

LEMMA InitLabels == Init => LabelInv
BY DEF Init, LabelInv, Numbers, NoEpoch

(* A number that tells apart is none of those there have been. *)
LEMMA NewNumber ==
  ASSUME CfgType, NEW g \in Nat, NewGeneration(g)
  PROVE  Numbers \subseteq Numbers' /\ (NumbersTellApart' => generation' \notin Numbers)
<1>1. past' = Append(past, generation) /\ generation' = g
  BY DEF NewGeneration
<1>2. past \in Seq(Nat) /\ generation \in Nat
  BY DEF CfgType
<1>3. /\ Len(past') = Len(past) + 1 /\ Len(past) \in Nat /\ past'[Len(past) + 1] = generation
      /\ \A i \in 1..Len(past) : past'[i] = past[i]
  BY <1>1, <1>2
<1>4. ASSUME NEW n \in Numbers, n # NoEpoch PROVE \E i \in 1..Len(past') : past'[i] = n
  <2>1. CASE n = generation
    BY <1>3, <2>1
  <2>2. CASE \E i \in 1..Len(past) : n = past[i]
    <3>1. PICK i \in 1..Len(past) : n = past[i]
      BY <2>2
    <3>2. i \in 1..Len(past') /\ past'[i] = n
      BY <1>3, <3>1
    <3> QED BY <3>2
  <2> QED BY <1>4, <2>1, <2>2 DEF Numbers
<1>5. Numbers \subseteq Numbers'
  BY <1>4 DEF Numbers
<1>6. ASSUME NumbersTellApart', generation' \in Numbers PROVE FALSE
  <2> DEFINE all == Append(past', generation')
  <2>1. generation' # NoEpoch
    BY <1>1 DEF NoEpoch
  <2>2. PICK i \in 1..Len(past') : past'[i] = generation'
    BY <1>4, <1>6, <2>1
  <2>3. past' \in Seq(Nat) /\ generation' \in Nat
    BY <1>1, <1>2
  <2>4. Len(all) = Len(past') + 1 /\ all[i] = past'[i] /\ all[Len(past') + 1] = generation'
    BY <2>2, <2>3
  <2>5. \A k, l \in 1..Len(all) : k # l => all[k] # all[l]
    BY <1>6 DEF NumbersTellApart
  <2> HIDE DEF all
  <2>6. i \in 1..Len(all) /\ Len(past') + 1 \in 1..Len(all) /\ i # Len(past') + 1
    BY <1>3, <2>2, <2>4
  <2> QED BY <2>2, <2>4, <2>5, <2>6
<1> QED BY <1>5, <1>6

LEMMA TurnedLabels ==
  ASSUME Types, LabelInv, agg.polled = generation, NumbersTellApart
  PROVE  Labelled(Turned)
<1>1. DOMAIN Turned = DOMAIN CurrentTable /\ \A id \in DOMAIN Turned : Turned[id].def = CurrentTable[id].def
  BY TurnedIs
<1>2. CASE agg.polled # agg.seen
  <2>1. /\ \A id : id \in DOMAIN CurrentTable <=> Enabled(id)
        /\ \A id \in DOMAIN CurrentTable : CurrentTable[id].def = vars_cfg[id]
    BY <1>2, CurrentIs DEF Types
  <2> QED BY <1>1, <2>1 DEF Labelled, EnabledIds, Enabled
<1>3. CASE agg.polled = agg.seen
  <2>1. CurrentTable = s_agg_table /\ Labelled(s_agg_table)
    BY <1>3 DEF CurrentTable, LabelInv
  <2> QED BY <1>1, <2>1 DEF Labelled
<1> QED BY <1>2, <1>3

LEMMA LabelStep == Types /\ LabelInv /\ [Next]_vars => LabelInv'
<1> SUFFICES ASSUME Types, LabelInv, [Next]_vars PROVE LabelInv'
  OBVIOUS
<1>1. generation \in Nat
  BY DEF Types, CfgType
<1>2. ASSUME NEW g \in Nat, NewGeneration(g), UNCHANGED agg PROVE LabelInv'
  <2>1. Numbers \subseteq Numbers' /\ (NumbersTellApart' => generation' \notin Numbers)
    BY <1>2, NewNumber DEF Types
  <2> QED BY <1>2, <2>1 DEF LabelInv
<1>6. CASE EditConfig
  <2>1. generation + 1 \in Nat /\ NewGeneration(generation + 1) /\ UNCHANGED agg
    BY <1>1, <1>6 DEF EditConfig
  <2> QED BY <1>2, <2>1
<1>7. CASE RestoreFile
  <2>1. PICK f \in Files : NewGeneration(f.generation + 1)
    BY <1>7 DEF RestoreFile
  <2>2. f.generation + 1 \in Nat /\ UNCHANGED agg
    BY <1>7, EngineAssumption DEF RestoreFile
  <2> QED BY <1>2, <2>1, <2>2
<1>3. CASE AggWake
  <2>1. agg'.seen = agg.seen /\ agg'.polled = generation
    BY <1>3 DEF AggWake, Types, AggType
  <2>2. UNCHANGED <<config, s_agg_table>>
    BY <1>3 DEF AggWake
  <2>3. UNCHANGED Labelled(s_agg_table)
    BY <2>2 DEF Labelled, EnabledIds
  <2>4. UNCHANGED <<Numbers, NumbersTellApart>>
    BY <2>2 DEF Numbers, NumbersTellApart
  <2> QED BY <2>1, <2>2, <2>3, <2>4 DEF LabelInv, Numbers
<1>4. CASE AggRun
  <2>1. /\ UNCHANGED config /\ s_agg_table' = Reopened(Turned)
        /\ agg'.seen = agg.polled /\ agg'.polled = NoEpoch
    BY <1>4 DEF AggRun, Types, AggType, Turned
  <2>2. Turned \in Tables /\ now \in Nat
    BY TurnedIs, EngineAssumption DEF Types, CfgType
  <2>3. DOMAIN s_agg_table' = DOMAIN Turned /\ \A id \in DOMAIN Turned : s_agg_table'[id].def = Turned[id].def
    BY <2>1, <2>2, ReopenedIs
  <2>4. UNCHANGED EnabledIds
    BY <2>1 DEF EnabledIds
  <2>5. NumbersTellApart /\ agg.polled = generation => Labelled(s_agg_table)'
    BY <2>1, <2>3, <2>4, TurnedLabels DEF Labelled
  <2>6. UNCHANGED <<Numbers, NumbersTellApart>>
    BY <2>1 DEF Numbers, NumbersTellApart
  <2> QED BY <2>1, <2>5, <2>6 DEF LabelInv, Numbers
<1>5. CASE \/ Tick \/ UNCHANGED vars
           \/ \E b \in Buses : Sched(b)
           \/ \E k \in Sinks : Drain(k)
  <2>1. UNCHANGED <<config, agg, s_agg_table>>
    BY <1>5 DEF Tick, vars, Sched, SchedPoll, SchedScan, SchedRead, Drain
  <2>2. UNCHANGED <<Numbers, NumbersTellApart>> /\ UNCHANGED Labelled(s_agg_table)
    BY <2>1 DEF Numbers, NumbersTellApart, Labelled, EnabledIds
  <2> QED BY <2>1, <2>2 DEF LabelInv
<1> QED BY <1>3, <1>4, <1>5, <1>6, <1>7 DEF Next, Aggregation

-----------------------------------------------------------------------------
(* The theorems *)

Inv == Types /\ OrderInv /\ LostInv /\ LabelInv

LEMMA Invariance == Spec => []Inv
<1>1. Init => Inv
  BY InitTypes, InitOrder, InitLedger, InitLabels DEF Inv
<1>2. Inv /\ [Next]_vars => Inv'
  BY TypesStep, OrderStep, LedgerStep, LabelStep DEF Inv
<1> QED BY <1>1, <1>2, PTL DEF Spec

\* Every variable of the engine keeps its type and the queues their lengths, for any
\* variables, buses, edits and sinks; a bus is mid-scan exactly if it has variables to read.
THEOREM TypeCorrect == Spec => []TypeOK
<1>1. Inv => TypeOK
  BY TypeParts DEF Inv, LostInv
<1> QED BY <1>1, Invariance, PTL

\* The samples of a variable reach its windows in the order they were read, each at most
\* once and none of another variable, whatever edits move, drop or rebuild the windows.
THEOREM SamplesStayInOrder == Spec => []WindowsInOrder
<1>1. Inv => WindowsInOrder
  BY OrderParts DEF Inv
<1> QED BY <1>1, Invariance, PTL

\* The engine implements the ledger: a sample is on its way or in an open window, or in one
\* published result, or lost, and a step of the engine settles it at most once.
THEOREM SamplesAccounted == Spec => LedgerSpec
<1>1. Inv /\ [Next]_vars => [Ledger!Next]_(Ledger!vars)
  BY LedgerStep DEF Inv
<1>2. Init => Ledger!Init
  BY InitLedger
<1> QED BY <1>1, <1>2, Invariance, PTL DEF Spec, LedgerSpec, Ledger!Spec

LEMMA KeptStep ==
  ASSUME Inv, [Next]_vars, NEW id \in DOMAIN s_agg_table, Enabled(id)
  PROVE  Serials(s_agg_table[id].acc) \cap lost' = {}
<1>1. Types /\ OrderInv /\ LostInv
  BY DEF Inv
<1>2. Serials(s_agg_table[id].acc) \subseteq Pending
  BY DEF Pending, InTable
<1>3. Pending \cap lost = {} /\ Pending \subseteq 1..taken /\ taken \in Nat
  BY <1>1, PendingNumbers, EngineAssumption DEF LostInv, Types, TakenType
<1>4. CASE AggRun
  <2>1. lost' = lost \cup (Arrived \ InTable(Turned))
    BY <1>4 DEF AggRun, Arrived, Turned
  <2>2. id \in DOMAIN CurrentTable
    BY <1>1, CurrentIs DEF Types
  <2>3. id \in DOMAIN Turned /\ OpenWindow(id) = s_agg_table[id].acc
    BY <1>1, <2>2, TurnedIs, TurnedSerials
  <2>4. Serials(s_agg_table[id].acc) \subseteq Serials(Turned[id].acc)
    BY <1>1, <2>3, TurnedSerials
  <2>5. Serials(s_agg_table[id].acc) \subseteq InTable(Turned)
    BY <2>3, <2>4 DEF InTable
  <2> QED BY <1>2, <1>3, <2>1, <2>5
<1>5. ASSUME NEW b \in Buses, SchedRead(b)
      PROVE  Serials(s_agg_table[id].acc) \cap lost' = {}
  <2>1. lost' = lost \/ (lost' = lost \cup {taken'} /\ taken' = taken + 1)
    BY <1>1, <1>5, ReadQueues
  <2>2. taken' = taken + 1 => taken' \notin 1..taken
    BY <1>3
  <2> QED BY <1>2, <1>3, <2>1, <2>2
<1>6. CASE \/ Tick \/ EditConfig \/ RestoreFile \/ AggWake \/ UNCHANGED vars
           \/ \E b \in Buses : SchedPoll(b) \/ SchedScan(b)
           \/ \E k \in Sinks : Drain(k)
  <2>1. lost' = lost
    BY <1>6 DEF Tick, EditConfig, RestoreFile, AggWake, vars, SchedPoll, SchedScan, Drain
  <2> QED BY <1>2, <1>3, <2>1
<1> QED BY <1>4, <1>5, <1>6 DEF Next, Aggregation, Sched

\* No edit, and no other step, costs a variable that is enabled the samples of its open window.
THEOREM EditsKeepWindows == Spec => RebuildKeepsWindows
<1> DEFINE Kept == \A id \in DOMAIN s_agg_table : Enabled(id) => Serials(s_agg_table[id].acc) \cap lost' = {}
<1>1. Inv /\ [Next]_vars => Kept
  BY KeptStep
<1> QED BY <1>1, Invariance, PTL DEF Spec, RebuildKeepsWindows

LEMMA OnlyRunEndsTurn ==
  ASSUME Types, [Next]_vars, AggTurn
  PROVE  AggRun
BY DEF Types, AggType, Next, Tick, EditConfig, RestoreFile, Sched, SchedPoll, SchedScan, SchedRead, Aggregation,
       AggWake, Drain, vars, AggTurn

\* The first sample of a variable just added or enabled, or brought by a restored file, finds its
\* window: the generation the task read after it took the sample is the one the sample's variable
\* is enabled in.  The one way to lose it is a restored file that repeats a generation number.
THEOREM FirstSampleCounts == Spec => FreshSampleFolded
<1> DEFINE Counts == Informed /\ Enabled(agg.msg.id) => agg.msg.n \notin lost'
<1>1. Inv /\ [Next]_vars => Counts
  <2> SUFFICES ASSUME Inv, [Next]_vars, AggTurn, agg.polled = generation, NumbersTellApart,
                      Enabled(agg.msg.id)
               PROVE  agg.msg.n \notin lost'
    BY DEF Informed
  <2>1. Types /\ OrderInv /\ LostInv /\ LabelInv
    BY DEF Inv
  <2>2. lost' = lost \cup (Arrived \ InTable(Turned))
    BY <2>1, OnlyRunEndsTurn DEF AggRun, Arrived, Turned
  <2>3. agg.msg.id \in DOMAIN Turned
    BY <2>1, TurnedLabels DEF Labelled, EnabledIds, Enabled
  <2>4. agg.msg \in Sample /\ agg.msg.n \in InTable(Turned)
    BY <2>1, <2>3, TurnedIs, TurnedSerials
  <2>5. agg.msg.n # 0
    <3>1. agg.msg # NoSample
      BY <2>4, SampleIs
    <3> QED BY <2>1, <3>1, MessageNumber
  <2>6. agg.msg.n \in Pending
    BY <2>5 DEF Pending
  <2> QED BY <2>1, <2>2, <2>4, <2>6 DEF LostInv
<1> QED BY <1>1, Invariance, PTL DEF Spec, FreshSampleFolded

\* What a turn publishes has the current definition of an enabled variable, if no edit and no
\* restored file came between the reading of the generation and the turn, and no restored file
\* has repeated a generation number.
THEOREM LabelsFollowEdits == Spec => LabelsAreCurrent
<1> DEFINE Current ==
             Informed =>
                 \A i \in (Len(published) + 1)..Len(published') :
                     Enabled(published'[i].id) /\ published'[i].def = vars_cfg[published'[i].id]
<1>1. Inv /\ [Next]_vars => Current
  <2> SUFFICES ASSUME Inv, [Next]_vars, AggTurn, agg.polled = generation, NumbersTellApart,
                      NEW i \in (Len(published) + 1)..Len(published')
               PROVE  Enabled(published'[i].id) /\ published'[i].def = vars_cfg[published'[i].id]
    BY DEF Informed
  <2> DEFINE rs == Results(Turned)
             L == Len(published)
  <2>1. Types /\ LabelInv
    BY DEF Inv
  <2>2. published' = published \o rs /\ Turned \in Tables /\ published \in Seq(Result)
    BY <2>1, OnlyRunEndsTurn, TurnedIs DEF AggRun, Publish, Turned, Types, ReportType
  <2>3. /\ rs \in Seq(Result)
        /\ \A k \in 1..Len(rs) : rs[k].id \in Closing(Turned) /\ rs[k].def = Turned[rs[k].id].def
    BY <2>2, ResultsIs
  <2> HIDE DEF rs
  <2>4. i - L \in 1..Len(rs) /\ published'[i] = rs[i - L]
    BY <2>2, <2>3
  <2>5. rs[i - L].id \in DOMAIN Turned /\ published'[i].id = rs[i - L].id
        /\ published'[i].def = Turned[rs[i - L].id].def
    BY <2>3, <2>4 DEF Closing
  <2>6. Labelled(Turned)
    BY <2>1, TurnedLabels
  <2> QED BY <2>5, <2>6 DEF Labelled, EnabledIds, Enabled
<1> QED BY <1>1, Invariance, PTL DEF Spec, LabelsAreCurrent

Accounts == INSTANCE SampleLedger_proofs WITH pending <- Pending, reported <- Reported

\* What the ledger promises holds of the engine: every sample read is in exactly one of three
\* places, on its way or in an open window, in a published result, or given up.
THEOREM NoSampleForgotten == Spec => []Ledger!Accounted
<1>1. Accounts!Spec => []Accounts!Accounted
  BY Accounts!NothingForgotten
<1>2. LedgerSpec <=> Accounts!Spec
  BY DEF LedgerSpec, Ledger!Spec, Ledger!Init, Ledger!Next, Ledger!Take, Ledger!Settle, Ledger!vars,
         Accounts!Spec, Accounts!Init, Accounts!Next, Accounts!Take, Accounts!Settle, Accounts!vars
<1>3. Accounts!Accounted <=> Ledger!Accounted
  BY DEF Accounts!Accounted, Ledger!Accounted
<1> QED BY <1>1, <1>2, <1>3, SamplesAccounted, PTL
=============================================================================
