-------------------------- MODULE SdLogger_proofs --------------------------
(* Proofs about SdLogger, for any variables, formats, intervals, capacities   *)
(* and any number of edits, results and resets.                               *)
EXTENDS SdLogger, TLAPS, FiniteSetTheorems, WellFoundedInduction

-----------------------------------------------------------------------------
(* Numbers and sequences *)

LEMMA LeastNumber ==
  ASSUME NEW T \in SUBSET Nat, T # {}
  PROVE  \E x \in T : \A y \in T : x <= y
<1>1. PICK x \in T : \A y \in T : ~ (<<y, x>> \in OpToRel(<, Nat))
  BY NatLessThanWellFounded, WFMin
<1>2. \A y \in T : y < x => <<y, x>> \in OpToRel(<, Nat)
  BY DEF OpToRel
<1>3. \A y \in T : ~ (y < x)
  BY <1>1, <1>2, Zenon
<1> QED BY <1>3

LEMMA MinIsLeast ==
  ASSUME NEW T \in SUBSET Nat, T # {}
  PROVE  Min(T) \in T /\ \A y \in T : Min(T) <= y
BY LeastNumber DEF Min

(* The elements of a sequence. *)
Elements(s) == {s[i] : i \in 1..Len(s)}

LEMMA AppendRow ==
  ASSUME NEW s, s \in Seq(Elements(s)), NEW e
  PROVE  /\ Append(s, e) \in Seq(Elements(Append(s, e)))
         /\ Len(Append(s, e)) = Len(s) + 1 /\ Len(s) \in Nat
         /\ \A i \in 1..Len(s) + 1 : Append(s, e)[i] = IF i = Len(s) + 1 THEN e ELSE s[i]
<1> DEFINE S == Elements(s) \cup {e}
<1>0. s \in Seq(S)
  OBVIOUS
<1>1. /\ Append(s, e) \in Seq(S) /\ Len(Append(s, e)) = Len(s) + 1 /\ Len(s) \in Nat
      /\ \A i \in 1..Len(s) + 1 : Append(s, e)[i] = IF i = Len(s) + 1 THEN e ELSE s[i]
  <2> HIDE DEF S
  <2>1. e \in S
    BY DEF S
  <2> QED BY <1>0, <2>1
<1>2. S \subseteq Elements(Append(s, e))
  BY <1>1 DEF Elements
<1>3. Append(s, e) \in Seq(Elements(Append(s, e)))
  BY <1>1, <1>2
<1> QED BY <1>1, <1>3

LEMMA OneRow ==
  ASSUME NEW e
  PROVE  /\ <<e>> \in Seq(Elements(<<e>>)) /\ Len(<<e>>) = 1
         /\ <<e>>[1] = e
BY DEF Elements

LEMMA TailOf ==
  ASSUME NEW S, NEW s \in Seq(S), s # <<>>
  PROVE  /\ Tail(s) \in Seq(S) /\ Len(s) \in Nat \ {0} /\ Len(Tail(s)) = Len(s) - 1
         /\ Head(s) = s[1] /\ Head(s) \in S
         /\ \A i \in 1..Len(s) - 1 : Tail(s)[i] = s[i + 1]
OBVIOUS

-----------------------------------------------------------------------------
(* Types.  TypeOK is taken apart along the variables the actions leave alone. *)

Steps == {"receive", "long", "wide", "flush_all", "handle", "store", "timeouts", "positions"}

TimeType   == now \in 0..MaxTime
ConfigType == generation \in 0..MaxGeneration /\ log_format \in Formats
VarsType   == DOMAIN vars_cfg \subseteq Ids /\ \A id \in DOMAIN vars_cfg : vars_cfg[id] \in Definition
SerialType == serial \in 0..MaxResults
QueueType  == s_queue \in Seq(Result) /\ Len(s_queue) <= QueueLen
PositionType == s_position_queue \in Seq(Nat) /\ Len(s_position_queue) <= PositionLen
PcType     == pc \in Steps
HandType   == hand \in Result \cup {NoResult}
HandAt     == hand = NoResult <=> pc \in {"receive", "timeouts", "positions"}
GroupsFit  == DOMAIN s_groups \subseteq Intervals /\ Cardinality(DOMAIN s_groups) <= MaxGroups
GroupsOK   ==
    \A l \in DOMAIN s_groups :
        LET g == s_groups[l] IN
        /\ DOMAIN g.cols \subseteq Ids /\ DOMAIN g.vals \subseteq DOMAIN g.cols
        /\ \A id \in DOMAIN g.vals : g.vals[id] \in Result /\ g.vals[id].id = id
        /\ g.started \in 0..now \cup {NoRow}
CardType   == written \subseteq 1..serial /\ dropped \subseteq 1..serial

LEMMA TypeParts ==
  TypeOK <=> /\ TimeType /\ ConfigType /\ VarsType /\ SerialType /\ QueueType /\ PositionType /\ PcType
             /\ HandType /\ HandAt /\ GroupsFit /\ GroupsOK /\ CardType
BY Zenon DEF TypeOK, TimeType, ConfigType, VarsType, SerialType, QueueType, PositionType, PcType, HandType,
             HandAt, GroupsFit, GroupsOK, CardType, Steps

-----------------------------------------------------------------------------
(* Groups: at most MaxGroups of them, and no variable in two. *)

LEMMA SharingApart ==
  ASSUME NEW k, NEW l, k # l
  PROVE  Sharing(k) \cap Sharing(l) = {}
BY DEF Sharing

LEMMA FewGroups ==
  ASSUME DOMAIN vars_cfg \subseteq Ids
  PROVE  Grouped \subseteq Intervals /\ Cardinality(Grouped) <= MaxGroups
<1> DEFINE used == {l \in Intervals : Sharing(l) # {}}
           First(l) == Min(Sharing(l))
           Before(l) == {k \in used : First(k) < First(l)}
<1>1. Grouped = {l \in used : Cardinality(Before(l)) < MaxGroups}
  BY DEF Grouped
<1>2. \A l \in used : First(l) \in Sharing(l) /\ First(l) \in Nat
  <2> SUFFICES ASSUME NEW l \in used PROVE First(l) \in Sharing(l) /\ First(l) \in Nat
    OBVIOUS
  <2>1. Sharing(l) \subseteq Nat /\ Sharing(l) # {}
    BY LoggerAssumption DEF Sharing
  <2>2. First(l) \in Sharing(l)
    BY <2>1, MinIsLeast
  <2> QED BY <2>1, <2>2
<1>3. \A k, l \in used : First(k) = First(l) => k = l
  BY <1>2, SharingApart
<1>4. IsFiniteSet(used)
  BY LoggerAssumption, FS_Subset
<1>5. \A l \in used : IsFiniteSet(Before(l)) /\ Cardinality(Before(l)) \in Nat
  BY <1>4, FS_Subset, FS_CardinalityType
<1>6. IsFiniteSet(Grouped) /\ Grouped \subseteq used
  BY <1>1, <1>4, FS_Subset
<1>7. MaxGroups \in Nat \ {0}
  BY LoggerAssumption
<1>8. CASE Grouped = {}
  BY <1>8, <1>7, FS_EmptySet
<1>9. CASE Grouped # {}
  <2> DEFINE Room == {MaxGroups - Cardinality(Before(l)) : l \in Grouped}
  <2>1. Room \in SUBSET Nat /\ Room # {}
    <3>1. \A l \in Grouped : MaxGroups - Cardinality(Before(l)) \in Nat
      <4> SUFFICES ASSUME NEW l \in Grouped PROVE MaxGroups - Cardinality(Before(l)) \in Nat
        OBVIOUS
      <4>1. Cardinality(Before(l)) < MaxGroups /\ Cardinality(Before(l)) \in Nat
        BY <1>1, <1>5, <1>6
      <4> QED BY <4>1, <1>7
    <3> QED BY <3>1, <1>9
  <2>2. PICK r \in Room : \A y \in Room : r <= y
    BY <2>1, LeastNumber
  <2>3. PICK l \in Grouped : r = MaxGroups - Cardinality(Before(l))
    BY <2>2
  <2>4. ASSUME NEW k \in Grouped PROVE k \in Before(l) \cup {l}
    <3>1. MaxGroups - Cardinality(Before(k)) >= MaxGroups - Cardinality(Before(l))
      BY <2>2, <2>3
    <3>2. k \in used /\ l \in used
      BY <1>6
    <3>3. CASE First(l) < First(k)
      <4>1. Before(l) \cup {l} \subseteq Before(k) /\ l \notin Before(l)
        BY <1>2, <3>2, <3>3
      <4>2. Cardinality(Before(l) \cup {l}) = Cardinality(Before(l)) + 1
        BY <4>1, <1>5, <3>2, FS_AddElement
      <4>3. Cardinality(Before(l) \cup {l}) <= Cardinality(Before(k))
        BY <4>1, <1>5, <3>2, FS_Subset
      <4>4. Cardinality(Before(l)) \in Nat /\ Cardinality(Before(k)) \in Nat
        BY <1>5, <3>2
      <4>5. FALSE
        <5> HIDE DEF Before
        <5> QED BY <3>1, <4>2, <4>3, <4>4, <1>7
      <4> QED BY <4>5
    <3>4. CASE First(k) = First(l)
      BY <3>4, <1>3, <3>2
    <3>5. CASE First(k) < First(l)
      BY <3>5, <3>2
    <3>6. First(l) < First(k) \/ First(k) = First(l) \/ First(k) < First(l)
      <4>1. First(k) \in Nat /\ First(l) \in Nat
        BY <1>2, <3>2
      <4> HIDE DEF First
      <4> QED BY <4>1
    <3> QED BY <3>3, <3>4, <3>5, <3>6, Zenon
  <2>5. l \in used /\ Grouped \subseteq Before(l) \cup {l}
    BY <2>4, <1>6
  <2>6. IsFiniteSet(Before(l)) /\ Cardinality(Before(l)) \in Nat /\ Cardinality(Before(l)) < MaxGroups
    BY <1>1, <1>5, <2>3, <2>5
  <2>7. Grouped \subseteq Intervals /\ Cardinality(Grouped) \in Nat
    BY <1>6, FS_CardinalityType
  <2> HIDE DEF Before
  <2>8. /\ IsFiniteSet(Before(l) \cup {l})
        /\ Cardinality(Before(l) \cup {l}) <= Cardinality(Before(l)) + 1
    BY <2>6, FS_AddElement
  <2>9. Cardinality(Grouped) <= Cardinality(Before(l) \cup {l}) /\ Cardinality(Before(l) \cup {l}) \in Nat
    BY <2>5, <2>8, FS_Subset, FS_CardinalityType
  <2> QED BY <2>6, <2>7, <2>8, <2>9, <1>7
<1> QED BY <1>6, <1>8, <1>9

-----------------------------------------------------------------------------
(* Groups and files as values: m is the last number given, W the numbers that *)
(* wait for the task, P the positions that wait, t the time.                  *)

IsGroup(g) == g = [cols |-> g.cols, vals |-> g.vals, started |-> g.started]
IsFile(f)  == f = [fmt |-> f.fmt, cols |-> f.cols, rows |-> f.rows] /\ f.rows \in Seq(Elements(f.rows))

(* A group has members; what it has pending is theirs. *)
Membered(g) ==
    /\ IsGroup(g)
    /\ DOMAIN g.cols \subseteq Ids /\ DOMAIN g.cols # {} /\ DOMAIN g.vals \subseteq DOMAIN g.cols
    /\ \A id \in DOMAIN g.vals : g.vals[id] \in Result /\ g.vals[id].id = id

Timed(g, t) ==
    /\ g.started \in 0..t \cup {NoRow}
    /\ g.started = NoRow <=> g.vals = <<>>

(* What is pending is older than what waits, and no position. *)
Older(g, m, W, P) ==
    \A id \in DOMAIN g.vals :
        /\ g.vals[id].n \in 1..m /\ g.vals[id].n \notin P
        /\ \A w \in W : g.vals[id].n < w

RowOK(g, t, m, W, P) == Membered(g) /\ Timed(g, t) /\ Older(g, m, W, P)
GroupOK(g, t, m, W, P) == RowOK(g, t, m, W, P) /\ DOMAIN g.vals # DOMAIN g.cols

Apart(g, h) == DOMAIN g.cols \cap DOMAIN h.cols = {} /\ CellsOf(g) \cap CellsOf(h) = {}

(* The numbers of a variable rise along a file, up to those that wait. *)
FileOK(f, m, W) ==
    /\ IsFile(f)
    /\ \A i \in 1..Len(f.rows) : \A id \in DOMAIN f.rows[i].cells :
          f.rows[i].cells[id] \in 1..m /\ \A w \in W : f.rows[i].cells[id] < w
    /\ \A i, j \in 1..Len(f.rows) :
          i < j => \A id \in DOMAIN f.rows[i].cells \cap DOMAIN f.rows[j].cells :
                      f.rows[i].cells[id] < f.rows[j].cells[id]

(* What a group has pending is younger than what its variables have in a file. *)
Behind(f, g) ==
    \A i \in 1..Len(f.rows) : \A id \in DOMAIN f.rows[i].cells \cap DOMAIN g.vals :
        f.rows[i].cells[id] < g.vals[id].n

(* Numbers are only ever added after the last one. *)
Later(m, W, V) == \A w \in V : w \in W \/ w > m

LEMMA GroupLasts ==
  ASSUME NEW g, NEW t \in Nat, NEW t2 \in Nat, t <= t2, NEW m \in Nat, NEW m2 \in Nat, m <= m2,
         NEW W \in SUBSET Nat, NEW W2 \in SUBSET Nat, Later(m, W, W2),
         NEW P, NEW P2 \in SUBSET Nat, Later(m, P, P2), GroupOK(g, t, m, W, P)
  PROVE  GroupOK(g, t2, m2, W2, P2)
<1>1. Timed(g, t2)
  <2>1. g.started \in 0..t2 \cup {NoRow}
    BY DEF GroupOK, RowOK, Timed
  <2> QED BY <2>1 DEF GroupOK, RowOK, Timed
<1>2. ASSUME NEW id \in DOMAIN g.vals
      PROVE  /\ g.vals[id].n \in 1..m2 /\ g.vals[id].n \notin P2
             /\ \A w \in W2 : g.vals[id].n < w
  <2>1. /\ g.vals[id].n \in 1..m /\ g.vals[id].n \notin P
        /\ \A w \in W : g.vals[id].n < w
    BY DEF GroupOK, RowOK, Older
  <2>2. g.vals[id].n \notin P2
    BY <2>1 DEF Later
  <2>3. ASSUME NEW w \in W2 PROVE g.vals[id].n < w
    BY <2>1 DEF Later
  <2> QED BY <2>1, <2>2, <2>3
<1>3. Older(g, m2, W2, P2)
  BY <1>2 DEF Older
<1> QED BY <1>1, <1>3 DEF GroupOK, RowOK

LEMMA FileLasts ==
  ASSUME NEW f, NEW m \in Nat, NEW m2 \in Nat, m <= m2,
         NEW W \in SUBSET Nat, NEW W2 \in SUBSET Nat, Later(m, W, W2), FileOK(f, m, W)
  PROVE  FileOK(f, m2, W2)
<1>1. ASSUME NEW i \in 1..Len(f.rows), NEW id \in DOMAIN f.rows[i].cells
      PROVE  f.rows[i].cells[id] \in 1..m2 /\ \A w \in W2 : f.rows[i].cells[id] < w
  <2>1. f.rows[i].cells[id] \in 1..m /\ \A w \in W : f.rows[i].cells[id] < w
    BY DEF FileOK
  <2>2. ASSUME NEW w \in W2 PROVE f.rows[i].cells[id] < w
    BY <2>1 DEF Later
  <2>3. f.rows[i].cells[id] \in 1..m2
    BY <2>1
  <2> QED BY <2>2, <2>3
<1> QED BY <1>1 DEF FileOK

LEMMA GroupFields ==
  ASSUME NEW g, NEW x, NEW y, IsGroup(g)
  PROVE  [g EXCEPT !.vals = x, !.started = y] = [cols |-> g.cols, vals |-> x, started |-> y]
<1> DEFINE e == [g EXCEPT !.vals = x, !.started = y]
<1>1. DOMAIN e = {"cols", "vals", "started"} /\ e = [z \in {"cols", "vals", "started"} |-> e[z]]
  BY DEF IsGroup
<1>2. e.vals = x /\ e.cols = g.cols /\ e.started = y
  BY DEF IsGroup
<1>3. e = [cols |-> g.cols, vals |-> x, started |-> y]
  <2> HIDE DEF e
  <2> QED BY <1>1, <1>2
<1> QED BY <1>3

(* The group after its row was flushed. *)
Emptied(g) == [g EXCEPT !.vals = <<>>, !.started = NoRow]

LEMMA EmptiedGroup ==
  ASSUME NEW g, NEW t \in Nat, NEW m, NEW W, NEW P, Membered(g)
  PROVE  /\ GroupOK(Emptied(g), t, m, W, P) /\ Emptied(g).cols = g.cols
         /\ DOMAIN Emptied(g).vals = {} /\ CellsOf(Emptied(g)) = {}
<1>1. Emptied(g) = [cols |-> g.cols, vals |-> <<>>, started |-> NoRow]
  BY GroupFields DEF Membered, Emptied
<1>2. Emptied(g).cols = g.cols /\ Emptied(g).vals = <<>> /\ Emptied(g).started = NoRow
  BY <1>1
<1>3. DOMAIN Emptied(g).vals = {} /\ CellsOf(Emptied(g)) = {}
  BY <1>2 DEF CellsOf
<1>4. Membered(Emptied(g))
  BY <1>1, <1>2, <1>3 DEF Membered, IsGroup
<1>5. Timed(Emptied(g), t) /\ Older(Emptied(g), m, W, P)
  BY <1>2, <1>3 DEF Timed, Older
<1>6. DOMAIN Emptied(g).cols # {}
  BY <1>2 DEF Membered
<1> QED BY <1>2, <1>3, <1>4, <1>5, <1>6 DEF GroupOK, RowOK

LEMMA RowOfGroup ==
  ASSUME NEW g
  PROVE  /\ Row(g).cols = Header(g) /\ DOMAIN Row(g).cells = DOMAIN g.vals
         /\ \A id \in DOMAIN g.vals : Row(g).cells[id] = g.vals[id].n
BY DEF Row

(* A row is appended to a file behind which its group is. *)
LEMMA AppendKeepsOrder ==
  ASSUME NEW f, NEW g, NEW m, NEW W, NEW P, NEW t, FileOK(f, m, W), Behind(f, g), RowOK(g, t, m, W, P)
  PROVE  LET e == [f EXCEPT !.rows = Append(@, Row(g))]
         IN  /\ FileOK(e, m, W)
             /\ \A h : Behind(f, h) /\ DOMAIN g.vals \cap DOMAIN h.vals = {} => Behind(e, h)
<1> DEFINE r == Row(g)
           s == f.rows
           e == [f EXCEPT !.rows = Append(@, r)]
<1>1. e = [fmt |-> f.fmt, cols |-> f.cols, rows |-> Append(s, r)]
  <2>1. f = [fmt |-> f.fmt, cols |-> f.cols, rows |-> f.rows]
    BY DEF FileOK, IsFile
  <2> HIDE DEF r
  <2> QED BY <2>1
<1>2. /\ e.rows = Append(s, r) /\ e.rows \in Seq(Elements(e.rows))
      /\ Len(e.rows) = Len(s) + 1 /\ Len(s) \in Nat
      /\ \A i \in 1..Len(s) + 1 : e.rows[i] = IF i = Len(s) + 1 THEN r ELSE s[i]
  <2>1. s \in Seq(Elements(s))
    BY DEF FileOK, IsFile
  <2>2. e.rows = Append(s, r)
    BY <1>1
  <2> HIDE DEF e, r, s
  <2> QED BY <2>1, <2>2, AppendRow
<1>3. IsFile(e)
  BY <1>1, <1>2 DEF IsFile
<1>4. DOMAIN r.cells = DOMAIN g.vals /\ \A id \in DOMAIN g.vals : r.cells[id] = g.vals[id].n
  BY RowOfGroup
<1> HIDE DEF e, r
<1>5. ASSUME NEW i \in 1..Len(e.rows), NEW id \in DOMAIN e.rows[i].cells
      PROVE  e.rows[i].cells[id] \in 1..m /\ \A w \in W : e.rows[i].cells[id] < w
  <2>1. CASE i = Len(s) + 1
    BY <1>2, <1>4, <2>1 DEF RowOK, Older
  <2>2. CASE i # Len(s) + 1
    <3>1. i \in 1..Len(s) /\ e.rows[i] = s[i]
      BY <1>2, <2>2
    <3> QED BY <3>1 DEF FileOK
  <2> QED BY <2>1, <2>2
<1>6. ASSUME NEW i \in 1..Len(e.rows), NEW j \in 1..Len(e.rows), i < j,
             NEW id \in DOMAIN e.rows[i].cells \cap DOMAIN e.rows[j].cells
      PROVE  e.rows[i].cells[id] < e.rows[j].cells[id]
  <2>1. i \in 1..Len(s) /\ e.rows[i] = s[i]
    BY <1>2, <1>6
  <2>2. CASE j = Len(s) + 1
    <3>1. e.rows[j] = r
      BY <1>2, <2>2
    <3> QED BY <1>4, <2>1, <3>1 DEF Behind
  <2>3. CASE j # Len(s) + 1
    <3>1. j \in 1..Len(s) /\ e.rows[j] = s[j]
      BY <1>2, <2>3
    <3> QED BY <1>6, <2>1, <3>1 DEF FileOK
  <2> QED BY <2>2, <2>3
<1>7. FileOK(e, m, W)
  BY <1>3, <1>5, <1>6 DEF FileOK
<1>8. ASSUME NEW h, Behind(f, h), DOMAIN g.vals \cap DOMAIN h.vals = {}
      PROVE  Behind(e, h)
  <2> SUFFICES ASSUME NEW i \in 1..Len(e.rows), NEW id \in DOMAIN e.rows[i].cells \cap DOMAIN h.vals
               PROVE  e.rows[i].cells[id] < h.vals[id].n
    BY DEF Behind
  <2>1. i # Len(s) + 1
    BY <1>2, <1>4, <1>8
  <2>2. i \in 1..Len(s) /\ e.rows[i] = s[i]
    BY <1>2, <2>1
  <2> QED BY <1>8, <2>2 DEF Behind
<1> QED BY <1>7, <1>8 DEF e, r

-----------------------------------------------------------------------------
(* The inductive invariant.  A result waits in the queue, then in the task's  *)
(* hand, then in the row of its group: each older than what follows it, so    *)
(* that no result is in two places and the rows of a variable keep its order. *)

Waiting == InHand \cup {s_queue[i].n : i \in 1..Len(s_queue)}
Positions == {s_position_queue[i] : i \in 1..Len(s_position_queue)}

WaitsInOrder ==
    /\ hand.n <= serial /\ (hand # NoResult => hand.n # 0)
    /\ \A i \in 1..Len(s_queue) :
          /\ s_queue[i].n \in 1..serial /\ hand.n < s_queue[i].n
          /\ \A j \in 1..Len(s_queue) : i < j => s_queue[i].n < s_queue[j].n

PositionsInOrder ==
    /\ Positions \subseteq 1..serial /\ Waiting \cap Positions = {}
    /\ \A i, j \in 1..Len(s_position_queue) : i < j => s_position_queue[i] < s_position_queue[j]

GroupsInv   == \A l \in DOMAIN s_groups : GroupOK(s_groups[l], now, serial, Waiting, Positions)
GroupsApart == \A k, l \in DOMAIN s_groups : k # l => Apart(s_groups[k], s_groups[l])
FilesInv    == \A p \in DOMAIN files :
                  /\ FileOK(files[p], serial, Waiting)
                  /\ \A l \in DOMAIN s_groups : Behind(files[p], s_groups[l])

(* The place of the result in hand is free when it is to be filed. *)
PlaceFree ==
    pc = "store" => \A l \in DOMAIN s_groups :
        hand.id \in DOMAIN s_groups[l].cols => hand.id \notin DOMAIN s_groups[l].vals

QueuesInv == WaitsInOrder /\ PositionsInOrder
RowsInv   == GroupsInv /\ GroupsApart /\ FilesInv

IInv ==
    /\ TimeType /\ ConfigType /\ VarsType /\ SerialType /\ QueueType /\ PositionType /\ PcType
    /\ HandType /\ HandAt /\ GroupsFit /\ CardType
    /\ QueuesInv /\ RowsInv /\ PlaceFree

LEMMA Numbers ==
  ASSUME SerialType, HandType, WaitsInOrder, PositionsInOrder
  PROVE  /\ serial \in Nat /\ hand.n \in 0..serial
         /\ Waiting \subseteq 1..serial /\ Waiting \in SUBSET Nat
         /\ Positions \subseteq 1..serial /\ Positions \in SUBSET Nat
<1>1. serial \in Nat
  BY LoggerAssumption DEF SerialType
<1>2. hand.n \in Nat
  BY DEF HandType, Result, NoResult
<1>3. hand.n \in 0..serial
  BY <1>1, <1>2 DEF WaitsInOrder
<1>4. InHand \subseteq 1..serial
  BY <1>1, <1>3 DEF InHand
<1>5. Waiting \subseteq 1..serial
  BY <1>4 DEF Waiting, WaitsInOrder
<1> QED BY <1>1, <1>3, <1>5 DEF PositionsInOrder

(* Steps that leave the groups and the files alone. *)
LEMMA RowsLast ==
  ASSUME IInv, SerialType', HandType', TimeType', WaitsInOrder', PositionsInOrder',
         UNCHANGED <<s_groups, files>>, now <= now', serial <= serial',
         Later(serial, Waiting, Waiting'), Later(serial, Positions, Positions')
  PROVE  RowsInv'
<1>1. /\ serial \in Nat /\ serial' \in Nat /\ Waiting \in SUBSET Nat /\ Waiting' \in SUBSET Nat
      /\ Positions' \in SUBSET Nat
  <2>1. serial \in Nat /\ Waiting \in SUBSET Nat
    BY Numbers DEF IInv, QueuesInv
  <2>2. serial' \in Nat
    BY LoggerAssumption DEF SerialType
  <2>3. hand'.n \in 0..serial'
    BY <2>2 DEF HandType, Result, NoResult, WaitsInOrder
  <2>4. Positions' \in SUBSET Nat
    BY <2>2 DEF PositionsInOrder
  <2>5. Waiting' \in SUBSET Nat
    BY <2>2, <2>3 DEF Waiting, InHand, WaitsInOrder
  <2> QED BY <2>1, <2>2, <2>4, <2>5
<1>2. now \in Nat /\ now' \in Nat
  BY LoggerAssumption DEF IInv, TimeType
<1>3. GroupsInv'
  <2> SUFFICES ASSUME NEW l \in DOMAIN s_groups'
               PROVE  GroupOK(s_groups'[l], now', serial', Waiting', Positions')
    BY DEF GroupsInv
  <2>1. s_groups'[l] = s_groups[l] /\ GroupOK(s_groups[l], now, serial, Waiting, Positions)
    BY DEF IInv, RowsInv, GroupsInv
  <2> QED BY <1>1, <1>2, <2>1, GroupLasts
<1>4. GroupsApart'
  BY DEF IInv, RowsInv, GroupsApart
<1>5. FilesInv'
  <2> SUFFICES ASSUME NEW p \in DOMAIN files'
               PROVE  /\ FileOK(files'[p], serial', Waiting')
                      /\ \A l \in DOMAIN s_groups' : Behind(files'[p], s_groups'[l])
    BY DEF FilesInv
  <2>1. /\ files'[p] = files[p] /\ FileOK(files[p], serial, Waiting)
        /\ \A l \in DOMAIN s_groups : Behind(files[p], s_groups[l])
    BY DEF IInv, RowsInv, FilesInv
  <2> QED BY <1>1, <2>1, FileLasts
<1> QED BY <1>3, <1>4, <1>5 DEF RowsInv

(* Results and positions leave the logger together: they are written or dropped. *)
Leave(C) ==
    \/ written' = written \cup C /\ UNCHANGED dropped
    \/ dropped' = dropped \cup C /\ UNCHANGED written

(* The row of a group goes to a file or is lost; W is what waits afterwards. *)
LEMMA FlushKeeps ==
  ASSUME NEW l \in DOMAIN s_groups, NEW g, NEW W, NEW P, NEW m, NEW t \in Nat, RowOK(g, t, m, W, P),
         \A k \in DOMAIN s_groups :
            k # l => GroupOK(s_groups[k], t, m, W, P) /\ DOMAIN g.cols \cap DOMAIN s_groups[k].cols = {},
         \A p \in DOMAIN files :
            /\ FileOK(files[p], m, W) /\ Behind(files[p], g)
            /\ \A k \in DOMAIN s_groups : k # l => Behind(files[p], s_groups[k]),
         FlushRow(l, g)
  PROVE  /\ DOMAIN s_groups' = DOMAIN s_groups /\ s_groups'[l] = Emptied(g)
         /\ \A k \in DOMAIN s_groups : k # l => s_groups'[k] = s_groups[k]
         /\ \A k \in DOMAIN s_groups' : GroupOK(s_groups'[k], t, m, W, P)
         /\ \A p \in DOMAIN files' :
               FileOK(files'[p], m, W) /\ \A k \in DOMAIN s_groups' : Behind(files'[p], s_groups'[k])
         /\ Leave(CellsOf(g))
<1>1. /\ DOMAIN s_groups' = DOMAIN s_groups /\ s_groups'[l] = Emptied(g)
      /\ \A k \in DOMAIN s_groups : k # l => s_groups'[k] = s_groups[k]
  <2>1. s_groups' = [s_groups EXCEPT ![l] = Emptied(g)]
    BY DEF FlushRow, Emptied
  <2> QED BY <2>1
<1>2. /\ GroupOK(Emptied(g), t, m, W, P) /\ DOMAIN Emptied(g).vals = {}
  BY EmptiedGroup DEF RowOK
<1>3. \A k \in DOMAIN s_groups' : GroupOK(s_groups'[k], t, m, W, P)
  BY <1>1, <1>2
<1>4. \A k \in DOMAIN s_groups : k # l => DOMAIN g.vals \cap DOMAIN s_groups[k].vals = {}
  <2> SUFFICES ASSUME NEW k \in DOMAIN s_groups, k # l
               PROVE  DOMAIN g.vals \cap DOMAIN s_groups[k].vals = {}
    OBVIOUS
  <2>1. DOMAIN g.vals \subseteq DOMAIN g.cols /\ DOMAIN s_groups[k].vals \subseteq DOMAIN s_groups[k].cols
    BY DEF RowOK, GroupOK, Membered
  <2> QED BY <2>1
<1>5. \A f : Behind(f, Emptied(g))
  BY <1>2 DEF Behind
<1>6. \A p \in DOMAIN files' :
         FileOK(files'[p], m, W) /\ \A k \in DOMAIN s_groups' : Behind(files'[p], s_groups'[k])
  <2>1. CASE UNCHANGED files
    <3>1. ASSUME NEW p \in DOMAIN files', NEW k \in DOMAIN s_groups'
          PROVE  Behind(files'[p], s_groups'[k])
      BY <1>1, <1>5, <2>1
    <3>2. \A p \in DOMAIN files' : FileOK(files'[p], m, W)
      BY <2>1
    <3> QED BY <3>1, <3>2

  <2>2. CASE files' = Appended(Path(l, g), Row(g))
    <3> DEFINE path == Path(l, g)
               r == Row(g)
    <3>1. DOMAIN r.cells = DOMAIN g.vals /\ \A id \in DOMAIN g.vals : r.cells[id] = g.vals[id].n
      BY RowOfGroup
    <3> HIDE DEF path, r
    <3>2. CASE path \in DOMAIN files
      <4> DEFINE e == [files[path] EXCEPT !.rows = Append(@, r)]
      <4>1. files' = [files EXCEPT ![path].rows = Append(@, r)]
        BY <2>2, <3>2 DEF Appended, path, r
      <4>2. DOMAIN files' = DOMAIN files /\ files'[path] = e /\ \A p \in DOMAIN files : p # path => files'[p] = files[p]
        BY <3>2, <4>1
      <4>3. FileOK(e, m, W) /\ \A k \in DOMAIN s_groups : k # l => Behind(e, s_groups[k])
        BY <1>4, <3>2, AppendKeepsOrder DEF r
      <4> HIDE DEF e
      <4>4. \A p \in DOMAIN files' : FileOK(files'[p], m, W)
        BY <4>2, <4>3
      <4>5. ASSUME NEW p \in DOMAIN files', NEW k \in DOMAIN s_groups'
            PROVE  Behind(files'[p], s_groups'[k])
        <5>1. CASE k = l
          BY <1>1, <1>5, <5>1
        <5>2. CASE k # l
          BY <1>1, <4>2, <4>3, <5>2
        <5> QED BY <5>1, <5>2
      <4> QED BY <4>4, <4>5
    <3>3. CASE path \notin DOMAIN files
      <4> DEFINE e == [fmt |-> r.fmt, cols |-> r.cols, rows |-> <<r>>]
      <4>1. files' = [p \in DOMAIN files \cup {path} |-> IF p = path THEN e ELSE files[p]]
        BY <2>2, <3>3 DEF Appended, path, r
      <4>2. DOMAIN files' = DOMAIN files \cup {path} /\ files'[path] = e /\ \A p \in DOMAIN files : files'[p] = files[p]
        BY <3>3, <4>1
      <4>3. IsFile(e) /\ Len(e.rows) = 1 /\ e.rows[1] = r
        BY OneRow DEF IsFile
      <4> HIDE DEF e
      <4>4. FileOK(e, m, W)
        BY <3>1, <4>3 DEF FileOK, RowOK, Older
      <4>5. \A k \in DOMAIN s_groups : k # l => Behind(e, s_groups[k])
        BY <1>4, <3>1, <4>3 DEF Behind
      <4>6. \A p \in DOMAIN files' : FileOK(files'[p], m, W)
        BY <4>2, <4>4
      <4>7. ASSUME NEW p \in DOMAIN files', NEW k \in DOMAIN s_groups'
            PROVE  Behind(files'[p], s_groups'[k])
        <5>1. CASE k = l
          BY <1>1, <1>5, <5>1
        <5>2. CASE k # l
          BY <1>1, <4>2, <4>5, <5>2
        <5> QED BY <5>1, <5>2
      <4> QED BY <4>6, <4>7
    <3> QED BY <3>2, <3>3
  <2>3. UNCHANGED files \/ files' = Appended(Path(l, g), Row(g))
    BY DEF FlushRow, cardVars
  <2> QED BY <2>1, <2>2, <2>3
<1>7. Leave(CellsOf(g))
  <2>1. CASE g.vals # <<>>
    BY <2>1 DEF FlushRow, Leave
  <2>2. CASE g.vals = <<>>
    <3>1. CellsOf(g) = {}
      BY <2>2 DEF CellsOf
    <3> QED BY <2>2, <3>1 DEF FlushRow, Leave, cardVars
  <2> QED BY <2>1, <2>2
<1> QED BY <1>1, <1>3, <1>6, <1>7

-----------------------------------------------------------------------------
(* The ledger: what is kept waits for the task or is in the row of a group.   *)

Kept == Waiting \cup Positions \cup Assembled

LEMMA KeptIs == Kept = Queued \cup InHand \cup Assembled
BY DEF Kept, Waiting, Positions, Queued

LEMMA KeptAfter == Kept' = Queued' \cup InHand' \cup Assembled'
BY DEF Kept, Waiting, Positions, Queued

LEMMA KeptNumbers ==
  ASSUME IInv
  PROVE  Kept \subseteq 1..serial
<1>1. Waiting \subseteq 1..serial /\ Positions \subseteq 1..serial
  BY Numbers DEF IInv, QueuesInv
<1>2. Assembled \subseteq 1..serial
  <2> SUFFICES ASSUME NEW l \in DOMAIN s_groups, NEW id \in DOMAIN s_groups[l].vals
               PROVE  s_groups[l].vals[id].n \in 1..serial
    BY DEF Assembled, CellsOf
  <2>1. GroupOK(s_groups[l], now, serial, Waiting, Positions)
    BY DEF IInv, RowsInv, GroupsInv
  <2> QED BY <2>1 DEF GroupOK, RowOK, Older
<1> QED BY <1>1, <1>2 DEF Kept

(* A step that moves nothing in or out is a stutter of the ledger. *)
LEMMA LedgerStutters ==
  ASSUME Kept' = Kept, UNCHANGED <<serial, written, dropped>>
  PROVE  UNCHANGED Ledger!vars
BY KeptIs, KeptAfter DEF Ledger!vars

LEMMA SettlesKept ==
  ASSUME Kept' \subseteq Kept, serial' = serial, NEW closed, closed \subseteq Kept \ Kept',
         written' = written \cup closed, dropped' = dropped \cup ((Kept \ Kept') \ closed)
  PROVE  Ledger!Next
<1>1. Ledger!Settle
  BY KeptIs, KeptAfter DEF Ledger!Settle
<1> QED BY <1>1 DEF Ledger!Next

LEMMA LedgerSettles ==
  ASSUME IInv, NEW C, C \subseteq Kept, Kept' = Kept \ C, Leave(C), serial' = serial
  PROVE  CardType' /\ Ledger!Next
<1>1. CardType'
  BY KeptNumbers DEF Leave, CardType, IInv
<1>2. ASSUME written' = written \cup C, UNCHANGED dropped PROVE Ledger!Next
  <2>1. written' = written \cup C /\ dropped' = dropped \cup ((Kept \ Kept') \ C)
    BY <1>2
  <2> QED BY <2>1, SettlesKept
<1>3. ASSUME dropped' = dropped \cup C, UNCHANGED written PROVE Ledger!Next
  <2>1. written' = written \cup {} /\ dropped' = dropped \cup ((Kept \ Kept') \ {})
    BY <1>3
  <2> QED BY <2>1, SettlesKept
<1> QED BY <1>1, <1>2, <1>3 DEF Leave

-----------------------------------------------------------------------------
(* The steps *)

LEMMA InitInv == Init => IInv /\ Ledger!Init
<1> SUFFICES ASSUME Init PROVE IInv /\ Ledger!Init
  OBVIOUS
<1>1. TimeType /\ ConfigType /\ SerialType /\ PcType /\ HandType /\ HandAt /\ CardType
  BY LoggerAssumption DEF Init, TimeType, ConfigType, SerialType, PcType, Steps, HandType, HandAt, CardType
<1>2. QueueType /\ PositionType
  BY LoggerAssumption DEF Init, QueueType, PositionType
<1>3. VarsType
  BY LoggerAssumption DEF Init, VarsType
<1>4. /\ s_queue = <<>> /\ s_position_queue = <<>> /\ hand.n = 0 /\ hand = NoResult /\ serial = 0
      /\ DOMAIN s_groups = {} /\ DOMAIN files = {} /\ pc = "receive"
  BY DEF Init, NoResult
<1>5. GroupsFit
  BY <1>4, LoggerAssumption, FS_EmptySet DEF GroupsFit
<1>6. Waiting = {} /\ Positions = {} /\ Assembled = {}
  BY <1>4 DEF Waiting, InHand, Positions, Assembled
<1>7. QueuesInv
  BY <1>4, <1>6 DEF QueuesInv, WaitsInOrder, PositionsInOrder
<1>8. RowsInv /\ PlaceFree
  BY <1>4 DEF RowsInv, GroupsInv, GroupsApart, FilesInv, PlaceFree
<1>9. Ledger!Init
  <2>1. Queued = {} /\ InHand = {}
    BY <1>4 DEF Queued, InHand
  <2> QED BY <1>6, <2>1 DEF Init, Ledger!Init
<1> QED BY <1>1, <1>2, <1>3, <1>5, <1>7, <1>8, <1>9 DEF IInv

(* Steps that move no result. *)
LEMMA QuietStep ==
  ASSUME IInv, TimeType', now <= now', ConfigType', VarsType', PcType', HandAt', PlaceFree',
         UNCHANGED <<s_queue, s_position_queue, serial, hand, s_groups, files, written, dropped>>
  PROVE  IInv' /\ UNCHANGED Ledger!vars
<1>1. Waiting' = Waiting /\ Positions' = Positions /\ Assembled' = Assembled
  BY DEF Waiting, InHand, Positions, Assembled
<1>2. SerialType' /\ QueueType' /\ PositionType' /\ HandType' /\ GroupsFit' /\ CardType'
  BY DEF IInv, SerialType, QueueType, PositionType, HandType, GroupsFit, CardType
<1>3. WaitsInOrder' /\ PositionsInOrder'
  BY <1>1 DEF IInv, QueuesInv, WaitsInOrder, PositionsInOrder
<1>4. RowsInv'
  <2>1. serial <= serial'
    BY LoggerAssumption DEF IInv, SerialType
  <2> QED BY <1>1, <1>2, <1>3, <2>1, RowsLast DEF Later
<1>5. UNCHANGED Ledger!vars
  BY <1>1, LedgerStutters DEF Kept
<1> QED BY <1>2, <1>3, <1>4, <1>5 DEF IInv, QueuesInv

LEMMA TickStep == ASSUME IInv, Tick PROVE IInv' /\ UNCHANGED Ledger!vars
<1>1. TimeType' /\ now <= now'
  BY LoggerAssumption DEF IInv, TimeType, Tick
<1>2. UNCHANGED <<configVars, queueVars, pc, hand, s_groups, files, written, dropped>>
  BY DEF Tick, groupVars, cardVars
<1>3. ConfigType' /\ VarsType' /\ PcType' /\ HandAt' /\ PlaceFree'
  BY <1>2 DEF configVars, IInv, ConfigType, VarsType, PcType, HandAt, PlaceFree
<1> QED BY <1>1, <1>2, <1>3, QuietStep DEF queueVars

LEMMA EditConfigStep == ASSUME IInv, EditConfig PROVE IInv' /\ UNCHANGED Ledger!vars
<1>1. UNCHANGED <<now, queueVars, pc, hand, s_groups, files, written, dropped>>
  BY DEF EditConfig, groupVars, cardVars
<1>2. TimeType' /\ now <= now' /\ PcType' /\ HandAt' /\ PlaceFree'
  BY <1>1, LoggerAssumption DEF IInv, TimeType, PcType, HandAt, PlaceFree
<1>3. ConfigType'
  BY LoggerAssumption DEF IInv, ConfigType, EditConfig
<1>4. VarsType'
  <2>1. CASE UNCHANGED vars_cfg
    BY <2>1 DEF IInv, VarsType
  <2>2. ASSUME NEW id \in Ids, NEW d \in Definition,
               vars_cfg' = [i \in DOMAIN vars_cfg \cup {id} |-> IF i = id THEN d ELSE vars_cfg[i]]
        PROVE  VarsType'
    BY <2>2 DEF IInv, VarsType
  <2>3. ASSUME NEW id \in DOMAIN vars_cfg, vars_cfg' = [i \in DOMAIN vars_cfg \ {id} |-> vars_cfg[i]]
        PROVE  VarsType'
    BY <2>3 DEF IInv, VarsType
  <2> QED BY <2>1, <2>2, <2>3 DEF EditConfig
<1> QED BY <1>1, <1>2, <1>3, <1>4, QuietStep DEF queueVars

(* The task goes from one place to another. *)
LEMMA MoveStep ==
  ASSUME IInv, UNCHANGED <<now, configVars, queueVars, hand, s_groups, files, written, dropped>>,
         pc' \in Steps, hand = NoResult <=> pc' \in {"receive", "timeouts", "positions"}, PlaceFree'
  PROVE  IInv' /\ UNCHANGED Ledger!vars
<1>1. TimeType' /\ now <= now' /\ PcType' /\ HandAt'
  BY LoggerAssumption DEF IInv, TimeType, PcType, HandAt
<1>2. ConfigType' /\ VarsType'
  BY DEF IInv, ConfigType, VarsType, configVars
<1> QED BY <1>1, <1>2, QuietStep DEF queueVars

LEMMA PollGenerationStep == ASSUME IInv, PollGeneration PROVE IInv' /\ UNCHANGED Ledger!vars
<1>1. UNCHANGED <<now, configVars, queueVars, hand, s_groups, files, written, dropped>>
  BY DEF PollGeneration, cardVars
<1>2. pc = "wide" /\ pc' \in {"handle", "flush_all"}
  BY DEF PollGeneration
<1>3. PlaceFree' /\ hand # NoResult
  BY <1>2 DEF PlaceFree, IInv, HandAt
<1> QED BY <1>1, <1>2, <1>3, MoveStep DEF Steps

LEMMA StutterStep == ASSUME IInv, UNCHANGED vars PROVE IInv' /\ UNCHANGED Ledger!vars
<1>1. /\ UNCHANGED <<now, configVars, queueVars, hand, s_groups, files, written, dropped>> /\ pc' = pc
  BY DEF vars, groupVars, cardVars
<1>2. PlaceFree' /\ pc' \in Steps /\ (hand = NoResult <=> pc' \in {"receive", "timeouts", "positions"})
  BY <1>1 DEF IInv, PcType, HandAt, PlaceFree
<1> QED BY <1>1, <1>2, MoveStep

-----------------------------------------------------------------------------
(* The producers and the queues *)

LEMMA LedgerTakes ==
  ASSUME IInv, serial' = serial + 1, UNCHANGED written,
         \/ Kept' = Kept \cup {serial'} /\ UNCHANGED dropped
         \/ dropped' = dropped \cup {serial'} /\ Kept' = Kept
  PROVE  CardType' /\ Ledger!Next
<1>1. CardType'
  <2>1. serial \in Nat /\ written \subseteq 1..serial /\ dropped \subseteq 1..serial
    BY Numbers DEF IInv, CardType, QueuesInv
  <2>2. dropped' \subseteq dropped \cup {serial'}
    OBVIOUS
  <2>3. 1..serial \subseteq 1..serial' /\ serial' \in 1..serial'
    BY <2>1
  <2> QED BY <2>1, <2>2, <2>3 DEF CardType
<1>2. Ledger!Take
  BY KeptIs, KeptAfter DEF Ledger!Take
<1> QED BY <1>1, <1>2 DEF Ledger!Next

(* Steps of the producers, once the order in the queues is known. *)
LEMMA ProducerStep ==
  ASSUME IInv, UNCHANGED <<now, configVars, pc, hand, s_groups, files, written>>,
         serial < MaxResults, serial' = serial + 1,
         QueueType', PositionType', WaitsInOrder', PositionsInOrder',
         \/ Waiting' = Waiting \cup {serial'} /\ UNCHANGED <<Positions, dropped>>
         \/ Positions' = Positions \cup {serial'} /\ UNCHANGED <<Waiting, dropped>>
         \/ dropped' = dropped \cup {serial'} /\ UNCHANGED <<Waiting, Positions>>
  PROVE  IInv' /\ Ledger!Next
<1>1. Assembled' = Assembled
  BY DEF Assembled
<1>2. \/ Kept' = Kept \cup {serial'} /\ UNCHANGED dropped
      \/ dropped' = dropped \cup {serial'} /\ Kept' = Kept
  BY <1>1 DEF Kept
<1>3. CardType' /\ Ledger!Next
  BY <1>2, LedgerTakes
<1>4. SerialType' /\ serial <= serial'
  BY LoggerAssumption DEF IInv, SerialType
<1>5. /\ TimeType' /\ now <= now' /\ ConfigType' /\ VarsType' /\ PcType' /\ HandType' /\ HandAt'
      /\ GroupsFit' /\ PlaceFree'
  <2>1. now <= now'
    BY LoggerAssumption DEF IInv, TimeType
  <2> QED BY <2>1 DEF IInv, TimeType, ConfigType, VarsType, configVars, PcType, HandType, HandAt, GroupsFit,
                      PlaceFree
<1>6. Later(serial, Waiting, Waiting') /\ Later(serial, Positions, Positions')
  <2>1. serial' > serial
    BY Numbers DEF IInv, QueuesInv
  <2> QED BY <2>1 DEF Later
<1>7. RowsInv'
  BY <1>4, <1>5, <1>6, RowsLast
<1> QED BY <1>3, <1>4, <1>5, <1>7 DEF IInv, QueuesInv

LEMMA PublishResultStep ==
  ASSUME IInv, NEW id \in Ids, NEW day \in Days, PublishResult(id, day)
  PROVE  IInv' /\ Ledger!Next
<1> DEFINE r == [n |-> serial + 1, id |-> id, day |-> day]
<1>1. /\ UNCHANGED <<now, configVars, pc, hand, s_groups, files, written, s_position_queue>>
      /\ serial < MaxResults /\ serial' = serial + 1
  BY DEF PublishResult, groupVars
<1>2. /\ serial \in Nat /\ hand.n \in 0..serial /\ Waiting \subseteq 1..serial /\ Positions \subseteq 1..serial
  BY Numbers DEF IInv, QueuesInv
<1>3. s_queue \in Seq(Result) /\ r \in Result /\ Len(s_queue) \in Nat
  BY <1>2 DEF Result, IInv, QueueType
<1>4. Positions' = Positions /\ InHand' = InHand /\ PositionType'
  BY <1>1 DEF Positions, InHand, IInv, PositionType
<1>5. /\ hand'.n <= serial' /\ (hand' # NoResult => hand'.n # 0)
      /\ \A i \in 1..Len(s_queue) :
            /\ s_queue[i].n \in 1..serial /\ s_queue[i].n \in 1..serial' /\ hand'.n < s_queue[i].n
            /\ \A j \in 1..Len(s_queue) : i < j => s_queue[i].n < s_queue[j].n
  <2>1. /\ hand' = hand /\ hand.n <= serial
    BY <1>1, <1>2
  <2>2. hand # NoResult => hand.n # 0
    BY DEF IInv, QueuesInv, WaitsInOrder
  <2>3. \A i \in 1..Len(s_queue) :
            /\ s_queue[i].n \in 1..serial /\ hand.n < s_queue[i].n
            /\ \A j \in 1..Len(s_queue) : i < j => s_queue[i].n < s_queue[j].n
    BY DEF IInv, QueuesInv, WaitsInOrder
  <2>4. hand'.n <= serial' /\ 1..serial \subseteq 1..serial'
    BY <1>1, <1>2, <2>1
  <2> QED BY <2>1, <2>2, <2>3, <2>4
<1>6. /\ \A i, j \in 1..Len(s_position_queue) : i < j => s_position_queue[i] < s_position_queue[j]
      /\ Positions \subseteq 1..serial' /\ Waiting \cap Positions = {}
  BY <1>1, <1>2 DEF IInv, QueuesInv, PositionsInOrder
<1>7. CASE Len(s_queue) < QueueLen
  <2>1. s_queue' = Append(s_queue, r) /\ UNCHANGED dropped
    BY <1>1, <1>7 DEF PublishResult
  <2> HIDE DEF r
  <2>2. /\ s_queue' \in Seq(Result) /\ Len(s_queue') = Len(s_queue) + 1
        /\ \A i \in 1..Len(s_queue') : s_queue'[i] = IF i = Len(s_queue') THEN r ELSE s_queue[i]
    BY <1>3, <2>1
  <2>3. r.n = serial'
    BY <1>1 DEF r
  <2>4. QueueType'
    BY <1>3, <1>7, <2>2, LoggerAssumption DEF QueueType
  <2>5. WaitsInOrder'
    <3>1. ASSUME NEW i \in 1..Len(s_queue')
          PROVE  s_queue'[i].n \in 1..serial' /\ hand'.n < s_queue'[i].n
      <4>1. CASE i = Len(s_queue')
        <5>1. s_queue'[i].n = serial'
          BY <2>2, <2>3, <4>1
        <5>2. hand' = hand
          BY <1>1
        <5> QED BY <1>1, <1>2, <5>1, <5>2
      <4>2. CASE i # Len(s_queue')
        <5>1. i \in 1..Len(s_queue) /\ s_queue'[i] = s_queue[i]
          BY <1>3, <2>2, <4>2
        <5> QED BY <1>5, <5>1
      <4> QED BY <4>1, <4>2
    <3>2. ASSUME NEW i \in 1..Len(s_queue'), NEW j \in 1..Len(s_queue'), i < j
          PROVE  s_queue'[i].n < s_queue'[j].n
      <4>1. i \in 1..Len(s_queue) /\ s_queue'[i] = s_queue[i]
        BY <1>3, <2>2, <3>2
      <4>2. CASE j = Len(s_queue')
        <5>1. s_queue'[j].n = serial'
          BY <2>2, <2>3, <4>2
        <5>2. s_queue[i].n \in 1..serial
          BY <1>5, <4>1
        <5> QED BY <1>1, <1>2, <4>1, <5>1, <5>2
      <4>3. CASE j # Len(s_queue')
        <5>1. j \in 1..Len(s_queue) /\ s_queue'[j] = s_queue[j]
          BY <1>3, <2>2, <4>3
        <5> QED BY <1>5, <3>2, <4>1, <5>1
      <4> QED BY <4>2, <4>3
    <3> QED BY <1>5, <3>1, <3>2 DEF WaitsInOrder
  <2>6. Waiting' = Waiting \cup {serial'}
    <3>1. Waiting' \subseteq Waiting \cup {serial'}
      BY <1>3, <1>4, <2>2, <2>3 DEF Waiting
    <3>2. ASSUME NEW i \in 1..Len(s_queue) PROVE s_queue[i].n \in Waiting'
      <4>1. i \in 1..Len(s_queue') /\ s_queue'[i] = s_queue[i]
        BY <1>3, <2>2
      <4> QED BY <4>1 DEF Waiting
    <3>3. serial' \in Waiting'
      <4>1. Len(s_queue') \in 1..Len(s_queue') /\ s_queue'[Len(s_queue')] = r
        BY <1>3, <2>2
      <4> QED BY <2>3, <4>1 DEF Waiting
    <3> QED BY <1>4, <3>1, <3>2, <3>3 DEF Waiting
  <2>7. PositionsInOrder'
    <3>1. serial' \notin Positions
      BY <1>1, <1>2
    <3> QED BY <1>1, <1>4, <1>6, <2>6, <3>1 DEF PositionsInOrder
  <2> QED BY <1>1, <1>4, <2>1, <2>4, <2>5, <2>6, <2>7, ProducerStep
<1>8. CASE ~(Len(s_queue) < QueueLen)
  <2>1. s_queue' = s_queue /\ dropped' = dropped \cup {serial'}
    BY <1>8 DEF PublishResult
  <2>2. QueueType' /\ WaitsInOrder'
    BY <1>5, <2>1 DEF IInv, QueueType, WaitsInOrder
  <2>3. Waiting' = Waiting
    BY <1>4, <2>1 DEF Waiting
  <2>4. PositionsInOrder'
    BY <1>1, <1>4, <1>6, <2>3 DEF PositionsInOrder
  <2> QED BY <1>1, <1>4, <2>1, <2>2, <2>3, <2>4, ProducerStep
<1> QED BY <1>7, <1>8

LEMMA LogPositionStep ==
  ASSUME IInv, LogPosition
  PROVE  IInv' /\ Ledger!Next
<1>1. /\ UNCHANGED <<now, configVars, pc, hand, s_groups, files, written, s_queue>>
      /\ serial < MaxResults /\ serial' = serial + 1
  BY DEF LogPosition, groupVars
<1>2. /\ serial \in Nat /\ hand.n \in 0..serial /\ Waiting \subseteq 1..serial /\ Positions \subseteq 1..serial
  BY Numbers DEF IInv, QueuesInv
<1>3. s_position_queue \in Seq(Nat) /\ serial' \in Nat /\ Len(s_position_queue) \in Nat
  BY <1>1, <1>2 DEF IInv, PositionType
<1>4. Waiting' = Waiting /\ QueueType' /\ 1..serial \subseteq 1..serial'
  BY <1>1, <1>2 DEF Waiting, InHand, IInv, QueueType
<1>5. WaitsInOrder'
  BY <1>1, <1>2, <1>4 DEF IInv, QueuesInv, WaitsInOrder
<1>6. /\ \A i, j \in 1..Len(s_position_queue) : i < j => s_position_queue[i] < s_position_queue[j]
      /\ Positions \subseteq 1..serial' /\ Waiting \cap Positions = {}
  BY <1>2, <1>4 DEF IInv, QueuesInv, PositionsInOrder
<1>7. CASE Len(s_position_queue) < PositionLen
  <2>1. s_position_queue' = Append(s_position_queue, serial') /\ UNCHANGED dropped
    BY <1>1, <1>7 DEF LogPosition
  <2>2. /\ s_position_queue' \in Seq(Nat) /\ Len(s_position_queue') = Len(s_position_queue) + 1
        /\ \A i \in 1..Len(s_position_queue') :
              s_position_queue'[i] = IF i = Len(s_position_queue') THEN serial' ELSE s_position_queue[i]
    BY <1>3, <2>1
  <2>3. PositionType'
    BY <1>3, <1>7, <2>2, LoggerAssumption DEF PositionType
  <2>4. Positions' = Positions \cup {serial'}
    <3>1. Positions' \subseteq Positions \cup {serial'}
      BY <1>3, <2>2 DEF Positions
    <3>2. ASSUME NEW i \in 1..Len(s_position_queue) PROVE s_position_queue[i] \in Positions'
      <4>1. i \in 1..Len(s_position_queue') /\ s_position_queue'[i] = s_position_queue[i]
        BY <1>3, <2>2
      <4> QED BY <4>1 DEF Positions
    <3>3. serial' \in Positions'
      <4>1. Len(s_position_queue') \in 1..Len(s_position_queue')
            /\ s_position_queue'[Len(s_position_queue')] = serial'
        BY <1>3, <2>2
      <4> QED BY <4>1 DEF Positions
    <3> QED BY <3>1, <3>2, <3>3 DEF Positions
  <2>5. ASSUME NEW i \in 1..Len(s_position_queue'), NEW j \in 1..Len(s_position_queue'), i < j
        PROVE  s_position_queue'[i] < s_position_queue'[j]
    <3>1. i \in 1..Len(s_position_queue) /\ s_position_queue'[i] = s_position_queue[i]
      BY <1>3, <2>2, <2>5
    <3>2. s_position_queue[i] < serial'
      <4>1. s_position_queue[i] \in Positions
        BY <3>1 DEF Positions
      <4>2. s_position_queue[i] \in 1..serial
        BY <1>2, <4>1
      <4> QED BY <1>1, <1>2, <4>2
    <3>3. CASE j = Len(s_position_queue')
      BY <2>2, <3>1, <3>2, <3>3
    <3>4. CASE j # Len(s_position_queue')
      <4>1. j \in 1..Len(s_position_queue) /\ s_position_queue'[j] = s_position_queue[j]
        BY <1>3, <2>2, <3>4
      <4> QED BY <1>6, <2>5, <3>1, <4>1
    <3> QED BY <3>3, <3>4
  <2>6. PositionsInOrder'
    <3>1. serial' \notin Waiting /\ serial' \in 1..serial'
      BY <1>1, <1>2
    <3> QED BY <1>4, <1>6, <2>4, <2>5, <3>1 DEF PositionsInOrder
  <2> QED BY <1>1, <1>4, <1>5, <2>1, <2>3, <2>4, <2>6, ProducerStep
<1>8. CASE ~(Len(s_position_queue) < PositionLen)
  <2>1. s_position_queue' = s_position_queue /\ dropped' = dropped \cup {serial'}
    BY <1>8 DEF LogPosition
  <2>2. PositionType' /\ Positions' = Positions
    BY <2>1 DEF IInv, PositionType, Positions
  <2>3. PositionsInOrder'
    BY <1>4, <1>6, <2>1, <2>2 DEF PositionsInOrder
  <2> QED BY <1>1, <1>4, <1>5, <2>1, <2>2, <2>3, ProducerStep
<1> QED BY <1>7, <1>8

-----------------------------------------------------------------------------
(* The task and its queues *)

LEMMA ReceiveStep == ASSUME IInv, Receive PROVE IInv' /\ UNCHANGED Ledger!vars
<1>1. /\ UNCHANGED <<now, configVars, s_position_queue, serial, s_groups, files, written, dropped>>
      /\ pc = "receive"
  BY DEF Receive, groupVars, cardVars
<1>2. hand = NoResult /\ hand.n = 0
  BY <1>1 DEF IInv, HandAt, NoResult
<1>3. CASE s_queue = <<>>
  <2>1. UNCHANGED <<hand, s_queue>> /\ pc' = "timeouts"
    BY <1>3 DEF Receive
  <2> QED BY <1>1, <1>2, <2>1, MoveStep DEF queueVars, Steps, PlaceFree
<1>4. CASE s_queue # <<>>
  <2>1. hand' = Head(s_queue) /\ s_queue' = Tail(s_queue) /\ pc' \in {"long", "wide"}
    BY <1>4 DEF Receive
  <2>2. s_queue \in Seq(Result)
    BY DEF IInv, QueueType
  <2>3. /\ s_queue' \in Seq(Result) /\ Len(s_queue) \in Nat \ {0} /\ Len(s_queue') = Len(s_queue) - 1
        /\ hand' = s_queue[1] /\ hand' \in Result
        /\ \A i \in 1..Len(s_queue) - 1 : s_queue'[i] = s_queue[i + 1]
    BY <1>4, <2>1, <2>2, TailOf
  <2>4. \A i \in 1..Len(s_queue) : /\ s_queue[i].n \in 1..serial
                                   /\ \A j \in 1..Len(s_queue) : i < j => s_queue[i].n < s_queue[j].n
    BY DEF IInv, QueuesInv, WaitsInOrder
  <2>5. hand'.n \in 1..serial
    BY <2>3, <2>4
  <2>6. serial \in Nat
    BY Numbers DEF IInv, QueuesInv
  <2>7. hand' # NoResult
    BY <2>5 DEF NoResult
  <2>8. /\ TimeType' /\ now <= now' /\ ConfigType' /\ VarsType' /\ SerialType' /\ serial <= serial'
        /\ PositionType' /\ GroupsFit' /\ CardType'
    <3>1. now <= now' /\ serial <= serial'
      BY <1>1, LoggerAssumption DEF IInv, TimeType, SerialType
    <3> QED BY <1>1, <3>1 DEF IInv, TimeType, ConfigType, VarsType, configVars, SerialType, PositionType, GroupsFit,
                              CardType
  <2>9. QueueType' /\ PcType' /\ HandType' /\ HandAt' /\ PlaceFree'
    <3>1. QueueType'
      BY <2>3, LoggerAssumption DEF IInv, QueueType
    <3> QED BY <2>1, <2>3, <2>7, <3>1 DEF PcType, Steps, HandType, HandAt, PlaceFree
  <2>10. WaitsInOrder'
    <3>1. ASSUME NEW i \in 1..Len(s_queue')
          PROVE  /\ s_queue'[i] = s_queue[i + 1] /\ i + 1 \in 1..Len(s_queue)
                 /\ s_queue'[i].n \in 1..serial /\ hand'.n < s_queue'[i].n
      <4>1. i \in 1..Len(s_queue) - 1 /\ i + 1 \in 1..Len(s_queue) /\ 1 \in 1..Len(s_queue) /\ 1 < i + 1
        BY <2>3
      <4>2. s_queue'[i] = s_queue[i + 1]
        BY <2>3, <4>1
      <4> QED BY <2>3, <2>4, <4>1, <4>2
    <3>2. ASSUME NEW i \in 1..Len(s_queue'), NEW j \in 1..Len(s_queue'), i < j
          PROVE  s_queue'[i].n < s_queue'[j].n
      <4>1. i + 1 < j + 1
        BY <2>3, <3>2
      <4> QED BY <2>4, <3>1, <4>1
    <3>3. hand'.n <= serial' /\ hand'.n # 0
      BY <1>1, <2>5, <2>6
    <3> QED BY <1>1, <3>1, <3>2, <3>3 DEF WaitsInOrder
  <2>11. Waiting' = Waiting
    <3>1. InHand = {} /\ InHand' = {s_queue[1].n}
      BY <1>2, <2>3, <2>5 DEF InHand
    <3>2. Waiting' \subseteq Waiting
      <4>1. ASSUME NEW i \in 1..Len(s_queue') PROVE s_queue'[i].n \in Waiting
        <5>1. i + 1 \in 1..Len(s_queue) /\ s_queue'[i] = s_queue[i + 1]
          BY <2>3
        <5> QED BY <5>1 DEF Waiting
      <4>2. 1 \in 1..Len(s_queue)
        BY <2>3
      <4>3. s_queue[1].n \in Waiting
        BY <4>2 DEF Waiting
      <4> QED BY <3>1, <4>1, <4>3 DEF Waiting
    <3>3. ASSUME NEW i \in 1..Len(s_queue) PROVE s_queue[i].n \in Waiting'
      <4>1. CASE i = 1
        BY <3>1, <4>1 DEF Waiting
      <4>2. CASE i # 1
        <5>1. i - 1 \in 1..Len(s_queue) - 1 /\ i - 1 \in 1..Len(s_queue') /\ (i - 1) + 1 = i
          BY <2>3, <4>2
        <5>2. s_queue'[i - 1] = s_queue[i]
          BY <2>3, <5>1
        <5> QED BY <5>1, <5>2 DEF Waiting
      <4> QED BY <4>1, <4>2
    <3>4. Waiting \subseteq Waiting'
      BY <3>1, <3>3 DEF Waiting
    <3> QED BY <3>2, <3>4
  <2>12. Positions' = Positions /\ Assembled' = Assembled
    BY <1>1 DEF Positions, Assembled
  <2>13. PositionsInOrder'
    BY <1>1, <2>11, <2>12 DEF IInv, QueuesInv, PositionsInOrder
  <2>14. RowsInv'
    BY <1>1, <2>8, <2>9, <2>10, <2>11, <2>12, <2>13, RowsLast DEF Later
  <2>15. UNCHANGED Ledger!vars
    BY <1>1, <2>11, <2>12, LedgerStutters DEF Kept
  <2> QED BY <2>8, <2>9, <2>10, <2>13, <2>14, <2>15 DEF IInv, QueuesInv
<1> QED BY <1>3, <1>4

(* The result in hand leaves the task: to a file, to nowhere or to a row. *)
LEMMA HandDone ==
  ASSUME IInv, hand' = NoResult, UNCHANGED <<now, configVars, queueVars>>, hand # NoResult,
         pc' = "timeouts"
  PROVE  /\ TimeType' /\ ConfigType' /\ VarsType' /\ SerialType' /\ QueueType' /\ PositionType' /\ PcType'
         /\ HandType' /\ HandAt' /\ QueuesInv' /\ PlaceFree'
         /\ Waiting' = Waiting \ {hand.n} /\ hand.n \in Waiting /\ Positions' = Positions
         /\ \A w \in Waiting' : hand.n < w
<1>1. hand.n # 0 /\ hand.n \in 0..serial /\ serial \in Nat
  BY Numbers DEF IInv, QueuesInv, WaitsInOrder
<1>2. InHand' = {} /\ InHand = {hand.n} /\ hand'.n = 0
  BY <1>1 DEF InHand, NoResult
<1>3. UNCHANGED <<s_queue, s_position_queue, serial>>
  BY DEF queueVars
<1>4. \A i \in 1..Len(s_queue) : s_queue[i].n \in 1..serial /\ hand.n < s_queue[i].n
  BY DEF IInv, QueuesInv, WaitsInOrder
<1>5. Waiting' = {s_queue[i].n : i \in 1..Len(s_queue)} /\ Waiting = Waiting' \cup {hand.n}
  BY <1>2, <1>3 DEF Waiting
<1>6. \A w \in Waiting' : hand.n < w
  BY <1>4, <1>5
<1>7. Waiting' = Waiting \ {hand.n} /\ hand.n \in Waiting
  <2>1. ~(hand.n < hand.n)
    BY <1>1
  <2>2. hand.n \notin Waiting'
    BY <1>6, <2>1
  <2> QED BY <1>5, <2>2
<1>8. Positions' = Positions
  BY <1>3 DEF Positions
<1>9. PositionsInOrder'
  BY <1>3, <1>7, <1>8 DEF IInv, QueuesInv, PositionsInOrder
<1>10. WaitsInOrder'
  <2>1. \A i \in 1..Len(s_queue) : 0 < s_queue[i].n
    BY <1>1, <1>4
  <2> QED BY <1>1, <1>2, <1>3, <2>1 DEF IInv, QueuesInv, WaitsInOrder
<1>11. /\ TimeType' /\ ConfigType' /\ VarsType' /\ SerialType' /\ QueueType' /\ PositionType' /\ PcType'
       /\ HandType' /\ HandAt' /\ PlaceFree'
  BY <1>3 DEF IInv, TimeType, ConfigType, configVars, VarsType, SerialType, QueueType, PositionType, PcType,
              Steps, HandType, HandAt, PlaceFree
<1> QED BY <1>6, <1>7, <1>8, <1>9, <1>10, <1>11 DEF QueuesInv

(* It is written as a row of its own, or dropped. *)
LEMMA HandLeaves ==
  ASSUME IInv, hand' = NoResult, UNCHANGED <<now, configVars, queueVars, s_groups, files>>, hand # NoResult,
         pc' = "timeouts", Leave({hand.n})
  PROVE  IInv' /\ Ledger!Next
<1>1. /\ Waiting' = Waiting \ {hand.n} /\ hand.n \in Waiting /\ Positions' = Positions
      /\ Assembled' = Assembled /\ serial' = serial
  BY HandDone DEF Assembled, queueVars
<1>2. hand.n \notin Positions
  BY <1>1 DEF IInv, QueuesInv, PositionsInOrder
<1>3. hand.n \notin Assembled
  <2> SUFFICES ASSUME NEW l \in DOMAIN s_groups, NEW id \in DOMAIN s_groups[l].vals
               PROVE  s_groups[l].vals[id].n # hand.n
    BY DEF Assembled, CellsOf
  <2>1. GroupOK(s_groups[l], now, serial, Waiting, Positions)
    BY DEF IInv, RowsInv, GroupsInv
  <2>2. s_groups[l].vals[id].n < hand.n /\ s_groups[l].vals[id].n \in Nat
    BY <1>1, <2>1 DEF GroupOK, RowOK, Older
  <2>3. hand.n \in Nat
    BY Numbers DEF IInv, QueuesInv
  <2> QED BY <2>2, <2>3
<1>4. Kept' = Kept \ {hand.n} /\ hand.n \in Kept
  BY <1>1, <1>2, <1>3 DEF Kept
<1>5. CardType' /\ Ledger!Next
  <2> DEFINE C == {hand.n}
  <2>1. C \subseteq Kept /\ Kept' = Kept \ C /\ Leave(C)
    BY <1>4
  <2> HIDE DEF C
  <2> QED BY <1>1, <2>1, LedgerSettles
<1>6. GroupsFit'
  BY DEF IInv, GroupsFit
<1>7. RowsInv'
  <2>1. now <= now' /\ serial <= serial'
    BY <1>1, LoggerAssumption DEF IInv, TimeType, SerialType
  <2>2. Later(serial, Waiting, Waiting') /\ Later(serial, Positions, Positions')
    BY <1>1 DEF Later
  <2> QED BY <2>1, <2>2, HandDone, RowsLast DEF QueuesInv
<1> QED BY <1>5, <1>6, <1>7, HandDone DEF IInv

LEMMA WriteLongStep == ASSUME IInv, WriteLong PROVE IInv' /\ Ledger!Next
<1>1. /\ hand' = NoResult /\ UNCHANGED <<now, configVars, queueVars, s_groups, files>> /\ pc' = "timeouts"
      /\ pc = "long"
  BY DEF WriteLong, groupVars, WriteRow
<1>2. hand # NoResult
  BY <1>1 DEF IInv, HandAt
<1>3. Leave({hand.n})
  BY DEF WriteLong, WriteRow, Leave
<1> QED BY <1>1, <1>2, <1>3, HandLeaves

LEMMA DrainPositionsStep == ASSUME IInv, DrainPositions PROVE IInv' /\ [Ledger!Next]_(Ledger!vars)
<1>1. /\ UNCHANGED <<now, configVars, s_queue, serial, hand, s_groups, files>> /\ pc = "positions"
  BY DEF DrainPositions, groupVars, cardVars, WriteRow
<1>2. hand = NoResult
  BY <1>1 DEF IInv, HandAt
<1>3. CASE s_position_queue = <<>>
  <2>1. UNCHANGED <<s_position_queue, written, dropped>> /\ pc' = "receive"
    BY <1>3 DEF DrainPositions, cardVars
  <2> QED BY <1>1, <1>2, <2>1, MoveStep DEF queueVars, Steps, PlaceFree
<1>4. CASE s_position_queue # <<>>
  <2> DEFINE n == s_position_queue[1]
             C == {n}
  <2>1. s_position_queue \in Seq(Nat)
    BY DEF IInv, PositionType
  <2>2. /\ s_position_queue' \in Seq(Nat) /\ Len(s_position_queue) \in Nat \ {0}
        /\ Len(s_position_queue') = Len(s_position_queue) - 1 /\ n = Head(s_position_queue)
        /\ \A i \in 1..Len(s_position_queue) - 1 : s_position_queue'[i] = s_position_queue[i + 1]
    BY <1>4, <2>1, TailOf DEF DrainPositions
  <2>3. Leave(C) /\ pc' = pc
    BY <1>4, <2>2 DEF DrainPositions, WriteRow, Leave
  <2>4. \A i, j \in 1..Len(s_position_queue) : i < j => s_position_queue[i] < s_position_queue[j]
    BY DEF IInv, QueuesInv, PositionsInOrder
  <2>5. /\ TimeType' /\ now <= now' /\ ConfigType' /\ VarsType' /\ SerialType' /\ serial <= serial'
        /\ QueueType' /\ PcType' /\ HandType' /\ HandAt' /\ GroupsFit' /\ PlaceFree'
    <3>1. now <= now' /\ serial <= serial'
      BY <1>1, LoggerAssumption DEF IInv, TimeType, SerialType
    <3> QED BY <1>1, <2>3, <3>1 DEF IInv, TimeType, ConfigType, VarsType, configVars, SerialType, QueueType,
                                    PcType, HandType, HandAt, GroupsFit, PlaceFree
  <2>6. PositionType'
    BY <2>2, LoggerAssumption DEF IInv, PositionType
  <2>7. Positions' = Positions \ {n} /\ n \in Positions
    <3>1. 1 \in 1..Len(s_position_queue)
      BY <2>2
    <3>2. n \in Positions
      BY <3>1 DEF Positions
    <3>3. ASSUME NEW i \in 1..Len(s_position_queue')
          PROVE  s_position_queue'[i] \in Positions /\ s_position_queue'[i] # n
      <4>1. i + 1 \in 1..Len(s_position_queue) /\ s_position_queue'[i] = s_position_queue[i + 1] /\ 1 < i + 1
        BY <2>2
      <4>2. s_position_queue[1] < s_position_queue[i + 1] /\ s_position_queue[1] \in Nat
        BY <2>1, <2>4, <3>1, <4>1
      <4>3. s_position_queue[i + 1] \in Positions
        BY <4>1 DEF Positions
      <4> QED BY <4>1, <4>2, <4>3
    <3>4. ASSUME NEW i \in 1..Len(s_position_queue), s_position_queue[i] # n
          PROVE  s_position_queue[i] \in Positions'
      <4>1. i # 1
        BY <3>4
      <4>2. i - 1 \in 1..Len(s_position_queue) - 1 /\ i - 1 \in 1..Len(s_position_queue') /\ (i - 1) + 1 = i
        BY <2>2, <4>1
      <4>3. s_position_queue'[i - 1] = s_position_queue[i]
        BY <2>2, <4>2
      <4> QED BY <4>2, <4>3 DEF Positions
    <3>5. Positions' \subseteq Positions \ {n}
      BY <3>3 DEF Positions
    <3>6. Positions \ {n} \subseteq Positions'
      BY <3>4 DEF Positions
    <3> QED BY <3>2, <3>5, <3>6
  <2>8. Waiting' = Waiting /\ Assembled' = Assembled
    BY <1>1 DEF Waiting, InHand, Assembled
  <2>9. PositionsInOrder'
    <3>1. ASSUME NEW i \in 1..Len(s_position_queue'), NEW j \in 1..Len(s_position_queue'), i < j
          PROVE  s_position_queue'[i] < s_position_queue'[j]
      <4>1. /\ i + 1 \in 1..Len(s_position_queue) /\ s_position_queue'[i] = s_position_queue[i + 1]
            /\ j + 1 \in 1..Len(s_position_queue) /\ s_position_queue'[j] = s_position_queue[j + 1]
            /\ i + 1 < j + 1
        BY <2>2, <3>1
      <4> QED BY <2>4, <4>1
    <3> HIDE DEF n
    <3> QED BY <1>1, <2>7, <2>8, <3>1 DEF IInv, QueuesInv, PositionsInOrder
  <2>10. WaitsInOrder'
    BY <1>1 DEF IInv, QueuesInv, WaitsInOrder
  <2>11. RowsInv'
    <3>1. Later(serial, Waiting, Waiting') /\ Later(serial, Positions, Positions')
      BY <2>7, <2>8 DEF Later
    <3> QED BY <1>1, <2>5, <2>9, <2>10, <3>1, RowsLast
  <2>12. CardType' /\ Ledger!Next
    <3>1. n \notin Waiting
      BY <2>7 DEF IInv, QueuesInv, PositionsInOrder
    <3>2. n \notin Assembled
      <4> SUFFICES ASSUME NEW l \in DOMAIN s_groups, NEW id \in DOMAIN s_groups[l].vals
                   PROVE  s_groups[l].vals[id].n # n
        BY DEF Assembled, CellsOf
      <4>1. GroupOK(s_groups[l], now, serial, Waiting, Positions)
        BY DEF IInv, RowsInv, GroupsInv
      <4> QED BY <2>7, <4>1 DEF GroupOK, RowOK, Older
    <3>3. C \subseteq Kept /\ Kept' = Kept \ C
      BY <2>7, <2>8, <3>1, <3>2 DEF Kept
    <3> HIDE DEF C
    <3> QED BY <1>1, <2>3, <3>3, LedgerSettles
  <2> QED BY <2>5, <2>6, <2>9, <2>10, <2>11, <2>12 DEF IInv, QueuesInv
<1> QED BY <1>3, <1>4

-----------------------------------------------------------------------------
(* The task and the rows *)

(* A step that changes one group. *)
LEMMA AssembledAfter ==
  ASSUME NEW l \in DOMAIN s_groups, DOMAIN s_groups' = DOMAIN s_groups,
         \A k \in DOMAIN s_groups :
            k # l => s_groups'[k] = s_groups[k] /\ CellsOf(s_groups[k]) \cap CellsOf(s_groups[l]) = {}
  PROVE  Assembled' = (Assembled \ CellsOf(s_groups[l])) \cup CellsOf(s_groups'[l])
<1>1. Assembled' = UNION {CellsOf(s_groups'[k]) : k \in DOMAIN s_groups}
  BY DEF Assembled, CellsOf
<1>2. \A k \in DOMAIN s_groups : k # l => CellsOf(s_groups'[k]) = CellsOf(s_groups[k])
  OBVIOUS
<1> HIDE DEF CellsOf
<1> QED BY <1>1, <1>2 DEF Assembled

LEMMA ApartAfter ==
  ASSUME IInv, NEW l \in DOMAIN s_groups, DOMAIN s_groups' = DOMAIN s_groups,
         \A k \in DOMAIN s_groups :
            k # l => s_groups'[k] = s_groups[k] /\ Apart(s_groups[k], s_groups'[l])
  PROVE  GroupsApart'
<1> SUFFICES ASSUME NEW j \in DOMAIN s_groups, NEW k \in DOMAIN s_groups, j # k
             PROVE  Apart(s_groups'[j], s_groups'[k])
  BY DEF GroupsApart
<1>1. CASE j = l
  BY <1>1 DEF Apart
<1>2. CASE k = l
  BY <1>2 DEF Apart
<1>3. CASE j # l /\ k # l
  BY <1>3 DEF IInv, RowsInv, GroupsApart
<1> QED BY <1>1, <1>2, <1>3

(* The row of a group is flushed while the task has its result, or none, in hand. *)
LEMMA FlushOwn ==
  ASSUME IInv, NEW l \in DOMAIN s_groups, FlushRow(l, s_groups[l]),
         UNCHANGED <<now, configVars, queueVars, hand>>,
         pc' \in Steps, hand = NoResult <=> pc' \in {"receive", "timeouts", "positions"}
  PROVE  /\ PlaceFree' => IInv'
         /\ Ledger!Next
         /\ DOMAIN s_groups' = DOMAIN s_groups /\ s_groups'[l] = Emptied(s_groups[l])
         /\ \A k \in DOMAIN s_groups : k # l => s_groups'[k] = s_groups[k]
<1> DEFINE g == s_groups[l]
<1>1. \A k \in DOMAIN s_groups : GroupOK(s_groups[k], now, serial, Waiting, Positions)
  BY DEF IInv, RowsInv, GroupsInv
<1>2. \A k \in DOMAIN s_groups : k # l => Apart(g, s_groups[k]) /\ Apart(s_groups[k], g)
  BY DEF IInv, RowsInv, GroupsApart
<1>3. \A p \in DOMAIN files : FileOK(files[p], serial, Waiting)
                              /\ \A k \in DOMAIN s_groups : Behind(files[p], s_groups[k])
  BY DEF IInv, RowsInv, FilesInv
<1>4. now \in Nat /\ now <= now'
  BY LoggerAssumption DEF IInv, TimeType
<1>5. RowOK(g, now, serial, Waiting, Positions) /\ Membered(g)
  BY <1>1 DEF GroupOK, RowOK
<1>6. /\ \A k \in DOMAIN s_groups :
            k # l => /\ GroupOK(s_groups[k], now, serial, Waiting, Positions)
                     /\ DOMAIN g.cols \cap DOMAIN s_groups[k].cols = {}
      /\ \A p \in DOMAIN files :
            /\ FileOK(files[p], serial, Waiting) /\ Behind(files[p], g)
            /\ \A k \in DOMAIN s_groups : k # l => Behind(files[p], s_groups[k])
  BY <1>1, <1>2, <1>3 DEF Apart
<1>7. FlushRow(l, g)
  OBVIOUS
<1> HIDE DEF g
<1>8. /\ DOMAIN s_groups' = DOMAIN s_groups /\ s_groups'[l] = Emptied(g)
      /\ \A k \in DOMAIN s_groups : k # l => s_groups'[k] = s_groups[k]
      /\ \A k \in DOMAIN s_groups' : GroupOK(s_groups'[k], now, serial, Waiting, Positions)
      /\ \A p \in DOMAIN files' : FileOK(files'[p], serial, Waiting)
                                  /\ \A k \in DOMAIN s_groups' : Behind(files'[p], s_groups'[k])
      /\ Leave(CellsOf(g))
  BY <1>4, <1>5, <1>6, <1>7, FlushKeeps
<1>9. UNCHANGED <<serial, s_queue, s_position_queue>> /\ Waiting' = Waiting /\ Positions' = Positions
  BY DEF queueVars, Waiting, InHand, Positions
<1>10. Emptied(g).cols = g.cols /\ CellsOf(Emptied(g)) = {}
  BY <1>4, <1>5, EmptiedGroup
<1>11. GroupsApart'
  <2>1. \A k \in DOMAIN s_groups : k # l => Apart(s_groups[k], s_groups'[l])
    BY <1>2, <1>8, <1>10 DEF Apart
  <2> QED BY <1>8, <2>1, ApartAfter
<1>12. RowsInv'
  BY <1>8, <1>9, <1>11 DEF RowsInv, GroupsInv, FilesInv
<1>13. CardType' /\ Ledger!Next
  <2>1. Assembled' = Assembled \ CellsOf(g)
    <3>1. \A k \in DOMAIN s_groups : k # l => CellsOf(s_groups[k]) \cap CellsOf(s_groups[l]) = {}
      BY <1>2 DEF Apart, g
    <3>2. Assembled' = (Assembled \ CellsOf(s_groups[l])) \cup CellsOf(s_groups'[l])
      BY <1>8, <3>1, AssembledAfter
    <3> QED BY <1>8, <1>10, <3>2 DEF g
  <2>2. CellsOf(g) \cap Waiting = {} /\ CellsOf(g) \cap Positions = {}
    <3> SUFFICES ASSUME NEW id \in DOMAIN g.vals
                 PROVE  g.vals[id].n \notin Waiting /\ g.vals[id].n \notin Positions
      BY DEF CellsOf
    <3>1. /\ g.vals[id].n \in 1..serial /\ g.vals[id].n \notin Positions
          /\ \A w \in Waiting : g.vals[id].n < w
      BY <1>5 DEF RowOK, Older
    <3> QED BY <3>1
  <2>3. CellsOf(g) \subseteq Assembled
    BY DEF Assembled, g
  <2>4. CellsOf(g) \subseteq Kept /\ Kept' = Kept \ CellsOf(g)
    BY <1>9, <2>1, <2>2, <2>3 DEF Kept
  <2> QED BY <1>8, <1>9, <2>4, LedgerSettles
<1>14. /\ TimeType' /\ ConfigType' /\ VarsType' /\ SerialType' /\ QueueType' /\ PositionType' /\ PcType'
       /\ HandType' /\ HandAt' /\ GroupsFit'
  BY <1>8, <1>9 DEF IInv, TimeType, ConfigType, configVars, VarsType, SerialType, QueueType, PositionType,
                    PcType, HandType, HandAt, GroupsFit
<1>15. QueuesInv'
  BY <1>9 DEF IInv, QueuesInv, WaitsInOrder, PositionsInOrder
<1> QED BY <1>8, <1>12, <1>13, <1>14, <1>15 DEF IInv, g

LEMMA FlushAllStep == ASSUME IInv, FlushAll PROVE IInv' /\ Ledger!Next
<1>1. PICK l \in Pending : FlushRow(l, s_groups[l])
  BY DEF FlushAll
<1>2. UNCHANGED <<now, configVars, queueVars, pc, hand>> /\ pc = "flush_all" /\ l \in DOMAIN s_groups
  BY DEF FlushAll, Pending
<1>3. pc' \in Steps /\ (hand = NoResult <=> pc' \in {"receive", "timeouts", "positions"})
  BY <1>2 DEF IInv, HandAt, Steps
<1>4. PlaceFree'
  BY <1>2 DEF PlaceFree
<1> QED BY <1>1, <1>2, <1>3, <1>4, FlushOwn

LEMMA CheckTimeoutsStep == ASSUME IInv, CheckTimeouts PROVE IInv' /\ [Ledger!Next]_(Ledger!vars)
<1>1. UNCHANGED <<now, configVars, queueVars, hand>> /\ pc = "timeouts" /\ hand = NoResult
  BY DEF CheckTimeouts, IInv, HandAt
<1>2. ASSUME NEW l \in TimedOut, FlushRow(l, s_groups[l]), UNCHANGED pc
      PROVE  IInv' /\ Ledger!Next
  <2>1. l \in DOMAIN s_groups
    BY DEF TimedOut, Pending
  <2>2. pc' \in Steps /\ (hand = NoResult <=> pc' \in {"receive", "timeouts", "positions"}) /\ PlaceFree'
    BY <1>1, <1>2 DEF Steps, PlaceFree
  <2> QED BY <1>1, <1>2, <2>1, <2>2, FlushOwn
<1>3. CASE pc' = "positions" /\ UNCHANGED <<s_groups, cardVars>>
  <2>1. PlaceFree' /\ pc' \in Steps /\ (hand = NoResult <=> pc' \in {"receive", "timeouts", "positions"})
    BY <1>1, <1>3 DEF PlaceFree, Steps
  <2> QED BY <1>1, <1>3, <2>1, MoveStep DEF cardVars
<1> QED BY <1>2, <1>3 DEF CheckTimeouts

LEMMA FindStep == ASSUME IInv, Find PROVE IInv' /\ [Ledger!Next]_(Ledger!vars)
<1>1. UNCHANGED <<now, configVars, queueVars>> /\ pc = "handle" /\ hand # NoResult
  BY DEF Find, IInv, HandAt
<1>2. CASE /\ dropped' = dropped \cup {hand.n} /\ hand' = NoResult /\ pc' = "timeouts"
           /\ UNCHANGED <<s_groups, files, written>>
  BY <1>1, <1>2, HandLeaves DEF Leave
<1>3. ASSUME NEW l \in DOMAIN s_groups, hand.id \in DOMAIN s_groups[l].cols,
             IF hand.id \in DOMAIN s_groups[l].vals THEN FlushRow(l, s_groups[l])
                                                    ELSE UNCHANGED <<s_groups, cardVars>>,
             pc' = "store", UNCHANGED hand
      PROVE  IInv' /\ [Ledger!Next]_(Ledger!vars)
  <2>1. pc' \in Steps /\ (hand = NoResult <=> pc' \in {"receive", "timeouts", "positions"})
    BY <1>1, <1>3 DEF Steps
  <2>2. \A k \in DOMAIN s_groups : k # l => hand.id \notin DOMAIN s_groups[k].cols
    BY <1>3 DEF IInv, RowsInv, GroupsApart, Apart
  <2>3. CASE hand.id \in DOMAIN s_groups[l].vals
    <3>1. FlushRow(l, s_groups[l])
      BY <1>3, <2>3
    <3>2. /\ PlaceFree' => IInv'
          /\ Ledger!Next
          /\ DOMAIN s_groups' = DOMAIN s_groups /\ s_groups'[l] = Emptied(s_groups[l])
          /\ \A k \in DOMAIN s_groups : k # l => s_groups'[k] = s_groups[k]
      BY <1>1, <1>3, <2>1, <3>1, FlushOwn
    <3>3. DOMAIN Emptied(s_groups[l]).vals = {}
      <4>1. Membered(s_groups[l]) /\ now \in Nat
        BY LoggerAssumption DEF IInv, RowsInv, GroupsInv, GroupOK, RowOK, TimeType
      <4> QED BY <4>1, EmptiedGroup
    <3>4. ASSUME NEW k \in DOMAIN s_groups', hand'.id \in DOMAIN s_groups'[k].cols
          PROVE  hand'.id \notin DOMAIN s_groups'[k].vals
      <4>1. CASE k = l
        BY <3>2, <3>3, <4>1
      <4>2. CASE k # l
        BY <1>3, <2>2, <3>2, <3>4, <4>2
      <4> QED BY <4>1, <4>2
    <3> QED BY <3>2, <3>4 DEF PlaceFree
  <2>4. CASE hand.id \notin DOMAIN s_groups[l].vals
    <3>1. UNCHANGED <<s_groups, files, written, dropped>>
      BY <1>3, <2>4 DEF cardVars
    <3>2. \A k \in DOMAIN s_groups :
             hand.id \in DOMAIN s_groups[k].cols => hand.id \notin DOMAIN s_groups[k].vals
      BY <2>2, <2>4
    <3>3. PlaceFree'
      BY <1>3, <3>1, <3>2 DEF PlaceFree
    <3> QED BY <1>1, <1>3, <2>1, <3>1, <3>3, MoveStep
  <2> QED BY <2>3, <2>4
<1> QED BY <1>2, <1>3 DEF Find

(* Groups are rebuilt when no row is pending. *)
LEMMA RebuildStep == ASSUME IInv, Rebuild PROVE IInv' /\ UNCHANGED Ledger!vars
<1>1. /\ UNCHANGED <<now, configVars, queueVars, hand, files, written, dropped>>
      /\ pc = "flush_all" /\ pc' = "handle"
  BY DEF Rebuild, cardVars
<1>2. /\ DOMAIN s_groups' = Grouped
      /\ \A l \in Grouped : s_groups'[l] = [cols |-> [id \in Sharing(l) |-> vars_cfg[id].cols],
                                            vals |-> <<>>, started |-> NoRow]
  BY DEF Rebuild
<1>3. DOMAIN vars_cfg \subseteq Ids
  BY DEF IInv, VarsType
<1>4. Grouped \subseteq Intervals /\ Cardinality(Grouped) <= MaxGroups
  BY <1>3, FewGroups
<1>5. \A l \in Grouped : Sharing(l) # {} /\ Sharing(l) \subseteq Ids
  BY <1>3 DEF Grouped, Sharing
<1>6. ASSUME NEW l \in Grouped
      PROVE  /\ IsGroup(s_groups'[l]) /\ DOMAIN s_groups'[l].cols = Sharing(l)
             /\ s_groups'[l].vals = <<>> /\ s_groups'[l].started = NoRow
  <2>1. s_groups'[l].cols = [id \in Sharing(l) |-> vars_cfg[id].cols]
        /\ s_groups'[l].vals = <<>> /\ s_groups'[l].started = NoRow
    BY <1>2
  <2> QED BY <1>2, <2>1 DEF IsGroup
<1>7. ASSUME NEW l \in Grouped
      PROVE  DOMAIN s_groups'[l].vals = {} /\ CellsOf(s_groups'[l]) = {}
  BY <1>6 DEF CellsOf
<1>8. Waiting' = Waiting /\ Positions' = Positions
  BY <1>1 DEF Waiting, InHand, Positions, queueVars
<1>9. GroupsInv'
  <2> SUFFICES ASSUME NEW l \in Grouped
               PROVE  GroupOK(s_groups'[l], now', serial', Waiting', Positions')
    BY <1>2 DEF GroupsInv
  <2>1. Membered(s_groups'[l])
    BY <1>5, <1>6, <1>7 DEF Membered
  <2>2. Timed(s_groups'[l], now') /\ Older(s_groups'[l], serial', Waiting', Positions')
    BY <1>6, <1>7 DEF Timed, Older
  <2>3. DOMAIN s_groups'[l].vals # DOMAIN s_groups'[l].cols
    BY <1>5, <1>6, <1>7
  <2> QED BY <2>1, <2>2, <2>3 DEF GroupOK, RowOK
<1>10. GroupsApart'
  <2> SUFFICES ASSUME NEW k \in Grouped, NEW l \in Grouped, k # l
               PROVE  Apart(s_groups'[k], s_groups'[l])
    BY <1>2 DEF GroupsApart
  <2>1. Sharing(k) \cap Sharing(l) = {}
    BY SharingApart
  <2> QED BY <1>6, <1>7, <2>1 DEF Apart
<1>11. FilesInv'
  <2>1. \A f : \A l \in Grouped : Behind(f, s_groups'[l])
    BY <1>7 DEF Behind
  <2>2. \A p \in DOMAIN files : FileOK(files[p], serial, Waiting)
    BY DEF IInv, RowsInv, FilesInv
  <2>3. serial' = serial
    BY <1>1 DEF queueVars
  <2> QED BY <1>1, <1>2, <1>8, <2>1, <2>2, <2>3 DEF FilesInv
<1>12. Assembled = {} /\ Assembled' = {}
  <2>1. Assembled' = {}
    BY <1>2, <1>7 DEF Assembled
  <2>2. ASSUME NEW l \in DOMAIN s_groups PROVE CellsOf(s_groups[l]) = {}
    <3>1. s_groups[l].started = NoRow
      BY DEF Rebuild, Pending
    <3>2. s_groups[l].vals = <<>>
      BY <3>1 DEF IInv, RowsInv, GroupsInv, GroupOK, RowOK, Timed
    <3> QED BY <3>2 DEF CellsOf
  <2> QED BY <2>1, <2>2 DEF Assembled
<1>13. UNCHANGED Ledger!vars
  <2>1. Kept' = Kept /\ UNCHANGED serial
    BY <1>1, <1>8, <1>12 DEF Kept, queueVars
  <2> QED BY <1>1, <2>1, LedgerStutters
<1>14. /\ TimeType' /\ ConfigType' /\ VarsType' /\ SerialType' /\ QueueType' /\ PositionType' /\ CardType'
       /\ HandType' /\ QueuesInv'
  BY <1>1, <1>8 DEF IInv, TimeType, ConfigType, configVars, VarsType, SerialType, QueueType, PositionType,
                    HandType, CardType, queueVars, QueuesInv, WaitsInOrder, PositionsInOrder
<1>15. PcType' /\ HandAt' /\ GroupsFit' /\ PlaceFree'
  BY <1>1, <1>2, <1>4 DEF IInv, PcType, Steps, HandAt, GroupsFit, PlaceFree
<1> QED BY <1>9, <1>10, <1>11, <1>13, <1>14, <1>15 DEF IInv, RowsInv

(* The group with the result in hand filed. *)
LEMMA FiledGroup ==
  ASSUME IInv, hand # NoResult, NEW l \in DOMAIN s_groups, hand.id \in DOMAIN s_groups[l].cols,
         hand.id \notin DOMAIN s_groups[l].vals, NEW W, W \subseteq Waiting, \A w \in W : hand.n < w
  PROVE  LET g == Filed(s_groups[l]) IN
         /\ RowOK(g, now, serial, W, Positions) /\ g.cols = s_groups[l].cols
         /\ DOMAIN g.vals = DOMAIN s_groups[l].vals \cup {hand.id}
         /\ g.vals[hand.id] = hand
         /\ \A id \in DOMAIN s_groups[l].vals : g.vals[id] = s_groups[l].vals[id]
         /\ CellsOf(g) = CellsOf(s_groups[l]) \cup {hand.n}
<1> DEFINE h == s_groups[l]
           g == Filed(h)
           v == [id \in DOMAIN h.vals \cup {hand.id} |-> IF id = hand.id THEN hand ELSE h.vals[id]]
           b == IF h.started = NoRow THEN now ELSE h.started
<1>1. RowOK(h, now, serial, Waiting, Positions)
  BY DEF IInv, RowsInv, GroupsInv, GroupOK
<1>2. IsGroup(h)
  BY <1>1 DEF RowOK, Membered
<1>3. g = [cols |-> h.cols, vals |-> v, started |-> b]
  <2>1. g = [h EXCEPT !.vals = v, !.started = b]
    BY <1>2 DEF Filed
  <2> HIDE DEF g, v, b, h
  <2> QED BY <1>2, <2>1, GroupFields
<1>4. /\ DOMAIN v = DOMAIN h.vals \cup {hand.id} /\ v[hand.id] = hand
      /\ \A id \in DOMAIN h.vals : v[id] = h.vals[id]
  OBVIOUS
<1>5. now \in Nat /\ b \in 0..now
  <2>1. now \in Nat
    BY LoggerAssumption DEF IInv, TimeType
  <2>2. h.started \in 0..now \cup {NoRow}
    BY <1>1 DEF RowOK, Timed
  <2>3. CASE h.started = NoRow
    BY <2>1, <2>3
  <2>4. CASE h.started # NoRow
    BY <2>1, <2>2, <2>4
  <2> QED BY <2>1, <2>3, <2>4
<1> HIDE DEF g, v, b
<1>6. g.cols = h.cols /\ g.vals = v /\ g.started = b /\ IsGroup(g)
  BY <1>3 DEF IsGroup
<1>7. hand \in Result /\ hand.n \in 1..serial /\ hand.n \notin Positions
  <2>1. hand \in Result
    BY DEF IInv, HandType
  <2>2. hand.n # 0
    BY DEF IInv, QueuesInv, WaitsInOrder
  <2>3. hand.n \in Waiting
    BY <2>2 DEF Waiting, InHand
  <2>4. hand.n \in 1..serial
    BY <2>3, Numbers DEF IInv, QueuesInv
  <2> QED BY <2>1, <2>3, <2>4 DEF IInv, QueuesInv, PositionsInOrder
<1>8. Membered(g)
  <2>1. /\ DOMAIN h.cols \subseteq Ids /\ DOMAIN h.cols # {} /\ DOMAIN h.vals \subseteq DOMAIN h.cols
        /\ \A id \in DOMAIN h.vals : h.vals[id] \in Result /\ h.vals[id].id = id
    BY <1>1 DEF RowOK, Membered
  <2> QED BY <1>4, <1>6, <1>7, <2>1 DEF Membered
<1>9. Timed(g, now)
  <2>1. b # NoRow
    BY <1>5 DEF NoRow
  <2>2. v # <<>>
    BY <1>4
  <2> QED BY <1>5, <1>6, <2>1, <2>2 DEF Timed
<1>10. Older(g, serial, W, Positions)
  <2> SUFFICES ASSUME NEW id \in DOMAIN v
               PROVE  /\ v[id].n \in 1..serial /\ v[id].n \notin Positions
                      /\ \A w \in W : v[id].n < w
    BY <1>6 DEF Older
  <2>1. CASE id = hand.id
    BY <1>4, <1>7, <2>1
  <2>2. CASE id # hand.id
    <3>1. id \in DOMAIN h.vals /\ v[id] = h.vals[id]
      BY <1>4, <2>2
    <3> QED BY <1>1, <3>1 DEF RowOK, Older
  <2> QED BY <2>1, <2>2
<1>11. CellsOf(g) = CellsOf(h) \cup {hand.n}
  BY <1>4, <1>6 DEF CellsOf
<1> QED BY <1>4, <1>6, <1>8, <1>9, <1>10, <1>11 DEF RowOK, g

(* The files are behind the group with the result filed. *)
LEMMA FilesBehind ==
  ASSUME IInv, hand.n \in Waiting, NEW l \in DOMAIN s_groups, NEW g,
         DOMAIN g.vals = DOMAIN s_groups[l].vals \cup {hand.id}, g.vals[hand.id] = hand,
         \A id \in DOMAIN s_groups[l].vals : g.vals[id] = s_groups[l].vals[id],
         NEW p \in DOMAIN files
  PROVE  Behind(files[p], g)
<1> SUFFICES ASSUME NEW i \in 1..Len(files[p].rows),
                    NEW id \in DOMAIN files[p].rows[i].cells \cap DOMAIN g.vals
             PROVE  files[p].rows[i].cells[id] < g.vals[id].n
  BY DEF Behind
<1>1. FileOK(files[p], serial, Waiting) /\ Behind(files[p], s_groups[l])
  BY DEF IInv, RowsInv, FilesInv
<1>2. CASE id = hand.id
  BY <1>1, <1>2 DEF FileOK
<1>3. CASE id # hand.id
  BY <1>1, <1>3 DEF Behind
<1> QED BY <1>2, <1>3

(* The value is filed in the group of its variable, and the row flushed when it is complete. *)
LEMMA StoreStep == ASSUME IInv, Store PROVE IInv' /\ [Ledger!Next]_(Ledger!vars)
<1>1. PICK l \in DOMAIN s_groups :
         /\ hand.id \in DOMAIN s_groups[l].cols
         /\ LET g == Filed(s_groups[l])
            IN  IF DOMAIN g.vals = DOMAIN g.cols
                THEN FlushRow(l, g)
                ELSE /\ s_groups' = [s_groups EXCEPT ![l] = g]
                     /\ UNCHANGED cardVars
  BY DEF Store
<1> DEFINE g == Filed(s_groups[l])
           h == s_groups[l]
<1>2. /\ hand' = NoResult /\ UNCHANGED <<now, configVars, queueVars>> /\ pc' = "timeouts" /\ pc = "store"
      /\ hand # NoResult /\ serial' = serial
  BY DEF Store, IInv, HandAt, queueVars
<1>3. hand.id \notin DOMAIN h.vals
  BY <1>1, <1>2 DEF IInv, PlaceFree
<1>4. /\ TimeType' /\ ConfigType' /\ VarsType' /\ SerialType' /\ QueueType' /\ PositionType' /\ PcType'
      /\ HandType' /\ HandAt' /\ QueuesInv' /\ PlaceFree'
      /\ Waiting' = Waiting \ {hand.n} /\ hand.n \in Waiting /\ Positions' = Positions
      /\ \A w \in Waiting' : hand.n < w
  BY <1>2, HandDone
<1> DEFINE W == Waiting \ {hand.n}
<1>5. W \subseteq Waiting /\ Waiting' = W /\ \A w \in W : hand.n < w
  BY <1>4
<1> HIDE DEF W
<1>6. /\ RowOK(g, now, serial, W, Positions) /\ g.cols = h.cols
      /\ DOMAIN g.vals = DOMAIN h.vals \cup {hand.id} /\ g.vals[hand.id] = hand
      /\ \A id \in DOMAIN h.vals : g.vals[id] = h.vals[id]
      /\ CellsOf(g) = CellsOf(h) \cup {hand.n}
  BY <1>1, <1>2, <1>3, <1>5, FiledGroup
<1>7. IF DOMAIN g.vals = DOMAIN g.cols
      THEN FlushRow(l, g)
      ELSE s_groups' = [s_groups EXCEPT ![l] = g] /\ UNCHANGED cardVars
  BY <1>1
<1> HIDE DEF g
<1>8. /\ now \in Nat /\ now <= now' /\ serial \in Nat /\ hand.n \in Nat
      /\ Waiting \in SUBSET Nat /\ W \in SUBSET Nat /\ Positions \in SUBSET Nat
  <2>1. now \in Nat
    BY LoggerAssumption DEF IInv, TimeType
  <2>2. serial \in Nat /\ hand.n \in Nat /\ Waiting \in SUBSET Nat /\ Positions \in SUBSET Nat
    BY Numbers DEF IInv, QueuesInv
  <2> QED BY <1>2, <1>5, <2>1, <2>2
<1>9. /\ \A k \in DOMAIN s_groups : GroupOK(s_groups[k], now, serial, Waiting, Positions)
      /\ \A p \in DOMAIN files : /\ FileOK(files[p], serial, Waiting)
                                 /\ \A k \in DOMAIN s_groups : Behind(files[p], s_groups[k])
  BY DEF IInv, RowsInv, GroupsInv, FilesInv
<1>10. \A k \in DOMAIN s_groups : k # l => Apart(s_groups[k], h)
  BY DEF IInv, RowsInv, GroupsApart
<1>11. Later(serial, Waiting, W) /\ Later(serial, Positions, Positions)
  BY <1>5 DEF Later
<1>12. \A k \in DOMAIN s_groups : GroupOK(s_groups[k], now, serial, W, Positions)
  BY <1>8, <1>9, <1>11, GroupLasts
<1>13. \A p \in DOMAIN files : FileOK(files[p], serial, W)
  BY <1>8, <1>9, <1>11, FileLasts
<1>14. \A p \in DOMAIN files : Behind(files[p], g)
  BY <1>4, <1>6, FilesBehind
<1>15. \A k \in DOMAIN s_groups : hand.n \notin CellsOf(s_groups[k])
  <2> SUFFICES ASSUME NEW k \in DOMAIN s_groups, NEW id \in DOMAIN s_groups[k].vals
               PROVE  s_groups[k].vals[id].n # hand.n
    BY DEF CellsOf
  <2>1. s_groups[k].vals[id].n < hand.n /\ s_groups[k].vals[id].n \in Nat
    <3>1. s_groups[k].vals[id].n \in 1..serial /\ \A w \in Waiting : s_groups[k].vals[id].n < w
      BY <1>9 DEF GroupOK, RowOK, Older
    <3> QED BY <1>4, <1>8, <3>1
  <2> QED BY <1>8, <2>1
<1>16. \A k \in DOMAIN s_groups : k # l => Apart(s_groups[k], g)
  BY <1>6, <1>10, <1>15 DEF Apart
<1>17. \A k \in DOMAIN s_groups : k # l => CellsOf(s_groups[k]) \cap CellsOf(s_groups[l]) = {}
  BY <1>10 DEF Apart
<1>18. hand.n \notin Assembled /\ hand.n \notin Positions
  <2>1. hand.n \notin Assembled
    BY <1>15 DEF Assembled
  <2> QED BY <1>4, <2>1 DEF IInv, QueuesInv, PositionsInOrder
<1>19. CASE DOMAIN g.vals = DOMAIN g.cols
  <2>1. /\ \A k \in DOMAIN s_groups :
              k # l => /\ GroupOK(s_groups[k], now, serial, W, Positions)
                       /\ DOMAIN g.cols \cap DOMAIN s_groups[k].cols = {}
        /\ \A p \in DOMAIN files :
              /\ FileOK(files[p], serial, W) /\ Behind(files[p], g)
              /\ \A k \in DOMAIN s_groups : k # l => Behind(files[p], s_groups[k])
    BY <1>9, <1>12, <1>13, <1>14, <1>16 DEF Apart
  <2>2. FlushRow(l, g)
    BY <1>7, <1>19
  <2>3. /\ DOMAIN s_groups' = DOMAIN s_groups /\ s_groups'[l] = Emptied(g)
        /\ \A k \in DOMAIN s_groups : k # l => s_groups'[k] = s_groups[k]
        /\ \A k \in DOMAIN s_groups' : GroupOK(s_groups'[k], now, serial, W, Positions)
        /\ \A p \in DOMAIN files' : FileOK(files'[p], serial, W)
                                    /\ \A k \in DOMAIN s_groups' : Behind(files'[p], s_groups'[k])
        /\ Leave(CellsOf(g))
    <3>1. RowOK(g, now, serial, W, Positions) /\ now \in Nat
      BY <1>6, <1>8
    <3> QED BY <2>1, <2>2, <3>1, FlushKeeps
  <2>4. Emptied(g).cols = g.cols /\ CellsOf(Emptied(g)) = {}
    BY <1>6, <1>8, EmptiedGroup DEF RowOK
  <2>5. RowsInv'
    <3>1. \A k \in DOMAIN s_groups : k # l => Apart(s_groups[k], s_groups'[l])
      BY <1>16, <2>3, <2>4 DEF Apart
    <3>2. GroupsApart'
      BY <2>3, <3>1, ApartAfter
    <3> QED BY <1>2, <1>4, <1>5, <2>3, <3>2 DEF RowsInv, GroupsInv, FilesInv
  <2>6. CardType' /\ Ledger!Next
    <3>1. Assembled' = Assembled \ CellsOf(h)
      <4>1. Assembled' = (Assembled \ CellsOf(s_groups[l])) \cup CellsOf(s_groups'[l])
        BY <1>17, <2>3, AssembledAfter
      <4> QED BY <2>3, <2>4, <4>1
    <3>2. CellsOf(h) \cap Waiting = {} /\ CellsOf(h) \cap Positions = {}
      <4> SUFFICES ASSUME NEW id \in DOMAIN h.vals
                   PROVE  h.vals[id].n \notin Waiting /\ h.vals[id].n \notin Positions
        BY DEF CellsOf
      <4>1. /\ h.vals[id].n \in 1..serial /\ h.vals[id].n \notin Positions
            /\ \A w \in Waiting : h.vals[id].n < w
        BY <1>9 DEF GroupOK, RowOK, Older
      <4> QED BY <4>1
    <3>3. CellsOf(h) \subseteq Assembled
      BY DEF Assembled
    <3>4. CellsOf(g) \subseteq Kept /\ Kept' = Kept \ CellsOf(g)
      BY <1>4, <1>6, <1>18, <3>1, <3>2, <3>3 DEF Kept
    <3> QED BY <1>2, <2>3, <3>4, LedgerSettles
  <2>7. GroupsFit'
    BY <2>3 DEF IInv, GroupsFit
  <2> QED BY <1>4, <2>5, <2>6, <2>7 DEF IInv
<1>20. CASE DOMAIN g.vals # DOMAIN g.cols
  <2>1. s_groups' = [s_groups EXCEPT ![l] = g] /\ UNCHANGED cardVars
    BY <1>7, <1>20
  <2>2. /\ DOMAIN s_groups' = DOMAIN s_groups /\ s_groups'[l] = g
        /\ \A k \in DOMAIN s_groups : k # l => s_groups'[k] = s_groups[k]
    BY <2>1
  <2>3. GroupOK(g, now, serial, W, Positions)
    BY <1>6, <1>20 DEF GroupOK
  <2>4. \A k \in DOMAIN s_groups' : GroupOK(s_groups'[k], now, serial, W, Positions)
    BY <1>12, <2>2, <2>3
  <2>5. \A p \in DOMAIN files : \A k \in DOMAIN s_groups' : Behind(files[p], s_groups'[k])
    BY <1>9, <1>14, <2>2
  <2>6. RowsInv'
    <3>1. GroupsApart'
      BY <1>16, <2>2, ApartAfter
    <3> QED BY <1>2, <1>4, <1>5, <1>13, <2>1, <2>4, <2>5, <3>1 DEF RowsInv, GroupsInv, FilesInv, cardVars
  <2>7. Assembled' = Assembled \cup {hand.n}
    <3>1. Assembled' = (Assembled \ CellsOf(s_groups[l])) \cup CellsOf(s_groups'[l])
      BY <1>17, <2>2, AssembledAfter
    <3>2. CellsOf(h) \subseteq Assembled
      BY DEF Assembled
    <3> QED BY <1>6, <2>2, <3>1, <3>2
  <2>8. CardType' /\ UNCHANGED Ledger!vars
    <3>1. Kept' = Kept
      BY <1>4, <2>7 DEF Kept
    <3>2. CardType'
      BY <1>2, <2>1 DEF IInv, CardType, cardVars
    <3> QED BY <1>2, <2>1, <3>1, <3>2, LedgerStutters DEF cardVars
  <2>9. GroupsFit'
    BY <2>2 DEF IInv, GroupsFit
  <2> QED BY <1>4, <2>6, <2>8, <2>9 DEF IInv
<1> QED BY <1>19, <1>20

(* A reset: what was kept is dropped. *)
LEMMA RestartStep == ASSUME IInv, Restart PROVE IInv' /\ Ledger!Next
<1>1. /\ s_queue' = <<>> /\ s_position_queue' = <<>> /\ hand' = NoResult /\ s_groups' = <<>>
      /\ pc' = "receive" /\ UNCHANGED <<now, configVars, serial, files, written>>
      /\ dropped' = dropped \cup (Queued \cup InHand \cup Assembled)
  BY DEF Restart
<1>2. Waiting' = {} /\ Positions' = {} /\ Assembled' = {} /\ DOMAIN s_groups' = {} /\ hand'.n = 0
  BY <1>1 DEF Waiting, InHand, Positions, Assembled, NoResult
<1>3. serial \in Nat /\ now \in Nat
  BY LoggerAssumption DEF IInv, SerialType, TimeType
<1>4. QueueType' /\ PositionType'
  BY <1>1, LoggerAssumption DEF QueueType, PositionType
<1>5. TimeType' /\ ConfigType' /\ VarsType' /\ SerialType' /\ PcType' /\ HandType' /\ HandAt'
  BY <1>1 DEF IInv, TimeType, ConfigType, configVars, VarsType, SerialType, PcType, Steps, HandType, HandAt
<1>6. GroupsFit'
  BY <1>2, FS_EmptySet, LoggerAssumption DEF GroupsFit
<1>7. QueuesInv' /\ PlaceFree'
  BY <1>1, <1>2, <1>3 DEF QueuesInv, WaitsInOrder, PositionsInOrder, PlaceFree
<1>8. RowsInv'
  <2>1. ASSUME NEW p \in DOMAIN files PROVE FileOK(files[p], serial, {})
    <3>1. FileOK(files[p], serial, Waiting) /\ Waiting \in SUBSET Nat
      BY Numbers DEF IInv, RowsInv, FilesInv, QueuesInv
    <3>2. Later(serial, Waiting, {})
      BY DEF Later
    <3> QED BY <1>3, <3>1, <3>2, FileLasts
  <2>2. FilesInv'
    BY <1>1, <1>2, <2>1 DEF FilesInv
  <2> QED BY <1>2, <2>2 DEF RowsInv, GroupsInv, GroupsApart
<1>9. CardType' /\ Ledger!Next
  <2>1. Kept' = Kept \ Kept /\ Leave(Kept)
    BY <1>1, <1>2, KeptIs DEF Kept, Leave
  <2> DEFINE C == Kept
  <2>2. C \subseteq Kept /\ Kept' = Kept \ C /\ Leave(C) /\ serial' = serial
    BY <1>1, <2>1
  <2> HIDE DEF C
  <2> QED BY <2>2, LedgerSettles
<1> QED BY <1>4, <1>5, <1>6, <1>7, <1>8, <1>9 DEF IInv

LEMMA NextStep == IInv /\ [Next]_vars => IInv' /\ [Ledger!Next]_(Ledger!vars)
<1> SUFFICES ASSUME IInv, [Next]_vars PROVE IInv' /\ [Ledger!Next]_(Ledger!vars)
  OBVIOUS
<1>1. CASE Tick \/ EditConfig \/ UNCHANGED vars
  BY <1>1, TickStep, EditConfigStep, StutterStep
<1>2. CASE Produce
  BY <1>2, PublishResultStep, LogPositionStep DEF Produce
<1>3. CASE Receive \/ WriteLong \/ PollGeneration \/ DrainPositions
  BY <1>3, ReceiveStep, WriteLongStep, PollGenerationStep, DrainPositionsStep
<1>4. CASE FlushAll \/ Rebuild \/ Find \/ Store \/ CheckTimeouts
  BY <1>4, FlushAllStep, RebuildStep, FindStep, StoreStep, CheckTimeoutsStep
<1>5. CASE Restart
  BY <1>5, RestartStep
<1> QED BY <1>1, <1>2, <1>3, <1>4, <1>5 DEF Next, Writer

LEMMA Invariance == Spec => []IInv
BY InitInv, NextStep, PTL DEF Spec

\* Every variable has its type, the queues keep within their lengths and the groups
\* within MAX_INTERVAL_GROUPS, whatever the configuration is edited to.
THEOREM TypeCorrect == Spec => []TypeOK
<1>1. IInv => TypeOK
  <2> SUFFICES ASSUME IInv PROVE TypeOK
    OBVIOUS
  <2>1. GroupsOK
    <3> SUFFICES ASSUME NEW l \in DOMAIN s_groups
                 PROVE  LET g == s_groups[l] IN
                        /\ DOMAIN g.cols \subseteq Ids /\ DOMAIN g.vals \subseteq DOMAIN g.cols
                        /\ \A id \in DOMAIN g.vals : g.vals[id] \in Result /\ g.vals[id].id = id
                        /\ g.started \in 0..now \cup {NoRow}
      BY DEF GroupsOK
    <3>1. Membered(s_groups[l]) /\ Timed(s_groups[l], now)
      BY DEF IInv, RowsInv, GroupsInv, GroupOK, RowOK
    <3> QED BY <3>1 DEF Membered, Timed
  <2> QED BY <2>1, TypeParts DEF IInv
<1> QED BY <1>1, Invariance, PTL

\* A group has a row start time exactly when a member has a value, so that the timeout
\* sees every pending row; and a complete row never waits.
THEOREM RowsStartWithAValue == Spec => []PendingConsistent
<1>1. IInv => PendingConsistent
  BY DEF IInv, RowsInv, GroupsInv, GroupOK, RowOK, Timed, PendingConsistent
<1> QED BY <1>1, Invariance, PTL

\* In a file the results of a variable stand in the order they were produced, through
\* regroupings, format changes, failed writes and resets.
THEOREM RowsInOrder == Spec => []FilesInOrder
<1>1. IInv => FilesInOrder
  BY DEF IInv, RowsInv, FilesInv, FileOK, FilesInOrder
<1> QED BY <1>1, Invariance, PTL

\* The logger implements the ledger: a result or position handed to it is waiting, in
\* exactly one row, or dropped.
THEOREM RowsAccounted == Spec => LedgerSpec
BY InitInv, NextStep, Invariance, PTL DEF Spec, LedgerSpec, Ledger!Spec

Accounts == INSTANCE SampleLedger_proofs
              WITH taken <- serial, pending <- Queued \cup InHand \cup Assembled,
                   reported <- written, lost <- dropped

\* What the ledger promises holds of the logger: every result it was given is queued or in a
\* row being assembled, or in one row of a file, or dropped, and never two of these.
THEOREM NoValueForgotten == Spec => []Ledger!Accounted
<1>1. Accounts!Spec => []Accounts!Accounted
  BY Accounts!NothingForgotten
<1>2. LedgerSpec <=> Accounts!Spec
  BY DEF LedgerSpec, Ledger!Spec, Ledger!Init, Ledger!Next, Ledger!Take, Ledger!Settle, Ledger!vars,
         Accounts!Spec, Accounts!Init, Accounts!Next, Accounts!Take, Accounts!Settle, Accounts!vars
<1>3. Accounts!Accounted <=> Ledger!Accounted
  BY DEF Accounts!Accounted, Ledger!Accounted
<1> QED BY <1>1, <1>2, <1>3, RowsAccounted, PTL

-----------------------------------------------------------------------------
(* Columns.  Columns that fit the signature's buffer are the signature in    *)
(* the name of their file; and a file without a change of the wide format    *)
(* in its life is in the format of now.                                      *)

Named(cols, p) == Fits(cols) => cols = p.sig

ColumnsInv ==
    \A p \in DOMAIN files :
        /\ Named(files[p].cols, p) /\ \A i \in 1..Len(files[p].rows) : Named(files[p].rows[i].cols, p)
        /\ p \notin mixed => /\ files[p].fmt = WideFormat
                             /\ \A i \in 1..Len(files[p].rows) : files[p].rows[i].fmt = WideFormat

LEMMA WholeSignature ==
  ASSUME NEW g, DOMAIN g.cols \subseteq Ids, Fits(Header(g))
  PROVE  Signature(g) = Header(g)
<1> DEFINE n == Cardinality(DOMAIN g.cols)
           h == Header(g)
<1>1. n \in Nat /\ SignatureLen \in Nat
  BY LoggerAssumption, FS_Subset, FS_CardinalityType
<1>2. DOMAIN h = 1..n /\ h = [k \in 1..n |-> h[k]]
  <2> HIDE DEF n
  <2>1. h = [k \in 1..Cardinality(DOMAIN g.cols) |-> g.cols[Members(g)[k]]]
    BY DEF Header
  <2> QED BY <2>1 DEF n
<1> HIDE DEF n, h
<1>3. h \in Seq({h[k] : k \in 1..n}) /\ Len(h) = n
  BY <1>1, <1>2
<1>4. Min({n, SignatureLen}) = n
  <2>1. n <= SignatureLen
    BY <1>3 DEF Fits, h
  <2>2. {n, SignatureLen} \in SUBSET Nat /\ {n, SignatureLen} # {}
    BY <1>1
  <2>3. Min({n, SignatureLen}) \in {n, SignatureLen} /\ Min({n, SignatureLen}) <= n
    BY <2>2, MinIsLeast
  <2> QED BY <1>1, <2>1, <2>3
<1>5. SubSeq(h, 1, n) = h
  BY <1>1, <1>3
<1> QED BY <1>3, <1>4, <1>5 DEF Signature, h

LEMMA FlushKeepsColumns ==
  ASSUME ColumnsInv, \A p \in DOMAIN files : IsFile(files[p]), UNCHANGED configVars,
         NEW l, NEW g, DOMAIN g.cols \subseteq Ids, FlushRow(l, g)
  PROVE  ColumnsInv'
<1> DEFINE path == Path(l, g)
           r == Row(g)
<1>1. Named(r.cols, path) /\ r.fmt = WideFormat
  <2>1. path.sig = Signature(g)
    BY DEF Path
  <2>2. r.cols = Header(g) /\ r.fmt = WideFormat
    BY DEF Row
  <2> QED BY <2>1, <2>2, WholeSignature DEF Named
<1>2. UNCHANGED files \/ files' = Appended(path, r)
  BY DEF FlushRow, cardVars
<1>6. UNCHANGED <<mixed, WideFormat>>
  BY DEF configVars, WideFormat
<1> HIDE DEF path, r
<1>3. CASE UNCHANGED files
  BY <1>3, <1>6 DEF ColumnsInv
<1>4. CASE files' = Appended(path, r) /\ path \in DOMAIN files
  <2> DEFINE e == [files[path] EXCEPT !.rows = Append(@, r)]
             s == files[path].rows
  <2>1. files' = [files EXCEPT ![path].rows = Append(@, r)]
    BY <1>4 DEF Appended
  <2>2. DOMAIN files' = DOMAIN files /\ files'[path] = e /\ \A p \in DOMAIN files : p # path => files'[p] = files[p]
    BY <1>4, <2>1
  <2>3. IsFile(files[path])
    BY <1>4
  <2>4. e = [fmt |-> files[path].fmt, cols |-> files[path].cols, rows |-> Append(s, r)]
    <3> DEFINE f == files[path]
    <3>1. f = [fmt |-> f.fmt, cols |-> f.cols, rows |-> f.rows]
      BY <2>3 DEF IsFile
    <3> HIDE DEF f
    <3>2. [f EXCEPT !.rows = Append(@, r)] = [fmt |-> f.fmt, cols |-> f.cols, rows |-> Append(f.rows, r)]
      BY <3>1
    <3> QED BY <3>2 DEF f
  <2>5. e.fmt = files[path].fmt /\ e.cols = files[path].cols /\ e.rows = Append(s, r)
    BY <2>4
  <2>6. s \in Seq(Elements(s))
    BY <2>3 DEF IsFile
  <2> HIDE DEF e, s
  <2>7. /\ Len(e.rows) = Len(s) + 1 /\ Len(s) \in Nat
        /\ \A i \in 1..Len(s) + 1 : e.rows[i] = IF i = Len(s) + 1 THEN r ELSE s[i]
    BY <2>5, <2>6, AppendRow
  <2>8. /\ Named(files[path].cols, path) /\ \A i \in 1..Len(s) : Named(s[i].cols, path)
        /\ path \notin mixed => /\ files[path].fmt = WideFormat
                                /\ \A i \in 1..Len(s) : s[i].fmt = WideFormat
    BY <1>4 DEF ColumnsInv, s
  <2>9. Named(e.cols, path) /\ \A i \in 1..Len(e.rows) : Named(e.rows[i].cols, path)
    BY <1>1, <2>5, <2>7, <2>8
  <2>10. path \notin mixed => e.fmt = WideFormat /\ \A i \in 1..Len(e.rows) : e.rows[i].fmt = WideFormat
    BY <1>1, <2>5, <2>7, <2>8
  <2>11. ASSUME NEW p \in DOMAIN files'
         PROVE  /\ Named(files'[p].cols, p)
                /\ \A i \in 1..Len(files'[p].rows) : Named(files'[p].rows[i].cols, p)
                /\ p \notin mixed => /\ files'[p].fmt = WideFormat
                                     /\ \A i \in 1..Len(files'[p].rows) : files'[p].rows[i].fmt = WideFormat
    <3>1. CASE p = path
      BY <2>2, <2>9, <2>10, <3>1
    <3>2. CASE p # path
      BY <2>2, <3>2 DEF ColumnsInv
    <3> QED BY <3>1, <3>2
  <2> QED BY <1>6, <2>11 DEF ColumnsInv, Named, Fits
<1>5. CASE files' = Appended(path, r) /\ path \notin DOMAIN files
  <2> DEFINE e == [fmt |-> r.fmt, cols |-> r.cols, rows |-> <<r>>]
  <2>1. files' = [p \in DOMAIN files \cup {path} |-> IF p = path THEN e ELSE files[p]]
    BY <1>5 DEF Appended
  <2>2. DOMAIN files' = DOMAIN files \cup {path} /\ files'[path] = e /\ \A p \in DOMAIN files : files'[p] = files[p]
    BY <1>5, <2>1
  <2>3. e.fmt = WideFormat /\ Named(e.cols, path) /\ Len(e.rows) = 1 /\ e.rows[1] = r
    BY <1>1
  <2> HIDE DEF e
  <2>4. ASSUME NEW p \in DOMAIN files'
        PROVE  /\ Named(files'[p].cols, p)
               /\ \A i \in 1..Len(files'[p].rows) : Named(files'[p].rows[i].cols, p)
               /\ p \notin mixed => /\ files'[p].fmt = WideFormat
                                    /\ \A i \in 1..Len(files'[p].rows) : files'[p].rows[i].fmt = WideFormat
    <3>1. CASE p = path
      <4>1. \A i \in 1..Len(e.rows) : e.rows[i] = r
        BY <2>3
      <4> QED BY <1>1, <2>2, <2>3, <3>1, <4>1
    <3>2. CASE p # path
      BY <2>2, <3>2 DEF ColumnsInv
    <3> QED BY <3>1, <3>2
  <2> QED BY <1>6, <2>4 DEF ColumnsInv, Named, Fits
<1> QED BY <1>2, <1>3, <1>4, <1>5

LEMMA EditKeepsColumns ==
  ASSUME ColumnsInv, EditConfig
  PROVE  ColumnsInv'
<1>1. UNCHANGED files
  BY DEF EditConfig, cardVars
<1>2. CASE UNCHANGED <<log_format, mixed>>
  BY <1>1, <1>2 DEF ColumnsInv, WideFormat, Named, Fits
<1>3. CASE WideFormat' = WideFormat /\ UNCHANGED mixed
  BY <1>1, <1>3 DEF ColumnsInv, Named, Fits
<1>4. CASE mixed' = mixed \cup DOMAIN files
  BY <1>1, <1>4 DEF ColumnsInv, Named, Fits
<1> QED BY <1>2, <1>3, <1>4 DEF EditConfig

LEMMA ColumnsStep ==
  ASSUME IInv, ColumnsInv, [Next]_vars
  PROVE  ColumnsInv'
<1>1. \A p \in DOMAIN files : IsFile(files[p])
  BY DEF IInv, RowsInv, FilesInv, FileOK
<1>2. \A l \in DOMAIN s_groups : DOMAIN s_groups[l].cols \subseteq Ids
  BY DEF IInv, RowsInv, GroupsInv, GroupOK, RowOK, Membered
<1>3. ASSUME UNCHANGED configVars, \E l \in DOMAIN s_groups : FlushRow(l, s_groups[l])
      PROVE  ColumnsInv'
  BY <1>1, <1>2, <1>3, FlushKeepsColumns
<1>4. ASSUME UNCHANGED <<files, configVars>> PROVE ColumnsInv'
  BY <1>4 DEF ColumnsInv, configVars, WideFormat, Named, Fits
<1>5. CASE Store
  <2>1. PICK l \in DOMAIN s_groups :
           LET g == Filed(s_groups[l])
           IN  IF DOMAIN g.vals = DOMAIN g.cols THEN FlushRow(l, g) ELSE UNCHANGED cardVars
    BY <1>5 DEF Store
  <2> DEFINE g == Filed(s_groups[l])
  <2>2. g.cols = s_groups[l].cols
    BY DEF Filed
  <2>3. FlushRow(l, g) \/ UNCHANGED files
    BY <2>1 DEF cardVars
  <2>4. UNCHANGED configVars
    BY <1>5 DEF Store
  <2> HIDE DEF g
  <2> QED BY <1>1, <1>2, <1>4, <2>2, <2>3, <2>4, FlushKeepsColumns
<1>6. CASE Tick \/ Produce \/ Restart \/ UNCHANGED vars
  BY <1>4, <1>6 DEF Tick, Produce, PublishResult, LogPosition, Restart, vars, cardVars
<1>10. CASE EditConfig
  BY <1>10, EditKeepsColumns
<1>7. CASE Receive \/ WriteLong \/ PollGeneration \/ DrainPositions \/ Rebuild
  BY <1>4, <1>7 DEF Receive, WriteLong, WriteRow, PollGeneration, DrainPositions, Rebuild, cardVars
<1>8. CASE FlushAll \/ CheckTimeouts
  BY <1>3, <1>4, <1>8 DEF FlushAll, CheckTimeouts, TimedOut, Pending, cardVars
<1>9. CASE Find
  BY <1>3, <1>4, <1>9 DEF Find, cardVars
<1> QED BY <1>5, <1>6, <1>7, <1>8, <1>9, <1>10 DEF Next, Writer

\* A row has its header's columns, whatever is edited while its group assembles it, if both
\* fit the signature's buffer; and it has its header's format, with the leading columns that
\* go with it, unless the wide format was changed while the file was there.
THEOREM ColumnsStayAligned == Spec => []ColumnsAligned
<1>1. Init => ColumnsInv
  BY DEF Init, ColumnsInv
<1>2. IInv /\ ColumnsInv /\ [Next]_vars => ColumnsInv'
  BY ColumnsStep
<1>3. ColumnsInv => ColumnsAligned
  BY DEF ColumnsInv, ColumnsAligned, Named
<1> QED BY <1>1, <1>2, <1>3, Invariance, PTL DEF Spec
=============================================================================
