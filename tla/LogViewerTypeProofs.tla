------------------------- MODULE LogViewerTypeProofs -------------------------
(***************************************************************************)
(* LogViewer's type invariant, proved for every set of log records and    *)
(* every bound.                                                            *)
(*                                                                         *)
(* TypeOK is not inductive alone, for three reasons.                       *)
(*   - /version stays in 0..MaxVer only because AppendLog and ClickClear  *)
(*     are guarded by Budget < MaxVer, and Budget counts the DELETE       *)
(*     requests not yet answered: AnswerDelete bumps /version by one and  *)
(*     ends one of them.  So the invariant carries ver plus the number of *)
(*     pending deletes stays within MaxVer, a cardinality argument.       *)
(*   - A continuation issues the chain's next fetch, so a task's position *)
(*     must stay inside its chain; RecvUids skips two fetches, which      *)
(*     stays inside because /uids is never among a chain's last two.      *)
(*   - What RecvTypes, RecvUids and RecvIids render must be types, uids   *)
(*     and iids, so an answer a task holds is of the kind it asked for.   *)
(***************************************************************************)
EXTENDS LogViewer, FiniteSetTheorems, TLAPS

\* The busy task records.
TaskRecs ==
    [chain : DOMAIN Chain, k : 1 .. 5, q : Filters,
     st : {"pending", "ok", "error"}, names : SUBSET (Types \cup Uids \cup Iids),
     ms : SUBSET Msgs, v : 0 .. MaxVer]
\* An answer a task holds names what its fetch asked for.
NamesOK(t) ==
    t.st = "ok" => /\ Kind(t) = "types" => t.names \subseteq Types
                   /\ Kind(t) = "uids" => t.names \subseteq Uids
                   /\ Kind(t) = "iids" => t.names \subseteq Iids
\* Busy records that sit inside their chain and hold well-kinded answers.
GoodTasks == {t \in TaskRecs : t.k <= Len(Chain[t.chain]) /\ NamesOK(t)}
SlotsOK(tk) == tk \in [Slots -> {Idle} \cup GoodTasks]

\* A DELETE /logs issued and not yet answered.
PendingDelete(r) == r.chain = "clear" /\ r.k = 1 /\ r.st = "pending"
PD(tk) == {s \in Slots : PendingDelete(tk[s])}

\* TypeOK but for /version and the tasks.
OtherTyped ==
    /\ log \subseteq Msgs
    /\ selUid \in {""} \cup Uids /\ selIid \in {""} \cup Iids
    /\ typeStates \in [Types -> TStates]
    /\ storage \in [Types -> StoredValues]
    /\ lastVersion \in 0 .. MaxVer /\ timerOn \in BOOLEAN
    /\ panelTypes \subseteq Types /\ shownUids \subseteq Uids
    /\ shownIids \subseteq Iids /\ iidsFor \in {""} \cup Uids
    /\ shown \subseteq Msgs /\ shownFor \in Filters
    /\ fails \in 0 .. MaxFails

TInv ==
    /\ TypeOK
    /\ SlotsOK(tasks)
    /\ ver + Cardinality(PD(tasks)) <= MaxVer

-----------------------------------------------------------------------------
(* The chains: every position of one is 1 to 5, DELETE is only the first  *)
(* fetch of the clear chain, and /uids is followed by two more fetches.   *)
LEMMA ChainShape ==
    ASSUME NEW c \in DOMAIN Chain
    PROVE  /\ Len(Chain[c]) \in 1 .. 5
           /\ \A k \in 1 .. Len(Chain[c]) :
                 /\ Chain[c][k] = "delete" => c = "clear" /\ k = 1
                 /\ Chain[c][k] = "uids" => k + 2 <= Len(Chain[c])
           /\ c # "none"
<1>1. c \in {"init", "refresh", "clear", "render", "iids"}
  BY DEF Chain
<1>2. CASE c = "init"
  <2>1. Chain[c] = <<"types", "uids", "iids", "msgs", "version">>
    BY <1>2 DEF Chain
  <2>2. QED
    BY <1>2, <2>1
<1>3. CASE c = "refresh"
  <2>1. Chain[c] = <<"version", "types", "uids", "iids", "msgs">>
    BY <1>3 DEF Chain
  <2>2. QED
    BY <1>3, <2>1
<1>4. CASE c = "clear"
  <2>1. Chain[c] = <<"delete", "types", "uids", "iids", "msgs">>
    BY <1>4 DEF Chain
  <2>2. QED
    BY <1>4, <2>1
<1>5. CASE c = "render"
  <2>1. Chain[c] = <<"msgs">>
    BY <1>5 DEF Chain
  <2>2. QED
    BY <1>5, <2>1
<1>6. CASE c = "iids"
  <2>1. Chain[c] = <<"iids">>
    BY <1>6 DEF Chain
  <2>2. QED
    BY <1>6, <2>1
<1>7. QED
  BY <1>1, <1>2, <1>3, <1>4, <1>5, <1>6

(* The budget is the version plus the pending deletes. *)
LEMMA BudgetIsPD == Budget = ver + Cardinality(PD(tasks))
BY DEF Budget, PD, PendingDelete

(* The pending deletes are a finite set of slots. *)
LEMMA PDFinite ==
    ASSUME NEW tk
    PROVE  IsFiniteSet(PD(tk)) /\ Cardinality(PD(tk)) \in Nat
<1>1. IsFiniteSet(Slots)
  BY FS_Interval, MaxTasksAssumption DEF Slots
<1>2. PD(tk) \in SUBSET Slots
  BY DEF PD
<1>3. QED
  BY <1>1, <1>2, FS_Subset, FS_CardinalityType

(* Fewer pending deletes never count more. *)
LEMMA PDLe ==
    ASSUME NEW tk1, NEW tk2, PD(tk2) \subseteq PD(tk1)
    PROVE  Cardinality(PD(tk2)) <= Cardinality(PD(tk1))
BY PDFinite, FS_Subset

(* Setting one slot adds it to the pending deletes or takes it out. *)
LEMMA PDSet ==
    ASSUME NEW tk, NEW G, tk \in [Slots -> G], NEW s \in Slots, NEW r
    PROVE  PD([tk EXCEPT ![s] = r]) =
             IF PendingDelete(r) THEN PD(tk) \cup {s} ELSE PD(tk) \ {s}
BY DEF PD

(* Setting one slot to a record that is no pending delete adds none. *)
LEMMA PDSetOther ==
    ASSUME NEW tk, NEW G, tk \in [Slots -> G], NEW s \in Slots, NEW r,
           ~PendingDelete(r)
    PROVE  PD([tk EXCEPT ![s] = r]) \subseteq PD(tk)
BY DEF PD

(* Setting a free slot to a new DELETE adds one pending delete. *)
LEMMA PDAddOne ==
    ASSUME NEW tk, NEW G, tk \in [Slots -> G], NEW s \in Slots, NEW r,
           PendingDelete(r), ~PendingDelete(tk[s])
    PROVE  Cardinality(PD([tk EXCEPT ![s] = r])) = Cardinality(PD(tk)) + 1
<1>1. PD([tk EXCEPT ![s] = r]) = PD(tk) \cup {s} /\ s \notin PD(tk)
  BY PDSet DEF PD
<1>2. QED
  BY <1>1, PDFinite, FS_AddElement

(* Ending a pending delete takes one away. *)
LEMMA PDRemoveOne ==
    ASSUME NEW tk, NEW G, tk \in [Slots -> G], NEW s \in Slots, NEW r,
           ~PendingDelete(r), PendingDelete(tk[s])
    PROVE  Cardinality(PD([tk EXCEPT ![s] = r])) = Cardinality(PD(tk)) - 1
<1>1. PD([tk EXCEPT ![s] = r]) = PD(tk) \ {s} /\ s \in PD(tk)
  BY PDSet DEF PD
<1>2. QED
  BY <1>1, PDFinite, FS_RemoveElement

(* Setting one slot to a free or good record keeps the slots good. *)
LEMMA SetSlot ==
    ASSUME NEW tk, SlotsOK(tk), NEW s \in Slots, NEW r \in {Idle} \cup GoodTasks
    PROVE  SlotsOK([tk EXCEPT ![s] = r])
BY DEF SlotsOK

(* Good slots have the type TypeOK asks of them. *)
LEMMA SlotsTyped ==
    ASSUME NEW tk, SlotsOK(tk)
    PROVE  tk \in [Slots -> Tasks]
BY DEF SlotsOK, GoodTasks, Tasks, TaskRecs

(* A free slot is idle; a busy one holds a good record. *)
LEMMA SlotCases ==
    ASSUME SlotsOK(tasks), NEW s \in Slots
    PROVE  /\ ~Busy(s) => tasks[s] = Idle /\ ~PendingDelete(tasks[s])
           /\ Busy(s) => tasks[s] \in GoodTasks
<1>1. tasks[s] \in {Idle} \cup GoodTasks
  BY DEF SlotsOK
<1>2. \A t \in GoodTasks : t.chain # "none"
  BY ChainShape DEF GoodTasks, TaskRecs
<1>3. QED
  BY <1>1, <1>2 DEF Busy, Idle, PendingDelete

(* A filter built from typed selections and tile states is a filter. *)
LEMMA FilterOK ==
    ASSUME NEW u \in {""} \cup Uids, NEW i \in {""} \cup Iids, NEW ts
    PROVE  Filter(u, i, ts) \in Filters
BY DEF Filter, Filters

(* Every query a continuation issues is a filter. *)
LEMMA QueryOK ==
    ASSUME TypeOK, NEW kind
    PROVE  Query(kind) \in Filters
<1>1. "" \in {""} \cup Uids /\ "" \in {""} \cup Iids
  OBVIOUS
<1>2. QED
  BY <1>1, FilterOK DEF TypeOK, Query, CurrentFilter, NoQuery

(* A newly issued fetch, at any position inside its chain, is good. *)
LEMMA NewTask ==
    ASSUME NEW c \in DOMAIN Chain, NEW k \in 1 .. Len(Chain[c]), NEW q \in Filters
    PROVE  Task(c, k, q) \in GoodTasks
<1>1. k \in 1 .. 5
  BY ChainShape
<1>2. 0 \in 0 .. MaxVer
  BY MaxVerAssumption
<1>3. QED
  BY <1>1, <1>2 DEF Task, GoodTasks, TaskRecs, NamesOK

(* A continuation issues the next fetch of the chain or frees the slot,  *)
(* and never a DELETE.                                                     *)
LEMMA ContinueOK ==
    ASSUME TInv, NEW s \in Slots, Busy(s), Continue(s)
    PROVE  SlotsOK(tasks') /\ PD(tasks') \subseteq PD(tasks)
<1> DEFINE t == tasks[s]
<1>1. t \in GoodTasks
  BY SlotCases DEF TInv
<1>2. t.chain \in DOMAIN Chain /\ t.k \in 1 .. Len(Chain[t.chain])
  BY <1>1 DEF GoodTasks, TaskRecs
<1>3. DEFINE r == IF t.k = Len(Chain[t.chain]) THEN Idle
                  ELSE Task(t.chain, t.k + 1, Query(Chain[t.chain][t.k + 1]))
<1>4. tasks' = [tasks EXCEPT ![s] = r]
  BY DEF Continue
<1>5. r \in {Idle} \cup GoodTasks
  <2>1. CASE t.k = Len(Chain[t.chain])
    BY <2>1
  <2>2. CASE t.k # Len(Chain[t.chain])
    <3>1. t.k + 1 \in 1 .. Len(Chain[t.chain])
      BY <1>2, <2>2
    <3>2. Query(Chain[t.chain][t.k + 1]) \in Filters
      BY QueryOK DEF TInv
    <3>3. QED
      BY <1>2, <2>2, <3>1, <3>2, NewTask
  <2>3. QED
    BY <2>1, <2>2
<1>6. ~PendingDelete(r)
  BY <1>2 DEF PendingDelete, Idle, Task
<1>7. QED
  BY <1>4, <1>5, <1>6, SetSlot, PDSetOther DEF TInv, SlotsOK

(* Starting an async function fills a free slot with its first fetch: a  *)
(* DELETE for the clear button, which then counts one more pending delete. *)
LEMMA SpawnOK ==
    ASSUME TInv, NEW c \in DOMAIN Chain, NEW q \in Filters, Spawn(c, q)
    PROVE  /\ SlotsOK(tasks')
           /\ c # "clear" => PD(tasks') \subseteq PD(tasks)
           /\ c = "clear" => Cardinality(PD(tasks')) = Cardinality(PD(tasks)) + 1
<1>1. PICK s \in Slots : ~Busy(s) /\ tasks' = [tasks EXCEPT ![s] = Task(c, 1, q)]
  BY DEF Spawn
<1>2. Task(c, 1, q) \in GoodTasks
  BY ChainShape, NewTask
<1>3. ~PendingDelete(tasks[s])
  BY <1>1, SlotCases DEF TInv
<1>4. SlotsOK(tasks')
  BY <1>1, <1>2, SetSlot DEF TInv
<1>5. c # "clear" => PD(tasks') \subseteq PD(tasks)
  BY <1>1, PDSetOther DEF TInv, SlotsOK, PendingDelete, Task
<1>6. c = "clear" => Cardinality(PD(tasks')) = Cardinality(PD(tasks)) + 1
  BY <1>1, <1>3, PDAddOne DEF TInv, SlotsOK, PendingDelete, Task
<1>7. QED
  BY <1>4, <1>5, <1>6
(* The parts of the invariant the arithmetic needs.  (Taken apart by     *)
(* Zenon: the SMT encoder of tlapm 1.4.5 cannot take the empty string,  *)
(* which TypeOK mentions.)                                               *)
LEMMA TInvParts ==
    ASSUME TInv
    PROVE  /\ ver \in 0 .. MaxVer /\ fails \in 0 .. MaxFails
           /\ ver + Cardinality(PD(tasks)) <= MaxVer
           /\ SlotsOK(tasks) /\ OtherTyped
BY Zenon DEF TInv, TypeOK, OtherTyped

(* /version is a natural number. *)
LEMMA VerNat ==
    ASSUME TInv
    PROVE  ver \in Nat
BY TInvParts

(* The invariant after a step, from its parts. *)
LEMMA Assemble ==
    ASSUME OtherTyped', SlotsOK(tasks'), ver' \in Nat,
           ver' + Cardinality(PD(tasks')) <= MaxVer
    PROVE  TInv'
<1>1. Cardinality(PD(tasks')) \in Nat
  BY PDFinite
<1>2. ver' \in 0 .. MaxVer
  BY <1>1, MaxVerAssumption
<1>3. tasks' \in [Slots -> Tasks]
  BY SlotsTyped
<1>4. QED
  BY <1>2, <1>3, Zenon DEF TInv, TypeOK, OtherTyped

(* Setting one slot to a good record that is no pending delete keeps the *)
(* slots good and, with /version unchanged, the budget.                  *)
LEMMA SetFresh ==
    ASSUME TInv, NEW s \in Slots, NEW r \in {Idle} \cup GoodTasks, ~PendingDelete(r),
           tasks' = [tasks EXCEPT ![s] = r], ver' = ver
    PROVE  SlotsOK(tasks') /\ ver' + Cardinality(PD(tasks')) <= MaxVer
<1>1. tasks \in [Slots -> {Idle} \cup GoodTasks] /\ SlotsOK(tasks)
  BY DEF TInv, SlotsOK
<1>2. SlotsOK(tasks')
  BY <1>1, SetSlot
<1>3. PD(tasks') \subseteq PD(tasks)
  BY <1>1, PDSetOther
<1>4. Cardinality(PD(tasks')) <= Cardinality(PD(tasks))
  BY <1>3, PDLe
<1>5. Cardinality(PD(tasks')) \in Nat /\ Cardinality(PD(tasks)) \in Nat
  BY PDFinite
<1>6. ver \in Nat /\ ver + Cardinality(PD(tasks)) <= MaxVer
  BY TInvParts
<1>7. QED
  BY <1>2, <1>4, <1>5, <1>6, MaxVerAssumption

(* Freeing a slot keeps the slots good and the budget. *)
LEMMA FreeSlot ==
    ASSUME TInv, NEW s \in Slots, tasks' = [tasks EXCEPT ![s] = Idle], ver' = ver
    PROVE  SlotsOK(tasks') /\ ver' + Cardinality(PD(tasks')) <= MaxVer
<1>1. ~PendingDelete(Idle)
  BY DEF PendingDelete, Idle
<1>2. QED
  BY <1>1, SetFresh

(* A step that only continues the chain keeps the budget. *)
LEMMA ContinueBudget ==
    ASSUME TInv, NEW s \in Slots, Busy(s), Continue(s), ver' = ver
    PROVE  SlotsOK(tasks') /\ ver' + Cardinality(PD(tasks')) <= MaxVer
<1>1. SlotsOK(tasks') /\ PD(tasks') \subseteq PD(tasks)
  BY ContinueOK
<1>2. Cardinality(PD(tasks')) <= Cardinality(PD(tasks))
  BY <1>1, PDLe
<1>3. Cardinality(PD(tasks')) \in Nat /\ Cardinality(PD(tasks)) \in Nat
  BY PDFinite
<1>4. ver \in Nat /\ ver + Cardinality(PD(tasks)) <= MaxVer
  BY TInvParts
<1>5. QED
  BY <1>1, <1>2, <1>3, <1>4, MaxVerAssumption

(* A spawn of anything but the clear chain keeps the budget. *)
LEMMA SpawnBudget ==
    ASSUME TInv, NEW c \in DOMAIN Chain, c # "clear", NEW q \in Filters,
           Spawn(c, q), ver' = ver
    PROVE  SlotsOK(tasks') /\ ver' + Cardinality(PD(tasks')) <= MaxVer
<1>1. SlotsOK(tasks') /\ PD(tasks') \subseteq PD(tasks)
  BY SpawnOK
<1>2. Cardinality(PD(tasks')) <= Cardinality(PD(tasks))
  BY <1>1, PDLe
<1>3. Cardinality(PD(tasks')) \in Nat /\ Cardinality(PD(tasks)) \in Nat
  BY PDFinite
<1>4. ver \in Nat /\ ver + Cardinality(PD(tasks)) <= MaxVer
  BY TInvParts
<1>5. QED
  BY <1>1, <1>2, <1>3, <1>4, MaxVerAssumption

LEMMA NoQueryOK == NoQuery \in Filters
BY FilterOK DEF NoQuery
-----------------------------------------------------------------------------
(* The server's steps.                                                     *)

(* AppendLog bumps /version only while the budget has room. *)
LEMMA AppendLogOK ==
    ASSUME TInv, NEW m \in Msgs, AppendLog(m)
    PROVE  TInv'
<1>1. Cardinality(PD(tasks)) \in Nat
  BY PDFinite
<1>2. ver \in Nat /\ Budget < MaxVer /\ ver' = ver + 1
  BY TInvParts DEF AppendLog
<1>3. SlotsOK(tasks') /\ PD(tasks') = PD(tasks)
  BY DEF AppendLog, TInv
<1>4. ver' \in Nat /\ ver' + Cardinality(PD(tasks')) <= MaxVer
  BY <1>1, <1>2, <1>3, BudgetIsPD, MaxVerAssumption
<1>5. OtherTyped'
  BY DEF AppendLog, TInv, TypeOK, OtherTyped, view
<1>6. QED
  BY <1>3, <1>4, <1>5, Assemble

(* The server's answer to a GET holds names of the kind asked for. *)
LEMMA AnswerOK ==
    ASSUME TInv, NEW s \in Slots, Answer(s)
    PROVE  TInv'
<1> DEFINE t == tasks[s]
           nm == CASE Kind(t) = "types" -> TypesOf(log)
                   [] Kind(t) = "uids"  -> UidsOf(log)
                   [] Kind(t) = "iids"  -> IidsOf(log, t.q.uid)
                   [] OTHER             -> {}
           r == [t EXCEPT !.st = "ok", !.names = nm,
                          !.ms = IF Kind(t) = "msgs" THEN Matching(log, t.q) ELSE {},
                          !.v = ver]
<1>1. t \in GoodTasks
  BY SlotCases DEF TInv, Answer
<1>2. tasks' = [tasks EXCEPT ![s] = r]
  BY DEF Answer
<1>3. /\ TypesOf(log) \subseteq Types
      /\ UidsOf(log) \subseteq Uids
      /\ IidsOf(log, t.q.uid) \subseteq Iids
      /\ Matching(log, t.q) \subseteq Msgs
  BY DEF TInv, TypeOK, TypesOf, UidsOf, IidsOf, Types, Uids, Iids, Matching
<1>4. /\ nm \subseteq Types \cup Uids \cup Iids
      /\ Kind(t) = "types" => nm \subseteq Types
      /\ Kind(t) = "uids" => nm \subseteq Uids
      /\ Kind(t) = "iids" => nm \subseteq Iids
  BY <1>3
<1>5. r \in GoodTasks
  <2>1. r \in TaskRecs /\ r.k <= Len(Chain[r.chain])
    BY <1>1, <1>3, <1>4 DEF GoodTasks, TaskRecs, TInv, TypeOK
  <2>2. Kind(r) = Kind(t) /\ r.names = nm /\ r.st = "ok"
    BY <1>1 DEF GoodTasks, TaskRecs, Kind
  <2>3. QED
    BY <2>1, <2>2, <1>4 DEF GoodTasks, NamesOK
<1>6. ~PendingDelete(r)
  BY <1>1 DEF GoodTasks, TaskRecs, PendingDelete
<1>7. SlotsOK(tasks') /\ ver' + Cardinality(PD(tasks')) <= MaxVer
  BY <1>2, <1>5, <1>6, SetFresh DEF Answer
<1>8. OtherTyped'
  BY DEF Answer, TInv, TypeOK, OtherTyped, view
<1>9. ver' \in Nat
  BY TInvParts DEF Answer
<1>10. QED
  BY <1>7, <1>8, <1>9, Assemble

(* DELETE /logs bumps /version and ends a pending delete: the budget is  *)
(* unchanged.                                                              *)
LEMMA AnswerDeleteOK ==
    ASSUME TInv, NEW s \in Slots, AnswerDelete(s)
    PROVE  TInv'
<1> DEFINE t == tasks[s]
           r == [t EXCEPT !.st = "ok"]
<1>1. t \in GoodTasks
  BY SlotCases DEF TInv, AnswerDelete
<1>2. t.chain \in DOMAIN Chain /\ t.k \in 1 .. Len(Chain[t.chain])
      /\ Chain[t.chain][t.k] = "delete"
  BY <1>1 DEF AnswerDelete, Kind, GoodTasks, TaskRecs
<1>3. t.chain = "clear" /\ t.k = 1
  BY <1>2, ChainShape
<1>4. PendingDelete(t) /\ ~PendingDelete(r)
  BY <1>1, <1>3 DEF AnswerDelete, PendingDelete, GoodTasks, TaskRecs
<1>5. r \in GoodTasks
  <2>1. Kind(r) = "delete"
    BY <1>1 DEF AnswerDelete, GoodTasks, TaskRecs, Kind
  <2>2. QED
    BY <1>1, <2>1 DEF GoodTasks, TaskRecs, NamesOK
<1>6. tasks' = [tasks EXCEPT ![s] = r]
  BY DEF AnswerDelete
<1>7. tasks \in [Slots -> {Idle} \cup GoodTasks]
  BY DEF TInv, SlotsOK
<1>8. SlotsOK(tasks')
  BY <1>5, <1>6, SetSlot DEF TInv
<1>9. Cardinality(PD(tasks')) = Cardinality(PD(tasks)) - 1
  BY <1>4, <1>6, <1>7, PDRemoveOne
<1>10. Cardinality(PD(tasks')) \in Nat /\ Cardinality(PD(tasks)) \in Nat
  BY PDFinite
<1>11. ver' \in Nat /\ ver' + Cardinality(PD(tasks')) <= MaxVer
  <2>1. ver' = ver + 1
    BY DEF AnswerDelete
  <2>2. ver \in Nat /\ ver + Cardinality(PD(tasks)) <= MaxVer
    BY TInvParts
  <2>3. QED
    BY <1>9, <1>10, <2>1, <2>2
<1>12. OtherTyped'
  BY DEF AnswerDelete, TInv, TypeOK, OtherTyped, view
<1>13. QED
  BY <1>8, <1>11, <1>12, Assemble

(* A rejected fetch marks its task failed. *)
LEMMA FetchFailsOK ==
    ASSUME TInv, NEW s \in Slots, FetchFails(s)
    PROVE  TInv'
<1> DEFINE t == tasks[s]
           r == [t EXCEPT !.st = "error"]
<1>1. t \in GoodTasks
  BY SlotCases DEF TInv, FetchFails
<1>2. r \in GoodTasks /\ ~PendingDelete(r)
  BY <1>1 DEF GoodTasks, TaskRecs, NamesOK, Kind, PendingDelete
<1>3. SlotsOK(tasks') /\ ver' + Cardinality(PD(tasks')) <= MaxVer
  BY <1>2, SetFresh DEF FetchFails
<1>4. fails' \in 0 .. MaxFails
  BY TInvParts, MaxFailsAssumption DEF FetchFails
<1>5. OtherTyped'
  BY <1>4 DEF FetchFails, TInv, TypeOK, OtherTyped, view
<1>6. ver' \in Nat
  BY TInvParts DEF FetchFails
<1>7. QED
  BY <1>3, <1>5, <1>6, Assemble
-----------------------------------------------------------------------------
(* The continuations.                                                      *)

(* loadTypes draws the types a /types answer named. *)
LEMMA RecvTypesOK ==
    ASSUME TInv, NEW s \in Slots, RecvTypes(s)
    PROVE  TInv'
<1>1. tasks[s] \in GoodTasks
  BY SlotCases, TInvParts DEF RecvTypes
<1>2. panelTypes' \subseteq Types
  BY <1>1 DEF RecvTypes, GoodTasks, NamesOK
<1>3. typeStates' \in [Types -> TStates]
  BY DEF RecvTypes, TStates
<1>4. SlotsOK(tasks') /\ ver' + Cardinality(PD(tasks')) <= MaxVer
  BY ContinueBudget DEF RecvTypes
<1>5. OtherTyped'
  BY <1>2, <1>3, TInvParts DEF RecvTypes, OtherTyped
<1>6. ver' \in Nat
  BY TInvParts DEF RecvTypes
<1>7. QED
  BY <1>4, <1>5, <1>6, Assemble

(* loadUids draws the uids a /uids answer named, and with no uid selected *)
(* goes straight on to renderMessages, two fetches further.              *)
LEMMA RecvUidsOK ==
    ASSUME TInv, NEW s \in Slots, RecvUids(s)
    PROVE  TInv'
<1> DEFINE t == tasks[s]
<1>1. t \in GoodTasks
  BY SlotCases, TInvParts DEF RecvUids
<1>2. shownUids' \subseteq Uids
  BY <1>1 DEF RecvUids, GoodTasks, NamesOK
<1>3. SlotsOK(tasks') /\ ver' + Cardinality(PD(tasks')) <= MaxVer
  <2>1. CASE Continue(s)
    BY <2>1, ContinueBudget DEF RecvUids
  <2>2. CASE tasks' = [tasks EXCEPT ![s] = Task(t.chain, t.k + 2, CurrentFilter)]
    <3>0. Kind(t) = "uids"
      BY DEF RecvUids
    <3>1. /\ t.chain \in DOMAIN Chain /\ t.k \in 1 .. Len(Chain[t.chain])
          /\ Chain[t.chain][t.k] = "uids"
      BY <1>1, <3>0 DEF GoodTasks, TaskRecs, Kind
    <3>2. t.k + 2 \in 1 .. Len(Chain[t.chain]) /\ t.k + 2 # 1
      BY <3>1, ChainShape
    <3>3. CurrentFilter \in Filters
      BY FilterOK, TInvParts DEF OtherTyped, CurrentFilter
    <3>4. Task(t.chain, t.k + 2, CurrentFilter) \in GoodTasks
      BY <3>1, <3>2, <3>3, NewTask
    <3>5. ~PendingDelete(Task(t.chain, t.k + 2, CurrentFilter))
      BY <3>2 DEF PendingDelete, Task
    <3>6. QED
      BY <2>2, <3>4, <3>5, SetFresh DEF RecvUids
  <2>3. QED
    BY <2>1, <2>2 DEF RecvUids
<1>4. OtherTyped'
  BY <1>2, TInvParts DEF RecvUids, OtherTyped
<1>5. ver' \in Nat
  <2>1. ver' = ver
    BY DEF RecvUids
  <2>2. QED
    BY <2>1, TInvParts
<1>6. QED
  BY <1>3, <1>4, <1>5, Assemble

(* loadIids draws the iids of the uid it asked about. *)
LEMMA RecvIidsOK ==
    ASSUME TInv, NEW s \in Slots, RecvIids(s)
    PROVE  TInv'
<1>1. tasks[s] \in GoodTasks
  BY SlotCases, TInvParts DEF RecvIids
<1>2. shownIids' \subseteq Iids /\ iidsFor' \in {""} \cup Uids
  BY <1>1 DEF RecvIids, GoodTasks, TaskRecs, NamesOK, Filters
<1>3. SlotsOK(tasks') /\ ver' + Cardinality(PD(tasks')) <= MaxVer
  BY ContinueBudget DEF RecvIids
<1>4. OtherTyped'
  BY <1>2, TInvParts DEF RecvIids, OtherTyped
<1>5. ver' \in Nat
  BY TInvParts DEF RecvIids
<1>6. QED
  BY <1>3, <1>4, <1>5, Assemble

(* renderMessages draws the messages answered for its filter. *)
LEMMA RecvMsgsOK ==
    ASSUME TInv, NEW s \in Slots, RecvMsgs(s)
    PROVE  TInv'
<1>1. tasks[s] \in GoodTasks
  BY SlotCases, TInvParts DEF RecvMsgs
<1>2. shown' \subseteq Msgs /\ shownFor' \in Filters
  BY <1>1 DEF RecvMsgs, GoodTasks, TaskRecs
<1>3. SlotsOK(tasks') /\ ver' + Cardinality(PD(tasks')) <= MaxVer
  BY ContinueBudget DEF RecvMsgs
<1>4. OtherTyped'
  BY <1>2, TInvParts DEF RecvMsgs, OtherTyped
<1>5. ver' \in Nat
  BY TInvParts DEF RecvMsgs
<1>6. QED
  BY <1>3, <1>4, <1>5, Assemble

(* The /version answer records a version the server had. *)
LEMMA RecvVersionOK ==
    ASSUME TInv, NEW s \in Slots, RecvVersion(s)
    PROVE  TInv'
<1>1. tasks[s] \in GoodTasks
  BY SlotCases, TInvParts DEF RecvVersion
<1>2. tasks[s].v \in 0 .. MaxVer
  BY <1>1 DEF GoodTasks, TaskRecs
<1>3. lastVersion' \in 0 .. MaxVer /\ timerOn' \in BOOLEAN
  BY <1>2, TInvParts DEF RecvVersion, OtherTyped
<1>4. SlotsOK(tasks') /\ ver' + Cardinality(PD(tasks')) <= MaxVer
  <2>1. CASE Continue(s)
    BY <2>1, ContinueBudget DEF RecvVersion
  <2>2. CASE tasks' = [tasks EXCEPT ![s] = Idle]
    BY <2>2, FreeSlot DEF RecvVersion
  <2>3. QED
    BY <2>1, <2>2 DEF RecvVersion
<1>5. OtherTyped'
  BY <1>3, TInvParts DEF RecvVersion, OtherTyped, view
<1>6. ver' \in Nat
  BY TInvParts DEF RecvVersion
<1>7. QED
  BY <1>4, <1>5, <1>6, Assemble

(* After DELETE the clear handler resets the selection and reloads. *)
LEMMA RecvDeleteOK ==
    ASSUME TInv, NEW s \in Slots, RecvDelete(s)
    PROVE  TInv'
<1>1. SlotsOK(tasks') /\ ver' + Cardinality(PD(tasks')) <= MaxVer
  BY ContinueBudget DEF RecvDelete
<1>2. OtherTyped'
  BY TInvParts DEF RecvDelete, OtherTyped, view
<1>3. ver' \in Nat
  <2>1. ver' = ver
    BY DEF RecvDelete
  <2>2. QED
    BY <2>1, TInvParts
<1>4. QED
  BY <1>1, <1>2, <1>3, Assemble

(* A rejected fetch ends its chain. *)
LEMMA RecvErrorOK ==
    ASSUME TInv, NEW s \in Slots, RecvError(s)
    PROVE  TInv'
<1>1. SlotsOK(tasks') /\ ver' + Cardinality(PD(tasks')) <= MaxVer
  BY FreeSlot DEF RecvError
<1>2. OtherTyped'
  BY TInvParts DEF RecvError, OtherTyped, view
<1>3. ver' \in Nat
  BY TInvParts DEF RecvError
<1>4. QED
  BY <1>1, <1>2, <1>3, Assemble
-----------------------------------------------------------------------------
(* The timer and the user's clicks.                                        *)

(* maybeRefresh starts a refresh chain. *)
LEMMA TickOK ==
    ASSUME TInv, Tick
    PROVE  TInv'
<1>1. SlotsOK(tasks') /\ ver' + Cardinality(PD(tasks')) <= MaxVer
  BY NoQueryOK, SpawnBudget DEF Tick, Chain
<1>2. OtherTyped'
  BY TInvParts DEF Tick, OtherTyped, view
<1>3. ver' \in Nat
  BY TInvParts DEF Tick
<1>4. QED
  BY <1>1, <1>2, <1>3, Assemble

(* A uid tab starts two chains in two free slots. *)
LEMMA ClickUidOK ==
    ASSUME TInv, NEW u \in Uids, ClickUid(u)
    PROVE  TInv'
<1>1. PICK s1, s2 \in Slots :
        /\ s1 # s2 /\ ~Busy(s1) /\ ~Busy(s2)
        /\ tasks' = [tasks EXCEPT ![s1] = Task("render", 1, Filter(u, "", typeStates)),
                                  ![s2] = Task("iids", 1, Filter(u, "", AllOff))]
  BY DEF ClickUid
<1> DEFINE a == Task("render", 1, Filter(u, "", typeStates))
           b == Task("iids", 1, Filter(u, "", AllOff))
           mid == [tasks EXCEPT ![s1] = a]
<1>2. a \in GoodTasks /\ b \in GoodTasks /\ ~PendingDelete(a) /\ ~PendingDelete(b)
  <2>1. Filter(u, "", typeStates) \in Filters /\ Filter(u, "", AllOff) \in Filters
    BY FilterOK
  <2>2. /\ "render" \in DOMAIN Chain /\ 1 \in 1 .. Len(Chain["render"])
        /\ "iids" \in DOMAIN Chain /\ 1 \in 1 .. Len(Chain["iids"])
    BY DEF Chain
  <2>3. a \in GoodTasks /\ b \in GoodTasks
    BY <2>1, <2>2, NewTask
  <2>4. QED
    BY <2>3 DEF PendingDelete, Task
<1>3. tasks' = [mid EXCEPT ![s2] = b]
  BY <1>1
<1>4. tasks \in [Slots -> {Idle} \cup GoodTasks]
  BY TInvParts DEF SlotsOK
<1>5. mid \in [Slots -> {Idle} \cup GoodTasks] /\ PD(mid) \subseteq PD(tasks)
  BY <1>2, <1>4, PDSetOther
<1>6. SlotsOK(tasks') /\ PD(tasks') \subseteq PD(mid)
  BY <1>2, <1>3, <1>5, PDSetOther DEF SlotsOK
<1>7. Cardinality(PD(tasks')) <= Cardinality(PD(tasks))
  BY <1>5, <1>6, PDLe
<1>8. ver' = ver
  BY DEF ClickUid
<1>9. ver' \in Nat /\ ver' + Cardinality(PD(tasks')) <= MaxVer
  BY <1>7, <1>8, TInvParts, PDFinite, MaxVerAssumption
<1>10. OtherTyped'
  BY TInvParts DEF ClickUid, OtherTyped, view
<1>11. QED
  BY <1>6, <1>9, <1>10, Assemble

(* The "All" uid tab renders everything. *)
LEMMA ClickAllUidsOK ==
    ASSUME TInv, ClickAllUids
    PROVE  TInv'
<1>1. Filter("", "", typeStates) \in Filters
  BY FilterOK
<1>2. ver' = ver
  BY DEF ClickAllUids
<1>3. SlotsOK(tasks') /\ ver' + Cardinality(PD(tasks')) <= MaxVer
  BY <1>1, <1>2, SpawnBudget DEF ClickAllUids, Chain
<1>4. OtherTyped'
  BY TInvParts DEF ClickAllUids, OtherTyped
<1>5. ver' \in Nat
  BY <1>2, TInvParts
<1>6. QED
  BY <1>3, <1>4, <1>5, Assemble

(* An iid tab selects a drawn iid. *)
LEMMA ClickIidOK ==
    ASSUME TInv, NEW i \in {""} \cup Iids, ClickIid(i)
    PROVE  TInv'
<1>1. Filter(selUid, i, typeStates) \in Filters
  BY FilterOK, TInvParts DEF OtherTyped
<1>2. ver' = ver
  BY DEF ClickIid
<1>3. SlotsOK(tasks') /\ ver' + Cardinality(PD(tasks')) <= MaxVer
  BY <1>1, <1>2, SpawnBudget DEF ClickIid, Chain
<1>4. OtherTyped'
  BY TInvParts DEF ClickIid, OtherTyped, view
<1>5. ver' \in Nat
  BY <1>2, VerNat
<1>6. QED
  BY <1>3, <1>4, <1>5, Assemble

(* A type tile cycles its state and saves it, or fails to. *)
LEMMA ClickTypeOK ==
    ASSUME TInv, NEW x \in Types, ClickType(x)
    PROVE  TInv'
<1>1. typeStates' \in [Types -> TStates]
  <2>1. typeStates \in [Types -> TStates]
    BY TInvParts DEF OtherTyped
  <2>2. Cycle[typeStates[x]] \in TStates
    BY <2>1 DEF Cycle, TStates
  <2>3. QED
    BY <2>1, <2>2 DEF ClickType
<1>2. storage' \in [Types -> StoredValues]
  <2>1. TStates \subseteq StoredValues
    BY DEF StoredValues
  <2>2. QED
    BY <1>1, <2>1, TInvParts DEF ClickType, OtherTyped
<1>3. fails' \in 0 .. MaxFails
  BY TInvParts, MaxFailsAssumption DEF ClickType
<1>4. Filter(selUid, selIid, typeStates') \in Filters
  BY FilterOK, TInvParts DEF OtherTyped
<1>5. ver' = ver
  BY DEF ClickType
<1>6. SlotsOK(tasks') /\ ver' + Cardinality(PD(tasks')) <= MaxVer
  BY <1>4, <1>5, SpawnBudget DEF ClickType, Chain
<1>7. OtherTyped'
  BY <1>1, <1>2, <1>3, TInvParts DEF ClickType, OtherTyped, view
<1>8. ver' \in Nat
  BY <1>5, TInvParts
<1>9. QED
  BY <1>6, <1>7, <1>8, Assemble

(* The refresh button renders the current selection. *)
LEMMA ClickRefreshOK ==
    ASSUME TInv, ClickRefresh
    PROVE  TInv'
<1>1. CurrentFilter \in Filters
  BY FilterOK, TInvParts DEF OtherTyped, CurrentFilter
<1>2. SlotsOK(tasks') /\ ver' + Cardinality(PD(tasks')) <= MaxVer
  BY <1>1, SpawnBudget DEF ClickRefresh, Chain
<1>3. OtherTyped'
  BY TInvParts DEF ClickRefresh, OtherTyped, view
<1>4. ver' \in Nat
  BY TInvParts DEF ClickRefresh
<1>5. QED
  BY <1>2, <1>3, <1>4, Assemble

(* The clear button issues a DELETE only while the budget has room. *)
LEMMA ClickClearOK ==
    ASSUME TInv, ClickClear
    PROVE  TInv'
<1>1. "clear" \in DOMAIN Chain
  BY DEF Chain
<1>2. SlotsOK(tasks') /\ Cardinality(PD(tasks')) = Cardinality(PD(tasks)) + 1
  BY <1>1, NoQueryOK, SpawnOK DEF ClickClear
<1>3. ver' = ver /\ Budget < MaxVer
  BY DEF ClickClear
<1>4. ver' \in Nat /\ ver' + Cardinality(PD(tasks')) <= MaxVer
  BY <1>2, <1>3, TInvParts, PDFinite, BudgetIsPD, MaxVerAssumption
<1>5. OtherTyped'
  BY TInvParts DEF ClickClear, OtherTyped, view
<1>6. QED
  BY <1>2, <1>4, <1>5, Assemble
-----------------------------------------------------------------------------
(* Initially only the initial load is in flight, with nothing answered. *)
LEMMA InitTInv == Init => TInv
<1> SUFFICES ASSUME Init PROVE TInv
  OBVIOUS
<1>1. Task("init", 1, NoQuery) \in GoodTasks /\ ~PendingDelete(Task("init", 1, NoQuery))
  <2>1. "init" \in DOMAIN Chain /\ 1 \in 1 .. Len(Chain["init"])
    BY DEF Chain
  <2>2. QED
    BY <2>1, NoQueryOK, NewTask DEF PendingDelete, Task
<1>2. SlotsOK(tasks) /\ PD(tasks) = {}
  BY <1>1 DEF Init, SlotsOK, PD, PendingDelete, Idle
<1>3. Cardinality(PD(tasks)) = 0
  BY <1>2, FS_EmptySet
<1>4. ver = 0 /\ ver + Cardinality(PD(tasks)) <= MaxVer
  <2>1. ver = 0
    BY DEF Init
  <2>2. QED
    BY <1>3, <2>1, MaxVerAssumption
<1>5. OtherTyped
  <2>1. 0 \in 0 .. MaxVer /\ 0 \in 0 .. MaxFails
    BY MaxVerAssumption, MaxFailsAssumption
  <2>2. typeStates \in [Types -> TStates]
    BY DEF Init, AllOff, TStates
  <2>3. QED
    BY <2>1, <2>2, NoQueryOK, Zenon DEF Init, OtherTyped
<1>6. tasks \in [Slots -> Tasks] /\ ver \in 0 .. MaxVer
  BY <1>2, <1>4, SlotsTyped, MaxVerAssumption
<1>7. QED
  BY <1>2, <1>4, <1>5, <1>6, Zenon DEF TInv, TypeOK, OtherTyped

(* Every step keeps the invariant. *)
LEMMA StepTInv == TInv /\ [Next]_vars => TInv'
<1> SUFFICES ASSUME TInv, [Next]_vars PROVE TInv'
  OBVIOUS
<1>1. CASE \E m \in Msgs : AppendLog(m)
  BY <1>1, AppendLogOK
<1>2. CASE \E s \in Slots : Deliver(s) \/ FetchFails(s)
  BY <1>2, AnswerOK, AnswerDeleteOK, RecvTypesOK, RecvUidsOK, RecvIidsOK,
     RecvMsgsOK, RecvVersionOK, RecvDeleteOK, RecvErrorOK, FetchFailsOK DEF Deliver
<1>3. CASE Tick
  BY <1>3, TickOK
<1>4. CASE UserStep
  BY <1>4, ClickUidOK, ClickAllUidsOK, ClickIidOK, ClickTypeOK, ClickRefreshOK,
     ClickClearOK DEF UserStep
<1>5. CASE UNCHANGED vars
  <2>1. SlotsOK(tasks') /\ PD(tasks') = PD(tasks) /\ ver' = ver
    BY <1>5, TInvParts DEF vars
  <2>2. OtherTyped'
    BY <1>5, TInvParts DEF vars, OtherTyped
  <2>3. QED
    BY <2>1, <2>2, TInvParts, Assemble
<1>6. QED
  BY <1>1, <1>2, <1>3, <1>4, <1>5 DEF Next

(* The log viewer's state always has its type (TypeOK): in particular     *)
(* /version never passes MaxVer, however the DELETE /logs requests of     *)
(* clear clicks and the log appends interleave, and every continuation of *)
(* an async chain finds a fetch of its chain and an answer of the kind it *)
(* asked for.                                                              *)
THEOREM ViewerTypeCorrect == Spec => []TypeOK
<1>1. TInv => TypeOK
  BY DEF TInv
<1>2. QED
  BY <1>1, InitTInv, StepTInv, PTL DEF Spec
=============================================================================
