--------------------------- MODULE LogViewerProofs ---------------------------
(***************************************************************************)
(* Proofs about LogViewer for every set of log records, every bound on    *)
(* log changes and on chains in flight.                                    *)
(*                                                                         *)
(* TypeChoicesPersist is not inductive alone: a /types reply delivered to *)
(* RecvTypes must name types only, so the invariant carries the fact that *)
(* a task holding a /types answer holds a set of types, and the shape of  *)
(* the task records through which replies travel.                          *)
(***************************************************************************)
EXTENDS LogViewer, TLAPS

Fields == {"chain", "k", "q", "st", "names", "ms", "v"}
\* tk maps every slot to a task record.
Shape(tk) == DOMAIN tk = Slots /\ \A s \in Slots : DOMAIN tk[s] = Fields
\* Every /types answer a task holds is a set of types.
NamesTyped(tk) ==
    \A s \in Slots : (tk[s].chain # "none" /\ tk[s].st = "ok" /\ Kind(tk[s]) = "types")
                        => tk[s].names \subseteq Types
\* A record a slot can be (re)set to: free, or a fetch not yet answered.
Fresh_(r) == DOMAIN r = Fields /\ (r.chain = "none" \/ r.st = "pending")

IInv ==
    /\ log \subseteq Msgs
    /\ typeStates \in [Types -> TStates]
    /\ storage \in [Types -> StoredValues]
    /\ panelTypes \subseteq Types
    /\ fails \in Nat
    /\ Shape(tasks)
    /\ NamesTyped(tasks)
    /\ TypeChoicesWhileReliable

(* Free slots and newly issued fetches are fresh records. *)
LEMMA TaskFresh ==
    ASSUME NEW c, NEW k, NEW q
    PROVE  Fresh_(Idle) /\ Fresh_(Task(c, k, q))
BY DEF Fresh_, Idle, Task, Fields

(* Resetting one slot to a fresh record keeps the tasks well formed. *)
LEMMA SlotReset ==
    ASSUME NEW tk, Shape(tk), NamesTyped(tk), NEW s \in Slots, NEW r, Fresh_(r)
    PROVE  Shape([tk EXCEPT ![s] = r]) /\ NamesTyped([tk EXCEPT ![s] = r])
BY DEF Shape, NamesTyped, Fresh_

(* The continuation of a task resets its slot to a fresh record. *)
LEMMA ContinueFresh ==
    ASSUME NEW s \in Slots, Continue(s)
    PROVE  \E r : Fresh_(r) /\ tasks' = [tasks EXCEPT ![s] = r]
BY TaskFresh DEF Continue

(* Starting an async function resets a slot to a fresh record. *)
LEMMA SpawnFresh ==
    ASSUME NEW c, NEW q, Spawn(c, q)
    PROVE  \E s \in Slots : \E r : Fresh_(r) /\ tasks' = [tasks EXCEPT ![s] = r]
BY TaskFresh DEF Spawn

(* The stored state of a valid tile state is that state. *)
LEMMA StoredOfValid ==
    ASSUME NEW ts \in [Types -> TStates], NEW x \in Types
    PROVE  (IF ts[x] \in {"include", "exclude"} THEN ts[x] ELSE "off") = ts[x]
BY DEF TStates

\* The actions that leave the persisted choices and the tiles alone.
Frame == UNCHANGED <<log, typeStates, storage, panelTypes, fails>>

(* Initially the invariant holds: no tile is drawn yet. *)
LEMMA InitIInv == Init => IInv
<1> SUFFICES ASSUME Init PROVE IInv
  OBVIOUS
<1>1. \A s \in Slots : Fresh_(tasks[s])
  BY TaskFresh DEF Init
<1>2. Shape(tasks) /\ NamesTyped(tasks)
  BY <1>1 DEF Init, Shape, NamesTyped, Fresh_
<1>3. typeStates \in [Types -> TStates]
  BY DEF Init, AllOff, TStates
<1>4. QED
  BY <1>2, <1>3 DEF Init, IInv, TypeChoicesWhileReliable, TypeChoicesPersist

(* A step that only resets one slot to a fresh record keeps the invariant. *)
LEMMA ResetStep ==
    ASSUME IInv, Frame, NEW s \in Slots, NEW r, Fresh_(r),
           tasks' = [tasks EXCEPT ![s] = r]
    PROVE  IInv'
<1>1. Shape(tasks') /\ NamesTyped(tasks')
  BY SlotReset DEF IInv
<1>2. QED
  BY <1>1 DEF IInv, Frame, TypeChoicesWhileReliable, TypeChoicesPersist, Stored

(* A step that changes nothing the invariant reads keeps it. *)
LEMMA FrameStep ==
    ASSUME IInv, Frame, UNCHANGED tasks
    PROVE  IInv'
BY DEF IInv, Frame, Shape, NamesTyped, Kind, TypeChoicesWhileReliable, TypeChoicesPersist, Stored

(* The continuations that only redraw the uid, iid or message lists, and  *)
(* the /version and DELETE continuations, keep the invariant.             *)
LEMMA ContinueSteps ==
    ASSUME IInv, NEW s \in Slots,
           RecvIids(s) \/ RecvMsgs(s) \/ RecvDelete(s)
    PROVE  IInv'
<1>1. Frame /\ Continue(s)
  BY DEF RecvIids, RecvMsgs, RecvDelete, Frame, view
<1>2. PICK r : Fresh_(r) /\ tasks' = [tasks EXCEPT ![s] = r]
  BY <1>1, ContinueFresh
<1>3. QED
  BY <1>1, <1>2, ResetStep

LEMMA RecvUidsStep ==
    ASSUME IInv, NEW s \in Slots, RecvUids(s)
    PROVE  IInv'
<1>1. Frame
  BY DEF RecvUids, Frame
<1>2. PICK r : Fresh_(r) /\ tasks' = [tasks EXCEPT ![s] = r]
  <2>1. CASE selUid # ""
    BY <2>1, ContinueFresh DEF RecvUids
  <2>2. CASE selUid = ""
    BY <2>2, TaskFresh DEF RecvUids
  <2>3. QED
    BY <2>1, <2>2
<1>3. QED
  BY <1>1, <1>2, ResetStep

LEMMA RecvVersionStep ==
    ASSUME IInv, NEW s \in Slots, RecvVersion(s) \/ RecvError(s)
    PROVE  IInv'
<1>1. Frame
  BY DEF RecvVersion, RecvError, Frame, view
<1>2. PICK r : Fresh_(r) /\ tasks' = [tasks EXCEPT ![s] = r]
  BY ContinueFresh, TaskFresh DEF RecvVersion, RecvError
<1>3. QED
  BY <1>1, <1>2, ResetStep

(* Every handler that starts an async function keeps the invariant, when *)
(* it leaves the type states alone.                                       *)
LEMMA SpawnSteps ==
    ASSUME IInv,
           Tick \/ ClickAllUids \/ ClickRefresh \/ ClickClear
           \/ \E i \in {""} \cup Iids : ClickIid(i)
    PROVE  IInv'
<1>1. Frame
  BY DEF Tick, ClickAllUids, ClickRefresh, ClickClear, ClickIid, Frame, view
<1>2. \E c, q : Spawn(c, q)
  BY DEF Tick, ClickAllUids, ClickRefresh, ClickClear, ClickIid
<1>3. PICK s \in Slots : \E r : Fresh_(r) /\ tasks' = [tasks EXCEPT ![s] = r]
  BY <1>2, SpawnFresh
<1>4. PICK r : Fresh_(r) /\ tasks' = [tasks EXCEPT ![s] = r]
  BY <1>3
<1>5. QED
  BY <1>1, <1>4, ResetStep

(* Two slots reset at once, as a uid tab click does. *)
LEMMA ClickUidStep ==
    ASSUME IInv, NEW u \in Uids, ClickUid(u)
    PROVE  IInv'
<1>1. Frame
  BY DEF ClickUid, Frame, view
<1>2. PICK s1, s2 \in Slots :
          tasks' = [[tasks EXCEPT ![s1] = Task("render", 1, Filter(u, "", typeStates))]
                      EXCEPT ![s2] = Task("iids", 1, Filter(u, "", AllOff))]
  BY DEF ClickUid
<1> DEFINE tk1 == [tasks EXCEPT ![s1] = Task("render", 1, Filter(u, "", typeStates))]
<1>3. Shape(tk1) /\ NamesTyped(tk1)
  BY TaskFresh, SlotReset DEF IInv
<1>4. Shape(tasks') /\ NamesTyped(tasks')
  BY <1>2, <1>3, TaskFresh, SlotReset
<1>5. QED
  BY <1>1, <1>4 DEF IInv, Frame, TypeChoicesWhileReliable, TypeChoicesPersist, Stored

(* The server's answer to a GET names types only when it answers /types. *)
LEMMA AnswerStep ==
    ASSUME IInv, NEW s \in Slots, Answer(s)
    PROVE  IInv'
<1>1. Frame
  BY DEF Answer, Frame, view
<1> DEFINE t == tasks[s]
<1>2. DOMAIN t = Fields
  BY DEF IInv, Shape
<1>3. TypesOf(log) \subseteq Types
  BY DEF IInv, TypesOf, Types
<1>4. tasks'[s] = [t EXCEPT !.st = "ok",
                     !.names = CASE Kind(t) = "types" -> TypesOf(log)
                                 [] Kind(t) = "uids"  -> UidsOf(log)
                                 [] Kind(t) = "iids"  -> IidsOf(log, t.q.uid)
                                 [] OTHER             -> {},
                     !.ms = IF Kind(t) = "msgs" THEN Matching(log, t.q) ELSE {},
                     !.v = ver]
  BY DEF Answer, IInv, Shape
<1>5. Kind(tasks'[s]) = Kind(t) /\ tasks'[s].chain = t.chain
  BY <1>2, <1>4 DEF Kind
<1>6. Kind(t) = "types" => tasks'[s].names = TypesOf(log)
  BY <1>2, <1>4
<1>7. DOMAIN tasks'[s] = Fields
  BY <1>2, <1>4
<1>8. tasks' = [tasks EXCEPT ![s] = tasks'[s]]
  BY DEF Answer, IInv, Shape
<1>9. Shape(tasks') /\ NamesTyped(tasks')
  BY <1>3, <1>5, <1>6, <1>7, <1>8 DEF IInv, Shape, NamesTyped
<1>10. QED
  BY <1>1, <1>9 DEF IInv, Frame, TypeChoicesWhileReliable, TypeChoicesPersist, Stored

(* A DELETE answered, or any fetch failing, holds no /types answer. *)
LEMMA StatusSteps ==
    ASSUME IInv, NEW s \in Slots, AnswerDelete(s) \/ FetchFails(s)
    PROVE  IInv'
<1>1. UNCHANGED <<typeStates, storage, panelTypes>> /\ fails' \in Nat
      /\ log' \subseteq Msgs
  BY DEF AnswerDelete, FetchFails, view, IInv
<1>2. PICK v \in {"ok", "error"} : tasks' = [tasks EXCEPT ![s].st = v]
                                   /\ (v = "ok" => Kind(tasks[s]) = "delete")
  BY DEF AnswerDelete, FetchFails
<1>3. DOMAIN tasks' = Slots /\ \A j \in Slots \ {s} : tasks'[j] = tasks[j]
  BY <1>2 DEF IInv, Shape
<1>4. DOMAIN tasks'[s] = Fields /\ tasks'[s].st = v
      /\ tasks'[s].chain = tasks[s].chain /\ tasks'[s].k = tasks[s].k
  BY <1>2 DEF IInv, Shape, Fields
<1>5. Shape(tasks')
  BY <1>3, <1>4 DEF IInv, Shape
<1>6. NamesTyped(tasks')
  BY <1>2, <1>3, <1>4 DEF IInv, NamesTyped, Kind
<1>7. fails' = fails \/ fails' = fails + 1
  BY DEF AnswerDelete, FetchFails
<1>8. QED
  BY <1>1, <1>5, <1>6, <1>7 DEF IInv, TypeChoicesWhileReliable, TypeChoicesPersist, Stored

(* An agent's log append touches the server only. *)
LEMMA AppendStep ==
    ASSUME IInv, NEW m \in Msgs, AppendLog(m)
    PROVE  IInv'
BY DEF AppendLog, IInv, view, Shape, NamesTyped, Kind, TypeChoicesWhileReliable, TypeChoicesPersist, Stored

(* loadTypes rebuilds every tile from localStorage: each drawn tile shows *)
(* what is stored, because a /types answer names types only.            *)
LEMMA RecvTypesStep ==
    ASSUME IInv, NEW s \in Slots, RecvTypes(s)
    PROVE  IInv'
<1> DEFINE t == tasks[s]
<1>1. t.names \subseteq Types
  BY DEF RecvTypes, IInv, NamesTyped, Busy
<1>2. PICK r : Fresh_(r) /\ tasks' = [tasks EXCEPT ![s] = r]
  BY ContinueFresh DEF RecvTypes
<1>3. Shape(tasks') /\ NamesTyped(tasks')
  BY <1>2, SlotReset DEF IInv
<1>4. typeStates' \in [Types -> TStates]
  BY DEF RecvTypes, TStates, IInv
<1>5. TypeChoicesPersist'
  BY <1>1 DEF RecvTypes, TypeChoicesPersist, Stored
<1>6. QED
  BY <1>1, <1>3, <1>4, <1>5 DEF RecvTypes, IInv, TypeChoicesWhileReliable

(* A tile click saves the whole map, so when the write succeeds every   *)
(* drawn tile, the clicked one included, shows what is stored; when it   *)
(* fails, fails is no longer 0 and nothing is claimed.                   *)
LEMMA ClickTypeStep ==
    ASSUME IInv, NEW x \in Types, ClickType(x)
    PROVE  IInv'
<1>1. Cycle[typeStates[x]] \in TStates
  BY DEF IInv, Cycle, TStates
<1>2. typeStates' \in [Types -> TStates]
  BY <1>1 DEF ClickType, IInv
<1>3. PICK c, q : Spawn(c, q)
  BY DEF ClickType
<1>4. PICK s \in Slots : \E r : Fresh_(r) /\ tasks' = [tasks EXCEPT ![s] = r]
  BY <1>3, SpawnFresh
<1>5. Shape(tasks') /\ NamesTyped(tasks')
  <2>1. PICK r : Fresh_(r) /\ tasks' = [tasks EXCEPT ![s] = r]
    BY <1>4
  <2>2. QED
    BY <2>1, SlotReset DEF IInv
<1>6. CASE storage' = typeStates' /\ fails' = fails
  <2>1. \A y \in Types : Stored(y)' = typeStates'[y]
    BY <1>2, <1>6, StoredOfValid DEF Stored
  <2>2. QED
    BY <1>2, <1>5, <1>6, <2>1 DEF ClickType, IInv, TypeChoicesWhileReliable,
       TypeChoicesPersist, view, StoredValues
<1>7. CASE fails' = fails + 1 /\ storage' = storage
  BY <1>2, <1>5, <1>7 DEF ClickType, IInv, TypeChoicesWhileReliable, view
<1>8. QED
  BY <1>6, <1>7 DEF ClickType

(* Every step keeps the invariant, when localStorage writes succeed. *)
LEMMA NextIInv ==
    ASSUME IInv, [Next]_vars
    PROVE  IInv'
<1>1. CASE \E m \in Msgs : AppendLog(m)
  BY <1>1, AppendStep
<1>2. CASE \E s \in Slots : Answer(s)
  BY <1>2, AnswerStep
<1>3. CASE \E s \in Slots : AnswerDelete(s) \/ FetchFails(s)
  BY <1>3, StatusSteps
<1>4. CASE \E s \in Slots : RecvTypes(s)
  BY <1>4, RecvTypesStep
<1>5. CASE \E s \in Slots : RecvUids(s)
  BY <1>5, RecvUidsStep
<1>6. CASE \E s \in Slots : RecvIids(s) \/ RecvMsgs(s) \/ RecvDelete(s)
  BY <1>6, ContinueSteps
<1>7. CASE \E s \in Slots : RecvVersion(s) \/ RecvError(s)
  BY <1>7, RecvVersionStep
<1>8. CASE \E u \in Uids : ClickUid(u)
  BY <1>8, ClickUidStep
<1>9. CASE \E x \in Types : ClickType(x)
  BY <1>9, ClickTypeStep
<1>10. CASE Tick \/ ClickAllUids \/ ClickRefresh \/ ClickClear
            \/ \E i \in {""} \cup Iids : ClickIid(i)
  BY <1>10, SpawnSteps
<1>11. CASE UNCHANGED vars
  BY <1>11, FrameStep DEF vars, Frame
<1>12. QED
  BY <1>1, <1>2, <1>3, <1>4, <1>5, <1>6, <1>7, <1>8, <1>9, <1>10, <1>11
     DEF Next, Deliver, UserStep

(***************************************************************************)
(* While no fetch and no localStorage write has failed, every type tile  *)
(* shows the state stored in localStorage, which a reload would restore: *)
(* however tile clicks interleave with the /types replies of             *)
(* maybeRefresh, the initial load and the clear button, loadTypes never  *)
(* reverts a choice. This holds for every bound on failures; the run     *)
(* type_choice_reverted shows the choice reverted once a write fails.    *)
(***************************************************************************)
THEOREM ChoicesPersist == Spec => []TypeChoicesWhileReliable
<1>1. Init => IInv
  BY InitIInv
<1>2. IInv /\ [Next]_vars => IInv'
  BY NextIInv
<1>3. IInv => TypeChoicesWhileReliable
  BY DEF IInv
<1>4. QED
  BY <1>1, <1>2, <1>3, PTL DEF Spec
=============================================================================
