---------------------------- MODULE MockUIProofs ----------------------------
(***************************************************************************)
(* Proofs about MockUI for every number of requests and of chains in      *)
(* flight.                                                                 *)
(*                                                                         *)
(* SubmitFlagTracksSend is not inductive alone: when a sendResponse chain *)
(* ends and clears autoSubmitting, no other one may still be in flight,   *)
(* and no chain may end by a rejection, which leaves the flag set.  The   *)
(* invariant therefore carries that there is at most one sendResponse     *)
(* chain, that no fetch has failed, and the shape of the task records.    *)
(***************************************************************************)
EXTENDS MockUI, TLAPS

Fields == {"chain", "step", "r", "st", "seen", "dn", "ok"}
\* tk maps every slot to a task record.
Shape(tk) == DOMAIN tk = Slots /\ \A s \in Slots : DOMAIN tk[s] = Fields
\* At most one sendResponse call is in flight.
OneSend(tk) == \A s1, s2 \in Slots : tk[s1].chain = "send" /\ tk[s2].chain = "send" => s1 = s2
\* No fetch has been rejected.
NoError(tk) == \A s \in Slots : tk[s].st # "error"

IInv ==
    /\ fails \in Nat
    /\ Shape(tasks)
    /\ OneSend(tasks)
    /\ NoError(tasks)
    /\ SubmitFlagTracksSend

(* The records a slot is set to have the task fields. *)
LEMMA RecordFields ==
    ASSUME NEW c, NEW p, NEW r
    PROVE  /\ DOMAIN Idle = Fields /\ DOMAIN Timer = Fields
           /\ DOMAIN Fetch(c, p, r) = Fields
           /\ Fetch(c, p, r).chain = c /\ Fetch(c, p, r).st = "pending"
           /\ Idle.chain = "none" /\ Idle.st = "none"
           /\ Timer.chain = "timer" /\ Timer.st = "none"
BY DEF Idle, Timer, Fetch, Fields

(* Initially only the first tick() is in flight. *)
LEMMA InitIInv == Init => IInv
BY RecordFields DEF Init, IInv, Shape, OneSend, NoError, SubmitFlagTracksSend

(* Setting a slot to a record that is no sendResponse chain and has not  *)
(* failed keeps the invariant, when that slot held no sendResponse chain *)
(* either, or when the flag is cleared with it.                          *)
LEMMA SetSlot ==
    ASSUME IInv, fails' \in Nat, NEW s \in Slots, NEW u,
           DOMAIN u = Fields, u.chain # "send", u.st # "error",
           tasks' = [tasks EXCEPT ![s] = u],
           \/ tasks[s].chain # "send" /\ autoSubmitting' = autoSubmitting
           \/ tasks[s].chain = "send" /\ autoSubmitting' = FALSE
    PROVE  IInv'
BY DEF IInv, Shape, OneSend, NoError, SubmitFlagTracksSend

(* The records a slot is reset to, other than a sendResponse fetch. *)
LEMMA ResetRecords ==
    ASSUME NEW c, c # "send", NEW p, NEW r
    PROVE  /\ DOMAIN Fetch(c, p, r) = Fields /\ Fetch(c, p, r).chain # "send"
           /\ Fetch(c, p, r).st # "error"
           /\ DOMAIN Idle = Fields /\ Idle.chain # "send" /\ Idle.st # "error"
           /\ DOMAIN Timer = Fields /\ Timer.chain # "send" /\ Timer.st # "error"
BY RecordFields

(* Starting a chain that is not sendResponse, in a free slot. *)
LEMMA SpawnOther ==
    ASSUME IInv, fails' = fails, NEW c, c # "send", NEW p, NEW r,
           Spawn(Fetch(c, p, r)), autoSubmitting' = autoSubmitting
    PROVE  IInv'
<1>1. PICK s \in Slots : ~Busy(s) /\ tasks' = [tasks EXCEPT ![s] = Fetch(c, p, r)]
  BY DEF Spawn
<1>2. tasks[s].chain # "send"
  BY <1>1 DEF Busy
<1>3. fails' \in Nat
  BY DEF IInv
<1>4. DOMAIN Fetch(c, p, r) = Fields /\ Fetch(c, p, r).chain # "send"
      /\ Fetch(c, p, r).st # "error"
  BY ResetRecords
<1>5. QED
  BY <1>1, <1>2, <1>3, <1>4, SetSlot

(* A server answer changes the status and the answer of one slot only. *)
LEMMA AnswerSteps ==
    ASSUME IInv, fails' = fails, NEW s \in Slots, AnswerPending(s) \/ AnswerRespond(s)
    PROVE  IInv'
<1>1. fails \in Nat /\ DOMAIN tasks[s] = Fields
  BY DEF IInv, Shape
<1>2. PICK u : /\ tasks' = [tasks EXCEPT ![s] = u]
               /\ DOMAIN u = Fields /\ u.chain = tasks[s].chain /\ u.st = "ok"
               /\ fails' = fails /\ autoSubmitting' = autoSubmitting
  <2>1. CASE AnswerPending(s)
    <3>1. tasks' = [tasks EXCEPT ![s] = [tasks[s] EXCEPT !.st = "ok", !.seen = n, !.dn = done]]
          /\ fails' = fails /\ autoSubmitting' = autoSubmitting
      BY <2>1 DEF AnswerPending
    <3>2. QED
      BY <1>1, <3>1 DEF Fields
  <2>2. CASE AnswerRespond(s)
    <3>1. fails' # fails + 1
      BY <1>1
    <3>2. PICK ok : tasks' = [tasks EXCEPT ![s] = [tasks[s] EXCEPT !.st = "ok", !.ok = ok]]
                    /\ fails' = fails /\ autoSubmitting' = autoSubmitting
      BY <2>2, <3>1 DEF AnswerRespond
    <3>3. QED
      BY <1>1, <3>2 DEF Fields
  <2>3. QED
    BY <2>1, <2>2
<1>3. QED
  BY <1>1, <1>2 DEF IInv, Shape, OneSend, NoError, SubmitFlagTracksSend

(* The continuations: each resets its own slot; sendResponse's clears    *)
(* the flag exactly when its chain ends.                                 *)
LEMMA RecvSteps ==
    ASSUME IInv, NEW s \in Slots,
           RecvPending(s) \/ RecvRespond(s) \/ RecvError(s) \/ FireTimer(s)
    PROVE  IInv'
<1>1. fails' \in Nat
  BY DEF IInv, RecvPending, RecvRespond, RecvError, FireTimer
<1>2. CASE RecvPending(s)
  <2>1. tasks' = [tasks EXCEPT ![s] = IF tasks[s].chain = "tick" THEN Idle ELSE Timer]
    BY <1>2 DEF RecvPending
  <2>2. autoSubmitting' = IF tasks[s].chain = "send" THEN FALSE ELSE autoSubmitting
    BY <1>2 DEF RecvPending
  <2>3. CASE tasks[s].chain = "tick"
    BY <1>1, <2>1, <2>2, <2>3, ResetRecords, SetSlot
  <2>4. CASE tasks[s].chain # "tick"
    BY <1>1, <2>1, <2>2, <2>4, ResetRecords, SetSlot
  <2>5. QED
    BY <2>3, <2>4
<1>3. CASE RecvRespond(s) /\ tasks[s].chain = "send" /\ tasks[s].ok
  <2>1. tasks' = [tasks EXCEPT ![s] = Fetch("send", "pending", tasks[s].r)]
        /\ autoSubmitting' = autoSubmitting
    BY <1>3 DEF RecvRespond
  <2>2. tasks'[s].chain = "send" /\ tasks'[s].st = "pending" /\ DOMAIN tasks'[s] = Fields
    BY <2>1, RecordFields DEF IInv, Shape
  <2>3. \A j \in Slots \ {s} : tasks'[j] = tasks[j]
    BY <2>1 DEF IInv, Shape
  <2>4. DOMAIN tasks' = Slots
    BY <2>1 DEF IInv, Shape
  <2>5. QED
    BY <1>1, <1>3, <2>1, <2>2, <2>3, <2>4 DEF IInv, Shape, OneSend, NoError, SubmitFlagTracksSend
<1>4. CASE RecvRespond(s) /\ tasks[s].chain = "send" /\ ~tasks[s].ok
  <2>1. tasks' = [tasks EXCEPT ![s] = Idle] /\ autoSubmitting' = FALSE
    BY <1>4 DEF RecvRespond
  <2>2. QED
    BY <1>1, <1>4, <2>1, ResetRecords, SetSlot
<1>5. CASE RecvRespond(s) /\ tasks[s].chain # "send"
  <2>1. tasks' = [tasks EXCEPT ![s] = Fetch("clear", "pending", tasks[s].r)]
        /\ autoSubmitting' = autoSubmitting
    BY <1>5 DEF RecvRespond
  <2>2. DOMAIN Fetch("clear", "pending", tasks[s].r) = Fields
        /\ Fetch("clear", "pending", tasks[s].r).chain # "send"
        /\ Fetch("clear", "pending", tasks[s].r).st # "error"
    BY ResetRecords
  <2>3. QED
    BY <1>1, <1>5, <2>1, <2>2, SetSlot
<1>6. CASE RecvError(s)
  BY <1>6 DEF RecvError, IInv, NoError
<1>7. CASE FireTimer(s)
  <2>1. tasks' = [tasks EXCEPT ![s] = IF selected = 0 THEN Fetch("tick", "pending", 0) ELSE Idle]
        /\ autoSubmitting' = autoSubmitting /\ tasks[s].chain = "timer"
    BY <1>7 DEF FireTimer
  <2>2. CASE selected = 0
    BY <1>1, <2>1, <2>2, ResetRecords, SetSlot
  <2>3. CASE selected # 0
    BY <1>1, <2>1, <2>3, ResetRecords, SetSlot
  <2>4. QED
    BY <2>2, <2>3
<1>8. QED
  BY <1>2, <1>3, <1>4, <1>5, <1>6, <1>7

(* Generate starts a sendResponse chain only when none is in flight. *)
LEMMA SendStep ==
    ASSUME IInv, Send
    PROVE  IInv'
<1>1. PICK s \in Slots : ~Busy(s) /\ tasks' = [tasks EXCEPT ![s] = Fetch("send", "respond", selected)]
  BY DEF Send, Spawn
<1>2. \A j \in Slots : tasks[j].chain # "send"
  BY DEF Send, IInv, SubmitFlagTracksSend
<1>3. tasks'[s].chain = "send" /\ tasks'[s].st = "pending" /\ DOMAIN tasks'[s] = Fields
  BY <1>1, RecordFields DEF IInv, Shape
<1>4. \A j \in Slots \ {s} : tasks'[j] = tasks[j]
  BY <1>1 DEF IInv, Shape
<1>5. DOMAIN tasks' = Slots /\ autoSubmitting' /\ fails' = fails
  BY <1>1 DEF Send, IInv, Shape
<1>6. QED
  BY <1>2, <1>3, <1>4, <1>5 DEF IInv, Shape, OneSend, NoError, SubmitFlagTracksSend

(* Every step in which no fetch fails keeps the invariant. *)
LEMMA NextIInv ==
    ASSUME IInv, [Next]_vars, fails' = fails
    PROVE  IInv'
<1>1. CASE Arrive \/ \E r \in Reqs : ClickItem(r)
  BY <1>1 DEF Arrive, ClickItem, IInv, Shape, OneSend, NoError, SubmitFlagTracksSend
<1>2. CASE \E s \in Slots : AnswerPending(s) \/ AnswerRespond(s)
  BY <1>2, AnswerSteps
<1>3. CASE \E s \in Slots : FetchFails(s)
  BY <1>3 DEF FetchFails, IInv
<1>4. CASE \E s \in Slots : RecvPending(s) \/ RecvRespond(s) \/ RecvError(s) \/ FireTimer(s)
  BY <1>4, RecvSteps
<1>5. CASE Tick
  <2>1. Spawn(Fetch("tick", "pending", 0)) /\ fails' = fails /\ autoSubmitting' = autoSubmitting
    BY <1>5 DEF Tick
  <2>2. QED
    BY <2>1, SpawnOther
<1>6. CASE \E r \in Reqs : ClickClose(r)
  <2>1. PICK r \in Reqs : Spawn(Fetch("clear", "respond", r))
                          /\ fails' = fails /\ autoSubmitting' = autoSubmitting
    BY <1>6 DEF ClickClose
  <2>2. QED
    BY <2>1, SpawnOther
<1>7. CASE Send
  BY <1>7, SendStep
<1>8. CASE UNCHANGED vars
  BY <1>8 DEF vars, IInv, Shape, OneSend, NoError, SubmitFlagTracksSend
<1>9. QED
  BY <1>1, <1>2, <1>3, <1>4, <1>5, <1>6, <1>7, <1>8 DEF Next, Deliver, UserStep

-----------------------------------------------------------------------------
(* Every step keeps each slot a task record, failing or not. *)

(* Setting a slot to a task record keeps the shape. *)
LEMMA SlotShape ==
    ASSUME Shape(tasks), NEW s \in Slots, NEW u, DOMAIN u = Fields,
           tasks' = [tasks EXCEPT ![s] = u]
    PROVE  Shape(tasks')
BY DEF Shape

(* Starting a chain in a free slot keeps the shape. *)
LEMMA SpawnShape ==
    ASSUME Shape(tasks), NEW c, NEW p, NEW r, Spawn(Fetch(c, p, r))
    PROVE  Shape(tasks')
<1>1. PICK s \in Slots : tasks' = [tasks EXCEPT ![s] = Fetch(c, p, r)]
  BY DEF Spawn
<1>2. DOMAIN Fetch(c, p, r) = Fields
  BY RecordFields
<1>. QED
  BY <1>1, <1>2, SlotShape

LEMMA ShapeStep ==
    ASSUME Shape(tasks), [Next]_vars
    PROVE  Shape(tasks')
<1>1. CASE Arrive \/ \E r \in Reqs : ClickItem(r)
  BY <1>1 DEF Arrive, ClickItem, Shape
<1>2. ASSUME NEW s \in Slots, AnswerPending(s) \/ AnswerRespond(s) \/ FetchFails(s)
      PROVE  Shape(tasks')
  <2>1. DOMAIN tasks[s] = Fields
    BY DEF Shape
  <2>2. CASE AnswerPending(s)
    <3>. DEFINE u == [tasks[s] EXCEPT !.st = "ok", !.seen = n, !.dn = done]
    <3>1. tasks' = [tasks EXCEPT ![s] = u]
      BY <2>2 DEF AnswerPending
    <3>. QED
      BY <3>1, <2>1, SlotShape DEF Fields
  <2>3. CASE AnswerRespond(s)
    <3>1. CASE \E ok \in BOOLEAN : tasks' = [tasks EXCEPT ![s] = [tasks[s] EXCEPT !.st = "ok", !.ok = ok]]
      <4>1. PICK ok \in BOOLEAN : tasks' = [tasks EXCEPT ![s] = [tasks[s] EXCEPT !.st = "ok", !.ok = ok]]
        BY <3>1
      <4>. QED
        BY <4>1, <2>1, SlotShape DEF Fields
    <3>2. CASE tasks' = [tasks EXCEPT ![s] = [tasks[s] EXCEPT !.st = "error"]]
      BY <3>2, <2>1, SlotShape DEF Fields
    <3>. QED
      BY <2>3, <3>1, <3>2 DEF AnswerRespond
  <2>4. CASE FetchFails(s)
    <3>1. tasks' = [tasks EXCEPT ![s] = [tasks[s] EXCEPT !.st = "error"]]
      BY <2>4 DEF FetchFails
    <3>. QED
      BY <3>1, <2>1, SlotShape DEF Fields
  <2>. QED
    BY <1>2, <2>2, <2>3, <2>4
<1>3. ASSUME NEW s \in Slots, RecvPending(s) \/ RecvRespond(s) \/ RecvError(s) \/ FireTimer(s)
      PROVE  Shape(tasks')
  <2>1. PICK u : tasks' = [tasks EXCEPT ![s] = u] /\ DOMAIN u = Fields
    <3>1. CASE RecvPending(s)
      BY <3>1, RecordFields DEF RecvPending
    <3>2. CASE RecvRespond(s)
      BY <3>2, RecordFields DEF RecvRespond
    <3>3. CASE RecvError(s)
      BY <3>3, RecordFields DEF RecvError
    <3>4. CASE FireTimer(s) /\ selected = 0
      <4>1. tasks' = [tasks EXCEPT ![s] = Fetch("tick", "pending", 0)]
        BY <3>4 DEF FireTimer
      <4>2. DOMAIN Fetch("tick", "pending", 0) = Fields
        BY RecordFields
      <4>. QED
        BY <4>1, <4>2
    <3>5. CASE FireTimer(s) /\ selected # 0
      BY <3>5, RecordFields DEF FireTimer
    <3>. QED
      BY <1>3, <3>1, <3>2, <3>3, <3>4, <3>5
  <2>. QED
    BY <2>1, SlotShape
<1>4. CASE Tick
  BY <1>4, SpawnShape DEF Tick
<1>5. CASE Send
  BY <1>5, SpawnShape DEF Send
<1>6. CASE \E r \in Reqs : ClickClose(r)
  BY <1>6, SpawnShape DEF ClickClose
<1>7. CASE UNCHANGED vars
  BY <1>7 DEF vars, Shape
<1>. QED
  BY <1>1, <1>2, <1>3, <1>4, <1>5, <1>6, <1>7 DEF Next, Deliver, UserStep

(* A step fails at most one fetch, and only within the bound. *)
LEMMA FailsStep ==
    ASSUME fails \in 0 .. MaxFails, [Next]_vars
    PROVE  \/ fails' = fails
           \/ fails < MaxFails /\ fails' = fails + 1
BY DEF Next, Deliver, UserStep, vars, Arrive, AnswerPending, AnswerRespond,
       FetchFails, RecvPending, RecvRespond, RecvError, FireTimer, Tick,
       ClickItem, Send, ClickClose

(* The invariant of the runs with failures: the slots keep their shape,    *)
(* and as long as no fetch has failed, IInv holds.                         *)
RInv ==
    /\ fails \in 0 .. MaxFails
    /\ Shape(tasks)
    /\ fails = 0 => IInv

LEMMA NextRInv ==
    ASSUME RInv, [Next]_vars
    PROVE  RInv'
<1>1. fails' \in 0 .. MaxFails
  BY FailsStep, MaxFailsAssumption DEF RInv
<1>2. Shape(tasks')
  BY ShapeStep DEF RInv
<1>3. fails' = 0 => IInv'
  <2> SUFFICES ASSUME fails' = 0 PROVE IInv'
    OBVIOUS
  <2>1. fails = 0 /\ fails' = fails
    BY FailsStep DEF RInv
  <2>. QED
    BY <2>1, NextIInv DEF RInv
<1>. QED
  BY <1>1, <1>2, <1>3 DEF RInv

LEMMA InitRInv == Init => RInv
BY InitIInv, MaxFailsAssumption DEF Init, RInv, IInv

(***************************************************************************)
(* As long as no fetch has failed, autoSubmitting is set exactly while a  *)
(* sendResponse call is in flight, for any number of requests, chains in  *)
(* flight and failures allowed, and whatever ticks, clears and answers    *)
(* interleave: Generate is refused only while an answer is being sent.    *)
(* The run submit_stuck shows the flag stuck once a fetch of sendResponse *)
(* rejects.                                                               *)
(***************************************************************************)
THEOREM SubmitFlagReliable == Spec => []SubmitFlagWhileReliable
<1>1. RInv => SubmitFlagWhileReliable
  BY DEF RInv, IInv, SubmitFlagWhileReliable
<1>. QED
  BY <1>1, InitRInv, NextRInv, PTL DEF Spec

(* In particular, when no fetch can fail, autoSubmitting is exact in every *)
(* reachable state.                                                        *)
THEOREM SubmitFlagExact == MaxFails = 0 => (Spec => []SubmitFlagTracksSend)
<1> SUFFICES ASSUME MaxFails = 0 PROVE Spec => []SubmitFlagTracksSend
  OBVIOUS
<1>1. RInv => SubmitFlagTracksSend
  BY DEF RInv, IInv
<1>. QED
  BY <1>1, InitRInv, NextRInv, PTL DEF Spec

-----------------------------------------------------------------------------
(***************************************************************************)
(* However fetches fail, at most one sendResponse call is in flight.  The *)
(* flag autoSubmitting is no longer exact then (a rejected fetch leaves  *)
(* it set), but it is set whenever a sendResponse chain is in flight, and *)
(* that one-way implication, with OneSend itself, is inductive: Generate  *)
(* only starts a chain while the flag is clear, and the flag is cleared   *)
(* only as the one chain in flight ends.                                  *)
(***************************************************************************)

\* While a sendResponse chain is in flight, the flag is set.
SendFlag(tk, a) == (\E s \in Slots : tk[s].chain = "send") => a

SInv ==
    /\ Shape(tasks)
    /\ OneSend(tasks)
    /\ SendFlag(tasks, autoSubmitting)

(* Setting one slot keeps OneSend and SendFlag when the slot keeps its     *)
(* chain, or starts no sendResponse chain, or ends the one in flight as   *)
(* the flag is cleared, or starts one while the flag is clear and sets it. *)
LEMMA SetSlotS ==
    ASSUME DOMAIN tasks = Slots, OneSend(tasks), SendFlag(tasks, autoSubmitting),
           NEW s \in Slots, NEW u, tasks' = [tasks EXCEPT ![s] = u],
           \/ u.chain = tasks[s].chain /\ autoSubmitting' = autoSubmitting
           \/ u.chain # "send" /\ autoSubmitting' = autoSubmitting
           \/ u.chain # "send" /\ tasks[s].chain = "send" /\ autoSubmitting' = FALSE
           \/ u.chain = "send" /\ ~autoSubmitting /\ autoSubmitting' = TRUE
    PROVE  OneSend(tasks') /\ SendFlag(tasks', autoSubmitting')
<1>1. \A j \in Slots : tasks'[j] = IF j = s THEN u ELSE tasks[j]
  OBVIOUS
<1>2. DOMAIN tasks' = Slots
  OBVIOUS
<1>. QED
  BY <1>1, <1>2 DEF OneSend, SendFlag

(* A server answer or a failed fetch changes the status of a slot, never *)
(* its chain, and leaves the flag alone.                                  *)
LEMMA AnswerChain ==
    ASSUME Shape(tasks), NEW s \in Slots,
           AnswerPending(s) \/ AnswerRespond(s) \/ FetchFails(s)
    PROVE  \E u : /\ tasks' = [tasks EXCEPT ![s] = u]
                  /\ u.chain = tasks[s].chain /\ autoSubmitting' = autoSubmitting
<1>1. DOMAIN tasks[s] = Fields
  BY DEF Shape
<1>2. CASE AnswerPending(s)
  <2>1. tasks' = [tasks EXCEPT ![s] = [tasks[s] EXCEPT !.st = "ok", !.seen = n, !.dn = done]]
        /\ autoSubmitting' = autoSubmitting
    BY <1>2 DEF AnswerPending
  <2>. QED
    BY <1>1, <2>1 DEF Fields
<1>3. CASE AnswerRespond(s)
  <2>1. CASE \E ok \in BOOLEAN : tasks' = [tasks EXCEPT ![s] = [tasks[s] EXCEPT !.st = "ok", !.ok = ok]]
    <3>1. PICK ok \in BOOLEAN : tasks' = [tasks EXCEPT ![s] = [tasks[s] EXCEPT !.st = "ok", !.ok = ok]]
      BY <2>1
    <3>2. autoSubmitting' = autoSubmitting
      BY <1>3 DEF AnswerRespond
    <3>. QED
      BY <1>1, <3>1, <3>2 DEF Fields
  <2>2. CASE tasks' = [tasks EXCEPT ![s] = [tasks[s] EXCEPT !.st = "error"]]
    <3>1. autoSubmitting' = autoSubmitting
      BY <1>3 DEF AnswerRespond
    <3>. QED
      BY <1>1, <2>2, <3>1 DEF Fields
  <2>. QED
    BY <1>3, <2>1, <2>2 DEF AnswerRespond
<1>4. CASE FetchFails(s)
  <2>1. tasks' = [tasks EXCEPT ![s] = [tasks[s] EXCEPT !.st = "error"]]
        /\ autoSubmitting' = autoSubmitting
    BY <1>4 DEF FetchFails
  <2>. QED
    BY <1>1, <2>1 DEF Fields
<1>. QED
  BY <1>2, <1>3, <1>4

(* Starting a chain other than sendResponse, flag untouched. *)
LEMMA SpawnOtherS ==
    ASSUME DOMAIN tasks = Slots, OneSend(tasks), SendFlag(tasks, autoSubmitting),
           NEW c, c # "send", NEW p, NEW r,
           Spawn(Fetch(c, p, r)), autoSubmitting' = autoSubmitting
    PROVE  OneSend(tasks') /\ SendFlag(tasks', autoSubmitting')
<1>1. PICK s \in Slots : tasks' = [tasks EXCEPT ![s] = Fetch(c, p, r)]
  BY DEF Spawn
<1>2. Fetch(c, p, r).chain # "send"
  BY ResetRecords
<1>. QED
  BY <1>1, <1>2, SetSlotS

(* The continuations reset their own slot; only sendResponse's clear the  *)
(* flag, as its chain ends.                                               *)
LEMMA RecvStepsS ==
    ASSUME DOMAIN tasks = Slots, OneSend(tasks), SendFlag(tasks, autoSubmitting),
           NEW s \in Slots,
           RecvPending(s) \/ RecvRespond(s) \/ RecvError(s) \/ FireTimer(s)
    PROVE  OneSend(tasks') /\ SendFlag(tasks', autoSubmitting')
<1>1. Idle.chain # "send" /\ Timer.chain # "send"
  BY RecordFields
<1>2. CASE RecvPending(s)
  <2>1. tasks' = [tasks EXCEPT ![s] = IF tasks[s].chain = "tick" THEN Idle ELSE Timer]
    BY <1>2 DEF RecvPending
  <2>2. autoSubmitting' = IF tasks[s].chain = "send" THEN FALSE ELSE autoSubmitting
    BY <1>2 DEF RecvPending
  <2>3. (IF tasks[s].chain = "tick" THEN Idle ELSE Timer).chain # "send"
    BY <1>1
  <2>. QED
    BY <2>1, <2>2, <2>3, SetSlotS
<1>3. CASE RecvRespond(s) /\ tasks[s].chain = "send" /\ tasks[s].ok
  <2>1. tasks' = [tasks EXCEPT ![s] = Fetch("send", "pending", tasks[s].r)]
        /\ autoSubmitting' = autoSubmitting
    BY <1>3 DEF RecvRespond
  <2>2. Fetch("send", "pending", tasks[s].r).chain = tasks[s].chain
    BY <1>3, RecordFields
  <2>. QED
    BY <2>1, <2>2, SetSlotS
<1>4. CASE RecvRespond(s) /\ tasks[s].chain = "send" /\ ~tasks[s].ok
  <2>1. tasks' = [tasks EXCEPT ![s] = Idle] /\ autoSubmitting' = FALSE
    BY <1>4 DEF RecvRespond
  <2>. QED
    BY <1>1, <1>4, <2>1, SetSlotS
<1>5. CASE RecvRespond(s) /\ tasks[s].chain # "send"
  <2>1. tasks' = [tasks EXCEPT ![s] = Fetch("clear", "pending", tasks[s].r)]
        /\ autoSubmitting' = autoSubmitting
    BY <1>5 DEF RecvRespond
  <2>2. Fetch("clear", "pending", tasks[s].r).chain # "send"
    BY RecordFields
  <2>. QED
    BY <2>1, <2>2, SetSlotS
<1>6. CASE RecvError(s)
  <2>1. tasks' = [tasks EXCEPT ![s] = Idle] /\ autoSubmitting' = autoSubmitting
    BY <1>6 DEF RecvError
  <2>. QED
    BY <1>1, <2>1, SetSlotS
<1>7. CASE FireTimer(s)
  <2>1. tasks' = [tasks EXCEPT ![s] = IF selected = 0 THEN Fetch("tick", "pending", 0) ELSE Idle]
        /\ autoSubmitting' = autoSubmitting
    BY <1>7 DEF FireTimer
  <2>2. Fetch("tick", "pending", 0).chain # "send"
    BY RecordFields
  <2>3. (IF selected = 0 THEN Fetch("tick", "pending", 0) ELSE Idle).chain # "send"
    BY <1>1, <2>2
  <2>. QED
    BY <2>1, <2>3, SetSlotS
<1>. QED
  BY <1>2, <1>3, <1>4, <1>5, <1>6, <1>7

(* Generate, Ctrl+Enter or a stop token starts a sendResponse chain only *)
(* while the flag is clear, and sets it.                                  *)
LEMMA SendStepS ==
    ASSUME DOMAIN tasks = Slots, OneSend(tasks), SendFlag(tasks, autoSubmitting), Send
    PROVE  OneSend(tasks') /\ SendFlag(tasks', autoSubmitting')
<1>1. PICK s \in Slots : tasks' = [tasks EXCEPT ![s] = Fetch("send", "respond", selected)]
  BY DEF Send, Spawn
<1>2. ~autoSubmitting /\ autoSubmitting' = TRUE
  BY DEF Send
<1>3. Fetch("send", "respond", selected).chain = "send"
  BY RecordFields
<1>. QED
  BY <1>1, <1>2, <1>3, SetSlotS

(* Every step keeps SInv, whatever fails. *)
LEMMA NextSInv ==
    ASSUME SInv, [Next]_vars
    PROVE  SInv'
<1>. USE DEF SInv
<1>1. Shape(tasks')
  BY ShapeStep
<1>2. DOMAIN tasks = Slots
  BY DEF Shape
<1>3. OneSend(tasks') /\ SendFlag(tasks', autoSubmitting')
  <2>1. CASE Arrive \/ \E r \in Reqs : ClickItem(r)
    BY <2>1 DEF Arrive, ClickItem, OneSend, SendFlag
  <2>2. CASE \E s \in Slots : AnswerPending(s) \/ AnswerRespond(s) \/ FetchFails(s)
    <3>1. PICK s \in Slots : AnswerPending(s) \/ AnswerRespond(s) \/ FetchFails(s)
      BY <2>2
    <3>2. PICK u : /\ tasks' = [tasks EXCEPT ![s] = u]
                   /\ u.chain = tasks[s].chain /\ autoSubmitting' = autoSubmitting
      BY <3>1, AnswerChain
    <3>. QED
      BY <1>2, <3>2, SetSlotS
  <2>3. CASE \E s \in Slots : RecvPending(s) \/ RecvRespond(s) \/ RecvError(s) \/ FireTimer(s)
    BY <1>2, <2>3, RecvStepsS
  <2>4. CASE Tick
    <3>1. Spawn(Fetch("tick", "pending", 0)) /\ autoSubmitting' = autoSubmitting
      BY <2>4 DEF Tick
    <3>. QED
      BY <1>2, <3>1, SpawnOtherS
  <2>5. CASE \E r \in Reqs : ClickClose(r)
    <3>1. PICK r \in Reqs : Spawn(Fetch("clear", "respond", r)) /\ autoSubmitting' = autoSubmitting
      BY <2>5 DEF ClickClose
    <3>. QED
      BY <1>2, <3>1, SpawnOtherS
  <2>6. CASE Send
    BY <1>2, <2>6, SendStepS
  <2>7. CASE UNCHANGED vars
    BY <2>7 DEF vars, OneSend, SendFlag
  <2>. QED
    BY <2>1, <2>2, <2>3, <2>4, <2>5, <2>6, <2>7 DEF Next, Deliver, UserStep
<1>. QED
  BY <1>1, <1>3

(* Initially only the first tick() is in flight, and the flag is clear. *)
LEMMA InitSInv == Init => SInv
BY RecordFields DEF Init, SInv, Shape, OneSend, SendFlag

(***************************************************************************)
(* However many fetches fail, and whatever the numbers of requests and of *)
(* chains in flight, at most one sendResponse call is in flight: the      *)
(* autoSubmitting guard of sendResponse, shared by Generate, Ctrl+Enter   *)
(* and maybeAutoSubmitOnStop, keeps a second answer from being POSTed     *)
(* while one is pending, also after a rejected fetch left the flag set.   *)
(***************************************************************************)
THEOREM SingleSendAlways == Spec => []SingleSend
<1>1. SInv => SingleSend
  BY DEF SInv, OneSend, SingleSend
<1>. QED
  BY <1>1, InitSInv, NextSInv, PTL DEF Spec
=============================================================================
