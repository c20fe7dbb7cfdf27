--------------------------- MODULE MockUITypeProofs ---------------------------
(***************************************************************************)
(* Type correctness of the mock-responder page (MockUI): every variable   *)
(* keeps its type in every reachable state.  The hard part is tick()'s    *)
(* reselection, which selects Newest(Open(l)), a CHOOSE over the open     *)
(* requests of the list just fetched; that it is a request id at all      *)
(* rests on the list holding only ids that have arrived, which the type   *)
(* invariant alone does not say.                                          *)
(***************************************************************************)
EXTENDS MockUI, WellFoundedInduction, TLAPS

-----------------------------------------------------------------------------
(* The greatest of a nonempty set of ids exists, so Newest picks it.  The  *)
(* provers cannot do induction over the set, so the maximum comes from    *)
(* the well-foundedness of < on Nat, read backwards on 1..N.               *)

\* "Greater than" on 1..N.
Above(N) == {ss \in (1 .. N) \X (1 .. N) : ss[1] > ss[2]}

\* No sequence of ids in 1..N rises forever.
LEMMA AboveWellFounded ==
    ASSUME NEW N \in Nat
    PROVE  IsWellFoundedOn(Above(N), 1 .. N)
<1> SUFFICES ASSUME NEW f \in [Nat -> 1 .. N],
                    \A k \in Nat : <<f[k+1], f[k]>> \in Above(N)
             PROVE  FALSE
    BY DEF IsWellFoundedOn
<1> DEFINE g == [k \in Nat |-> N - f[k]]
<1>1. g \in [Nat -> Nat]
    OBVIOUS
<1>2. \A k \in Nat : <<g[k+1], g[k]>> \in OpToRel(<, Nat)
    <2> TAKE k \in Nat
    <2>1. f[k+1] > f[k] /\ f[k+1] \in 1 .. N /\ f[k] \in 1 .. N
        BY DEF Above
    <2> QED BY <2>1 DEF OpToRel
<1> QED BY <1>1, <1>2, NatLessThanWellFounded DEF IsWellFoundedOn

\* Newest(S) is the greatest member of a nonempty set S of ids.
LEMMA NewestMax ==
    ASSUME NEW N \in Nat, NEW S \in SUBSET (1 .. N), S # {}
    PROVE  Newest(S) \in S /\ \A y \in S : y <= Newest(S)
<1>1. \E x \in S : \A y \in S : ~(<<y, x>> \in Above(N))
    BY AboveWellFounded, WFMin
<1>2. PICK x \in S : \A y \in S : ~(<<y, x>> \in Above(N))
    BY <1>1
<1>3. \A y \in S : y <= x
    <2> TAKE y \in S
    <2>1. y \in 1 .. N /\ x \in 1 .. N
        OBVIOUS
    <2>2. y > x => <<y, x>> \in Above(N)
        BY <2>1 DEF Above
    <2> QED BY <1>2, <2>1, <2>2
<1> QED BY <1>2, <1>3 DEF Newest

-----------------------------------------------------------------------------
(* The inductive invariant.  TypeOK says done \subseteq 1..n; what keeps  *)
(* it is that every id the page holds has arrived: the selection, the      *)
(* list it drew, and the id and the list of every task, and that a POST    *)
(* always carries a real id (sendResponse returns without a selection,     *)
(* clearPending is called from a listed row).  Checked by TLC on the       *)
(* MockUI.cfg instance before it was proved.                              *)

TaskRec == [chain : {"none", "tick", "send", "clear", "timer"},
            step : {"none", "pending", "respond", "timer"},
            r : {0} \cup Reqs, st : {"none", "pending", "ok", "error"},
            seen : 0 .. MaxReqs, dn : SUBSET Reqs, ok : BOOLEAN]

\* A task holds only ids that have arrived, and a POST a real one.
Arrived(tk, m) == tk.seen <= m /\ tk.r <= m /\ (tk.step = "respond" => tk.r # 0)

MInv ==
    /\ TypeOK
    /\ selected <= n
    /\ listed.seen <= n
    /\ \A s \in Slots : Arrived(tasks[s], n)

\* The fields of the task records the page starts.
LEMMA RecordsFields ==
    ASSUME NEW c, NEW step, NEW r
    PROVE  /\ Idle.step = "none" /\ Idle.r = 0 /\ Idle.seen = 0
           /\ Timer.step = "timer" /\ Timer.r = 0 /\ Timer.seen = 0
           /\ Fetch(c, step, r).step = step /\ Fetch(c, step, r).r = r
           /\ Fetch(c, step, r).seen = 0
BY DEF Idle, Timer, Fetch

\* The task records the page starts have the task type.
LEMMA RecordsTyped ==
    ASSUME NEW c \in {"tick", "send", "clear"}, NEW step \in {"pending", "respond"},
           NEW r \in {0} \cup Reqs
    PROVE  Idle \in TaskRec /\ Timer \in TaskRec /\ Fetch(c, step, r) \in TaskRec
<1>1. 0 \in 0 .. MaxReqs /\ 0 \in {0} \cup Reqs
    BY MaxReqsAssumption
<1> QED BY <1>1, Zenon DEF Idle, Timer, Fetch, TaskRec

\* The server's answers to a POST: a reply and a rejection.  They keep
\* the task's id and fetch.
LEMMA ReplyRec ==
    ASSUME NEW t \in TaskRec, NEW b \in BOOLEAN
    PROVE  /\ [t EXCEPT !.st = "ok", !.ok = b] \in TaskRec
           /\ [t EXCEPT !.st = "ok", !.ok = b].seen = t.seen
           /\ [t EXCEPT !.st = "ok", !.ok = b].r = t.r
           /\ [t EXCEPT !.st = "ok", !.ok = b].step = t.step
<1>1. [t EXCEPT !.st = "ok", !.ok = b] \in TaskRec
    BY Zenon DEF TaskRec
<1> QED BY <1>1 DEF TaskRec

LEMMA ErrorRec ==
    ASSUME NEW t \in TaskRec
    PROVE  /\ [t EXCEPT !.st = "error"] \in TaskRec
           /\ [t EXCEPT !.st = "error"].seen = t.seen
           /\ [t EXCEPT !.st = "error"].r = t.r
           /\ [t EXCEPT !.st = "error"].step = t.step
<1>1. [t EXCEPT !.st = "error"] \in TaskRec
    BY Zenon DEF TaskRec
<1> QED BY <1>1 DEF TaskRec

ListRec == [seen : 0 .. MaxReqs, dn : SUBSET Reqs]

\* TypeOK with the record types named.
LEMMA TypeOKParts ==
    TypeOK <=> /\ n \in 0 .. MaxReqs /\ done \subseteq 1 .. n
               /\ selected \in {0} \cup Reqs
               /\ autoSubmitting \in BOOLEAN /\ detailsShown \in BOOLEAN
               /\ listed \in ListRec
               /\ tasks \in [Slots -> TaskRec]
               /\ fails \in 0 .. MaxFails
BY DEF TypeOK, ListRec, TaskRec

\* The fields of a task and of a list.
LEMMA TaskRecFields ==
    ASSUME NEW t \in TaskRec
    PROVE  /\ t.chain \in {"none", "tick", "send", "clear", "timer"}
           /\ t.step \in {"none", "pending", "respond", "timer"}
           /\ t.r \in {0} \cup Reqs /\ t.seen \in 0 .. MaxReqs
           /\ t.dn \in SUBSET Reqs /\ t.ok \in BOOLEAN
BY DEF TaskRec

LEMMA ListRecFields ==
    ASSUME NEW m \in 0 .. MaxReqs, NEW d \in SUBSET Reqs
    PROVE  Snapshot(m, d) \in ListRec /\ Snapshot(m, d).seen = m /\ Snapshot(m, d).dn = d
BY Zenon DEF Snapshot, ListRec

\* The page as loaded holds no id.
LEMMA InitMInv == Init => MInv
<1> SUFFICES ASSUME Init PROVE MInv
    OBVIOUS
<1>1. /\ Fetch("tick", "pending", 0) \in TaskRec /\ Arrived(Fetch("tick", "pending", 0), n)
      /\ Idle \in TaskRec /\ Arrived(Idle, n)
    BY RecordsTyped, RecordsFields, MaxReqsAssumption DEF Init, Arrived
<1>2. tasks \in [Slots -> TaskRec] /\ \A s \in Slots : Arrived(tasks[s], n)
    BY <1>1 DEF Init
<1>3. listed \in ListRec /\ listed.seen = 0
    BY ListRecFields, MaxReqsAssumption DEF Init
<1>4. n \in 0 .. MaxReqs /\ done = {} /\ selected = 0 /\ autoSubmitting = FALSE
      /\ detailsShown = FALSE /\ fails = 0
    BY DEF Init
<1>5. TypeOK
    <2>1. n \in 0 .. MaxReqs /\ done \subseteq 1 .. n /\ selected \in {0} \cup Reqs
        BY <1>4
    <2>2. autoSubmitting \in BOOLEAN /\ detailsShown \in BOOLEAN
        BY <1>4
    <2>3. fails \in 0 .. MaxFails
        BY <1>4, MaxFailsAssumption
    <2> QED BY <1>2, <1>3, <2>1, <2>2, <2>3, TypeOKParts
<1> QED BY <1>2, <1>3, <1>4, <1>5 DEF MInv

-----------------------------------------------------------------------------
(* Steps.  Each action gets a lemma with its primed facts; Assemble puts   *)
(* them back together.                                                     *)

LEMMA Unpack ==
    ASSUME MInv
    PROVE  /\ n \in 0 .. MaxReqs /\ done \subseteq 1 .. n
           /\ selected \in {0} \cup Reqs
           /\ autoSubmitting \in BOOLEAN /\ detailsShown \in BOOLEAN
           /\ listed \in ListRec /\ tasks \in [Slots -> TaskRec]
           /\ fails \in 0 .. MaxFails
           /\ selected <= n /\ listed.seen <= n
           /\ \A s \in Slots : Arrived(tasks[s], n)
BY TypeOKParts DEF MInv

LEMMA Assemble ==
    ASSUME n' \in 0 .. MaxReqs, done' \subseteq 1 .. n',
           selected' \in {0} \cup Reqs,
           autoSubmitting' \in BOOLEAN, detailsShown' \in BOOLEAN,
           listed' \in ListRec, tasks' \in [Slots -> TaskRec],
           fails' \in 0 .. MaxFails,
           selected' <= n', listed'.seen <= n',
           \A s \in Slots : Arrived(tasks'[s], n')
    PROVE  MInv'
BY Zenon DEF MInv, TypeOK, TaskRec, ListRec

\* A task that held only arrived ids still does after more arrive.
LEMMA ArrivedMono ==
    ASSUME NEW t \in TaskRec, NEW m \in Nat, NEW k \in Nat, m <= k, Arrived(t, m)
    PROVE  Arrived(t, k)
<1>1. t.seen \in Nat /\ t.r \in Nat
    BY TaskRecFields, MaxReqsAssumption DEF Reqs
<1> QED BY <1>1 DEF Arrived

\* Setting one slot to a task that holds only arrived ids.
LEMMA SetTask ==
    ASSUME MInv, n' \in Nat, n <= n', NEW s \in Slots, NEW u \in TaskRec, Arrived(u, n'),
           tasks' = [tasks EXCEPT ![s] = u]
    PROVE  tasks' \in [Slots -> TaskRec] /\ \A x \in Slots : Arrived(tasks'[x], n')
<1>1. tasks \in [Slots -> TaskRec] /\ \A x \in Slots : Arrived(tasks[x], n) /\ n \in Nat
    BY Unpack
<1>2. tasks' \in [Slots -> TaskRec]
    BY <1>1
<1>3. ASSUME NEW x \in Slots PROVE Arrived(tasks'[x], n')
    <2>1. CASE x = s
        BY <1>1, <2>1
    <2>2. CASE x # s
        <3>1. tasks'[x] = tasks[x] /\ tasks[x] \in TaskRec
            BY <1>1, <2>2
        <3> QED BY <1>1, <3>1, ArrivedMono
    <2> QED BY <2>1, <2>2
<1> QED BY <1>2, <1>3

\* The same, for a step that leaves n alone.
LEMMA SetTaskSame ==
    ASSUME MInv, n' = n, NEW s \in Slots, NEW u \in TaskRec, Arrived(u, n),
           tasks' = [tasks EXCEPT ![s] = u]
    PROVE  tasks' \in [Slots -> TaskRec] /\ \A x \in Slots : Arrived(tasks'[x], n')
<1>1. n' \in Nat /\ n <= n' /\ Arrived(u, n')
    BY Unpack
<1> QED BY <1>1, SetTask

\* Arrive: one more request; every id held stays below n.
LEMMA ArriveOK ==
    ASSUME MInv, Arrive PROVE MInv'
<1>1. n + 1 \in 0 .. MaxReqs /\ n' = n + 1 /\ n \in Nat
    BY Unpack, MaxReqsAssumption DEF Arrive
<1>2. \A x \in Slots : Arrived(tasks'[x], n')
    BY <1>1, Unpack, ArrivedMono DEF Arrive
<1>3. done' \subseteq 1 .. n' /\ selected' <= n' /\ listed'.seen <= n'
    <2>1. listed.seen \in Nat
        BY Unpack, MaxReqsAssumption DEF ListRec
    <2> QED BY <1>1, <2>1, Unpack, MaxReqsAssumption DEF Arrive, Reqs
<1> QED BY <1>1, <1>2, <1>3, Unpack, Assemble DEF Arrive

\* A slot's own task holds only arrived ids, and its fields are typed.
LEMMA SlotTask ==
    ASSUME MInv, NEW s \in Slots
    PROVE  /\ tasks[s] \in TaskRec /\ Arrived(tasks[s], n)
           /\ tasks[s].r \in {0} \cup Reqs /\ tasks[s].seen \in 0 .. MaxReqs
           /\ n \in 0 .. MaxReqs /\ done \in SUBSET Reqs
<1>1. tasks[s] \in TaskRec /\ Arrived(tasks[s], n) /\ n \in 0 .. MaxReqs
      /\ done \subseteq 1 .. n
    BY Unpack
<1>2. done \in SUBSET Reqs
    BY <1>1, MaxReqsAssumption DEF Reqs
<1> QED BY <1>1, <1>2, TaskRecFields

\* The server answers the list: the task records the current n and done.
LEMMA AnswerPendingOK ==
    ASSUME MInv, NEW s \in Slots, AnswerPending(s) PROVE MInv'
<1> DEFINE t == tasks[s]
           u == [t EXCEPT !.st = "ok", !.seen = n, !.dn = done]
<1>1. t \in TaskRec /\ Arrived(t, n) /\ n \in 0 .. MaxReqs /\ done \in SUBSET Reqs
    BY SlotTask
<1>2. u \in TaskRec /\ u.seen = n /\ u.r = t.r /\ u.step = t.step
    <2>1. u \in TaskRec
        BY <1>1, Zenon DEF TaskRec
    <2> QED BY <1>1, <2>1 DEF TaskRec
<1>3. Arrived(u, n)
    BY <1>1, <1>2 DEF Arrived
<1>4. tasks' = [tasks EXCEPT ![s] = u] /\ n' = n
    BY DEF AnswerPending
<1>5. tasks' \in [Slots -> TaskRec] /\ \A x \in Slots : Arrived(tasks'[x], n')
    BY <1>2, <1>3, <1>4, SetTaskSame
<1> QED BY <1>4, <1>5, Unpack, Assemble DEF AnswerPending

\* The server answers a POST: the id it completes has arrived.
LEMMA AnswerRespondOK ==
    ASSUME MInv, NEW s \in Slots, AnswerRespond(s) PROVE MInv'
<1> DEFINE t == tasks[s]
<1>1. t \in TaskRec /\ Arrived(t, n) /\ n \in 0 .. MaxReqs /\ t.r \in {0} \cup Reqs
    BY SlotTask
<1>2. t.r \in 1 .. n /\ n' = n
    BY <1>1, MaxReqsAssumption DEF AnswerRespond, Arrived, Reqs
<1>3. done' \subseteq 1 .. n'
    BY <1>2, Unpack DEF AnswerRespond
<1>4. /\ tasks' \in [Slots -> TaskRec] /\ \A x \in Slots : Arrived(tasks'[x], n')
      /\ fails' \in 0 .. MaxFails
    <2>1. CASE \E ok \in IF t.r \in done THEN BOOLEAN ELSE {TRUE} :
                  tasks' = [tasks EXCEPT ![s].st = "ok", ![s].ok = ok]
          /\ fails' = fails
        <3>1. PICK ok \in BOOLEAN : tasks' = [tasks EXCEPT ![s].st = "ok", ![s].ok = ok]
            BY <2>1
        <3> DEFINE u == [t EXCEPT !.st = "ok", !.ok = ok]
        <3>2. u \in TaskRec /\ u.seen = t.seen /\ u.r = t.r /\ u.step = t.step
            BY <1>1, ReplyRec
        <3>3. Arrived(u, n)
            BY <1>1, <3>2 DEF Arrived
        <3>4. tasks' = [tasks EXCEPT ![s] = u]
            BY <3>1
        <3>5. fails' \in 0 .. MaxFails
            BY <2>1, Unpack
        <3> QED BY <1>2, <3>2, <3>3, <3>4, <3>5, SetTaskSame
    <2>2. CASE t.chain = "send" /\ fails < MaxFails
               /\ tasks' = [tasks EXCEPT ![s].st = "error"] /\ fails' = fails + 1
        <3> DEFINE u == [t EXCEPT !.st = "error"]
        <3>1. u \in TaskRec /\ u.seen = t.seen /\ u.r = t.r /\ u.step = t.step
            BY <1>1, ErrorRec
        <3>2. Arrived(u, n)
            BY <1>1, <3>1 DEF Arrived
        <3>3. tasks' = [tasks EXCEPT ![s] = u]
            BY <2>2
        <3>4. fails' \in 0 .. MaxFails
            BY <2>2, Unpack, MaxFailsAssumption
        <3> QED BY <1>2, <3>1, <3>2, <3>3, <3>4, SetTaskSame
    <2> QED BY <2>1, <2>2 DEF AnswerRespond
<1> QED BY <1>2, <1>3, <1>4, Unpack, Assemble DEF AnswerRespond

\* fetch() rejects: the task records the error.
LEMMA FetchFailsOK ==
    ASSUME MInv, NEW s \in Slots, FetchFails(s) PROVE MInv'
<1> DEFINE t == tasks[s]
           u == [t EXCEPT !.st = "error"]
<1>1. t \in TaskRec /\ Arrived(t, n)
    BY SlotTask
<1>2. u \in TaskRec /\ u.seen = t.seen /\ u.r = t.r /\ u.step = t.step
    BY <1>1, ErrorRec
<1>3. Arrived(u, n) /\ n' = n
    BY <1>1, <1>2 DEF Arrived, FetchFails
<1>4. tasks' = [tasks EXCEPT ![s] = u]
    BY DEF FetchFails
<1>5. tasks' \in [Slots -> TaskRec] /\ \A x \in Slots : Arrived(tasks'[x], n')
    BY <1>2, <1>3, <1>4, SetTaskSame
<1>6. fails' \in 0 .. MaxFails
    BY Unpack, MaxFailsAssumption DEF FetchFails
<1> QED BY <1>3, <1>5, <1>6, Unpack, Assemble DEF FetchFails

\* A slot freed or turned into a timer holds no id.
LEMMA ResetOK ==
    ASSUME MInv, NEW s \in Slots, NEW u \in {Idle, Timer}, n' = n,
           tasks' = [tasks EXCEPT ![s] = u]
    PROVE  tasks' \in [Slots -> TaskRec] /\ \A x \in Slots : Arrived(tasks'[x], n')
<1>1. u \in TaskRec /\ u.seen = 0 /\ u.r = 0 /\ u.step # "respond"
    BY RecordsTyped, RecordsFields
<1>2. Arrived(u, n)
    BY <1>1, Unpack DEF Arrived
<1> QED BY <1>1, <1>2, SetTaskSame

\* tick() draws the list it fetched and may select its newest open request;
\* that request was in the list, so it has arrived.
LEMMA RecvPendingOK ==
    ASSUME MInv, NEW s \in Slots, RecvPending(s) PROVE MInv'
<1> DEFINE t == tasks[s]
           l == Snapshot(t.seen, t.dn)
           reselect == selected \notin Open(l) /\ Open(l) # {}
<1>1. /\ t \in TaskRec /\ Arrived(t, n) /\ n \in 0 .. MaxReqs
      /\ t.seen \in 0 .. MaxReqs /\ t.dn \in SUBSET Reqs
    BY SlotTask, TaskRecFields
<1>2. /\ l \in ListRec /\ l.seen = t.seen /\ l.dn = t.dn
      /\ t.seen <= n
    BY <1>1, ListRecFields DEF Arrived
<1>3. listed' = l /\ n' = n /\ done' = done /\ fails' = fails
    BY DEF RecvPending
<1>4. selected' \in {0} \cup Reqs /\ selected' <= n
    <2>1. CASE reselect
        <3>1. Open(l) \in SUBSET (1 .. t.seen) /\ Open(l) # {} /\ t.seen \in Nat
            BY <1>1, <1>2, <2>1 DEF Open
        <3>2. Newest(Open(l)) \in 1 .. t.seen
            BY <3>1, NewestMax
        <3>3. selected' = Newest(Open(l))
            BY <2>1 DEF RecvPending
        <3> QED BY <1>1, <1>2, <3>2, <3>3, MaxReqsAssumption DEF Reqs
    <2>2. CASE ~reselect
        <3>1. selected' = selected
            BY <2>2 DEF RecvPending
        <3> QED BY <3>1, <1>3, Unpack
    <2> QED BY <2>1, <2>2
<1>5. autoSubmitting' \in BOOLEAN /\ detailsShown' \in BOOLEAN
    <2>1. autoSubmitting \in BOOLEAN
        BY Unpack
    <2> QED BY <2>1, Zenon DEF RecvPending
<1>6. tasks' \in [Slots -> TaskRec] /\ \A x \in Slots : Arrived(tasks'[x], n')
    <2>1. PICK u \in {Idle, Timer} : tasks' = [tasks EXCEPT ![s] = u]
        BY DEF RecvPending
    <2> QED BY <1>3, <2>1, ResetOK
<1> QED BY <1>1, <1>2, <1>3, <1>4, <1>5, <1>6, Unpack, Assemble

\* A slot set to a new fetch for an arrived id (a real one for a POST).
LEMMA FetchOK ==
    ASSUME MInv, n' = n, NEW s \in Slots,
           NEW c \in {"tick", "send", "clear"}, NEW step \in {"pending", "respond"},
           NEW r \in {0} \cup Reqs, r <= n, step = "respond" => r # 0,
           tasks' = [tasks EXCEPT ![s] = Fetch(c, step, r)]
    PROVE  tasks' \in [Slots -> TaskRec] /\ \A x \in Slots : Arrived(tasks'[x], n')
<1>1. Fetch(c, step, r) \in TaskRec /\ Fetch(c, step, r).seen = 0
      /\ Fetch(c, step, r).r = r /\ Fetch(c, step, r).step = step
    BY RecordsTyped, RecordsFields
<1>2. Arrived(Fetch(c, step, r), n)
    BY <1>1, Unpack DEF Arrived
<1> QED BY <1>1, <1>2, SetTaskSame

\* The same, in a free slot.
LEMMA SpawnOK ==
    ASSUME MInv, n' = n,
           NEW c \in {"tick", "send", "clear"}, NEW step \in {"pending", "respond"},
           NEW r \in {0} \cup Reqs, r <= n, step = "respond" => r # 0,
           Spawn(Fetch(c, step, r))
    PROVE  tasks' \in [Slots -> TaskRec] /\ \A x \in Slots : Arrived(tasks'[x], n')
<1>1. PICK s \in Slots : tasks' = [tasks EXCEPT ![s] = Fetch(c, step, r)]
    BY DEF Spawn
<1> QED BY <1>1, FetchOK

\* After the POST: sendResponse goes on to tick() with the same id, or
\* stops; clearPending goes on to tick().
LEMMA RecvRespondOK ==
    ASSUME MInv, NEW s \in Slots, RecvRespond(s) PROVE MInv'
<1> DEFINE t == tasks[s]
<1>1. /\ t \in TaskRec /\ Arrived(t, n) /\ t.r \in {0} \cup Reqs /\ t.r <= n
      /\ autoSubmitting \in BOOLEAN /\ detailsShown \in BOOLEAN
      /\ selected \in {0} \cup Reqs /\ selected <= n /\ n \in Nat
    BY SlotTask, Unpack DEF Arrived
<1>2. n' = n /\ done' = done /\ listed' = listed /\ fails' = fails
    BY DEF RecvRespond
<1>3. /\ tasks' \in [Slots -> TaskRec] /\ \A x \in Slots : Arrived(tasks'[x], n')
      /\ selected' \in {0} \cup Reqs /\ selected' <= n
      /\ autoSubmitting' \in BOOLEAN /\ detailsShown' \in BOOLEAN
    <2>1. CASE /\ t.chain = "send" /\ t.ok
               /\ selected' = 0
               /\ tasks' = [tasks EXCEPT ![s] = Fetch("send", "pending", t.r)]
               /\ UNCHANGED <<autoSubmitting, detailsShown>>
        <3>1. "send" \in {"tick", "send", "clear"} /\ "pending" \in {"pending", "respond"}
              /\ ("pending" = "respond" => t.r # 0)
            OBVIOUS
        <3>2. tasks' \in [Slots -> TaskRec] /\ \A x \in Slots : Arrived(tasks'[x], n')
            BY <1>1, <1>2, <2>1, <3>1, FetchOK, Zenon
        <3>3. selected' \in {0} \cup Reqs /\ selected' <= n
            BY <1>1, <2>1
        <3>4. autoSubmitting' \in BOOLEAN /\ detailsShown' \in BOOLEAN
            BY <1>1, <2>1
        <3> QED BY <3>2, <3>3, <3>4
    <2>2. CASE /\ t.chain = "send" /\ ~t.ok
               /\ autoSubmitting' = FALSE
               /\ tasks' = [tasks EXCEPT ![s] = Idle]
               /\ UNCHANGED <<selected, detailsShown>>
        BY <1>1, <1>2, <2>2, ResetOK
    <2>3. CASE /\ t.chain = "clear"
               /\ selected' = IF selected = t.r THEN 0 ELSE selected
               /\ detailsShown' = (detailsShown /\ selected # t.r)
               /\ tasks' = [tasks EXCEPT ![s] = Fetch("clear", "pending", t.r)]
               /\ UNCHANGED autoSubmitting
        <3>1. tasks' \in [Slots -> TaskRec] /\ \A x \in Slots : Arrived(tasks'[x], n')
            BY <1>1, <1>2, <2>3, FetchOK
        <3>2. selected' \in {0} \cup Reqs /\ selected' <= n
            BY <1>1, <2>3
        <3>3. autoSubmitting' \in BOOLEAN /\ detailsShown' \in BOOLEAN
            BY <1>1, <2>3, Zenon
        <3> QED BY <3>1, <3>2, <3>3
    <2> QED BY <2>1, <2>2, <2>3 DEF RecvRespond
<1> QED BY <1>2, <1>3, Unpack, Assemble

\* A rejection frees the slot.
LEMMA RecvErrorOK ==
    ASSUME MInv, NEW s \in Slots, RecvError(s) PROVE MInv'
<1>1. tasks' = [tasks EXCEPT ![s] = Idle] /\ n' = n
    BY DEF RecvError
<1>2. tasks' \in [Slots -> TaskRec] /\ \A x \in Slots : Arrived(tasks'[x], n')
    BY <1>1, ResetOK
<1> QED BY <1>1, <1>2, Unpack, Assemble DEF RecvError

\* The setTimeout callback starts tick() or frees the slot.
LEMMA FireTimerOK ==
    ASSUME MInv, NEW s \in Slots, FireTimer(s) PROVE MInv'
<1>1. n' = n
    BY DEF FireTimer
<1>2. tasks' \in [Slots -> TaskRec] /\ \A x \in Slots : Arrived(tasks'[x], n')
    <2>1. CASE selected = 0
        <3>1. tasks' = [tasks EXCEPT ![s] = Fetch("tick", "pending", 0)]
            BY <2>1 DEF FireTimer
        <3>2. /\ 0 \in {0} \cup Reqs /\ 0 <= n /\ ("pending" = "respond" => 0 # 0)
              /\ "tick" \in {"tick", "send", "clear"} /\ "pending" \in {"pending", "respond"}
            BY Unpack
        <3> QED BY <1>1, <3>1, <3>2, FetchOK, Zenon
    <2>2. CASE selected # 0
        <3>1. tasks' = [tasks EXCEPT ![s] = Idle]
            BY <2>2 DEF FireTimer
        <3> QED BY <1>1, <3>1, ResetOK
    <2> QED BY <2>1, <2>2
<1> QED BY <1>1, <1>2, Unpack, Assemble DEF FireTimer

\* setInterval starts tick() in a free slot.
LEMMA TickOK ==
    ASSUME MInv, Tick PROVE MInv'
<1>1. n' = n /\ Spawn(Fetch("tick", "pending", 0))
    BY DEF Tick
<1>2. tasks' \in [Slots -> TaskRec] /\ \A x \in Slots : Arrived(tasks'[x], n')
    BY <1>1, Unpack, SpawnOK
<1> QED BY <1>1, <1>2, Unpack, Assemble DEF Tick

\* A click selects a listed request, which has arrived.
LEMMA ClickItemOK ==
    ASSUME MInv, NEW r \in Reqs, ClickItem(r) PROVE MInv'
<1>1. r <= n
    BY Unpack, MaxReqsAssumption DEF ClickItem, ListRec, Reqs
<1> QED BY <1>1, Unpack, Assemble DEF ClickItem

\* Generate POSTs for the selection, which is a real, arrived id.
LEMMA SendOK ==
    ASSUME MInv, Send PROVE MInv'
<1>1. selected \in {0} \cup Reqs /\ selected <= n /\ selected # 0 /\ n' = n
    BY Unpack DEF Send
<1>2. tasks' \in [Slots -> TaskRec] /\ \A x \in Slots : Arrived(tasks'[x], n')
    <2>1. Spawn(Fetch("send", "respond", selected))
        BY DEF Send
    <2> QED BY <1>1, <2>1, SpawnOK
<1>3. autoSubmitting' \in BOOLEAN
    BY DEF Send
<1> QED BY <1>1, <1>2, <1>3, Unpack, Assemble DEF Send

\* The close button POSTs for a listed, so arrived, request.
LEMMA ClickCloseOK ==
    ASSUME MInv, NEW r \in Reqs, ClickClose(r) PROVE MInv'
<1>1. r \in {0} \cup Reqs /\ r <= n /\ r # 0 /\ n' = n
    BY Unpack, MaxReqsAssumption DEF ClickClose, ListRec, Reqs
<1>2. tasks' \in [Slots -> TaskRec] /\ \A x \in Slots : Arrived(tasks'[x], n')
    <2>1. Spawn(Fetch("clear", "respond", r))
        BY DEF ClickClose
    <2> QED BY <1>1, <2>1, SpawnOK
<1> QED BY <1>1, <1>2, Unpack, Assemble DEF ClickClose

-----------------------------------------------------------------------------
\* Every step of the page, the server and the user keeps MInv.
LEMMA StepMInv == MInv /\ [Next]_vars => MInv'
<1> SUFFICES ASSUME MInv, [Next]_vars PROVE MInv'
    OBVIOUS
<1>1. CASE Arrive
    BY <1>1, ArriveOK
<1>2. ASSUME NEW s \in Slots, Deliver(s) \/ FetchFails(s) PROVE MInv'
    <2>1. CASE AnswerPending(s)
        BY <2>1, AnswerPendingOK
    <2>2. CASE AnswerRespond(s)
        BY <2>2, AnswerRespondOK
    <2>3. CASE RecvPending(s)
        BY <2>3, RecvPendingOK
    <2>4. CASE RecvRespond(s)
        BY <2>4, RecvRespondOK
    <2>5. CASE RecvError(s)
        BY <2>5, RecvErrorOK
    <2>6. CASE FireTimer(s)
        BY <2>6, FireTimerOK
    <2>7. CASE FetchFails(s)
        BY <2>7, FetchFailsOK
    <2> QED BY <1>2, <2>1, <2>2, <2>3, <2>4, <2>5, <2>6, <2>7 DEF Deliver
<1>3. CASE Tick
    BY <1>3, TickOK
<1>4. ASSUME NEW r \in Reqs, ClickItem(r) \/ ClickClose(r) PROVE MInv'
    BY <1>4, ClickItemOK, ClickCloseOK
<1>5. CASE Send
    BY <1>5, SendOK
<1>6. CASE UNCHANGED vars
    BY <1>6 DEF vars, MInv, TypeOK, Arrived
<1> QED BY <1>1, <1>2, <1>3, <1>4, <1>5, <1>6 DEF Next, UserStep

(* The mock-responder page is type-correct: in every reachable state the   *)
(* server's counters, the selection (null or a request id), the list      *)
(* renderPending drew and every async chain in flight have their types,   *)
(* for every number of requests, of chains and of failures.  In           *)
(* particular tick()'s reselection (Newest of the open requests of the    *)
(* list) always yields a request id, and a POST of sendResponse or        *)
(* clearPending never completes a request that has not arrived.           *)
THEOREM PageTypeCorrect == Spec => []TypeOK
<1>1. MInv => TypeOK
    BY DEF MInv
<1> QED BY <1>1, InitMInv, StepMInv, PTL DEF Spec
=============================================================================
