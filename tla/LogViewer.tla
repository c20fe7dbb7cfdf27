------------------------------ MODULE LogViewer ------------------------------
(***************************************************************************)
(* The fancy_logger log viewer (fancy_logger/static/app.js) and the log    *)
(* server it polls.  The page keeps a selection (uid, iid, per-type        *)
(* include/exclude filter, the latter persisted in localStorage), renders  *)
(* what the server answers, and polls /version every second to rehydrate.  *)
(*                                                                         *)
(* Every async function of app.js is a chain of fetches.  A chain runs in  *)
(* a task slot; each fetch is issued by the synchronous code before an     *)
(* await, answered by the server at some later moment (reading the log    *)
(* then), and its continuation runs at a still later moment.  Replies of   *)
(* different tasks are answered and received in any order, as the         *)
(* browser's connections allow.                                            *)
(***************************************************************************)
EXTENDS Naturals, Sequences, FiniteSets

CONSTANTS
    Msgs,        \* the log records the server may hold: [uid, iid, type]
    MaxVer,      \* bound on server log changes (appends and clears)
    MaxTasks,    \* bound on async chains in flight at once
    MaxFails     \* bound on failed fetches and localStorage writes

ASSUME MaxVerAssumption == MaxVer \in Nat
ASSUME MaxTasksAssumption == MaxTasks \in Nat \ {0}
ASSUME MaxFailsAssumption == MaxFails \in Nat

VARIABLES
    log, ver,            \* server: the stored records and /version
    selUid, selIid,      \* selectedUid, selectedIid
    typeStates,          \* the typeStates Map, "off" for an absent key
    storage,             \* localStorage[TYPE_STATE_KEY], "off" if no entry
    lastVersion,         \* lastVersion
    timerOn,             \* whether setInterval(maybeRefresh) has been called
    panelTypes,          \* the type tiles rendered
    shownUids,           \* the uid tabs rendered
    shownIids, iidsFor,  \* the iid tabs rendered, and for which uid
    shown, shownFor,     \* the message list rendered, and for which filter
    tasks,               \* the async chains in flight
    fails                \* failures so far

vars == <<log, ver, selUid, selIid, typeStates, storage, lastVersion, timerOn,
          panelTypes, shownUids, shownIids, iidsFor, shown, shownFor, tasks, fails>>
view == <<panelTypes, shownUids, shownIids, iidsFor, shown, shownFor>>

Uids == {m.uid : m \in Msgs}
Iids == {m.iid : m \in Msgs}
Types == {m.type : m \in Msgs}
TStates == {"off", "include", "exclude"}
\* A stored entry may hold anything a former version of the page wrote.
StoredValues == TStates \cup {"other"}
Slots == 1 .. MaxTasks

(* Server side: the answers of /types, /uids, /iids and /messages.         *)
TypesOf(L) == {m.type : m \in L}
UidsOf(L) == {m.uid : m \in L}
IidsOf(L, u) == {m.iid : m \in {x \in L : x.uid = u}}
Filter(u, i, ts) ==
    [uid |-> u, iid |-> i,
     inc |-> {t \in Types : ts[t] = "include"},
     exc |-> {t \in Types : ts[t] = "exclude"}]
Filters == [uid : {""} \cup Uids, iid : {""} \cup Iids,
            inc : SUBSET Types, exc : SUBSET Types]
Matching(L, f) ==
    {m \in L : /\ f.uid \in {"", m.uid}
               /\ f.iid \in {"", m.iid}
               /\ f.inc = {} \/ m.type \in f.inc
               /\ m.type \notin f.exc}

AllOff == [t \in Types |-> "off"]
NoQuery == Filter("", "", AllOff)
CurrentFilter == Filter(selUid, selIid, typeStates)

(* The fetches each async chain awaits, in order.                          *)
Chain == [init    |-> <<"types", "uids", "iids", "msgs", "version">>,
          refresh |-> <<"version", "types", "uids", "iids", "msgs">>,
          clear   |-> <<"delete", "types", "uids", "iids", "msgs">>,
          render  |-> <<"msgs">>,
          iids    |-> <<"iids">>]
Idle == [chain |-> "none", k |-> 0, q |-> NoQuery, st |-> "none",
         names |-> {}, ms |-> {}, v |-> 0]
Task(c, k, q) == [chain |-> c, k |-> k, q |-> q, st |-> "pending",
                  names |-> {}, ms |-> {}, v |-> 0]
Tasks == {Idle} \cup
         [chain : DOMAIN Chain, k : 1 .. 5, q : Filters,
          st : {"pending", "ok", "error"}, names : SUBSET (Types \cup Uids \cup Iids),
          ms : SUBSET Msgs, v : 0 .. MaxVer]
Kind(t) == Chain[t.chain][t.k]
Busy(s) == tasks[s].chain # "none"
\* The query a fetch of the given kind is issued with, from the page state.
Query(kind) == IF kind = "msgs" THEN CurrentFilter
               ELSE IF kind = "iids" THEN Filter(selUid, "", AllOff)
               ELSE NoQuery

\* Deletes in flight count against MaxVer, since each will bump /version.
Budget == ver + Cardinality({s \in Slots : tasks[s].chain = "clear" /\ tasks[s].k = 1
                                          /\ tasks[s].st = "pending"})

\* The continuation after an await: issue the chain's next fetch or end.
Continue(s) ==
    LET t == tasks[s] IN
    tasks' = [tasks EXCEPT ![s] =
                IF t.k = Len(Chain[t.chain]) THEN Idle
                ELSE Task(t.chain, t.k + 1, Query(Chain[t.chain][t.k + 1]))]

\* Starting an async function: its code up to the first await.
Spawn(c, q) == \E s \in Slots : ~Busy(s) /\ tasks' = [tasks EXCEPT ![s] = Task(c, 1, q)]

Init ==
    /\ log \in SUBSET Msgs
    /\ ver = 0
    /\ selUid = "" /\ selIid = ""
    /\ typeStates = AllOff
    /\ storage \in [Types -> StoredValues]
    /\ lastVersion = 0
    /\ timerOn = FALSE
    /\ panelTypes = {} /\ shownUids = {} /\ shownIids = {} /\ iidsFor = ""
    /\ shown = {} /\ shownFor = NoQuery
    /\ tasks = [s \in Slots |-> IF s = 1 THEN Task("init", 1, NoQuery) ELSE Idle]
    /\ fails = 0
-----------------------------------------------------------------------------
(* The server.                                                             *)

\* An agent writes a log record; /version changes.
AppendLog(m) ==
    /\ Budget < MaxVer
    /\ log' = log \cup {m}
    /\ ver' = ver + 1
    /\ UNCHANGED <<fails, selUid, selIid, typeStates, storage, lastVersion, timerOn, view, tasks>>

\* The server answers a pending GET from its current state.
Answer(s) ==
    LET t == tasks[s] IN
    /\ Busy(s) /\ t.st = "pending" /\ Kind(t) # "delete"
    /\ tasks' = [tasks EXCEPT ![s].st = "ok",
                   ![s].names = CASE Kind(t) = "types" -> TypesOf(log)
                                  [] Kind(t) = "uids"  -> UidsOf(log)
                                  [] Kind(t) = "iids"  -> IidsOf(log, t.q.uid)
                                  [] OTHER             -> {},
                   ![s].ms = IF Kind(t) = "msgs" THEN Matching(log, t.q) ELSE {},
                   ![s].v = ver]
    /\ UNCHANGED <<fails, log, ver, selUid, selIid, typeStates, storage, lastVersion, timerOn, view>>

\* The server handles DELETE /logs.
AnswerDelete(s) ==
    /\ Busy(s) /\ tasks[s].st = "pending" /\ Kind(tasks[s]) = "delete"
    /\ log' = {}
    /\ ver' = ver + 1
    /\ tasks' = [tasks EXCEPT ![s].st = "ok"]
    /\ UNCHANGED <<fails, selUid, selIid, typeStates, storage, lastVersion, timerOn, view>>

\* fetchJSON rejects: a network error or a non-2xx status.
FetchFails(s) ==
    /\ fails < MaxFails
    /\ Busy(s) /\ tasks[s].st = "pending"
    /\ tasks' = [tasks EXCEPT ![s].st = "error"]
    /\ fails' = fails + 1
    /\ UNCHANGED <<log, ver, selUid, selIid, typeStates, storage, lastVersion, timerOn, view>>
-----------------------------------------------------------------------------
(* Continuations of the page's async functions.                            *)

\* Mutant: loadTypeStates without its check that a stored entry is valid.
RecvTypesUnvalidated(s) ==
    LET t == tasks[s] IN
    /\ Busy(s) /\ t.st = "ok" /\ Kind(t) = "types"
    /\ typeStates' = [x \in Types |-> IF x \in t.names THEN storage[x] ELSE "off"]
    /\ panelTypes' = t.names
    /\ Continue(s)
    /\ UNCHANGED <<fails, log, ver, selUid, selIid, storage, lastVersion, timerOn,
                   shownUids, shownIids, iidsFor, shown, shownFor>>

\* loadTypes: loadTypeStates(types) rebuilds typeStates from localStorage,
\* keeping only valid stored entries; renderTypePanel draws the tiles.
RecvTypes(s) ==
    LET t == tasks[s] IN
    /\ Busy(s) /\ t.st = "ok" /\ Kind(t) = "types"
    /\ typeStates' = [x \in Types |->
                        IF x \in t.names /\ storage[x] \in {"include", "exclude"}
                        THEN storage[x] ELSE "off"]
    /\ panelTypes' = t.names
    /\ Continue(s)
    /\ UNCHANGED <<fails, log, ver, selUid, selIid, storage, lastVersion, timerOn,
                   shownUids, shownIids, iidsFor, shown, shownFor>>

\* loadUids renders the uid tabs; the chain goes on with
\* loadIids(selectedUid), which without a uid renders no iid tabs and
\* returns at once, so renderMessages is issued in the same step.
RecvUids(s) ==
    LET t == tasks[s] IN
    /\ Busy(s) /\ t.st = "ok" /\ Kind(t) = "uids"
    /\ shownUids' = t.names
    /\ \/ /\ selUid # ""
          /\ Continue(s)
          /\ UNCHANGED <<shownIids, iidsFor>>
       \/ /\ selUid = ""
          /\ shownIids' = {} /\ iidsFor' = ""
          /\ tasks' = [tasks EXCEPT ![s] = Task(t.chain, t.k + 2, CurrentFilter)]
    /\ UNCHANGED <<fails, log, ver, selUid, selIid, typeStates, storage, lastVersion, timerOn,
                   panelTypes, shown, shownFor>>

\* loadIids(uid) renders the iid tabs of the uid it was called with.
RecvIids(s) ==
    LET t == tasks[s] IN
    /\ Busy(s) /\ t.st = "ok" /\ Kind(t) = "iids"
    /\ shownIids' = t.names
    /\ iidsFor' = t.q.uid
    /\ Continue(s)
    /\ UNCHANGED <<fails, log, ver, selUid, selIid, typeStates, storage, lastVersion, timerOn,
                   panelTypes, shownUids, shown, shownFor>>

\* renderMessages: renderMessagesList replaces the list with the answer.
RecvMsgs(s) ==
    LET t == tasks[s] IN
    /\ Busy(s) /\ t.st = "ok" /\ Kind(t) = "msgs"
    /\ shown' = t.ms
    /\ shownFor' = t.q
    /\ Continue(s)
    /\ UNCHANGED <<fails, log, ver, selUid, selIid, typeStates, storage, lastVersion, timerOn,
                   panelTypes, shownUids, shownIids, iidsFor>>

\* Mutant: maybeRefresh with its version comparison inverted.
RecvVersionInverted(s) ==
    LET t == tasks[s] IN
    /\ Busy(s) /\ t.st = "ok" /\ Kind(t) = "version"
    /\ \/ /\ t.chain = "init"
          /\ lastVersion' = t.v
          /\ timerOn' = TRUE
          /\ Continue(s)
       \/ /\ t.chain = "refresh" /\ t.v = lastVersion
          /\ lastVersion' = t.v
          /\ Continue(s)
          /\ UNCHANGED timerOn
       \/ /\ t.chain = "refresh" /\ t.v # lastVersion
          /\ tasks' = [tasks EXCEPT ![s] = Idle]
          /\ UNCHANGED <<lastVersion, timerOn>>
    /\ UNCHANGED <<fails, log, ver, selUid, selIid, typeStates, storage, view>>

\* The /version answer.  The initial load records it and starts the timer;
\* maybeRefresh records a changed version before it rehydrates, and does
\* nothing more when the version is unchanged.
RecvVersion(s) ==
    LET t == tasks[s] IN
    /\ Busy(s) /\ t.st = "ok" /\ Kind(t) = "version"
    /\ \/ /\ t.chain = "init"
          /\ lastVersion' = t.v
          /\ timerOn' = TRUE
          /\ Continue(s)
       \/ /\ t.chain = "refresh" /\ t.v # lastVersion
          /\ lastVersion' = t.v
          /\ Continue(s)
          /\ UNCHANGED timerOn
       \/ /\ t.chain = "refresh" /\ t.v = lastVersion
          /\ tasks' = [tasks EXCEPT ![s] = Idle]
          /\ UNCHANGED <<lastVersion, timerOn>>
    /\ UNCHANGED <<fails, log, ver, selUid, selIid, typeStates, storage, view>>

\* The clear button's handler after DELETE /logs, whose failure it
\* ignores: reset the selection and reload everything.
RecvDelete(s) ==
    /\ Busy(s) /\ tasks[s].st \in {"ok", "error"} /\ Kind(tasks[s]) = "delete"
    /\ selUid' = "" /\ selIid' = ""
    /\ Continue(s)
    /\ UNCHANGED <<fails, log, ver, typeStates, storage, lastVersion, timerOn, view>>

\* A rejected fetch ends its chain: maybeRefresh catches it, the initial
\* load catches it only around /version, every other caller lets the
\* rejection go unhandled.  The timer is started only if the initial load
\* got past its first four fetches.
RecvError(s) ==
    LET t == tasks[s] IN
    /\ Busy(s) /\ t.st = "error" /\ Kind(t) # "delete"
    /\ tasks' = [tasks EXCEPT ![s] = Idle]
    /\ timerOn' = (timerOn \/ (t.chain = "init" /\ Kind(t) = "version"))
    /\ UNCHANGED <<fails, log, ver, selUid, selIid, typeStates, storage, lastVersion, view>>

\* setInterval fires maybeRefresh, whether or not an earlier one is still
\* awaiting.
Tick ==
    /\ timerOn
    /\ Spawn("refresh", NoQuery)
    /\ UNCHANGED <<fails, log, ver, selUid, selIid, typeStates, storage, lastVersion, timerOn, view>>
-----------------------------------------------------------------------------
(* The user's clicks.                                                      *)

\* A uid tab: select it, clear the iid, renderMessages() and loadIids(uid).
ClickUid(u) ==
    /\ u \in shownUids
    /\ \E s1, s2 \in Slots :
          /\ s1 # s2 /\ ~Busy(s1) /\ ~Busy(s2)
          /\ tasks' = [tasks EXCEPT ![s1] = Task("render", 1, Filter(u, "", typeStates)),
                                    ![s2] = Task("iids", 1, Filter(u, "", AllOff))]
    /\ selUid' = u /\ selIid' = ""
    /\ UNCHANGED <<fails, log, ver, typeStates, storage, lastVersion, timerOn, view>>

\* The "All" uid tab: clear both selections, no iid tabs, renderMessages().
ClickAllUids ==
    /\ selUid' = "" /\ selIid' = ""
    /\ shownIids' = {} /\ iidsFor' = ""
    /\ Spawn("render", Filter("", "", typeStates))
    /\ UNCHANGED <<fails, log, ver, typeStates, storage, lastVersion, timerOn,
                   panelTypes, shownUids, shown, shownFor>>

\* An iid tab, or its "All" tab: select it and renderMessages().
ClickIid(i) ==
    /\ i \in shownIids \cup {""}
    /\ selIid' = i
    /\ Spawn("render", Filter(selUid, i, typeStates))
    /\ UNCHANGED <<fails, log, ver, selUid, typeStates, storage, lastVersion, timerOn, view>>

\* The tile click cycles off -> include -> exclude -> off.
Cycle == [off |-> "include", include |-> "exclude", exclude |-> "off"]

\* Mutant: the tile handler without its saveTypeStates() call.
ClickTypeNoSave(x) ==
    /\ x \in panelTypes
    /\ typeStates' = [typeStates EXCEPT ![x] = Cycle[@]]
    /\ Spawn("render", Filter(selUid, selIid, typeStates'))
    /\ UNCHANGED <<fails, storage, log, ver, selUid, selIid, lastVersion, timerOn, view>>

\* A type tile: cycle its state, saveTypeStates() (whose localStorage write
\* may throw and is then ignored), renderMessages().
ClickType(x) ==
    /\ x \in panelTypes
    /\ typeStates' = [typeStates EXCEPT ![x] = Cycle[@]]
    /\ \/ storage' = typeStates' /\ UNCHANGED fails
       \/ fails < MaxFails /\ fails' = fails + 1 /\ UNCHANGED storage
    /\ Spawn("render", Filter(selUid, selIid, typeStates'))
    /\ UNCHANGED <<log, ver, selUid, selIid, lastVersion, timerOn, view>>

\* The refresh button: renderMessages().
ClickRefresh ==
    /\ Spawn("render", CurrentFilter)
    /\ UNCHANGED <<fails, log, ver, selUid, selIid, typeStates, storage, lastVersion, timerOn, view>>

\* The clear button: DELETE /logs.
ClickClear ==
    /\ Budget < MaxVer
    /\ Spawn("clear", NoQuery)
    /\ UNCHANGED <<fails, log, ver, selUid, selIid, typeStates, storage, lastVersion, timerOn, view>>
-----------------------------------------------------------------------------
UserStep ==
    \/ \E u \in Uids : ClickUid(u)
    \/ ClickAllUids
    \/ \E i \in {""} \cup Iids : ClickIid(i)
    \/ \E x \in Types : ClickType(x)
    \/ ClickRefresh
    \/ ClickClear

\* What the network and the event loop eventually do for a task.
Deliver(s) ==
    \/ Answer(s) \/ AnswerDelete(s)
    \/ RecvTypes(s) \/ RecvUids(s) \/ RecvIids(s) \/ RecvMsgs(s)
    \/ RecvVersion(s) \/ RecvDelete(s) \/ RecvError(s)

Next ==
    \/ \E m \in Msgs : AppendLog(m)
    \/ \E s \in Slots : Deliver(s) \/ FetchFails(s)
    \/ Tick
    \/ UserStep

Spec == Init /\ [][Next]_vars

\* Replies are eventually answered and their continuations run; the
\* interval timer keeps firing.  The user and the agents writing logs are
\* under no obligation.
Fairness == \A s \in Slots : WF_vars(Deliver(s)) /\ SF_vars(Tick)
FairSpec == Spec /\ Fairness

\* The dashboard left open and never clicked, while agents keep logging.
Unattended == Init /\ [][Next /\ ~UserStep]_vars /\ Fairness
-----------------------------------------------------------------------------
TypeOK ==
    /\ log \subseteq Msgs /\ ver \in 0 .. MaxVer
    /\ selUid \in {""} \cup Uids /\ selIid \in {""} \cup Iids
    /\ typeStates \in [Types -> TStates]
    /\ storage \in [Types -> StoredValues]
    /\ lastVersion \in 0 .. MaxVer /\ timerOn \in BOOLEAN
    /\ panelTypes \subseteq Types /\ shownUids \subseteq Uids
    /\ shownIids \subseteq Iids /\ iidsFor \in {""} \cup Uids
    /\ shown \subseteq Msgs /\ shownFor \in Filters
    /\ tasks \in [Slots -> Tasks]
    /\ fails \in 0 .. MaxFails

Quiescent == \A s \in Slots : ~Busy(s)
Stored(x) == IF storage[x] \in {"include", "exclude"} THEN storage[x] ELSE "off"
Fresh == shown = Matching(log, CurrentFilter)

\* A type tile always shows the state a reload of the page would restore:
\* a background rehydration (loadTypes, which reloads typeStates from
\* localStorage) never reverts a choice the user made, whatever the order
\* of tile clicks and replies.
TypeChoicesPersist == \A x \in panelTypes : typeStates[x] = Stored(x)

\* Every change of the server's log is eventually noticed by the polling
\* loop (maybeRefresh, started by the initial load).
ChangesNoticed == \A n \in 0 .. MaxVer : (ver = n) ~> (lastVersion >= n)

\* While no fetch or localStorage write has failed (fails only grows), every
\* drawn type tile shows what localStorage holds.
TypeChoicesWhileReliable == fails = 0 => TypeChoicesPersist

\* In a run where nothing ever fails, every change of the server's log is
\* eventually noticed by the polling loop.
ChangesNoticedWhileReliable == [](fails = 0) => ChangesNoticed

\* Once no fetch is in flight, the message list and the iid tabs are those
\* of the current selection (renderMessages and loadIids replies).
ViewMatchesSelection == Quiescent => (shownFor = CurrentFilter /\ iidsFor = selUid)

\* The message list is infinitely often the server's current messages for
\* the selection: whatever it missed, the one-second polling of /version
\* (maybeRefresh) eventually repairs it.  Checked for the unattended page.
EventuallyFresh == []<>Fresh
=============================================================================
