-------------------------------- MODULE MockUI --------------------------------
(***************************************************************************)
(* The mock-responder page (src/unnamed/part_000, lines 1-350) and the    *)
(* mock inference server it polls.  The page lists the mocked requests,   *)
(* keeps one selected, and answers it (Generate, or a stop token typed in *)
(* the editor) or clears it (the close button, a 300 response).  tick()   *)
(* reloads the list every 1.5 s, and also after each answer.              *)
(*                                                                         *)
(* As in LogViewer, every async function is a chain of fetches run in a   *)
(* task slot: a fetch is issued by the code before its await, answered by *)
(* the server at a later moment, and continued later still; slots         *)
(* interleave freely.                                                      *)
(***************************************************************************)
EXTENDS Naturals

CONSTANTS
    MaxReqs,     \* requests the server receives; their ids are 1..MaxReqs
    MaxTasks,    \* bound on async chains in flight at once
    MaxFails     \* bound on rejected fetches and unparseable bodies

ASSUME MaxReqsAssumption == MaxReqs \in Nat
ASSUME MaxTasksAssumption == MaxTasks \in Nat \ {0}
ASSUME MaxFailsAssumption == MaxFails \in Nat

VARIABLES
    n,               \* server: requests 1..n have arrived
    done,            \* server: the requests that have been answered
    selected,        \* selected (a request id, 0 for null)
    autoSubmitting,  \* autoSubmitting
    detailsShown,    \* whether the details pane (editor, Generate) is visible
    listed,          \* the list renderPending drew: [seen, dn]
    tasks,           \* the async chains in flight
    fails            \* failures so far

vars == <<n, done, selected, autoSubmitting, detailsShown, listed, tasks, fails>>

Reqs == 1 .. MaxReqs
Slots == 1 .. MaxTasks
\* The list /mock/pending answers, newest first: ids 1..seen, dn completed.
Snapshot(seen, dn) == [seen |-> seen, dn |-> dn]
Open(l) == (1 .. l.seen) \ l.dn
Newest(S) == CHOOSE x \in S : \A y \in S : y <= x

(* A task: the chain (tick, send, clear, or a setTimeout callback), the   *)
(* fetch it awaits (pending is the /mock/pending fetch of tick(), respond *)
(* the POST /mock/respond), the request id it carries, and the answer.    *)
Idle == [chain |-> "none", step |-> "none", r |-> 0, st |-> "none",
         seen |-> 0, dn |-> {}, ok |-> FALSE]
Fetch(c, step, r) == [Idle EXCEPT !.chain = c, !.step = step, !.r = r, !.st = "pending"]
Timer == [Idle EXCEPT !.chain = "timer", !.step = "timer"]
Busy(s) == tasks[s].chain # "none"
Spawn(t) == \E s \in Slots : ~Busy(s) /\ tasks' = [tasks EXCEPT ![s] = t]

\* The page as loaded: tick() is called at once, setInterval(tick) runs.
Init ==
    /\ n \in 0 .. MaxReqs
    /\ done = {}
    /\ selected = 0
    /\ autoSubmitting = FALSE
    /\ detailsShown = FALSE
    /\ listed = Snapshot(0, {})
    /\ tasks = [s \in Slots |-> IF s = 1 THEN Fetch("tick", "pending", 0) ELSE Idle]
    /\ fails = 0
-----------------------------------------------------------------------------
(* The server.                                                             *)

\* An agent's inference call is parked as a pending mock request.
Arrive ==
    /\ n < MaxReqs
    /\ n' = n + 1
    /\ UNCHANGED <<done, selected, autoSubmitting, detailsShown, listed, tasks, fails>>

\* GET /mock/pending answers the list as it is now.
AnswerPending(s) ==
    /\ Busy(s) /\ tasks[s].st = "pending" /\ tasks[s].step = "pending"
    /\ tasks' = [tasks EXCEPT ![s].st = "ok", ![s].seen = n, ![s].dn = done]
    /\ UNCHANGED <<n, done, selected, autoSubmitting, detailsShown, listed, fails>>

\* POST /mock/respond completes the request.  Its reply to a request already
\* completed is not fixed by the page; ok is then either value.  The body of
\* a reply to sendResponse may also fail to parse (res.json() rejects).
AnswerRespond(s) ==
    LET t == tasks[s] IN
    /\ Busy(s) /\ t.st = "pending" /\ t.step = "respond"
    /\ done' = done \cup {t.r}
    /\ \/ /\ \E ok \in IF t.r \in done THEN BOOLEAN ELSE {TRUE} :
                 tasks' = [tasks EXCEPT ![s].st = "ok", ![s].ok = ok]
          /\ UNCHANGED fails
       \/ /\ t.chain = "send" /\ fails < MaxFails
          /\ tasks' = [tasks EXCEPT ![s].st = "error"]
          /\ fails' = fails + 1
    /\ UNCHANGED <<n, selected, autoSubmitting, detailsShown, listed>>

\* fetch() rejects (network error, server down) before the server acts.
FetchFails(s) ==
    /\ fails < MaxFails
    /\ Busy(s) /\ tasks[s].st = "pending"
    /\ tasks' = [tasks EXCEPT ![s].st = "error"]
    /\ fails' = fails + 1
    /\ UNCHANGED <<n, done, selected, autoSubmitting, detailsShown, listed>>
-----------------------------------------------------------------------------
(* Continuations of the page's async functions.                            *)

\* Mutant: tick() reselecting only when the selection is missing from the
\* list, not when it is completed.
RecvPendingNoCompletedCheck(s) ==
    LET t == tasks[s]
        l == Snapshot(t.seen, t.dn)
        reselect == selected \notin 1 .. t.seen /\ Open(l) # {}
    IN
    /\ Busy(s) /\ t.st = "ok" /\ t.step = "pending"
    /\ listed' = l
    /\ selected' = IF reselect THEN Newest(Open(l)) ELSE selected
    /\ detailsShown' = (t.chain # "send" /\ (reselect \/ detailsShown))
    /\ autoSubmitting' = IF t.chain = "send" THEN FALSE ELSE autoSubmitting
    /\ tasks' = [tasks EXCEPT ![s] = IF t.chain = "tick" THEN Idle ELSE Timer]
    /\ UNCHANGED <<n, done, fails>>

\* tick() after Promise.all: renderPending draws the list; unless the
\* selection is listed and not completed, the newest open request is
\* selected.  When tick() was awaited by sendResponse, that goes on to
\* setTimeout, hides the details pane and clears autoSubmitting; when by
\* clearPending, to setTimeout.
RecvPending(s) ==
    LET t == tasks[s]
        l == Snapshot(t.seen, t.dn)
        reselect == selected \notin Open(l) /\ Open(l) # {}
    IN
    /\ Busy(s) /\ t.st = "ok" /\ t.step = "pending"
    /\ listed' = l
    /\ selected' = IF reselect THEN Newest(Open(l)) ELSE selected
    /\ detailsShown' = (t.chain # "send" /\ (reselect \/ detailsShown))
    /\ autoSubmitting' = IF t.chain = "send" THEN FALSE ELSE autoSubmitting
    /\ tasks' = [tasks EXCEPT ![s] = IF t.chain = "tick" THEN Idle ELSE Timer]
    /\ UNCHANGED <<n, done, fails>>

\* Mutant: sendResponse clearing autoSubmitting only on the ok path.
RecvRespondNoReset(s) ==
    LET t == tasks[s] IN
    /\ Busy(s) /\ t.st = "ok" /\ t.step = "respond"
    /\ \/ /\ t.chain = "send" /\ t.ok
          /\ selected' = 0
          /\ tasks' = [tasks EXCEPT ![s] = Fetch("send", "pending", t.r)]
          /\ UNCHANGED <<autoSubmitting, detailsShown>>
       \/ /\ t.chain = "send" /\ ~t.ok
          /\ tasks' = [tasks EXCEPT ![s] = Idle]
          /\ UNCHANGED <<selected, autoSubmitting, detailsShown>>
       \/ /\ t.chain = "clear"
          /\ selected' = IF selected = t.r THEN 0 ELSE selected
          /\ detailsShown' = (detailsShown /\ selected # t.r)
          /\ tasks' = [tasks EXCEPT ![s] = Fetch("clear", "pending", t.r)]
          /\ UNCHANGED autoSubmitting
    /\ UNCHANGED <<n, done, listed, fails>>

\* Mutant: sendResponse posting again while the reply is not ok.
RecvRespondRetry(s) ==
    LET t == tasks[s] IN
    /\ Busy(s) /\ t.st = "ok" /\ t.step = "respond"
    /\ \/ /\ t.chain = "send" /\ t.ok
          /\ selected' = 0
          /\ tasks' = [tasks EXCEPT ![s] = Fetch("send", "pending", t.r)]
          /\ UNCHANGED <<autoSubmitting, detailsShown>>
       \/ /\ t.chain = "send" /\ ~t.ok
          /\ tasks' = [tasks EXCEPT ![s] = Fetch("send", "respond", t.r)]
          /\ UNCHANGED <<selected, autoSubmitting, detailsShown>>
       \/ /\ t.chain = "clear"
          /\ selected' = IF selected = t.r THEN 0 ELSE selected
          /\ detailsShown' = (detailsShown /\ selected # t.r)
          /\ tasks' = [tasks EXCEPT ![s] = Fetch("clear", "pending", t.r)]
          /\ UNCHANGED autoSubmitting
    /\ UNCHANGED <<n, done, listed, fails>>

\* After the POST: sendResponse, on j.ok, clears the selection and calls
\* tick(), else clears autoSubmitting; clearPending clears the selection
\* and hides the details if it cleared the selected request, then tick().
RecvRespond(s) ==
    LET t == tasks[s] IN
    /\ Busy(s) /\ t.st = "ok" /\ t.step = "respond"
    /\ \/ /\ t.chain = "send" /\ t.ok
          /\ selected' = 0
          /\ tasks' = [tasks EXCEPT ![s] = Fetch("send", "pending", t.r)]
          /\ UNCHANGED <<autoSubmitting, detailsShown>>
       \/ /\ t.chain = "send" /\ ~t.ok
          /\ autoSubmitting' = FALSE
          /\ tasks' = [tasks EXCEPT ![s] = Idle]
          /\ UNCHANGED <<selected, detailsShown>>
       \/ /\ t.chain = "clear"
          /\ selected' = IF selected = t.r THEN 0 ELSE selected
          /\ detailsShown' = (detailsShown /\ selected # t.r)
          /\ tasks' = [tasks EXCEPT ![s] = Fetch("clear", "pending", t.r)]
          /\ UNCHANGED autoSubmitting
    /\ UNCHANGED <<n, done, listed, fails>>

\* A rejection ends the chain: tick() callers do not catch it, nor does
\* sendResponse, which leaves autoSubmitting as it was.
RecvError(s) ==
    /\ Busy(s) /\ tasks[s].st = "error"
    /\ tasks' = [tasks EXCEPT ![s] = Idle]
    /\ UNCHANGED <<n, done, selected, autoSubmitting, detailsShown, listed, fails>>

\* The setTimeout callback: tick() again if nothing is selected.
FireTimer(s) ==
    /\ tasks[s].chain = "timer"
    /\ tasks' = [tasks EXCEPT ![s] = IF selected = 0 THEN Fetch("tick", "pending", 0)
                                     ELSE Idle]
    /\ UNCHANGED <<n, done, selected, autoSubmitting, detailsShown, listed, fails>>

\* setInterval fires tick(), whether or not an earlier one is in flight.
Tick ==
    /\ Spawn(Fetch("tick", "pending", 0))
    /\ UNCHANGED <<n, done, selected, autoSubmitting, detailsShown, listed, fails>>
-----------------------------------------------------------------------------
(* The user.                                                               *)

\* A click on a listed request, completed or not: select(id, item).
ClickItem(r) ==
    /\ r \in 1 .. listed.seen
    /\ selected' = r
    /\ detailsShown' = TRUE
    /\ UNCHANGED <<n, done, autoSubmitting, listed, tasks, fails>>

\* Mutant: sendResponse without its autoSubmitting guard.
SendNoGuard ==
    /\ detailsShown /\ selected # 0
    /\ autoSubmitting' = TRUE
    /\ Spawn(Fetch("send", "respond", selected))
    /\ UNCHANGED <<n, done, selected, detailsShown, listed, fails>>

\* Generate, Ctrl+Enter, or a stop token typed (maybeAutoSubmitOnStop): the
\* editor and button are in the details pane.  sendResponse returns at once
\* without a selection, while autoSubmitting, or with an empty text (no
\* step); otherwise it sets autoSubmitting and POSTs for the selection.
Send ==
    /\ detailsShown /\ selected # 0 /\ ~autoSubmitting
    /\ autoSubmitting' = TRUE
    /\ Spawn(Fetch("send", "respond", selected))
    /\ UNCHANGED <<n, done, selected, detailsShown, listed, fails>>

\* Mutant: the close button clearing the selected request, not its own.
ClickCloseSelected(r) ==
    /\ r \in 1 .. listed.seen
    /\ Spawn(Fetch("clear", "respond", selected))
    /\ UNCHANGED <<n, done, selected, autoSubmitting, detailsShown, listed, fails>>

\* The close button of a listed request: clearPending(id).
ClickClose(r) ==
    /\ r \in 1 .. listed.seen
    /\ Spawn(Fetch("clear", "respond", r))
    /\ UNCHANGED <<n, done, selected, autoSubmitting, detailsShown, listed, fails>>
-----------------------------------------------------------------------------
UserStep == (\E r \in Reqs : ClickItem(r) \/ ClickClose(r)) \/ Send

\* What the network and the event loop eventually do for a task.
Deliver(s) ==
    \/ AnswerPending(s) \/ AnswerRespond(s)
    \/ RecvPending(s) \/ RecvRespond(s) \/ RecvError(s) \/ FireTimer(s)

Next ==
    \/ Arrive
    \/ \E s \in Slots : Deliver(s) \/ FetchFails(s)
    \/ Tick
    \/ UserStep

Spec == Init /\ [][Next]_vars

\* Replies are answered and continued, timers fire, and the interval keeps
\* firing whenever a slot is free.  The user and the agents have no duty.
Fairness == \A s \in Slots : WF_vars(Deliver(s)) /\ SF_vars(Tick)
FairSpec == Spec /\ Fairness
-----------------------------------------------------------------------------
TypeOK ==
    /\ n \in 0 .. MaxReqs /\ done \subseteq 1 .. n
    /\ selected \in {0} \cup Reqs
    /\ autoSubmitting \in BOOLEAN /\ detailsShown \in BOOLEAN
    /\ listed \in [seen : 0 .. MaxReqs, dn : SUBSET Reqs]
    /\ tasks \in [Slots -> [chain : {"none", "tick", "send", "clear", "timer"},
                            step : {"none", "pending", "respond", "timer"},
                            r : {0} \cup Reqs, st : {"none", "pending", "ok", "error"},
                            seen : 0 .. MaxReqs, dn : SUBSET Reqs, ok : BOOLEAN]]
    /\ fails \in 0 .. MaxFails

Quiescent == \A s \in Slots : ~Busy(s)
OpenSelected == (1 .. n) \ done # {} => selected \in (1 .. n) \ done

\* sendResponse's guard is exact: autoSubmitting is set exactly while a
\* sendResponse call is in flight, so Generate is refused only while an
\* answer is being sent.
SubmitFlagTracksSend == autoSubmitting <=> \E s \in Slots : tasks[s].chain = "send"

\* However fetches fail, at most one sendResponse call is in flight: Generate,
\* Ctrl+Enter and a typed stop token all pass the autoSubmitting test, and the
\* flag stays set until the call ends (longer, when it fails), so no second
\* answer is POSTed while one is pending.
SingleSend ==
    \A s1, s2 \in Slots : tasks[s1].chain = "send" /\ tasks[s2].chain = "send" => s1 = s2

\* Whatever happens to a sendResponse call, the page eventually accepts
\* Generate again.
SubmitReleased == autoSubmitting ~> ~autoSubmitting

\* Left alone, the page ends up, and stays, on an open request whenever
\* one exists (tick()'s reselection of a missing or completed selection).
SettlesOnOpen == <>[][~UserStep]_vars => <>[]OpenSelected

\* While no fetch has failed (fails only grows), autoSubmitting is set
\* exactly while a sendResponse call is in flight.
SubmitFlagWhileReliable == fails = 0 => SubmitFlagTracksSend

\* In a run where no fetch ever fails, every sendResponse call releases
\* autoSubmitting, so Generate works again.
SubmitReleasedWhileReliable == [](fails = 0) => SubmitReleased

\* tick() selects on its own only requests that are still open.
AutoSelectsOnlyOpen ==
    [][~UserStep /\ selected' # selected /\ selected' # 0 => selected' \notin done]_vars
=============================================================================
