----------------------------- MODULE MCLogViewer -----------------------------
(* TLC instances of LogViewer.                                             *)
EXTENDS LogViewer

\* One agent with one instance and one message type: every tab, tile and
\* fetch chain exists, and the type filter can hide or show the record.
MCOneMsg == {[uid |-> "u1", iid |-> "i1", type |-> "t1"]}
\* Two agents, so that a selection can name either, and a reply for one
\* can land after the user has selected the other.
MCTwoMsgs == {[uid |-> "u1", iid |-> "i1", type |-> "t1"],
              [uid |-> "u2", iid |-> "i2", type |-> "t1"]}
\* Two log changes: enough for a change during the initial load and a
\* later one, or an append and a clear.
MCMaxVer == 2
\* One log change: enough for a change racing the initial load or a tick.
MCOneChange == 1
\* Two chains in flight: two overlapping timer ticks, a click racing a
\* tick, or the two chains a uid click starts.
MCMaxTasks == 2
\* One failed fetch or localStorage write, at any point.
MCOneFail == 1
=============================================================================
