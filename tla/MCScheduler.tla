----------------------------- MODULE MCScheduler -----------------------------
(***************************************************************************)
(* Small instances of Scheduler for TLC.                                   *)
(***************************************************************************)
EXTENDS Scheduler

Two == {"a", "b"}
SubmitCall(r) == [op |-> "submit", stream |-> r]
CancelCall(by, key) == [op |-> "cancel", by |-> by, key |-> key]
ControlCall(kind) == [op |-> "control", kind |-> kind]
SessionCall(kind, source, target) ==
    [op |-> "session", kind |-> kind, source |-> source, target |-> target]
StatusCall == [op |-> "status"]
ReloadCall == [op |-> "reload"]

TwoIds == [a |-> "1", b |-> "2"]
NoSessions == [a |-> "", b |-> ""]
SamePriority == [a |-> 0, b |-> 0]

OneId == [a |-> "1"]
OneSession == [a |-> ""]
OnePriority == [a |-> 0]

\* One request under back-pressure, cancelled or timed out on the way, and a
\* question about the health of the engine meanwhile.
FlowCalls == { SubmitCall("a"), CancelCall("all", ""), StatusCall }
CancelCalls == { SubmitCall("a"), CancelCall("id", "1") }

\* b reuses the ID of a; a duplex session and a reload come in between.
ReusedId == [a |-> "1", b |-> "1"]
ControlCalls ==
    { SubmitCall("a"), SubmitCall("b"), ReloadCall, ControlCall("duplex_start") }

\* Two requests, or one and a control call, and a reload, with failures.
ReloadCalls == { SubmitCall("a"), SubmitCall("b"), ReloadCall, ControlCall("score") }
SecondCalls == { SubmitCall("b"), ControlCall("score") }

\* Three streams that compete for the executor.
Three == {"a", "b", "c"}
ThreeIds == [a |-> "1", b |-> "2", c |-> "3"]
ThreeSessions == [a |-> "", b |-> "", c |-> ""]
ThreePriorities == [a |-> 0, b |-> 0, c |-> 0]
\* a and b share a session; c is urgent.
PairSession == [a |-> "x", b |-> "x", c |-> ""]
Urgent == [a |-> 0, b |-> 0, c |-> 1]
SubmitCalls == { SubmitCall(r) : r \in Three }
\* The session is to be closed while they run.
AdmissionCalls == SubmitCalls \cup { SessionCall("close", "x", "") }
==============================================================================
