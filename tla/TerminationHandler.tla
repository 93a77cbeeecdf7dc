------------------------ MODULE TerminationHandler ------------------------
(***************************************************************************)
(* The termination handler that runs on a preemptible instance: it polls   *)
(* the metadata endpoint until GCP announces the preemption, then sets the *)
(* Terminating condition of its Node.                                      *)
(*                                                                         *)
(* Run (the main goroutine) and run (the goroutine it starts) share one    *)
(* cancellable context.  One action is one call or one look at a shared    *)
(* context or channel; SIGTERM, the kubelet's heartbeats and the clock     *)
(* interleave at each of them.  When the process ends it is started again. *)
(***************************************************************************)
EXTENDS Naturals

CONSTANTS
    MaxFaults,   \* bound on failed calls, timeouts, stops and kills
    MaxBeats,    \* bound on the kubelet's updates of the Node
    MaxClock     \* bound on the clock

ASSUME HandlerAssumption ==
    MaxFaults \in Nat /\ MaxBeats \in Nat /\ MaxClock \in Nat

VARIABLES
    notice,      \* the endpoint answers TRUE
    stopped,     \* the stop channel is closed
    main,        \* Run: at its select, waiting for run, or back
    cancelled,   \* the context of run is cancelled
    pc,          \* where run is
    result,      \* what run has sent on errs, "none" before
    marking,     \* the parent of markCtx: "run", "background", or "none"
    timedOut,    \* markCtx has passed its 30 seconds
    copy,        \* the Node as markNodeForDeletion has read it
    fresh,       \* copy has the stored resourceVersion
    node,        \* the stored Node
    clock,
    faults

process == <<stopped, main, cancelled, pc, result, marking, timedOut, copy>>
vars == <<notice, process, fresh, node, clock, faults>>

\* The Terminating condition with its LastTransitionTime, and a counter that
\* stands for the conditions the kubelet owns.
Node ==
    [terminating : {"absent", "False", "True"}, since : 0..MaxClock,
     beat : 0..MaxBeats]

TypeOK ==
    /\ notice \in BOOLEAN /\ stopped \in BOOLEAN /\ cancelled \in BOOLEAN
    /\ main \in {"select", "wait", "returned"}
    /\ pc \in {"poll.first", "poll", "recheck", "hung", "context", "mark.get",
               "mark.update", "mark.wait", "done"}
    /\ result \in {"none", "nil", "error"}
    /\ marking \in {"none", "run", "background"} /\ timedOut \in BOOLEAN
    /\ copy \in Node /\ node \in Node /\ fresh \in BOOLEAN
    /\ clock \in 0..MaxClock /\ faults \in 0..MaxFaults

Init ==
    /\ notice = FALSE
    /\ stopped = FALSE /\ main = "select" /\ cancelled = FALSE
    /\ pc = "poll.first" /\ result = "none" /\ marking = "none"
    /\ timedOut = FALSE
    /\ \E t \in {"absent", "False"} :
          node = [terminating |-> t, since |-> 0, beat |-> 0]
    /\ copy = node /\ fresh = FALSE
    /\ clock = 0 /\ faults = MaxFaults

----------------------------------------------------------------------------
Disturbance == faults > 0 /\ faults' = faults - 1

\* run sends its result on the buffered channel and ends.
Return(value) ==
    /\ pc' = "done" /\ result' = value
    /\ UNCHANGED <<stopped, main, cancelled, marking, timedOut, copy>>

\* The next call of run.
Goto(step) ==
    /\ pc' = step
    /\ UNCHANGED <<stopped, main, cancelled, result, marking, timedOut, copy>>

\* markCtx is done: its parent was cancelled, or its time is up.
MarkingDone == timedOut \/ (marking = "run" /\ cancelled)

\* The request of checkTerminationEndpoint fails, or is never answered: it
\* has neither a timeout nor a context, so only the end of the process ends it.
EndpointFails == (Return("error") \/ Goto("hung")) /\ Disturbance

\* The poll loop calls its condition at once, even with a cancelled context,
\* and after that as long as the context is not cancelled.
PollEndpoint ==
    /\ pc = "poll.first" \/ (pc = "poll" /\ ~cancelled)
    /\ \/ Goto(IF notice THEN "recheck" ELSE "poll") /\ UNCHANGED faults
       \/ EndpointFails
    /\ UNCHANGED <<notice, fresh, node, clock>>

\* Variant: a cancelled poll is taken for a notice.
PollCancelledMarks ==
    /\ pc = "poll" /\ cancelled
    /\ Goto("context")
    /\ UNCHANGED <<notice, fresh, node, clock, faults>>

\* A cancelled context ends the poll without an error.
PollCancelled ==
    /\ pc = "poll" /\ cancelled
    /\ Goto("recheck")
    /\ UNCHANGED <<notice, fresh, node, clock, faults>>

\* The endpoint is asked once more.
Recheck ==
    /\ pc = "recheck"
    /\ \/ notice /\ Goto("context") /\ UNCHANGED faults
       \/ ~notice /\ Return("nil") /\ UNCHANGED faults
       \/ EndpointFails
    /\ UNCHANGED <<notice, fresh, node, clock>>

\* The context of the marking: a background one if run's is cancelled by now.
ChooseContext ==
    /\ pc = "context"
    /\ marking' = IF cancelled THEN "background" ELSE "run"
    /\ pc' = "mark.get"
    /\ UNCHANGED <<stopped, main, cancelled, result, timedOut, copy>>
    /\ UNCHANGED <<notice, fresh, node, clock, faults>>

(***************************************************************************)
(* markNodeForDeletion, tried every second                                 *)
(***************************************************************************)
MarkGet ==
    /\ pc = "mark.get"
    /\ \/ /\ ~MarkingDone
          /\ copy' = node /\ fresh' = TRUE /\ pc' = "mark.update"
          /\ UNCHANGED <<stopped, main, cancelled, result, marking, timedOut, faults>>
       \/ MarkingDone /\ Goto("mark.wait") /\ UNCHANGED <<fresh, faults>>
       \/ Disturbance /\ Goto("mark.wait") /\ UNCHANGED fresh
    /\ UNCHANGED <<notice, node, clock>>

\* Variants: a condition that is True is written again; one that is False is
\* left alone.
markAgain(n) == [n EXCEPT !.terminating = "True", !.since = clock]
markAbsentOnly(n) ==
    IF n.terminating # "absent" THEN n
    ELSE [n EXCEPT !.terminating = "True", !.since = clock]

\* The condition is added, or set if it has the wrong status; one that is
\* True already keeps its transition time, and other conditions are kept.
addNodeTerminationCondition(n) ==
    IF n.terminating = "True" THEN n
    ELSE [n EXCEPT !.terminating = "True", !.since = clock]

\* Variant: the update does not carry the resourceVersion.
UpdateUnchecked == TRUE

\* The API server takes the update of a copy with the stored version only.
UpdateAccepted == fresh

\* The whole status of the copy is written.  A call that is cut off or whose
\* answer is lost may have been carried out.
MarkUpdate ==
    /\ pc = "mark.update"
    /\ \/ /\ UpdateAccepted /\ ~MarkingDone
          /\ node' = addNodeTerminationCondition(copy)
          /\ Return("nil") /\ UNCHANGED faults
       \/ /\ UpdateAccepted
          /\ (MarkingDone /\ UNCHANGED faults) \/ Disturbance
          /\ node' = addNodeTerminationCondition(copy)
          /\ Goto("mark.wait")
       \/ /\ \/ (~UpdateAccepted \/ MarkingDone) /\ UNCHANGED faults
             \/ Disturbance
          /\ UNCHANGED node
          /\ Goto("mark.wait")
    /\ fresh' = FALSE
    /\ UNCHANGED <<notice, clock>>

\* Variant: the context of run is looked at and not markCtx.
MarkWaitForRun ==
    /\ pc = "mark.wait"
    /\ IF timedOut \/ cancelled THEN Return("error") ELSE Goto("mark.get")
    /\ UNCHANGED <<notice, fresh, node, clock, faults>>

\* The attempt failed: the next one is made unless markCtx is done.
MarkWait ==
    /\ pc = "mark.wait"
    /\ IF MarkingDone THEN Return("error") ELSE Goto("mark.get")
    /\ UNCHANGED <<notice, fresh, node, clock, faults>>

----------------------------------------------------------------------------
(***************************************************************************)
(* Run                                                                     *)
(***************************************************************************)

\* Variant: the context is not cancelled.
StopSeenWithoutCancel ==
    /\ main = "select" /\ stopped
    /\ main' = "wait"
    /\ UNCHANGED <<stopped, cancelled, pc, result, marking, timedOut, copy>>
    /\ UNCHANGED <<notice, fresh, node, clock, faults>>

\* The select of Run takes either channel when both are ready.
StopSeen ==
    /\ main = "select" /\ stopped
    /\ main' = "wait" /\ cancelled' = TRUE
    /\ UNCHANGED <<stopped, pc, result, marking, timedOut, copy>>
    /\ UNCHANGED <<notice, fresh, node, clock, faults>>

\* Run returns what run has sent, or nil after a stop, once run has ended.
RunReturns ==
    /\ main \in {"select", "wait"} /\ result # "none"
    /\ main' = "returned" /\ cancelled' = TRUE
    /\ UNCHANGED <<stopped, pc, result, marking, timedOut, copy>>
    /\ UNCHANGED <<notice, fresh, node, clock, faults>>

----------------------------------------------------------------------------
(***************************************************************************)
(* The rest of the instance                                                *)
(***************************************************************************)

\* GCP announces the preemption, and does not take it back.
NoticeGiven ==
    /\ ~notice /\ notice' = TRUE
    /\ UNCHANGED <<process, fresh, node, clock, faults>>

\* SIGTERM.
Stop ==
    /\ ~stopped /\ main = "select" /\ Disturbance
    /\ stopped' = TRUE
    /\ UNCHANGED <<main, cancelled, pc, result, marking, timedOut, copy>>
    /\ UNCHANGED <<notice, fresh, node, clock>>

\* The 30 seconds pass.
Timeout ==
    /\ marking # "none" /\ ~timedOut /\ pc # "done" /\ Disturbance
    /\ timedOut' = TRUE
    /\ UNCHANGED <<stopped, main, cancelled, pc, result, marking, copy>>
    /\ UNCHANGED <<notice, fresh, node, clock>>

Heartbeat ==
    /\ node.beat < MaxBeats
    /\ node' = [node EXCEPT !.beat = @ + 1]
    /\ fresh' = FALSE
    /\ UNCHANGED <<notice, process, clock, faults>>

Tick ==
    /\ clock < MaxClock /\ clock' = clock + 1
    /\ UNCHANGED <<notice, process, fresh, node, faults>>

\* The container starts again.
NewProcess ==
    /\ stopped' = FALSE /\ main' = "select" /\ cancelled' = FALSE
    /\ pc' = "poll.first" /\ result' = "none" /\ marking' = "none"
    /\ timedOut' = FALSE /\ fresh' = FALSE
    /\ UNCHANGED <<notice, copy, node, clock>>

Restart == main = "returned" /\ NewProcess /\ UNCHANGED faults

\* The process is killed and started again; one that hangs may always be.
Kill ==
    /\ main # "returned" /\ NewProcess
    /\ Disturbance \/ (pc = "hung" /\ UNCHANGED faults)

----------------------------------------------------------------------------
run ==
    \/ PollEndpoint \/ PollCancelled \/ Recheck \/ ChooseContext
    \/ MarkGet \/ MarkUpdate \/ MarkWait

Run == StopSeen \/ RunReturns

Next ==
    \/ run \/ Run
    \/ NoticeGiven \/ Stop \/ Timeout \/ Heartbeat \/ Tick \/ Restart
    \/ Kill

Spec == Init /\ [][Next]_vars

\* Both goroutines are scheduled and their calls return, but the ones that
\* hang; the kubelet starts the container again.
FairSpec == Spec /\ WF_vars(run) /\ WF_vars(Run) /\ WF_vars(Restart)

----------------------------------------------------------------------------
(***************************************************************************)
(* Properties                                                              *)
(***************************************************************************)

\* A Node is marked only if GCP has announced the preemption, although run
\* also leaves its poll when it is cancelled (run's second look at the
\* endpoint).
MarkedOnlyOnNotice == node.terminating = "True" => notice

\* The handler, which writes back the whole status it has read, undoes no
\* update of the kubelet (markNodeForDeletion's Get and Status().Update).
HeartbeatsKept == [][node'.beat >= node.beat]_vars

\* The condition keeps the time at which it first became True through retries
\* after lost answers and through restarts (addNodeTerminationCondition).
FirstTransitionKept ==
    [][node.terminating = "True" =>
          node'.terminating = "True" /\ node'.since = node.since]_vars

\* run tells Run the truth about the marking: success if the Node is marked,
\* whatever answers were lost on the way, and an error only after markCtx was
\* done, for which a stop is not enough once the context is a background one
\* (run, "if so create a new background context for the polling call").
MarkingReported ==
    marking # "none" /\ pc = "done" =>
        IF result = "nil" THEN node.terminating = "True" ELSE MarkingDone

\* Run leaves no goroutine behind, and it waits only for one that it has told
\* to stop (Run, "Wait for run to stop").
NothingLeftRunning ==
    /\ main = "wait" => cancelled
    /\ main = "returned" => cancelled /\ pc = "done"

\* A preemption that is announced is reported on the Node in the end, if
\* stops, kills, timeouts and failed calls end, unless a request to the
\* endpoint is left without an answer (checkTerminationEndpoint).
NoticeReported == notice ~> (node.terminating = "True" \/ pc = "hung")

\* Run comes back after a stop, or the process is killed, with the same
\* exception: the cancellation does not reach the request.
StopReturns == stopped ~> (main = "returned" \/ ~stopped \/ pc = "hung")

\* Once run has seen the notice twice it goes on trying until the Node is
\* marked or 30 seconds are over (run, "Try every second to mark the node for
\* termination up to a 30 second timeout").
TriesUntilTimeout ==
    marking # "none" /\ pc = "done" => node.terminating = "True" \/ timedOut
=============================================================================
