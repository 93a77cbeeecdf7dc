--------------------- MODULE TerminationHandlerProofs ---------------------
(***************************************************************************)
(* What TerminationHandler promises, for every bound on disturbances,      *)
(* heartbeats and the clock.                                               *)
(***************************************************************************)
EXTENDS TerminationHandler, TLAPS

\* The type invariant in two parts: the Boolean variables, and the others.
FlagsOK ==
    /\ notice \in BOOLEAN /\ stopped \in BOOLEAN /\ cancelled \in BOOLEAN
    /\ timedOut \in BOOLEAN /\ fresh \in BOOLEAN

ValuesOK ==
    /\ main \in {"select", "wait", "returned"}
    /\ pc \in {"poll.first", "poll", "recheck", "hung", "context", "mark.get",
               "mark.update", "mark.wait", "done"}
    /\ result \in {"none", "nil", "error"}
    /\ marking \in {"none", "run", "background"}
    /\ copy \in Node /\ node \in Node
    /\ clock \in 0..MaxClock /\ faults \in 0..MaxFaults

\* run gets past its second look at the endpoint only with a notice, and a
\* copy with the stored resourceVersion is the stored Node.
NoticeInv ==
    pc \in {"context", "mark.get", "mark.update", "mark.wait"} => notice

CopyInv == fresh => copy = node

\* What run has done so far, and what Run knows of it.
OutcomeInv ==
    /\ (result # "none") <=> (pc = "done")
    /\ pc \in {"poll.first", "poll", "recheck", "context"} => marking = "none"
    /\ NothingLeftRunning
    /\ MarkingReported

HandlerInv ==
    FlagsOK /\ ValuesOK /\ NoticeInv /\ MarkedOnlyOnNotice /\ CopyInv

USE HandlerAssumption

\* A Node with the condition added is a Node that differs from the old one in
\* nothing but the condition (addNodeTerminationCondition).
LEMMA ConditionAdded ==
    ASSUME NEW n \in Node, clock \in 0..MaxClock
    PROVE  /\ addNodeTerminationCondition(n) \in Node
           /\ addNodeTerminationCondition(n).terminating = "True"
           /\ addNodeTerminationCondition(n).beat = n.beat
           /\ n.terminating = "True" => addNodeTerminationCondition(n) = n
  BY DEF addNodeTerminationCondition, Node

\* The invariant holds when the handler starts (Run).
LEMMA HandlerInit == Init => HandlerInv
<1> SUFFICES ASSUME Init PROVE HandlerInv
  OBVIOUS
<1>1. FlagsOK
  BY Zenon DEF Init, FlagsOK
<1>2. ValuesOK
  BY DEF Init, ValuesOK, Node
<1>3. NoticeInv /\ MarkedOnlyOnNotice /\ CopyInv
  BY DEF Init, NoticeInv, MarkedOnlyOnNotice, CopyInv
<1> QED
  BY <1>1, <1>2, <1>3 DEF HandlerInv

\* The Boolean variables stay Boolean (Run, run).
LEMMA FlagsStep == FlagsOK /\ [Next]_vars => FlagsOK'
<1> SUFFICES ASSUME FlagsOK, [Next]_vars PROVE FlagsOK'
  OBVIOUS
<1> USE DEF FlagsOK, process, EndpointFails, Goto, Return
<1>1. CASE PollEndpoint
  BY <1>1, Zenon DEF PollEndpoint
<1>2. CASE PollCancelled
  BY <1>2, Zenon DEF PollCancelled
<1>3. CASE Recheck
  BY <1>3, Zenon DEF Recheck
<1>4. CASE ChooseContext
  BY <1>4, Zenon DEF ChooseContext
<1>5. CASE MarkGet
  BY <1>5, Zenon DEF MarkGet
<1>6. CASE MarkUpdate
  BY <1>6, Zenon DEF MarkUpdate, UpdateAccepted
<1>7. CASE MarkWait
  BY <1>7, Zenon DEF MarkWait
<1>8. CASE Run
  BY <1>8, Zenon DEF Run, StopSeen, RunReturns
<1>9. CASE NoticeGiven
  BY <1>9, Zenon DEF NoticeGiven
<1>10. CASE Stop \/ Timeout
  BY <1>10, Zenon DEF Stop, Timeout
<1>11. CASE Heartbeat
  BY <1>11, Zenon DEF Heartbeat, Node
<1>12. CASE Tick
  BY <1>12, Zenon DEF Tick
<1>13. CASE Restart \/ Kill
  BY <1>13, Zenon DEF Restart, Kill, NewProcess
<1>14. CASE UNCHANGED vars
  BY <1>14, Zenon DEF vars
<1> QED
  BY <1>1, <1>2, <1>3, <1>4, <1>5, <1>6, <1>7, <1>8, <1>9, <1>10, <1>11, <1>12, <1>13, <1>14 DEF Next, run

\* The other variables keep their types (run, markNodeForDeletion, Run).
LEMMA ValuesStep == ValuesOK /\ [Next]_vars => ValuesOK'
<1> SUFFICES ASSUME ValuesOK, [Next]_vars PROVE ValuesOK'
  OBVIOUS
<1> USE DEF ValuesOK, process, EndpointFails, Goto, Return, Disturbance
<1>1. CASE PollEndpoint
  BY <1>1 DEF PollEndpoint
<1>2. CASE PollCancelled
  BY <1>2 DEF PollCancelled
<1>3. CASE Recheck
  BY <1>3 DEF Recheck
<1>4. CASE ChooseContext
  BY <1>4 DEF ChooseContext
<1>5. CASE MarkGet
  BY <1>5 DEF MarkGet
<1>6. CASE MarkUpdate
  BY <1>6, ConditionAdded DEF MarkUpdate, UpdateAccepted
<1>7. CASE MarkWait
  BY <1>7 DEF MarkWait
<1>8. CASE Run
  BY <1>8 DEF Run, StopSeen, RunReturns
<1>9. CASE NoticeGiven
  BY <1>9 DEF NoticeGiven
<1>10. CASE Stop \/ Timeout
  BY <1>10 DEF Stop, Timeout
<1>11. CASE Heartbeat
  BY <1>11 DEF Heartbeat, Node
<1>12. CASE Tick
  BY <1>12 DEF Tick
<1>13. CASE Restart \/ Kill
  BY <1>13 DEF Restart, Kill, NewProcess
<1>14. CASE UNCHANGED vars
  BY <1>14 DEF vars
<1> QED
  BY <1>1, <1>2, <1>3, <1>4, <1>5, <1>6, <1>7, <1>8, <1>9, <1>10, <1>11, <1>12, <1>13, <1>14 DEF Next, run

\* Nothing is marked without a notice (run's second look at the endpoint).
LEMMA NoticeStep == (FlagsOK /\ ValuesOK /\ NoticeInv /\ MarkedOnlyOnNotice) /\ [Next]_vars => (NoticeInv /\ MarkedOnlyOnNotice)'
<1> SUFFICES ASSUME (FlagsOK /\ ValuesOK /\ NoticeInv /\ MarkedOnlyOnNotice), [Next]_vars PROVE (NoticeInv /\ MarkedOnlyOnNotice)'
  OBVIOUS
<1> USE DEF NoticeInv, MarkedOnlyOnNotice, process, EndpointFails, Goto, Return
<1>1. CASE PollEndpoint
  BY <1>1 DEF PollEndpoint
<1>2. CASE PollCancelled
  BY <1>2 DEF PollCancelled
<1>3. CASE Recheck
  BY <1>3 DEF Recheck
<1>4. CASE ChooseContext
  BY <1>4 DEF ChooseContext
<1>5. CASE MarkGet
  BY <1>5 DEF MarkGet
<1>6. CASE MarkUpdate
  BY <1>6 DEF MarkUpdate, UpdateAccepted
<1>7. CASE MarkWait
  BY <1>7 DEF MarkWait
<1>8. CASE Run
  BY <1>8 DEF Run, StopSeen, RunReturns
<1>9. CASE NoticeGiven
  BY <1>9 DEF NoticeGiven
<1>10. CASE Stop \/ Timeout
  BY <1>10 DEF Stop, Timeout
<1>11. CASE Heartbeat
  BY <1>11 DEF Heartbeat, Node
<1>12. CASE Tick
  BY <1>12 DEF Tick
<1>13. CASE Restart \/ Kill
  BY <1>13 DEF Restart, Kill, NewProcess
<1>14. CASE UNCHANGED vars
  BY <1>14 DEF vars
<1> QED
  BY <1>1, <1>2, <1>3, <1>4, <1>5, <1>6, <1>7, <1>8, <1>9, <1>10, <1>11, <1>12, <1>13, <1>14 DEF Next, run

\* The Node changes behind the copy only if its version does
\* (markNodeForDeletion).
LEMMA CopyStep == CopyInv /\ [Next]_vars => CopyInv'
<1> SUFFICES ASSUME CopyInv, [Next]_vars PROVE CopyInv'
  OBVIOUS
<1> USE DEF CopyInv, process, EndpointFails, Goto, Return
<1>1. CASE PollEndpoint
  BY <1>1 DEF PollEndpoint
<1>2. CASE PollCancelled
  BY <1>2 DEF PollCancelled
<1>3. CASE Recheck
  BY <1>3 DEF Recheck
<1>4. CASE ChooseContext
  BY <1>4 DEF ChooseContext
<1>5. CASE MarkGet
  BY <1>5 DEF MarkGet
<1>6. CASE MarkUpdate
  BY <1>6 DEF MarkUpdate, UpdateAccepted
<1>7. CASE MarkWait
  BY <1>7 DEF MarkWait
<1>8. CASE Run
  BY <1>8 DEF Run, StopSeen, RunReturns
<1>9. CASE NoticeGiven
  BY <1>9 DEF NoticeGiven
<1>10. CASE Stop \/ Timeout
  BY <1>10 DEF Stop, Timeout
<1>11. CASE Heartbeat
  BY <1>11 DEF Heartbeat, Node
<1>12. CASE Tick
  BY <1>12 DEF Tick
<1>13. CASE Restart \/ Kill
  BY <1>13 DEF Restart, Kill, NewProcess
<1>14. CASE UNCHANGED vars
  BY <1>14 DEF vars
<1> QED
  BY <1>1, <1>2, <1>3, <1>4, <1>5, <1>6, <1>7, <1>8, <1>9, <1>10, <1>11, <1>12, <1>13, <1>14 DEF Next, run

\* Every step keeps the invariant (run, markNodeForDeletion, Run).
LEMMA HandlerStep == HandlerInv /\ [Next]_vars => HandlerInv'
  BY FlagsStep, ValuesStep, NoticeStep, CopyStep DEF HandlerInv

\* Hence it always holds.
LEMMA HandlerInvariant == Spec => []HandlerInv
  BY HandlerInit, HandlerStep, PTL DEF Spec

\* Every variable keeps its type (all of pkg/termination/termination.go).
THEOREM TypeCorrect == Spec => []TypeOK
<1>1. HandlerInv => TypeOK
  BY DEF HandlerInv, FlagsOK, ValuesOK, TypeOK
<1> QED
  BY <1>1, HandlerInvariant, PTL

\* A Node is never marked without a preemption notice, whatever is cancelled,
\* retried or restarted (run's second look at the endpoint).
THEOREM MarkedOnNotice == Spec => []MarkedOnlyOnNotice
  BY HandlerInvariant, PTL DEF HandlerInv

\* A step that changes the Node is a heartbeat or adds the condition to the
\* stored Node itself (markNodeForDeletion).
LEMMA NodeStep ==
    ASSUME HandlerInv, [Next]_vars
    PROVE  /\ node'.beat >= node.beat
           /\ node.terminating = "True" =>
                node'.terminating = "True" /\ node'.since = node.since
<1>0. node \in Node /\ copy \in Node /\ clock \in 0..MaxClock /\ node.beat \in Nat
  BY DEF HandlerInv, ValuesOK, Node
<1>1. CASE MarkUpdate
  <2>1. CASE UNCHANGED node
    BY <1>0, <2>1
  <2>2. CASE fresh /\ node' = addNodeTerminationCondition(copy)
    <3>1. copy = node
      BY <2>2 DEF HandlerInv, CopyInv
    <3> QED
      BY <1>0, <2>2, <3>1, ConditionAdded
  <2> QED
    BY <1>1, <2>1, <2>2 DEF MarkUpdate, UpdateAccepted
<1>2. CASE Heartbeat
  BY <1>0, <1>2 DEF Heartbeat, Node
<1>3. CASE UNCHANGED node
  BY <1>0, <1>3
<1> QED
  BY <1>1, <1>2, <1>3
     DEF Next, run, Run, PollEndpoint, PollCancelled, Recheck, ChooseContext,
         MarkGet, MarkWait, StopSeen, RunReturns, NoticeGiven, Stop, Timeout,
         Tick, Restart, Kill, NewProcess, vars

\* The handler undoes no update of the kubelet (markNodeForDeletion).
THEOREM KubeletUpdatesKept == Spec => HeartbeatsKept
<1>1. HandlerInv /\ [Next]_vars => [node'.beat >= node.beat]_vars
  BY NodeStep
<1> QED
  BY <1>1, HandlerInvariant, PTL DEF Spec, HeartbeatsKept

\* The condition keeps its first transition time (addNodeTerminationCondition).
THEOREM TransitionTimeKept == Spec => FirstTransitionKept
<1>1. HandlerInv /\ [Next]_vars =>
        [node.terminating = "True" =>
            node'.terminating = "True" /\ node'.since = node.since]_vars
  BY NodeStep
<1> QED
  BY <1>1, HandlerInvariant, PTL DEF Spec, FirstTransitionKept

\* Every step keeps what run reports true.
LEMMA OutcomeStep == HandlerInv /\ OutcomeInv /\ [Next]_vars => OutcomeInv'
<1> SUFFICES ASSUME HandlerInv, OutcomeInv, [Next]_vars PROVE OutcomeInv'
  OBVIOUS
<1>0. node \in Node /\ copy \in Node /\ clock \in 0..MaxClock
  BY DEF HandlerInv, ValuesOK
<1> USE DEF OutcomeInv, NothingLeftRunning, MarkingReported, MarkingDone, process,
        EndpointFails, Goto, Return
<1>1. CASE PollEndpoint \/ PollCancelled
  BY <1>1 DEF PollEndpoint, PollCancelled
<1>2. CASE Recheck
  BY <1>2 DEF Recheck
<1>3. CASE ChooseContext
  BY <1>3 DEF ChooseContext
<1>4. CASE MarkGet
  BY <1>4 DEF MarkGet
<1>5. CASE MarkUpdate
  BY <1>0, <1>5, ConditionAdded DEF MarkUpdate
<1>6. CASE MarkWait
  BY <1>6 DEF MarkWait
<1>7. CASE StopSeen
  BY <1>7 DEF StopSeen
<1>8. CASE RunReturns
  BY <1>8 DEF RunReturns
<1>9. CASE NoticeGiven \/ Stop \/ Tick
  BY <1>9 DEF NoticeGiven, Stop, Tick
<1>10. CASE Timeout
  BY <1>10 DEF Timeout
<1>11. CASE Heartbeat
  <2>1. node'.terminating = node.terminating
    BY <1>0, <1>11 DEF Heartbeat, Node
  <2> QED
    BY <1>11, <2>1 DEF Heartbeat
<1>12. CASE Restart \/ Kill
  BY <1>12 DEF Restart, Kill, NewProcess
<1>13. CASE UNCHANGED vars
  BY <1>13 DEF vars
<1> QED
  BY <1>1, <1>2, <1>3, <1>4, <1>5, <1>6, <1>7, <1>8, <1>9, <1>10, <1>11, <1>12, <1>13
     DEF Next, run, Run

\* Hence it always is.
LEMMA OutcomeInvariant == Spec => []OutcomeInv
<1>1. Init => OutcomeInv
  BY DEF Init, OutcomeInv, NothingLeftRunning, MarkingReported
<1> QED
  BY <1>1, OutcomeStep, HandlerInvariant, PTL DEF Spec

\* run reports success only of a marked Node, and gives up only when the
\* context it marks with is done (run).
THEOREM MarkingReportedTruly == Spec => []MarkingReported
<1>1. OutcomeInv => MarkingReported
  BY DEF OutcomeInv
<1> QED
  BY <1>1, OutcomeInvariant, PTL

\* Run waits only for a goroutine it has cancelled, and leaves none (Run).
THEOREM NoGoroutineLeft == Spec => []NothingLeftRunning
<1>1. OutcomeInv => NothingLeftRunning
  BY DEF OutcomeInv
<1> QED
  BY <1>1, OutcomeInvariant, PTL
=============================================================================
