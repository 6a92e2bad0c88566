---------------------------- MODULE EventsStream -----------------------------
(***************************************************************************)
(* One EventsStreamReactor: the executor's thread pushes events and counts *)
(* them, the reactor's own worker takes and writes them one at a time, and *)
(* gRPC completes writes, cancels the call and, once it is finished,       *)
(* reports it done.  The reactor is added and deleted by procedures of the *)
(* executor, which the module sees as a FIFO of what is left to run.       *)
(*                                                                         *)
(* m_queueSize is an unsigned counter, so it is kept modulo Word; unlike   *)
(* the executor's, it is changed outside of the mutex.                     *)
(***************************************************************************)
EXTENDS Integers, Sequences

CONSTANTS Word,      \* 2^64: values of m_queueSize
          Initial,   \* events of sendInitialState (6 in the code)
          MaxEmit    \* bound: changes notified after the reactor was created

ASSUME StreamAssumption ==
    /\ Word \in Nat /\ Word > 1
    /\ Initial \in Nat \ {0}
    /\ MaxEmit \in Nat

VARIABLES
    tasks,     \* procedures of the executor still to run for this reactor
    emitted,   \* notifications enqueued so far
    sink,      \* "new", "listed" in m_eventsSinks, "deleted"
    epc,       \* the executor thread: "idle" or inside pushEvent
    outbox,    \* events the running procedure still has to push
    evq,       \* m_eventsQueue
    qsize,     \* m_queueSize
    wpc,       \* the worker's place
    local,     \* the worker's local list; its front is being written
    status,    \* m_writeStatus
    writing,   \* a write is outstanding in gRPC
    notifies,  \* OnWriteDone calls between their store and their notify
    cpc,       \* OnCancel: "no", "notify", "done"
    finished,  \* Finish was called
    opc,       \* OnDone: "no", "joined", "done"
    sent,      \* events pushed, in order (history)
    written    \* events whose write succeeded, in order (history)

execVars == <<tasks, emitted, sink, epc, outbox>>
grpcVars == <<cpc, opc>>
vars == <<execVars, evq, qsize, wpc, local, status, writing, notifies,
          grpcVars, finished, sent, written>>

(* events() enqueues the procedure that adds the reactor before gRPC gets  *)
(* to see it.                                                              *)
Init ==
    /\ tasks = <<"add">>
    /\ emitted = 0
    /\ sink = "new"
    /\ epc = "idle"
    /\ outbox = 0
    /\ evq = <<>>
    /\ qsize = 0
    /\ wpc = "check"
    /\ local = <<>>
    /\ status = "Idle"
    /\ writing = FALSE
    /\ notifies = 0
    /\ cpc = "no"
    /\ finished = FALSE
    /\ opc = "no"
    /\ sent = <<>>
    /\ written = <<>>

Woken == IF wpc = "asleep" THEN "check" ELSE wpc

-----------------------------------------------------------------------------
(* Slips: actions below with a mistake this code could make.  No            *)
(* specification uses them.                                                *)

\* One event taken off the counter for a whole batch.
SubtractOne ==
    /\ wpc = "subtract"
    /\ qsize' = IF local = <<>> THEN qsize ELSE (qsize - 1) % Word
    /\ wpc' = IF local = <<>> THEN "finish" ELSE "mark"
    /\ UNCHANGED <<execVars, evq, local, status, writing, notifies, grpcVars,
                   finished, sent, written>>

\* The batch is copied and not moved.
SpliceCopying ==
    /\ wpc = "splice"
    /\ local' = evq
    /\ wpc' = "subtract"
    /\ UNCHANGED <<execVars, evq, qsize, status, writing, notifies, grpcVars,
                   finished, sent, written>>

\* The loop does not wait for the counter.
CheckWithoutWait ==
    /\ wpc = "check"
    /\ wpc' = "splice"
    /\ UNCHANGED <<execVars, evq, qsize, local, status, writing, notifies,
                   grpcVars, finished, sent, written>>

\* The status of the write before is left when the next one starts.
MarkNothing ==
    /\ wpc = "mark"
    /\ wpc' = "start"
    /\ UNCHANGED <<execVars, evq, qsize, local, status, writing, notifies, grpcVars,
                   finished, sent, written>>

\* OnWriteDone without notify_one().
WriteNotifyMissing ==
    /\ notifies > 0
    /\ notifies' = notifies - 1
    /\ UNCHANGED <<execVars, evq, qsize, wpc, local, status, writing, grpcVars,
                   finished, sent, written>>

\* OnCancel without notify_one().
CancelNotifyMissing ==
    /\ cpc = "notify"
    /\ cpc' = "done"
    /\ UNCHANGED <<execVars, evq, qsize, wpc, local, status, writing, notifies,
                   opc, finished, sent, written>>

\* OnDone without join().
DoneWithoutJoin ==
    /\ finished
    /\ ~writing /\ notifies = 0 /\ cpc # "notify"
    /\ opc = "no"
    /\ opc' = "joined"
    /\ UNCHANGED <<execVars, evq, qsize, wpc, local, status, writing, notifies,
                   cpc, finished, sent, written>>

-----------------------------------------------------------------------------
(* The executor's thread.                                                  *)

(* A change somewhere in the machine enqueues its notification.            *)
Emit ==
    /\ emitted < MaxEmit
    /\ emitted' = emitted + 1
    /\ tasks' = Append(tasks, "notify")
    /\ UNCHANGED <<sink, epc, outbox, evq, qsize, wpc, local, status, writing,
                   notifies, grpcVars, finished, sent, written>>

(* The next procedure: the reactor gets its initial state, or the event if *)
(* it is among the sinks, or is removed from them and deleted.             *)
RunTask ==
    /\ epc = "idle"
    /\ tasks # <<>>
    /\ tasks' = Tail(tasks)
    /\ outbox' = CASE Head(tasks) = "add" -> Initial
                   [] Head(tasks) = "notify" /\ sink = "listed" -> 1
                   [] OTHER -> 0
    /\ sink' = IF Head(tasks) = "release" THEN "deleted" ELSE sink
    /\ epc' = IF outbox' = 0 THEN "idle" ELSE "push"
    /\ UNCHANGED <<emitted, evq, qsize, wpc, local, status, writing, notifies,
                   grpcVars, finished, sent, written>>

(* pushEvent: the event is queued under the mutex...                       *)
Push ==
    /\ epc = "push"
    /\ evq' = Append(evq, Len(sent) + 1)
    /\ sent' = Append(sent, Len(sent) + 1)
    /\ epc' = "count"
    /\ UNCHANGED <<tasks, emitted, sink, outbox, qsize, wpc, local, status,
                   writing, notifies, grpcVars, finished, written>>

(* ...and counted after the mutex was released.                            *)
Count ==
    /\ epc = "count"
    /\ qsize' = (qsize + 1) % Word
    /\ epc' = "notify"
    /\ UNCHANGED <<tasks, emitted, sink, outbox, evq, wpc, local, status,
                   writing, notifies, grpcVars, finished, sent, written>>

(* The reactor joins the sinks once its initial state is pushed.           *)
Notify ==
    /\ epc = "notify"
    /\ wpc' = Woken
    /\ outbox' = outbox - 1
    /\ epc' = IF outbox = 1 THEN "idle" ELSE "push"
    /\ sink' = IF outbox = 1 THEN "listed" ELSE sink
    /\ UNCHANGED <<tasks, emitted, evq, qsize, local, status, writing, notifies,
                   grpcVars, finished, sent, written>>

Executor == RunTask \/ Push \/ Count \/ Notify

-----------------------------------------------------------------------------
(* worker()                                                                *)

Check ==
    /\ wpc = "check"
    /\ wpc' = IF qsize = 0 THEN "asleep" ELSE "splice"
    /\ UNCHANGED <<execVars, evq, qsize, local, status, writing, notifies,
                   grpcVars, finished, sent, written>>

Splice ==
    /\ wpc = "splice"
    /\ local' = evq
    /\ evq' = <<>>
    /\ wpc' = "subtract"
    /\ UNCHANGED <<execVars, qsize, status, writing, notifies, grpcVars,
                   finished, sent, written>>

Subtract ==
    /\ wpc = "subtract"
    /\ qsize' = (qsize - Len(local)) % Word
    /\ wpc' = IF local = <<>> THEN "finish" ELSE "mark"
    /\ UNCHANGED <<execVars, evq, local, status, writing, notifies, grpcVars,
                   finished, sent, written>>

MarkInProgress ==
    /\ wpc = "mark"
    /\ status' = "InProgress"
    /\ wpc' = "start"
    /\ UNCHANGED <<execVars, evq, qsize, local, writing, notifies, grpcVars,
                   finished, sent, written>>

StartWrite ==
    /\ wpc = "start"
    /\ writing' = TRUE
    /\ wpc' = "await"
    /\ UNCHANGED <<execVars, evq, qsize, local, status, notifies, grpcVars,
                   finished, sent, written>>

(* m_writeStatus.wait(InProgress), then the status is looked at.           *)
AwaitWrite ==
    /\ wpc = "await"
    /\ wpc' = CASE status = "InProgress" -> "dozing"
                [] status = "Failed" -> "finish"
                [] status = "Idle" -> IF Len(local) = 1 THEN "check" ELSE "mark"
    /\ local' = IF status = "Idle" THEN Tail(local) ELSE local
    /\ UNCHANGED <<execVars, evq, qsize, status, writing, notifies, grpcVars,
                   finished, sent, written>>

Finish ==
    /\ wpc = "finish"
    /\ finished' = TRUE
    /\ wpc' = "exit"
    /\ UNCHANGED <<execVars, evq, qsize, local, status, writing, notifies,
                   grpcVars, sent, written>>

Exit ==
    /\ wpc = "exit"
    /\ wpc' = "ended"
    /\ UNCHANGED <<execVars, evq, qsize, local, status, writing, notifies,
                   grpcVars, finished, sent, written>>

WorkerLoop ==
    \/ Check \/ Splice \/ Subtract
    \/ MarkInProgress \/ StartWrite \/ AwaitWrite
    \/ Finish \/ Exit

-----------------------------------------------------------------------------
(* gRPC                                                                    *)

(* OnWriteDone(ok): store, then notify.  A write may fail at any time.     *)
WriteDone(ok) ==
    /\ writing
    /\ writing' = FALSE
    /\ status' = IF ok THEN "Idle" ELSE "Failed"
    /\ written' = IF ok THEN Append(written, Head(local)) ELSE written
    /\ notifies' = notifies + 1
    /\ UNCHANGED <<execVars, evq, qsize, wpc, local, grpcVars, finished, sent>>

WriteNotify ==
    /\ notifies > 0
    /\ notifies' = notifies - 1
    /\ wpc' = IF wpc = "dozing" THEN "await" ELSE wpc
    /\ UNCHANGED <<execVars, evq, qsize, local, status, writing, grpcVars,
                   finished, sent, written>>

(* OnCancel adds one to the counter without queuing anything.              *)
Cancel ==
    /\ cpc = "no"
    /\ opc = "no"
    /\ qsize' = (qsize + 1) % Word
    /\ cpc' = "notify"
    /\ UNCHANGED <<execVars, evq, wpc, local, status, writing, notifies, opc,
                   finished, sent, written>>

CancelNotify ==
    /\ cpc = "notify"
    /\ wpc' = Woken
    /\ cpc' = "done"
    /\ UNCHANGED <<execVars, evq, qsize, local, status, writing, notifies, opc,
                   finished, sent, written>>

(* OnDone comes after Finish and after every other reaction has returned;  *)
(* it joins the worker and then asks the executor to delete the reactor.   *)
DoneJoin ==
    /\ finished
    /\ ~writing /\ notifies = 0 /\ cpc # "notify"
    /\ opc = "no"
    /\ wpc = "ended"
    /\ opc' = "joined"
    /\ UNCHANGED <<execVars, evq, qsize, wpc, local, status, writing, notifies,
                   cpc, finished, sent, written>>

DoneRelease ==
    /\ opc = "joined"
    /\ tasks' = Append(tasks, "release")
    /\ opc' = "done"
    /\ UNCHANGED <<emitted, sink, epc, outbox, evq, qsize, wpc, local, status,
                   writing, notifies, cpc, finished, sent, written>>

OnDone == DoneJoin \/ DoneRelease

Released == sink = "deleted" /\ tasks = <<>> /\ UNCHANGED vars

Next ==
    \/ Emit
    \/ Executor
    \/ WorkerLoop
    \/ \E ok \in BOOLEAN : WriteDone(ok)
    \/ WriteNotify
    \/ Cancel
    \/ CancelNotify
    \/ OnDone
    \/ Released

Spec == Init /\ [][Next]_vars

(* Every thread goes on when it can and gRPC completes what was started;   *)
(* no event has to be emitted and no client has to cancel.                 *)
Fairness ==
    /\ WF_vars(Executor)
    /\ WF_vars(WorkerLoop)
    /\ WF_vars(\E ok \in BOOLEAN : WriteDone(ok))
    /\ WF_vars(WriteNotify)
    /\ WF_vars(CancelNotify)
    /\ WF_vars(OnDone)

FairSpec == Spec /\ Fairness

-----------------------------------------------------------------------------
TypeOK ==
    /\ tasks \in Seq({"add", "notify", "release"})
    /\ emitted \in 0..MaxEmit
    /\ sink \in {"new", "listed", "deleted"}
    /\ epc \in {"idle", "push", "count", "notify"}
    /\ outbox \in Nat
    /\ evq \in Seq(Nat)
    /\ qsize \in 0..Word - 1
    /\ wpc \in {"check", "asleep", "splice", "subtract", "mark", "start",
                "await", "dozing", "finish", "exit", "ended"}
    /\ local \in Seq(Nat)
    /\ status \in {"Idle", "InProgress", "Failed"}
    /\ writing \in BOOLEAN
    /\ notifies \in Nat
    /\ cpc \in {"no", "notify", "done"}
    /\ finished \in BOOLEAN
    /\ opc \in {"no", "joined", "done"}
    /\ sent \in Seq(Nat)
    /\ written \in Seq(Nat)

Cancelled == cpc # "no"

CancelPill == IF Cancelled THEN 1 ELSE 0
Taken == IF wpc = "subtract" THEN Len(local) ELSE 0
Uncounted == IF epc = "count" THEN 1 ELSE 0

(* Although it may wrap below zero when the worker takes an event that is   *)
(* not counted yet, the counter is, modulo its width, the queue plus what  *)
(* was taken and not subtracted plus the cancellation minus that event.    *)
Accounting ==
    qsize = (Len(evq) + Taken + CancelPill - Uncounted) % Word

Popped == wpc \in {"await", "dozing"} /\ status = "Idle"
Unwritten == IF Popped THEN Tail(local) ELSE local

(* The client sees what was pushed, in order, nothing twice, and what it   *)
(* has not seen is still with the worker or in the queue.                  *)
DeliveredInOrder == written \o Unwritten \o evq = sent

(* Nobody waits on a counter or a write status that has changed without a  *)
(* notification on its way.                                                *)
NoLostWakeup ==
    /\ wpc = "asleep" /\ qsize # 0 => epc = "notify" \/ cpc = "notify"
    /\ wpc = "dozing" /\ status # "InProgress" => notifies > 0

(* A write is started only after the previous one completed, and its       *)
(* completion cannot be overwritten by the store that announces it.        *)
OneWriteAtATime ==
    /\ wpc \in {"mark", "start"} => ~writing
    /\ writing => status = "InProgress"

(* Once the reactor is deleted no thread of its own runs, no reaction and  *)
(* no push is under way, and its worker was joined.                        *)
QuietWhenDeleted ==
    sink = "deleted" =>
        /\ wpc = "ended" /\ opc = "done"
        /\ ~writing /\ notifies = 0
        /\ cpc # "notify"
        /\ epc = "idle"

(* The worker passes its wait, and so may find nothing and end the stream, *)
(* only for a queued event, a cancellation, or in the window between a     *)
(* push and its count.                                                     *)
PassesWaitForCause ==
    [][wpc = "check" /\ wpc' = "splice" =>
         evq # <<>> \/ Cancelled \/ epc = "count"]_vars

(* A stream that was cancelled, or whose write failed, is freed.           *)
EndedStreamIsDeleted == (Cancelled \/ status = "Failed") ~> sink = "deleted"

(* Every event pushed is written, unless the stream ends first.            *)
EventsAreWritten ==
    \A i \in 1 .. Initial + MaxEmit :
        Len(sent) >= i ~> Len(written) >= i \/ finished
==============================================================================
