---------------------------- MODULE MetricsStream -----------------------------
(***************************************************************************)
(* One MetricsStreamReactor, next to the executor that drives the brew     *)
(* timer: its worker reads the sensors and the timer, writes what it read, *)
(* waits for the write and then for the period or the cancellation; gRPC   *)
(* completes writes, cancels the call once, and reports it done after it   *)
(* was finished.  Of what is read only the timer matters here.             *)
(***************************************************************************)
EXTENDS BrewTimer

CONSTANT MaxNotifies   \* bound: OnWriteDone calls that have not returned

ASSUME MetricsAssumption == MaxNotifies \in Nat \ {0}

VARIABLES
    stream,    \* "new", "open", "refused", "deleted"
    wpc,       \* the worker's place
    loaded,    \* the state elapsedTime loaded
    seen,      \* history: the brew that state was about
    shown,     \* the brew time in the metrics
    status,    \* m_writeStatus
    writing,   \* a write is outstanding in gRPC
    notifies,  \* OnWriteDone calls between their store and their notify
    cancelled, \* m_cancel has its value
    finished   \* Finish was called

readVars == <<loaded, seen, shown>>
grpcVars == <<status, writing, notifies, cancelled, finished>>
vars == <<timerVars, stream, wpc, readVars, grpcVars>>

Init ==
    /\ TimerInit
    /\ stream = "new"
    /\ wpc = "unborn"
    /\ loaded = 0
    /\ seen = NoBrew
    /\ shown = 0
    /\ status = "Idle"
    /\ writing = FALSE
    /\ notifies = 0
    /\ cancelled = FALSE
    /\ finished = FALSE

-----------------------------------------------------------------------------
(* Slips: actions below with a mistake this code could make.                *)

\* elapsedTime that loads the state again for its value.
ComputeReloading ==
    /\ wpc = "compute"
    /\ shown' = IF IsRunning(loaded) THEN (Now - Value(timer)) % Word ELSE loaded
    /\ wpc' = "mark"
    /\ UNCHANGED <<timerVars, stream, loaded, seen, grpcVars>>

\* The status of the write before is left when the next one starts.
MarkNothing ==
    /\ wpc = "mark"
    /\ wpc' = "start"
    /\ UNCHANGED <<timerVars, stream, readVars, grpcVars>>

\* The period is slept away, whatever is cancelled.
PauseSleeping ==
    /\ wpc = "pause"
    /\ wpc' = "load"
    /\ UNCHANGED <<timerVars, stream, readVars, grpcVars>>

-----------------------------------------------------------------------------
(* metrics(): the constructor throws where there is no such PID controller, *)
(* before it starts the worker, and no reactor is returned.                *)
Open ==
    /\ stream = "new"
    /\ \/ stream' = "open" /\ wpc' = "load"
       \/ stream' = "refused" /\ UNCHANGED wpc
    /\ UNCHANGED <<timerVars, readVars, grpcVars>>

(* The worker: elapsedTime loads the state first and the clock after it.   *)
Load ==
    /\ wpc = "load"
    /\ loaded' = timer
    /\ seen' = brew
    /\ wpc' = "compute"
    /\ UNCHANGED <<timerVars, stream, shown, grpcVars>>

Compute ==
    /\ wpc = "compute"
    /\ shown' = Elapsed(loaded)
    /\ wpc' = "mark"
    /\ UNCHANGED <<timerVars, stream, loaded, seen, grpcVars>>

MarkInProgress ==
    /\ wpc = "mark"
    /\ status' = "InProgress"
    /\ wpc' = "start"
    /\ UNCHANGED <<timerVars, stream, readVars, writing, notifies, cancelled, finished>>

StartWrite ==
    /\ wpc = "start"
    /\ writing' = TRUE
    /\ wpc' = "await"
    /\ UNCHANGED <<timerVars, stream, readVars, status, notifies, cancelled, finished>>

AwaitWrite ==
    /\ wpc = "await"
    /\ wpc' = CASE status = "InProgress" -> "dozing"
                [] status = "Failed" -> "finish"
                [] status = "Idle" -> "pause"
    /\ UNCHANGED <<timerVars, stream, readVars, grpcVars>>

(* cancel.wait_for(timeout): the cancellation, or the period is over.      *)
Pause ==
    /\ wpc = "pause"
    /\ wpc' = IF cancelled THEN "finish" ELSE "load"
    /\ UNCHANGED <<timerVars, stream, readVars, grpcVars>>

Finish ==
    /\ wpc = "finish"
    /\ finished' = TRUE
    /\ wpc' = "exit"
    /\ UNCHANGED <<timerVars, stream, readVars, status, writing, notifies, cancelled>>

Exit ==
    /\ wpc = "exit"
    /\ wpc' = "ended"
    /\ UNCHANGED <<timerVars, stream, readVars, grpcVars>>

WorkerLoop ==
    \/ Load \/ Compute
    \/ MarkInProgress \/ StartWrite \/ AwaitWrite
    \/ Pause
    \/ Finish \/ Exit

-----------------------------------------------------------------------------
(* gRPC.  OnWriteDone(ok): store, then notify.                             *)
WriteDone(ok) ==
    /\ writing
    /\ notifies < MaxNotifies
    /\ writing' = FALSE
    /\ status' = IF ok THEN "Idle" ELSE "Failed"
    /\ notifies' = notifies + 1
    /\ UNCHANGED <<timerVars, stream, wpc, readVars, cancelled, finished>>

WriteNotify ==
    /\ notifies > 0
    /\ notifies' = notifies - 1
    /\ wpc' = IF wpc = "dozing" THEN "await" ELSE wpc
    /\ UNCHANGED <<timerVars, stream, readVars, status, writing, cancelled, finished>>

(* OnCancel sets the promise's value and wakes the worker from its pause.  *)
Cancel ==
    /\ stream = "open"
    /\ ~cancelled
    /\ cancelled' = TRUE
    /\ UNCHANGED <<timerVars, stream, wpc, readVars, status, writing, notifies, finished>>

(* OnDone joins the worker and deletes the reactor.                        *)
Done ==
    /\ finished
    /\ ~writing /\ notifies = 0
    /\ stream = "open"
    /\ wpc = "ended"
    /\ stream' = "deleted"
    /\ UNCHANGED <<timerVars, wpc, readVars, grpcVars>>

(* The executor and the clock.                                             *)
Timing ==
    /\ Start \/ Stop \/ Reset \/ Tick
    /\ UNCHANGED <<stream, wpc, readVars, grpcVars>>

Next ==
    \/ Open
    \/ WorkerLoop
    \/ \E ok \in BOOLEAN : WriteDone(ok)
    \/ WriteNotify
    \/ Cancel
    \/ Done
    \/ Timing

Spec == Init /\ [][Next]_vars

(* The worker and gRPC go on when they can; time need not pass.            *)
Fairness ==
    /\ WF_vars(WorkerLoop)
    /\ WF_vars(\E ok \in BOOLEAN : WriteDone(ok))
    /\ WF_vars(WriteNotify)
    /\ WF_vars(Done)

FairSpec == Spec /\ Fairness

-----------------------------------------------------------------------------
MetricsTypeOK ==
    /\ TimerTypeOK
    /\ stream \in {"new", "open", "refused", "deleted"}
    /\ wpc \in {"unborn", "load", "compute", "mark", "start", "await", "dozing",
                "pause", "finish", "exit", "ended"}
    /\ loaded \in 0 .. Word - 1
    /\ seen \in [phase : {"zero", "running", "stopped"},
                 from : 0 .. Half + MaxTime, to : 0 .. Half + MaxTime]
    /\ shown \in 0 .. Word - 1
    /\ status \in {"Idle", "InProgress", "Failed"}
    /\ writing \in BOOLEAN
    /\ notifies \in 0 .. MaxNotifies
    /\ cancelled \in BOOLEAN
    /\ finished \in BOOLEAN

(* The time that is shown is the time of the brew whose state was loaded,  *)
(* whatever the executor did to the timer before the clock was read and    *)
(* however wrong an earlier brew came out, unless the low bits of the      *)
(* clock have wrapped during that brew.                                    *)
MetricsShowBrewTime ==
    [][wpc = "compute" /\ wpc' = "mark" /\ ~Wrapped(seen)
         => shown' = BrewTime(seen)]_vars

(* The metrics are not touched, and no other write is started, while gRPC  *)
(* may read them, and a completion is never overwritten.                   *)
WritesDoNotOverlap ==
    writing => wpc \in {"await", "dozing"} /\ status = "InProgress"

(* A stream that was cancelled, or whose write failed, is freed.           *)
EndedMetricsAreDeleted == (cancelled \/ status = "Failed") ~> stream = "deleted"
==============================================================================
