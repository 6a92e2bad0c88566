----------------------------- MODULE SerialQueue -----------------------------
(***************************************************************************)
(* What ProceduresSerialExecutor promises its users, without its threads,  *)
(* its lock and its counter: procedures run one at a time, each exactly    *)
(* once, in the order in which they were accepted, and the worker stops    *)
(* only after the executor was closed and everything accepted has run.     *)
(***************************************************************************)
EXTENDS Sequences

CONSTANTS Tasks,   \* the procedures handed to the executor
          None     \* no procedure is running; not one of Tasks

VARIABLES pending,   \* accepted and not started
          running,   \* the procedure being invoked, or None
          closed,    \* the destructor has begun
          stopped    \* the worker has left its loop

vars == <<pending, running, closed, stopped>>

Init ==
    /\ pending = <<>>
    /\ running = None
    /\ closed = FALSE
    /\ stopped = FALSE

(* A procedure is accepted; once the executor is closed only a running     *)
(* procedure can still submit another one.                                 *)
Submit(t) ==
    /\ UNCHANGED <<running, closed, stopped>>
    /\ pending' = Append(pending, t)
    /\ ~stopped
    /\ closed => running # None

Start ==
    /\ running = None
    /\ pending # <<>>
    /\ running' = Head(pending)
    /\ pending' = Tail(pending)
    /\ UNCHANGED <<closed, stopped>>

Finish ==
    /\ running # None
    /\ running' = None
    /\ UNCHANGED <<pending, closed, stopped>>

Close ==
    /\ ~closed
    /\ closed' = TRUE
    /\ UNCHANGED <<pending, running, stopped>>

Stop ==
    /\ closed
    /\ pending = <<>>
    /\ running = None
    /\ ~stopped
    /\ stopped' = TRUE
    /\ UNCHANGED <<pending, running, closed>>

Next ==
    \/ \E t \in Tasks : Submit(t)
    \/ Start
    \/ Finish
    \/ Close
    \/ Stop

Spec == Init /\ [][Next]_vars

(* What was accepted is run, and a closed executor stops.                  *)
Fairness == WF_vars(Start) /\ WF_vars(Finish) /\ WF_vars(Stop)
==============================================================================
