--------------------------- MODULE SerialExecutor ----------------------------
(***************************************************************************)
(* ProceduresSerialExecutor: a queue under a mutex, an atomic counter the  *)
(* worker sleeps on, any number of client threads that submit procedures,  *)
(* procedures that submit others from the worker thread itself, and a      *)
(* destructor that adds one to the counter without queuing anything (the   *)
(* poison), wakes the worker and joins it.                                 *)
(*                                                                         *)
(* A step is one access to shared state (the mutex, the queue, the counter,*)
(* the waiters of the counter).  Taking the mutex and touching the queue   *)
(* are one step, since nobody looks at the queue without the mutex; the    *)
(* counter, read without it, has steps of its own.                         *)
(***************************************************************************)
EXTENDS Integers, Sequences

CONSTANTS Clients,  \* threads that submit: gRPC handlers, buttons, sensors
          Worker,   \* the executor's own thread
          Tasks,    \* procedures; each is submitted at most once
          None      \* nobody holds the mutex, no procedure

Threads == Clients \cup {Worker}

ASSUME ThreadsAssumption ==
    /\ Worker \notin Clients
    /\ None \notin Threads
    /\ None \notin Tasks

VARIABLES
    queue,    \* m_queue
    qsize,    \* m_queueSize, an Int: that it never goes below 0 is shown
    lock,     \* holder of m_queueLock, or None
    spc,      \* per thread: its place in execute...()
    arg,      \* per thread: the procedure it is submitting, or None
    waits,    \* per thread: it uses executeWithFuture(...).get()
    wpc,      \* the worker's place in its loop
    local,    \* the worker's local list; its front is the running procedure
    dpc,      \* the destructor's place
    fresh,    \* procedures not submitted yet
    pushed,   \* the procedures in the order they entered m_queue (history)
    done      \* the procedures that have run, in order (history)

submitVars == <<spc, arg, waits, fresh>>
vars == <<queue, qsize, lock, spc, arg, waits, wpc, local, dpc, fresh,
          pushed, done>>

Init ==
    /\ queue = <<>>
    /\ qsize = 0
    /\ lock = None
    /\ spc = [p \in Threads |-> "idle"]
    /\ arg = [p \in Threads |-> None]
    /\ waits = [p \in Threads |-> FALSE]
    /\ wpc = "check"
    /\ local = <<>>
    /\ dpc = "live"
    /\ fresh = Tasks
    /\ pushed = <<>>
    /\ done = <<>>

-----------------------------------------------------------------------------
(* Slips.  Each is an action below with a mistake this code could make; no  *)
(* specification uses them, and each breaks a property stated at the end.   *)

\* The scope of the lock ends before fetch_add.
PushUnlocking(p) ==
    /\ spc[p] = "push"
    /\ lock = None
    /\ queue' = Append(queue, arg[p])
    /\ pushed' = Append(pushed, arg[p])
    /\ spc' = [spc EXCEPT ![p] = "count"]
    /\ UNCHANGED <<qsize, lock, arg, waits, wpc, local, dpc, fresh, done>>

\* emplace_front for emplace_back.
PushFront(p) ==
    /\ spc[p] = "push"
    /\ lock = None
    /\ lock' = p
    /\ queue' = <<arg[p]>> \o queue
    /\ pushed' = Append(pushed, arg[p])
    /\ spc' = [spc EXCEPT ![p] = "count"]
    /\ UNCHANGED <<qsize, arg, waits, wpc, local, dpc, fresh, done>>

\* execute...() without notify_one().
NotifyMissing(p) ==
    /\ spc[p] = "notify"
    /\ spc' = [spc EXCEPT ![p] = IF waits[p] THEN "await" ELSE "idle"]
    /\ UNCHANGED <<queue, qsize, lock, arg, waits, wpc, local, dpc, fresh, pushed, done>>

\* The loop does not wait before it splices.
CheckWithoutWait ==
    /\ wpc = "check"
    /\ wpc' = "splice"
    /\ UNCHANGED <<queue, qsize, lock, local, dpc, pushed, done, submitVars>>

-----------------------------------------------------------------------------
(* execute...(): m_queueSize.notify_one() wakes the worker if it sleeps.   *)

Notified == IF wpc = "asleep" THEN "check" ELSE wpc

(* A client calls while the executor is alive; the worker calls from the   *)
(* procedure it runs and never blocks on a future.                         *)
Call(p, t, blocking) ==
    /\ spc[p] = "idle"
    /\ t \in fresh
    /\ IF p = Worker THEN wpc = "running" /\ ~blocking ELSE dpc = "live"
    /\ spc' = [spc EXCEPT ![p] = "push"]
    /\ arg' = [arg EXCEPT ![p] = t]
    /\ waits' = [waits EXCEPT ![p] = blocking]
    /\ fresh' = fresh \ {t}
    /\ UNCHANGED <<queue, qsize, lock, wpc, local, dpc, pushed, done>>

Push(p) ==
    /\ spc[p] = "push"
    /\ lock = None
    /\ lock' = p
    /\ queue' = Append(queue, arg[p])
    /\ pushed' = Append(pushed, arg[p])
    /\ spc' = [spc EXCEPT ![p] = "count"]
    /\ UNCHANGED <<qsize, arg, waits, wpc, local, dpc, fresh, done>>

Count(p) ==
    /\ spc[p] = "count"
    /\ qsize' = qsize + 1
    /\ spc' = [spc EXCEPT ![p] = "unlock"]
    /\ UNCHANGED <<queue, lock, arg, waits, wpc, local, dpc, fresh, pushed, done>>

Unlock(p) ==
    /\ spc[p] = "unlock"
    /\ lock' = None
    /\ spc' = [spc EXCEPT ![p] = "notify"]
    /\ UNCHANGED <<queue, qsize, arg, waits, wpc, local, dpc, fresh, pushed, done>>

Notify(p) ==
    /\ spc[p] = "notify"
    /\ wpc' = Notified
    /\ spc' = [spc EXCEPT ![p] = IF waits[p] THEN "await" ELSE "idle"]
    /\ UNCHANGED <<queue, qsize, lock, arg, waits, local, dpc, fresh, pushed, done>>

(* future.get() returns once the procedure has run.                        *)
Await(p) ==
    /\ spc[p] = "await"
    /\ \E i \in DOMAIN done : done[i] = arg[p]
    /\ spc' = [spc EXCEPT ![p] = "idle"]
    /\ UNCHANGED <<queue, qsize, lock, arg, waits, wpc, local, dpc, fresh, pushed, done>>

Submitter(p) ==
    \/ Push(p) \/ Count(p) \/ Unlock(p) \/ Notify(p) \/ Await(p)

-----------------------------------------------------------------------------
(* worker()                                                                *)

(* m_queueSize.wait(0): sleep while the counter is 0.                      *)
Check ==
    /\ wpc = "check"
    /\ wpc' = IF qsize = 0 THEN "asleep" ELSE "splice"
    /\ UNCHANGED <<queue, qsize, lock, local, dpc, pushed, done, submitVars>>

Splice ==
    /\ wpc = "splice"
    /\ lock = None
    /\ lock' = Worker
    /\ local' = queue
    /\ queue' = <<>>
    /\ wpc' = "subtract"
    /\ UNCHANGED <<qsize, dpc, pushed, done, submitVars>>

Subtract ==
    /\ wpc = "subtract"
    /\ qsize' = qsize - Len(local)
    /\ wpc' = "release"
    /\ UNCHANGED <<queue, lock, local, dpc, pushed, done, submitVars>>

(* The mutex is released; an empty list ends the loop.                     *)
Release ==
    /\ wpc = "release"
    /\ lock' = None
    /\ wpc' = IF local = <<>> THEN "done" ELSE "invoke"
    /\ UNCHANGED <<queue, qsize, local, dpc, pushed, done, submitVars>>

Invoke ==
    /\ wpc = "invoke"
    /\ wpc' = "running"
    /\ UNCHANGED <<queue, qsize, lock, local, dpc, pushed, done, submitVars>>

(* The procedure returns and its entry is popped.                          *)
Return ==
    /\ wpc = "running"
    /\ spc[Worker] = "idle"
    /\ done' = Append(done, Head(local))
    /\ local' = Tail(local)
    /\ wpc' = IF Len(local) = 1 THEN "check" ELSE "invoke"
    /\ UNCHANGED <<queue, qsize, lock, dpc, pushed, submitVars>>

WorkerLoop == Check \/ Splice \/ Subtract \/ Release \/ Invoke \/ Return

-----------------------------------------------------------------------------
(* The destructor.  Its caller has stopped every other user of the object. *)

Poison ==
    /\ dpc = "live"
    /\ \A c \in Clients : spc[c] = "idle"
    /\ qsize' = qsize + 1
    /\ dpc' = "notify"
    /\ UNCHANGED <<queue, lock, wpc, local, pushed, done, submitVars>>

NotifyPoison ==
    /\ dpc = "notify"
    /\ wpc' = Notified
    /\ dpc' = "join"
    /\ UNCHANGED <<queue, qsize, lock, local, pushed, done, submitVars>>

Join ==
    /\ dpc = "join"
    /\ wpc = "done"
    /\ dpc' = "dead"
    /\ UNCHANGED <<queue, qsize, lock, wpc, local, pushed, done, submitVars>>

Destructor == Poison \/ NotifyPoison \/ Join

Terminated == dpc = "dead" /\ UNCHANGED vars

Next ==
    \/ \E p \in Threads :
         \/ \E t \in Tasks, blocking \in BOOLEAN : Call(p, t, blocking)
         \/ Submitter(p)
    \/ WorkerLoop
    \/ Destructor
    \/ Terminated

Spec == Init /\ [][Next]_vars

(* A thread that can go on eventually does; nobody has to submit, and the  *)
(* destructor need not be called.                                          *)
Fairness ==
    /\ \A p \in Threads : WF_vars(Submitter(p))
    /\ WF_vars(WorkerLoop)
    /\ WF_vars(NotifyPoison \/ Join)

FairSpec == Spec /\ Fairness

-----------------------------------------------------------------------------
TypeOK ==
    /\ queue \in Seq(Tasks)
    /\ qsize \in Int
    /\ lock \in Threads \cup {None}
    /\ spc \in [Threads -> {"idle", "push", "count", "unlock", "notify", "await"}]
    /\ arg \in [Threads -> Tasks \cup {None}]
    /\ waits \in [Threads -> BOOLEAN]
    /\ wpc \in {"check", "asleep", "splice", "subtract", "release", "invoke",
                "running", "done"}
    /\ local \in Seq(Tasks)
    /\ dpc \in {"live", "notify", "join", "dead"}
    /\ fresh \in SUBSET Tasks
    /\ pushed \in Seq(Tasks)
    /\ done \in Seq(Tasks)

Poisoned == dpc # "live"
PoisonPill == IF Poisoned THEN 1 ELSE 0
Taken == IF wpc = "subtract" THEN Len(local) ELSE 0
Uncounted == IF \E p \in Threads : spc[p] = "count" THEN 1 ELSE 0

(* The counter the worker sleeps on: whatever the interleaving, it is the  *)
(* length of the queue, plus one for the poison, plus what the worker took *)
(* and has not subtracted, minus the entry that is queued and not counted. *)
Accounting == qsize = Len(queue) + PoisonPill + Taken - Uncounted

(* fetch_sub never takes the unsigned counter below zero.                  *)
NoUnderflow == qsize >= 0 /\ (wpc = "subtract" => qsize >= Len(local))

(* The worker is never left asleep with work (or the poison) counted and   *)
(* nobody about to wake it.                                                *)
NoLostWakeup ==
    (wpc = "asleep" /\ qsize > 0) =>
        \/ \E p \in Threads : spc[p] \in {"unlock", "notify"}
        \/ dpc = "notify"

(* The loop ends only for the poison and after every procedure accepted,   *)
(* those submitted while draining included, has run.                       *)
ExitsDrained == wpc = "done" => Poisoned /\ queue = <<>> /\ done = pushed

(* The executor implements the serial queue: what is spliced, queued or    *)
(* running is what the queue holds.                                        *)
Waiting == (IF wpc = "running" THEN Tail(local) ELSE local) \o queue
Current == IF wpc = "running" THEN Head(local) ELSE None
Stopped == wpc = "done"

Abstract == INSTANCE SerialQueue WITH
    pending <- Waiting, running <- Current, closed <- Poisoned, stopped <- Stopped

ImplementsQueue == Abstract!Spec

(* What waits is taken, what runs returns, and the worker of a poisoned     *)
(* executor leaves its loop.                                               *)
ServesQueue == Abstract!Fairness

(* Exactly once, in order: what has run, what is running and what waits    *)
(* are, put end to end, what was pushed.                                   *)
InProgress == IF Current = None THEN <<>> ELSE <<Current>>
QueueOrder == done \o InProgress \o Waiting = pushed

(* A call of execute...() comes back, and what it submitted has run.       *)
EveryCallCompletes ==
    \A p \in Threads : spc[p] # "idle" ~>
        /\ spc[p] = "idle"
        /\ \E i \in DOMAIN done : done[i] = arg[p]
==============================================================================
