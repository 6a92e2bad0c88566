------------------------------ MODULE Lifecycle -------------------------------
(***************************************************************************)
(* main and the Daemon it owns: how the dispatcher, the buttons' callbacks *)
(* and the gRPC server are built and taken down while buttons, the sensor, *)
(* the brew profiler, calls and the executor's worker go on.               *)
(*                                                                         *)
(* What an operation does to the machine is in Machine; here a task        *)
(* switches on or off, brews, stops, changes what is indicated or does     *)
(* nothing.  The executor is the queue it implements, SerialQueue, and     *)
(* this module shows that it is used as that queue wants to be used.       *)
(*                                                                         *)
(* Of the library it is assumed that to unregister a callback waits for    *)
(* one that is running, and of gRPC that Wait returns when every call's    *)
(* OnDone has.                                                             *)
(***************************************************************************)
EXTENDS Naturals, Sequences

CONSTANTS
    NumButtons,     \* power, brew and steam in the code
    Unary, Events,  \* calls of each kind
    Nothing,        \* no task under way
    MaxQueue        \* bound: no callback begins with more tasks queued

Task(kind) == [kind |-> kind]
CallTask(kind, c) == [kind |-> kind, call |-> c]

Tasks == {Task(kind) : kind \in {"operate", "notify", "stop", "final"}}
           \cup {CallTask("unary", c) : c \in Unary}
           \cup {CallTask("add", c) : c \in Events}
           \cup {CallTask("release", c) : c \in Events}

\* What a task is yet to do to the machine, or how that went.
Deeds == {"on", "off", "indicate", "brew", "stop", "throw"}
Outcomes == {"done", "failed"}

ASSUME LifecycleAssumption ==
    /\ NumButtons \in Nat \ {0}
    /\ Unary \cap Events = {}
    /\ MaxQueue \in Nat
    /\ Nothing \notin [do : Tasks, effect : Deeds \cup Outcomes]
    /\ Nothing \notin Tasks

VARIABLES
    pc,         \* where main is
    signalled,  \* SignalsHandler::s_exit
    input,      \* the callbacks of the buttons, in the order they register
    sensor,     \* StatusManager's callback at the temperature sensor
    profiler,   \* m_brewCallback at the brew profiler
    stage,      \* how far each call is
    cancelled,  \* streams whose call was cancelled
    queue,      \* the executor's queue
    task,       \* what its worker runs, with its effect, or Nothing
    final,      \* the future of the destructor's task: "none", "ok", "threw"
    sinks,      \* m_eventsSinks
    power, brewing

machine == <<power, brewing>>
callbacks == <<input, sensor, profiler>>
calls == <<stage, cancelled>>
worker == <<queue, task, final, sinks>>
vars == <<pc, signalled, callbacks, calls, worker, machine>>

Buttons == 1..NumButtons
Calls == Unary \cup Events

(* A callback is registered or not, may be running, and is unregistered     *)
(* once it has returned.                                                   *)
Leave(cb) == IF cb = "running" THEN "leaving" ELSE "none"
Return(cb) == IF cb = "running" THEN "idle" ELSE "none"


Init ==
    /\ pc = "construct"
    /\ signalled = FALSE
    /\ input = [i \in Buttons |-> "none"]
    /\ sensor = "none" /\ profiler = "none"
    /\ stage = [c \in Calls |-> "none"]
    /\ cancelled = {}
    /\ queue = <<>> /\ task = Nothing /\ final = "none" /\ sinks = {}
    /\ power = FALSE /\ brewing = FALSE

-----------------------------------------------------------------------------
(* SIGINT, SIGTERM or SIGHUP, also before main waits for it; another one    *)
(* changes nothing.                                                        *)
Signal ==
    /\ ~signalled /\ pc \notin {"ended", "aborted"}
    /\ signalled' = TRUE
    /\ UNCHANGED <<pc, callbacks, calls, worker, machine>>

(* Daemon::Daemon up to the dispatcher; anything in it may throw.          *)
Construct ==
    /\ pc = "construct"
    /\ \/ pc' = "ended" /\ UNCHANGED profiler
       \/ pc' = "register" /\ profiler' = "idle"
    /\ UNCHANGED <<signalled, input, sensor, calls, worker, machine>>

(* ButtonsCallbackRegistrator: one callback after the other.               *)
Register ==
    /\ pc = "register"
    /\ \E i \in Buttons :
         /\ input[i] = "none" /\ \A j \in 1..i - 1 : input[j] # "none"
         /\ input' = [input EXCEPT ![i] = "idle"]
         /\ pc' = IF i = NumButtons THEN "serve" ELSE pc
    /\ UNCHANGED <<signalled, sensor, profiler, calls, worker, machine>>

(* ServiceManager: the server is built, or is not (a null pointer), or the  *)
(* constructor throws and what was built before is destroyed.              *)
Serve ==
    /\ pc = "serve"
    /\ pc' \in {"wait", "alone", "unregister"}
    /\ UNCHANGED <<signalled, callbacks, calls, worker, machine>>

(* main leaves the wait, without a server ...                              *)
Wake ==
    /\ pc = "alone"
    /\ signalled
    /\ pc' = "unregister"
    /\ UNCHANGED <<signalled, callbacks, calls, worker, machine>>

\* A slip: the server is waited for and not shut down.
ShutdownMissing ==
    /\ pc = "wait"
    /\ signalled
    /\ pc' = "await"
    /\ UNCHANGED <<signalled, callbacks, calls, worker, machine>>

(* ... or with one, which is destroyed first: Shutdown(now) cancels every   *)
(* call and none is accepted any more.  To cancel a unary call changes     *)
(* nothing.                                                                *)
Shutdown ==
    /\ pc = "wait"
    /\ signalled
    /\ cancelled' = {c \in Events : stage[c] # "none"}
    /\ pc' = "await"
    /\ UNCHANGED <<signalled, callbacks, stage, worker, machine>>

\* A slip: the server is shut down and not waited for.
AwaitMissing ==
    /\ pc = "await"
    /\ pc' = "unregister"
    /\ UNCHANGED <<signalled, callbacks, calls, worker, machine>>

Await ==
    /\ pc = "await"
    /\ \A c \in Calls : stage[c] \in {"none", "done"}
    /\ pc' = "unregister"
    /\ UNCHANGED <<signalled, callbacks, calls, worker, machine>>

(* ~ButtonsCallbackRegistrator, in the same order.                         *)
Unregister ==
    /\ pc = "unregister"
    /\ \E i \in Buttons :
         /\ input[i] \in {"idle", "running"}
         /\ \A j \in 1..i - 1 : input[j] = "none"
         /\ input' = [input EXCEPT ![i] = Leave(@)]
    /\ UNCHANGED <<pc, signalled, sensor, profiler, calls, worker, machine>>

\* A slip: the buttons' callbacks are not waited for.
SubmitFinalEarly ==
    /\ pc = "unregister"
    /\ queue' = Append(queue, Task("final"))
    /\ pc' = "get"
    /\ UNCHANGED <<signalled, callbacks, calls, task, final, sinks, machine>>

(* Then the last reference to the dispatcher goes: ~AsyncEventDispatcher.   *)
SubmitFinal ==
    /\ pc = "unregister"
    /\ \A i \in Buttons : input[i] = "none"
    /\ queue' = Append(queue, Task("final"))
    /\ pc' = "get"
    /\ UNCHANGED <<signalled, callbacks, calls, task, final, sinks, machine>>

(* future::get rethrows what the task has thrown, and a destructor that     *)
(* throws terminates the program.                                          *)
Get ==
    /\ pc = "get"
    /\ final # "none"
    /\ pc' = IF final = "ok" THEN "drain" ELSE "aborted"
    /\ UNCHANGED <<signalled, callbacks, calls, worker, machine>>

(* The members in reverse: the executor drains its queue and is joined, ... *)
Drain ==
    /\ pc = "drain"
    /\ queue = <<>> /\ task = Nothing
    /\ pc' = "destroy"
    /\ UNCHANGED <<signalled, callbacks, calls, worker, machine>>

(* ... then the streams' list and the managers are destroyed.              *)
Destroy ==
    /\ pc = "destroy"
    /\ pc' = "ended"
    /\ UNCHANGED <<signalled, callbacks, calls, worker, machine>>

Main ==
    \/ Construct \/ Register \/ Serve \/ Wake \/ Shutdown \/ Await
    \/ Unregister \/ SubmitFinal \/ Get \/ Drain \/ Destroy

-----------------------------------------------------------------------------
(* The library's threads call back, and submit a task or not.              *)
Begins(cb) == cb = "idle" /\ Len(queue) <= MaxQueue
Ends(cb) == cb \in {"running", "leaving"}
MaySubmit(kinds) ==
    queue' \in {queue} \cup {Append(queue, Task(kind)) : kind \in kinds}

Press(i) ==
    /\ Begins(input[i])
    /\ input' = [input EXCEPT ![i] = "running"]
    /\ UNCHANGED <<pc, signalled, sensor, profiler, calls, worker, machine>>

PressEnds(i) ==
    /\ Ends(input[i])
    /\ MaySubmit({"operate"})
    /\ input' = [input EXCEPT ![i] = Return(@)]
    /\ UNCHANGED <<pc, signalled, sensor, profiler, calls, task, final, sinks, machine>>

Sample ==
    /\ Begins(sensor)
    /\ sensor' = "running"
    /\ UNCHANGED <<pc, signalled, input, profiler, calls, worker, machine>>

SampleEnds ==
    /\ Ends(sensor)
    /\ MaySubmit({"notify"})
    /\ sensor' = Return(sensor)
    /\ UNCHANGED <<pc, signalled, input, profiler, calls, task, final, sinks, machine>>

BrewStep ==
    /\ brewing
    /\ Begins(profiler)
    /\ profiler' = "running"
    /\ UNCHANGED <<pc, signalled, input, sensor, calls, worker, machine>>

BrewStepEnds ==
    /\ Ends(profiler)
    /\ MaySubmit({"notify", "stop"})
    /\ profiler' = Return(profiler)
    /\ UNCHANGED <<pc, signalled, input, sensor, calls, task, final, sinks, machine>>

-----------------------------------------------------------------------------
(* gRPC accepts a call; its handler submits a task.                        *)
Accept(c) ==
    /\ pc = "wait"
    /\ stage[c] = "none"
    /\ stage' = [stage EXCEPT ![c] = "accepted"]
    /\ UNCHANGED <<pc, signalled, callbacks, cancelled, worker, machine>>

Handle(c) ==
    /\ stage[c] = "accepted"
    /\ stage' = [stage EXCEPT ![c] = "open"]
    /\ queue' = Append(queue, CallTask(IF c \in Unary THEN "unary" ELSE "add", c))
    /\ UNCHANGED <<pc, signalled, callbacks, cancelled, task, final, sinks, machine>>

ClientCancels(c) ==
    /\ pc = "wait"
    /\ c \in Events \ cancelled /\ stage[c] \in {"accepted", "open"}
    /\ cancelled' = cancelled \cup {c}
    /\ UNCHANGED <<pc, signalled, callbacks, stage, worker, machine>>

(* The worker of an events stream calls Finish, once the stream was        *)
(* cancelled or its loop has ended for another reason.  A unary call is    *)
(* finished by its task, whether it was cancelled or not.                  *)
FinishStream(c) ==
    /\ c \in Events /\ stage[c] = "open"
    /\ stage' = [stage EXCEPT ![c] = "finished"]
    /\ UNCHANGED <<pc, signalled, callbacks, cancelled, worker, machine>>

(* OnDone: an events stream asks the executor to release it.               *)
OnDone(c) ==
    /\ stage[c] = "finished"
    /\ stage' = [stage EXCEPT ![c] = "done"]
    /\ queue' = IF c \in Events THEN Append(queue, CallTask("release", c)) ELSE queue
    /\ UNCHANGED <<pc, signalled, callbacks, cancelled, task, final, sinks, machine>>

-----------------------------------------------------------------------------
\* A slip: the destructor's task stops the brew and leaves the power on.
FinalStops == {"stop", "throw"}

(* The destructor's task: stopBrew, unregister the profiler's callback,     *)
(* switch off; a call into the library may throw.                          *)
FinalEffects == {"off", "throw"}

(* What a task can do to the machine as it is; it may also be refused, or   *)
(* have nothing to do.                                                     *)
Effects(kind) ==
    CASE kind \in {"operate", "unary"} ->
           {"done"} \cup (IF power THEN {"off", "indicate"} ELSE {"on"})
             \cup (IF brewing THEN {"stop"} ELSE IF power THEN {"brew"} ELSE {})
      [] kind = "stop" -> {"stop"}
      [] kind = "final" -> FinalEffects
      [] OTHER -> {"done"}

WorkerRuns == pc \notin {"destroy", "ended", "aborted"}

(* The worker takes a task.  What the sensor's callback shows ends with the *)
(* power and with the mode or the target shown: it is unregistered; the    *)
(* destructor's task unregisters the profiler's.                           *)
Begin ==
    /\ WorkerRuns
    /\ task = Nothing /\ queue # <<>>
    /\ queue' = Tail(queue)
    /\ \E effect \in Effects(Head(queue).kind) :
         /\ task' = [do |-> Head(queue), effect |-> effect]
         /\ sensor' = IF effect \in {"off", "indicate"} THEN Leave(sensor) ELSE sensor
         /\ profiler' = IF Head(queue).kind = "final" THEN Leave(profiler) ELSE profiler
    /\ UNCHANGED <<pc, signalled, input, calls, final, sinks, machine>>

(* Its effect, once nobody runs a callback it has unregistered.  The status *)
(* is published, from the worker's own thread, when it changes: with the   *)
(* power always, with the mode or the target perhaps.                      *)
Apply ==
    /\ WorkerRuns
    /\ task # Nothing /\ task.effect \in Deeds
    /\ sensor # "leaving" /\ profiler # "leaving"
    /\ task' = [task EXCEPT !.effect = IF @ = "throw" THEN "failed" ELSE "done"]
    /\ power' = ((power \/ task.effect = "on") /\ task.effect # "off")
    /\ brewing' = ((brewing \/ task.effect = "brew")
                     /\ task.effect \notin {"off", "stop"})
    /\ sensor' = IF task.effect \in {"on", "indicate"} THEN "idle" ELSE sensor
    /\ \/ power' = power /\ UNCHANGED queue
       \/ /\ power' # power \/ task.effect = "indicate"
          /\ queue' = Append(queue, Task("notify"))
    /\ UNCHANGED <<pc, signalled, input, profiler, calls, final, sinks>>

(* The task ends: a call is answered, a stream is added or deleted.         *)
Finish ==
    /\ WorkerRuns
    /\ task # Nothing /\ task.effect \in Outcomes
    /\ task' = Nothing
    /\ final' = IF task.do.kind # "final" THEN final
                ELSE IF task.effect = "failed" THEN "threw" ELSE "ok"
    /\ stage' = IF task.do.kind # "unary" THEN stage
                ELSE [stage EXCEPT ![task.do.call] = "finished"]
    /\ sinks' = CASE task.do.kind = "add" -> sinks \cup {task.do.call}
                  [] task.do.kind = "release" -> sinks \ {task.do.call}
                  [] OTHER -> sinks
    /\ UNCHANGED <<pc, signalled, callbacks, cancelled, queue, machine>>

Terminated == pc \in {"ended", "aborted"} /\ UNCHANGED vars

Next ==
    \/ Signal
    \/ Main
    \/ \E i \in Buttons : Press(i) \/ PressEnds(i)
    \/ Sample \/ SampleEnds
    \/ BrewStep \/ BrewStepEnds
    \/ \E c \in Calls : Accept(c) \/ Handle(c) \/ ClientCancels(c)
                          \/ FinishStream(c) \/ OnDone(c)
    \/ Begin \/ Apply \/ Finish
    \/ Terminated

CallGoesOn(c) ==
    \/ Handle(c) \/ OnDone(c)
    \/ c \in cancelled /\ FinishStream(c)

(* Threads that can go on do; nobody has to press, call, cancel or signal,  *)
(* and a stream has to finish only when it was cancelled.                  *)
Fairness ==
    /\ WF_vars(Main)
    /\ \A i \in Buttons : WF_vars(PressEnds(i))
    /\ WF_vars(SampleEnds)
    /\ WF_vars(BrewStepEnds)
    /\ \A c \in Calls : WF_vars(CallGoesOn(c))
    /\ WF_vars(Begin \/ Apply \/ Finish)

Spec == Init /\ [][Next]_vars

FairSpec == Spec /\ Fairness

-----------------------------------------------------------------------------
Callbacks == {"none", "idle", "running", "leaving"}

TypeOK ==
    /\ pc \in {"construct", "register", "serve", "wait", "alone", "await",
              "unregister", "get", "drain", "destroy", "ended", "aborted"}
    /\ signalled \in BOOLEAN
    /\ input \in [Buttons -> Callbacks]
    /\ sensor \in Callbacks /\ profiler \in Callbacks
    /\ stage \in [Calls -> {"none", "accepted", "open", "finished", "done"}]
    /\ cancelled \subseteq Events
    /\ queue \in Seq(Tasks)
    /\ task \in [do : Tasks, effect : Deeds \cup Outcomes] \cup {Nothing}
    /\ final \in {"none", "ok", "threw"}
    /\ sinks \subseteq Events
    /\ power \in BOOLEAN /\ brewing \in BOOLEAN

(* The dispatcher exists, and its executor runs.                           *)
Alive == pc \notin {"construct", "destroy", "ended"}

Waiting(kind, c) ==
    \/ \E n \in DOMAIN queue : queue[n] = CallTask(kind, c)
    \/ task # Nothing /\ task.do = CallTask(kind, c)

(* Nothing outlives what it refers to: a registered callback, a task and a  *)
(* call need the dispatcher; a unary task needs its call; a stream's        *)
(* reactor is held by its add task or the list until a release, and no      *)
(* stream is left when the list is destroyed.                              *)
NothingDangles ==
    /\ ~Alive =>
         /\ \A i \in Buttons : input[i] = "none"
         /\ sensor = "none" /\ profiler = "none"
         /\ queue = <<>> /\ task = Nothing
         /\ \A c \in Calls : stage[c] \in {"none", "done"}
         /\ sinks = {}
    /\ \A c \in Unary : Waiting("unary", c) => stage[c] = "open"
    /\ \A c \in Events :
         /\ stage[c] \in {"open", "finished"} => c \in sinks \/ Waiting("add", c)
         /\ Waiting("release", c) => c \in sinks \/ Waiting("add", c)

(* A daemon that has ended, and was not terminated, has left the machine    *)
(* off, although buttons, calls and the profiler were served to the last.   *)
EndsAllOff == pc \in {"destroy", "ended"} => ~power /\ ~brewing

(* The executor is used as a serial queue: tasks are submitted one by one,  *)
(* and once its destructor has begun only the task under way submits,      *)
(* whatever the buttons, the sensor, the profiler and the calls were doing *)
(* when the signal came.                                                   *)
Running == IF task = Nothing THEN Nothing ELSE task.do
Closed == final = "ok" /\ pc \in {"drain", "destroy", "ended"}
Stopped == final = "ok" /\ pc \in {"destroy", "ended"}

Executor == INSTANCE SerialQueue WITH
    None <- Nothing, pending <- queue, running <- Running,
    closed <- Closed, stopped <- Stopped

KeepsExecutorContract == Executor!Spec

(* A signal ends the daemon, whenever it comes and whatever is under way.   *)
SignalEndsDaemon == signalled ~> pc \in {"ended", "aborted"}
==============================================================================
