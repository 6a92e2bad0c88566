------------------------------ MODULE Dispatcher ------------------------------
(***************************************************************************)
(* AsyncEventDispatcher: the tasks its clients (buttons, gRPC calls) and    *)
(* the brew profiler submit to the executor, over the machine, the profile *)
(* and the settings of Profiles, and what they tell the event streams.     *)
(*                                                                         *)
(* The executor runs one task at a time: a task is one step.  A client's   *)
(* task has no effect until it runs and may have been submitted at any     *)
(* time, so it is not queued here; the profiler's tasks are, for they are  *)
(* about a brew that may be over when they run, or even when they are      *)
(* submitted.  Heating notifications are in HeatingStatus, the queue       *)
(* itself in SerialExecutor.                                               *)
(*                                                                         *)
(* Of the library it is assumed that the profiler calls back from one      *)
(* thread and while it is active, and that to unregister its callback      *)
(* waits for one that is running; to deactivate it need not.               *)
(***************************************************************************)
EXTENDS Profiles, Sequences

CONSTANTS
    Sinks,     \* event streams
    Steps,     \* indices of brew steps
    MaxTasks   \* bound: profiler tasks waiting

ASSUME DispatcherAssumption == Steps \subseteq Nat /\ 0 \in Steps

VARIABLES
    tasks,     \* the profiler's tasks waiting in the executor
    reporting, \* the task that its callback is about to submit, if any
    ended,     \* the profiler has reported the end of the brew under way
    view,      \* what each stream was told last, None if not in m_eventsSinks
    untold,    \* history: brewing has changed and no BrewState told of it
    overtaken, \* history: the brew under way was started while the end of an
               \* earlier one was still being reported or waiting
    final      \* the destructor's task has run

dispatcherVars == <<profilesVars, tasks, reporting, ended, view, untold, overtaken,
                    final>>

DispatcherInit ==
    /\ ProfilesInit
    /\ tasks = <<>> /\ reporting = <<>>
    /\ ended = FALSE
    /\ view = [s \in Sinks |-> None]
    /\ untold = FALSE
    /\ overtaken = FALSE
    /\ final = FALSE

\* A slip: the first step's index is taken for the end.
StepTaskOrStop(i) == [kind |-> IF i = 0 THEN "stop" ELSE "step", index |-> i]

StepTask(i) == [kind |-> "step", index |-> i]
StopTask == [kind |-> "stop", index |-> 0]
Tasks == {StepTask(i) : i \in Steps} \cup {StopTask}

(* notifyChanged of every stream.                                          *)
Tell(field, value) ==
    view' = [s \in Sinks |-> IF view[s] = None THEN None
                             ELSE [view[s] EXCEPT ![field] = value]]

(* A task runs: the machine may change, its profile and settings not.      *)
Running == up = "up" /\ ~final
KeepProfiles == UNCHANGED <<up, profileStore, settingsStore>>

(* The task that ends a brew is submitted or about to be.                  *)
EndPending ==
    \/ reporting = <<StopTask>>
    \/ \E n \in DOMAIN tasks : tasks[n] = StopTask

(* A brew that is over has no end left to report.                          *)
AfterTask ==
    /\ ended' = (ended /\ brewing')
    /\ overtaken' = IF brewing THEN overtaken /\ brewing'
                    ELSE brewing' /\ EndPending
    /\ UNCHANGED final

BrewTold == untold' = FALSE
BrewNotTold == untold' = (untold \/ brewing' # brewing)

-----------------------------------------------------------------------------
DoSetPowerState(state) ==
    /\ SetPowerState(state)
    /\ Tell("power", state)
    /\ BrewNotTold

\* A slip: the streams are told of a steam mode the machine has refused.
DoSetSteamModeStateRegardless(state) ==
    /\ SetSteamModeState(state)
    /\ Tell("steam", state)
    /\ BrewNotTold

(* An exception of setSteamModeState leaves before the streams are told.   *)
DoSetSteamModeState(state) ==
    /\ SetSteamModeState(state)
    /\ IF SetSteamRefused(state) THEN UNCHANGED view ELSE Tell("steam", state)
    /\ BrewNotTold

DoStartBrew ==
    /\ StartBrew
    /\ IF StartBrewRefused
       THEN UNCHANGED <<view, untold>>
       ELSE Tell("brew", TRUE) /\ BrewTold

\* A slip: the streams are not told that the brew has stopped.
DoStopBrewSilently ==
    /\ StopBrew
    /\ UNCHANGED view
    /\ IF brewing THEN BrewTold ELSE UNCHANGED untold

\* A slip: a brew whose profile has ended is left to its client to stop.
DoStopBrewUnlessEnded ==
    IF brewing /\ ~ended
    THEN StopBrew /\ Tell("brew", FALSE) /\ BrewTold
    ELSE UNCHANGED <<machineVars, view, untold>>

DoStopBrew ==
    IF brewing
    THEN StopBrew /\ Tell("brew", FALSE) /\ BrewTold
    ELSE UNCHANGED <<machineVars, view, untold>>

(* startBrew(callback): no stream is told.                                 *)
RpcStartBrew == StartBrew /\ UNCHANGED view /\ BrewNotTold

(* stopBrew(callback): the streams are told of no progress.                *)
RpcStopBrew == StopBrew /\ Tell("progress", 0) /\ BrewNotTold

(* togglePowerState, toggleSteamModeState and toggleBrew decide when they  *)
(* run, not when they are submitted.                                       *)
Toggle ==
    \/ DoSetPowerState(~power)
    \/ DoSetSteamModeState(~steam)
    \/ IF brewing THEN DoStopBrew ELSE DoStartBrew

(* Bistable buttons set what they show, the others toggle when pressed.    *)
Button ==
    \/ Toggle
    \/ \E state \in BOOLEAN : DoSetPowerState(state) \/ DoSetSteamModeState(state)
    \/ DoStartBrew
    \/ DoStopBrew

(* The unary calls that change the machine; those that read it do not.     *)
UnaryCall ==
    \/ \E state \in BOOLEAN : DoSetPowerState(state) \/ DoSetSteamModeState(state)
    \/ RpcStartBrew
    \/ RpcStopBrew

Command ==
    /\ Running
    /\ Button \/ UnaryCall
    /\ AfterTask
    /\ KeepProfiles
    /\ UNCHANGED <<tasks, reporting>>

\* A slip: the streams keep the profile they had.
SetProfileUntold(p) ==
    /\ Running
    /\ SetBrewProfile(p)
    /\ AfterTask
    /\ UNCHANGED <<tasks, reporting, view, untold>>

(* setBrewProfile and setUserSettings tell the streams unless they throw.  *)
SetProfile(p) ==
    /\ Running
    /\ SetBrewProfile(p)
    /\ IF profileReply' = "OK" THEN Tell("profile", p) ELSE UNCHANGED view
    /\ AfterTask
    /\ UNCHANGED <<tasks, reporting, untold>>

SetSettings(t) ==
    /\ Running
    /\ SetUserSettings(t)
    /\ IF settingsReply' = "OK" THEN Tell("settings", t) ELSE UNCHANGED view
    /\ AfterTask
    /\ UNCHANGED <<tasks, reporting, untold>>

-----------------------------------------------------------------------------
(* brewCallback, on the profiler's thread: the profiler, which is active    *)
(* until it is deactivated, reports the next step or the end, ...           *)
StepChange(i) ==
    /\ up = "up" /\ brewing /\ ~ended
    /\ reporting = <<>> /\ Len(tasks) < MaxTasks
    /\ reporting' = <<StepTask(i)>>
    /\ UNCHANGED <<profilesVars, tasks, ended, view, untold, overtaken, final>>

AutoStop ==
    /\ up = "up" /\ brewing /\ ~ended
    /\ reporting = <<>> /\ Len(tasks) < MaxTasks
    /\ reporting' = <<StopTask>>
    /\ ended' = TRUE
    /\ UNCHANGED <<profilesVars, tasks, view, untold, overtaken, final>>

(* ... and the callback submits it, whatever has run in between.            *)
Report ==
    /\ up = "up" /\ reporting # <<>>
    /\ tasks' = Append(tasks, reporting[1])
    /\ reporting' = <<>>
    /\ UNCHANGED <<profilesVars, ended, view, untold, overtaken, final>>

RunTask ==
    /\ up = "up"
    /\ tasks # <<>>
    /\ tasks' = Tail(tasks)
    /\ IF Head(tasks) = StopTask
       THEN DoStopBrew
       ELSE Tell("progress", Head(tasks).index) /\ UNCHANGED <<machineVars, untold>>
    /\ AfterTask
    /\ KeepProfiles
    /\ UNCHANGED reporting

-----------------------------------------------------------------------------
(* sendInitialState, then push_back; no progress is sent.                  *)
AddSink(s) ==
    /\ Running
    /\ view[s] = None
    /\ view' = [view EXCEPT ![s] =
         [power |-> power, brew |-> brewing, steam |-> steam, progress |-> 0,
          profile |-> current, settings |-> settings]]
    /\ UNCHANGED <<profilesVars, tasks, reporting, ended, untold, overtaken, final>>

RemoveSink(s) ==
    /\ Running
    /\ view[s] # None
    /\ view' = [view EXCEPT ![s] = None]
    /\ UNCHANGED <<profilesVars, tasks, reporting, ended, untold, overtaken, final>>

\* A slip: the destructor stops the brew and leaves the power on.
FinalStopOnly ==
    /\ Running
    /\ \A s \in Sinks : view[s] = None
    /\ reporting = <<>>
    /\ StopBrew
    /\ final' = TRUE
    /\ ended' = FALSE /\ overtaken' = FALSE
    /\ KeepProfiles
    /\ UNCHANGED <<tasks, reporting, view, untold>>

(* The task of ~AsyncEventDispatcher: stopBrew, then the profiler's         *)
(* callback unregistered, then the power off, which resets the timer.      *)
(* Server::Wait has ended every stream before.                             *)
Final ==
    /\ Running
    /\ \A s \in Sinks : view[s] = None
    /\ reporting = <<>>
    /\ IF power THEN PowerOff(4) ELSE StopBrew
    /\ final' = TRUE
    /\ ended' = FALSE /\ overtaken' = FALSE
    /\ KeepProfiles
    /\ UNCHANGED <<tasks, reporting, view, untold>>

(* The executor has drained what was left and is joined.                   *)
Exit ==
    /\ up = "up" /\ final
    /\ tasks = <<>>
    /\ up' = "down"
    /\ UNCHANGED <<machineVars, profileStore, settingsStore, tasks, reporting,
                   ended, view, untold, overtaken, final>>

(* A crash takes the executor's queue and the streams with it.             *)
CrashAll ==
    /\ Crash
    /\ tasks' = <<>> /\ reporting' = <<>>
    /\ ended' = FALSE /\ overtaken' = FALSE
    /\ view' = [s \in Sinks |-> None]
    /\ untold' = FALSE
    /\ UNCHANGED final

StartAll ==
    /\ Start \/ StartFails
    /\ final' = FALSE
    /\ untold' = FALSE
    /\ UNCHANGED <<tasks, reporting, ended, view, overtaken>>

DispatcherNext ==
    \/ Command
    \/ \E p \in Profiles : SetProfile(p)
    \/ \E t \in Temps : SetSettings(t)
    \/ \E i \in Steps : StepChange(i)
    \/ AutoStop
    \/ Report
    \/ RunTask
    \/ \E s \in Sinks : AddSink(s) \/ RemoveSink(s)
    \/ Final
    \/ Exit
    \/ CrashAll
    \/ StartAll

DispatcherSpec == DispatcherInit /\ [][DispatcherNext]_dispatcherVars

(* A callback that has begun submits, and a submitted task is run.          *)
DispatcherFairSpec ==
    /\ DispatcherSpec
    /\ WF_dispatcherVars(Report)
    /\ WF_dispatcherVars(RunTask)

-----------------------------------------------------------------------------
DispatcherTypeOK ==
    /\ ProfilesTypeOK
    /\ tasks \in Seq(Tasks)
    /\ reporting \in {<<>>} \cup {<<task>> : task \in Tasks}
    /\ ended \in BOOLEAN
    /\ view \in [Sinks -> [power : BOOLEAN, brew : BOOLEAN, steam : BOOLEAN,
                           progress : Steps, profile : Profiles,
                           settings : Temps] \cup {None}]
    /\ untold \in BOOLEAN
    /\ overtaken \in BOOLEAN
    /\ final \in BOOLEAN

Told == {s \in Sinks : view[s] # None}

(* Whatever was refused, every stream knows the power and the steam mode.  *)
StreamsKnowMode ==
    \A s \in Told : view[s].power = power /\ view[s].steam = steam

(* A stream is wrong about the brew only after a gRPC call or a power-off   *)
(* has started or stopped one, and until the next BrewState.               *)
StreamsKnowBrew == \A s \in Told : view[s].brew # brewing => untold

(* When the last change of the profile or of the settings was answered OK,  *)
(* every stream has what the machine uses.                                 *)
StreamsKnowProfile ==
    \A s \in Told :
      /\ profileReply = "OK" => view[s].profile = current /\ steps = current
      /\ settingsReply = "OK" => view[s].settings = steamTarget

(* Once the destructor's task has run nothing heats or brews again, though  *)
(* tasks submitted before or during it are still drained.                  *)
OffAfterFinal ==
    final => ~power /\ ~brewing /\ ~brewHeat /\ ~steamHeat /\ indicated = None

(* The task that ends a brew does not say which: when a client stops that   *)
(* brew and starts another before the task has run, or before the callback *)
(* has submitted it, it stops the new one.  No other brew is stopped by    *)
(* the profiler before its own end.                                        *)
StoppedForOwnEnd ==
    [][RunTask /\ brewing /\ ~brewing' => ended \/ overtaken]_dispatcherVars

(* A brew whose end the profiler has reported does not go on.              *)
EndedBrewStops == ended ~> ~ended
==============================================================================
