------------------------------- MODULE Buttons --------------------------------
(***************************************************************************)
(* ButtonsCallbackRegistrator: three inputs over the machine, each a        *)
(* bistable switch whose position is to be the state of its function, or a *)
(* button that toggles it.  An input's callback submits a task; the         *)
(* executor runs the tasks of the inputs and of the brew profiler in the   *)
(* order of submission.  A call's task has no effect until it runs and may *)
(* have been submitted at any time, so it is not queued here.              *)
(*                                                                         *)
(* The model begins when StateManager has read the steam switch; the       *)
(* callbacks are registered later, one after the other.                    *)
(*                                                                         *)
(* Of the library it is assumed that an input calls back from one thread,  *)
(* once for each change and not for its state at the registration; that    *)
(* the profiler calls back from one thread.                                *)
(***************************************************************************)
EXTENDS Machine, Sequences

CONSTANTS
    Bistable,  \* inputs configured as bistable
    MaxQueue   \* bound: tasks waiting in the executor

Inputs == {"power", "brew", "steam"}
Callers == Inputs \cup {"profiler"}

ASSUME ButtonsAssumption == Bistable \subseteq Inputs /\ MaxQueue \in Nat \ {0}

VARIABLES
    registered,  \* inputs whose callback is registered
    position,    \* LogicalInput::getState
    calling,     \* who has called back and has not yet submitted its task
    queue,       \* the executor's queue: what is asked for, by whom
    ended,       \* the profiler has reported the end of the brew under way
    excused      \* history: inputs whose function was last decided by
                 \* somebody else, or that were last refused or not heard

buttonsVars == <<machineVars, registered, position, calling, queue, ended, excused>>

Function(i) == CASE i = "power" -> power
                 [] i = "brew" -> brewing
                 [] i = "steam" -> steam

(* Only the steam switch is read at the start.                             *)
Init ==
    /\ MachineInit
    /\ position \in [Inputs -> BOOLEAN] /\ position["steam"] = steam
    /\ registered = {}
    /\ calling = {}
    /\ queue = <<>>
    /\ ended = FALSE
    /\ excused = {"power", "brew"}

(* The constructor's members, in their order.                              *)
Register ==
    /\ \E i \in Inputs \ registered :
         /\ i = "brew" => "power" \in registered
         /\ i = "steam" => "brew" \in registered
         /\ registered' = registered \cup {i}
    /\ UNCHANGED <<machineVars, position, calling, queue, ended, excused>>

(* The input changes, and calls back if somebody has registered.           *)
Flip(i) ==
    /\ i \notin calling
    /\ position' = [position EXCEPT ![i] = ~@]
    /\ IF i \in registered
       THEN calling' = calling \cup {i} /\ UNCHANGED excused
       ELSE excused' = excused \cup {i} /\ UNCHANGED calling
    /\ UNCHANGED <<machineVars, registered, queue, ended>>

-----------------------------------------------------------------------------
\* A slip: a switch, like a button, acts only when it is pressed.
RequestOnPress(i) ==
    CASE i = "profiler" -> "off"
      [] i \in Inputs -> IF ~position[i] THEN "none"
                         ELSE IF i \in Bistable THEN "on" ELSE "toggle"

(* What a callback asks for: a switch for the state it shows, a button for  *)
(* the other state when it is pressed, the profiler for the end of a brew. *)
Request(i) ==
    CASE i \in Bistable -> IF position[i] THEN "on" ELSE "off"
      [] i = "profiler" -> "off"
      [] OTHER -> IF position[i] THEN "toggle" ELSE "none"

Submit(i) ==
    /\ i \in calling
    /\ Len(queue) < MaxQueue
    /\ calling' = calling \ {i}
    /\ queue' = IF Request(i) = "none" THEN queue
                ELSE Append(queue, [by |-> i, ask |-> Request(i)])
    /\ UNCHANGED <<machineVars, registered, position, ended, excused>>

(* brewCallback at the end of the profile begins; by the time it submits    *)
(* the brew may be over.                                                   *)
AutoStop ==
    /\ brewing /\ ~ended
    /\ "profiler" \notin calling
    /\ calling' = calling \cup {"profiler"}
    /\ ended' = TRUE
    /\ UNCHANGED <<machineVars, registered, position, queue, excused>>

-----------------------------------------------------------------------------
Operate(function, state) ==
    \/ function = "power" /\ SetPowerState(state)
    \/ function = "steam" /\ SetSteamModeState(state)
    \/ function = "brew" /\ IF state THEN StartBrew ELSE StopBrew

Refused(function, state) ==
    \/ function = "steam" /\ SetSteamRefused(state)
    \/ function = "brew" /\ state /\ StartBrewRefused

(* A toggle's state is decided when the task runs.                         *)
Asked(task) ==
    LET function == IF task.by = "profiler" THEN "brew" ELSE task.by
    IN  [function |-> function,
         state |-> IF task.ask = "toggle" THEN ~Function(function)
                                          ELSE task.ask = "on"]

(* Who is overruled by a step of by: those whose function changes, and by   *)
(* itself when it is refused.                                              *)
Overrule(by, refused) ==
    excused' = {i \in Inputs : IF i = by THEN refused
                               ELSE i \in excused \/ Function(i)' # Function(i)}

RunTask ==
    /\ queue # <<>>
    /\ LET task == Head(queue)
           asked == Asked(task)
       IN  /\ Operate(asked.function, asked.state)
           /\ Overrule(task.by, Refused(asked.function, asked.state))
    /\ queue' = Tail(queue)
    /\ ended' = (ended /\ brewing')
    /\ UNCHANGED <<registered, position, calling>>

(* setPowerState, setSteamModeState, startBrew and stopBrew over gRPC.      *)
Call ==
    /\ \E function \in Inputs, state \in BOOLEAN : Operate(function, state)
    /\ Overrule("client", FALSE)
    /\ ended' = (ended /\ brewing')
    /\ UNCHANGED <<registered, position, calling, queue>>

Next ==
    \/ Register
    \/ \E i \in Inputs : Flip(i)
    \/ \E i \in Callers : Submit(i)
    \/ AutoStop
    \/ RunTask
    \/ Call

Spec == Init /\ [][Next]_buttonsVars

-----------------------------------------------------------------------------
ButtonsTypeOK ==
    /\ power \in BOOLEAN /\ steam \in BOOLEAN /\ brewing \in BOOLEAN
    /\ registered \subseteq Inputs /\ calling \subseteq registered \cup {"profiler"}
    /\ position \in [Inputs -> BOOLEAN]
    /\ queue \in Seq([by : Callers, ask : {"on", "off", "toggle"}])
    /\ ended \in BOOLEAN
    /\ excused \subseteq Inputs

Settled(i) == i \notin calling /\ \A n \in DOMAIN queue : queue[n].by # i

(* A bistable switch whose tasks have all run shows the state of its        *)
(* function, steam mode from the start on, however its flips interleave     *)
(* with the other inputs: unless its last request was refused, a flip came *)
(* before its callback was registered, or somebody else - a call, the end  *)
(* of the profile, a power-off during the brew - has decided since.  The    *)
(* same position is then wrong until the switch is flipped again.          *)
SwitchesObeyed ==
    \A i \in Bistable \ excused : Settled(i) => Function(i) = position[i]
==============================================================================
