---------------------------- MODULE HeatingStatus -----------------------------
(***************************************************************************)
(* StatusManager with its LEDs, and the way a heating status takes from the *)
(* temperature to the event streams.                                       *)
(*                                                                         *)
(* Two threads publish: the executor's worker when it changes what is      *)
(* indicated, and the sensor's thread from the registered callback.  A     *)
(* published status is cached, stored where new streams read it, and       *)
(* queued for the streams already there, in that order and in three steps. *)
(*                                                                         *)
(* The samples of a sensor with a fixed rate are that far apart; those of  *)
(* one without (rate = 0) have any gap between them.                       *)
(* unregisterCallback waits for a callback in progress.                    *)
(***************************************************************************)
EXTENDS Integers, Sequences

CONSTANTS
    Temps,                     \* temperatures the sensor may read
    Targets,                   \* target temperatures
    BrewWindow, SteamWindow,   \* m_brewTemperatureWindow and the steam one
    Period,                    \* m_readyHysteresisPeriod
    Rates,                     \* values of fixedUpdateRate, 0 for nullopt
    MaxGap,                    \* bound: time between two samples, if rate = 0
    Sinks,                     \* event streams
    None,                      \* no callback, no status, not in the window
    MaxQueue                   \* bound: notifications queued

ASSUME HeatingAssumption ==
    /\ Temps \subseteq Nat /\ Targets \subseteq Nat
    /\ BrewWindow \in Nat /\ SteamWindow \in Nat
    /\ Period \in Nat /\ Rates \subseteq Nat /\ MaxGap \in Nat
    /\ None \notin Nat \cup {"DISABLED", "Preheat", "Ready", "Overheat"}
    /\ None \notin [mode : {"brew", "steam"}, target : Targets,
                    held : Nat \cup {None}]

VARIABLES
    rate,        \* fixedUpdateRate of the sensor, which never changes
    callback,    \* m_temperatureCallback: mode, target and what it captured
    cached,      \* m_heatingStatusCached
    stored,      \* m_heatingStatus
    leds,        \* the three LEDs
    pc,          \* of the two publishing threads
    publishing,  \* the status a thread is publishing
    next,        \* the callback the worker is about to register
    queue,       \* notifyHeatingStatusChange tasks in the executor
    view,        \* last HeaterState sent to each stream, None if not added
    inWindow     \* history: time since the first reading of the unbroken
                 \* run of readings in the window, None if there is none
vars == <<rate, callback, cached, stored, leds, pc, publishing, next, queue, view,
          inWindow>>

Threads == {"worker", "sensor"}
Status == {"DISABLED", "Preheat", "Ready", "Overheat"}
Modes == {"brew", "steam"}

Window(mode) == IF mode = "brew" THEN BrewWindow ELSE SteamWindow

MakeStatus(t, target, window) ==
    IF t + window < target THEN "Preheat"
    ELSE IF t > target + window THEN "Overheat"
    ELSE "Ready"

Dark == [power |-> FALSE, brew |-> FALSE, steam |-> FALSE]

Leds(mode, status) ==
    [power |-> TRUE, brew |-> mode = "brew" /\ status = "Ready",
     steam |-> mode = "steam" /\ status = "Ready"]

(* max(1, ceil(Period / rate)) callbacks in the window make it Ready.       *)
RequiredInvocations ==
    IF Period = 0 THEN 1 ELSE (Period + rate - 1) \div rate

(* A new callback has counted no callback, or has seen no time yet.        *)
MakeCallback(mode, target) ==
    [mode |-> mode, target |-> target, held |-> IF rate > 0 THEN 0 ELSE None]

Init ==
    /\ rate \in Rates
    /\ callback = None
    /\ cached = "DISABLED"
    /\ stored = "DISABLED"
    /\ leds = Dark
    /\ pc = [th \in Threads |-> "idle"]
    /\ publishing = [th \in Threads |-> None]
    /\ next = None
    /\ queue = <<>>
    /\ view = [s \in Sinks |-> None]
    /\ inWindow = None

-----------------------------------------------------------------------------
(* publishStatus: nothing to do when the status is the cached one.         *)
Publish(th, status) ==
    /\ cached' = status
    /\ IF status = cached
       THEN /\ pc' = [pc EXCEPT ![th] = "done"]
            /\ UNCHANGED publishing
       ELSE /\ pc' = [pc EXCEPT ![th] = "store"]
            /\ publishing' = [publishing EXCEPT ![th] = status]

\* A slip: the LEDs change only with the status.
ApplyOnChange(th, mode, status) ==
    /\ leds' = IF status = cached THEN leds ELSE Leds(mode, status)
    /\ Publish(th, status)

(* applyStatus: the LEDs change with the mode too.                         *)
Apply(th, mode, status) ==
    /\ leds' = Leds(mode, status)
    /\ Publish(th, status)

Store(th) ==
    /\ pc[th] = "store"
    /\ stored' = publishing[th]
    /\ pc' = [pc EXCEPT ![th] = "enqueue"]
    /\ UNCHANGED <<callback, cached, leds, publishing, next, queue, view, inWindow>>

\* A slip: one queued notification is taken to be enough.
EnqueueUnlessQueued(th) ==
    /\ pc[th] = "enqueue"
    /\ queue' = IF queue = <<>> THEN <<publishing[th]>> ELSE queue
    /\ publishing' = [publishing EXCEPT ![th] = None]
    /\ pc' = [pc EXCEPT ![th] = "done"]
    /\ UNCHANGED <<callback, cached, stored, leds, next, view, inWindow>>

(* m_callback submits notifyHeatingStatusChange to the executor.           *)
Enqueue(th) ==
    /\ pc[th] = "enqueue"
    /\ queue' = Append(queue, publishing[th])
    /\ publishing' = [publishing EXCEPT ![th] = None]
    /\ pc' = [pc EXCEPT ![th] = "done"]
    /\ UNCHANGED <<callback, cached, stored, leds, next, view, inWindow>>

-----------------------------------------------------------------------------
(* The sensor's thread.  What the callback captured afterwards, and the    *)
(* status it applies or None.                                              *)

\* A slip: one callback too many is asked for.
FixedRateOneMore(status, held, gap) ==
    IF status # "Ready" THEN [held |-> 0, apply |-> status]
    ELSE IF cached = "Ready" THEN [held |-> held, apply |-> None]
    ELSE [held |-> held + 1,
          apply |-> IF held < RequiredInvocations THEN None ELSE "Ready"]

FixedRate(status, held, gap) ==
    IF status # "Ready" THEN [held |-> 0, apply |-> status]
    ELSE IF cached = "Ready" THEN [held |-> held, apply |-> None]
    ELSE [held |-> held + 1,
          apply |-> IF held + 1 < RequiredInvocations THEN None ELSE "Ready"]

Elapsed(held, gap) == IF held = None THEN 0 ELSE held + gap

\* A slip: inRangeSince is not reset outside of the window.
VariableRateNoReset(status, held, gap) ==
    IF status # "Ready"
    THEN [held |-> IF held = None THEN None ELSE Elapsed(held, gap),
          apply |-> status]
    ELSE IF cached = "Ready" THEN [held |-> held, apply |-> None]
    ELSE IF Elapsed(held, gap) >= Period THEN [held |-> None, apply |-> "Ready"]
    ELSE [held |-> Elapsed(held, gap), apply |-> None]

VariableRate(status, held, gap) ==
    IF status # "Ready" THEN [held |-> None, apply |-> status]
    ELSE IF cached = "Ready" THEN [held |-> held, apply |-> None]
    ELSE IF Elapsed(held, gap) >= Period THEN [held |-> None, apply |-> "Ready"]
    ELSE [held |-> Elapsed(held, gap), apply |-> None]

Gaps == IF rate > 0 THEN {rate} ELSE 0..MaxGap

Least(a, b) == IF a < b THEN a ELSE b

(* A reading, gap after the one before, reaches the registered callback.   *)
Sample(t, gap) ==
    /\ callback # None
    /\ pc["sensor"] = "idle"
    /\ Len(queue) < MaxQueue
    /\ LET status == MakeStatus(t, callback.target, Window(callback.mode))
           result == IF rate > 0 THEN FixedRate(status, callback.held, gap)
                     ELSE VariableRate(status, callback.held, gap)
       IN  /\ callback' = [callback EXCEPT !.held = result.held]
           /\ inWindow' = IF status # "Ready" THEN None
                          ELSE Least(Elapsed(inWindow, gap), Period)
           /\ IF result.apply = None
              THEN UNCHANGED <<cached, leds, pc, publishing>>
              ELSE Apply("sensor", callback.mode, result.apply)
    /\ UNCHANGED <<stored, next, queue, view>>

CallbackReturns ==
    /\ pc["sensor"] = "done"
    /\ pc' = [pc EXCEPT !["sensor"] = "idle"]
    /\ UNCHANGED <<callback, cached, stored, leds, publishing, next, queue,
                   view, inWindow>>

-----------------------------------------------------------------------------
(* The executor's worker.  indicateBrewState and indicateSteamState:       *)
(* unregister, read the temperature and apply its status...                *)
Indicate(mode, target, t) ==
    /\ pc["worker"] = "idle"
    /\ pc["sensor"] = "idle"
    /\ Len(queue) < MaxQueue
    /\ callback' = None
    /\ next' = MakeCallback(mode, target)
    /\ LET status == MakeStatus(t, target, Window(mode))
       IN  /\ Apply("worker", mode, status)
           /\ inWindow' = IF status = "Ready" THEN 0 ELSE None
    /\ UNCHANGED <<stored, queue, view>>

\* A slip: the status is published while a callback may be running.
DisableWithoutWaiting ==
    /\ pc["worker"] = "idle"
    /\ callback # None
    /\ Len(queue) < MaxQueue
    /\ callback' = None
    /\ next' = None
    /\ leds' = Dark
    /\ Publish("worker", "DISABLED")
    /\ inWindow' = None
    /\ UNCHANGED <<stored, queue, view>>

(* disable, which setPowerState calls with the power on only.              *)
Disable ==
    /\ pc["worker"] = "idle"
    /\ pc["sensor"] = "idle"
    /\ callback # None
    /\ Len(queue) < MaxQueue
    /\ callback' = None
    /\ next' = None
    /\ leds' = Dark
    /\ Publish("worker", "DISABLED")
    /\ inWindow' = None
    /\ UNCHANGED <<stored, queue, view>>

(* ...and register the new callback after the status is published.         *)
Register ==
    /\ pc["worker"] = "done"
    /\ callback' = next
    /\ next' = None
    /\ pc' = [pc EXCEPT !["worker"] = "idle"]
    /\ UNCHANGED <<cached, stored, leds, publishing, queue, view, inWindow>>

(* notifyHeatingStatusChange, the next task of the executor.               *)
Notify ==
    /\ pc["worker"] = "idle"
    /\ queue # <<>>
    /\ queue' = Tail(queue)
    /\ view' = [s \in Sinks |-> IF view[s] = None THEN None ELSE Head(queue)]
    /\ UNCHANGED <<callback, cached, stored, leds, pc, publishing, next, inWindow>>

(* The task of addEventsStreamReactor, wherever it stands in the queue.    *)
AddSink(s) ==
    /\ pc["worker"] = "idle"
    /\ view[s] = None
    /\ view' = [view EXCEPT ![s] = stored]
    /\ UNCHANGED <<callback, cached, stored, leds, pc, publishing, next, queue,
                   inWindow>>

(* The task of releaseEventsStreamReactor.                                 *)
RemoveSink(s) ==
    /\ pc["worker"] = "idle"
    /\ view[s] # None
    /\ view' = [view EXCEPT ![s] = None]
    /\ UNCHANGED <<callback, cached, stored, leds, pc, publishing, next, queue,
                   inWindow>>

Step ==
    \/ \E t \in Temps, gap \in Gaps : Sample(t, gap)
    \/ \E mode \in Modes, target \in Targets, t \in Temps : Indicate(mode, target, t)
    \/ \E th \in Threads : Store(th) \/ Enqueue(th)
    \/ CallbackReturns
    \/ Disable
    \/ Register
    \/ Notify
    \/ \E s \in Sinks : AddSink(s) \/ RemoveSink(s)

Next == Step /\ UNCHANGED rate

Spec == Init /\ [][Next]_vars

-----------------------------------------------------------------------------
(* What a callback may have captured: a count that stops at the required   *)
(* one, or a time that has not reached the period.                         *)
Held == IF rate > 0 THEN 0..RequiredInvocations ELSE 0..Period \cup {None}

Callbacks == [mode : Modes, target : Targets, held : Held]

TypeOK ==
    /\ rate \in Rates
    /\ callback \in Callbacks \cup {None}
    /\ cached \in Status
    /\ stored \in Status
    /\ leds \in [power : BOOLEAN, brew : BOOLEAN, steam : BOOLEAN]
    /\ pc \in [Threads -> {"idle", "store", "enqueue", "done"}]
    /\ publishing \in [Threads -> Status \cup {None}]
    /\ next \in Callbacks \cup {None}
    /\ queue \in Seq(Status)
    /\ view \in [Sinks -> Status \cup {None}]
    /\ inWindow \in 0..Period \cup {None}

(* The cached status, which is not atomic, is never published by both      *)
(* threads at once.                                                        *)
OnePublisher == pc["worker"] = "idle" \/ pc["sensor"] = "idle"

(* The LEDs show the cached status in the mode that is indicated, also     *)
(* when the mode changes and the status does not.                          *)
LedsFollowStatus ==
    LET shown == IF callback # None THEN callback ELSE next
    IN  leds = IF shown = None THEN Dark ELSE Leds(shown.mode, cached)

(* What a stream was sent last, or will have been sent once the queued      *)
(* notifications and the one under way are delivered, is the cached status:*)
(* a stream added in the middle of a publication misses nothing.           *)
SinksFollow ==
    LET underWay == {publishing[th] : th \in Threads} \ {None}
        last(s) == IF queue = <<>> THEN view[s] ELSE queue[Len(queue)]
    IN  \A s \in Sinks :
          view[s] # None => IF underWay = {} THEN last(s) = cached
                            ELSE underWay = {cached}

(* Time in the window that the callbacks ask for: they count the reading   *)
(* that entered the window too, so a fixed-rate sensor is Ready one rate   *)
(* earlier than its count suggests.                                        *)
Hysteresis == IF rate > 0 THEN (RequiredInvocations - 1) * rate ELSE Period

(* A callback turns the status to Ready only after an unbroken run of      *)
(* readings in the window that is long enough.                             *)
ReadyAfterHysteresis ==
    [][callback # None /\ callback' # None /\ cached # "Ready" /\ cached' = "Ready"
         => inWindow' >= Hysteresis]_vars

(* And no later: a run that is long enough has made the status Ready.      *)
ReadyOnceHeld ==
    callback # None /\ inWindow # None /\ inWindow >= Hysteresis
        => cached = "Ready"

(* config.md: the temperature must remain inside the window for the whole  *)
(* ready_hysteresis_period before the status changes to ready.             *)
ReadyIsEarned ==
    [][cached # "Ready" /\ cached' = "Ready" => inWindow' >= Period]_vars

(* The same, of the changes to Ready that a callback makes.                *)
CallbackReadyIsEarned ==
    [][callback # None /\ callback' # None /\ cached # "Ready" /\ cached' = "Ready"
         => inWindow' >= Period]_vars
==============================================================================
