--------------------------- MODULE LifecycleProofs ---------------------------
(***************************************************************************)
(* For any number of buttons, calls and streams, and however many tasks    *)
(* are queued: when the dispatcher is gone nothing refers to it any more,  *)
(* and a daemon that ends has left the machine off.                        *)
(***************************************************************************)
EXTENDS Lifecycle, DataLemmas

(* What a task that waits or runs says of the daemon and of its call.      *)
TaskOK(t) ==
    /\ t.kind = "unary" => stage[t.call] = "open"
    /\ t.kind = "add" => stage[t.call] \in {"open", "finished", "done"}
    /\ t.kind = "release" => stage[t.call] = "done"
    /\ t.kind = "final" => pc = "get"
    /\ final # "none" => t.kind \in {"notify", "stop"}

(* A call is answered and a stream released once, a stream is added before *)
(* it is released, and after the destructor's task come only notifications *)
(* and the end of a brew.                                                  *)
MayFollow(t, u) ==
    /\ t.kind \in {"unary", "release"} => u # t
    /\ t.kind = "release" => u # CallTask("add", t.call)
    /\ t.kind = "final" => u.kind \in {"notify", "stop"}

QueueInv ==
    /\ \A n \in 1 .. Len(queue) : TaskOK(queue[n])
    /\ \A m, n \in 1 .. Len(queue) : m < n => MayFollow(queue[m], queue[n])
    /\ task # Nothing =>
         /\ TaskOK(task.do)
         /\ \A n \in 1 .. Len(queue) : MayFollow(task.do, queue[n])

(* A stream is held, by the list or by the task that adds it, until it is  *)
(* released.                                                               *)
StreamsInv ==
    \A c \in Events :
      c \in sinks \/ Waiting("add", c)
        <=> stage[c] \in {"open", "finished"} \/ Waiting("release", c)

Idle ==
    /\ queue = <<>> /\ task = Nothing
    /\ sensor = "none" /\ profiler = "none"
    /\ ~power /\ ~brewing

(* What is over at each place of main.                                     *)
MainInv ==
    /\ pc \notin {"wait", "await"} =>
         \A c \in Calls : stage[c] \in {"none", "done"}
    /\ pc \in {"construct", "get", "drain", "destroy", "ended", "aborted"} =>
         \A i \in Buttons : input[i] = "none"
    /\ pc \in {"construct", "destroy", "ended"} => Idle
    /\ pc \in {"drain", "destroy"} => final = "ok"
    /\ pc \notin {"get", "drain", "destroy", "ended", "aborted"} => final = "none"

(* The effect a task has set out to have, or has had.                      *)
EffectInv ==
    task # Nothing =>
      /\ task.do.kind \in {"notify", "add", "release"} => task.effect = "done"
      /\ task.do.kind = "stop" => task.effect \in {"stop", "done"}
      /\ task.do.kind = "final" =>
           /\ task.effect \in {"off", "throw", "done", "failed"}
           /\ profiler \in {"none", "leaving"}
           /\ task.effect \in {"done", "failed"} => profiler = "none"
           /\ task.effect = "done" => ~power /\ ~brewing
      /\ task.effect \in {"off", "indicate"} => sensor \in {"none", "leaving"}
      /\ task.effect = "indicate" => power
      /\ task.effect \in {"throw", "failed"} => task.do.kind = "final"

(* The sensor is watched with the power on, and the profiler until the     *)
(* destructor's task; once that has switched off, it is off.               *)
MachineInv ==
    /\ sensor # "none" => power
    /\ final # "none" => profiler = "none"
    /\ final = "ok" => ~power /\ ~brewing

IInv ==
    /\ TypeOK
    /\ QueueInv
    /\ StreamsInv
    /\ MainInv
    /\ EffectInv
    /\ MachineInv

-----------------------------------------------------------------------------
(* A task is of one kind, and that of a call is the call's.                *)
LEMMA TaskKinds ==
    ASSUME NEW t \in Tasks
    PROVE  /\ t.kind \in {"operate", "notify", "stop", "final", "unary", "add", "release"}
           /\ t.kind = "unary" => t.call \in Unary /\ t = CallTask("unary", t.call)
           /\ t.kind = "add" => t.call \in Events /\ t = CallTask("add", t.call)
           /\ t.kind = "release" => t.call \in Events /\ t = CallTask("release", t.call)
BY DEF Tasks, Task, CallTask

LEMMA TaskRecords ==
    /\ \A kind \in {"operate", "notify", "stop", "final"} :
         Task(kind) \in Tasks /\ Task(kind).kind = kind
    /\ \A c \in Unary : CallTask("unary", c) \in Tasks
    /\ \A c \in Events : CallTask("add", c) \in Tasks /\ CallTask("release", c) \in Tasks
    /\ \A kind, c : CallTask(kind, c).kind = kind /\ CallTask(kind, c).call = c
BY DEF Tasks, Task, CallTask

\* The worker runs what it ran, or nothing as before.
SameTask ==
    /\ task = Nothing <=> task' = Nothing
    /\ task # Nothing => task'.do = task.do

LEMMA Appended ==
    ASSUME queue \in Seq(Tasks), NEW t \in Tasks, queue' = Append(queue, t)
    PROVE  /\ queue' \in Seq(Tasks)
           /\ Len(queue) \in Nat /\ Len(queue') = Len(queue) + 1
           /\ \A n \in 1 .. Len(queue) : queue'[n] = queue[n]
           /\ queue'[Len(queue) + 1] = t
BY AppendProperties, LenProperties

LEMMA WaitingGrows ==
    ASSUME queue \in Seq(Tasks), NEW t \in Tasks, queue' = Append(queue, t), SameTask
    PROVE  \A kind, c : Waiting(kind, c)' <=> Waiting(kind, c) \/ t = CallTask(kind, c)
<1> TAKE kind, c
<1> DEFINE call == CallTask(kind, c)
<1>1. /\ Len(queue) \in Nat /\ Len(queue') = Len(queue) + 1
      /\ \A n \in 1 .. Len(queue) : queue'[n] = queue[n]
      /\ queue'[Len(queue) + 1] = t
      /\ DOMAIN queue = 1 .. Len(queue) /\ DOMAIN queue' = 1 .. Len(queue')
  BY Appended, LenProperties
<1>2. (\E n \in DOMAIN queue' : queue'[n] = call)
        <=> (\E n \in DOMAIN queue : queue[n] = call) \/ t = call
  <2> HIDE DEF call
  <2>1. \A n \in DOMAIN queue : n \in DOMAIN queue' /\ queue'[n] = queue[n]
    BY <1>1
  <2>2. Len(queue) + 1 \in DOMAIN queue'  BY <1>1
  <2>3. \A n \in DOMAIN queue' : n \in DOMAIN queue \/ n = Len(queue) + 1
    BY <1>1
  <2> QED BY <2>1, <2>2, <2>3, <1>1
<1> QED BY <1>2 DEF Waiting, CallTask, SameTask

LEMMA QueueGrows ==
    ASSUME TypeOK, QueueInv, NEW t \in Tasks, queue' = Append(queue, t), SameTask,
           \A u \in Tasks : TaskOK(u) => TaskOK(u)' /\ MayFollow(u, t),
           TaskOK(t)'
    PROVE  QueueInv'
<1>1. /\ Len(queue) \in Nat /\ Len(queue') = Len(queue) + 1
      /\ \A n \in 1 .. Len(queue) : queue'[n] = queue[n] /\ queue[n] \in Tasks
      /\ queue'[Len(queue) + 1] = t
  BY Appended, ElementOfSeq DEF TypeOK
<1>2. \A n \in 1 .. Len(queue') : n \in 1 .. Len(queue) \/ n = Len(queue) + 1
  BY <1>1
<1>3. ASSUME NEW n \in 1 .. Len(queue') PROVE TaskOK(queue[n])'
  <2>1. CASE n \in 1 .. Len(queue)
    <3>1. queue[n] \in Tasks /\ TaskOK(queue[n]) /\ queue'[n] = queue[n]
      BY <2>1, <1>1 DEF QueueInv
    <3> QED BY <3>1 DEF TaskOK
  <2>2. CASE n = Len(queue) + 1
    BY <2>2, <1>1 DEF TaskOK
  <2> QED BY <2>1, <2>2, <1>2
<1>4. ASSUME NEW m \in 1 .. Len(queue'), NEW n \in 1 .. Len(queue'), m < n
      PROVE  MayFollow(queue'[m], queue'[n])
  <2>1. m \in 1 .. Len(queue)  BY <1>1, <1>4
  <2>2. CASE n \in 1 .. Len(queue)
    BY <2>1, <2>2, <1>1, <1>4 DEF QueueInv
  <2>3. CASE n = Len(queue) + 1
    BY <2>1, <2>3, <1>1 DEF QueueInv
  <2> QED BY <2>2, <2>3, <1>2
<1>5. ASSUME task # Nothing
      PROVE  /\ TaskOK(task.do)'
             /\ \A n \in 1 .. Len(queue') : MayFollow(task.do, queue'[n])
  <2>1. task.do \in Tasks  BY <1>5 DEF TypeOK
  <2>2. TaskOK(task.do) /\ \A n \in 1 .. Len(queue) : MayFollow(task.do, queue[n])
    BY <1>5 DEF QueueInv
  <2>3. TaskOK(task.do)'
    <3> DEFINE u == task.do
    <3>1. task'.do = u  BY <1>5 DEF SameTask
    <3>2. \A v \in Tasks : TaskOK(v) => TaskOK(v)'  OBVIOUS
    <3> QED BY <2>1, <2>2, <3>1, <3>2 DEF TaskOK
  <2>4. ASSUME NEW n \in 1 .. Len(queue') PROVE MayFollow(task.do, queue'[n])
    <3>1. CASE n \in 1 .. Len(queue)
      BY <3>1, <2>2, <1>1
    <3>2. CASE n = Len(queue) + 1
      BY <3>2, <2>1, <2>2, <1>1
    <3> QED BY <3>1, <3>2, <1>2
  <2> QED BY <2>3, <2>4
<1> HIDE DEF TaskOK
<1> QED BY <1>3, <1>4, <1>5 DEF QueueInv, MayFollow, CallTask, SameTask

(* A step that leaves the queue alone, and the streams' calls as far as    *)
(* they count.                                                             *)
LEMMA Undisturbed ==
    ASSUME TypeOK, QueueInv, StreamsInv, UNCHANGED <<queue, sinks>>, SameTask,
           \A u \in Tasks : TaskOK(u) => TaskOK(u)',
           \A c \in Events : stage[c] \in {"open", "finished"}
                               <=> stage'[c] \in {"open", "finished"}
    PROVE  QueueInv' /\ StreamsInv'
<1>1. \A n \in 1 .. Len(queue) : queue[n] \in Tasks
  BY ElementOfSeq DEF TypeOK
<1>2. task # Nothing => task.do \in Tasks  BY DEF TypeOK
<1>3. QueueInv'
  <2>1. \A n \in 1 .. Len(queue) : TaskOK(queue[n])
    BY DEF QueueInv
  <2>2. ASSUME NEW n \in 1 .. Len(queue') PROVE TaskOK(queue[n])'
    <3>1. n \in 1 .. Len(queue) /\ queue'[n] = queue[n]  BY <2>2
    <3>2. queue[n] \in Tasks /\ TaskOK(queue[n])  BY <3>1, <2>1, <1>1
    <3> QED BY <3>1, <3>2 DEF TaskOK
  <2>3. task # Nothing => TaskOK(task.do)'
    BY <1>2 DEF QueueInv, TaskOK, SameTask
  <2> QED BY <2>2, <2>3 DEF QueueInv, MayFollow, CallTask, SameTask
<1>4. \A kind, c : Waiting(kind, c)' <=> Waiting(kind, c)
  BY DEF Waiting, CallTask, SameTask
<1> QED BY <1>3, <1>4 DEF StreamsInv

-----------------------------------------------------------------------------
LEMMA InitIInv == Init => IInv
<1> SUFFICES ASSUME Init PROVE IInv
  OBVIOUS
<1> USE DEF Init
<1>1. TypeOK
  <2>1. <<>> \in Seq(Tasks)  BY EmptySeq
  <2> QED BY <2>1 DEF TypeOK, Callbacks
<1>2. Len(queue) = 0 /\ DOMAIN queue = {}  OBVIOUS
<1>3. QueueInv /\ StreamsInv
  BY <1>2 DEF QueueInv, StreamsInv, Waiting, Calls
<1>4. MainInv /\ EffectInv /\ MachineInv
  BY DEF MainInv, Idle, EffectInv, MachineInv
<1> QED BY <1>1, <1>3, <1>4 DEF IInv

(* Main goes on, without submitting.                                       *)
LEMMA MainStep ==
    ASSUME IInv,
           \/ Signal \/ Construct \/ Register \/ Serve \/ Wake \/ Shutdown
           \/ Await \/ Unregister \/ Get \/ Drain \/ Destroy
    PROVE  IInv'
<1> USE DEF IInv
<1> DEFINE Advances ==
      /\ UNCHANGED <<queue, task, final, sinks, stage, sensor, power, brewing>>
      /\ pc' # pc => pc # "get" \/ final # "none"
      /\ pc' \in {"construct", "register", "serve", "wait", "alone", "await",
                  "unregister", "get", "drain", "destroy", "ended", "aborted"}
      /\ signalled' \in BOOLEAN
      /\ input' \in [Buttons -> Callbacks]
      /\ profiler' \in Callbacks /\ (profiler' # profiler => pc = "construct")
      /\ cancelled' \subseteq Events
      /\ MainInv'
<1>1. Advances
  <2> USE DEF TypeOK, callbacks, calls, worker, machine, Callbacks
  <2>1. CASE Signal  BY <2>1 DEF Signal, MainInv, Idle
  <2>2. CASE Construct  BY <2>2 DEF Construct, MainInv, Idle
  <2>3. CASE Register  BY <2>3 DEF Register, MainInv, Idle
  <2>4. CASE Serve  BY <2>4 DEF Serve, MainInv, Idle
  <2>5. CASE Wake  BY <2>5 DEF Wake, MainInv, Idle
  <2>6. CASE Shutdown  BY <2>6 DEF Shutdown, MainInv, Idle
  <2>7. CASE Await  BY <2>7 DEF Await, MainInv, Idle
  <2>8. CASE Unregister  BY <2>8 DEF Unregister, MainInv, Idle, Leave
  <2>9. CASE Get  BY <2>9 DEF Get, MainInv, Idle
  <2>10. CASE Drain  BY <2>10 DEF Drain, MainInv, Idle, MachineInv
  <2>11. CASE Destroy  BY <2>11 DEF Destroy, MainInv, Idle
  <2> QED BY <2>1, <2>2, <2>3, <2>4, <2>5, <2>6, <2>7, <2>8, <2>9, <2>10, <2>11
<1>2. TypeOK'  BY <1>1 DEF TypeOK
<1>3. \A u \in Tasks : TaskOK(u) => TaskOK(u)'
  BY <1>1 DEF TaskOK
<1>4. QueueInv' /\ StreamsInv'
  BY <1>1, <1>3, Undisturbed DEF SameTask
<1>5. EffectInv'
  <2>1. pc = "construct" => task = Nothing  BY DEF MainInv, Idle
  <2> QED BY <1>1, <2>1 DEF EffectInv
<1>6. MachineInv'
  <2>1. pc = "construct" => final = "none"  BY DEF MainInv
  <2> QED BY <1>1, <2>1 DEF MachineInv
<1> QED BY <1>1, <1>2, <1>4, <1>5, <1>6

(* A callback begins, or gRPC goes on with a call, without submitting.      *)
LEMMA QuietStep ==
    ASSUME IInv,
           \/ \E i \in Buttons : Press(i)
           \/ Sample \/ BrewStep
           \/ \E c \in Calls : Accept(c) \/ ClientCancels(c) \/ FinishStream(c)
    PROVE  IInv'
<1> USE DEF IInv
<1> DEFINE Advances ==
      /\ UNCHANGED <<pc, signalled, queue, task, final, sinks, power, brewing>>
      /\ input' \in [Buttons -> Callbacks]
      /\ \A i \in Buttons : input[i] = "none" => input'[i] = "none"
      /\ sensor' \in Callbacks /\ (sensor' # sensor => sensor = "idle" /\ sensor' = "running")
      /\ profiler' \in Callbacks
      /\ profiler' # profiler => profiler = "idle" /\ profiler' = "running"
      /\ stage' \in [Calls -> {"none", "accepted", "open", "finished", "done"}]
      /\ stage' # stage => pc \in {"wait", "await"}
      /\ \A c \in Calls :
           \/ stage'[c] = stage[c]
           \/ stage[c] = "none" /\ stage'[c] = "accepted"
           \/ stage[c] = "open" /\ stage'[c] = "finished" /\ c \in Events
      /\ cancelled' \subseteq Events
<1>1. Advances
  <2> USE DEF TypeOK, callbacks, calls, worker, machine, Callbacks
  <2>1. ASSUME NEW i \in Buttons, Press(i) PROVE Advances
    BY <2>1 DEF Press, Begins
  <2>2. CASE Sample  BY <2>2 DEF Sample, Begins
  <2>3. CASE BrewStep  BY <2>3 DEF BrewStep, Begins
  <2>4. ASSUME NEW c \in Calls, Accept(c) PROVE Advances
    BY <2>4 DEF Accept
  <2>5. ASSUME NEW c \in Calls, ClientCancels(c) PROVE Advances
    BY <2>5 DEF ClientCancels
  <2>6. ASSUME NEW c \in Calls, FinishStream(c) PROVE Advances
    <3>1. pc \in {"wait", "await"}  BY <2>6 DEF FinishStream, MainInv
    <3> QED BY <2>6, <3>1, ZenonT(60) DEF FinishStream
  <2> QED BY <2>1, <2>2, <2>3, <2>4, <2>5, <2>6
<1>2. TypeOK'  BY <1>1 DEF TypeOK
<1>3. QueueInv' /\ StreamsInv'
  <2>1. \A c \in Events : stage[c] \in {"open", "finished"}
                            <=> stage'[c] \in {"open", "finished"}
    BY <1>1 DEF Calls
  <2>2. \A c \in Unary : stage[c] = "open" => stage'[c] = "open"
    BY <1>1, LifecycleAssumption DEF Calls
  <2>3. ASSUME NEW u \in Tasks, TaskOK(u) PROVE TaskOK(u)'
    <3>1. u.kind = "unary" => stage'[u.call] = "open"
      BY <2>2, <2>3, TaskKinds DEF TaskOK
    <3>2. u.kind = "add" => stage'[u.call] \in {"open", "finished", "done"}
      BY <1>1, <2>3, TaskKinds DEF TaskOK, Calls
    <3>3. u.kind = "release" => stage'[u.call] = "done"
      BY <1>1, <2>3, TaskKinds DEF TaskOK, Calls
    <3> QED BY <1>1, <2>3, <3>1, <3>2, <3>3 DEF TaskOK
  <2> QED BY <1>1, <2>1, <2>3, Undisturbed DEF SameTask
<1>4. MainInv'
  BY <1>1 DEF MainInv, Idle
<1>5. EffectInv'
  BY <1>1 DEF EffectInv
<1>6. MachineInv'
  BY <1>1 DEF MachineInv
<1> QED BY <1>2, <1>3, <1>4, <1>5, <1>6

(* What only notifies or stops may be submitted at any time.               *)
LEMMA AnyTimeTask ==
    ASSUME NEW t \in Tasks, t.kind \in {"operate", "notify", "stop"},
           t.kind = "operate" => final = "none" /\ pc # "get"
    PROVE  /\ TaskOK(t)
           /\ \A u \in Tasks : TaskOK(u) => MayFollow(u, t)
<1>1. TaskOK(t)  BY DEF TaskOK
<1>2. ASSUME NEW u \in Tasks, TaskOK(u) PROVE MayFollow(u, t)
  BY <1>2, TaskRecords DEF TaskOK, MayFollow
<1> QED BY <1>1, <1>2

LEMMA NotAStreams ==
    ASSUME NEW t \in Tasks, t.kind \notin {"add", "release"},
           IInv, queue' = Append(queue, t), SameTask, UNCHANGED <<sinks, stage>>
    PROVE  StreamsInv'
<1>1. \A c : t # CallTask("add", c) /\ t # CallTask("release", c)
  BY TaskRecords
<1>2. \A kind, c : Waiting(kind, c)' <=> Waiting(kind, c) \/ t = CallTask(kind, c)
  BY WaitingGrows DEF IInv, TypeOK
<1> QED BY <1>1, <1>2 DEF StreamsInv, IInv

(* A callback returns, and submits a task or not.                          *)
LEMMA CallbackEnds ==
    ASSUME IInv,
           (\E i \in Buttons : PressEnds(i)) \/ SampleEnds \/ BrewStepEnds
    PROVE  IInv'
<1> USE DEF IInv
<1> DEFINE Submits ==
      \E t \in Tasks : /\ queue' = Append(queue, t)
                       /\ t.kind \in {"operate", "notify", "stop"}
                       /\ t.kind = "operate" => final = "none" /\ pc # "get"
      Advances ==
      /\ UNCHANGED <<pc, signalled, stage, cancelled, task, final, sinks, power, brewing>>
      /\ input' \in [Buttons -> Callbacks]
      /\ \A i \in Buttons : input[i] = "none" => input'[i] = "none"
      /\ sensor' \in Callbacks
      /\ sensor' # sensor => sensor # "none"
      /\ sensor \in {"none", "leaving"} => sensor' \in {"none", "leaving"}
      /\ profiler' \in Callbacks
      /\ profiler' # profiler => profiler # "none"
      /\ profiler \in {"none", "leaving"} => profiler' \in {"none", "leaving"}
      /\ queue' = queue \/ Submits
      /\ \/ \E i \in Buttons : input[i] # "none"
         \/ sensor # "none" \/ profiler # "none"
<1>1. Advances
  <2> USE DEF TypeOK, callbacks, calls, worker, machine, Callbacks, Return, Ends
  <2>1. ASSUME NEW i \in Buttons, PressEnds(i) PROVE Advances
    <3>1. queue' = queue \/ queue' = Append(queue, Task("operate"))
      BY <2>1 DEF PressEnds, MaySubmit
    <3>2. final = "none" /\ pc # "get"
      BY <2>1 DEF PressEnds, MainInv
    <3>3. queue' = queue \/ Submits
      BY <3>1, <3>2, TaskRecords
    <3> QED BY <2>1, <3>3 DEF PressEnds
  <2>2. CASE SampleEnds
    <3>1. queue' = queue \/ queue' = Append(queue, Task("notify"))
      BY <2>2 DEF SampleEnds, MaySubmit
    <3>2. queue' = queue \/ Submits
      BY <3>1, TaskRecords
    <3> QED BY <2>2, <3>2 DEF SampleEnds
  <2>3. CASE BrewStepEnds
    <3>1. \/ queue' = queue \/ queue' = Append(queue, Task("notify"))
          \/ queue' = Append(queue, Task("stop"))
      BY <2>3 DEF BrewStepEnds, MaySubmit
    <3>2. queue' = queue \/ Submits
      BY <3>1, TaskRecords
    <3> QED BY <2>3, <3>2 DEF BrewStepEnds
  <2> QED BY <2>1, <2>2, <2>3
<1>2. \A u \in Tasks : TaskOK(u) => TaskOK(u)'
  BY <1>1 DEF TaskOK
<1>3. QueueInv' /\ StreamsInv' /\ queue' \in Seq(Tasks)
  <2>1. CASE queue' = queue
    BY <2>1, <1>1, <1>2, Undisturbed DEF TypeOK, SameTask
  <2>2. CASE Submits
    <3>1. PICK t \in Tasks : /\ queue' = Append(queue, t)
                             /\ t.kind \in {"operate", "notify", "stop"}
                             /\ t.kind = "operate" => final = "none" /\ pc # "get"
      BY <2>2
    <3>2. TaskOK(t) /\ \A u \in Tasks : TaskOK(u) => MayFollow(u, t)
      BY <3>1, AnyTimeTask
    <3>3. TaskOK(t)'  BY <3>2, <1>2
    <3>4. QueueInv'
      BY <1>1, <1>2, <3>1, <3>2, <3>3, QueueGrows DEF SameTask
    <3>5. StreamsInv'
      BY <1>1, <3>1, NotAStreams DEF SameTask
    <3> QED BY <3>1, <3>4, <3>5, Appended DEF TypeOK
  <2> QED BY <1>1, <2>1, <2>2
<1>4. TypeOK'  BY <1>1, <1>3 DEF TypeOK
<1>5. MainInv'  BY <1>1 DEF MainInv, Idle
<1>6. EffectInv'  BY <1>1 DEF EffectInv
<1>7. MachineInv'  BY <1>1 DEF MachineInv
<1> QED BY <1>3, <1>4, <1>5, <1>6, <1>7

LEMMA SubmitFinalStep == ASSUME IInv, SubmitFinal PROVE IInv'
<1> USE DEF IInv, SubmitFinal, TypeOK, callbacks, calls, machine
<1> DEFINE t == Task("final")
<1>1. t \in Tasks /\ t.kind = "final"  BY TaskRecords
<1>2. pc' = "get" /\ final = "none"
  BY DEF MainInv
<1> HIDE DEF t
<1>3. queue' = Append(queue, t) /\ UNCHANGED <<task, sinks, stage>>
  BY DEF t
<1>4. \A u \in Tasks : TaskOK(u) => TaskOK(u)' /\ MayFollow(u, t)
  <2>1. \A u \in Tasks : TaskOK(u) => u.kind # "final"
    BY DEF TaskOK
  <2>2. \A c : t # CallTask("add", c)  BY <1>1, TaskRecords
  <2> QED BY <1>1, <2>1, <2>2 DEF TaskOK, MayFollow
<1>5. TaskOK(t)'
  BY <1>1, <1>2 DEF TaskOK
<1>6. QueueInv'
  BY <1>1, <1>3, <1>4, <1>5, QueueGrows DEF SameTask
<1>7. StreamsInv'
  BY <1>1, <1>3, NotAStreams DEF SameTask
<1>8. TypeOK'
  <2>1. queue' \in Seq(Tasks)  BY <1>1, <1>3, Appended
  <2> QED BY <1>2, <2>1
<1>9. MainInv' /\ EffectInv' /\ MachineInv'
  BY <1>2 DEF MainInv, EffectInv, MachineInv
<1> QED BY <1>6, <1>7, <1>8, <1>9

(* A handler's task, for a call that is accepted only now.                 *)
LEMMA HandleStep == ASSUME IInv, NEW c \in Calls, Handle(c) PROVE IInv'
<1> USE DEF IInv, Handle, TypeOK, callbacks, machine
<1> DEFINE t == CallTask(IF c \in Unary THEN "unary" ELSE "add", c)
<1>1. /\ t \in Tasks /\ t.call = c
      /\ t.kind = IF c \in Unary THEN "unary" ELSE "add"
      /\ \A kind, d : t = CallTask(kind, d) => kind = t.kind /\ d = c
      /\ c \in Unary \/ c \in Events
  <2>1. c \in Unary \/ c \in Events  BY DEF Calls
  <2>2. CASE c \in Unary
    <3>1. t = CallTask("unary", c)  BY <2>2
    <3> HIDE DEF t
    <3>2. ASSUME NEW kind, NEW d, t = CallTask(kind, d) PROVE kind = "unary" /\ d = c
      <4>1. CallTask("unary", c) = CallTask(kind, d)  BY <3>1, <3>2
      <4> QED BY <4>1 DEF CallTask
    <3>3. t \in Tasks /\ t.call = c /\ t.kind = "unary"
      <4>1. t \in Tasks  BY <2>2, <3>1, TaskRecords
      <4>2. t.call = c /\ t.kind = "unary"  BY <3>1 DEF CallTask
      <4> QED BY <4>1, <4>2
    <3>4. ASSUME NEW kind, NEW d, t = CallTask(kind, d) PROVE kind = t.kind /\ d = c
      BY <3>2, <3>3, <3>4
    <3> QED BY <2>1, <2>2, <3>3, <3>4
  <2>3. CASE c \notin Unary
    <3>1. t = CallTask("add", c)  BY <2>3
    <3> HIDE DEF t
    <3>2. ASSUME NEW kind, NEW d, t = CallTask(kind, d) PROVE kind = "add" /\ d = c
      <4>1. CallTask("add", c) = CallTask(kind, d)  BY <3>1, <3>2
      <4> QED BY <4>1 DEF CallTask
    <3>3. t \in Tasks /\ t.call = c /\ t.kind = "add"
      <4>1. c \in Events  BY <2>1, <2>3
      <4>2. t \in Tasks  BY <3>1, <4>1, TaskRecords
      <4>3. t.call = c /\ t.kind = "add"  BY <3>1 DEF CallTask
      <4> QED BY <4>2, <4>3
    <3>4. ASSUME NEW kind, NEW d, t = CallTask(kind, d) PROVE kind = t.kind /\ d = c
      BY <3>2, <3>3, <3>4
    <3> QED BY <2>1, <2>3, <3>3, <3>4
  <2> QED BY <2>2, <2>3
<1>2. pc \in {"wait", "await"} /\ final = "none" /\ stage[c] = "accepted"
  BY DEF MainInv
<1>3. stage'[c] = "open" /\ \A d \in Calls : d # c => stage'[d] = stage[d]
  OBVIOUS
<1> HIDE DEF t
<1>4. queue' = Append(queue, t) /\ UNCHANGED <<task, sinks>>
  BY DEF t
<1>5. ASSUME NEW u \in Tasks, TaskOK(u) PROVE TaskOK(u)' /\ MayFollow(u, t)
  <2>1. u.kind \in {"unary", "add", "release"} => u.call \in Calls /\ u.call # c
    BY <1>2, <1>5, TaskKinds DEF TaskOK, Calls
  <2>2. u.kind # "final"
    BY <1>2, <1>5 DEF TaskOK
  <2>3. TaskOK(u)'
    BY <2>1, <2>2, <1>2, <1>3, <1>5 DEF TaskOK
  <2>4. u.kind \in {"unary", "release"} => t # u
    BY <2>1, <1>1
  <2>5. u.kind = "release" => t # CallTask("add", u.call)
    BY <2>1, <1>1
  <2> QED BY <2>2, <2>3, <2>4, <2>5 DEF MayFollow
<1>6. TaskOK(t)'
  BY <1>1, <1>2, <1>3 DEF TaskOK
<1>7. QueueInv'
  BY <1>1, <1>4, <1>5, <1>6, QueueGrows DEF SameTask
<1>8. StreamsInv'
  <2>1. \A kind, d : Waiting(kind, d)' <=> Waiting(kind, d) \/ t = CallTask(kind, d)
    BY <1>1, <1>4, WaitingGrows DEF SameTask
  <2>2. \A d : t # CallTask("release", d)
    <3>1. t.kind # "release"  BY <1>1
    <3> SUFFICES ASSUME NEW d, t = CallTask("release", d) PROVE FALSE
      OBVIOUS
    <3>2. CallTask("release", d).kind = "release"  BY DEF CallTask
    <3> QED BY <3>1, <3>2
  <2>3. ASSUME NEW d \in Events
        PROVE  d \in sinks' \/ Waiting("add", d)'
                 <=> stage'[d] \in {"open", "finished"} \/ Waiting("release", d)'
    <3>1. CASE d = c
      <4>1. t = CallTask("add", d)
        BY <3>1, LifecycleAssumption DEF t
      <4> QED BY <3>1, <4>1, <2>1, <1>3
    <3>2. CASE d # c
      <4>1. t # CallTask("add", d)  BY <3>2, <1>1
      <4>2. stage'[d] = stage[d]  BY <3>2, <1>3 DEF Calls
      <4> QED BY <4>1, <4>2, <2>1, <2>2, <1>4 DEF StreamsInv
    <3> QED BY <3>1, <3>2
  <2> QED BY <2>3 DEF StreamsInv
<1>9. TypeOK'
  <2>1. queue' \in Seq(Tasks)  BY <1>1, <1>4, Appended
  <2> QED BY <2>1
<1>10. MainInv' /\ EffectInv' /\ MachineInv'
  BY <1>2 DEF MainInv, EffectInv, MachineInv
<1> QED BY <1>7, <1>8, <1>9, <1>10

LEMMA OnDoneStep == ASSUME IInv, NEW c \in Calls, OnDone(c) PROVE IInv'
<1> USE DEF IInv, OnDone, TypeOK, callbacks, machine
<1>1. pc \in {"wait", "await"} /\ final = "none" /\ stage[c] = "finished"
  BY DEF MainInv
<1>2. stage'[c] = "done" /\ \A d \in Calls : d # c => stage'[d] = stage[d]
  OBVIOUS
<1>3. ASSUME NEW u \in Tasks, TaskOK(u) PROVE TaskOK(u)' /\ u # CallTask("release", c)
  <2>1. /\ u.kind \in {"unary", "release"} => u.call \in Calls /\ u.call # c
        /\ u.kind = "add" => u.call \in Calls
    BY <1>1, <1>3, TaskKinds DEF TaskOK, Calls
  <2>2. TaskOK(u)'
    BY <2>1, <1>1, <1>2, <1>3 DEF TaskOK
  <2>3. CASE u = CallTask("release", c)
    <3>1. u.kind = "release" /\ u.call = c  BY <2>3 DEF CallTask
    <3> QED BY <3>1, <2>1
  <2> QED BY <2>2, <2>3
<1>4. CASE c \in Events
  <2> DEFINE t == CallTask("release", c)
  <2>1. t \in Tasks /\ t.kind = "release" /\ t.call = c
    <3>1. t \in Tasks  BY <1>4, TaskRecords
    <3>2. t.kind = "release" /\ t.call = c  BY DEF CallTask
    <3> QED BY <3>1, <3>2
  <2>2. ASSUME NEW kind, NEW d, t = CallTask(kind, d) PROVE kind = "release" /\ d = c
    <3>1. CallTask("release", c) = CallTask(kind, d)  BY <2>2
    <3> QED BY <3>1 DEF CallTask
  <2> HIDE DEF t
  <2>3. queue' = Append(queue, t) /\ UNCHANGED <<task, sinks>>
    BY <1>4 DEF t
  <2>4. ASSUME NEW u \in Tasks, TaskOK(u) PROVE MayFollow(u, t)
    <3>1. u.kind # "final"  BY <1>1, <2>4 DEF TaskOK
    <3>2. u # t  BY <1>3, <2>4 DEF t
    <3>3. t # CallTask("add", u.call)
      <4>1. "release" # "add"  OBVIOUS
      <4> QED BY <4>1, <2>2
    <3> QED BY <3>1, <3>2, <3>3 DEF MayFollow
  <2>5. TaskOK(t)'
    BY <2>1, <1>1, <1>2 DEF TaskOK
  <2>6. QueueInv'
    BY <2>1, <2>3, <2>4, <2>5, <1>3, QueueGrows DEF SameTask
  <2>7. StreamsInv'
    <3>1. \A kind, d : Waiting(kind, d)' <=> Waiting(kind, d) \/ t = CallTask(kind, d)
      BY <2>1, <2>3, WaitingGrows DEF SameTask
    <3>2. \A d : t # CallTask("add", d)
      <4>1. t.kind # "add"  BY <2>1
      <4> SUFFICES ASSUME NEW d, t = CallTask("add", d) PROVE FALSE
        OBVIOUS
      <4>2. CallTask("add", d).kind = "add"  BY DEF CallTask
      <4> QED BY <4>1, <4>2
    <3>3. ASSUME NEW d \in Events
          PROVE  d \in sinks' \/ Waiting("add", d)'
                   <=> stage'[d] \in {"open", "finished"} \/ Waiting("release", d)'
      <4>1. CASE d = c
        BY <4>1, <3>1, <3>2, <1>1, <2>3 DEF StreamsInv, t
      <4>2. CASE d # c
        <5>1. t # CallTask("release", d)  BY <4>2, <2>2
        <5>2. stage'[d] = stage[d]  BY <4>2, <1>2 DEF Calls
        <5> QED BY <5>1, <5>2, <3>1, <3>2, <2>3 DEF StreamsInv
      <4> QED BY <4>1, <4>2
    <3> QED BY <3>3 DEF StreamsInv
  <2>8. TypeOK'
    <3>1. queue' \in Seq(Tasks)  BY <2>1, <2>3, Appended
    <3> QED BY <3>1
  <2>9. MainInv' /\ EffectInv' /\ MachineInv'
    BY <1>1, <1>2, <2>3 DEF MainInv, EffectInv, MachineInv
  <2> QED BY <2>6, <2>7, <2>8, <2>9
<1>5. CASE c \notin Events
  <2>1. UNCHANGED <<queue, task, sinks>>  BY <1>5
  <2>2. \A d \in Events : stage'[d] = stage[d]
    BY <1>2, <1>5 DEF Calls
  <2>3. QueueInv' /\ StreamsInv'
    BY <2>1, <2>2, <1>3, Undisturbed DEF SameTask
  <2>4. TypeOK'  BY <2>1
  <2>5. MainInv' /\ EffectInv' /\ MachineInv'
    BY <1>1, <1>2, <2>1 DEF MainInv, EffectInv, MachineInv
  <2> QED BY <2>3, <2>4, <2>5
<1> QED BY <1>4, <1>5

-----------------------------------------------------------------------------
(* What a task may set out to do.                                          *)
LEMMA EffectOf ==
    ASSUME NEW t \in Tasks, NEW effect \in Effects(t.kind)
    PROVE  /\ effect \in Deeds \cup {"done"}
           /\ t.kind \in {"notify", "add", "release"} => effect = "done"
           /\ t.kind = "stop" => effect = "stop"
           /\ t.kind = "final" => effect \in {"off", "throw"}
           /\ effect = "indicate" => power
           /\ effect = "throw" => t.kind = "final"
<1>1. CASE t.kind \in {"operate", "unary"}
  <2>1. /\ Effects(t.kind) \subseteq {"done", "off", "indicate", "on", "stop", "brew"}
        /\ "indicate" \in Effects(t.kind) => power
    BY <1>1 DEF Effects
  <2> QED BY <1>1, <2>1 DEF Deeds
<1>2. CASE t.kind = "stop"
  BY <1>2 DEF Effects, Deeds
<1>3. CASE t.kind = "final"
  BY <1>3 DEF Effects, FinalEffects, Deeds
<1>4. CASE t.kind \in {"notify", "add", "release"}
  BY <1>4 DEF Effects, Deeds
<1> QED BY <1>1, <1>2, <1>3, <1>4, TaskKinds

LEMMA BeginStep == ASSUME IInv, Begin PROVE IInv'
<1> USE DEF IInv, callbacks, calls, machine
<1> DEFINE t == Head(queue)
<1>1. /\ queue \in Seq(Tasks) /\ queue # <<>> /\ queue' = Tail(queue)
      /\ task = Nothing /\ pc \notin {"destroy", "ended", "aborted"}
      /\ UNCHANGED <<pc, signalled, input, stage, cancelled, final, sinks, power, brewing>>
  BY DEF Begin, WorkerRuns, TypeOK
<1>2. /\ t \in Tasks /\ t = queue[1] /\ 1 \in 1 .. Len(queue)
      /\ Tail(queue) \in Seq(Tasks)
      /\ Len(queue) \in Nat \ {0} /\ Len(Tail(queue)) = Len(queue) - 1
      /\ \A n \in 1 .. Len(Tail(queue)) : Tail(queue)[n] = queue[n + 1]
  BY <1>1, HeadTailProperties, EmptySeq
<1>3. PICK effect \in Effects(t.kind) :
        /\ task' = [do |-> t, effect |-> effect]
        /\ sensor' = IF effect \in {"off", "indicate"} THEN Leave(sensor) ELSE sensor
        /\ profiler' = IF t.kind = "final" THEN Leave(profiler) ELSE profiler
  BY DEF Begin
<1> HIDE DEF t
<1>4. /\ effect \in Deeds \cup {"done"}
      /\ t.kind \in {"notify", "add", "release"} => effect = "done"
      /\ t.kind = "stop" => effect = "stop"
      /\ t.kind = "final" => effect \in {"off", "throw"}
      /\ effect = "indicate" => power
      /\ effect = "throw" => t.kind = "final"
  BY <1>2, <1>3, EffectOf
<1>5. /\ task' \in [do : Tasks, effect : Deeds \cup Outcomes] /\ task' # Nothing
      /\ task'.do = t /\ task'.effect = effect
  BY <1>2, <1>3, <1>4, LifecycleAssumption DEF Outcomes
<1>6. /\ sensor' \in Callbacks /\ (sensor = "none" => sensor' = "none")
      /\ effect \in {"off", "indicate"} => sensor' \in {"none", "leaving"}
      /\ profiler' \in Callbacks /\ (profiler = "none" => profiler' = "none")
      /\ t.kind = "final" => profiler' \in {"none", "leaving"}
  BY <1>3 DEF Leave, TypeOK, Callbacks
<1>7. TypeOK'
  BY <1>1, <1>2, <1>5, <1>6 DEF TypeOK
<1>8. QueueInv'
  <2>1. \A n \in 1 .. Len(queue') :
          /\ n + 1 \in 1 .. Len(queue) /\ 1 < n + 1
          /\ queue'[n] = queue[n + 1]
    BY <1>1, <1>2
  <2>2. \A n \in 1 .. Len(queue) : TaskOK(queue[n])  BY DEF QueueInv
  <2>3. ASSUME NEW n \in 1 .. Len(queue') PROVE TaskOK(queue[n])'
    BY <2>1, <2>2, <1>1 DEF TaskOK
  <2>4. ASSUME NEW m \in 1 .. Len(queue'), NEW n \in 1 .. Len(queue'), m < n
        PROVE  MayFollow(queue'[m], queue'[n])
    <3>1. m + 1 < n + 1  BY <2>4
    <3> QED BY <3>1, <2>1 DEF QueueInv
  <2>5. TaskOK(task.do)'
    <3>1. TaskOK(t)  BY <1>2, <2>2
    <3> QED BY <3>1, <1>1, <1>5 DEF TaskOK
  <2>6. ASSUME NEW n \in 1 .. Len(queue') PROVE MayFollow(task'.do, queue'[n])
    BY <2>1, <1>2, <1>5 DEF QueueInv
  <2> QED BY <2>3, <2>4, <2>5, <2>6 DEF QueueInv, MayFollow, CallTask
<1>9. StreamsInv'
  <2>1. ASSUME NEW kind, NEW c PROVE Waiting(kind, c)' <=> Waiting(kind, c)
    <3> DEFINE call == CallTask(kind, c)
    <3> HIDE DEF call
    <3>1. DOMAIN queue = 1 .. Len(queue) /\ DOMAIN queue' = 1 .. Len(queue')
      BY <1>1, <1>2, LenProperties
    <3>2. (\E n \in DOMAIN queue : queue[n] = call)
            <=> t = call \/ (\E n \in DOMAIN queue' : queue'[n] = call)
      <4>1. ASSUME NEW n \in DOMAIN queue, queue[n] = call
            PROVE  t = call \/ (\E m \in DOMAIN queue' : queue'[m] = call)
        <5>1. CASE n = 1  BY <5>1, <4>1, <1>2
        <5>2. CASE n # 1
          <6>1. n - 1 \in DOMAIN queue' /\ queue'[n - 1] = queue[(n - 1) + 1]
                /\ (n - 1) + 1 = n
            BY <5>2, <3>1, <1>1, <1>2
          <6> QED BY <6>1, <4>1
        <5> QED BY <5>1, <5>2
      <4>2. ASSUME NEW n \in DOMAIN queue', queue'[n] = call
            PROVE  \E m \in DOMAIN queue : queue[m] = call
        <5>1. n + 1 \in DOMAIN queue /\ queue[n + 1] = call
          BY <4>2, <3>1, <1>1, <1>2
        <5> QED BY <5>1
      <4>3. 1 \in DOMAIN queue /\ queue[1] = t  BY <3>1, <1>2
      <4> QED BY <4>1, <4>2, <4>3
    <3> QED BY <3>2, <1>1, <1>5 DEF Waiting, call, CallTask
  <2> QED BY <2>1, <1>1 DEF StreamsInv
<1>10. MainInv'
  <2>1. pc # "construct"  BY <1>1 DEF MainInv, Idle
  <2> QED BY <2>1, <1>1 DEF MainInv
<1>11. EffectInv'
  <2>1. effect # "failed"  BY <1>4 DEF Deeds
  <2>2. t.kind = "final" => effect \notin {"done", "failed"}  BY <1>4
  <2> QED BY <2>1, <2>2, <1>1, <1>4, <1>5, <1>6 DEF EffectInv
<1>12. MachineInv'
  BY <1>1, <1>6 DEF MachineInv
<1> QED BY <1>7, <1>8, <1>9, <1>10, <1>11, <1>12

(* The task's effect; it may submit a notification.                        *)
LEMMA ApplyStep == ASSUME IInv, Apply PROVE IInv'
<1> USE DEF IInv
<1> DEFINE t == task.do
           effect == task.effect
           notice == Task("notify")
<1>1. /\ queue \in Seq(Tasks) /\ task # Nothing
      /\ task \in [do : Tasks, effect : Deeds \cup Outcomes]
      /\ t \in Tasks /\ effect \in Deeds
      /\ sensor # "leaving" /\ profiler # "leaving"
      /\ pc \notin {"destroy", "ended", "aborted"}
      /\ UNCHANGED <<pc, signalled, input, profiler, stage, cancelled, final, sinks>>
  BY DEF Apply, WorkerRuns, TypeOK, calls
<1>2. /\ task' = [task EXCEPT !.effect = IF @ = "throw" THEN "failed" ELSE "done"]
      /\ power' = ((power \/ effect = "on") /\ effect # "off")
      /\ brewing' = ((brewing \/ effect = "brew") /\ effect \notin {"off", "stop"})
      /\ sensor' = IF effect \in {"on", "indicate"} THEN "idle" ELSE sensor
      /\ queue' = queue \/ queue' = Append(queue, notice)
  BY DEF Apply
<1> HIDE DEF t, effect, notice
<1>3. /\ task' \in [do : Tasks, effect : Deeds \cup Outcomes]
      /\ task'.do = t /\ task'.effect = IF effect = "throw" THEN "failed" ELSE "done"
  BY <1>1, <1>2 DEF Outcomes, t, effect
<1>4. task' # Nothing /\ SameTask
  BY <1>1, <1>3, LifecycleAssumption DEF SameTask, t
<1>5. notice \in Tasks /\ notice.kind = "notify"
  BY TaskRecords DEF notice
<1>6. \A u \in Tasks : TaskOK(u) => TaskOK(u)'
  BY <1>1 DEF TaskOK
<1>7. QueueInv' /\ StreamsInv' /\ queue' \in Seq(Tasks)
  <2>1. CASE queue' = queue
    BY <2>1, <1>1, <1>4, <1>6, Undisturbed
  <2>2. CASE queue' = Append(queue, notice)
    <3>1. TaskOK(notice) /\ \A u \in Tasks : TaskOK(u) => MayFollow(u, notice)
      BY <1>5, AnyTimeTask
    <3>2. TaskOK(notice)'
      <4>1. TaskOK(notice)'
            <=> /\ notice.kind = "unary" => stage'[notice.call] = "open"
                /\ notice.kind = "add" => stage'[notice.call] \in {"open", "finished", "done"}
                /\ notice.kind = "release" => stage'[notice.call] = "done"
                /\ notice.kind = "final" => pc' = "get"
                /\ final' # "none" => notice.kind \in {"notify", "stop"}
        BY DEF TaskOK, notice, Task
      <4> QED BY <4>1, <1>5
    <3>3. QueueInv'
      BY <1>4, <1>5, <1>6, <2>2, <3>1, <3>2, QueueGrows
    <3>4. StreamsInv'
      BY <1>1, <1>4, <1>5, <2>2, NotAStreams
    <3> QED BY <1>1, <1>5, <2>2, <3>3, <3>4, Appended
  <2> QED BY <1>2, <2>1, <2>2
<1>8. power' \in BOOLEAN /\ brewing' \in BOOLEAN /\ sensor' \in Callbacks
  BY <1>2 DEF TypeOK, Callbacks
<1>9. TypeOK'
  BY <1>1, <1>3, <1>7, <1>8 DEF TypeOK
<1>10. MainInv'
  <2>1. pc # "construct"  BY <1>1 DEF MainInv, Idle
  <2> QED BY <2>1, <1>1 DEF MainInv
<1>11. /\ t.kind \notin {"notify", "add", "release"}
       /\ t.kind = "stop" => effect = "stop"
       /\ t.kind = "final" => effect \in {"off", "throw"} /\ profiler = "none"
       /\ effect = "off" => sensor = "none"
       /\ effect = "indicate" => power
       /\ effect = "throw" => t.kind = "final"
  BY <1>1 DEF EffectInv, t, effect, Deeds
<1>12. EffectInv'
  <2>1. t.kind = "final" /\ effect # "throw" => ~power' /\ ~brewing'
    BY <1>2, <1>11
  <2> QED BY <2>1, <1>1, <1>3, <1>4, <1>11 DEF EffectInv
<1>13. MachineInv'
  <2>1. sensor' # "none" => power'
    BY <1>2, <1>11 DEF MachineInv
  <2>2. final = "ok" => t.kind = "stop"
    BY <1>1, <1>11 DEF QueueInv, TaskOK, t
  <2>3. final = "ok" => ~power' /\ ~brewing'
    BY <1>2, <1>11, <2>2 DEF MachineInv
  <2> QED BY <1>1, <2>1, <2>3 DEF MachineInv
<1> QED BY <1>7, <1>9, <1>10, <1>12, <1>13

LEMMA FinishStep == ASSUME IInv, Finish PROVE IInv'
<1> USE DEF IInv
<1> DEFINE t == task.do
<1>1. /\ queue \in Seq(Tasks) /\ task # Nothing /\ task' = Nothing
      /\ t \in Tasks /\ task.effect \in Outcomes
      /\ pc \notin {"destroy", "ended", "aborted"}
      /\ UNCHANGED <<pc, signalled, input, sensor, profiler, cancelled, queue,
                     power, brewing>>
  BY DEF Finish, WorkerRuns, TypeOK, callbacks, machine
<1>2. /\ final' = IF t.kind # "final" THEN final
                  ELSE IF task.effect = "failed" THEN "threw" ELSE "ok"
      /\ stage' = IF t.kind # "unary" THEN stage
                  ELSE [stage EXCEPT ![t.call] = "finished"]
      /\ sinks' = CASE t.kind = "add" -> sinks \cup {t.call}
                    [] t.kind = "release" -> sinks \ {t.call}
                    [] OTHER -> sinks
  BY DEF Finish
<1>3. TaskOK(t) /\ \A n \in 1 .. Len(queue) : MayFollow(t, queue[n])
  BY <1>1 DEF QueueInv
<1>4. \A n \in 1 .. Len(queue) : queue[n] \in Tasks
  BY <1>1, ElementOfSeq
<1>5. /\ t.kind = "final" => profiler = "none"
      /\ t.kind = "final" /\ task.effect # "failed" => ~power /\ ~brewing
  BY <1>1 DEF EffectInv, Outcomes, t
<1>6. sensor # "none" => power
  BY DEF MachineInv
<1> HIDE DEF t
<1>7. t.kind = "unary" => /\ t.call \in Unary /\ stage[t.call] = "open"
                           /\ t = CallTask("unary", t.call)
  BY <1>1, <1>3, TaskKinds DEF TaskOK
<1>8. t.kind = "release" => /\ t.call \in Events /\ stage[t.call] = "done"
                             /\ t = CallTask("release", t.call)
  BY <1>1, <1>3, TaskKinds DEF TaskOK
<1>9. t.kind = "add" => t.call \in Events /\ t = CallTask("add", t.call)
  BY <1>1, TaskKinds
<1>10. \A c \in Calls : ~(t.kind = "unary" /\ c = t.call) => stage'[c] = stage[c]
  BY <1>2 DEF TypeOK
<1>11. \A c \in Events : stage'[c] = stage[c]
  BY <1>7, <1>10, LifecycleAssumption DEF Calls

(* What is queued behind the task stays in order.                          *)
<1>12. ASSUME NEW u \in Tasks, TaskOK(u), MayFollow(t, u) PROVE TaskOK(u)'
  <2>1. u.kind = "unary" => stage'[u.call] = "open"
    <3> SUFFICES ASSUME u.kind = "unary" PROVE stage'[u.call] = "open"
      OBVIOUS
    <3>1. u.call \in Unary /\ u = CallTask("unary", u.call) /\ stage[u.call] = "open"
      BY <1>12, TaskKinds DEF TaskOK
    <3>2. t.kind = "unary" => u.call # t.call
      BY <1>7, <1>12, <3>1 DEF MayFollow
    <3> QED BY <3>1, <3>2, <1>10 DEF Calls
  <2>2. u.kind = "add" => stage'[u.call] \in {"open", "finished", "done"}
    BY <1>11, <1>12, TaskKinds DEF TaskOK
  <2>3. u.kind = "release" => stage'[u.call] = "done"
    BY <1>11, <1>12, TaskKinds DEF TaskOK
  <2>4. final' # "none" => u.kind \in {"notify", "stop"}
    BY <1>2, <1>12 DEF TaskOK, MayFollow
  <2> QED BY <1>1, <1>12, <2>1, <2>2, <2>3, <2>4 DEF TaskOK
<1>13. ASSUME NEW n \in 1 .. Len(queue) PROVE TaskOK(queue[n]) /\ MayFollow(t, queue[n])
  BY <1>3 DEF QueueInv
<1>14. QueueInv'
  <2>1. ASSUME NEW n \in 1 .. Len(queue') PROVE TaskOK(queue[n])'
    <3>1. n \in 1 .. Len(queue) /\ queue'[n] = queue[n]  BY <1>1
    <3>2. queue[n] \in Tasks /\ TaskOK(queue[n]) /\ MayFollow(t, queue[n])
      BY <3>1, <1>4, <1>13
    <3>3. \A u \in Tasks : TaskOK(u) /\ MayFollow(t, u) => TaskOK(u)'
      BY <1>12
    <3> QED BY <3>1, <3>2, <3>3 DEF TaskOK
  <2>2. \A m, n \in 1 .. Len(queue') : m < n => MayFollow(queue'[m], queue'[n])
    BY <1>1 DEF QueueInv
  <2> QED BY <1>1, <2>1, <2>2 DEF QueueInv, MayFollow, CallTask

(* The task itself waits no more; it has added or released its stream.     *)
<1>15. StreamsInv'
  <2> DEFINE Queued(kind, c) == \E n \in 1 .. Len(queue) : queue[n] = CallTask(kind, c)
  <2>1. \A kind, c : Waiting(kind, c) <=> Queued(kind, c) \/ t = CallTask(kind, c)
    BY <1>1, LenProperties DEF Waiting, CallTask, t
  <2>2. \A kind, c : Waiting(kind, c)' <=> Queued(kind, c)
    BY <1>1, LenProperties DEF Waiting, CallTask
  <2>3. ASSUME NEW c \in Events
        PROVE  c \in sinks' \/ Queued("add", c)
                 <=> stage'[c] \in {"open", "finished"} \/ Queued("release", c)
    <3>1. c \in sinks \/ Queued("add", c) \/ t = CallTask("add", c)
            <=> stage[c] \in {"open", "finished"} \/ Queued("release", c)
                  \/ t = CallTask("release", c)
      BY <2>1 DEF StreamsInv
    <3>2. stage'[c] = stage[c]  BY <1>11
    <3> HIDE DEF Queued
    <3>3. CASE t = CallTask("add", c)
      <4>1. t.kind = "add" /\ t.call = c  BY <3>3 DEF CallTask
      <4>2. t # CallTask("release", c)  BY <4>1, TaskRecords
      <4>3. c \in sinks'  BY <4>1, <1>2
      <4> QED BY <3>1, <3>2, <3>3, <4>2, <4>3
    <3>4. CASE t = CallTask("release", c)
      <4>1. t.kind = "release" /\ t.call = c  BY <3>4 DEF CallTask
      <4>2. c \notin sinks'  BY <4>1, <1>2
      <4>3. ~Queued("add", c) /\ ~Queued("release", c)
        BY <1>13, <4>1, <3>4 DEF Queued, MayFollow
      <4>4. stage[c] = "done"  BY <4>1, <1>8
      <4> QED BY <3>2, <4>2, <4>3, <4>4
    <3>5. CASE t # CallTask("add", c) /\ t # CallTask("release", c)
      <4>1. c \in sinks' <=> c \in sinks
        BY <3>5, <1>2, <1>8, <1>9
      <4> QED BY <3>1, <3>2, <3>5, <4>1
    <3> QED BY <3>3, <3>4, <3>5
  <2> QED BY <2>2, <2>3 DEF StreamsInv
<1>16. TypeOK'
  <2>1. stage' \in [Calls -> {"none", "accepted", "open", "finished", "done"}]
    BY <1>2 DEF TypeOK
  <2>2. sinks' \subseteq Events
    BY <1>2, <1>9 DEF TypeOK
  <2>3. final' \in {"none", "ok", "threw"}
    BY <1>2 DEF TypeOK
  <2> QED BY <1>1, <2>1, <2>2, <2>3 DEF TypeOK
<1>17. MainInv'
  <2>1. pc # "construct"  BY <1>1 DEF MainInv, Idle
  <2>2. t.kind = "final" => pc = "get"  BY <1>3 DEF TaskOK
  <2>3. t.kind = "unary" => pc \in {"wait", "await"}
    BY <1>7 DEF MainInv, Calls
  <2>4. pc = "drain" => final' = "ok"
    BY <1>2, <2>2 DEF MainInv
  <2>5. t.kind # "unary" => stage' = stage  BY <1>2
  <2> QED BY <1>1, <1>2, <2>1, <2>2, <2>3, <2>4, <2>5 DEF MainInv
<1>18. EffectInv'  BY <1>1 DEF EffectInv
<1>19. MachineInv'
  BY <1>1, <1>2, <1>5, <1>6 DEF MachineInv
<1> QED BY <1>14, <1>15, <1>16, <1>17, <1>18, <1>19

-----------------------------------------------------------------------------
LEMMA NextIInv == IInv /\ [Next]_vars => IInv'
<1> SUFFICES ASSUME IInv, [Next]_vars PROVE IInv'
  OBVIOUS
<1>1. CASE Signal  BY <1>1, MainStep
<1>2. CASE Main  BY <1>2, MainStep, SubmitFinalStep DEF Main
<1>3. ASSUME NEW i \in Buttons, Press(i) \/ PressEnds(i) PROVE IInv'
  BY <1>3, QuietStep, CallbackEnds
<1>4. CASE Sample \/ SampleEnds \/ BrewStep \/ BrewStepEnds
  BY <1>4, QuietStep, CallbackEnds
<1>5. ASSUME NEW c \in Calls,
             Accept(c) \/ Handle(c) \/ ClientCancels(c) \/ FinishStream(c) \/ OnDone(c)
      PROVE  IInv'
  BY <1>5, QuietStep, HandleStep, OnDoneStep
<1>6. CASE Begin \/ Apply \/ Finish  BY <1>6, BeginStep, ApplyStep, FinishStep
<1>7. CASE UNCHANGED vars
  <2> USE <1>7 DEF vars, callbacks, calls, worker, machine, IInv
  <2>1. QueueInv' /\ StreamsInv'
    BY Undisturbed DEF TaskOK, SameTask
  <2>2. TypeOK'  BY DEF TypeOK
  <2>3. MainInv' /\ EffectInv' /\ MachineInv'
    BY DEF MainInv, Idle, EffectInv, MachineInv
  <2> QED BY <2>1, <2>2, <2>3
<1> QED BY <1>1, <1>2, <1>3, <1>4, <1>5, <1>6, <1>7 DEF Next, Terminated

(* The inductive invariant holds from the construction to the end.         *)
THEOREM Invariance == Spec => []IInv
BY InitIInv, NextIInv, PTL DEF Spec

(* Wherever a failure or a signal finds main, nothing that is registered,  *)
(* queued, running or open outlives what it refers to.                     *)
THEOREM NothingIsLeft == Spec => []NothingDangles
<1>1. ASSUME IInv PROVE NothingDangles
  <2> USE <1>1 DEF IInv
  <2>1. \A t \in Tasks : \A kind, c : t = CallTask(kind, c) => t.kind = kind /\ t.call = c
    BY TaskRecords
  <2>2. ASSUME NEW kind, NEW c, Waiting(kind, c)
        PROVE  /\ kind = "unary" => stage[c] = "open"
               /\ kind = "release" => c \in Events
    <3>1. PICK t \in Tasks : TaskOK(t) /\ t = CallTask(kind, c)
      <4>1. \A n \in DOMAIN queue : queue[n] \in Tasks /\ TaskOK(queue[n])
        BY ElementOfSeq, LenProperties DEF QueueInv, TypeOK
      <4>2. task # Nothing => task.do \in Tasks /\ TaskOK(task.do)
        BY DEF QueueInv, TypeOK
      <4> QED BY <2>2, <4>1, <4>2 DEF Waiting
    <3>2. t.kind = kind /\ t.call = c  BY <3>1, <2>1
    <3> QED BY <3>1, <3>2, TaskKinds DEF TaskOK
  <2>3. ASSUME ~Alive
        PROVE  /\ \A i \in Buttons : input[i] = "none"
               /\ sensor = "none" /\ profiler = "none"
               /\ queue = <<>> /\ task = Nothing
               /\ \A c \in Calls : stage[c] \in {"none", "done"}
               /\ sinks = {}
    <3>1. /\ \A i \in Buttons : input[i] = "none"
          /\ Idle
          /\ \A c \in Calls : stage[c] \in {"none", "done"}
      BY <2>3 DEF Alive, MainInv
    <3>2. \A c \in Events : ~Waiting("release", c)
      <4>1. DOMAIN queue = {}
        <5>1. DOMAIN queue = 1 .. Len(queue) /\ Len(queue) = 0
          BY <3>1, LenProperties, EmptySeq DEF Idle, TypeOK
        <5> QED BY <5>1
      <4> QED BY <3>1, <4>1 DEF Waiting, Idle
    <3>3. sinks = {}
      BY <3>1, <3>2 DEF StreamsInv, TypeOK, Calls
    <3> QED BY <3>1, <3>3 DEF Idle
  <2> QED BY <2>2, <2>3 DEF NothingDangles, StreamsInv
<1> QED BY <1>1, Invariance, PTL

(* A daemon that ends in order leaves the machine off, whatever buttons,   *)
(* calls and the profiler asked for until then.                            *)
THEOREM EndsOff == Spec => []EndsAllOff
<1>1. IInv => EndsAllOff
  BY DEF IInv, MainInv, Idle, EndsAllOff
<1> QED BY <1>1, Invariance, PTL

-----------------------------------------------------------------------------
(* The executor sees a serial queue used as it should be.  A procedure that *)
(* begins is Start, one that ends is Finish, the return of the destructor's *)
(* get is Close and that of its join is Stop; the rest submits or is none  *)
(* of the executor's business.                                             *)

LEMMA RunningIsATask ==
    ASSUME TypeOK
    PROVE  /\ task # Nothing => Running \in Tasks /\ Running = task.do
           /\ Running = Nothing <=> task = Nothing
BY LifecycleAssumption DEF TypeOK, Running

(* Once it is closed nobody is left who could submit.                      *)
LEMMA ClosedIsQuiet ==
    ASSUME IInv, Closed
    PROVE  /\ \A i \in Buttons : input[i] = "none"
           /\ sensor = "none" /\ profiler = "none"
           /\ \A c \in Calls : stage[c] \in {"none", "done"}
BY DEF IInv, Closed, MainInv, MachineInv

LEMMA OutsiderSubmits ==
    ASSUME IInv,
           \/ SubmitFinal
           \/ \E i \in Buttons : PressEnds(i)
           \/ SampleEnds \/ BrewStepEnds
           \/ \E c \in Calls : Handle(c) \/ OnDone(c)
    PROVE  (\E t \in Tasks : Executor!Submit(t)) \/ UNCHANGED Executor!vars
<1> USE DEF IInv
<1>1. /\ queue' = queue \/ \E t \in Tasks : queue' = Append(queue, t)
      /\ UNCHANGED <<task, final>>
      /\ ~Closed
      /\ pc' = pc \/ pc' = "get"
  <2>1. CASE SubmitFinal
    BY <2>1, TaskRecords DEF SubmitFinal, Closed
  <2>2. ASSUME NEW i \in Buttons, PressEnds(i)
        PROVE  /\ queue' = queue \/ queue' = Append(queue, Task("operate"))
               /\ UNCHANGED <<pc, task, final>> /\ ~Closed
    BY <2>2, ClosedIsQuiet DEF PressEnds, Ends, MaySubmit
  <2>3. CASE SampleEnds
    BY <2>3, ClosedIsQuiet, TaskRecords DEF SampleEnds, Ends, MaySubmit
  <2>4. CASE BrewStepEnds
    BY <2>4, ClosedIsQuiet, TaskRecords DEF BrewStepEnds, Ends, MaySubmit
  <2>5. ASSUME NEW c \in Calls, Handle(c)
        PROVE  /\ \E t \in Tasks : queue' = Append(queue, t)
               /\ UNCHANGED <<pc, task, final>> /\ ~Closed
    <3>1. CallTask(IF c \in Unary THEN "unary" ELSE "add", c) \in Tasks
      BY TaskRecords DEF Calls
    <3> QED BY <2>5, <3>1, ClosedIsQuiet DEF Handle
  <2>6. ASSUME NEW c \in Calls, OnDone(c)
        PROVE  /\ queue' = queue \/ \E t \in Tasks : queue' = Append(queue, t)
               /\ UNCHANGED <<pc, task, final>> /\ ~Closed
    BY <2>6, ClosedIsQuiet, TaskRecords DEF OnDone
  <2> QED BY <2>1, <2>2, <2>3, <2>4, <2>5, <2>6, TaskRecords
<1>2. Closed' = Closed /\ Stopped' = Stopped /\ ~Stopped
  BY <1>1 DEF Closed, Stopped
<1>3. Running' = Running
  BY <1>1 DEF Running
<1> QED BY <1>1, <1>2, <1>3 DEF Executor!Submit, Executor!vars

LEMMA BeginStarts == ASSUME IInv, Begin PROVE Executor!Start
<1>1. /\ queue # <<>> /\ queue' = Tail(queue) /\ task = Nothing
      /\ task'.do = Head(queue)
      /\ UNCHANGED <<pc, final>>
  BY DEF Begin
<1>2. TypeOK /\ TypeOK'
  BY BeginStep DEF IInv
<1>3. task' # Nothing
  <2>1. PICK effect \in Effects(Head(queue).kind) :
          task' = [do |-> Head(queue), effect |-> effect]
    BY DEF Begin
  <2>2. Head(queue) \in Tasks
    BY <1>1, <1>2, HeadTailProperties DEF TypeOK
  <2> QED BY <2>1, <2>2, EffectOf, LifecycleAssumption DEF Outcomes
<1>4. Running = Nothing /\ Running' = Head(queue)
  BY <1>1, <1>3 DEF Running
<1>5. Closed' = Closed /\ Stopped' = Stopped
  BY <1>1 DEF Closed, Stopped
<1> QED BY <1>1, <1>4, <1>5 DEF Executor!Start

(* What a procedure itself submits, it submits while it runs.              *)
LEMMA ApplySubmits ==
    ASSUME IInv, Apply
    PROVE  (\E t \in Tasks : Executor!Submit(t)) \/ UNCHANGED Executor!vars
<1>1. /\ task # Nothing /\ task \in [do : Tasks, effect : Deeds \cup Outcomes]
      /\ task' = [task EXCEPT !.effect = IF @ = "throw" THEN "failed" ELSE "done"]
      /\ queue' = queue \/ queue' = Append(queue, Task("notify"))
      /\ UNCHANGED <<pc, final>> /\ ~Stopped
  BY DEF IInv, TypeOK, Apply, WorkerRuns, Stopped
<1>2. task'.do = task.do /\ task' # Nothing
  BY <1>1, LifecycleAssumption DEF Outcomes
<1>3. Running' = Running /\ Running # Nothing
  BY <1>1, <1>2, RunningIsATask DEF IInv, Running
<1>4. Closed' = Closed /\ Stopped' = Stopped
  BY <1>1 DEF Closed, Stopped
<1> QED BY <1>1, <1>3, <1>4, TaskRecords DEF Executor!Submit, Executor!vars

LEMMA FinishFinishes == ASSUME IInv, Finish PROVE Executor!Finish
<1>1. /\ task # Nothing /\ task' = Nothing
      /\ task.do.kind # "final" => final' = final
      /\ UNCHANGED <<pc, queue>>
  BY DEF Finish
<1>2. task.do.kind = "final" => pc = "get"
  BY <1>1 DEF IInv, QueueInv, TaskOK
<1>3. Closed' = Closed /\ Stopped' = Stopped
  BY <1>1, <1>2 DEF Closed, Stopped
<1>4. Running # Nothing /\ Running' = Nothing
  BY <1>1, RunningIsATask DEF IInv, Running
<1> QED BY <1>1, <1>3, <1>4 DEF Executor!Finish

LEMMA MainCloses ==
    ASSUME IInv, Get \/ Drain \/ Destroy
    PROVE  Executor!Close \/ Executor!Stop \/ UNCHANGED Executor!vars
<1>1. UNCHANGED <<queue, task, final>>
  BY DEF Get, Drain, Destroy, worker
<1>2. Running' = Running
  BY <1>1 DEF Running
<1>3. CASE Get
  <2>1. Stopped' = Stopped /\ ~Closed  BY <1>3 DEF Get, Closed, Stopped
  <2>2. Closed' = (final = "ok")  BY <1>1, <1>3 DEF Get, Closed
  <2>3. CASE final = "ok"
    BY <2>1, <2>2, <2>3, <1>1, <1>2 DEF Executor!Close
  <2>4. CASE final # "ok"
    <3>1. Closed' = Closed  BY <2>1, <2>2, <2>4 DEF Closed
    <3> QED BY <2>1, <3>1, <1>1, <1>2 DEF Executor!vars
  <2> QED BY <2>3, <2>4
<1>4. CASE Drain
  <2>1. queue = <<>> /\ task = Nothing /\ pc = "drain" /\ pc' = "destroy" /\ final = "ok"
    BY <1>4 DEF Drain, IInv, MainInv
  <2>2. Closed /\ Closed' = Closed /\ ~Stopped /\ Stopped' = TRUE
    BY <2>1, <1>1 DEF Closed, Stopped
  <2>3. Running = Nothing  BY <2>1 DEF Running
  <2> QED BY <2>1, <2>2, <2>3, <1>1, <1>2 DEF Executor!Stop
<1>5. CASE Destroy
  <2>1. Closed' = Closed /\ Stopped' = Stopped
    BY <1>1, <1>5 DEF Destroy, Closed, Stopped
  <2> QED BY <2>1, <1>1, <1>2 DEF Executor!vars
<1> QED BY <1>3, <1>4, <1>5

LEMMA RestStutters ==
    ASSUME IInv,
           \/ Signal \/ Construct \/ Register \/ Serve \/ Wake \/ Shutdown
           \/ Await \/ Unregister
           \/ \E i \in Buttons : Press(i)
           \/ Sample \/ BrewStep
           \/ \E c \in Calls : Accept(c) \/ ClientCancels(c) \/ FinishStream(c)
           \/ UNCHANGED vars
    PROVE  UNCHANGED Executor!vars
<1> DEFINE open == {"construct", "register", "serve", "wait", "alone", "await",
                    "unregister"}
<1>1. /\ UNCHANGED <<queue, task, final>>
      /\ pc' = pc \/ (pc \in open /\ pc' \in open) \/ final = "none"
  BY DEF IInv, MainInv, Signal, Construct, Register, Serve, Wake, Shutdown, Await,
         Unregister, Press, Sample, BrewStep, Accept, ClientCancels, FinishStream,
         vars, worker
<1>2. Closed' = Closed /\ Stopped' = Stopped
  BY <1>1 DEF Closed, Stopped
<1>3. Running' = Running
  BY <1>1 DEF Running
<1> QED BY <1>1, <1>2, <1>3 DEF Executor!vars

(* Whatever goes on when the signal comes, the executor is used as the     *)
(* serial queue it is: nobody but a task under way submits to it once its  *)
(* destructor has begun, and the daemon goes on only when it is drained.   *)
THEOREM ExecutorIsUsedRight == Spec => KeepsExecutorContract
<1>1. Init => Executor!Init
  BY DEF Init, Executor!Init, Running, Closed, Stopped
<1>2. IInv /\ [Next]_vars => [Executor!Next]_(Executor!vars)
  <2> SUFFICES ASSUME IInv, [Next]_vars
               PROVE  Executor!Next \/ UNCHANGED Executor!vars
    OBVIOUS
  <2>1. CASE \/ SubmitFinal
             \/ \E i \in Buttons : PressEnds(i)
             \/ SampleEnds \/ BrewStepEnds
             \/ \E c \in Calls : Handle(c) \/ OnDone(c)
    BY <2>1, OutsiderSubmits DEF Executor!Next
  <2>2. CASE Begin  BY <2>2, BeginStarts DEF Executor!Next
  <2>3. CASE Apply  BY <2>3, ApplySubmits DEF Executor!Next
  <2>4. CASE Finish  BY <2>4, FinishFinishes DEF Executor!Next
  <2>5. CASE Get \/ Drain \/ Destroy
    BY <2>5, MainCloses DEF Executor!Next
  <2>6. CASE \/ Signal \/ Construct \/ Register \/ Serve \/ Wake \/ Shutdown
             \/ Await \/ Unregister
             \/ \E i \in Buttons : Press(i)
             \/ Sample \/ BrewStep
             \/ \E c \in Calls : Accept(c) \/ ClientCancels(c) \/ FinishStream(c)
             \/ UNCHANGED vars
    BY <2>6, RestStutters
  <2> QED
    BY <2>1, <2>2, <2>3, <2>4, <2>5, <2>6 DEF Next, Main, Terminated
<1> QED BY <1>1, <1>2, Invariance, PTL DEF Spec, KeepsExecutorContract, Executor!Spec
==============================================================================
