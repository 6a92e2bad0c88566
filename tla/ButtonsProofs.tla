---------------------------- MODULE ButtonsProofs -----------------------------
(***************************************************************************)
(* For any inputs configured as bistable and a queue of any length: where  *)
(* the library's calls do not throw, a switch whose tasks have run shows   *)
(* the state of its function, with the exceptions SwitchesObeyed names.    *)
(* And the inputs, the profiler and the calls do nothing to the machine    *)
(* but operate it.                                                         *)
(***************************************************************************)
EXTENDS Buttons, DataLemmas

(* While tasks wait nothing can be said of the machine, so the invariant is *)
(* about them: the last one a switch has submitted asks for the state the  *)
(* switch shows, whatever the ones before asked for.                       *)
Last(n, i) ==
    /\ queue[n].by = i
    /\ \A k \in DOMAIN queue : k > n => queue[k].by # i

LastAsksPosition ==
    \A i \in Bistable \ calling, n \in DOMAIN queue :
        Last(n, i) => queue[n].ask = IF position[i] THEN "on" ELSE "off"

(* An input that is not registered has submitted nothing.                  *)
SubmittersRegistered ==
    \A n \in DOMAIN queue : queue[n].by \in registered \cup {"profiler"}

ButtonsInv ==
    /\ ButtonsTypeOK
    /\ SubmittersRegistered
    /\ LastAsksPosition
    /\ SwitchesObeyed

USE ButtonsAssumption

-----------------------------------------------------------------------------
(* The machine.  Where no call throws an operation that is not refused      *)
(* leaves its function in the state asked for.                             *)
LEMMA Completed == ASSUME ~MayThrow, NEW n \in Nat PROVE Upto(n) = {n}
BY DEF Upto

LEMMA PowerStep ==
    ASSUME ~MayThrow, ButtonsTypeOK, NEW state \in BOOLEAN, SetPowerState(state)
    PROVE  power' = state /\ steam' = steam /\ brewing' \in BOOLEAN
<1> USE DEF ButtonsTypeOK
<1>1. CASE power = state /\ UNCHANGED machineVars
  BY <1>1 DEF machineVars
<1>2. CASE ~state /\ \E done \in Upto(4) : PowerOff(done)
  <2>1. PowerOff(4)  BY <1>2, Completed
  <2> QED BY <1>2, <2>1 DEF PowerOff
<1>3. CASE state /\ \E done \in Upto(2) : PowerOn(done)
  <2>1. PowerOn(2)  BY <1>3, Completed
  <2> QED BY <1>3, <2>1 DEF PowerOn
<1> QED BY <1>1, <1>2, <1>3 DEF SetPowerState

LEMMA SteamStep ==
    ASSUME ~MayThrow, NEW state \in BOOLEAN, SetSteamModeState(state)
    PROVE  /\ steam' = IF SetSteamRefused(state) THEN steam ELSE state
           /\ UNCHANGED <<power, brewing>>
<1>1. CASE steam = state \/ SetSteamRefused(state)
  BY <1>1 DEF SetSteamModeState, SetSteamRefused, machineVars
<1>2. CASE ~(steam = state \/ SetSteamRefused(state))
  <2>1. CASE power
    <3>1. SwapControllers(state, 3)
      BY <1>2, <2>1, Completed DEF SetSteamModeState
    <3> QED BY <1>2, <3>1 DEF SetSteamModeState, SwapControllers
  <2>2. CASE ~power
    BY <1>2, <2>2 DEF SetSteamModeState
  <2> QED BY <2>1, <2>2
<1> QED BY <1>1, <1>2

LEMMA BrewStep ==
    ASSUME ~MayThrow, ButtonsTypeOK, NEW state \in BOOLEAN,
           IF state THEN StartBrew ELSE StopBrew
    PROVE  /\ brewing' \in BOOLEAN /\ UNCHANGED <<power, steam>>
           /\ state /\ ~StartBrewRefused => brewing' = TRUE
           /\ ~state => brewing' = FALSE
<1> USE DEF ButtonsTypeOK
<1>1. CASE state /\ (brewing \/ StartBrewRefused)
  BY <1>1 DEF StartBrew, machineVars
<1>2. CASE state /\ ~(brewing \/ StartBrewRefused)
  <2>1. brewing' = (1 = 1) /\ UNCHANGED <<power, steam>>
    BY <1>2, Completed DEF StartBrew
  <2> QED BY <1>2, <2>1
<1>3. CASE ~state /\ ~brewing
  BY <1>3 DEF StopBrew, machineVars
<1>4. CASE ~state /\ brewing
  <2>1. brewing' = (1 = 0) /\ UNCHANGED <<power, steam>>
    BY <1>4, Completed DEF StopBrew
  <2> QED BY <1>4, <2>1
<1> QED BY <1>1, <1>2, <1>3, <1>4

LEMMA SameFunction ==
    ASSUME UNCHANGED <<power, brewing, steam>>, NEW i \in Inputs
    PROVE  Function(i)' = Function(i)
BY DEF Function

LEMMA OperateStep ==
    ASSUME ~MayThrow, ButtonsTypeOK,
           NEW function \in Inputs, NEW state \in BOOLEAN, Operate(function, state)
    PROVE  /\ power' \in BOOLEAN /\ steam' \in BOOLEAN /\ brewing' \in BOOLEAN
           /\ ~Refused(function, state) => Function(function)' = state
<1>1. CASE function = "power" /\ SetPowerState(state)
  BY <1>1, PowerStep DEF ButtonsTypeOK, Function
<1>2. CASE function = "steam" /\ SetSteamModeState(state)
  BY <1>2, SteamStep DEF ButtonsTypeOK, Function, Refused
<1>3. CASE function = "brew" /\ IF state THEN StartBrew ELSE StopBrew
  BY <1>3, BrewStep DEF ButtonsTypeOK, Function, Refused
<1> QED BY <1>1, <1>2, <1>3 DEF Operate

-----------------------------------------------------------------------------
(* The queue.                                                              *)
TaskType == [by : Callers, ask : {"on", "off", "toggle"}]

(* A task that is appended is the last of who submits it, and changes       *)
(* nobody else's.                                                          *)
LEMMA Appended ==
    ASSUME queue \in Seq(TaskType), NEW task \in TaskType,
           queue' = Append(queue, task), NEW i
    PROVE  /\ queue' \in Seq(TaskType)
           /\ \A n \in DOMAIN queue' :
                \/ n \in DOMAIN queue /\ queue'[n] = queue[n]
                \/ queue'[n] = task
           /\ \A n \in DOMAIN queue' :
                Last(n, i)' => \/ task.by = i /\ queue'[n] = task
                               \/ /\ task.by # i /\ n \in DOMAIN queue
                                  /\ queue'[n] = queue[n] /\ Last(n, i)
           /\ Settled(i)' => /\ task.by # i
                             /\ \A n \in DOMAIN queue : queue[n].by # i
<1>1. /\ queue' \in Seq(TaskType)
      /\ DOMAIN queue = 1 .. Len(queue) /\ DOMAIN queue' = 1 .. Len(queue) + 1
      /\ queue'[Len(queue) + 1] = task
      /\ \A n \in DOMAIN queue : queue'[n] = queue[n]
      /\ Len(queue) \in Nat
  OBVIOUS
<1>2. Len(queue) + 1 \in DOMAIN queue' /\ DOMAIN queue \subseteq DOMAIN queue'
  BY <1>1
<1>3. \A n \in DOMAIN queue' : n \in DOMAIN queue \/ n = Len(queue) + 1
  BY <1>1
<1>4. \A n \in DOMAIN queue : Len(queue) + 1 > n
  BY <1>1
<1>5. ASSUME NEW n \in DOMAIN queue', Last(n, i)'
      PROVE  \/ task.by = i /\ queue'[n] = task
             \/ /\ task.by # i /\ n \in DOMAIN queue
                /\ queue'[n] = queue[n] /\ Last(n, i)
  BY <1>1, <1>2, <1>3, <1>4, <1>5 DEF Last
<1> QED BY <1>1, <1>2, <1>3, <1>5 DEF Settled

(* Without its head the queue has the same last tasks.                      *)
LEMMA Taken ==
    ASSUME queue \in Seq(TaskType), queue # <<>>, queue' = Tail(queue), NEW i
    PROVE  /\ queue' \in Seq(TaskType)
           /\ Head(queue) \in TaskType
           /\ \A n \in DOMAIN queue' :
                /\ n + 1 \in DOMAIN queue /\ queue'[n] = queue[n + 1]
                /\ Last(n, i)' => Last(n + 1, i)
           /\ Settled(i)' /\ Head(queue).by # i
                => \A n \in DOMAIN queue : queue[n].by # i
           /\ Settled(i)' /\ Head(queue).by = i
                => 1 \in DOMAIN queue /\ Head(queue) = queue[1] /\ Last(1, i)
<1>1. /\ queue' \in Seq(TaskType) /\ Head(queue) \in TaskType
      /\ Len(queue) \in Nat \ {0}
      /\ DOMAIN queue = 1 .. Len(queue) /\ DOMAIN queue' = 1 .. Len(queue) - 1
      /\ \A n \in DOMAIN queue' : queue'[n] = queue[n + 1]
      /\ Head(queue) = queue[1]
  OBVIOUS
<1>2. \A n \in DOMAIN queue' : n + 1 \in DOMAIN queue
  BY <1>1
<1>3. \A n \in DOMAIN queue : n # 1 => n - 1 \in DOMAIN queue' /\ (n - 1) + 1 = n
  BY <1>1
<1>4. \A n \in DOMAIN queue : n # 1 => queue[n] = queue'[n - 1]
  BY <1>1, <1>3
<1>5. ASSUME NEW n \in DOMAIN queue', Last(n, i)' PROVE Last(n + 1, i)
  <2>1. SUFFICES ASSUME NEW k \in DOMAIN queue, k > n + 1 PROVE queue[k].by # i
    BY <1>1, <1>5 DEF Last
  <2>2. k # 1 /\ k - 1 > n
    BY <1>1, <2>1
  <2> QED BY <1>3, <1>4, <1>5, <2>2 DEF Last
<1>6. ASSUME Settled(i)' PROVE \A n \in DOMAIN queue : n # 1 => queue[n].by # i
  BY <1>3, <1>4, <1>6 DEF Settled
<1>7. 1 \in DOMAIN queue /\ \A k \in DOMAIN queue : k > 1 => k # 1
  BY <1>1
<1> QED BY <1>1, <1>2, <1>5, <1>6, <1>7 DEF Last

-----------------------------------------------------------------------------
(* The steps.                                                              *)
LEMMA InitInv == Init => ButtonsInv
<1> SUFFICES ASSUME Init PROVE ButtonsInv
  OBVIOUS
<1>1. ButtonsTypeOK
  <2>1. power = FALSE /\ steam \in BOOLEAN /\ brewing = FALSE
    BY DEF Init, MachineInit
  <2>2. /\ registered = {} /\ calling = {} /\ queue = <<>> /\ ended = FALSE
        /\ position \in [Inputs -> BOOLEAN] /\ excused \subseteq Inputs
    BY DEF Init, Inputs
  <2>3. \A S : <<>> \in Seq(S)
    OBVIOUS
  <2> QED BY <2>1, <2>2, <2>3 DEF ButtonsTypeOK
<1>2. SwitchesObeyed
  <2>1. Bistable \ excused \subseteq {"steam"} /\ position["steam"] = steam
    BY DEF Init, Inputs
  <2>2. Function("steam") = steam
    BY DEF Function
  <2> QED BY <2>1, <2>2 DEF SwitchesObeyed
<1>3. DOMAIN queue = {}
  BY DEF Init
<1> QED BY <1>1, <1>2, <1>3 DEF ButtonsInv, SubmittersRegistered, LastAsksPosition

LEMMA RegisterKeeps == ButtonsInv /\ Register => ButtonsInv'
<1> SUFFICES ASSUME ButtonsInv, Register PROVE ButtonsInv'
  OBVIOUS
<1>1. UNCHANGED <<power, brewing, steam>>
  BY DEF Register, machineVars
<1>2. /\ registered \subseteq registered' /\ registered' \subseteq Inputs
      /\ UNCHANGED <<position, calling, queue, ended, excused>>
  BY DEF Register, ButtonsInv, ButtonsTypeOK
<1>3. ButtonsTypeOK'
  BY <1>1, <1>2 DEF ButtonsInv, ButtonsTypeOK
<1>4. SubmittersRegistered' /\ LastAsksPosition'
  BY <1>2 DEF ButtonsInv, SubmittersRegistered, LastAsksPosition, Last
<1>5. SwitchesObeyed'
  BY <1>1, <1>2, SameFunction DEF ButtonsInv, SwitchesObeyed, Settled
<1> QED BY <1>3, <1>4, <1>5 DEF ButtonsInv

LEMMA FlipKeeps == ASSUME NEW i \in Inputs PROVE ButtonsInv /\ Flip(i) => ButtonsInv'
<1> SUFFICES ASSUME ButtonsInv, Flip(i) PROVE ButtonsInv'
  OBVIOUS
<1>1. /\ UNCHANGED <<power, brewing, steam, registered, queue, ended>>
      /\ position' = [position EXCEPT ![i] = ~@]
  BY DEF Flip, machineVars
<1>2. \A j \in Inputs : j # i => position'[j] = position[j]
  BY <1>1 DEF ButtonsInv, ButtonsTypeOK
<1>3. ButtonsTypeOK'
  BY <1>1 DEF Flip, ButtonsInv, ButtonsTypeOK
<1>4. i \notin calling' => \A n \in DOMAIN queue : queue[n].by # i
  BY DEF Flip, ButtonsInv, SubmittersRegistered, Inputs
<1>5. calling \subseteq calling' /\ excused \subseteq excused'
      /\ (i \in calling' \/ i \in excused')
  BY DEF Flip
<1>6. LastAsksPosition'
  BY <1>1, <1>2, <1>4, <1>5 DEF ButtonsInv, LastAsksPosition, Last
<1>7. SwitchesObeyed'
  BY <1>1, <1>2, <1>5, SameFunction DEF ButtonsInv, SwitchesObeyed, Settled
<1> QED BY <1>1, <1>3, <1>6, <1>7 DEF ButtonsInv, SubmittersRegistered

LEMMA RequestRange ==
    ASSUME NEW i \in Callers
    PROVE  /\ Request(i) \in {"on", "off", "toggle", "none"}
           /\ i \in Bistable => Request(i) = IF position[i] THEN "on" ELSE "off"
           /\ Request(i) = "none" => i \notin Bistable
<1>1. CASE i \in Bistable
  <2>1. i # "profiler"  BY <1>1 DEF Inputs
  <2> QED BY <1>1, <2>1 DEF Request
<1>2. CASE i = "profiler"
  <2>1. i \notin Bistable  BY <1>2 DEF Inputs
  <2> QED BY <1>2, <2>1 DEF Request
<1>3. CASE i \notin Bistable /\ i # "profiler"
  BY <1>3 DEF Request
<1> QED BY <1>1, <1>2, <1>3

LEMMA SubmitKeeps ==
    ASSUME NEW i \in Callers PROVE ButtonsInv /\ Submit(i) => ButtonsInv'
<1> SUFFICES ASSUME ButtonsInv, Submit(i) PROVE ButtonsInv'
  OBVIOUS
<1>1. /\ UNCHANGED <<power, brewing, steam, registered, position, ended, excused>>
      /\ i \in calling /\ calling' = calling \ {i}
  BY DEF Submit, machineVars
<1>2. CASE Request(i) = "none"
  <2>1. queue' = queue /\ i \notin Bistable
    BY <1>2, RequestRange DEF Submit
  <2>2. ButtonsTypeOK'
    BY <1>1, <2>1 DEF ButtonsInv, ButtonsTypeOK
  <2>3. SubmittersRegistered' /\ LastAsksPosition'
    BY <1>1, <2>1 DEF ButtonsInv, SubmittersRegistered, LastAsksPosition, Last
  <2>4. SwitchesObeyed'
    BY <1>1, <2>1, SameFunction DEF ButtonsInv, SwitchesObeyed, Settled
  <2> QED BY <2>2, <2>3, <2>4 DEF ButtonsInv
<1>3. CASE Request(i) # "none"
  <2> DEFINE task == [by |-> i, ask |-> Request(i)]
  <2>1. /\ queue' = Append(queue, task)
        /\ task \in TaskType /\ task.by = i
        /\ i \in Bistable => task.ask = IF position[i] THEN "on" ELSE "off"
    <3>1. queue' = Append(queue, task)
      BY <1>3 DEF Submit
    <3>2. Request(i) \in {"on", "off", "toggle"}
      BY <1>3, RequestRange
    <3>3. i \in Bistable => Request(i) = IF position[i] THEN "on" ELSE "off"
      BY RequestRange
    <3> QED BY <3>1, <3>2, <3>3 DEF TaskType
  <2>2. queue \in Seq(TaskType)
    BY DEF ButtonsInv, ButtonsTypeOK, TaskType
  <2> HIDE DEF task
  <2>3. ButtonsTypeOK'
    BY <1>1, <2>1, <2>2, Appended DEF ButtonsInv, ButtonsTypeOK, TaskType
  <2>4. SubmittersRegistered'
    BY <1>1, <2>1, <2>2, Appended
       DEF ButtonsInv, ButtonsTypeOK, SubmittersRegistered
  <2>5. LastAsksPosition'
    <3> SUFFICES ASSUME NEW j \in Bistable, j \notin calling',
                        NEW n \in DOMAIN queue', Last(n, j)'
                 PROVE  queue'[n].ask = IF position[j] THEN "on" ELSE "off"
      BY <1>1 DEF LastAsksPosition
    <3>1. \/ task.by = j /\ queue'[n] = task
          \/ /\ task.by # j /\ n \in DOMAIN queue
             /\ queue'[n] = queue[n] /\ Last(n, j)
      BY <2>1, <2>2, Appended
    <3> QED BY <1>1, <2>1, <3>1 DEF ButtonsInv, LastAsksPosition
  <2>6. SwitchesObeyed'
    <3> SUFFICES ASSUME NEW j \in Bistable, j \notin excused, Settled(j)'
                 PROVE  Function(j)' = position[j]
      BY <1>1 DEF SwitchesObeyed
    <3>1. j # i /\ \A n \in DOMAIN queue : queue[n].by # j
      BY <2>1, <2>2, Appended
    <3>2. Settled(j)
      BY <1>1, <3>1 DEF Settled
    <3> QED BY <1>1, <3>2, SameFunction DEF ButtonsInv, SwitchesObeyed
  <2> QED BY <2>3, <2>4, <2>5, <2>6 DEF ButtonsInv
<1> QED BY <1>2, <1>3

LEMMA AutoStopKeeps == ButtonsInv /\ AutoStop => ButtonsInv'
<1> SUFFICES ASSUME ButtonsInv, AutoStop PROVE ButtonsInv'
  OBVIOUS
<1>1. /\ UNCHANGED <<power, brewing, steam, registered, position, queue, excused>>
      /\ calling' = calling \cup {"profiler"} /\ ended' = TRUE
  BY DEF AutoStop, machineVars
<1>2. \A j \in Inputs : j \in calling' <=> j \in calling
  BY <1>1 DEF Inputs
<1>3. ButtonsTypeOK' /\ SubmittersRegistered'
  BY <1>1 DEF ButtonsInv, ButtonsTypeOK, SubmittersRegistered
<1>4. LastAsksPosition'
  BY <1>1, <1>2 DEF ButtonsInv, LastAsksPosition, Last
<1>5. SwitchesObeyed'
  BY <1>1, <1>2, SameFunction DEF ButtonsInv, SwitchesObeyed, Settled
<1> QED BY <1>3, <1>4, <1>5 DEF ButtonsInv

(* What is asked of the machine, and that a switch's last task asks for the *)
(* state the switch shows.                                                 *)
LEMMA AskedType ==
    ASSUME NEW task \in TaskType
    PROVE  Asked(task).function \in Inputs /\ Asked(task).state \in BOOLEAN
<1>1. (~Function(Asked(task).function)) \in BOOLEAN
  OBVIOUS
<1>2. /\ Asked(task).function \in Inputs
      /\ Asked(task).state \in {~Function(Asked(task).function), task.ask = "on"}
  BY DEF Asked, TaskType, Callers, Inputs
<1> QED BY <1>1, <1>2

LEMMA AskedShown ==
    ASSUME ButtonsTypeOK, NEW task \in TaskType, NEW i \in Inputs, task.by = i,
           task.ask = IF position[i] THEN "on" ELSE "off"
    PROVE  Asked(task).function = i /\ Asked(task).state = position[i]
<1>1. i # "profiler" /\ position[i] \in BOOLEAN
  BY DEF ButtonsTypeOK, Inputs
<1>2. Asked(task) = [function |-> i, state |-> task.ask = "on"]
  BY <1>1 DEF Asked
<1> QED BY <1>1, <1>2

LEMMA RunTaskKeeps == ASSUME ~MayThrow PROVE ButtonsInv /\ RunTask => ButtonsInv'
<1> SUFFICES ASSUME ButtonsInv, RunTask PROVE ButtonsInv'
  OBVIOUS
<1> DEFINE task == Head(queue)
           asked == Asked(task)
<1>1. /\ Operate(asked.function, asked.state)
      /\ Overrule(task.by, Refused(asked.function, asked.state))
      /\ queue # <<>> /\ queue' = Tail(queue)
      /\ ended' = (ended /\ brewing')
      /\ UNCHANGED <<registered, position, calling>>
  BY DEF RunTask
<1>2. queue \in Seq(TaskType) /\ ButtonsTypeOK
  BY DEF ButtonsInv, ButtonsTypeOK, TaskType
<1>3. task \in TaskType /\ queue' \in Seq(TaskType)
  BY <1>1, <1>2, Taken
<1> HIDE DEF task
<1>4. asked.function \in Inputs /\ asked.state \in BOOLEAN
  BY <1>2, <1>3, AskedType
<1> HIDE DEF asked
<1>5. PICK function \in Inputs, state \in BOOLEAN :
        function = asked.function /\ state = asked.state
  BY <1>4
<1>6. /\ power' \in BOOLEAN /\ steam' \in BOOLEAN /\ brewing' \in BOOLEAN
      /\ ~Refused(function, state) => Function(function)' = state
  <2>1. Operate(function, state)
    BY <1>1, <1>5
  <2> QED BY <1>2, <2>1, OperateStep
<1>7. ButtonsTypeOK'
  BY <1>1, <1>2, <1>3, <1>6 DEF ButtonsTypeOK, TaskType, Overrule
<1>8. SubmittersRegistered'
  BY <1>1, <1>2, Taken DEF ButtonsInv, SubmittersRegistered
<1>9. LastAsksPosition'
  <2> SUFFICES ASSUME NEW j \in Bistable, j \notin calling,
                      NEW n \in DOMAIN queue', Last(n, j)'
               PROVE  queue'[n].ask = IF position[j] THEN "on" ELSE "off"
    BY <1>1 DEF LastAsksPosition
  <2>1. n + 1 \in DOMAIN queue /\ queue'[n] = queue[n + 1] /\ Last(n + 1, j)
    BY <1>1, <1>2, Taken
  <2> QED BY <2>1 DEF ButtonsInv, LastAsksPosition
<1>10. SwitchesObeyed'
  <2> SUFFICES ASSUME NEW j \in Bistable, j \notin excused', Settled(j)'
               PROVE  Function(j)' = position[j]
    BY <1>1 DEF SwitchesObeyed
  <2>1. j \in Inputs /\ j \notin calling
    BY <1>1 DEF Settled
  <2>2. CASE task.by = j
    <3>1. ~Refused(asked.function, asked.state)
      BY <1>1, <2>1, <2>2 DEF Overrule
    <3>2. 1 \in DOMAIN queue /\ task = queue[1] /\ Last(1, j)
      BY <1>1, <1>2, <2>2, Taken DEF task
    <3>3. task.ask = IF position[j] THEN "on" ELSE "off"
      BY <2>1, <3>2 DEF ButtonsInv, LastAsksPosition
    <3>4. function = j /\ state = position[j]
      BY <1>2, <1>3, <1>5, <2>1, <2>2, <3>3, AskedShown DEF asked
    <3>5. ~Refused(function, state)
      BY <1>5, <3>1
    <3>6. Function(function)' = state
      BY <1>6, <3>5
    <3> QED BY <3>4, <3>6
  <2>3. CASE task.by # j
    <3>1. j \notin excused /\ Function(j)' = Function(j)
      BY <1>1, <2>1, <2>3 DEF Overrule
    <3>2. \A n \in DOMAIN queue : queue[n].by # j
      BY <1>1, <1>2, <2>3, Taken DEF task
    <3>3. Settled(j)
      BY <2>1, <3>2 DEF Settled
    <3> QED BY <3>1, <3>3 DEF ButtonsInv, SwitchesObeyed
  <2> QED BY <2>2, <2>3
<1> QED BY <1>7, <1>8, <1>9, <1>10 DEF ButtonsInv

LEMMA CallKeeps == ASSUME ~MayThrow PROVE ButtonsInv /\ Call => ButtonsInv'
<1> SUFFICES ASSUME ButtonsInv, Call PROVE ButtonsInv'
  OBVIOUS
<1>1. /\ \E function \in Inputs, state \in BOOLEAN : Operate(function, state)
      /\ Overrule("client", FALSE)
      /\ ended' = (ended /\ brewing')
      /\ UNCHANGED <<registered, position, calling, queue>>
  BY DEF Call
<1>2. power' \in BOOLEAN /\ steam' \in BOOLEAN /\ brewing' \in BOOLEAN
  BY <1>1, OperateStep DEF ButtonsInv
<1>3. ButtonsTypeOK'
  BY <1>1, <1>2 DEF ButtonsInv, ButtonsTypeOK, Overrule
<1>4. SubmittersRegistered' /\ LastAsksPosition'
  BY <1>1 DEF ButtonsInv, SubmittersRegistered, LastAsksPosition, Last
<1>5. \A j \in Inputs \ excused' : j \notin excused /\ Function(j)' = Function(j)
  BY <1>1 DEF Overrule, Inputs
<1>6. SwitchesObeyed'
  BY <1>1, <1>5 DEF ButtonsInv, SwitchesObeyed, Settled
<1> QED BY <1>3, <1>4, <1>6 DEF ButtonsInv

LEMMA NextInv ==
    ASSUME ~MayThrow PROVE ButtonsInv /\ [Next]_buttonsVars => ButtonsInv'
<1>1. ASSUME ButtonsInv, UNCHANGED buttonsVars PROVE ButtonsInv'
  <2>1. UNCHANGED <<power, brewing, steam, registered, position, calling, queue,
                    ended, excused>>
    BY <1>1 DEF buttonsVars, machineVars
  <2>2. ButtonsTypeOK'
    BY <1>1, <2>1 DEF ButtonsInv, ButtonsTypeOK
  <2>3. SubmittersRegistered' /\ LastAsksPosition'
    BY <1>1, <2>1 DEF ButtonsInv, SubmittersRegistered, LastAsksPosition, Last
  <2>4. SwitchesObeyed'
    BY <1>1, <2>1, SameFunction DEF ButtonsInv, SwitchesObeyed, Settled
  <2> QED BY <2>2, <2>3, <2>4 DEF ButtonsInv
<1> QED
  BY <1>1, RegisterKeeps, FlipKeeps, SubmitKeeps, AutoStopKeeps, RunTaskKeeps,
     CallKeeps DEF Next

(* The invariant holds always: what a switch asked for last is what it      *)
(* shows, whatever flips and tasks came before.                            *)
THEOREM Invariance == ASSUME ~MayThrow PROVE Spec => []ButtonsInv
BY InitInv, NextInv, PTL DEF Spec

(* A bistable switch whose tasks have run shows the state of its function,  *)
(* unless it was refused, not heard or overruled since: for any set of     *)
(* bistable inputs and however many tasks wait.                            *)
THEOREM SwitchesAreObeyed == ASSUME ~MayThrow PROVE Spec => []SwitchesObeyed
<1>1. ButtonsInv => SwitchesObeyed
  BY DEF ButtonsInv
<1> QED BY <1>1, Invariance, PTL

-----------------------------------------------------------------------------
(* Whether calls throw or not, every step of the inputs, the profiler and   *)
(* the calls leaves the machine alone or is one of its operations, so that *)
(* what is proved of MachineSpec holds here.                               *)
QueueOK == queue \in Seq(TaskType)

LEMMA QueueInit == Init => QueueOK
<1>1. \A S : <<>> \in Seq(S)
  OBVIOUS
<1> QED BY <1>1 DEF Init, QueueOK

LEMMA QueueNext == QueueOK /\ [Next]_buttonsVars => QueueOK'
<1> SUFFICES ASSUME QueueOK, [Next]_buttonsVars PROVE QueueOK'
  OBVIOUS
<1> USE DEF QueueOK
<1>1. CASE \E i \in Callers : Submit(i)
  <2>1. PICK i \in Callers : Submit(i)
    BY <1>1
  <2>2. CASE queue' = queue
    BY <2>2
  <2>3. CASE queue' = Append(queue, [by |-> i, ask |-> Request(i)])
             /\ Request(i) # "none"
    <3>1. [by |-> i, ask |-> Request(i)] \in TaskType
      BY <2>3, RequestRange DEF TaskType
    <3> QED BY <2>3, <3>1
  <2> QED BY <2>1, <2>2, <2>3 DEF Submit
<1>2. CASE RunTask
  BY <1>2 DEF RunTask
<1>3. CASE \/ Register \/ (\E i \in Inputs : Flip(i)) \/ AutoStop \/ Call
           \/ UNCHANGED buttonsVars
  BY <1>3 DEF Register, Flip, AutoStop, Call, buttonsVars
<1> QED BY <1>1, <1>2, <1>3 DEF Next

LEMMA OperateIsOperation ==
    ASSUME NEW function, NEW state \in BOOLEAN, Operate(function, state)
    PROVE  MachineNext
BY DEF Operate, MachineNext

LEMMA StepIsOperation ==
    ASSUME QueueOK, [Next]_buttonsVars PROVE [MachineNext]_machineVars
<1>1. CASE RunTask
  <2>1. PICK task : task = Head(queue)
    OBVIOUS
  <2>2. task \in TaskType
    BY <1>1, <2>1, Taken DEF RunTask, QueueOK
  <2>3. Asked(task).function \in Inputs /\ Asked(task).state \in BOOLEAN
    BY <2>2, AskedType
  <2>4. PICK function \in Inputs, state \in BOOLEAN :
          function = Asked(task).function /\ state = Asked(task).state
    BY <2>3
  <2>5. Operate(function, state)
    BY <1>1, <2>1, <2>4 DEF RunTask
  <2> QED BY <2>5, OperateIsOperation
<1>2. CASE Call
  BY <1>2, OperateIsOperation DEF Call
<1>3. CASE \/ Register \/ AutoStop \/ UNCHANGED buttonsVars
           \/ \E i \in Inputs : Flip(i)
           \/ \E i \in Callers : Submit(i)
  BY <1>3 DEF Register, AutoStop, Flip, Submit, buttonsVars
<1> QED BY <1>1, <1>2, <1>3 DEF Next

(* Every behaviour of the buttons and their executor is one of the machine. *)
THEOREM OperatesTheMachine == Spec => MachineSpec
<1>1. Init => MachineInit
  BY DEF Init
<1>2. QueueOK /\ [Next]_buttonsVars => [MachineNext]_machineVars
  BY StepIsOperation
<1> QED BY <1>1, <1>2, QueueInit, QueueNext, PTL DEF Spec, MachineSpec
==============================================================================
