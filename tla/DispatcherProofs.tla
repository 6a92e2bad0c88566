--------------------------- MODULE DispatcherProofs --------------------------
(***************************************************************************)
(* For every set of temperatures, profiles, streams and brew steps.        *)
(*                                                                         *)
(* The StateManager and its wiring first, however the library's calls      *)
(* fail: what no failure can spoil, and what a failure may spoil and a     *)
(* completed power-off mends.  These theorems, up to the lemma Completed,  *)
(* are about Machine and Wiring alone and cite no assumption: they hold    *)
(* for MayThrow either way, although NoThrowAssumption is in scope.        *)
(*                                                                         *)
(* Then its clients, whose calls do not throw: what was answered OK is     *)
(* applied, also after a crash; the streams know the machine they watch;   *)
(* nothing is on once the destructor's task has run; the profiler's end of *)
(* a brew stops no other brew, but for one case; and the dispatcher is a   *)
(* client such as the profile's managers expect.                           *)
(***************************************************************************)
EXTENDS Dispatcher, Wiring, DataLemmas

(* The operations of MachineNext, one case each.                           *)
LEMMA Operations ==
    ASSUME MachineNext
    PROVE  \/ UNCHANGED machineVars
           \/ \E done \in Upto(4) : PowerOff(done)
           \/ \E done \in Upto(2) : PowerOn(done)
           \/ ~brewing /\ ~StartBrewRefused /\ StartBrew
           \/ brewing /\ StopBrew
           \/ \E state \in BOOLEAN :
                steam # state /\ ~SetSteamRefused(state) /\ SetSteamModeState(state)
           \/ \E t \in Temps : SetBrewTemperature(t)
           \/ \E t \in Temps : SetSteamTemperature(t)
           \/ \E p \in Profiles : SetBrewSteps(p)
           \/ \E p \in Profiles : SetAutoStopCondition(p)
<1>1. CASE \E state \in BOOLEAN : SetPowerState(state)
  BY <1>1 DEF SetPowerState
<1>2. CASE \E state \in BOOLEAN : SetSteamModeState(state)
  <2>1. PICK state \in BOOLEAN : SetSteamModeState(state)
    BY <1>2
  <2>2. CASE steam = state \/ SetSteamRefused(state)
    BY <2>1, <2>2 DEF SetSteamModeState
  <2>3. CASE ~(steam = state \/ SetSteamRefused(state))
    BY <2>1, <2>3
  <2> QED BY <2>2, <2>3
<1>3. CASE StartBrew
  BY <1>3 DEF StartBrew
<1>4. CASE StopBrew
  BY <1>4 DEF StopBrew
<1>5. CASE \E t \in Temps : SetBrewTemperature(t) \/ SetSteamTemperature(t)
  BY <1>5
<1>6. CASE \E p \in Profiles : SetBrewSteps(p) \/ SetAutoStopCondition(p)
  BY <1>6
<1> QED BY <1>1, <1>2, <1>3, <1>4, <1>5, <1>6 DEF MachineNext

LEMMA UptoRange ==
    ASSUME NEW n \in Nat
    PROVE  Upto(n) \subseteq 0..n
BY DEF Upto

LEMMA IndicationType ==
    ASSUME NEW mode \in {"brew", "steam"}, NEW t \in Temps
    PROVE  Indication(mode, t) \in [mode : {"brew", "steam"}, target : Temps]
BY DEF Indication

LEMMA ModeIndicationType ==
    ASSUME MachineTypeOK, NEW state \in BOOLEAN
    PROVE  ModeIndication(state) \in [mode : {"brew", "steam"}, target : Temps]
BY IndicationType DEF ModeIndication, MachineTypeOK

-----------------------------------------------------------------------------
(* What holds although library calls may throw.                            *)
SafeInv == MachineTypeOK /\ BrewingInBrewMode

LEMMA SafeInit == MachineInit => SafeInv
BY DEF MachineInit, SafeInv, MachineTypeOK, BrewingInBrewMode

LEMMA SafeNext == SafeInv /\ [MachineNext]_machineVars => SafeInv'
<1> SUFFICES ASSUME SafeInv, [MachineNext]_machineVars PROVE SafeInv'
  OBVIOUS
<1> USE DEF SafeInv, MachineTypeOK, BrewingInBrewMode
<1>0. CASE UNCHANGED machineVars
  BY <1>0 DEF machineVars, heatVars, targetVars, profileVars
<1>1. ASSUME NEW done \in Upto(4), PowerOff(done) PROVE SafeInv'
  <2>1. done \in 0..4
    BY UptoRange
  <2> QED BY <1>1, <2>1 DEF PowerOff, targetVars, profileVars
<1>2. ASSUME NEW done \in Upto(2), PowerOn(done) PROVE SafeInv'
  <2>1. done \in 0..2
    BY UptoRange
  <2>2. indicated' \in [mode : {"brew", "steam"}, target : Temps] \cup {None}
    BY <1>2, ModeIndicationType DEF PowerOn
  <2>3. power' \in BOOLEAN /\ brewHeat' \in BOOLEAN /\ steamHeat' \in BOOLEAN
    BY <1>2 DEF PowerOn
  <2>4. brewing = FALSE
    BY <1>2 DEF PowerOn
  <2> QED BY <1>2, <2>2, <2>3, <2>4 DEF PowerOn, Break, targetVars, profileVars
<1>3. CASE ~brewing /\ ~StartBrewRefused /\ StartBrew
  <2>1. PICK done \in Upto(1) :
          /\ brewing' = (done = 1)
          /\ timer' = IF done = 1 THEN "running" ELSE timer
          /\ UNCHANGED <<power, steam, heatVars, targetVars, profileVars,
                         indicated, broken>>
    BY <1>3 DEF StartBrew
  <2>2. power /\ ~steam
    BY <1>3 DEF StartBrewRefused
  <2> QED BY <2>1, <2>2 DEF heatVars, targetVars, profileVars
<1>4. CASE brewing /\ StopBrew
  BY <1>4 DEF StopBrew, Break, heatVars, targetVars, profileVars
<1>5. ASSUME NEW state \in BOOLEAN, steam # state, ~SetSteamRefused(state),
             SetSteamModeState(state)
      PROVE  SafeInv'
  <2>1. ~brewing
    BY <1>5 DEF SetSteamRefused
  <2>2. UNCHANGED <<power, brewing, brewTarget, steamTarget, steps, autoStop, timer>>
    BY <1>5 DEF SetSteamModeState, targetVars, profileVars
  <2>3. CASE ~power
    BY <1>5, <2>1, <2>2, <2>3 DEF SetSteamModeState, heatVars
  <2>4. CASE power
    <3>1. PICK done \in Upto(3) : SwapControllers(state, done)
      BY <1>5, <2>4 DEF SetSteamModeState
    <3>2. done \in 0..3
      BY UptoRange
    <3>3. indicated' \in [mode : {"brew", "steam"}, target : Temps] \cup {None}
      BY <3>1, ModeIndicationType DEF SwapControllers
    <3>4. /\ steam' \in BOOLEAN /\ brewHeat' \in BOOLEAN /\ steamHeat' \in BOOLEAN
          /\ broken' \in BOOLEAN
      BY <3>1 DEF SwapControllers, Break
    <3> QED BY <2>1, <2>2, <3>3, <3>4
  <2> QED BY <2>3, <2>4
<1>6. ASSUME NEW t \in Temps, SetBrewTemperature(t) PROVE SafeInv'
  BY <1>6, IndicationType DEF SetBrewTemperature, Break, heatVars, profileVars
<1>7. ASSUME NEW t \in Temps, SetSteamTemperature(t) PROVE SafeInv'
  BY <1>7, IndicationType DEF SetSteamTemperature, Break, heatVars, profileVars
<1>8. ASSUME NEW p \in Profiles, SetBrewSteps(p) PROVE SafeInv'
  BY <1>8 DEF SetBrewSteps, heatVars, targetVars
<1>9. ASSUME NEW p \in Profiles, SetAutoStopCondition(p) PROVE SafeInv'
  BY <1>9 DEF SetAutoStopCondition, heatVars, targetVars
<1> HIDE DEF SafeInv, MachineTypeOK, BrewingInBrewMode
<1> QED BY <1>0, <1>1, <1>2, <1>3, <1>4, <1>5, <1>6, <1>7, <1>8, <1>9, Operations

(* The machine's state keeps its type, and a brew runs only with the power *)
(* on and outside of steam mode, whatever call fails half way.             *)
THEOREM BrewsOnlyInBrewMode ==
    MachineSpec => []MachineTypeOK /\ []BrewingInBrewMode
<1>1. SafeInv => MachineTypeOK /\ BrewingInBrewMode
  BY DEF SafeInv
<1> QED BY <1>1, SafeInit, SafeNext, PTL DEF MachineSpec

(* The power is reported off only when everything has been stopped,        *)
(* whatever call fails half way.                                           *)
THEOREM OffStopsEverything == MachineSpec => PowerOffStopsEverything
<1>1. ASSUME SafeInv, [MachineNext]_machineVars, power /\ ~power'
      PROVE  /\ ~brewing' /\ ~brewHeat' /\ ~steamHeat'
             /\ indicated' = None
             /\ timer' = "zero"
  <2>1. \E done \in Upto(4) : PowerOff(done)
    BY <1>1, Operations
       DEF machineVars, PowerOn, StartBrew, StopBrew, SetSteamModeState,
           SetBrewTemperature, SetSteamTemperature, SetBrewSteps,
           SetAutoStopCondition
  <2>2. PICK done \in 0..4 : PowerOff(done)
    BY <2>1, UptoRange
  <2>3. ~(done < 4)
    <3>1. power' = (done < 4)
      BY <2>2 DEF PowerOff
    <3> QED BY <1>1, <3>1
  <2>4. ~(done < 1) /\ ~(done < 2) /\ ~(done < 3)
    BY <2>3
  <2>5. /\ brewing' = (brewing /\ done < 1)
        /\ steamHeat' = (steamHeat /\ done < 2)
        /\ brewHeat' = (brewHeat /\ done < 3)
        /\ indicated' = IF done < 3 THEN indicated ELSE None
        /\ timer' = IF done < 4 THEN timer ELSE "zero"
    BY <2>2 DEF PowerOff
  <2> QED BY ONLY <2>3, <2>4, <2>5
<1>2. SafeInv /\ [MachineNext]_machineVars
        => [power /\ ~power' =>
              /\ ~brewing' /\ ~brewHeat' /\ ~steamHeat'
              /\ indicated' = None
              /\ timer' = "zero"]_machineVars
  BY <1>1
<1> QED BY <1>2, SafeInit, SafeNext, PTL DEF MachineSpec, PowerOffStopsEverything
-----------------------------------------------------------------------------
(* What an operation that is left half done may spoil: the three are        *)
(* inductive together, on top of SafeInv.  A step that leaves an operation  *)
(* half done sets broken; each of the lemmas below looks at one operation   *)
(* that does not.                                                          *)
Good == HeatersFollowMode /\ IndicationFollowsController /\ TimerFollowsBrewing
MendedInv == SafeInv /\ Good

LEMMA MendedInit == MachineInit => MendedInv
BY SafeInit DEF MachineInit, MendedInv, Good, HeatersFollowMode,
                IndicationFollowsController, TimerFollowsBrewing

(* A completed power-off restores the three from any state.                *)
LEMMA PowerOffMends ==
    ASSUME MendedInv, NEW done \in Upto(4), PowerOff(done), ~broken'
    PROVE  Good'
<1> USE DEF Good, HeatersFollowMode, IndicationFollowsController,
            TimerFollowsBrewing, ModeIndication
<1>1. done \in 0..4
  BY UptoRange
<1>2. CASE done = 4
  BY <1>2 DEF PowerOff
<1>3. CASE done # 4
  <2>1. done < 4
    BY <1>1, <1>3
  <2>2. ~broken /\ ~(done > 0)
    BY <2>1 DEF PowerOff
  <2>3. done = 0
    BY <1>1, <2>2
  <2>4. MachineTypeOK
    BY DEF MendedInv, SafeInv
  <2>5. UNCHANGED <<power, brewing, brewHeat, steamHeat, indicated, timer>>
    <3>1. /\ power /\ power' = (done < 4)
          /\ brewing' = (brewing /\ done < 1)
          /\ steamHeat' = (steamHeat /\ done < 2)
          /\ brewHeat' = (brewHeat /\ done < 3)
          /\ indicated' = IF done < 3 THEN indicated ELSE None
          /\ timer' = IF done < 4 THEN timer ELSE "zero"
      BY DEF PowerOff
    <3>2. /\ power \in BOOLEAN /\ brewing \in BOOLEAN
          /\ brewHeat \in BOOLEAN /\ steamHeat \in BOOLEAN
      BY <2>4 DEF MachineTypeOK
    <3>3. (done < 1) = TRUE /\ (done < 2) = TRUE /\ (done < 3) = TRUE
          /\ (done < 4) = TRUE
      BY ONLY <2>3
    <3> QED BY ONLY <3>1, <3>2, <3>3
  <2>6. UNCHANGED <<steam, brewTarget, steamTarget>>
    BY DEF PowerOff, targetVars
  <2> QED BY <2>2, <2>5, <2>6 DEF MendedInv
<1> QED BY <1>2, <1>3

LEMMA PowerOnKeeps ==
    ASSUME MendedInv, NEW done \in Upto(2), PowerOn(done), ~broken'
    PROVE  Good'
<1> USE DEF MendedInv, SafeInv, MachineTypeOK, BrewingInBrewMode, Good,
            HeatersFollowMode, IndicationFollowsController, TimerFollowsBrewing,
            ModeIndication
<1>1. done \in {0, 2} /\ ~broken
  <2>1. done \in 0..2
    BY UptoRange
  <2>2. ~broken /\ done # 1
    BY DEF PowerOn, Break
  <2> QED BY <2>1, <2>2
<1>2. CASE done = 0
  BY <1>1, <1>2 DEF PowerOn, targetVars
<1>3. CASE done = 2
  <2>1. indicated' = IF steam THEN Indication("steam", steamTarget)
                     ELSE Indication("brew", brewTarget)
    BY <1>3 DEF PowerOn
  <2>2. power' /\ brewing = FALSE
    BY <1>3 DEF PowerOn
  <2>3. brewHeat' = ~steam /\ steamHeat' = steam
    BY <1>1, <1>3 DEF PowerOn
  <2> QED BY <1>1, <1>3, <2>1, <2>2, <2>3 DEF PowerOn, targetVars
<1> QED BY <1>1, <1>2, <1>3

LEMMA SwapKeeps ==
    ASSUME MendedInv, power,
           NEW state \in BOOLEAN, steam # state,
           NEW done \in Upto(3), SwapControllers(state, done), ~broken',
           UNCHANGED <<power, brewing, targetVars, profileVars, timer>>
    PROVE  Good'
<1> USE DEF MendedInv, SafeInv, MachineTypeOK, Good, HeatersFollowMode,
            IndicationFollowsController, TimerFollowsBrewing, ModeIndication
<1>1. done \in {0, 3} /\ ~broken
  <2>1. done \in 0..3
    BY UptoRange
  <2>2. ~broken /\ done \notin 1..2
    BY DEF SwapControllers, Break
  <2> QED BY <2>1, <2>2
<1>2. CASE done = 0
  BY <1>1, <1>2 DEF SwapControllers, targetVars
<1>3. CASE done = 3
  <2>1. steam' = state /\ steam = ~state
    BY <1>3 DEF SwapControllers
  <2>2. indicated' = IF state THEN Indication("steam", steamTarget)
                     ELSE Indication("brew", brewTarget)
    BY <1>3 DEF SwapControllers
  <2>3. brewHeat' = ~state /\ steamHeat' = state
    BY <1>1, <1>3, <2>1 DEF SwapControllers
  <2> QED BY <1>1, <2>1, <2>2, <2>3 DEF targetVars
<1> QED BY <1>1, <1>2, <1>3

LEMMA MendedNext == MendedInv /\ [MachineNext]_machineVars => MendedInv'
<1> SUFFICES ASSUME MendedInv, [MachineNext]_machineVars, ~broken'
             PROVE  Good'
  BY SafeNext DEF MendedInv, Good, HeatersFollowMode,
                  IndicationFollowsController, TimerFollowsBrewing
<1> USE DEF MendedInv, SafeInv, MachineTypeOK, BrewingInBrewMode, Good,
            HeatersFollowMode, IndicationFollowsController, TimerFollowsBrewing,
            ModeIndication
<1>0. CASE UNCHANGED machineVars
  BY <1>0 DEF machineVars, heatVars, targetVars
<1>1. (\E done \in Upto(4) : PowerOff(done)) => Good'
  BY PowerOffMends
<1>2. (\E done \in Upto(2) : PowerOn(done)) => Good'
  BY PowerOnKeeps
<1>3. CASE ~brewing /\ ~StartBrewRefused /\ StartBrew
  BY <1>3 DEF StartBrew, heatVars, targetVars
<1>4. CASE brewing /\ StopBrew
  BY <1>4 DEF StopBrew, Break, heatVars, targetVars
<1>5. ASSUME NEW state \in BOOLEAN, steam # state, ~SetSteamRefused(state),
             SetSteamModeState(state)
      PROVE  Good'
  <2>1. UNCHANGED <<power, brewing, targetVars, profileVars, timer>>
    BY <1>5 DEF SetSteamModeState
  <2>2. CASE ~power
    BY <1>5, <2>1, <2>2 DEF SetSteamModeState, heatVars, targetVars
  <2>3. CASE power
    <3>1. PICK done \in Upto(3) : SwapControllers(state, done)
      BY <1>5, <2>3 DEF SetSteamModeState
    <3> QED BY <1>5, <2>1, <2>3, <3>1, SwapKeeps
  <2> QED BY <2>2, <2>3
<1>6. ASSUME NEW t \in Temps, SetBrewTemperature(t) PROVE Good'
  BY <1>6, UptoRange DEF SetBrewTemperature, Break, heatVars
<1>7. ASSUME NEW t \in Temps, SetSteamTemperature(t) PROVE Good'
  BY <1>7, UptoRange DEF SetSteamTemperature, Break, heatVars
<1>8. ASSUME NEW p \in Profiles, SetBrewSteps(p) PROVE Good'
  BY <1>8 DEF SetBrewSteps, heatVars, targetVars
<1>9. ASSUME NEW p \in Profiles, SetAutoStopCondition(p) PROVE Good'
  BY <1>9 DEF SetAutoStopCondition, heatVars, targetVars
<1> HIDE DEF MendedInv, SafeInv, MachineTypeOK, BrewingInBrewMode, Good,
             HeatersFollowMode, IndicationFollowsController, TimerFollowsBrewing,
             ModeIndication
<1> QED
  BY <1>0, <1>1, <1>2, <1>3, <1>4, <1>5, <1>6, <1>7, <1>8, <1>9, Operations

(* The controller of the mode in use heats, the other does not, and neither *)
(* does with the power off, except between a failed operation and the next *)
(* completed power-off.                                                    *)
THEOREM OneControllerHeats == MachineSpec => []HeatersFollowMode
<1>1. MendedInv => HeatersFollowMode
  BY DEF MendedInv, Good
<1> QED BY <1>1, MendedInit, MendedNext, PTL DEF MachineSpec

(* With the same exception the heating status indicated is that of the     *)
(* controller in use, for the target it has.                               *)
THEOREM IndicationIsRight == MachineSpec => []IndicationFollowsController
<1>1. MendedInv => IndicationFollowsController
  BY DEF MendedInv, Good
<1> QED BY <1>1, MendedInit, MendedNext, PTL DEF MachineSpec

(* With the same exception the timer runs exactly during a brew.           *)
THEOREM TimerIsRight == MachineSpec => []TimerFollowsBrewing
<1>1. MendedInv => TimerFollowsBrewing
  BY DEF MendedInv, Good
<1> QED BY <1>1, MendedInit, MendedNext, PTL DEF MachineSpec

-----------------------------------------------------------------------------
(* Of the three components only the brew temperature controller and the    *)
(* brew profiler are ever active together.  Where the configuration wires  *)
(* those two to different actuators, none has two drivers.                 *)
THEOREM ActuatorsHaveOneDriver ==
    ASSUME Drives["brew_temperature_controller"] \cap Drives["brew_profiler"] = {}
    PROVE  MachineSpec => []OneDriverPerActuator
<1>1. MendedInv => OneDriverPerActuator
  <2> SUFFICES ASSUME MendedInv, ~broken, NEW c \in Active, NEW d \in Active, c # d
               PROVE  Drives[c] \cap Drives[d] = {}
    BY DEF OneDriverPerActuator
  <2>1. ~(steamHeat /\ brewHeat) /\ ~(steamHeat /\ brewing)
    BY DEF MendedInv, SafeInv, MachineTypeOK, BrewingInBrewMode, Good,
           HeatersFollowMode
  <2>2. {c, d} = {"brew_temperature_controller", "brew_profiler"}
    BY <2>1 DEF Active
  <2> QED BY <2>2
<1> QED BY <1>1, MendedInit, MendedNext, PTL DEF MachineSpec

-----------------------------------------------------------------------------
(* Where no call throws, every operation is completed: the one place where  *)
(* NoThrowAssumption is cited.                                             *)
LEMMA Completed == ASSUME NEW n \in Nat PROVE Upto(n) = {n}
BY NoThrowAssumption DEF Upto

(* What each operation of the machine leaves behind.                       *)
LEMMA PowerStep ==
    ASSUME NEW state \in BOOLEAN, SetPowerState(state)
    PROVE  /\ power' = state
           /\ UNCHANGED <<steam, brewTarget, steamTarget, steps, autoStop>>
           /\ ~broken => ~broken'
<1> USE DEF targetVars, profileVars
<1>1. CASE power = state /\ UNCHANGED machineVars
  BY <1>1 DEF machineVars
<1>2. CASE ~state /\ \E done \in Upto(4) : PowerOff(done)
  <2>1. PowerOff(4)  BY <1>2, Completed
  <2> QED BY <1>2, <2>1 DEF PowerOff
<1>3. CASE state /\ \E done \in Upto(2) : PowerOn(done)
  <2>1. PowerOn(2)  BY <1>3, Completed
  <2>2. power' = (2 = 2) /\ broken' = (broken \/ 2 = 1)
    BY <2>1 DEF PowerOn, Break
  <2>3. power' /\ (~broken => ~broken')
    <3>1. 2 # 1  OBVIOUS
    <3> QED BY <2>2, <3>1, Zenon
  <2>4. UNCHANGED <<steam, brewTarget, steamTarget, steps, autoStop>>
    BY <2>1 DEF PowerOn
  <2>5. power' = TRUE /\ state = TRUE  BY <1>3, <2>2
  <2> QED BY <2>3, <2>4, <2>5
<1> QED BY <1>1, <1>2, <1>3 DEF SetPowerState

LEMMA SteamStep ==
    ASSUME NEW state \in BOOLEAN, SetSteamModeState(state)
    PROVE  /\ steam' = IF SetSteamRefused(state) THEN steam ELSE state
           /\ UNCHANGED <<power, brewing, brewTarget, steamTarget, steps, autoStop>>
           /\ ~broken => ~broken'
<1> USE DEF targetVars, profileVars
<1>1. CASE steam = state \/ SetSteamRefused(state)
  BY <1>1 DEF SetSteamModeState, SetSteamRefused, machineVars
<1>2. CASE ~(steam = state \/ SetSteamRefused(state))
  <2>1. CASE power
    <3>1. SwapControllers(state, 3)
      BY <1>2, <2>1, Completed DEF SetSteamModeState
    <3>2. 3 \notin 1 .. 2  OBVIOUS
    <3>3. steam' = state /\ broken' = (broken \/ 3 \in 1 .. 2)
      BY <3>1 DEF SwapControllers, Break
    <3>4. UNCHANGED <<power, brewing, brewTarget, steamTarget, steps, autoStop>>
      BY <1>2 DEF SetSteamModeState
    <3> QED BY <1>2, <3>2, <3>3, <3>4
  <2>2. CASE ~power
    BY <1>2, <2>2 DEF SetSteamModeState
  <2> QED BY <2>1, <2>2
<1> QED BY <1>1, <1>2

LEMMA StartBrewStep ==
    ASSUME StartBrew
    PROVE  /\ ~StartBrewRefused => brewing'
           /\ UNCHANGED <<power, steam, brewTarget, steamTarget, steps, autoStop>>
           /\ ~broken => ~broken'
<1> USE DEF targetVars, profileVars
<1>1. CASE brewing \/ StartBrewRefused
  BY <1>1 DEF StartBrew, StartBrewRefused, machineVars
<1>2. CASE ~(brewing \/ StartBrewRefused)
  BY <1>2, Completed DEF StartBrew
<1> QED BY <1>1, <1>2

LEMMA StopBrewStep ==
    ASSUME StopBrew
    PROVE  /\ ~brewing'
           /\ UNCHANGED <<power, steam, brewTarget, steamTarget, steps, autoStop>>
           /\ ~broken => ~broken'
<1> USE DEF targetVars, profileVars
<1>1. CASE ~brewing
  BY <1>1 DEF StopBrew, machineVars
<1>2. CASE brewing
  <2>1. /\ brewing' = (1 = 0) /\ broken' = (broken \/ 1 = 0)
        /\ UNCHANGED <<power, steam, brewTarget, steamTarget, steps, autoStop>>
    BY <1>2, Completed DEF StopBrew, Break
  <2>2. 1 # 0  OBVIOUS
  <2>3. ~brewing' /\ (~broken => ~broken')  BY <2>1, <2>2, Zenon
  <2> QED BY <2>1, <2>3
<1> QED BY <1>1, <1>2

LEMMA SteamTargetStep ==
    ASSUME NEW t \in Temps, SetSteamTemperature(t)
    PROVE  /\ steamTarget' = t
           /\ UNCHANGED <<power, steam, brewing, brewTarget, steps, autoStop>>
           /\ ~broken => ~broken'
<1>1. /\ steamTarget' = IF 2 >= 1 THEN t ELSE steamTarget
      /\ broken' = (broken \/ (power /\ steam /\ 2 = 1))
      /\ UNCHANGED <<power, steam, brewing, brewTarget, steps, autoStop>>
  BY Completed DEF SetSteamTemperature, Break, profileVars
<1>2. 2 >= 1 /\ 2 # 1  OBVIOUS
<1>3. ~broken => ~broken'  BY <1>1, <1>2, Zenon
<1> QED BY <1>1, <1>2, <1>3

-----------------------------------------------------------------------------
(* The machine under the two managers: nothing is ever half done.          *)
WholeInv == MendedInv /\ ~broken

(* The operations that a client's task calls.                              *)
Operation ==
    \/ UNCHANGED machineVars
    \/ \E state \in BOOLEAN : SetPowerState(state) \/ SetSteamModeState(state)
    \/ StartBrew
    \/ StopBrew

LEMMA OperationKeeps == WholeInv /\ Operation => WholeInv'
<1> SUFFICES ASSUME WholeInv, Operation PROVE WholeInv'
  OBVIOUS
<1>1. [MachineNext]_machineVars  BY DEF Operation, MachineNext
<1>2. ~broken'
  <2>1. CASE UNCHANGED machineVars  BY <2>1 DEF machineVars, WholeInv
  <2> QED BY <2>1, PowerStep, SteamStep, StartBrewStep, StopBrewStep
        DEF Operation, WholeInv
<1> QED BY <1>1, <1>2, MendedNext DEF WholeInv

LEMMA SteamTargetKeeps ==
    ASSUME WholeInv, NEW t \in Temps, SetSteamTemperature(t)
    PROVE  WholeInv'
<1>1. [MachineNext]_machineVars  BY DEF MachineNext
<1>2. ~broken'  BY SteamTargetStep DEF WholeInv
<1> QED BY <1>1, <1>2, MendedNext DEF WholeInv

(* applyBrewProfile is several operations, of which some may be refused.   *)
LEMMA ApplyKeeps ==
    ASSUME WholeInv, NEW p \in Profiles, ApplyBrewProfile(p)
    PROVE  WholeInv'
<1>1. TempOf[p] \in Temps  BY ProfilesAssumption
<1>2. /\ brewTarget' = TempOf[p]
      /\ steps' \in {steps, p} /\ autoStop' \in {autoStop, p}
      /\ indicated' = IF power /\ ~steam THEN Indication("brew", TempOf[p])
                      ELSE indicated
      /\ UNCHANGED <<power, steam, brewing, brewHeat, steamHeat, steamTarget,
                     timer, broken>>
  BY DEF ApplyBrewProfile, heatVars
<1>3. Indication("brew", TempOf[p]) \in [mode : {"brew", "steam"}, target : Temps]
  BY <1>1, IndicationType
<1>4. SafeInv'
  BY <1>1, <1>2, <1>3
  DEF WholeInv, MendedInv, SafeInv, MachineTypeOK, BrewingInBrewMode
<1>5. Good'
  BY <1>2 DEF WholeInv, MendedInv, Good, HeatersFollowMode,
     IndicationFollowsController, TimerFollowsBrewing, ModeIndication, Indication
<1> QED BY <1>2, <1>4, <1>5 DEF WholeInv, MendedInv

(* The daemon's start makes a new machine.                                 *)
LEMMA StartKeeps ==
    ASSUME ProfilesTypeOK, Start
    PROVE  /\ WholeInv'
           /\ current' \in Profiles /\ settings' \in Temps
           /\ steps' = current' /\ autoStop' = current'
           /\ brewTarget' = TempOf[current'] /\ steamTarget' = settings'
<1> DEFINE p == Loaded(profileFile, DefaultProfile)
           t == Loaded(settingsFile, DefaultSteam)
<1>1. p \in Profiles /\ t \in Temps /\ TempOf[p] \in Temps
  BY ProfilesAssumption DEF Loaded, ProfilesTypeOK
<1>2. /\ current' = p /\ steps' = p /\ autoStop' = p
      /\ brewTarget' = TempOf[p] /\ settings' = t /\ steamTarget' = t
      /\ steam' \in BOOLEAN
      /\ power' = FALSE /\ brewing' = FALSE
      /\ brewHeat' = FALSE /\ steamHeat' = FALSE
      /\ indicated' = None /\ timer' = "zero" /\ broken' = FALSE
  BY DEF Start
<1> HIDE DEF p, t
<1>3. SafeInv'
  BY <1>1, <1>2 DEF SafeInv, MachineTypeOK, BrewingInBrewMode
<1>4. Good'
  BY <1>2 DEF Good, HeatersFollowMode, IndicationFollowsController,
     TimerFollowsBrewing
<1> QED BY <1>1, <1>2, <1>3, <1>4 DEF WholeInv, MendedInv

-----------------------------------------------------------------------------
(* The profile and the settings, over crashes and starts.                  *)
ManagersInv ==
    /\ WholeInv
    /\ ProfilesTypeOK
    /\ AnsweredIsApplied
    /\ FailsOnlyOnRefusedProfile

LEMMA ManagersInit == ProfilesInit => ManagersInv
<1> SUFFICES ASSUME ProfilesInit PROVE ManagersInv
  OBVIOUS
<1>1. WholeInv
  BY MendedInit DEF ProfilesInit, WholeInv, MachineInit
<1>2. ProfilesTypeOK
  BY <1>1, ProfilesAssumption
  DEF ProfilesInit, ProfilesTypeOK, WholeInv, MendedInv, SafeInv
<1>3. AnsweredIsApplied /\ FailsOnlyOnRefusedProfile
  BY DEF ProfilesInit, AnsweredIsApplied, FailsOnlyOnRefusedProfile
<1> QED BY <1>1, <1>2, <1>3 DEF ManagersInv

(* An operation touches neither what was applied nor the files.            *)
LEMMA OperationStep ==
    ASSUME ManagersInv, Operation, KeepProfiles
    PROVE  /\ ManagersInv'
           /\ UNCHANGED <<brewTarget, steamTarget, steps, autoStop>>
<1>1. WholeInv'  BY OperationKeeps DEF ManagersInv
<1>2. UNCHANGED <<brewTarget, steamTarget, steps, autoStop>>
  <2>1. CASE UNCHANGED machineVars
    BY <2>1 DEF machineVars, targetVars, profileVars
  <2> QED BY <2>1, PowerStep, SteamStep, StartBrewStep, StopBrewStep DEF Operation
<1>3. UNCHANGED <<up, current, profileFile, profileReply, settings, settingsFile,
                  settingsReply>>
  BY DEF KeepProfiles, profileStore, settingsStore
<1>4. MachineTypeOK'  BY <1>1 DEF WholeInv, MendedInv, SafeInv
<1>5. ProfilesTypeOK'  BY <1>3, <1>4 DEF ManagersInv, ProfilesTypeOK
<1>6. AnsweredIsApplied' /\ FailsOnlyOnRefusedProfile'
  BY <1>2, <1>3
  DEF ManagersInv, AnsweredIsApplied, FailsOnlyOnRefusedProfile, StartRefused
<1> QED BY <1>1, <1>2, <1>5, <1>6 DEF ManagersInv

LEMMA SetBrewProfileStep ==
    ASSUME ManagersInv, NEW p \in Profiles, SetBrewProfile(p)
    PROVE  /\ ManagersInv'
           /\ current' = p
           /\ profileReply' = "OK" => steps' = p
           /\ brewing => UNCHANGED <<steps, autoStop>>
           /\ UNCHANGED <<power, steam, brewing, steamTarget, up, settings,
                          settingsReply>>
<1>1. PICK w \in Written(profileFile, p) :
        /\ profileFile' = w.file
        /\ profileReply' = Reply(w.ok /\ ~ApplyRefused(p))
        /\ IF w.ok THEN ApplyBrewProfile(p) ELSE UNCHANGED machineVars
  BY DEF SetBrewProfile
<1>2. /\ up = "up" /\ current' = p
      /\ UNCHANGED <<up, settings, settingsFile, settingsReply>>
  BY DEF SetBrewProfile, settingsStore
<1>3. w.file \in {p, profileFile, Torn}
  BY DEF Written
<1>4. WholeInv'
  <2>1. CASE w.ok
    BY <1>1, <2>1, ApplyKeeps DEF ManagersInv
  <2>2. CASE ~w.ok
    <3>1. UNCHANGED machineVars  BY <1>1, <2>2
    <3> QED BY <3>1, OperationKeeps DEF Operation, ManagersInv
  <2> QED BY <2>1, <2>2
<1>5. UNCHANGED <<power, steam, brewing, steamTarget>>
  BY <1>1 DEF ApplyBrewProfile, machineVars, targetVars
<1>6. profileReply' = "OK" =>
        steps' = p /\ autoStop' = p /\ brewTarget' = TempOf[p]
  <2> SUFFICES ASSUME profileReply' = "OK"
               PROVE  steps' = p /\ autoStop' = p /\ brewTarget' = TempOf[p]
    OBVIOUS
  <2>1. w.ok /\ ~ApplyRefused(p)
    <3> SUFFICES ASSUME ~(w.ok /\ ~ApplyRefused(p)) PROVE FALSE
      OBVIOUS
    <3>1. profileReply' = "ABORTED"  BY <1>1 DEF Reply
    <3> QED BY <3>1
  <2> QED BY <1>1, <2>1 DEF ApplyBrewProfile, ApplyRefused
<1>7. brewing => UNCHANGED <<steps, autoStop>>
  BY <1>1 DEF ApplyBrewProfile, ApplyRefused, StepsRefused, machineVars, profileVars
<1>8. ProfilesTypeOK'
  <2>1. MachineTypeOK'  BY <1>4 DEF WholeInv, MendedInv, SafeInv
  <2>2. profileReply' \in {"OK", "ABORTED"}  BY <1>1 DEF Reply
  <2>3. profileFile' \in Profiles \cup {Absent, Torn}
    BY <1>1, <1>3 DEF ManagersInv, ProfilesTypeOK
  <2> QED BY <1>2, <2>1, <2>2, <2>3 DEF ManagersInv, ProfilesTypeOK
<1>9. AnsweredIsApplied' /\ FailsOnlyOnRefusedProfile'
  BY <1>2, <1>5, <1>6
  DEF ManagersInv, AnsweredIsApplied, FailsOnlyOnRefusedProfile
<1> QED BY <1>2, <1>4, <1>5, <1>6, <1>7, <1>8, <1>9 DEF ManagersInv

LEMMA SetUserSettingsStep ==
    ASSUME ManagersInv, NEW t \in Temps, SetUserSettings(t)
    PROVE  /\ ManagersInv'
           /\ settings' = t
           /\ settingsReply' = "OK" => steamTarget' = t
           /\ UNCHANGED <<power, steam, brewing, steps, autoStop, up, current,
                          profileReply>>
<1>1. PICK w \in Written(settingsFile, t) :
        /\ settingsFile' = w.file
        /\ settingsReply' = Reply(w.ok)
        /\ IF w.ok THEN SetSteamTemperature(t) ELSE UNCHANGED machineVars
  BY DEF SetUserSettings
<1>2. /\ up = "up" /\ settings' = t
      /\ UNCHANGED <<up, current, profileFile, profileReply>>
  BY DEF SetUserSettings, profileStore
<1>3. w.file \in {t, settingsFile, Torn}
  BY DEF Written
<1>4. /\ WholeInv'
      /\ UNCHANGED <<power, steam, brewing, brewTarget, steps, autoStop>>
      /\ w.ok => steamTarget' = t
  <2>1. CASE w.ok
    BY <1>1, <2>1, SteamTargetKeeps, SteamTargetStep DEF ManagersInv
  <2>2. CASE ~w.ok
    <3>1. UNCHANGED machineVars  BY <1>1, <2>2
    <3>2. WholeInv'  BY <3>1, OperationKeeps DEF Operation, ManagersInv
    <3> QED BY <2>2, <3>1, <3>2 DEF machineVars, targetVars, profileVars
  <2> QED BY <2>1, <2>2
<1>5. settingsReply' = "OK" => steamTarget' = t
  BY <1>1, <1>4 DEF Reply
<1>6. ProfilesTypeOK'
  <2>1. MachineTypeOK'  BY <1>4 DEF WholeInv, MendedInv, SafeInv
  <2>2. settingsReply' \in {"OK", "ABORTED"}  BY <1>1 DEF Reply
  <2>3. settingsFile' \in Temps \cup {Absent, Torn}
    BY <1>1, <1>3 DEF ManagersInv, ProfilesTypeOK
  <2> QED BY <1>2, <2>1, <2>2, <2>3 DEF ManagersInv, ProfilesTypeOK
<1>7. AnsweredIsApplied' /\ FailsOnlyOnRefusedProfile'
  BY <1>2, <1>4, <1>5
  DEF ManagersInv, AnsweredIsApplied, FailsOnlyOnRefusedProfile
<1> QED BY <1>2, <1>4, <1>5, <1>6, <1>7 DEF ManagersInv

(* The daemon ends and starts again.                                       *)
LEMMA LifeStep ==
    ASSUME ManagersInv, Crash \/ Start \/ StartFails
    PROVE  ManagersInv'
<1>1. CASE Start
  <2>1. /\ WholeInv'
        /\ current' \in Profiles /\ settings' \in Temps
        /\ steps' = current' /\ autoStop' = current'
        /\ brewTarget' = TempOf[current'] /\ steamTarget' = settings'
    BY <1>1, StartKeeps DEF ManagersInv
  <2>2. /\ up' = "up" /\ profileReply' = "OK" /\ settingsReply' = "OK"
        /\ UNCHANGED <<profileFile, settingsFile>>
    BY <1>1 DEF Start
  <2>3. MachineTypeOK'  BY <2>1 DEF WholeInv, MendedInv, SafeInv
  <2> QED BY <2>1, <2>2, <2>3
    DEF ManagersInv, ProfilesTypeOK, AnsweredIsApplied, FailsOnlyOnRefusedProfile
<1>2. ASSUME Crash \/ StartFails PROVE ManagersInv'
  <2>1. UNCHANGED <<machineVars, current, profileReply, settings, settingsReply>>
    BY <1>2 DEF Crash, StartFails, profileStore, settingsStore
  <2>2. /\ up' \in {"down", "failed"}
        /\ profileFile' \in {profileFile, Torn}
        /\ settingsFile' \in {settingsFile, Torn}
    BY <1>2 DEF Crash, StartFails, profileStore, settingsStore
  <2>3. WholeInv'  BY <2>1, OperationKeeps DEF Operation, ManagersInv
  <2>4. MachineTypeOK'  BY <2>3 DEF WholeInv, MendedInv, SafeInv
  <2>5. ProfilesTypeOK'
    BY <2>1, <2>2, <2>4 DEF ManagersInv, ProfilesTypeOK
  <2>6. AnsweredIsApplied'  BY <2>2 DEF AnsweredIsApplied
  <2>7. FailsOnlyOnRefusedProfile'
    <3>1. CASE Crash  BY <3>1 DEF Crash, FailsOnlyOnRefusedProfile
    <3>2. CASE StartFails
      <4>1. StartRefused(Loaded(profileFile, DefaultProfile))
        BY <3>2 DEF StartFails
      <4>2. ~StartRefused(DefaultProfile)
        BY ProfilesAssumption DEF StartRefused
      <4>3. StartRefused(profileFile)  BY <4>1, <4>2 DEF Loaded
      <4>4. profileFile' = profileFile  BY <3>2 DEF StartFails, profileStore
      <4> QED BY <4>3, <4>4 DEF FailsOnlyOnRefusedProfile, StartRefused
    <3> QED BY <1>2, <3>1, <3>2
  <2> QED BY <2>3, <2>5, <2>6, <2>7 DEF ManagersInv
<1> QED BY <1>1, <1>2

LEMMA ManagersNext ==
    ASSUME ManagersInv, [ProfilesNext]_profilesVars
    PROVE  ManagersInv' /\ (brewing /\ brewing' => UNCHANGED <<steps, autoStop>>)
<1>1. CASE UNCHANGED profilesVars
  <2>1. Operation /\ KeepProfiles
    BY <1>1 DEF profilesVars, Operation, KeepProfiles, profileStore, settingsStore
  <2> QED BY <2>1, OperationStep
<1>2. CASE \E p \in Profiles : SetBrewProfile(p)
  BY <1>2, SetBrewProfileStep
<1>3. CASE \E t \in Temps : SetUserSettings(t)
  BY <1>3, SetUserSettingsStep
<1>4. CASE Operate
  <2>1. Operation /\ KeepProfiles
    BY <1>4 DEF Operate, Operation, KeepProfiles
  <2> QED BY <2>1, OperationStep
<1>5. CASE Crash \/ Start \/ StartFails
  <2>1. ManagersInv'  BY <1>5, LifeStep
  <2>2. brewing' => UNCHANGED <<steps, autoStop>>
    BY <1>5 DEF Crash, Start, StartFails, machineVars, profileVars
  <2> QED BY <2>1, <2>2
<1> QED BY <1>1, <1>2, <1>3, <1>4, <1>5 DEF ProfilesNext

LEMMA ManagersInvariant == ProfilesSpec => []ManagersInv
BY ManagersInit, ManagersNext, PTL DEF ProfilesSpec

(* What setBrewProfile and setUserSettings answered OK, or the start has    *)
(* loaded, is what the machine uses, whole, whatever happened since.       *)
THEOREM AnswersAreKept == ProfilesSpec => []AnsweredIsApplied
<1>1. ManagersInv => AnsweredIsApplied  BY DEF ManagersInv
<1> QED BY <1>1, ManagersInvariant, PTL

(* The daemon fails to start over a profile that parses and is refused, and *)
(* over no torn or missing file.                                           *)
THEOREM StartsUnlessRefused == ProfilesSpec => []FailsOnlyOnRefusedProfile
<1>1. ManagersInv => FailsOnlyOnRefusedProfile  BY DEF ManagersInv
<1> QED BY <1>1, ManagersInvariant, PTL

(* The steps and the stop condition of a running brew are not exchanged.   *)
THEOREM BrewKeepsItsProfile == ProfilesSpec => RunningBrewKeepsProfile
<1>1. ManagersInv /\ [ProfilesNext]_profilesVars =>
        [brewing /\ brewing' => UNCHANGED <<steps, autoStop>>]_profilesVars
  BY ManagersNext
<1> QED BY <1>1, ManagersInvariant, PTL DEF ProfilesSpec, RunningBrewKeepsProfile

(* Over crashes and starts, and whatever is saved, refused or operated, the *)
(* machine is never half way: one controller heats, the one of the mode,    *)
(* it is indicated, the timer runs during a brew, and a brew with power.    *)
THEOREM MachineIsWhole ==
    ProfilesSpec => [](/\ ~broken /\ HeatersFollowMode /\ IndicationFollowsController
                       /\ TimerFollowsBrewing /\ BrewingInBrewMode)
<1>1. ManagersInv => /\ ~broken /\ HeatersFollowMode /\ IndicationFollowsController
                     /\ TimerFollowsBrewing /\ BrewingInBrewMode
  BY DEF ManagersInv, WholeInv, MendedInv, SafeInv, Good
<1> QED BY <1>1, ManagersInvariant, PTL

-----------------------------------------------------------------------------
(* The streams.  One that is told of changes knows the machine.            *)
View == [power : BOOLEAN, brew : BOOLEAN, steam : BOOLEAN, progress : Steps,
         profile : Profiles, settings : Temps]

Knows(v) ==
    /\ v.power = power /\ v.steam = steam
    /\ v.brew # brewing => untold
    /\ profileReply = "OK" => v.profile = current
    /\ settingsReply = "OK" => v.settings = settings

(* What the profiler's callback may be about to submit.                     *)
Reporting == {<<>>} \cup {<<task>> : task \in Tasks}

(* There are no streams after the destructor's task or a crash.            *)
StreamsInv ==
    /\ final \/ up # "up" => \A s \in Sinks : view[s] = None
    /\ \A s \in Sinks : view[s] # None => Knows(view[s])

(* An end of a brew that waits, or is about to be submitted, is the end of  *)
(* the brew under way, or one that this brew was started ahead of.         *)
EndInv == brewing /\ EndPending => ended \/ overtaken

IInv ==
    /\ ManagersInv
    /\ DispatcherTypeOK
    /\ StreamsInv
    /\ OffAfterFinal
    /\ EndInv

LEMMA TypeParts ==
    DispatcherTypeOK <=>
      /\ ProfilesTypeOK
      /\ tasks \in Seq(Tasks) /\ reporting \in Reporting
      /\ view \in [Sinks -> View \cup {None}]
      /\ ended \in BOOLEAN /\ untold \in BOOLEAN
      /\ overtaken \in BOOLEAN /\ final \in BOOLEAN
BY DEF DispatcherTypeOK, View, Reporting

LEMMA InitIInv == DispatcherInit => IInv
<1> SUFFICES ASSUME DispatcherInit PROVE IInv
  OBVIOUS
<1>1. ManagersInv  BY ManagersInit DEF DispatcherInit
<1>2. DispatcherTypeOK
  <2>1. tasks \in Seq(Tasks) /\ reporting \in Reporting
    BY DEF DispatcherInit, Reporting
  <2>2. view \in [Sinks -> View \cup {None}]  BY DEF DispatcherInit
  <2>3. /\ ended \in BOOLEAN /\ untold \in BOOLEAN
        /\ overtaken \in BOOLEAN /\ final \in BOOLEAN
    BY DEF DispatcherInit
  <2> QED BY <1>1, <2>1, <2>2, <2>3, TypeParts DEF ManagersInv
<1>3. StreamsInv /\ OffAfterFinal
  BY DEF DispatcherInit, StreamsInv, OffAfterFinal
<1>4. EndInv
  BY DEF DispatcherInit, MachineInit, ProfilesInit, EndInv
<1> QED BY <1>1, <1>2, <1>3, <1>4 DEF IInv

(* A client's task: the machine makes an operation, and who knew it before *)
(* and is told still knows it.                                             *)
Informed ==
    /\ Operation
    /\ view' \in [Sinks -> View \cup {None}]
    /\ untold' \in BOOLEAN
    /\ \A s \in Sinks : view'[s] # None =>
         /\ view[s] # None
         /\ view'[s].power = power' /\ view'[s].steam = steam'
         /\ view'[s].brew # brewing' => untold'
         /\ view'[s].profile = view[s].profile
         /\ view'[s].settings = view[s].settings

Before ==
    /\ view \in [Sinks -> View \cup {None}]
    /\ power \in BOOLEAN /\ steam \in BOOLEAN /\ brewing \in BOOLEAN
    /\ brewing' \in BOOLEAN
    /\ untold \in BOOLEAN
    /\ \A s \in Sinks : view[s] # None =>
         /\ view[s].power = power /\ view[s].steam = steam
         /\ view[s].brew # brewing => untold

LEMMA OperationBefore == IInv /\ Operation => Before
<1> SUFFICES ASSUME IInv, Operation PROVE Before
  OBVIOUS
<1>1. WholeInv'  BY OperationKeeps DEF IInv, ManagersInv
<1>2. MachineTypeOK /\ MachineTypeOK'
  BY <1>1 DEF IInv, ManagersInv, WholeInv, MendedInv, SafeInv
<1> QED BY <1>2, TypeParts DEF IInv, StreamsInv, Knows, Before, MachineTypeOK

LEMMA PowerInforms ==
    ASSUME IInv, NEW state \in BOOLEAN, DoSetPowerState(state) PROVE Informed
<1>1. Operation /\ power' = state /\ steam' = steam
  BY PowerStep DEF DoSetPowerState, Operation
<1>2. Before  BY <1>1, OperationBefore
<1>3. Tell("power", state) /\ untold' = (untold \/ brewing' # brewing)
  BY DEF DoSetPowerState, BrewNotTold
<1> QED BY <1>1, <1>2, <1>3 DEF Informed, Before, Tell, View

LEMMA SteamInforms ==
    ASSUME IInv, NEW state \in BOOLEAN, DoSetSteamModeState(state) PROVE Informed
<1>1. /\ Operation /\ power' = power /\ brewing' = brewing
      /\ steam' = IF SetSteamRefused(state) THEN steam ELSE state
  BY SteamStep DEF DoSetSteamModeState, Operation
<1>2. Before  BY <1>1, OperationBefore
<1>3. untold' = (untold \/ brewing' # brewing)
  BY DEF DoSetSteamModeState, BrewNotTold
<1>4. CASE SetSteamRefused(state)
  <2>1. view' = view  BY <1>4 DEF DoSetSteamModeState
  <2> QED BY <1>1, <1>2, <1>3, <1>4, <2>1 DEF Informed, Before
<1>5. CASE ~SetSteamRefused(state)
  <2>1. Tell("steam", state)  BY <1>5 DEF DoSetSteamModeState
  <2> QED BY <1>1, <1>2, <1>3, <1>5, <2>1 DEF Informed, Before, Tell, View
<1> QED BY <1>4, <1>5

LEMMA StartInforms ==
    ASSUME IInv, DoStartBrew \/ RpcStartBrew PROVE Informed
<1>1. /\ Operation /\ power' = power /\ steam' = steam
      /\ ~StartBrewRefused => brewing'
  BY StartBrewStep DEF DoStartBrew, RpcStartBrew, Operation
<1>2. Before  BY <1>1, OperationBefore
<1>3. CASE RpcStartBrew
  <2>1. view' = view /\ untold' = (untold \/ brewing' # brewing)
    BY <1>3 DEF RpcStartBrew, BrewNotTold
  <2> QED BY <1>1, <1>2, <2>1 DEF Informed, Before
<1>4. CASE DoStartBrew /\ StartBrewRefused
  <2>1. view' = view /\ untold' = untold  BY <1>4 DEF DoStartBrew
  <2>2. brewing' = brewing
    BY <1>4 DEF DoStartBrew, StartBrew, StartBrewRefused, machineVars
  <2> QED BY <1>1, <1>2, <2>1, <2>2 DEF Informed, Before
<1>5. CASE DoStartBrew /\ ~StartBrewRefused
  <2>1. Tell("brew", TRUE) /\ untold' = FALSE /\ brewing' = TRUE
    BY <1>1, <1>2, <1>5 DEF DoStartBrew, BrewTold, Before
  <2> QED BY <1>1, <1>2, <2>1, ZenonT(60) DEF Informed, Before, Tell, View
<1> QED BY <1>3, <1>4, <1>5

LEMMA StopInforms ==
    ASSUME IInv, DoStopBrew \/ RpcStopBrew PROVE Informed
<1>1. Operation
  BY DEF DoStopBrew, RpcStopBrew, Operation
<1>2. Before  BY <1>1, OperationBefore
<1>3. CASE RpcStopBrew
  <2>1. /\ Tell("progress", 0) /\ untold' = (untold \/ brewing' # brewing)
        /\ power' = power /\ steam' = steam
    BY <1>3, StopBrewStep DEF RpcStopBrew, BrewNotTold
  <2> QED BY <1>1, <1>2, <2>1, DispatcherAssumption
    DEF Informed, Before, Tell, View
<1>4. CASE DoStopBrew /\ brewing
  <2>1. /\ Tell("brew", FALSE) /\ untold' = FALSE /\ brewing' = FALSE
        /\ power' = power /\ steam' = steam
    BY <1>2, <1>4, StopBrewStep DEF DoStopBrew, BrewTold, Before
  <2> QED BY <1>1, <1>2, <2>1, ZenonT(60) DEF Informed, Before, Tell, View
<1>5. CASE DoStopBrew /\ ~brewing
  <2>1. UNCHANGED <<power, steam, brewing, view, untold>>
    BY <1>5 DEF DoStopBrew, machineVars
  <2> QED BY <1>1, <1>2, <2>1 DEF Informed, Before
<1> QED BY <1>3, <1>4, <1>5

(* AfterTask keeps what is said of ends, as long as none is added.         *)
LEMMA EndsKeep ==
    ASSUME IInv, AfterTask, brewing' \in BOOLEAN, EndPending' => EndPending
    PROVE  EndInv' /\ ended' \in BOOLEAN /\ overtaken' \in BOOLEAN
<1>1. ended \in BOOLEAN /\ overtaken \in BOOLEAN
  BY TypeParts DEF IInv
<1>2. ended' = (ended /\ brewing')
  BY DEF AfterTask
<1>3. CASE brewing
  <2>1. overtaken' = (overtaken /\ brewing')  BY <1>3 DEF AfterTask
  <2> QED BY <1>1, <1>2, <1>3, <2>1 DEF IInv, EndInv
<1>4. CASE ~brewing
  <2>1. overtaken' = (brewing' /\ EndPending)  BY <1>4 DEF AfterTask, EndPending
  <2>2. brewing' /\ EndPending => overtaken'  BY <2>1
  <2>3. overtaken' \in BOOLEAN  BY <2>1
  <2> QED BY <1>1, <1>2, <2>2, <2>3 DEF EndInv
<1> QED BY <1>3, <1>4

(* A step that informs, of a task that the executor runs.                  *)
LEMMA InformedKeeps ==
    ASSUME IInv, Informed, KeepProfiles, AfterTask, up = "up",
           tasks' \in Seq(Tasks), reporting' = reporting, EndPending' => EndPending,
           final => UNCHANGED machineVars
    PROVE  IInv'
<1>1. /\ Operation /\ untold' \in BOOLEAN
      /\ view' \in [Sinks -> View \cup {None}]
  BY DEF Informed
<1>2. ManagersInv'  BY <1>1, OperationStep DEF IInv
<1>3. Before  BY <1>1, OperationBefore
<1>4. EndInv' /\ ended' \in BOOLEAN /\ overtaken' \in BOOLEAN
  BY <1>3, EndsKeep DEF Before
<1>5. UNCHANGED <<final, up, current, profileReply, settings, settingsReply>>
  BY DEF AfterTask, KeepProfiles, profileStore, settingsStore
<1>6. DispatcherTypeOK'
  <2>1. ProfilesTypeOK'  BY <1>2 DEF ManagersInv
  <2>2. final' \in BOOLEAN /\ reporting' \in Reporting
    BY <1>5, TypeParts DEF IInv
  <2> QED BY <2>1, <2>2, <1>1, <1>4 DEF DispatcherTypeOK, View, Reporting
<1>7. StreamsInv'
  <2>1. final' \/ up' # "up" => \A s \in Sinks : view'[s] = None
    BY <1>5 DEF Informed, IInv, StreamsInv
  <2>2. ASSUME NEW s \in Sinks, view'[s] # None
        PROVE  /\ view'[s].power = power' /\ view'[s].steam = steam'
               /\ view'[s].brew # brewing' => untold'
               /\ profileReply' = "OK" => view'[s].profile = current'
               /\ settingsReply' = "OK" => view'[s].settings = settings'
    BY <1>5, <2>2 DEF Informed, IInv, StreamsInv, Knows
  <2> QED BY <2>1, <2>2 DEF StreamsInv, Knows
<1>8. OffAfterFinal'
  <2>1. CASE final
    BY <1>5, <2>1 DEF IInv, OffAfterFinal, machineVars, heatVars
  <2>2. CASE ~final
    BY <1>5, <2>2 DEF OffAfterFinal
  <2> QED BY <2>1, <2>2
<1> QED BY <1>2, <1>4, <1>6, <1>7, <1>8 DEF IInv

-----------------------------------------------------------------------------
LEMMA CommandStep ==
    ASSUME IInv, Command
    PROVE  IInv'
<1>1. /\ up = "up" /\ ~final /\ AfterTask /\ KeepProfiles
      /\ UNCHANGED <<tasks, reporting>>
      /\ Button \/ UnaryCall
  BY DEF Command, Running
<1>2. power \in BOOLEAN /\ steam \in BOOLEAN
  BY DEF IInv, ManagersInv, ProfilesTypeOK, MachineTypeOK
<1>3. Informed
  <2>1. ASSUME NEW state \in BOOLEAN,
               DoSetPowerState(state) \/ DoSetSteamModeState(state)
        PROVE  Informed
    BY <2>1, PowerInforms, SteamInforms
  <2>2. CASE DoStartBrew \/ RpcStartBrew \/ DoStopBrew \/ RpcStopBrew
    BY <2>2, StartInforms, StopInforms
  <2>3. (~power) \in BOOLEAN /\ (~steam) \in BOOLEAN
    BY <1>2
  <2>4. CASE Toggle
    <3>1. CASE DoSetPowerState(~power)  BY <3>1, <2>1, <2>3
    <3>2. CASE DoSetSteamModeState(~steam)  BY <3>2, <2>1, <2>3
    <3>3. CASE DoStopBrew \/ DoStartBrew  BY <3>3, <2>2
    <3> QED BY <2>4, <3>1, <3>2, <3>3 DEF Toggle
  <2> QED BY <1>1, <2>1, <2>2, <2>4 DEF Button, UnaryCall
<1>4. tasks' \in Seq(Tasks)  BY <1>1, TypeParts DEF IInv
<1>5. EndPending' => EndPending  BY <1>1 DEF EndPending
<1> QED BY <1>1, <1>3, <1>4, <1>5, InformedKeeps

(* setBrewProfile and setUserSettings tell of what they have done.         *)
LEMMA SettingStep ==
    ASSUME IInv,
           \/ \E p \in Profiles : SetProfile(p)
           \/ \E t \in Temps : SetSettings(t)
    PROVE  IInv'
<1>1. /\ ManagersInv'
      /\ UNCHANGED <<power, steam, brewing, up>>
      /\ Running /\ AfterTask /\ UNCHANGED <<tasks, reporting, untold>>
  BY SetBrewProfileStep, SetUserSettingsStep DEF SetProfile, SetSettings, IInv
<1>2. /\ view \in [Sinks -> View \cup {None}]
      /\ tasks \in Seq(Tasks) /\ reporting \in Reporting
      /\ untold \in BOOLEAN /\ final \in BOOLEAN
  BY TypeParts DEF IInv
<1> DEFINE Informs ==
             /\ view' \in [Sinks -> View \cup {None}]
             /\ \A s \in Sinks : view'[s] # None =>
                  /\ view[s] # None
                  /\ view'[s].power = view[s].power
                  /\ view'[s].steam = view[s].steam
                  /\ view'[s].brew = view[s].brew
                  /\ profileReply' = "OK" => view'[s].profile = current'
                  /\ settingsReply' = "OK" => view'[s].settings = settings'
<1>3. Informs
  <2>1. ASSUME NEW p \in Profiles, SetProfile(p)
        PROVE  Informs
    <3>1. current' = p /\ UNCHANGED <<settings, settingsReply>>
      BY <2>1, SetBrewProfileStep DEF SetProfile, IInv
    <3>2. CASE profileReply' = "OK"
      <4>1. Tell("profile", p)  BY <2>1, <3>2 DEF SetProfile
      <4> QED BY <1>2, <3>1, <4>1 DEF Tell, View, IInv, StreamsInv, Knows
    <3>3. CASE profileReply' # "OK"
      <4>1. view' = view  BY <2>1, <3>3 DEF SetProfile
      <4> QED BY <1>2, <3>1, <3>3, <4>1 DEF IInv, StreamsInv, Knows
    <3> QED BY <3>2, <3>3
  <2>2. ASSUME NEW t \in Temps, SetSettings(t)
        PROVE  Informs
    <3>1. settings' = t /\ UNCHANGED <<current, profileReply>>
      BY <2>2, SetUserSettingsStep DEF SetSettings, IInv
    <3>2. CASE settingsReply' = "OK"
      <4>1. Tell("settings", t)  BY <2>2, <3>2 DEF SetSettings
      <4> QED BY <1>2, <3>1, <4>1 DEF Tell, View, IInv, StreamsInv, Knows
    <3>3. CASE settingsReply' # "OK"
      <4>1. view' = view  BY <2>2, <3>3 DEF SetSettings
      <4> QED BY <1>2, <3>1, <3>3, <4>1 DEF IInv, StreamsInv, Knows
    <3> QED BY <3>2, <3>3
  <2> QED BY <2>1, <2>2
<1>4. brewing' \in BOOLEAN
  BY <1>1 DEF ManagersInv, ProfilesTypeOK, MachineTypeOK
<1>5. EndInv' /\ ended' \in BOOLEAN /\ overtaken' \in BOOLEAN
  <2>1. EndPending' => EndPending  BY <1>1 DEF EndPending
  <2> QED BY <1>1, <1>4, <2>1, EndsKeep
<1>6. final' = final /\ ~final /\ up = "up"
  BY <1>1 DEF AfterTask, Running
<1>7. DispatcherTypeOK'
  BY <1>1, <1>2, <1>3, <1>5, <1>6
  DEF DispatcherTypeOK, ManagersInv, View, Reporting
<1>8. StreamsInv'
  <2>1. ASSUME NEW s \in Sinks, view'[s] # None
        PROVE  /\ view'[s].power = power' /\ view'[s].steam = steam'
               /\ view'[s].brew # brewing' => untold'
               /\ profileReply' = "OK" => view'[s].profile = current'
               /\ settingsReply' = "OK" => view'[s].settings = settings'
    BY <1>1, <1>3, <2>1 DEF IInv, StreamsInv, Knows
  <2> QED BY <1>1, <1>6, <2>1 DEF StreamsInv, Knows
<1>9. OffAfterFinal'  BY <1>6 DEF OffAfterFinal
<1> QED BY <1>1, <1>5, <1>7, <1>8, <1>9 DEF IInv

(* A callback of the profiler begins, or submits its task.                 *)
LEMMA CallbackStep ==
    ASSUME IInv, AutoStop \/ Report \/ \E i \in Steps : StepChange(i)
    PROVE  IInv'
<1>1. /\ UNCHANGED <<profilesVars, view, untold, overtaken, final>>
      /\ ended \in BOOLEAN => ended' \in BOOLEAN
  BY DEF AutoStop, StepChange, Report
<1>2. Operation /\ KeepProfiles
  BY <1>1 DEF profilesVars, Operation, KeepProfiles, profileStore, settingsStore
<1>3. ManagersInv'  BY <1>2, OperationStep DEF IInv
<1>4. tasks \in Seq(Tasks) /\ reporting \in Reporting
  BY TypeParts DEF IInv
<1>5. UNCHANGED <<power, steam, brewing, brewHeat, steamHeat, indicated, up,
                  current, profileReply, settings, settingsReply>>
  BY <1>1 DEF profilesVars, machineVars, heatVars, profileStore, settingsStore
<1>6. ASSUME Report
      PROVE  tasks' \in Seq(Tasks) /\ reporting' \in Reporting /\ EndInv'
  <2>1. PICK task \in Tasks : reporting = <<task>>
    BY <1>4, <1>6 DEF Report, Reporting
  <2>2. tasks' = Append(tasks, task) /\ reporting' = <<>> /\ ended' = ended
    BY <1>6, <2>1 DEF Report
  <2>3. /\ tasks' \in Seq(Tasks)
        /\ Len(tasks) \in Nat /\ Len(tasks') = Len(tasks) + 1
        /\ \A n \in 1 .. Len(tasks) : tasks'[n] = tasks[n]
        /\ tasks'[Len(tasks) + 1] = task
    BY <1>4, <2>2, AppendProperties
  <2>4. DOMAIN tasks = 1 .. Len(tasks) /\ DOMAIN tasks' = 1 .. Len(tasks) + 1
    BY <1>4, <2>3
  <2>5. EndPending' => EndPending
    BY <2>1, <2>2, <2>3, <2>4 DEF EndPending
  <2> QED BY <1>1, <1>5, <2>2, <2>3, <2>5 DEF IInv, EndInv, Reporting
<1>7. ASSUME AutoStop
      PROVE  tasks' \in Seq(Tasks) /\ reporting' \in Reporting /\ EndInv'
  <2>1. tasks' = tasks /\ reporting' = <<StopTask>> /\ ended' = TRUE
    BY <1>7 DEF AutoStop
  <2> QED BY <1>4, <2>1 DEF EndInv, Reporting, Tasks
<1>8. ASSUME NEW i \in Steps, StepChange(i)
      PROVE  tasks' \in Seq(Tasks) /\ reporting' \in Reporting /\ EndInv'
  <2>1. tasks' = tasks /\ reporting' = <<StepTask(i)>> /\ ended' = ended
    BY <1>8 DEF StepChange
  <2>2. StepTask(i) # StopTask  BY DEF StepTask, StopTask
  <2>3. EndPending' => EndPending  BY <2>1, <2>2 DEF EndPending
  <2> QED BY <1>1, <1>4, <1>5, <2>1, <2>3 DEF IInv, EndInv, Reporting, Tasks
<1>9. tasks' \in Seq(Tasks) /\ reporting' \in Reporting /\ EndInv'
  BY <1>6, <1>7, <1>8
<1>10. DispatcherTypeOK'
  BY <1>1, <1>3, <1>9, TypeParts
  DEF IInv, DispatcherTypeOK, ManagersInv, View, Reporting
<1>11. StreamsInv' /\ OffAfterFinal'
  BY <1>1, <1>5 DEF IInv, StreamsInv, Knows, OffAfterFinal
<1> QED BY <1>3, <1>9, <1>10, <1>11 DEF IInv

(* The executor runs a task of the profiler.                               *)
LEMMA RunTaskStep ==
    ASSUME IInv, RunTask
    PROVE  /\ IInv'
           /\ brewing /\ ~brewing' => ended \/ overtaken
<1>1. /\ up = "up" /\ tasks # <<>> /\ tasks' = Tail(tasks)
      /\ AfterTask /\ KeepProfiles /\ reporting' = reporting
  BY DEF RunTask
<1>2. /\ Head(tasks) = tasks[1] /\ Head(tasks) \in Tasks
      /\ tasks' \in Seq(Tasks) /\ Len(tasks') = Len(tasks) - 1
      /\ \A n \in 1 .. Len(tasks') : tasks'[n] = tasks[n + 1]
      /\ Len(tasks) \in Nat \ {0} /\ DOMAIN tasks = 1 .. Len(tasks)
  <2>1. tasks \in Seq(Tasks)  BY TypeParts DEF IInv
  <2> QED BY <2>1, <1>1, HeadTailProperties, HeadThenTail
<1>3. EndPending' => EndPending
  <2>1. DOMAIN tasks' = 1 .. Len(tasks')  BY <1>2
  <2>2. \A n \in 1 .. Len(tasks') : n + 1 \in 1 .. Len(tasks)  BY <1>2
  <2> QED BY <2>1, <2>2, <1>1, <1>2 DEF EndPending
<1>4. CASE Head(tasks) = StopTask
  <2>1. DoStopBrew  BY <1>4 DEF RunTask
  <2>2. Informed  BY <2>1, StopInforms
  <2>3. final => UNCHANGED machineVars
    BY <2>1 DEF DoStopBrew, IInv, OffAfterFinal
  <2>4. IInv'  BY <1>1, <1>2, <1>3, <2>2, <2>3, InformedKeeps
  <2>5. EndPending  BY <1>2, <1>4 DEF EndPending
  <2> QED BY <2>4, <2>5 DEF IInv, EndInv
<1>5. CASE Head(tasks) # StopTask
  <2>1. /\ Tell("progress", Head(tasks).index)
        /\ UNCHANGED <<machineVars, untold>>
    BY <1>5 DEF RunTask
  <2>2. Head(tasks).index \in Steps
    BY <1>2, <1>5 DEF Tasks, StepTask
  <2>3. Operation  BY <2>1 DEF Operation
  <2>4. Before  BY <2>3, OperationBefore
  <2>5. UNCHANGED <<power, steam, brewing>>  BY <2>1 DEF machineVars
  <2>6. Informed
    BY <2>1, <2>2, <2>3, <2>4, <2>5 DEF Informed, Before, Tell, View
  <2>7. IInv'  BY <1>1, <1>2, <1>3, <2>1, <2>6, InformedKeeps
  <2> QED BY <2>5, <2>7
<1> QED BY <1>4, <1>5

(* A stream joins or leaves.                                               *)
LEMMA SinkStep ==
    ASSUME IInv, \E s \in Sinks : AddSink(s) \/ RemoveSink(s)
    PROVE  IInv'
<1>1. /\ UNCHANGED <<profilesVars, tasks, reporting, ended, untold, overtaken,
                      final>>
      /\ up = "up" /\ ~final
  BY DEF AddSink, RemoveSink, Running
<1>2. Operation /\ KeepProfiles
  BY <1>1 DEF profilesVars, Operation, KeepProfiles, profileStore, settingsStore
<1>3. ManagersInv'  BY <1>2, OperationStep DEF IInv
<1>4. UNCHANGED <<power, steam, brewing, up, current, profileReply, settings,
                  settingsReply>>
  BY <1>1 DEF profilesVars, machineVars, profileStore, settingsStore
<1> DEFINE new == [power |-> power, brew |-> brewing, steam |-> steam,
                   progress |-> 0, profile |-> current, settings |-> settings]
<1>5. new \in View
  BY DispatcherAssumption
  DEF IInv, ManagersInv, ProfilesTypeOK, MachineTypeOK, View
<1>6. PICK s \in Sinks :
        view' = [view EXCEPT ![s] = new] \/ view' = [view EXCEPT ![s] = None]
  BY DEF AddSink, RemoveSink
<1>7. view \in [Sinks -> View \cup {None}]  BY TypeParts DEF IInv
<1>8. view' \in [Sinks -> View \cup {None}]  BY <1>5, <1>6, <1>7
<1>9. Knows(new)  BY DEF Knows
<1>10. \A x \in Sinks : view'[x] # None => Knows(view'[x])
  BY <1>6, <1>7, <1>9 DEF IInv, StreamsInv
<1>11. StreamsInv'
  BY <1>1, <1>4, <1>10 DEF StreamsInv, Knows
<1>12. DispatcherTypeOK'
  BY <1>1, <1>3, <1>8, TypeParts
  DEF IInv, DispatcherTypeOK, ManagersInv, View, Reporting
<1>13. OffAfterFinal' /\ EndInv'
  BY <1>1, <1>4 DEF IInv, OffAfterFinal, EndInv, EndPending
<1> QED BY <1>3, <1>11, <1>12, <1>13 DEF IInv

(* The destructor's task switches everything off.                          *)
LEMMA FinalStep ==
    ASSUME IInv, Final
    PROVE  IInv'
<1>1. /\ up = "up" /\ \A s \in Sinks : view[s] = None
      /\ final' = TRUE /\ ended' = FALSE /\ overtaken' = FALSE
      /\ KeepProfiles /\ UNCHANGED <<tasks, reporting, view, untold>>
      /\ IF power THEN PowerOff(4) ELSE StopBrew
  BY DEF Final, Running
<1>2. Operation
  <2>1. PowerOff(4) => power  BY DEF PowerOff
  <2>2. 4 \in Upto(4)  BY Completed
  <2>3. PowerOff(4) => SetPowerState(FALSE)  BY <2>2 DEF SetPowerState
  <2> QED BY <1>1, <2>3 DEF Operation
<1>3. ManagersInv'  BY <1>1, <1>2, OperationStep DEF IInv
<1>4. ~power' /\ ~brewing' /\ ~brewHeat' /\ ~steamHeat' /\ indicated' = None
  <2>1. CASE power
    <3>1. /\ brewing' = (brewing /\ 4 < 1)
          /\ steamHeat' = (steamHeat /\ 4 < 2)
          /\ brewHeat' = (brewHeat /\ 4 < 3)
          /\ indicated' = IF 4 < 3 THEN indicated ELSE None
          /\ power' = (4 < 4)
      BY <1>1, <2>1 DEF PowerOff
    <3>2. ~(4 < 1) /\ ~(4 < 2) /\ ~(4 < 3) /\ ~(4 < 4)
      OBVIOUS
    <3> QED BY ONLY <3>1, <3>2, Zenon
  <2>2. CASE ~power
    <3>1. /\ ~brewing /\ indicated = None
          /\ brewHeat = (power /\ ~steam) /\ steamHeat = (power /\ steam)
      BY <2>2 DEF IInv, ManagersInv, WholeInv, MendedInv, SafeInv, Good,
         BrewingInBrewMode, HeatersFollowMode, IndicationFollowsController
    <3>2. UNCHANGED machineVars  BY <1>1, <2>2, <3>1 DEF StopBrew
    <3> QED BY <2>2, <3>1, <3>2 DEF machineVars, heatVars
  <2> QED BY <2>1, <2>2
<1>5. DispatcherTypeOK'
  BY <1>1, <1>3, TypeParts
  DEF IInv, DispatcherTypeOK, ManagersInv, View, Reporting
<1>6. StreamsInv' /\ OffAfterFinal' /\ EndInv'
  BY <1>1, <1>4 DEF StreamsInv, OffAfterFinal, EndInv
<1> QED BY <1>3, <1>5, <1>6 DEF IInv

(* The daemon ends, in order or by a crash, and starts again.              *)
LEMMA DaemonStep ==
    ASSUME IInv, Exit \/ CrashAll \/ StartAll
    PROVE  IInv'
<1>1. Crash \/ Start \/ StartFails
  BY DEF Exit, CrashAll, StartAll, Crash, profileStore, settingsStore
<1>2. ManagersInv'  BY <1>1, LifeStep DEF IInv
<1>3. \A s \in Sinks : view'[s] = None
  <2>1. CASE CrashAll  BY <2>1 DEF CrashAll
  <2>2. CASE Exit  BY <2>2 DEF Exit, IInv, StreamsInv
  <2>3. CASE StartAll
    <3>1. up # "up" /\ view' = view
      BY <2>3 DEF StartAll, Start, StartFails
    <3> QED BY <3>1 DEF IInv, StreamsInv
  <2> QED BY <2>1, <2>2, <2>3
<1>4. /\ tasks' \in {tasks, <<>>} /\ reporting' \in {reporting, <<>>}
      /\ view' \in [Sinks -> View \cup {None}]
      /\ ended' \in BOOLEAN /\ untold' \in BOOLEAN
      /\ overtaken' \in BOOLEAN /\ final' \in BOOLEAN
  BY TypeParts DEF IInv, Exit, CrashAll, StartAll
<1>5. DispatcherTypeOK'
  <2>1. tasks' \in Seq(Tasks) /\ reporting' \in Reporting
    <3>1. <<>> \in Seq(Tasks) /\ <<>> \in Reporting  BY DEF Reporting
    <3>2. tasks \in Seq(Tasks) /\ reporting \in Reporting
      BY TypeParts DEF IInv
    <3> QED BY <1>4, <3>1, <3>2
  <2> QED BY <1>2, <1>4, <2>1 DEF DispatcherTypeOK, ManagersInv, View, Reporting
<1>6. StreamsInv'  BY <1>3 DEF StreamsInv
<1>7. OffAfterFinal'
  <2>1. CASE StartAll  BY <2>1 DEF StartAll, OffAfterFinal
  <2>2. CASE Exit \/ CrashAll
    BY <2>2 DEF Exit, CrashAll, Crash, IInv, OffAfterFinal, machineVars, heatVars
  <2> QED BY <2>1, <2>2
<1>8. EndInv'
  <2>1. CASE CrashAll
    <3>1. ~EndPending'  BY <2>1 DEF CrashAll, EndPending
    <3> QED BY <3>1 DEF EndInv
  <2>2. CASE Exit \/ (StartAll /\ StartFails)
    <3>1. UNCHANGED <<brewing, tasks, reporting, ended, overtaken>>
      BY <2>2 DEF Exit, StartAll, StartFails, machineVars
    <3> QED BY <3>1 DEF IInv, EndInv, EndPending
  <2>3. CASE StartAll /\ Start
    BY <2>3 DEF Start, EndInv
  <2> QED BY <2>1, <2>2, <2>3 DEF StartAll
<1> QED BY <1>2, <1>5, <1>6, <1>7, <1>8 DEF IInv

LEMMA NextIInv == IInv /\ [DispatcherNext]_dispatcherVars => IInv'
<1> SUFFICES ASSUME IInv, [DispatcherNext]_dispatcherVars PROVE IInv'
  OBVIOUS
<1>1. CASE UNCHANGED dispatcherVars
  <2>1. Operation /\ KeepProfiles
    BY <1>1 DEF dispatcherVars, profilesVars, Operation, KeepProfiles,
                profileStore, settingsStore
  <2>2. ManagersInv'  BY <2>1, OperationStep DEF IInv
  <2>3. UNCHANGED <<tasks, reporting, ended, view, untold, overtaken, final,
                    power, steam, brewing, brewHeat, steamHeat, indicated, up, current,
                    profileReply, settings, settingsReply>>
    BY <1>1 DEF dispatcherVars, profilesVars, machineVars, heatVars,
                profileStore, settingsStore
  <2>4. DispatcherTypeOK'
    BY <2>2, <2>3 DEF IInv, DispatcherTypeOK, ManagersInv
  <2>5. StreamsInv' /\ OffAfterFinal' /\ EndInv'
    BY <2>3 DEF IInv, StreamsInv, Knows, OffAfterFinal, EndInv, EndPending
  <2> QED BY <2>2, <2>4, <2>5 DEF IInv
<1>2. CASE DispatcherNext
  BY <1>2, CommandStep, SettingStep, CallbackStep, RunTaskStep, SinkStep,
     FinalStep, DaemonStep DEF DispatcherNext
<1> QED BY <1>1, <1>2

LEMMA DispatcherInvariant == DispatcherSpec => []IInv
BY InitIInv, NextIInv, PTL DEF DispatcherSpec

(* The tasks, the streams and what the managers hold keep their types.     *)
THEOREM DispatcherTypes == DispatcherSpec => []DispatcherTypeOK
<1>1. IInv => DispatcherTypeOK  BY DEF IInv
<1> QED BY <1>1, DispatcherInvariant, PTL

(* Whichever way the power and the mode are switched, and whatever was     *)
(* refused, every stream in m_eventsSinks knows both.                      *)
THEOREM ModeIsKnown == DispatcherSpec => []StreamsKnowMode
<1>1. IInv => StreamsKnowMode
  BY DEF IInv, StreamsInv, Knows, StreamsKnowMode, Told
<1> QED BY <1>1, DispatcherInvariant, PTL

(* A stream is wrong about the brew only after a start or stop that tells  *)
(* no stream: by a gRPC call or by a power-off.                            *)
THEOREM BrewIsKnown == DispatcherSpec => []StreamsKnowBrew
<1>1. IInv => StreamsKnowBrew
  BY DEF IInv, StreamsInv, Knows, StreamsKnowBrew, Told
<1> QED BY <1>1, DispatcherInvariant, PTL

(* After an answer OK every stream has the profile and the settings that   *)
(* the machine uses.                                                       *)
THEOREM ProfileIsKnown == DispatcherSpec => []StreamsKnowProfile
<1>1. ASSUME IInv, NEW s \in Sinks, view[s] # None
      PROVE  /\ profileReply = "OK" => view[s].profile = current /\ steps = current
             /\ settingsReply = "OK" => view[s].settings = steamTarget
  <2>1. up = "up" /\ Knows(view[s])  BY <1>1 DEF IInv, StreamsInv
  <2> QED BY <1>1, <2>1 DEF IInv, ManagersInv, AnsweredIsApplied, Knows
<1>2. IInv => StreamsKnowProfile
  BY <1>1 DEF StreamsKnowProfile, Told
<1> QED BY <1>2, DispatcherInvariant, PTL

(* Nothing heats or brews once the task of ~AsyncEventDispatcher has run,   *)
(* though the executor still drains what was submitted.                    *)
THEOREM NothingOnAfterFinal == DispatcherSpec => []OffAfterFinal
<1>1. IInv => OffAfterFinal  BY DEF IInv
<1> QED BY <1>1, DispatcherInvariant, PTL

(* The task that ends a brew stops the brew it was submitted for, or one    *)
(* that was started while it waited or was about to be submitted.          *)
THEOREM EndsItsOwnBrew == DispatcherSpec => StoppedForOwnEnd
<1>1. IInv /\ [DispatcherNext]_dispatcherVars =>
        [RunTask /\ brewing /\ ~brewing' => ended \/ overtaken]_dispatcherVars
  BY RunTaskStep
<1> QED BY <1>1, DispatcherInvariant, PTL DEF DispatcherSpec, StoppedForOwnEnd

-----------------------------------------------------------------------------
(* To the machine, the files and the managers the dispatcher does nothing   *)
(* but what Profiles lets its clients do: what is proved of ProfilesSpec    *)
(* holds with the executor's tasks, the profiler and the destructor too.   *)
LEMMA OperationIsProfiles ==
    ASSUME Operation, KeepProfiles, up = "up" PROVE [ProfilesNext]_profilesVars
BY DEF Operation, KeepProfiles, Operate, ProfilesNext, profilesVars

LEMMA CommandIsProfiles == Command => [ProfilesNext]_profilesVars
<1> SUFFICES ASSUME Command PROVE [ProfilesNext]_profilesVars
  OBVIOUS
<1>1. up = "up" /\ KeepProfiles /\ (Button \/ UnaryCall)
  BY DEF Command, Running
<1>2. Operation
  <2>1. ASSUME NEW state \in BOOLEAN,
               DoSetPowerState(state) \/ DoSetSteamModeState(state)
        PROVE  Operation
    BY <2>1 DEF DoSetPowerState, DoSetSteamModeState, Operation
  <2>2. CASE DoStartBrew \/ RpcStartBrew \/ DoStopBrew \/ RpcStopBrew
    BY <2>2 DEF DoStartBrew, RpcStartBrew, DoStopBrew, RpcStopBrew, Operation
  <2>3. (~power) \in BOOLEAN /\ (~steam) \in BOOLEAN
    OBVIOUS
  <2>4. CASE Toggle
    <3>1. CASE DoSetPowerState(~power)  BY <3>1, <2>1, <2>3
    <3>2. CASE DoSetSteamModeState(~steam)  BY <3>2, <2>1, <2>3
    <3>3. CASE DoStopBrew \/ DoStartBrew  BY <3>3, <2>2
    <3> QED BY <2>4, <3>1, <3>2, <3>3 DEF Toggle
  <2> QED BY <1>1, <2>1, <2>2, <2>4 DEF Button, UnaryCall
<1> QED BY <1>1, <1>2, OperationIsProfiles

LEMMA TaskIsProfiles == RunTask \/ Final => [ProfilesNext]_profilesVars
<1>1. ASSUME RunTask PROVE [ProfilesNext]_profilesVars
  <2>1. up = "up" /\ KeepProfiles  BY <1>1 DEF RunTask
  <2>2. Operation  BY <1>1 DEF RunTask, DoStopBrew, Operation
  <2> QED BY <2>1, <2>2, OperationIsProfiles
<1>2. ASSUME Final PROVE [ProfilesNext]_profilesVars
  <2>1. up = "up" /\ KeepProfiles /\ IF power THEN PowerOff(4) ELSE StopBrew
    BY <1>2 DEF Final, Running
  <2>2. 4 \in Upto(4)  BY Completed
  <2>3. PowerOff(4) => SetPowerState(FALSE)  BY <2>2 DEF SetPowerState
  <2>4. Operation  BY <2>1, <2>3 DEF Operation
  <2> QED BY <2>1, <2>4, OperationIsProfiles
<1> QED BY <1>1, <1>2

LEMMA StepIsProfiles ==
    [DispatcherNext]_dispatcherVars => [ProfilesNext]_profilesVars
<1> SUFFICES ASSUME [DispatcherNext]_dispatcherVars PROVE [ProfilesNext]_profilesVars
  OBVIOUS
<1>1. CASE \/ \E p \in Profiles : SetProfile(p)
           \/ \E t \in Temps : SetSettings(t)
  BY <1>1 DEF SetProfile, SetSettings, ProfilesNext
<1>2. CASE \/ (\E i \in Steps : StepChange(i)) \/ AutoStop \/ Report
           \/ (\E s \in Sinks : AddSink(s) \/ RemoveSink(s))
           \/ UNCHANGED dispatcherVars
  BY <1>2 DEF StepChange, AutoStop, Report, AddSink, RemoveSink, dispatcherVars
<1>3. CASE Exit \/ CrashAll \/ StartAll
  <2>1. Crash \/ Start \/ StartFails
    BY <1>3 DEF Exit, CrashAll, StartAll, Crash, profileStore, settingsStore
  <2> QED BY <2>1 DEF ProfilesNext
<1> QED BY <1>1, <1>2, <1>3, CommandIsProfiles, TaskIsProfiles DEF DispatcherNext

(* Every behaviour of the dispatcher is one of the managers over their      *)
(* files and the machine; its orderly exit, which saves nothing, looks to  *)
(* them like a crash between two saves.                                    *)
THEOREM ImplementsProfiles == DispatcherSpec => ProfilesSpec
<1>1. DispatcherInit => ProfilesInit  BY DEF DispatcherInit
<1> QED BY <1>1, StepIsProfiles, PTL DEF DispatcherSpec, ProfilesSpec
=============================================================================
