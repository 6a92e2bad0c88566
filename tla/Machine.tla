------------------------------- MODULE Machine -------------------------------
(***************************************************************************)
(* StateManager: power, steam mode and brewing, over the components of     *)
(* libopenpresso it drives (a brew profiler, two temperature controllers,  *)
(* a scale) and the status manager that indicates the heating status.      *)
(*                                                                         *)
(* The executor runs one operation at a time, so an operation is one step. *)
(* A call into the library may throw and leave the operation half done:    *)
(* Upto(n) is how many of an operation's n calls are carried out, all of   *)
(* them unless MayThrow.  An operation that refuses changes nothing.       *)
(* The history variable broken tells whether an operation that was left    *)
(* half done may still show.                                               *)
(***************************************************************************)
EXTENDS Naturals

CONSTANTS Temps,     \* target temperatures
          Profiles,  \* sequences of brew steps with their auto stop condition
          None,      \* nothing indicated
          MayThrow   \* the library's calls may throw

ASSUME MachineAssumption ==
    /\ Temps # {} /\ Profiles # {}
    /\ MayThrow \in BOOLEAN
    /\ None \notin [mode : {"brew", "steam"}, target : Temps]

VARIABLES
    power,        \* m_power
    steam,        \* m_steam
    brewing,      \* m_brewProfiler is active
    brewHeat,     \* m_brewTemperatureController is active
    steamHeat,    \* m_steamController is active
    brewTarget,   \* target of the brew temperature controller
    steamTarget,  \* target of the steam controller
    steps,        \* profile whose steps the profiler holds
    autoStop,     \* profile whose auto stop condition the profiler holds
    indicated,    \* mode and target of the status manager's callback, or None
    timer,        \* m_brewTimer: "zero", "running", "stopped"
    broken        \* history: an operation was left half done, and the machine
                  \* has not been switched off completely since

heatVars == <<brewHeat, steamHeat>>
targetVars == <<brewTarget, steamTarget>>
profileVars == <<steps, autoStop>>
machineVars == <<power, steam, brewing, heatVars, targetVars, profileVars,
                 indicated, timer, broken>>

(* The steam switch may already be on when the daemon starts.              *)
MachineInit ==
    /\ power = FALSE
    /\ steam \in BOOLEAN
    /\ brewing = FALSE
    /\ brewHeat = FALSE
    /\ steamHeat = FALSE
    /\ brewTarget \in Temps
    /\ steamTarget \in Temps
    /\ steps \in Profiles
    /\ autoStop = steps
    /\ indicated = None
    /\ timer = "zero"
    /\ broken = FALSE

Upto(n) == IF MayThrow THEN 0..n ELSE {n}

Break(halfDone) == broken' = (broken \/ halfDone)

Indication(mode, target) == [mode |-> mode, target |-> target]

\* What is indicated with the power on, in steam mode and otherwise.
ModeIndication(state) == IF state THEN Indication("steam", steamTarget)
                                  ELSE Indication("brew", brewTarget)

-----------------------------------------------------------------------------
(* Slips: operations below with a mistake this code could make.  No         *)
(* specification uses them.                                                *)

\* The steam controller is forgotten.
PowerOffKeepingSteam(done) ==
    /\ power
    /\ brewing' = (brewing /\ done < 1)
    /\ brewHeat' = (brewHeat /\ done < 3)
    /\ indicated' = IF done < 3 THEN indicated ELSE None
    /\ timer' = IF done < 4 THEN timer ELSE "zero"
    /\ power' = (done < 4)
    /\ broken' = (done < 4 /\ (broken \/ done > 0))
    /\ UNCHANGED <<steam, steamHeat, targetVars, profileVars>>

\* m_power is written first, before the calls that may throw.
PowerOffFlagFirst(done) ==
    /\ power
    /\ brewing' = (brewing /\ done < 1)
    /\ steamHeat' = (steamHeat /\ done < 2)
    /\ brewHeat' = (brewHeat /\ done < 3)
    /\ indicated' = IF done < 3 THEN indicated ELSE None
    /\ timer' = IF done < 4 THEN timer ELSE "zero"
    /\ power' = FALSE
    /\ broken' = (done < 4)
    /\ UNCHANGED <<steam, targetVars, profileVars>>

\* The timer keeps running when the power goes off during a brew.
PowerOffKeepingTimer(done) ==
    /\ power
    /\ brewing' = (brewing /\ done < 1)
    /\ steamHeat' = (steamHeat /\ done < 2)
    /\ brewHeat' = (brewHeat /\ done < 3)
    /\ indicated' = IF done < 3 THEN indicated ELSE None
    /\ power' = (done < 4)
    /\ broken' = (done < 4 /\ (broken \/ done > 0))
    /\ UNCHANGED <<steam, targetVars, profileVars, timer>>

\* The target changes in the controller and not in the indication.
SetSteamTemperatureSilently(t) ==
    /\ steamTarget' = t
    /\ UNCHANGED <<power, steam, brewing, heatVars, brewTarget, profileVars,
                   indicated, timer, broken>>

-----------------------------------------------------------------------------
(* setPowerState.  Off: profiler, steam controller, brew controller, status*)
(* manager, then the timer and m_power.  All of it leaves nothing on that  *)
(* an earlier failure has left behind.                                     *)
PowerOff(done) ==
    /\ power
    /\ brewing' = (brewing /\ done < 1)
    /\ steamHeat' = (steamHeat /\ done < 2)
    /\ brewHeat' = (brewHeat /\ done < 3)
    /\ indicated' = IF done < 3 THEN indicated ELSE None
    /\ timer' = IF done < 4 THEN timer ELSE "zero"
    /\ power' = (done < 4)
    /\ broken' = (done < 4 /\ (broken \/ done > 0))
    /\ UNCHANGED <<steam, targetVars, profileVars>>

(* On: the controller of the current mode, its indication, then m_power.   *)
PowerOn(done) ==
    /\ ~power
    /\ brewHeat' = (brewHeat \/ (~steam /\ done >= 1))
    /\ steamHeat' = (steamHeat \/ (steam /\ done >= 1))
    /\ indicated' = IF done = 0 THEN indicated
                    ELSE IF done = 1 THEN None
                    ELSE ModeIndication(steam)
    /\ power' = (done = 2)
    /\ Break(done = 1)
    /\ UNCHANGED <<steam, brewing, targetVars, profileVars, timer>>

SetPowerState(state) ==
    \/ power = state /\ UNCHANGED machineVars
    \/ ~state /\ \E done \in Upto(4) : PowerOff(done)
    \/ state /\ \E done \in Upto(2) : PowerOn(done)

-----------------------------------------------------------------------------
(* startBrew throws with the power off and in steam mode.                  *)
StartBrewRefused == ~brewing /\ (~power \/ steam)

StartBrew ==
    IF brewing \/ StartBrewRefused
    THEN UNCHANGED machineVars
    ELSE \E done \in Upto(1) :
           /\ brewing' = (done = 1)
           /\ timer' = IF done = 1 THEN "running" ELSE timer
           /\ UNCHANGED <<power, steam, heatVars, targetVars, profileVars,
                          indicated, broken>>

(* stopBrew stops the timer before it deactivates the profiler.            *)
StopBrew ==
    IF ~brewing
    THEN UNCHANGED machineVars
    ELSE \E done \in Upto(1) :
           /\ timer' = "stopped"
           /\ brewing' = (done = 0)
           /\ Break(done = 0)
           /\ UNCHANGED <<power, steam, heatVars, targetVars, profileVars, indicated>>

-----------------------------------------------------------------------------
(* setSteamModeState throws while brewing.                                 *)
SetSteamRefused(state) == steam # state /\ brewing

(* With the power on the old controller stops before the new one starts,   *)
(* then the indication changes; m_steam is written last.                   *)
SwapControllers(state, done) ==
    /\ brewHeat' = IF state THEN brewHeat /\ done < 1 ELSE brewHeat \/ done >= 2
    /\ steamHeat' = IF state THEN steamHeat \/ done >= 2 ELSE steamHeat /\ done < 1
    /\ indicated' = IF done < 2 THEN indicated
                    ELSE IF done = 2 THEN None
                    ELSE ModeIndication(state)
    /\ steam' = IF done = 3 THEN state ELSE steam
    /\ Break(done \in 1..2)

SetSteamModeState(state) ==
    IF steam = state \/ SetSteamRefused(state)
    THEN UNCHANGED machineVars
    ELSE /\ IF power
            THEN \E done \in Upto(3) : SwapControllers(state, done)
            ELSE steam' = state /\ UNCHANGED <<heatVars, indicated, broken>>
         /\ UNCHANGED <<power, brewing, targetVars, profileVars, timer>>

-----------------------------------------------------------------------------
(* setBrewTemperature and setSteamTemperature indicate the new target when *)
(* it is the one in use.                                                   *)
SetBrewTemperature(t) ==
    \E done \in Upto(2) :
        /\ brewTarget' = IF done >= 1 THEN t ELSE brewTarget
        /\ indicated' = IF steam \/ ~power \/ done = 0 THEN indicated
                        ELSE IF done = 1 THEN None
                        ELSE Indication("brew", t)
        /\ Break(power /\ ~steam /\ done = 1)
        /\ UNCHANGED <<power, steam, brewing, heatVars, steamTarget,
                       profileVars, timer>>

SetSteamTemperature(t) ==
    \E done \in Upto(2) :
        /\ steamTarget' = IF done >= 1 THEN t ELSE steamTarget
        /\ indicated' = IF ~steam \/ ~power \/ done = 0 THEN indicated
                        ELSE IF done = 1 THEN None
                        ELSE Indication("steam", t)
        /\ Break(power /\ steam /\ done = 1)
        /\ UNCHANGED <<power, steam, brewing, heatVars, brewTarget,
                       profileVars, timer>>

(* setBrewSteps and setAutoStopCondition throw while brewing; so does      *)
(* resetScales, whose tare is not part of this state.                      *)
SetBrewSteps(p) ==
    /\ steps' = IF brewing THEN steps ELSE p
    /\ UNCHANGED <<power, steam, brewing, heatVars, targetVars, autoStop,
                   indicated, timer, broken>>

SetAutoStopCondition(p) ==
    /\ autoStop' = IF brewing THEN autoStop ELSE p
    /\ UNCHANGED <<power, steam, brewing, heatVars, targetVars, steps,
                   indicated, timer, broken>>

MachineNext ==
    \/ \E state \in BOOLEAN : SetPowerState(state) \/ SetSteamModeState(state)
    \/ StartBrew
    \/ StopBrew
    \/ \E t \in Temps : SetBrewTemperature(t) \/ SetSteamTemperature(t)
    \/ \E p \in Profiles : SetBrewSteps(p) \/ SetAutoStopCondition(p)

MachineSpec == MachineInit /\ [][MachineNext]_machineVars

-----------------------------------------------------------------------------
MachineTypeOK ==
    /\ power \in BOOLEAN
    /\ steam \in BOOLEAN
    /\ brewing \in BOOLEAN
    /\ brewHeat \in BOOLEAN
    /\ steamHeat \in BOOLEAN
    /\ brewTarget \in Temps
    /\ steamTarget \in Temps
    /\ steps \in Profiles
    /\ autoStop \in Profiles
    /\ indicated \in [mode : {"brew", "steam"}, target : Temps] \cup {None}
    /\ timer \in {"zero", "running", "stopped"}
    /\ broken \in BOOLEAN

(* Exactly the controller of the current mode heats, and only with the      *)
(* power on: always, but for the time between an operation that a call      *)
(* left half done and the next completed power-off.                        *)
HeatersFollowMode ==
    ~broken => brewHeat = (power /\ ~steam) /\ steamHeat = (power /\ steam)

(* The heating status is indicated for the mode in use and for the target   *)
(* its controller has, with the same exception.                            *)
IndicationFollowsController ==
    ~broken => indicated = IF power THEN ModeIndication(steam) ELSE None

(* The brew timer runs during a brew and at no other time, with the same     *)
(* exception.                                                              *)
TimerFollowsBrewing == ~broken => (timer = "running" <=> brewing)

(* Even when calls throw half way, a brew runs only with the power on and  *)
(* outside of steam mode.                                                  *)
BrewingInBrewMode == brewing => power /\ ~steam

(* Even when calls throw half way, the power is reported off only once     *)
(* nothing heats, brews, is timed or is indicated any more.                *)
PowerOffStopsEverything ==
    [][power /\ ~power' =>
         /\ ~brewing' /\ ~brewHeat' /\ ~steamHeat'
         /\ indicated' = None
         /\ timer' = "zero"]_machineVars
==============================================================================
