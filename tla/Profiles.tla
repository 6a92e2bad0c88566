------------------------------ MODULE Profiles -------------------------------
(***************************************************************************)
(* BrewProfileManager and UserSettingsManager over the StateManager, their *)
(* two files, and the daemon's start: what was saved is loaded, or the     *)
(* default where that fails, and applied before anything else runs.  The   *)
(* daemon may crash between any two steps and while a file is written.     *)
(*                                                                         *)
(* Saving truncates the file and then writes it; a crash, or an error the  *)
(* stream reports too late, leaves a file that does not parse (Torn).      *)
(***************************************************************************)
EXTENDS Machine

CONSTANTS
    TempOf,          \* temperature of each profile
    BadSteps,        \* profiles with a step without a target or condition
    BadStop,         \* profiles with an unknown stop condition
    DefaultProfile,  \* makeDefaultProfile: from the configuration
    DefaultSteam,    \* makeDefaultSettings: the configured steam temperature
    Absent, Torn     \* no file, a file that does not parse

ASSUME ProfilesAssumption ==
    /\ TempOf \in [Profiles -> Temps]
    /\ BadSteps \subseteq Profiles /\ BadStop \subseteq Profiles
    /\ DefaultProfile \in Profiles \ (BadSteps \cup BadStop)
    /\ DefaultSteam \in Temps
    /\ {Absent, Torn} \cap (Profiles \cup Temps) = {}

(* Here and in what extends this module the library's calls do not throw.   *)
(* How Machine fares when they do is Machine's own matter.                 *)
ASSUME NoThrowAssumption == ~MayThrow

VARIABLES
    up,             \* "up", "down", or "failed": the constructor threw
    current,        \* BrewProfileManager::m_currentProfile
    profileFile,    \* the brew profile file
    profileReply,   \* how the last setBrewProfile was answered
    settings,       \* UserSettingsManager: the current steam temperature
    settingsFile,   \* the user settings file
    settingsReply   \* how the last setUserSettings was answered

profileStore == <<current, profileFile, profileReply>>
settingsStore == <<settings, settingsFile, settingsReply>>
profilesVars == <<machineVars, up, profileStore, settingsStore>>

(* First start: no files yet.                                              *)
ProfilesInit ==
    /\ MachineInit
    /\ up = "down"
    /\ current = DefaultProfile
    /\ profileFile = Absent
    /\ profileReply = "OK"
    /\ settings = DefaultSteam
    /\ settingsFile = Absent
    /\ settingsReply = "OK"

-----------------------------------------------------------------------------
\* A slip: the steps of a running brew may be replaced.
StepsRefusedForBadOnly(p) == p \in BadSteps

(* setBrewSteps throws while brewing, and so does reading a bad step.      *)
StepsRefused(p) == brewing \/ p \in BadSteps
ApplyRefused(p) == StepsRefused(p) \/ p \in BadStop

(* applyBrewProfile: the temperature at once, the steps unless they are    *)
(* refused, the auto stop condition unless anything was.                   *)
ApplyBrewProfile(p) ==
    /\ brewTarget' = TempOf[p]
    /\ steps' = IF StepsRefused(p) THEN steps ELSE p
    /\ autoStop' = IF ApplyRefused(p) THEN autoStop ELSE p
    /\ indicated' = IF power /\ ~steam THEN Indication("brew", TempOf[p])
                    ELSE indicated
    /\ UNCHANGED <<power, steam, brewing, heatVars, steamTarget, timer,
                   broken>>

(* What writing c over old leaves in the file and reports: the file may    *)
(* not open; it is truncated when it does; and an error of the buffer that *)
(* only the destructor flushes goes unnoticed.                             *)
Written(old, c) ==
    {[file |-> c, ok |-> TRUE], [file |-> old, ok |-> FALSE],
     [file |-> Torn, ok |-> FALSE], [file |-> Torn, ok |-> TRUE]}

Reply(ok) == IF ok THEN "OK" ELSE "ABORTED"

\* A slip: the exception is answered OK.
SetBrewProfileAlwaysOK(p) ==
    /\ up = "up"
    /\ current' = p
    /\ \E w \in Written(profileFile, p) :
         /\ profileFile' = w.file
         /\ profileReply' = "OK"
         /\ IF w.ok THEN ApplyBrewProfile(p) ELSE UNCHANGED machineVars
    /\ UNCHANGED <<up, settingsStore>>

(* setBrewProfile: saveProfile, then applyBrewProfile.                     *)
SetBrewProfile(p) ==
    /\ up = "up"
    /\ current' = p
    /\ \E w \in Written(profileFile, p) :
         /\ profileFile' = w.file
         /\ profileReply' = Reply(w.ok /\ ~ApplyRefused(p))
         /\ IF w.ok THEN ApplyBrewProfile(p) ELSE UNCHANGED machineVars
    /\ UNCHANGED <<up, settingsStore>>

(* setUserSettings: saveSettings, then applySettings.                      *)
SetUserSettings(t) ==
    /\ up = "up"
    /\ settings' = t
    /\ \E w \in Written(settingsFile, t) :
         /\ settingsFile' = w.file
         /\ settingsReply' = Reply(w.ok)
         /\ IF w.ok THEN SetSteamTemperature(t) ELSE UNCHANGED machineVars
    /\ UNCHANGED <<up, profileStore>>

(* The other operations of the machine, while the daemon is up.            *)
Operate ==
    /\ up = "up"
    /\ \/ \E state \in BOOLEAN : SetPowerState(state) \/ SetSteamModeState(state)
       \/ StartBrew
       \/ StopBrew
    /\ UNCHANGED <<up, profileStore, settingsStore>>

-----------------------------------------------------------------------------
(* The daemon stops at any time; a save may be cut after the truncation.   *)
Crash ==
    /\ up = "up"
    /\ up' = "down"
    /\ \/ UNCHANGED <<profileFile, settingsFile>>
       \/ profileFile' = Torn /\ UNCHANGED settingsFile
       \/ settingsFile' = Torn /\ UNCHANGED profileFile
    /\ UNCHANGED <<machineVars, current, profileReply, settings, settingsReply>>

(* loadSaved..., and loadDefault... where it throws.                       *)
Loaded(file, default) == IF file \in {Absent, Torn} THEN default ELSE file

StartRefused(p) == p \in BadSteps \cup BadStop

(* Daemon::Daemon: a new machine, both files loaded or defaulted, the      *)
(* profile and the settings applied...                                     *)
Start ==
    LET p == Loaded(profileFile, DefaultProfile)
        t == Loaded(settingsFile, DefaultSteam)
    IN  /\ up = "down"
        /\ ~StartRefused(p)
        /\ up' = "up"
        /\ current' = p /\ steps' = p /\ autoStop' = p
        /\ brewTarget' = TempOf[p]
        /\ settings' = t /\ steamTarget' = t
        /\ steam' \in BOOLEAN
        /\ power' = FALSE /\ brewing' = FALSE
        /\ brewHeat' = FALSE /\ steamHeat' = FALSE
        /\ indicated' = None
        /\ timer' = "zero"
        /\ broken' = FALSE
        /\ profileReply' = "OK" /\ settingsReply' = "OK"
        /\ UNCHANGED <<profileFile, settingsFile>>

\* A slip: the exception of a file that does not parse is not caught.
StartFailsOnTorn ==
    /\ up \in {"down", "failed"}
    /\ profileFile = Torn \/ StartRefused(Loaded(profileFile, DefaultProfile))
    /\ up' = "failed"
    /\ UNCHANGED <<machineVars, profileStore, settingsStore>>

(* ...where an exception of applyBrewProfile leaves the constructor and    *)
(* ends the daemon.  It may be started again, by hand.                     *)
StartFails ==
    /\ up \in {"down", "failed"}
    /\ StartRefused(Loaded(profileFile, DefaultProfile))
    /\ up' = "failed"
    /\ UNCHANGED <<machineVars, profileStore, settingsStore>>

ProfilesNext ==
    \/ \E p \in Profiles : SetBrewProfile(p)
    \/ \E t \in Temps : SetUserSettings(t)
    \/ Operate
    \/ Crash
    \/ Start
    \/ StartFails

ProfilesSpec == ProfilesInit /\ [][ProfilesNext]_profilesVars

-----------------------------------------------------------------------------
ProfilesTypeOK ==
    /\ MachineTypeOK
    /\ up \in {"up", "down", "failed"}
    /\ current \in Profiles
    /\ profileFile \in Profiles \cup {Absent, Torn}
    /\ profileReply \in {"OK", "ABORTED"}
    /\ settings \in Temps
    /\ settingsFile \in Temps \cup {Absent, Torn}
    /\ settingsReply \in {"OK", "ABORTED"}

(* A profile or a setting whose call was answered OK, or that was loaded at *)
(* the start, is what the machine uses, whole, whatever happened since.    *)
AnsweredIsApplied ==
    /\ up = "up" /\ profileReply = "OK" =>
         steps = current /\ autoStop = current /\ brewTarget = TempOf[current]
    /\ up = "up" /\ settingsReply = "OK" => steamTarget = settings

(* A torn or missing file never keeps the daemon from starting; only a      *)
(* profile that parses and that applyBrewProfile refuses does.             *)
FailsOnlyOnRefusedProfile == up = "failed" => StartRefused(profileFile)

(* Nothing is under way while a profile changes: the steps and the stop     *)
(* condition of a running brew stay what they were.                        *)
RunningBrewKeepsProfile ==
    [][brewing /\ brewing' => UNCHANGED <<steps, autoStop>>]_profilesVars

(* config.md calls the file "the active brew profile file": what it holds   *)
(* is what the machine brews.                                              *)
FileHoldsActiveProfile ==
    up = "up" /\ profileFile \in Profiles =>
        steps = profileFile /\ brewTarget = TempOf[profileFile]
==============================================================================
