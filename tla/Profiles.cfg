CONSTANTS
    good = good
    other = other
    badStep = badStep
    badStop = badStop
    warm = warm
    hot = hot
    Temps = {warm, hot}
    Profiles = {good, other, badStep, badStop}
    TempOf <- MCTempOf
    BadSteps = {badStep}
    BadStop = {badStop}
    DefaultProfile = good
    DefaultSteam = hot
    Absent = Absent
    Torn = Torn
    None = None
    MayThrow = FALSE
SPECIFICATION ProfilesSpec
INVARIANTS
    AnsweredIsApplied
    FailsOnlyOnRefusedProfile
PROPERTIES
    RunningBrewKeepsProfile
