CONSTANTS
    good = good
    badStep = badStep
    warm = warm
    hot = hot
    Temps = {warm, hot}
    Profiles = {good, badStep}
    TempOf <- MCTempOf
    BadSteps = {badStep}
    BadStop = {}
    DefaultProfile = good
    DefaultSteam = warm
    Absent = Absent
    Torn = Torn
    None = None
    MayThrow = FALSE
    Sinks = {s1}
    Steps = {0}
    MaxTasks = 3
SPECIFICATION DispatcherFairSpec
INVARIANTS
    StreamsKnowMode
    StreamsKnowBrew
    StreamsKnowProfile
    OffAfterFinal
PROPERTIES
    StoppedForOwnEnd
    EndedBrewStops
