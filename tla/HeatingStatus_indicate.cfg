CONSTANTS
    Temps = {0, 1, 2}
    Targets = {1, 2}
    BrewWindow = 0
    SteamWindow = 1
    Period = 5
    Rates = {2}
    MaxGap = 2
    Sinks = {s1}
    None = None
    MaxQueue = 3
SPECIFICATION Spec
PROPERTIES
    ReadyIsEarned
