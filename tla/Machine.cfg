CONSTANTS
    Temps = {t1, t2}
    Profiles = {p1, p2}
    None = None
    MayThrow = TRUE
SPECIFICATION MachineSpec
INVARIANTS
    HeatersFollowMode
    IndicationFollowsController
    TimerFollowsBrewing
    OneDriverPerActuator
PROPERTIES
    PowerOffStopsEverything
