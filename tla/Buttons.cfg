CONSTANTS
    Temps = {t}
    Profiles = {p}
    None = None
    MayThrow = FALSE
    Bistable = {"brew", "steam"}
    MaxQueue = 3
SPECIFICATION Spec
INVARIANTS
    SwitchesObeyed
