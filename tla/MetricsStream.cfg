CONSTANTS
    Half = 2
    MaxTime = 4
    MaxNotifies = 2
SPECIFICATION FairSpec
INVARIANTS
    WritesDoNotOverlap
PROPERTIES
    MetricsShowBrewTime
    EndedMetricsAreDeleted
