SPECIFICATION FairSpec
CONSTANTS
    Run = {m1, m2, m3}
    Files = 3
    Creates = {1, 2}
    MaxFailures = 1
INVARIANTS
    AppliedAtMostOnce
    UpToDateIsTrue
PROPERTIES
    MigrationsCountUp
    RunsEnd
    SchemaArrives
