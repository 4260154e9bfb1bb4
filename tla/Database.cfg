CONSTANTS
    Watched <- MCWatched
    Stars = 1
    LastDay = 2
    MaxRuns = 3
    MaxEvents = 1
    MaxStored = 1
SPECIFICATION Spec
INVARIANTS ListsLeadOn MigrationsFit SeedsFit CompletedRunsLeaveAll RatingsReconcile
PROPERTIES SeedingAgainAddsNothing
CHECK_DEADLOCK FALSE
