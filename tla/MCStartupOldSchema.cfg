SPECIFICATION Spec
CONSTANTS
    asked = asked
    beside = beside
    bare = bare
    Containers <- MCContainers
    WithDatabase <- MCWithDatabase
    SkipSeed <- MCSkipSeed
    Asked <- MCAsked
    MaxOutages = 1
    MaxRestarts = 1
INVARIANT
    HealthyMeansMigrated
