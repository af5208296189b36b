\* Safety: any two calls race, over versions 0 to 3
SPECIFICATION Spec
SYMMETRY CallerSymmetry
CONSTANTS
    Callers = {c1, c2}
    Subjects <- MCSubjects
    Bodies <- MCBodies
    Projections <- FourTuples
    MaxRemovals = 1
    Instants <- MCInstants
    Micros <- MCMicros
    EventKeys <- MCEventKeys
    Collation <- MCCollation
INVARIANTS
    TypeOK
    OneWinnerPerVersion
    NoLostUpdate
    VersionsFollowFreshness
    HistoryStartsAtZero
    LockedSnapshotIsCurrent
