\* A retroactive update and its correction, arriving in any order
SPECIFICATION PipelineSpec
CONSTANTS
    Callers = {c1, c2}
    Subjects <- MCSubjects
    Bodies <- MCBodies
    Projections <- MCProjections
    MaxRemovals = 0
    Instants <- MCInstants
    Micros <- MCMicros
    EventKeys <- MCEventKeys
    Collation <- MCCollation
    Facts <- MCFacts
INVARIANT
    RowSaysWhatFactsSay
PROPERTIES
    ForgetsOnlyAtBootstrap
    LastFactPersists
    WritersReturn
