\* The same facts, and whether a late update can undo the termination
SPECIFICATION PipelineSpec
CONSTANTS
    Callers = {c1, c2}
    Subjects <- MCSubjects
    Bodies <- MCBodies
    Projections <- MCProjections
    MaxRemovals = 0
    Instants <- MCInstants
    Micros <- MCMicros
    EventKeys <- MCEventKeys
    Collation <- MCCollation
    Facts <- MCFacts
PROPERTY
    TerminationStands
