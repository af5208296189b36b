\* A database that rounds times and orders keys its own way
SPECIFICATION Spec
SYMMETRY WorkerSymmetry
CONSTANTS
    Workers = {w1, w2}
    Instants <- Nanos
    Micros <- MCMicros
    EventKeys <- MCEventKeys
    Collation <- LinguisticCollation
    Zones <- MCZones
    Spellings <- MCText
    Text <- MCText
    TrimSpace <- MCTrimSpace
    ToLower <- MCTrimSpace
    KeySpellings <- MCKeySpellings
    KeyRank <- MCKeyRank
    Payloads <- MCPayloads
    Events <- NanoEvents
    Deliveries <- NanoDeliveries
INVARIANTS
    TypeOK
    OneEventPerKey
    FreshestRevisionStored
    TableDependsOnSetOnly
    BackedByPhysicalEvent
PROPERTIES
    ReplaysAccepted
    RowsOnlyAdvance
