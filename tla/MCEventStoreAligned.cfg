\* Whole microseconds and a bytewise collation
SPECIFICATION Spec
SYMMETRY WorkerSymmetry
CONSTANTS
    Workers = {w1, w2}
    Instants <- Aligned
    Micros <- MCMicros
    EventKeys <- MCEventKeys
    Collation <- BytewiseCollation
    Zones <- MCZones
    Spellings <- MCText
    Text <- MCText
    TrimSpace <- MCTrimSpace
    ToLower <- MCTrimSpace
    KeySpellings <- MCKeySpellings
    KeyRank <- MCKeyRank
    Payloads <- MCPayloads
    Events <- AlignedEvents
    Deliveries <- AlignedDeliveries
INVARIANTS
    StoredRevisionIsGoFreshest
    UpsertNeverRefused
