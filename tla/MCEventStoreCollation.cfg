\* A collation that is not bytewise
SPECIFICATION Spec
SYMMETRY WorkerSymmetry
CONSTANTS
    Workers = {w1, w2}
    Instants <- Aligned
    Micros <- MCMicros
    EventKeys <- MCEventKeys
    Collation <- LinguisticCollation
    Zones <- MCZones
    Spellings <- MCText
    Text <- MCText
    TrimSpace <- MCTrimSpace
    ToLower <- MCTrimSpace
    KeySpellings <- MCKeySpellings
    KeyRank <- MCKeyRank
    Payloads <- MCPayloads
    Events <- KeyEvents
    Deliveries <- KeyDeliveries
INVARIANTS
    StoredRevisionIsGoFreshest
