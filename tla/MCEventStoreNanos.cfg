\* Times between microseconds
SPECIFICATION Spec
SYMMETRY WorkerSymmetry
CONSTANTS
    Workers = {w1, w2}
    Instants <- Nanos
    Micros <- MCMicros
    EventKeys <- MCEventKeys
    Collation <- BytewiseCollation
    Zones <- MCZones
    Spellings <- MCText
    Text <- MCText
    TrimSpace <- MCTrimSpace
    ToLower <- MCTrimSpace
    KeySpellings <- MCKeySpellings
    KeyRank <- MCKeyRank
    Payloads <- MCPayloads
    Events <- NanoEvents
    Deliveries <- NanoDeliveries
INVARIANTS
    StoredRevisionIsGoFreshest
