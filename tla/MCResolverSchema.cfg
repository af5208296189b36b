\* One call of ResolveBatch; it stops when it has returned.
SPECIFICATION Spec
CHECK_DEADLOCK FALSE
CONSTANTS
    Instants <- MCInstants
    Micros <- MCMicros
    EventKeys <- MCEventKeys
    Collation <- MCCollation
    Zones <- MCZones
    TrimSpace <- MCTrimSpace
    Spellings <- MCSpellings
    Text <- MCText
    ToLower <- MCToLower
    KeyRank <- MCKeyRank
    KeySpellings <- MCKeySpellings
    Payloads <- MCPayloads
    Events <- MCEvents
    Batches <- MCBatches
    Policies <- MCPolicies
INVARIANT
    LifecycleStateInSchema
