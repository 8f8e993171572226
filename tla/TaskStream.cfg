SPECIFICATION FairSpec
CONSTANTS
    Slot <- MCSlot
    Tab = {t1}
    SkillRetries = 1
    MaxEvents = 1
INVARIANTS
    
    RecordNotOptimistic
    QueuesAreListened
    LastSnapshotIsFinal
PROPERTIES
    ListenerIsTold
CHECK_DEADLOCK FALSE
