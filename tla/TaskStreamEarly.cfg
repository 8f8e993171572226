SPECIFICATION Spec
CONSTANTS
    Slot <- MCSlot
    Tab = {t1}
    SkillRetries = 1
    MaxEvents = 1
INVARIANTS
    ToldIsFinal
CHECK_DEADLOCK FALSE
