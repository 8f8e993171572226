SPECIFICATION FairSpec
CONSTANTS
    Slot = {1}
    Tab = {t1, t2}
    SkillRetries = 0
    MaxEvents = 1
PROPERTIES
    EveryListenerIsTold
CHECK_DEADLOCK FALSE
