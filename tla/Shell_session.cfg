SPECIFICATION MCSpec
CONSTANTS
    Handlers = {"h1", "h2"}
    Configs = {"c1", "c2"}
    BadConfig = "bad"
    None = "none"
    Misses = 2
    Families <- MCFamilies
INVARIANTS
    
    ServedIsSaved
    NoStrayCapture
    
CHECK_DEADLOCK FALSE
PROPERTIES
    ZombieIsRebuilt
    SaveRevives
    SleepIsHeld
