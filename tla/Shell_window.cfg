SPECIFICATION MCSpec
CONSTANTS
    Handlers = {"h1", "h2"}
    Configs = {"c1", "c2"}
    BadConfig = "bad"
    None = "none"
    Misses = 2
    Families <- MCServer
INVARIANT
    WindowIsServed
CHECK_DEADLOCK FALSE
