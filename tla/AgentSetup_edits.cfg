SPECIFICATION MCSpec
CONSTANTS
    Models = {"m1", "m2"}
    Ports = {"p1", "p2"}
    None = "none"
    RuleTables <- MCRuleTables
    RoleTables <- MCRoleTables
    MaxEdits = 4
INVARIANTS
    UserStateKept
    FacesAgree
  CHECK_DEADLOCK FALSE
