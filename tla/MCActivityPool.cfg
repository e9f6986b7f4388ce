SPECIFICATION FairSpec
CONSTANTS
    NoActivity = NoActivity
    Activities = {a1, a2, a3}
    Users = {u1, u2, u3}
    Target = 2
    Terminating = {u2}
    Returning = {}
INVARIANTS
    LentExactly
    StopReleasesAll
PROPERTIES
    StopCompletes
CHECK_DEADLOCK FALSE
