CONSTANTS
    Id <- MCId
    Time <- MCTime
    DefaultSize = 1
    MaxSize = 2
    MaxChange = 2
    Unborn = Unborn
    Gone = Gone
    Unset = Unset
SPECIFICATION FairSpec
INVARIANTS TypeOK RepeatsBounded SkipsBounded
PROPERTIES TokenInList WalkEnds
CHECK_DEADLOCK FALSE
