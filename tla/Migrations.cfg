CONSTANTS
    p1 = p1
    p2 = p2
    a = a
    b = b
    m1 = m1
    m2 = m2
    Proc = {p1, p2}
    Employee = {a}
    Text = {m1}
    SeedUser = SeedUser
    NoEmail = NoEmail
    NoUser = NoUser
    Lost = Lost
    Nobody = Nobody
    MaxRun = 3
SPECIFICATION FairSpec
INVARIANTS TypeOK VersionNamesSchema DirtyIsExplained EmployeesKeepUsers
PROPERTIES BackfillIsRight RunsEnd
CHECK_DEADLOCK FALSE
