CONSTANTS
    c1 = c1
    c2 = c2
    c3 = c3
    u1 = u1
    u2 = u2
    u3 = u3
    u4 = u4
    k1 = k1
    k2 = k2
    k3 = k3
    k4 = k4
    e1 = e1
    e2 = e2
    e3 = e3
    m1 = m1
    m2 = m2
    m3 = m3
    n1 = n1
    n2 = n2
    Call = {c1, c2, c3}
    UserId = {u1, u2, u3, u4}
    CompanyId = {k1, k2, k3, k4}
    EmployeeId = {e1, e2, e3}
    Text = {m1, m2, m3}
    Name = {n1, n2}
    MaxDate = 2
    Unborn = Unborn
    Gone = Gone
    NoWrite = NoWrite
    NoRow = NoRow
    Unset = Unset
    Blank = Blank
    Malformed = Malformed
    Urn = Urn
    Request <- RacingRequests
    Seed <- RacingSeeds
    Faults = FALSE
SPECIFICATION Spec
SYMMETRY Symmetry
INVARIANTS UniqueKeys UniqueEmployeeCodes EmployeesValid InternalIsExplained
PROPERTIES AlreadyExistsIsTrue NotFoundIsTrue
CHECK_DEADLOCK FALSE
