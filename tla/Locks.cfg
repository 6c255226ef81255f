SPECIFICATION FairSpec
CONSTANTS
    c1 = c1  c2 = c2  c3 = c3  c4 = c4
    u1 = u1  u2 = u2  u3 = u3
    k1 = k1  k2 = k2
    e1 = e1  e2 = e2  e3 = e3  e4 = e4
    m1 = m1  m2 = m2  m3 = m3
    n1 = n1
    Call = {c1, c2, c3, c4}
    UserId = {u1, u2, u3}
    CompanyId = {k1, k2}
    EmployeeId = {e1, e2, e3, e4}
    Text = {m1, m2, m3}
    Name = {n1}
    MaxDate = 0
    Unborn = Unborn
    Gone = Gone
    NoWrite = NoWrite
    NoLock = NoLock
    Statements <- MCStatements
    Seed <- MCSeed
INVARIANT TypeOK
PROPERTIES StatementsAreAtomic DeadlocksTakeTwo StatementsEnd
CHECK_DEADLOCK FALSE
