-------------------------------- MODULE MCLocks --------------------------------
EXTENDS Locks, Sequences, TLC

CONSTANTS c1, c2, c3, c4, u1, u2, u3, k1, k2, e1, e2, e3, e4, m1, m2, m3, n1

K(t) == [text |-> t, spelling |-> "lower"]
Table(ids, rows) == [i \in ids |-> IF i \in DOMAIN rows THEN rows[i] ELSE Unborn]

aUser(m) == [email |-> K(m), name |-> n1, status |-> "active"]
aCompany(m) == [code |-> K(m), name |-> n1, status |-> "active"]
anEmployee(m, u) == [company |-> k1, code |-> K(m), user |-> u, status |-> "active",
                     hired |-> NoDate, terminated |-> NoDate]

\* A company with two employees.
MCSeed == {[users |-> Table(UserId, (u1 :> aUser(m1)) @@ (u2 :> aUser(m2))),
            companies |-> Table(CompanyId, k1 :> aCompany(m1)),
            employees |-> Table(EmployeeId, (e1 :> anEmployee(m1, u1)) @@ (e2 :> anEmployee(m2, u2)))]}

W(t, k, i, r) == [table |-> t, kind |-> k, id |-> i, row |-> r]

\* Employees are hired with a code that is free or not, and exchange codes and users;
\* what they refer to is re-keyed and deleted.
InOrder == <<
    W("employees", "insert", e3, anEmployee(m3, u1)), W("employees", "insert", e4, anEmployee(m3, u2)),
    W("employees", "insert", e3, anEmployee(m1, u2)),
    W("employees", "update", e1, anEmployee(m1, u1)), W("employees", "update", e1, anEmployee(m3, u1)),
    W("employees", "update", e1, anEmployee(m2, u2)),
    W("employees", "update", e2, anEmployee(m1, u2)), W("employees", "update", e2, anEmployee(m3, u1)),
    W("employees", "delete", e1, Gone),
    W("users", "insert", u3, aUser(m1)),
    W("users", "update", u1, [aUser(m1) EXCEPT !.status = "inactive"]),
    W("users", "delete", u1, Gone),
    W("companies", "insert", k2, aCompany(m2)), W("companies", "delete", k1, Gone),
    W("companies", "update", k1, [aCompany(m1) EXCEPT !.status = "inactive"]),
    W("companies", "update", k1, aCompany(m2)) >>

\* Which call executes which statement does not matter; no two insert one row.
Inserts(v, w) == v.kind = "insert" /\ w.kind = "insert" /\ v.table = w.table /\ v.id = w.id

\* Any three of these with a fourth that finds no row and is over at once; and any
\* four different ones of those that queue for the rows e1 and k1.
NoRowThere == W("companies", "delete", k2, Gone)
InLine == {1, 4, 5, 8, 9, 12, 14}

MCStatements ==
    LET Call4(v, w, x, y) == (c1 :> v) @@ (c2 :> w) @@ (c3 :> x) @@ (c4 :> y)
        N == DOMAIN InOrder
        Threes == {Call4(InOrder[i], InOrder[j], InOrder[k], NoRowThere) :
                      <<i, j, k>> \in {t \in N \X N \X N : t[1] <= t[2] /\ t[2] <= t[3]}}
        Fours == {Call4(InOrder[i], InOrder[j], InOrder[k], InOrder[l]) :
                      <<i, j, k, l>> \in {t \in InLine \X InLine \X InLine \X InLine :
                                              t[1] < t[2] /\ t[2] < t[3] /\ t[3] < t[4]}}
    IN {f \in Threes \cup Fours : \A c, d \in Call : c # d => ~Inserts(f[c], f[d])}
===============================================================================
