------------------------------ MODULE MCDirectory ------------------------------
(* Workloads and initial databases for TLC.  Each configuration picks one      *)
(* workload: which requests may arrive.                                        *)
EXTENDS Directory, TLC

CONSTANTS c1, c2, c3,              \* calls
          u1, u2, u3, u4,          \* users: u1 and u2 may exist at first
          k1, k2, k3, k4,          \* companies: k1 and k2 may exist at first
          e1, e2, e3,              \* employees: e1 may exist at first
          m1, m2, m3,              \* texts of keys
          n1, n2                   \* names

K(t) == [text |-> t, spelling |-> "lower"]
Mixed(t) == [text |-> t, spelling |-> "mixed"]

Table(ids, rows) == [i \in ids |-> IF i \in DOMAIN rows THEN rows[i] ELSE Unborn]

aUser(m) == [email |-> K(m), name |-> n1, status |-> "active"]
aCompany(m) == [code |-> K(m), name |-> n1, status |-> "active"]
anEmployee(h, t) == [company |-> k1, code |-> K(m1), user |-> u1, status |-> "active",
                     hired |-> h, terminated |-> t]

Db(us, ks, es) == [users |-> Table(UserId, us), companies |-> Table(CompanyId, ks),
                   employees |-> Table(EmployeeId, es)]

None == [i \in {} |-> Gone]

\* A user and two companies; a company with one employee, and a user to spare.
KeySeed == {Db(u1 :> aUser(m1), (k1 :> aCompany(m1)) @@ (k2 :> aCompany(m2)), None)}
FullSeed == {Db((u1 :> aUser(m1)) @@ (u2 :> aUser(m2)), k1 :> aCompany(m1),
                e1 :> anEmployee(1, NoDate))}
-------------------------------------------------------------------------------
\* Users: creations that collide in spite of their spelling, updates of one or
\* both fields, deletions.
UserRequests ==
    [op : {"CreateUser"}, email : {K(m1), Mixed(m1), Mixed(m2), K(m2)}, name : {n1}]
    \cup [op : {"UpdateUser"}, id : {u1}, name : {Unset, n2}, status : {Unset, "inactive"}]
    \cup [op : {"DeleteUser", "GetUser"}, id : {u1}]

\* Companies: the same, and codes that move between two companies.
CompanyRequests ==
    [op : {"CreateCompany"}, code : {Mixed(m1), K(m3)}, name : {n1}]
    \cup [op : {"UpdateCompany"}, id : {k1}, code : {Unset, K(m1), Mixed(m2), Mixed(m3)},
          name : {Unset, n2}, status : {Unset}]
    \cup [op : {"UpdateCompany"}, id : {k2}, code : {Unset, K(m1), Mixed(m3)},
          name : {n2}, status : {Unset}]
    \cup [op : {"DeleteCompany", "GetCompany"}, id : {k1}]

KeyRequests == UserRequests \cup CompanyRequests

\* Employees, together with everything that deletes or re-keys what they refer to.
EmployeeRequests ==
    [op : {"CreateEmployee"}, company : {k1}, code : {Mixed(m1), Mixed(m2)}, user : {u2},
     status : {Unset}, hired : {NoDate}, terminated : {NoDate}]
    \cup [op : {"UpdateEmployee"}, id : {e1}, code : {K(m2)}, user : {Urn},
          status : {Unset}, hired : {UnsetDate}, terminated : {UnsetDate}]
    \cup [op : {"UpdateEmployee"}, id : {e1}, code : {Unset, K(m2)}, user : {Unset, u2},
          status : {Unset}, hired : {UnsetDate, 2}, terminated : {UnsetDate}]
    \cup [op : {"UpdateEmployee"}, id : {e1}, code : {Unset}, user : {Unset},
          status : {Unset}, hired : {UnsetDate}, terminated : {1}]
    \cup [op : {"DeleteEmployee", "GetEmployee"}, id : {e1}]
    \cup [op : {"DeleteUser"}, id : {u1, u2}]
    \cup [op : {"UpdateCompany"}, id : {k1}, code : {Unset, K(m2)}, name : {n2}, status : {Unset}]
    \cup [op : {"DeleteCompany"}, id : {k1}]

\* Both kinds of races, each on either database.
RacingRequests == KeyRequests \cup EmployeeRequests
RacingSeeds == KeySeed \cup FullSeed

\* A little of everything.
MixedRequests ==
    EmployeeRequests
    \cup [op : {"CreateUser"}, email : {Mixed(m1), K(m3)}, name : {n1}]
    \cup [op : {"UpdateUser"}, id : {u1, u2}, name : {Unset, n2}, status : {Unset}]
    \cup [op : {"CreateCompany"}, code : {K(m1), K(m2)}, name : {n1}]

\* Every request there is, the invalid ones included.
EveryRequest ==
    CreateUserRequest \cup UpdateUserRequest \cup UserIdRequest
    \cup CreateCompanyRequest \cup UpdateCompanyRequest \cup CompanyIdRequest
    \cup CreateEmployeeRequest \cup UpdateEmployeeRequest \cup EmployeeIdRequest

Symmetry == Permutations(Call)
===============================================================================
