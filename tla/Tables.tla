-------------------------------- MODULE Tables --------------------------------
(* The PostgreSQL database as the migrations define it and the repositories    *)
(* use it: committed rows, and the one uncommitted write each transaction may  *)
(* hold.  (Every read-write use case executes exactly one writing statement,   *)
(* the last before COMMIT.)  Transactions run at READ COMMITTED, the default   *)
(* that BeginTx leaves in force: a SELECT sees committed rows and never waits; *)
(* a write waits for the uncommitted writes it conflicts with and then checks  *)
(* the constraints of the schema on committed rows.  A waiting statement is    *)
(* modelled as not yet executed: it takes all its locks at once.               *)
EXTENDS Integers, FiniteSets

CONSTANTS Call,                          \* one element per RPC
          UserId, CompanyId, EmployeeId, \* what gen_random_uuid() may return
          Text,                          \* keys (e-mail addresses, codes), less their case
          Name,                          \* names
          MaxDate,                       \* dates are 1..MaxDate
          Unborn, Gone,                  \* an id not generated yet; a deleted row
          NoWrite                        \* no uncommitted write

Spelling == {"lower", "mixed"}
Key == [text : Text, spelling : Spelling]
Status == {"active", "inactive"}
Date == 1..MaxDate
NoDate == 0                              \* a NULL date

UserRow == [email : Key, name : Name, status : Status]
CompanyRow == [code : Key, name : Name, status : Status]
EmployeeRow == [company : CompanyId, code : Key, user : UserId, status : Status,
                hired : Date \cup {NoDate}, terminated : Date \cup {NoDate}]
NotLive == {Unborn, Gone}

Write == [table : {"users"}, kind : {"insert", "update"}, id : UserId, row : UserRow]
         \cup [table : {"companies"}, kind : {"insert", "update"}, id : CompanyId, row : CompanyRow]
         \cup [table : {"employees"}, kind : {"insert", "update"}, id : EmployeeId, row : EmployeeRow]
         \cup [table : {"users"}, kind : {"delete"}, id : UserId, row : {Gone}]
         \cup [table : {"companies"}, kind : {"delete"}, id : CompanyId, row : {Gone}]
         \cup [table : {"employees"}, kind : {"delete"}, id : EmployeeId, row : {Gone}]

ASSUME TablesAssumption ==
    /\ MaxDate \in Nat
    /\ Unborn # Gone
    /\ NotLive \cap (UserRow \cup CompanyRow \cup EmployeeRow) = {}
    /\ NoWrite \notin Write

VARIABLES users, companies, employees,   \* committed rows
          pend                           \* uncommitted write of each call

tables == <<users, companies, employees>>

TablesTypeOK == /\ users \in [UserId -> UserRow \cup NotLive]
                /\ companies \in [CompanyId -> CompanyRow \cup NotLive]
                /\ employees \in [EmployeeId -> EmployeeRow \cup NotLive]
                /\ pend \in [Call -> Write \cup {NoWrite}]

-------------------------------------------------------------------------------
Live(table) == {i \in DOMAIN table : table[i] \notin NotLive}

Rows(t) == CASE t = "users" -> users
             [] t = "companies" -> companies
             [] t = "employees" -> employees

\* The UNIQUE columns: users.email, companies.code and, within a company,
\* employees.employee_code.  They compare exact spellings.
UniqueKey(t, row) == CASE t = "users" -> row.email
                       [] t = "companies" -> row.code
                       [] t = "employees" -> <<row.company, row.code>>

Exists(w) == w.kind = "insert" \/ w.id \in Live(Rows(w.table))

\* Does the write give its row a new unique key, or a new user to refer to?
SetsKey(w) == \/ w.kind = "insert"
              \/ /\ w.kind = "update" /\ w.id \in Live(Rows(w.table))
                 /\ UniqueKey(w.table, w.row) # UniqueKey(w.table, Rows(w.table)[w.id])

SetsUser(w) == /\ w.table = "employees"
               /\ \/ w.kind = "insert"
                  \/ /\ w.kind = "update" /\ w.id \in Live(employees)
                     /\ w.row.user # employees[w.id].user

\* The rows that hold the key a write sets, other than the written row.
KeyHolders(w) == {i \in Live(Rows(w.table)) \ {w.id} :
                      UniqueKey(w.table, Rows(w.table)[i]) = UniqueKey(w.table, w.row)}

EmployeesOf(company) == {e \in Live(employees) : employees[e].company = company}
EmployeesBeing(user) == {e \in Live(employees) : employees[e].user = user}

\* Mistake: a schema without the cascade.
RemovesItselfOnly(w, t, i) == w.kind = "delete" /\ w.table = t /\ w.id = i

\* ON DELETE CASCADE: deleting a company removes its employees.
Removes(w, t, i) ==
    /\ w.kind = "delete"
    /\ \/ w.table = t /\ w.id = i
       \/ w.table = "companies" /\ t = "employees" /\ i \in EmployeesOf(w.id)

-------------------------------------------------------------------------------
\* Row and index locks: must w wait for the transaction that wrote v?

\* Both update or remove one row.
SameRow(v, w) == /\ w.kind # "insert"
                 /\ \/ v.kind = "update" /\ v.table = w.table /\ v.id = w.id
                    \/ Removes(v, w.table, w.id)

\* w sets a key that v is setting or is about to free.
SameKey(v, w) ==
    /\ SetsKey(w)
    /\ \/ /\ v.table = w.table /\ v.kind # "delete"
          /\ UniqueKey(v.table, v.row) = UniqueKey(w.table, w.row)
       \/ \E i \in KeyHolders(w) : \/ Removes(v, w.table, i)
                                   \/ v.table = w.table /\ v.id = i /\ SetsKey(v)

\* w sets a foreign key (FOR KEY SHARE on the referenced row) while v deletes
\* that row or changes its key columns.
Referenced(v, w) ==
    \/ SetsUser(w) /\ Removes(v, "users", w.row.user)
    \/ /\ w.table = "employees" /\ w.kind = "insert"
       /\ v.table = "companies" /\ v.id = w.row.company
       /\ (v.kind = "delete" \/ SetsKey(v))

\* w deletes a row, or changes its key columns, that v has just referred to; or
\* the cascade or the RESTRICT check of w meets a row that v has locked.
Referring(v, w) ==
    \/ /\ w.table = "users" /\ w.kind = "delete"
       /\ \/ SetsUser(v) /\ v.row.user = w.id
          \/ \E e \in EmployeesBeing(w.id) : \/ Removes(v, "employees", e)
                                             \/ v.table = "employees" /\ v.id = e /\ SetsKey(v)
    \/ /\ w.table = "companies" /\ (w.kind = "delete" \/ SetsKey(w))
       /\ v.table = "employees" /\ v.kind = "insert" /\ v.row.company = w.id
    \/ /\ w.table = "companies" /\ w.kind = "delete"
       /\ v.table = "employees" /\ v.id \in EmployeesOf(w.id)

MustWait(c, w) == \E d \in Call \ {c} :
    /\ pend[d] # NoWrite
    /\ \/ SameRow(pend[d], w) \/ SameKey(pend[d], w)
       \/ Referenced(pend[d], w) \/ Referring(pend[d], w)

-------------------------------------------------------------------------------
\* CHECK employees_terminated_after_hired
PeriodOK(row) == \/ row.hired = NoDate \/ row.terminated = NoDate
                 \/ row.terminated >= row.hired

\* Mistake: a schema without the foreign key of migration 0004.
BrokenCompanyReference(w) ==
    {f \in {"employees_company_id_fkey"} :
        w.table = "employees" /\ w.kind = "insert" /\ w.row.company \notin Live(companies)}

BrokenReferences(w) ==
    {f \in {"employees_company_id_fkey", "employees_user_id_fkey"} :
        \/ /\ f = "employees_company_id_fkey"
           /\ w.table = "employees" /\ w.kind = "insert" /\ w.row.company \notin Live(companies)
        \/ /\ f = "employees_user_id_fkey"
           /\ \/ SetsUser(w) /\ w.row.user \notin Live(users)
              \/ w.table = "users" /\ w.kind = "delete" /\ EmployeesBeing(w.id) # {}}

\* What the database may answer to a write that waits for nobody: CHECK and
\* UNIQUE are tested with the row, foreign keys at the end of the statement.
Answers(w) ==
    CASE ~Exists(w) -> {"no rows"}
      [] Exists(w) /\ w.table = "employees" /\ w.kind # "delete" /\ ~PeriodOK(w.row) -> {"23514"}
      [] OTHER -> IF SetsKey(w) /\ KeyHolders(w) # {} THEN {"23505"}
                  ELSE IF BrokenReferences(w) # {} THEN BrokenReferences(w) ELSE {"ok"}

\* COMMIT makes the write of call c visible, with its cascade.
Install(c) ==
    LET w == pend[c]
        Put(t, rows) == [i \in DOMAIN rows |->
                            IF w # NoWrite /\ w.kind = "delete" /\ Removes(w, t, i) THEN Gone
                            ELSE IF w # NoWrite /\ w.table = t /\ w.id = i THEN w.row
                            ELSE rows[i]]
    IN /\ users' = Put("users", users)
       /\ companies' = Put("companies", companies)
       /\ employees' = Put("employees", employees)
       /\ pend' = [pend EXCEPT ![c] = NoWrite]

Discard(c) == pend' = [pend EXCEPT ![c] = NoWrite] /\ UNCHANGED tables
===============================================================================
