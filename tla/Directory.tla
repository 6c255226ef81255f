------------------------------- MODULE Directory -------------------------------
(* The whole server seen from its clients: concurrent RPCs of the user, company*)
(* and employee services on one database.  Every RPC is a goroutine of its own *)
(* and handles one request.                                                    *)
EXTENDS UserService, CompanyService, EmployeeService

CONSTANTS Request,         \* the requests clients may send
          Seed             \* the contents the database may have at first

ASSUME DirectoryAssumption ==
    /\ \A r \in Request : \/ r \in CreateUserRequest \/ r \in UpdateUserRequest \/ r \in UserIdRequest
                          \/ r \in CreateCompanyRequest \/ r \in UpdateCompanyRequest
                          \/ r \in CompanyIdRequest
                          \/ r \in CreateEmployeeRequest \/ r \in UpdateEmployeeRequest
                          \/ r \in EmployeeIdRequest
    /\ \A s \in Seed : /\ s.users \in [UserId -> UserRow \cup NotLive]
                       /\ s.companies \in [CompanyId -> CompanyRow \cup NotLive]
                       /\ s.employees \in [EmployeeId -> EmployeeRow \cup NotLive]
    /\ {Blank, Malformed} \cap (UserOps \cup CompanyOps \cup EmployeeOps) = {}
    /\ {Blank, Malformed} \cap (Date \cup {NoDate, BadDate, UnsetDate}) = {}

TypeOK == /\ TablesTypeOK
          /\ pc \in [Call -> Location]
          /\ req \in [Call -> Request \cup {NoRequest}]
          /\ seen \in [Call -> UserRow \cup CompanyRow \cup EmployeeRow \cup {NoRow}]
          /\ code \in [Call -> Code \cup {"none"}]
          /\ trans \in [Call -> Transaction]

-------------------------------------------------------------------------------
\* Two users never have the same e-mail address and two companies never the same
\* code, whatever the spelling: both are lowered before they are stored, so the
\* UNIQUE columns, which compare exact spellings, are case-insensitive in effect.
SameText(k, l) == k.text = l.text

UniqueKeys ==
    /\ \A u, v \in Live(users) : SameText(users[u].email, users[v].email) => u = v
    /\ \A k, l \in Live(companies) : SameText(companies[k].code, companies[l].code) => k = l

\* Two employees of one company never have the same code in any spelling, whether
\* they were created with it, given it, or hired after a cascade; those of two
\* companies may.
UniqueEmployeeCodes ==
    \A e, f \in Live(employees) : /\ employees[e].company = employees[f].company
                                  /\ SameText(employees[e].code, employees[f].code)
                                  => e = f

\* Every employee belongs to a company and is a user that exist, and leaves no
\* earlier than hired, however creation, re-assignment, new dates and deletion of
\* the three interleave.
EmployeesValid ==
    \A e \in Live(employees) : /\ employees[e].company \in Live(companies)
                               /\ employees[e].user \in Live(users)
                               /\ PeriodOK(employees[e])

\* The server stores keys in lower case only, so rows it has stored have such keys.
KeysLowered == /\ \A u \in Live(users) : users[u].email.spelling = "lower"
               /\ \A k \in Live(companies) : companies[k].code.spelling = "lower"
               /\ \A e \in Live(employees) : employees[e].code.spelling = "lower"

SeedOK(s) == /\ users = s.users /\ companies = s.companies /\ employees = s.employees
             /\ UniqueKeys /\ UniqueEmployeeCodes /\ KeysLowered /\ EmployeesValid

Init == /\ \E s \in Seed : SeedOK(s)
        /\ pend = [c \in Call |-> NoWrite]
        /\ pc = [c \in Call |-> "idle"]
        /\ req = [c \in Call |-> NoRequest]
        /\ seen = [c \in Call |-> NoRow]
        /\ code = [c \in Call |-> "none"]
        /\ trans = [c \in Call |-> "none"]

RequestError(r) == CASE r.op \in UserOps -> UserRequestError(r)
                     [] r.op \in CompanyOps -> CompanyRequestError(r)
                     [] r.op \in EmployeeOps -> EmployeeRequestError(r)

Receive(c) == pc[c] = "idle" /\ \E r \in Request : Arrive(c, r, RequestError(r))

\* What a goroutine does by itself once its request has arrived.
Serve(c) == UserStep(c) \/ CompanyStep(c) \/ EmployeeStep(c) \/ Commit(c) \/ Rollback(c)

Late(c) == LateCommit(c) \/ LateRollback(c)

Next == \E c \in Call : \/ Receive(c) \/ Serve(c) \/ Late(c)
                        \/ BeginFails(c) \/ ConnectionLost(c) \/ CommitAnswerLost(c)

Spec == Init /\ [][Next]_vars

\* Goroutines run, and the database finishes what it has begun.  Clients need not
\* send anything.
FairSpec == Spec /\ \A c \in Call : WF_vars(Serve(c)) /\ WF_vars(Late(c))
-------------------------------------------------------------------------------
Answered(c) == pc[c] = "done"

\* A call answered OK has taken effect; one answered with any other code has not
\* and never will, except that INTERNAL says nothing when COMMIT was lost.
Told(c) == CASE Answered(c) /\ code[c] = "OK" -> "ok"
             [] Answered(c) /\ code[c] = "Internal" -> "unknown"
             [] Answered(c) /\ code[c] \notin {"OK", "Internal"} -> "failed"
             [] OTHER -> "none"

UnitOfWorkPerCall == INSTANCE UnitOfWork
                       WITH outcome <- [c \in Call |-> Told(c)],
                            effect <- [c \in Call |-> trans[c] = "committed"]

HonestCodes == UnitOfWorkPerCall!Spec

\* Who may change what: each row changes in the very step that makes the call
\* that asked for it durable, and only in the columns that call may change.  An
\* e-mail address never changes, nobody moves an employee to another company, a
\* deleted row never comes back, and deleting a user deletes no employee.
Commits(c, op) == /\ trans[c] # "committed" /\ trans'[c] = "committed"
                  /\ req[c].op = op

RowsChangeByRequest ==
    /\ \A u \in UserId : users'[u] # users[u] =>
          \E c \in Call :
             \/ /\ Commits(c, "CreateUser") /\ users[u] = Unborn
                /\ SameText(users'[u].email, req[c].email) /\ users'[u].name = req[c].name
             \/ /\ Commits(c, "UpdateUser") /\ req[c].id = u
                /\ users[u] \notin NotLive /\ users'[u] \notin NotLive
                /\ users'[u].email = users[u].email
             \/ Commits(c, "DeleteUser") /\ req[c].id = u /\ users'[u] = Gone
    /\ \A k \in CompanyId : companies'[k] # companies[k] =>
          \E c \in Call :
             \/ /\ Commits(c, "CreateCompany") /\ companies[k] = Unborn
                /\ SameText(companies'[k].code, req[c].code)
             \/ /\ Commits(c, "UpdateCompany") /\ req[c].id = k
                /\ companies[k] \notin NotLive /\ companies'[k] \notin NotLive
             \/ Commits(c, "DeleteCompany") /\ req[c].id = k /\ companies'[k] = Gone
    /\ \A e \in EmployeeId : employees'[e] # employees[e] =>
          \E c \in Call :
             \/ /\ Commits(c, "CreateEmployee") /\ employees[e] = Unborn
                /\ employees'[e].company = req[c].company /\ employees'[e].user = req[c].user
             \/ /\ Commits(c, "UpdateEmployee") /\ req[c].id = e
                /\ employees[e] \notin NotLive /\ employees'[e] \notin NotLive
                /\ employees'[e].company = employees[e].company
             \/ /\ employees'[e] = Gone /\ employees[e] \notin NotLive
                /\ \/ Commits(c, "DeleteEmployee") /\ req[c].id = e
                   \/ Commits(c, "DeleteCompany") /\ req[c].id = employees[e].company

RowsChangeOnlyByRequest == [][RowsChangeByRequest]_vars

\* The key the call asks for, or has read and writes back.
KeyAsked(c) == IF req[c].op = "CreateUser" THEN normalizeEmail(req[c].email)
               ELSE IF req[c].code # Unset THEN normalizeCode(req[c].code)
               ELSE seen[c].code

\* Rows with that key.
KeyOwners(c) ==
    CASE req[c].op = "CreateUser" -> FindByEmail(KeyAsked(c))
      [] req[c].op \in CompanyOps -> FindByCode(KeyAsked(c))
      [] OTHER -> FindByCompanyAndCode(CompanyOf(c), KeyAsked(c))

Updates(c) == req[c].op \in {"UpdateCompany", "UpdateEmployee"}

KeyIsTaken(c) ==
    \E i \in KeyOwners(c) : Updates(c) /\ i = req[c].id => seen[c].code # KeyAsked(c)

\* The rows the call cannot do without.
SomethingIsMissing(c) ==
    LET r == req[c] IN
    CASE r.op \in {"CreateUser", "CreateCompany"} -> FALSE
      [] r.op \in UserOps -> r.id \notin Live(users)
      [] r.op \in CompanyOps -> r.id \notin Live(companies)
      [] r.op = "CreateEmployee" -> r.company \notin Live(companies) \/ r.user \notin Live(users)
      [] r.op = "UpdateEmployee" -> \/ r.id \notin Live(employees)
                                    \/ MergedEmployee(r, seen[c]).user \notin Live(users)
      [] OTHER -> r.id \notin Live(employees)

\* ALREADY_EXISTS is true when it is decided, whether by a look-up or by the UNIQUE
\* index: a committed row other than the written one holds the key, or the written
\* row has been given it since the call read that row.
AlreadyExistsIsTrue ==
    [][\A c \in Call : code'[c] # code[c] /\ code'[c] = "AlreadyExists" => KeyIsTaken(c)]_vars

\* NOT_FOUND is true when it is decided, whether by a look-up, by the count of rows
\* or by a foreign key: the row asked for, or one it must refer to, is not there.
NotFoundIsTrue ==
    [][\A c \in Call : code'[c] # code[c] /\ code'[c] = "NotFound" => SomethingIsMissing(c)]_vars

\* What only the database finds wrong with a user id.
Misread(r) == r.op \in {"CreateEmployee", "UpdateEmployee"} /\ r.user = Urn

\* Without faults (and without the deadlocks of Locks), INTERNAL answers three
\* kinds of request only: an id that is no UUID where nobody parses it, a user id
\* that uuid.Parse reads and PostgreSQL does not, and the deletion of a user who
\* is an employee.  Every other answer of the database reaches the client as a
\* code of its own.
IdsAsked(r) == CASE r.op = "CreateEmployee" -> {r.company}
                 [] r.op \in {"CreateUser", "CreateCompany"} -> {}
                 [] OTHER -> {r.id}

InternalIsExplained ==
    \A c \in Call : code[c] = "Internal" /\ ~Faults =>
        Malformed \in IdsAsked(req[c]) \/ Misread(req[c]) \/ req[c].op = "DeleteUser"

\* Handler, use case and database together accept what the code of the three
\* validates, and nothing else: a request answered OK has no blank or malformed
\* field, no user id that PostgreSQL cannot read and no period in the wrong order;
\* one answered INVALID_ARGUMENT has a blank or malformed field or such a period,
\* and never just a misread user id.  INTERNAL, which the faults aside answers what
\* nobody translates, is for none of the other valid requests but a DeleteUser.
\* (An empty code or user id counts as blank here, as it does in the code; what
\* the documentation says of it is EmptyFieldIsCleared.)
HasInvalidField(r) == \/ \E f \in DOMAIN r : r[f] \in {Blank, Malformed}
                      \/ /\ r.op \in {"CreateEmployee", "UpdateEmployee"}
                         /\ BadDate \in {r.hired, r.terminated}

HasInvalidPeriod(c) ==
    \/ req[c].op = "CreateEmployee" /\ ~PeriodOK(req[c])
    \/ req[c].op = "UpdateEmployee" /\ seen[c] # NoRow /\ ~PeriodOK(MergedEmployee(req[c], seen[c]))

ValidationIsExact ==
    \A c \in Call :
        /\ code[c] = "OK" => ~HasInvalidField(req[c]) /\ ~Misread(req[c]) /\ ~HasInvalidPeriod(c)
        /\ code[c] = "InvalidArgument" => HasInvalidField(req[c]) \/ HasInvalidPeriod(c)
        /\ code[c] = "Internal" /\ ~Faults =>
              HasInvalidField(req[c]) \/ Misread(req[c]) \/ req[c].op = "DeleteUser"

\* Every request is answered: no set of RPCs, waiting for each other's rows,
\* blocks itself for good, not even on the locks of one whose client has been told
\* INTERNAL and is gone.
EveryCallAnswered == \A c \in Call : pc[c] # "idle" ~> Answered(c)

-------------------------------------------------------------------------------
(* What the documentation says and the code does not do.                       *)

\* docs/api/user-service.md, UpdateUser: a name left out is not changed.
NameUnsetIsKept ==
    [][\A c \in Call : Commits(c, "UpdateUser") /\ req[c].name = Unset =>
          users'[req[c].id].name = users[req[c].id].name]_vars

\* docs/api/company-service.md, errors: ALREADY_EXISTS is for a duplicate code,
\* that is, one that another company has.
AlreadyExistsMeansDuplicate ==
    [][\A c \in Call : /\ req[c].op = "UpdateCompany"
                       /\ code[c] # "AlreadyExists" /\ code'[c] = "AlreadyExists"
                       => KeyOwners(c) \ {req[c].id} # {}]_vars

\* docs/api/employee-service.md, UpdateEmployee: an empty employee_code or user_id
\* clears the value; so nothing is invalid about a request that has one, and
\* otherwise valid fields.
Cleared(f) == IF f = Blank THEN Unset ELSE f

EmptyFieldIsCleared ==
    \A c \in Call : req[c].op = "UpdateEmployee" =>
        LET r == [req[c] EXCEPT !.code = Cleared(@), !.user = Cleared(@)]
        IN  ~HasInvalidField(r) /\ ~HasInvalidPeriod(c) => code[c] # "InvalidArgument"
===============================================================================
